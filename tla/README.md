# MatrixOne ODBC driver: TLA+ models, model checking and proofs

This directory is a formal model of the core of the driver in `src/driver`: a
thin fork of MySQL Connector/ODBC 9.7 that speaks to MatrixOne
(`MATRIXONE_CHANGES.md`). Nine modules model the parts that keep state across
API calls; TLC checks them on small instances and TLAPS proves the main
invariants for every value of the constants. `PROJECT.json` lists the runs,
the lines of code behind every definition, the hazards and the theorems.

## 1. The system

The driver is a shared library that an application reaches through an ODBC
driver manager. It has no threads of its own: all concurrency comes from the
application calling in from several threads, all failure from the server, the
network and the data.

| Part | State it keeps | Operations | Correct when |
|---|---|---|---|
| Handle tree (`handle.cc`, `driver.h`, parts of `desc.cc`, `options.cc`) | ENV, DBC, STMT, DESC objects; `DBC::stmt_list`, `DBC::desc_list`, `DESC::stmt_list`; `STMT::apd/ard`; `need_to_wakeup` | allocate and free handles, connect, disconnect, pooled reset, assign, copy and free descriptors | no pointer to a freed handle is ever followed; lists and pointers agree |
| Rowsets and positioned changes (`results.cc`, `cursor.cc`, `compute_cur_row`) | `current_row`, `rows_found_in_set`, `end_of_set`, `cursor_row`, the client library's `data_cursor` | SQLFetch, SQLFetchScroll, SQLExtendedFetch, SQLSetPos | a fetch delivers the rows its numbers name, none skipped or repeated; a change hits the row meant |
| Parameter arrays (`execute.cc`) | `tempbuf`, status array, flags of `my_SQLExecute`, one diagnostic record | SQLExecute | the return code and the statuses tell which sets ran; only statements are sent |
| Data at execution (`execute.cc`, `cursor.cc`, `desc.cc`) | `dae_type`, `current_param`, `setpos_apd`, `DESCREC::par`, `tempbuf` | SQLExecute, SQLSetPos, SQLBulkOperations, SQLParamData, SQLPutData, SQLCancel | the query has the values supplied for it and nothing of an earlier sequence |
| Sharing a connection (all callers of `DBC::lock`) | `STMT::lock`, `DBC::lock`, cached `sql_select_limit`, pending results and row count in `MYSQL` | every call that sends a command, SQLCancel | commands do not meet on one `MYSQL` object; no deadlock; each statement sees its own results and limits |
| SQLGetData and output conversion (`results.cc`, `utility.cc`) | `STMT::getdata`, streamed output parameters | SQLGetData, SQLParamData for streams, conversions | the parts of a value join to the value; SQL_NO_DATA and SQL_SUCCESS tell the end |
| Session attributes and pooling (`options.cc`, `handle.cc`, `connect.cc`) | autocommit, isolation, `sql_select_limit`, `database`, `need_to_wakeup` | SQLSetConnectAttr, SQLEndTran, connect, reset, wake-up, reconnect | what the driver believes is what the session is; settings hold; no work is lost in silence |
| What a process shares (`dll.cc`, `handle.cc`, `error.cc`, `info.cc`, `connect.cc`) | `myodbc_inited`, `thread_count`, `myodbc3_errors`, `global_pool` | start and end of environments and connections, connecting | the client library outlives every connection; SQLSTATEs match the ODBC version; connections do not disturb each other's plugins |
| Preparing and parsing (`prepare.cc`, `parse.cc`, `my_stmt.cc`) | statement state, parsed query | SQLPrepare, choice of client or server preparation | a statement is executed in the way it was prepared |
| Scroller (`my_stmt.cc`) | offset, row count, limits of the prefetch window | `scroller_create/move/prefetch` | the windows cover the result once, and no more than the limits allow |
| Server-side statements, output parameters (`my_prepared_stmt.cc`) | bind buffers, out-parameter state | bind, fetch, stream | a stream is read for the parameter whose turn it is |
| Catalogue and information functions (`catalog*.cc`, `info.cc`) | none of their own | one SELECT or a table of constants each | outside TLC's interest except for locking |
| Connecting (`connect.cc`, `src/util`), entry points (`ansi.cc`, `unicode.cc`), telemetry, installer and dialogues | option strings | | |

How the parts interact: most entry points take `STMT::lock` (macro
`LOCK_STMT`), many also `DBC::lock` around their commands, then call into
the client library through `dbc->mysql`, which holds one set of pending
results, one row count and one server session for all statements of the
connection. SQLSetPos runs over the rowset that the fetch functions left;
SQLExecute, SQLSetPos and SQLBulkOperations can all be suspended by
SQL_NEED_DATA and resumed by SQLParamData from what is left in the statement;
descriptors can be shared between statements, and so can the data put into
them. SQLGetData reads from the row the fetch functions stand on; a scroller
stands between those functions and the server. A session can end and another
begin below all of them, and the client library, its plugins and the table of
SQLSTATEs are one for all connections of the process.

What is hard in this code: pointers kept in two places and maintained by
different functions (descriptors and their users, row numbers and row
pointers); buffers that only some paths empty (`tempbuf`, `DESCREC::par`,
`setpos_apd`); one return code for many outcomes; locks taken by some callers
of a function and not by others; per-connection state used as if it were
per-statement, and state of the process as if it were a connection's; caches of
a session that can be exchanged; counts of bytes, digits and characters in one
function; SQLCancel racing the call it cancels. `hazards` in
`PROJECT.json` has each of them at its line with the properties that would
catch it going wrong.

## 2. Modules

| Module | Models | Reads as |
|---|---|---|
| `Handles` | handle tree | one action per handle function; a handle is an address, so a freed one can be handed out again |
| `Cursor` | nothing of the code: what an application may rely on | abstract specification |
| `Rowset` | fetches and SQLSetPos on a stored result | actions `FetchRows`, `FetchBefore`, `SetPos…`; implements `Cursor` |
| `ParamSets` | the loop of `my_SQLExecute` | one action per stage of one set: ignore, convert, send, answer; `Return` does what follows the loop |
| `DataAtExec` | suspended executions and changes | one action per API call and outcome |
| `Connection` | locks and commands of concurrent calls | each API call is a program: a sequence of steps (lock, send, receive, …); one action per kind of step |
| `Transfer` | nothing of the code: what SQLGetData promises of a value read in parts | abstract specification |
| `GetData` | `STMT::getdata`, the `copy_*_result` functions, streamed output parameters | one operator per conversion, which returns the part delivered and the new position; one action per call |
| `Scroller` | `scroller_create/move/prefetch` and the fetches over them | a fetch is several steps: a row, the end of a window, the next window's query |
| `Session` | the driver's caches and settings against the session of the server | one action per call of a connection; `Lapses` are what can happen to the session besides |
| `Process` | what environments, threads and connections of one process share | two threads; a call is as many steps as it reads and writes shared memory |
| `MC…` | the instances for TLC | constants and symmetry only |
| `HandlesProofs`, `ResultProofs`, `ParamSetsProofs`, `SessionProofs`, `ProcessProofs`, `ScrollerProofs`, `ConnectionProofs`, `DataAtExecProofs` | | theorems |

Correspondence of state: variables keep the names of the members they model
(`current_row`, `end_of_set`, `tempbuf`, `dae_type`, `all_parameters_failed`,
…). Variables that are not in the code are the observer's: `badDeref` and
`born` (the connection a descriptor was allocated for, until that is reset or
freed) in `Handles`; `rowset`, `res`, `changed`, `call` in `Rowset`; `sent`, `done`,
`failed` in `ParamSets`; `started`, `asked`, `supplied`, `sent`, `habits` and the
driver manager's view `need` in `DataAtExec`; `busy`, `told`, `killed` in
`Connection`; `got`, `last`, `slips` in `GetData`; `rowset`, `fetched`,
`positioned`, `mishaps` in `Scroller`; `asked`, `rolled`, `last`, `lapses` and
`server.seen` (the driver has set or asked for the level in this session) in
`Session`; `lapses` and `uneven` (threads that were counted down for another's
connection, or not counted down for one of theirs) in `Process`.

Five modules remember which of a fixed list of mishaps a behaviour has met
(`habits`, `slips`, `mishaps`, `lapses`) and allow a bounded number of kinds
of them. A property that some kind breaks says so in its premise, and each
such premise is needed: without it TLC refutes the property (section 3, further
disagreements). One run then says what survives which mishap, and no run has
to leave a mishap out.

**Handles.** `desc` has the fields of every descriptor, the four embedded in
each statement included. Where the code dereferences a pointer, the action
requires the target to be alive, and `UndefinedBehaviour` takes the other case:
it sets `badDeref` and carries on as if the memory were intact. `SQLDisconnect` and
`my_SQLFreeConnect` free in the order of the code. `SetAppDescRefused` is the
early return of `MySQLSetStmtAttr` after the statement was taken off its old
list. `born` keeps what SQLCopyDesc overwrites in the code: of which connection
an explicit descriptor is.

**Rowset.** The client library's row list is modelled by pointers: a row, the
null pointer at the end, or `Freed`. A row is read through the pointer and
reported by the number, so a disagreement between the two is a wrong row and
not an impossibility. `compute_cur_row` is the code's row arithmetic for seven
fetch types. Rows convert as `ok`, `info` or `error`, chosen when the result is
opened. Text protocol, static cursor, no scroller.

**ParamSets.** A text is a sequence of pieces: the statement with set *i* in
place, the beginning of it left by a failed conversion, the words that join
SELECTs. The server can refuse anything, only runs well-formed texts, and the
connection can be lost before or after the text is executed.

**DataAtExec.** A value is what kind of thing goes into the query (data from
SQLPutData with its pieces, the application's buffer, NULL, DEFAULT, or data
cut at the wrong length). A record of a descriptor distinguishes "has no
buffer", "has no data" and "is data-at-execution", as three calls reset them
differently. `need` is external: the driver manager's states S8–S10, which let
only SQLParamData, SQLPutData and SQLCancel through. `Habits` are what
applications may do and the code does not follow: NULL or empty values, a bind
offset moved in between, SQLCancel on a busy connection, bulk operations by
bookmark, a failed SQL_ADD. Character and binary values, rowsets of one row, NULL only as the single put for a parameter;
streamed output parameters are left out. The text that a failed execution
leaves in `tempbuf` is there, and every later execution empties it first.

**Connection.** `Program` gives the steps of each call in the order of the
code. A use of the network is two steps, so other threads come between them.
Recursive acquisitions are no step. SQLTables and SQLColumns stand for the two
ways the catalogue functions lock. A query may fail, and leave a batch of
further results. `CancelClose` and `CancelKill` are the two ways SQLCancel goes
on after its `try_lock`.

**GetData.** A value is a sequence of units: bytes, and for text characters of
which some (`"p"`) need a surrogate pair. A delivered part is a run of numbered
units (bytes, digits, halves of characters), so a lost or repeated one shows.
`getdata` has the fields of `STMT::getdata`; `of`, which is not in the code,
tells of which column the position is. A null `source` belongs to no column
(`Nowhere`), which is not the same as the bookmark's number −1. A NULL is
answered before any conversion. The conversions keep the code's
arithmetic with `BufferLength`, `SQL_ATTR_MAX_LENGTH` and the terminator.
`ReadInit`, `ReadNext` and `ReadSpec` are named so because `ResultProofs`
extends `Rowset` too.
`slips` are readings that went wrong by calls the code does not foresee:
a first part that ends in a pair (`split`), a buffer too short for a terminator
(`short`), the bookmark in between (`stray`). `Transfer` is the promise of
section "SQLGetData": `ImplementsTransfer` maps a value, its size, what has
been delivered and the last return code.

**Scroller.** Rows are numbers; the table has that many. `window` is what the
server returned for the last query (its first row and length), `data_cursor`
the place of the client library in it. A fetch is cut into steps where the
window may end or its query fail, and the table may change between windows.
`LIMIT` is `count`, `offset, count` or none. `mishaps`: a refused query, a lost
connection, a changing table, absolute fetches.

**Session.** `server` is the session, `mysql` what the client library keeps of
it, `dbc` the driver's caches, `asked` what the application was told is set.
Every command can be refused by the server or find the connection gone; the
client library then reconnects if `AUTO_RECONNECT` says so and no transaction
is open. `Lapses`: connecting again, the pool with and without a driver manager
that asks SQL_ATTR_CONNECTION_DEAD, a lost connection, an error the driver
swallows, settings changed by SQL text, a level that is none, SQLEndTran of
the environment. `LevelSent` tests the bits of a level as `DBC::connect` does. Calls come one after another; `Connection` has the threads.

**Process.** `myodbc_init` and `myodbc_end` are a read, a write and a test of a
plain `int`, the first under `g_lock`, the second not. Allocating a connection
counts in the thread, then rewrites the table of SQLSTATEs class by class.
Connecting looks at the pool of plugins without its mutex, takes it to add a
plugin or set an option, and keeps it to the end of `DBC::connect`. The value
of an option is the connection that set it. `lapses` are ways in which calls
of several threads meet. A thread may free another's connection, which counts it
down and not the other (`Misses`).

## 3. Runs

Passing runs. A property that is a conjunction has its parts in brackets; each
part is a definition with a comment of its own. The type invariants of all
modules are theorems, by themselves or as a part of one; where no run checks
one by itself, it is checked with `AnswersTruthful`, `SetsReported`,
`SequencesEnd`, `PositionSound`, `WindowsSound`, `CachesTruthful` and
`LibraryLives`.

| Run | Instance | Shows |
|---|---|---|
| `handles` | 2 connections, 2 statements, 2 explicit descriptors; no refused calls, no SQLCopyDesc | `NoBadDeref`, `AppDescsAlive`, `ListsAgree` (`UsersAreListed`, `ListedUseIt`, `DescListsExact`): whatever the order of allocating, assigning, freeing, disconnecting and pooling, no freed handle is followed and lists and pointers agree |
| `handles_any_call` | 2 connections, 1 statement, 1 descriptor; refused calls, 2 copies | `StmtListsExact`, `PooledIsClean` survive any descriptor calls: a pooled connection has no statement, and no explicit descriptor outlives the connection it was allocated for, pooling or freeing it, even if SQLCopyDesc has muddled its lists and types |
| `rowset` | results of 0–4 rows, rowset sizes 1–3, offsets −5…5; rows convert or truncate | `RowsetIsWindow`, `EndOfSetCurrent`, `AnswersTruthful` (`ReturnCodeTruthful`, `CurrentValuesInRowset`), `FirstRowHit`, and the refinement `ImplementsCursor` |
| `param_sets` | up to 3 sets, all kinds of conversions, ignored sets, lost connections | `SetsReported` (`StatusTruthful`, `OneErrorDiagnosed`), `ReturnTruthful`, `SelectTruthful` (the sets of a SELECT, run as one query, are run all or none, and SQLExecute says which), `TextsUntilFailure` |
| `connection` | 2 threads, 2 statements, 2 calls each; the calls that hold `DBC::lock` | `CommandsExclusive`, `LimitOwn`, `CloseOnlyWhenIdle` |
| `connection_all` | 2 threads, 2 statements, 1 call each of all calls, fair | `OwnersProceed`, `CallsReturn` |
| `data_at_exec` | 1 statement, 3 parameters, 2 pieces each; one of `Habits` in a behaviour | `AskedOnceInOrder` whatever the application does; `ValuesAsSupplied`, `QueryAsStarted` (`OneValuePerColumn`, `OperationAsStarted`), `SequencesEnd` (`NothingLeftBehind`) but for the habits they name |
| `get_data` | a row of text, BLOB and BIT, values of 0–3 units, buffers of 0–4; a call with two streams and another output between | `ReadsWhole` (`ChunksJoin`, `NoDataMeansAll`), `CallsTruthful` (`IndicatorTruthful`, `LoopsGetOn`), `PositionSound` (`SourceInValue`, `StreamColumnRight`), and the refinement `ImplementsTransfer` |
| `scroller` | tables of 0–5 rows, windows and rowsets of 1–3, five LIMIT clauses, limits of 2 and 3 rows; one kind of mishap | `RowsInOrder`, `NoDataMeansEnd`, `LimitsKept` (`WithinLimits`, `WindowInLimit`), `WindowsSound` (`NeverReadsFreed`, `ForwardFetchesReturn`, `PositionInFirstWindow`) |
| `session` | 1 connection, 1 statement, 2 levels, 2 catalogues, a server with and one without autocommit; one lapse in a behaviour | `RowLimits` (`NoRowsCut` whatever happens, `LimitInForce`), `CachesTruthful` (`IsolationTruthful`, `AutocommitTruthful`, `LooksInCurrent`, `DeadTruthful`), `SettingsHold`, `SessionsApart` (`OwnSession`, `NoForeignCommit`), `EndTranTruthful`, but for the lapses each part names; the cached isolation level also after every lapse, as soon as the driver has set it or asked for it in the new session |
| `process` | 2 threads, 2 environments, 2 connections, 1 plugin with 2 options; one lapse in a behaviour | `LibraryLives` (`LibraryKept`, `LibraryReleased`, `PluginsLoaded`), `ThreadsCounted` (`ThreadServed`, `ThreadsReleased`: a crossed or refused connection spoils the count of the threads it names and of no other), `StatesOfVersion`, `ConnectsApart` (`OptionsOwn`, `NoneRefused`, `OwnHandle`), and that no thread waits for ever |

Violation: what the code does against what the repository says of it.

| Run | Property | What happens |
|---|---|---|
| `param_sets_mixed` | `TextsAreStatements` | what a set that fails to convert has written stays in `tempbuf` and is sent in front of the next set's statement |

### Further disagreements

These properties are stated in the modules and TLC refutes them with the
constants given, or without the premise given; no run of its own is kept for
them. None is assumed anywhere.

| Module, property | Constants or premise dropped | What happens |
|---|---|---|
| `Handles!AppDescsAlive` | `RejectedCalls = TRUE` | SQLSetStmtAttr takes the statement off its descriptor's list before it refuses the new one; freeing the old descriptor then leaves the statement with a dangling `ard` or `apd`, against "This resets all statements that it was associated with" (`handle.cc:554`) |
| `Rowset!ChangesHitTheirRow` | that of `rowset` | a fetch moves the client library but not `cursor_row`; a positioned change that finds its number there reads another row's values, against "positions the data cursor to appropriate row" (`cursor.cc:282`) |
| `Connection!CloseOnlyWhenIdle` | `Calls = {"ExecuteDae", "ParamData", "Cancel"}` | the query of the last SQLParamData runs without `DBC::lock`, so SQLCancel takes the connection for idle and waits for the query instead of killing it (`execute.cc:1712`) |
| `Handles!AppDescsAlive`, `ImplicitStaysImplicit` | `MaxCopies = 2` | `*dest = *src` in `MySQLCopyDesc` (`desc.cc:972`) copies the list of statements and `alloc_type`: users of the target are forgotten, an implicit descriptor becomes freeable |
| `Rowset!RowsetIsWindow` | `Outcomes` with `"error"` | a failed one-row fetch advances the numbers but not `end_of_set` (`results.cc:2629`), and the next SQL_FETCH_NEXT reads from a stale pointer |
| `Rowset!ChangesInRowset` | `EmptySetPos = TRUE` | SQLSetPos(0, SQL_DELETE) after a fetch without rows deletes one (`cursor.cc:1122`) |
| `ParamSets!ErrorHasItsDiagnostic` | `"ERROR_UNDIAGNOSED"` in `Conversions` | the set marked SQL_PARAM_ERROR can have no diagnostic, or that of another set (`execute.cc:1588`) |
| `ParamSets!ErrorMeansFailure` | `Ignores = TRUE` | with all sets ignored, or the last of a SELECT, SQLExecute fails though no set did (`execute.cc:1616`) |
| `ParamSets!SelectStatuses` | that of `param_sets` | the statuses of a SELECT are those of the conversions: if its last set fails to convert, the others are SQL_PARAM_SUCCESS though the query was never sent (`execute.cc:1518`) |
| `Connection!KillsOwnQuery` | `Calls = {"Execute", "Cancel"}` | SQLCancel of an idle statement kills another's query (`execute.cc:1954`) |
| `Connection!CommandsExclusive` | `"Columns"` in `Calls` | SQLColumns sets the limit and reads its rows without `DBC::lock` (`catalog.cc:725`) |
| `Connection!ResultsReachTheirStatement` | 1 thread, 4 calls of Execute, Close, MoreResults | one statement drops the pending results of another's batch (`my_stmt.cc:308`) |
| `Connection!RowCountOwn` | 1 thread, 4 calls of Execute, RowCount | SQLRowCount of a statement with rows shows the count of the connection's last query (`results.cc:1839`) |
| `DataAtExec!ValuesAsSupplied` | premise, `"novalue"` | a NULL or empty first value arrives as DEFAULT or as an empty string, depending on an older buffer (`execute.cc:874`) |
| | premise, `"offset"` | after the bind offset moved, an update takes its data from SQLPutData and its length from another buffer (`cursor.cc:778`) |
| | premise, `"busy"` | SQLCancel on a busy connection leaves the sequence for the next SQLSetPos (`execute.cc:1910`) |
| | 2 statements, `ApdOf <- SharedApd` | executing one statement drops the pieces put for another that shares its APD (`my_prepared_stmt.cc:681`) |
| `DataAtExec!OneValuePerColumn` | premise, `"failedAdd"` | the columns before a failed one of SQL_ADD are part of the next query (`cursor.cc:1465`) |
| `DataAtExec!OperationAsStarted` | premise, `"bookmark"` | a bulk update by bookmark is resumed as a positioned update (`execute.cc:1724`) |
| `GetData!SuccessMeansAll` | that of `get_data` | the digits of a BLOB are reported complete too early: with SQL_SUCCESS while some are left (`utility.cc:746`) |
| `GetData!SourceInOwnValue` | that of `get_data` | the bookmark is column −1 in `getdata`, as is a fresh row, so a position can be carried between it and a column (`results.cc:1620`) |
| `GetData!ChunksJoin` | premise, `"split"` | a first part that ends within a surrogate pair: the other half comes out of turn or a length is wrong (`utility.cc:610`) |
| | premise, `"short"` | a buffer without room for a character and its terminator while half a pair is kept (`utility.cc:531`) |
| `GetData!LoopsGetOn` | premise `max # 1` | with SQL_ATTR_MAX_LENGTH 1 no digit of a BLOB fits, and a reading loop does not end (`utility.cc:709`) |
| `Scroller!PositionReadsItsRow` | that of `scroller` | SQL_POSITION seeks the number in the result in the rows of the window (`cursor.cc:1698`) |
| `Scroller!RowsInOrder` | `Limits <- OffsetClause` | `LIMIT n OFFSET o` is read the other way round (`utility.cc:3958`) |
| | premise, `"refused"` | a window whose query is refused ends a rowset short, or as SQL_NO_DATA, and is skipped by the next fetch (`results.cc:2498`) |
| `Scroller!ForwardFetchesReturn` | premise | SQL_FETCH_ABSOLUTE past `LIMIT 0` with the option SAFE never returns (`my_prepared_stmt.cc:896`) |
| `Session!LimitInForce` | premise, `"again"`, `"pooled"`, `"unasked"`, `"lost"` | the cached row limit outlives the session, even SQLDisconnect and SQLConnect of the same handle (`utility.cc:3080`) |
| `Session!IsolationTruthful` | premise, `"pooled"`, `"unasked"`, `"lost"`, `"text"` | the cached isolation level outlives the session, until the driver sets it again (`options.cc:553`) |
| | premise, `"level"` | a level that is none, set before connecting, is sent as READ UNCOMMITTED (`connect.cc:1225`) |
| `Session!SettingsHold` | premise, `"lost"` | autocommit set after connecting and the isolation level are not set again in the session of a reconnect |
| `Session!NoForeignCommit` | premise, `"unasked"` | SQLEndTran does not wake a pooled connection up and commits its former user's work (`transact.cc:45`) |
| `Session!EndTranTruthful` | premise, `"env"` | SQLEndTran of an environment reports success whatever its connections answer (`transact.cc:108`) |
| | premise, `"swallowed"` with `"lost"` | a command whose error prepare or a catalogue function drops makes the client library reconnect, and COMMIT succeeds over lost work (`my_stmt.cc:452`) |
| `Session!LooksInCurrent` | `NoName` | a catalogue function whose question for the current catalogue fails looks into the catalogue "null" (`catalog_no_i_s.cc:79`) |
| `Process!LibraryKept`, `LibraryReleased`, `ThreadsReleased`, `OwnHandle`, `PluginsLoaded` | premise, `"raced"` | `my_SQLFreeEnv` next to `my_SQLAllocEnv` or another `my_SQLFreeEnv`: a count is lost or tested between, the client library is ended under a connection, twice or never; `clear_plugin_pool` sets the pool's `MYSQL` to null under a connect (`handle.cc:167`, `dll.cc:133`) |
| `Process!ThreadServed`, `ThreadsReleased` | `uneven.less`, `uneven.more` | a thread that frees another's connection ends its own part in the client library, and the other keeps its part (`handle.cc:313`) |
| `Process!ThreadsReleased` | `uneven.more`, refused connections | a refused SQLAllocHandle stays counted (`handle.cc:214`) |
| `Process!StatesOfVersion` | premise, `"mixed"` | connections of ODBC 2 and 3 at once have the SQLSTATEs of the later one (`handle.cc:73`) |
| | premise, `"halfway"` | two ODBC 3 connections allocated at once after one of ODBC 2: the second finds the flag reset and the table not yet (`info.cc:1199`) |
| | class `"HYT"` added | HYT00 and HY008 stay S1T00 and S1008 for ever, against "initialize to original SQLSTATEs" (`error.cc:138`) |
| `Process!NoneRefused`, `OwnHandle` | premise, `"together"` | of two first connects with a plugin option the second fails with "Plugin is already in the pool", or loads with the other's `MYSQL` (`connect.cc:196`) |
| `Process!OptionsOwn` | premise, `"together"`, `"again"` | a connect that found no plugin, and a reconnect, authenticate with the options of another data source (`connect.cc:215`) |
| | premise, `"device"` | a WEBAUTHN_DEVICE_NUMBER stays set for later data sources without one, against "Zero will be set by default otherwise" (`connect.cc:634`) |

Seen while modelling and stated by no property: a wake-up that fails returns
SQL_ERROR without a diagnostic (`myutil.h:372`); the database set before
connecting is always overwritten (`options.cc:318`); a connect that fails under
NO_TRANSACTIONS drops an autocommit off without a word (`connect.cc:1197`);
SQLDisconnect leaves `need_to_wakeup` set, so that SQLSetConnectAttr before the
next connect calls `mysql_change_user` on a null pointer; setting an attribute
of a connection already known to be lost reports success and only stores it;
"This will call mysql_library_init()" (`handle.cc:150`) is not so, the first
connect does (`connect.cc:465`), and `mysql_thread_init` before it finds no
library to register with; the assertions of SQLGetData (`results.cc:1595`,
`results.cc:1618`) say that column and parameter numbers are beyond the range of
int, the wrong way round, but `NDEBUG` is always defined
(`src/CMakeLists.txt:230`) and they are never compiled.

### Bounds

*Handles*: a dangling pointer takes one statement, its descriptor and the call
that frees one of them; a confusion of owners takes a second of each kind.
Addresses are reused, so two are enough for "freed and handed out again". The
handles of a kind are interchangeable; symmetry is sound because no property
is temporal.
*Rowset*: four rows and sizes up to three give a full, a partial and an empty
last rowset for every size, sizes that do not divide the result and rowsets
larger than it; offsets pass both ends by one.
*ParamSets*: with three sets, first, middle and last can differ.
*Connection*: a race needs two threads; a second call per thread leaves
something for the first caller to find. `MaxMore` bounds the results of a
batch. `CHECK_DEADLOCK FALSE` because threads stop after `MaxCalls`;
`CallsReturn` and `OwnersProceed` look for what deadlock checking would.
Symmetry of the threads only in the run without liveness.
*DataAtExec*: three parameters, so that there is one between two others; two
pieces, so that order matters. `MaxText` bounds what repeated failures leave in
`tempbuf`, `MaxHabits` the kinds of habits: one, since two together break no
property that one of them does not.
*GetData*: buffers from nothing to more than a value, values with a pair first,
last, in the middle and twice, and none; SQL_ATTR_MAX_LENGTH off and shorter
than a value. `CHECK_DEADLOCK FALSE` because a call that ends in undefined
behaviour (`crash`) stops the model.
*Scroller*: windows smaller than, equal to and larger than rowsets, sizes that
do not divide each other, and limits before, across and behind the end of the
table. `MaxOffset` and `MaxFetched` bound absolute fetches and rowsets.
`CHECK_DEADLOCK FALSE` because an endless loop stops the model.
*Session*: a cache needs one session before and one after; two levels and two
catalogues tell the two apart. `MaxLapses` is one kind, as often as it likes:
premises of several kinds are needed one by one.
*Process*: a race needs two threads; two environments and two connections let
one end while another lives; two options of one plugin let one be passed over
and the other found. `MaxCount` bounds the count that lost decrements raise.
Threads, environments and connections are interchangeable and no property is
temporal, so symmetry is sound.

### Fairness

Only `connection_all` assumes any: `WF_vars(Step(t))` for each thread. A step
is code that runs when its thread is scheduled or, for `receive` and its like,
the answer of the server; a thread waiting for a mutex is not enabled. Weak
fairness is enough because each thread makes boundedly many calls, so nobody
has to rely on the mutexes being handed out fairly. Calls themselves are not
fair: the application need not make any.

## 4. Proofs

**HandlesProofs**, for any sets of handles.
`TypeCorrect`, `StatementListsExact` and `PooledConnectionsClean` hold for any
calls. `ListInv = TypeOK ∧ StmtListsExact ∧ PooledIsClean ∧ BornListed` is inductive:
that a pooled connection is clean needs that its list of statements is exact
and that each descriptor is on the list of the connection it was allocated for
(`BornListed`), which SQLCopyDesc leaves alone, although after it a list may also
name descriptors that are freed.
With `MaxCopies = 0`: `ListedStatementsUseIt` and `DescriptorListsExact`, from
`OwnInv`, which adds to `ListInv` that allocation types and owners of
descriptors are what they were created with (`DescShape`, `OwnImplicit`);
without these a removal that goes by `alloc_type` could miss.
With `MaxCopies = 0` and `RejectedCalls = FALSE`: `NoDanglingDereference`,
`ApplicationDescriptorsAlive` and `ListsAgreeWithUses`, from
`CleanInv = OwnInv ∧ UsersAreListed ∧ AppDescsAlive ∧ NoBadDeref`: a descriptor can be freed safely because every
user is on its list. Both assumptions are needed; see section 3.

**ResultProofs**, rowsets: for results of any length, any rowset sizes and
offsets, assuming that no row fails to convert (`"error" ∉ Outcomes`).
`RowsetsAreWindows`, `EndOfSetIsCurrent`, from `RInv = TypeOK ∧ RowNumbers ∧
RowsetIsWindow ∧ EndOfSetCurrent`: that the rowset is the window needs the
pointer to be right one call earlier, and that the pointer is right needs the
numbers to lie in the result. `RowsetImplementsCursor`: every step under
`RInv` is a step of `Cursor` or a stutter (`CursorStep`). `RowsetAnswers` and
`RowsetChangesFirst` say that the return code, the current values and a
positioned change of the first row agree with the rows delivered, from `Told`.
It adds to the three properties `Positioned`: when SQLSetPos believes that it
stands at the first row of the rowset, so does the client library.

**ResultProofs**, SQLGetData: for any columns, parameters, buffers and values
of any length, and all conversions and slips; assumed is only what the
constants are (lengths are naturals, values are texts or NULL, a BIT is not
empty). The text has pairs anywhere, so lengths in bytes, characters and wide
characters are three measures of it: `PairsCount` and the lemmas after it
relate them; that some number of characters is the most that fits rests on the
greatest of a bounded set, from the library's well-foundedness theorems. Each conversion has a position of its own among the fields of
`getdata`. `Placed` says where it can be in the value, `Have` how many units
it stands for. `Faithful` is what one conversion promises of one call: the
units handed over are those that follow `Have`, the position moves by as many
and stays `Placed`, the length reported is what was left, and an answer that
there is more comes with something. It is proved of each (`BinaryFaithful`,
`AnsiFaithful`, `WideFaithful`, `DigitsFaithful`, `BitFaithful`,
`StreamFaithful`), except for a first part that splits a pair and a buffer too
short, for which only `Placed` and that a loop gets on is left. The invariant
`GInv` joins the properties to what ties the position to the application:
`ColumnHeld`, `BookmarkHeld` and `StreamHeld`, what has been received is
exactly the first `Have` units of the value that is read, and a column that is
NULL leaves the position fresh; `OwnerKnown`, a position of none belongs to
none; `OneAtATime`, rows and streams are not read at once; `EndTold`, after any
answer but "more" the position is at the end. From it `PositionsAreSound` (the
two counters of streams agree because the parameters up to the next stream are
those up to the last one and those in between, `UpToNext`),
`PartsMakeTheWhole` and `AnswersAreTruthful`. `ReadingsAreTransfers`: every
step under `GInv` is a step of `Transfer` or a stutter (`TransferStep`), so a
value read in parts by bytes, characters, wide characters or as a stream is
handed over once, in order, and its end is told with the last part.

**ParamSetsProofs**, for arrays of any length, any conversions and failures,
both settings of `LimitFails` and `Ignores`. The invariant `PInv` says in the
middle of the loop what the properties say at its end. `Standing`: the sets
behind `row` are executed, failed or ignored and those ahead are untouched.
`Statuses`: every failed set behind has "no diagnostic available", for only
`Return` knows which failure was the last. `LastOfFailed`: `lastError` is the
last of them. `FlagsSay`: `all_parameters_failed` is "more than one set, none
executed". `BufferHolds`: the buffer ends with the set whose query is next, and
as long as no set failed it holds whole statements only. All ways for a set to
fail and go on are one step (`SetFails`), all ways to become ready another
(`SetReady`), so that each is proved once. From `PInv`: `SetsAreReported`,
`ReturnIsTruthful`, `TextsAreSound`. `SelectsAreTruthful` needs `Gathering` besides: while
the texts of a SELECT's sets are put together, the buffer has exactly those of
the sets that are left, unless it has the beginning of a failed one, and the
first flag falls only with the query.

**DataAtExecProofs**, for any statements and descriptors, shared or not, any
number of parameters and pieces, and all habits at once. `CInv` joins to the
shape of the variables four facts about each statement. `Idle`: out of a
sequence it has nothing of one, unless SQLCancel met a busy connection. `Kept`:
in one, `dae_type` says what the application started, and the copied descriptor
is there exactly if it is a change of columns. `Progress`: what has been asked
for is the declared parameters up to `current_param`, in order. `Text`: only a
failed execution leaves text in `tempbuf`, and no result to change a row of
with it. From them `QueriesAsStarted`, `EachAskedOnce` and
`NothingOutlivesSequence`. `SuppliedValuesAreSent` supposes that no two
statements share an application descriptor (`Own`); without that it is false
(section 3). It needs `Held`: the record of each parameter dealt with holds what
the application has put for it, the others nothing yet, and the `is_dae` flags
of a copied descriptor are exactly those of the parameters asked for. `SequencesEndCleanly` supposes
`Own` too, and says besides that no record ever holds more pieces than the
application may supply. `FInv` is needed for it: the record SQLPutData adds to
holds exactly the pieces supplied for the parameter that is asked for, and
nothing has been supplied for those still to come (`Filled`), whatever was
cancelled, failed or set to NULL before. That the
search of SQLParamData takes the least parameter left rests on the library's
well-foundedness theorems. Assumed besides: the model value `NoDesc` is not a
descriptor (`NoDescAssumption`).

**ConnectionProofs**, for any numbers of threads and statements.
`LocksHaveTheirOwners`: a mutex is owned by a thread exactly while the thread
is between lock and unlock in the program of its call (`LockInv`); from it
`OwnersAlwaysProceed`, the absence of a circle of waiting. Both for all calls,
`TypesHold` too. If only the calls of `LockedCalls` are made (Execute,
ExecuteDae, Tables, Prefetch, MoreResults, EndTran, Close, RowCount, Cancel):
`CommandsNeverMeet` and `CancelClosesIdle`, from `LockedInv`, which adds that a
thread is on the network only at the places of its program where it holds
`DBC::lock`; and `LimitIsOwn`, from `LimitInv`: the cache says what the session
has, unless the owner of the lock is just setting it.

**SessionProofs**, for any statements, values, data sources and servers, and
lapses of the given kinds in any number. Every call that gets past the wake-up
is one step, `CallPasses`: the session goes on or a new one begins, the client
library hears from the server or finds it gone, and lost work is known to the
client library or the call returns an error. `CallHolds` proves the invariant
for that step; for each call there is a lemma that it is such a step. The
invariant `SessInv` adds to `TypeOK`: `LimitCached`, the cached row limit is
the session's or the session has none, and is the session's as long as there
was one session only; `Asleep`, a connection that is to be woken up has no
statements, and only such a one has its former user's session; `WorkKnown`, the
client library's transaction flag is the session's while the link is up, and
work lost in silence keeps the flag set, so that no command gets through
before one has failed. From it `RowLimitsHold`, `UsersAreApart`,
`EndTranIsTruthful` and `SessionTypes`.
For what the driver believes of the session, `Belief` adds: `StatusKnown`, the
flags of the last answer are those of the session; `EarlyKept`, what was set
before connecting is in the fields that the connect sends; `IsolationCached`,
the level remembered is the session's; `SeenTrue`, so is one that the driver has
set or asked for in this session, whatever happened before it; `LevelsKnown`, it is a level; and
`SettingsHold` itself, as the settings a connect sends must be the ones asked
for. From both, `SettingsAreInForce` and `CachesAreTruthful`, each part but for
the lapses it names.

**ProcessProofs**, for any threads, environments, connections and plugin
options, and lapses in any number. Finite sets of handles and options that
differ are assumed. `Typed` gives the local variables of every stage of a call
their types (`ProcessTypes`); `Tree` is what the driver manager's rules keep: a
connection has its environment, and serves one call at a time. On these stand
four invariants. `TableOK`: all connections there are and are being made have
one version, and unless a thread is writing the table the flag
`myodbc_ov2_inited` says whether it is version 2 (`ProcessStates`). `CountOK`:
one thread at a time starts or ends an environment, and `myodbc_inited` is the
number of environments and the one that is going; with `LibraryOK` and
`PluginsOK`, `ProcessLibrary`. `ThreadsOK`, for each thread: its count is not
less than the number of connections it has made and the one it is making,
unless it was counted down for another's, and not more, unless one of its was
freed by another or refused to it (`ProcessThreads`).
`ConnectsOK`, `HandlesOK` and `OptionsOK`: one thread is among its options, the
options it has passed are its own, and those to come that it would leave alone
are not set; that it may pass an option over needs that options of plugins
outside the pool are not set (`ProcessConnects`).

**ScrollerProofs**, for tables, limits, windows and rowsets of any size and
mishaps in any number. `SInv` needs no hypothesis. `ScrollerNumbers`: the
scroller stands a window behind the offset it has written, and only the last
window of a limit is shorter than the others; with `WindowNumbers`, where the
window in the client library lies, no window reaches beyond the limit
(`ScrollerWindows`). `NextIsNear`: the row the next fetch goes on at is one that
has been passed or the end of those that have, even after a jump, so that a
fetch forward never looks for it (`ScrollerPlaces`). That the loop of a jump
ends, and with an offset that is a natural, rests on the least of a set of
naturals, from the library's well-foundedness theorems. `FInv` supposes that no
query is written `LIMIT n OFFSET m`. `ForwardNumbers`: the rows fetched forward
end at most where the window has been read to, which lies within the limit
(`ScrollerLimits`). `ExactNumbers`, if at most the connection is lost: they end
exactly there, unless the result is used up and the window empty; and the window
is the one the scroller stands at, unless no further one will be read. So the
next row is the next of the result (`ScrollerRows`), an empty or last window
means that all has been delivered (`ScrollerEnd`), and SQLSetPos in the first
window finds its row (`ScrollerSound`).

What is only model-checked: the liveness property `CallsReturn` and the absence
of deadlock (TLAPS does not do fairness or ENABLED). Every safety property of a
passing run is a theorem, some under the assumption on the constants that is
named above and that its run's constants satisfy. What recursive definitions compute for every input would need
induction over data, which is out of the prover's reach; none of the modules
has RECURSIVE operators.

## 5. Not modelled

Conversions between representations, the tokenizer, message texts, connection
strings, catalogue SELECTs and tables of constants have no state that outlives
a call; the models have their outcomes where they matter. SQLDisconnect in one
thread while another is inside a statement is left out: most driver managers
serialise it. `CommandsExclusive` does not count the reading of left-over
results in `free_all_results`, which takes no `DBC::lock` in any call; what the
client library makes of it is not known from this code. Telemetry, installer,
dialogues and vendored code are left out. The components in `PROJECT.json`
have the reason for each.

## 6. Plan

Written so far, in order of importance: `Handles`, `Rowset` with `Cursor`,
`ParamSets`, `Connection`, `DataAtExec`, `GetData` with `Transfer`,
`Scroller`, `Session`, `Process`. What would come next:

1. `Prepare`: statement states, client or server preparation, the dummy
   execution for metadata (`my_stmt.cc` 409–508, `prepare.cc`).
2. `Descriptors`: fields, binding and the copy of records (`desc.cc`).
3. Bookmarks and dynamic cursors in `Rowset`, which would then also take the
   place of the table in `Scroller`; a second thread through
   `WHERE CURRENT OF`.
4. A composition of `Handles` and `Connection` for disconnecting under load,
   with SQLEndTran of an environment over several connections.
5. Proofs: the rowsets of `Rowset` with rows that fail to convert, as long as
   no failed fetch of one row is followed by SQL_FETCH_NEXT; the settings of a
   connection at the level of single commands, with `Connection` as the
   module that says which may interleave.
