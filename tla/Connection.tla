---------------------------- MODULE Connection ----------------------------
(***************************************************************************)
(* One connection shared by threads and statements: the locks STMT::lock   *)
(* and DBC::lock, and what the driver keeps on, or leaves in, the client   *)
(* library's MYSQL object behind dbc->mysql.                               *)
(*                                                                         *)
(* The library allows one thread at a time in a MYSQL object, and it holds *)
(* one set of pending results, one row count and one session on the server *)
(* for all statements.  Each API call is a program: the steps it takes, in *)
(* the order of the code, where a step is a lock, an unlock or a use of    *)
(* the MYSQL object.  Both locks are recursive: an acquisition by a thread *)
(* that has the lock already is no step.  A use of the network begins and  *)
(* ends in two steps, so that other threads can come between them.         *)
(*                                                                         *)
(* Statements use the text protocol and store their results; the driver    *)
(* manager leaves locking to the driver (Threading = 0).                   *)
(***************************************************************************)
EXTENDS Integers, Sequences

CONSTANTS
    Threads, Stmts,
    Calls,           \* the API calls the application makes
    Selects,         \* the statements that return rows
    MaxRows,         \* SQL_ATTR_MAX_ROWS of each statement
    MaxMore,         \* bound on the results of a batch after the first
    MaxCalls,        \* bound on the calls of each thread
    Nobody           \* no thread, no statement

(* SQLExecute: the lock of the wrapper; my_SQLFreeStmt(RESET_BUFFERS) reads*)
(* what is left of earlier results; then my_SQLExecute locks the connection*)
(* for the row limit, the query and the row count.  (Variants: without     *)
(* DBC::lock, and with the locks in the other order.)                      *)
ExecuteUnlocked ==
    <<"lockS", "drain", "drained", "check", "limit", "limited", "cache",
      "send", "receive", "count", "unlockS">>

ExecuteDbcFirst ==
    <<"lockD", "lockS", "drain", "drained", "check", "limit", "limited",
      "cache", "send", "receive", "count", "unlockD", "unlockS">>

ExecuteSteps ==
    <<"lockS", "drain", "drained", "lockD", "check", "limit", "limited",
      "cache", "send", "receive", "count", "unlockD", "unlockS">>

(* A data-at-execution statement stops before the query, and the last      *)
(* SQLParamData goes on without the locks: insert_params and the setting of*)
(* the limit take DBC::lock for themselves, do_query only STMT::lock.      *)
ExecuteDaeSteps == <<"lockS", "drain", "drained", "lockD", "needdata",
                     "unlockD", "unlockS">>

ParamDataSteps == <<"lockD", "unlockD", "check", "branch">>

ParamQuerySteps == <<"lockS", "send", "receive", "count", "unlockS">>

ParamLimitSteps ==
    <<"lockD", "limit", "limited", "unlockD", "cache">> \o ParamQuerySteps

(* SQLSetPos(SQL_UPDATE or SQL_DELETE) of one row.                         *)
SetPosSteps == <<"check", "limit", "limited", "cache", "send", "receive",
                 "count">>

(* SQLTables keeps DBC::lock for all of its work; SQLColumns (ODBC_CATALOG)*)
(* has it for the query alone, not for the limit and not for the rows.     *)
TablesSteps ==
    <<"lockS", "drain", "drained", "lockD", "check", "limit", "limited",
      "cache", "send", "receive", "fake", "unlockD", "unlockS">>

ColumnsSteps ==
    <<"lockS", "drain", "drained", "check", "limit", "limited", "cache",
      "lockD", "send", "receive", "unlockD", "store", "stored", "fake",
      "unlockS">>

(* SQLFetch that runs out of prefetched rows (scroller_prefetch).          *)
(* (Variant: without DBC::lock.)                                           *)
PrefetchUnlocked ==
    <<"lockS", "check", "limit", "limited", "cache", "send", "receive",
      "unlockS">>

PrefetchSteps ==
    <<"lockS", "lockD", "check", "limit", "limited", "cache", "send",
      "receive", "unlockD", "unlockS">>

MoreResultsSteps == <<"lockS", "lockD", "next", "nextdone", "unlockD",
                      "unlockS">>

(* (Variant of the next: the lock is not given back.)                      *)
EndTranKeepsLock == <<"lockD", "send", "receive">>

EndTranSteps == <<"lockD", "send", "receive", "unlockD">>

CloseSteps == <<"lockS", "drain", "drained", "close", "unlockS">>

RowCountSteps == <<"rowcount">>

(* SQLCancel: closes the statement if it can have DBC::lock, otherwise     *)
(* sends KILL QUERY on a connection of its own.                            *)
CancelSteps == <<"try">>

KillSteps == <<"kill">>

Program ==
    [Execute |-> ExecuteSteps, ExecuteDae |-> ExecuteDaeSteps,
     ParamData |-> ParamDataSteps, ParamLimit |-> ParamLimitSteps,
     ParamQuery |-> ParamQuerySteps, SetPos |-> SetPosSteps,
     Tables |-> TablesSteps, Columns |-> ColumnsSteps,
     Prefetch |-> PrefetchSteps,
     MoreResults |-> MoreResultsSteps, EndTran |-> EndTranSteps,
     Close |-> CloseSteps, RowCount |-> RowCountSteps,
     Cancel |-> CancelSteps, CancelClose |-> CloseSteps,
     CancelKill |-> KillSteps, none |-> <<>>]

APICalls == {"Execute", "ExecuteDae", "ParamData", "SetPos", "Tables",
             "Columns", "Prefetch", "MoreResults", "EndTran", "Close",
             "RowCount", "Cancel"}

ASSUME ConnectionAssumption ==
    /\ Calls \subseteq APICalls
    /\ Selects \subseteq Stmts
    /\ MaxRows \in [Stmts -> Nat]
    /\ MaxMore \in Nat /\ MaxCalls \in Nat
    /\ Nobody \notin Threads \cup Stmts

VARIABLES
    call, pc,        \* of each thread: its call and its place in the program
    of,              \* of each thread: the statement it calls for
    calls,           \* of each thread: the number of calls made
    slock, dlock,    \* the owners of STMT::lock and DBC::lock
    busy,            \* what each thread is doing on the network, or "no"
    setting,         \* of each thread: does it have to set the row limit?
    ok,              \* of each thread: has nothing failed in its call?
    cache,           \* dbc->sql_select_limit, -1 if it was not set
    limit,           \* @@sql_select_limit of the session
    batch, more,     \* whose results are pending on the connection, how many
    affected,        \* whose row count mysql->affected_rows is
    result,          \* of each statement: "none", "real" or "fake"
    rowcount,        \* of each statement: whose count stmt->affected_rows is
    ran,             \* of each statement: the last execution succeeded
    awaiting,        \* the statements that wait for SQLParamData
    told,            \* the answer of SQLRowCount: the statement, whose count
    killed           \* the threads whose query the server was told to kill

thread == <<call, pc, of, calls>>

locks == <<slock, dlock>>

session == <<cache, limit>>

mysql == <<batch, more, affected>>

stmts == <<result, rowcount, ran, awaiting>>

vars == <<call, pc, of, calls, slock, dlock, busy, setting, ok, cache, limit,
          batch, more, affected, result, rowcount, ran, awaiting, told,
          killed>>

Init ==
    /\ call = [t \in Threads |-> "none"] /\ pc = [t \in Threads |-> 1]
    /\ of \in [Threads -> Stmts] /\ calls = [t \in Threads |-> 0]
    /\ slock = [s \in Stmts |-> Nobody] /\ dlock = Nobody
    /\ busy = [t \in Threads |-> "no"]
    /\ setting = [t \in Threads |-> FALSE] /\ ok = [t \in Threads |-> TRUE]
    /\ cache = -1 /\ limit = 0
    /\ batch = Nobody /\ more = 0 /\ affected = Nobody
    /\ result = [s \in Stmts |-> "none"]
    /\ rowcount = [s \in Stmts |-> Nobody]
    /\ ran = [s \in Stmts |-> FALSE] /\ awaiting = {}
    /\ told = <<Nobody, Nobody>> /\ killed = {}

-----------------------------------------------------------------------------
(* The calls the driver manager lets through: a statement that waits for   *)
(* data only takes SQLParamData, once, and SQLCancel; rows are only fetched*)
(* and updated where there is a result.                                    *)
Admitted(c, s) ==
    /\ c = "ParamData" => s \in awaiting
    /\ c \notin {"ParamData", "Cancel"} => s \notin awaiting
    /\ c # "Cancel" =>
          \A u \in Threads :
              call[u] \in {"ParamData", "ParamLimit", "ParamQuery"} =>
                  of[u] # s
    /\ c \in {"SetPos", "Prefetch"} => result[s] = "real"

(* SQLEndTran is for the connection, not for a statement.                  *)
Call(t, c, s) ==
    /\ call[t] = "none" /\ calls[t] < MaxCalls
    /\ IF c = "EndTran" THEN s = of[t] ELSE Admitted(c, s)
    /\ call' = [call EXCEPT ![t] = c] /\ of' = [of EXCEPT ![t] = s]
    /\ pc' = [pc EXCEPT ![t] = 1] /\ calls' = [calls EXCEPT ![t] = @ + 1]
    /\ ok' = [ok EXCEPT ![t] = TRUE]
    /\ setting' = [setting EXCEPT ![t] = FALSE]
    /\ UNCHANGED <<locks, busy, session, mysql, stmts, told, killed>>

Done(t) == pc[t] > Len(Program[call[t]])

Return(t) ==
    /\ call[t] # "none" /\ Done(t)
    /\ call' = [call EXCEPT ![t] = "none"] /\ pc' = [pc EXCEPT ![t] = 1]
    /\ UNCHANGED <<of, calls, locks, busy, setting, ok, session, mysql,
                   stmts, told, killed>>

At(t, step) == ~Done(t) /\ Program[call[t]][pc[t]] = step

Advance(t) == /\ pc' = [pc EXCEPT ![t] = @ + 1]
              /\ UNCHANGED <<call, of, calls>>

(* The call goes on with another program.                                  *)
Continue(t, c) ==
    /\ call' = [call EXCEPT ![t] = c] /\ pc' = [pc EXCEPT ![t] = 1]
    /\ UNCHANGED <<of, calls>>

LockStmt(t) ==
    /\ At(t, "lockS") /\ slock[of[t]] = Nobody
    /\ slock' = [slock EXCEPT ![of[t]] = t]
    /\ Advance(t)
    /\ UNCHANGED <<dlock, busy, setting, ok, session, mysql, stmts, told,
                   killed>>

UnlockStmt(t) ==
    /\ At(t, "unlockS")
    /\ slock' = [slock EXCEPT ![of[t]] = Nobody]
    /\ Advance(t)
    /\ UNCHANGED <<dlock, busy, setting, ok, session, mysql, stmts, told,
                   killed>>

LockDbc(t) ==
    /\ At(t, "lockD") /\ dlock = Nobody
    /\ dlock' = t
    /\ Advance(t)
    /\ UNCHANGED <<slock, busy, setting, ok, session, mysql, stmts, told,
                   killed>>

UnlockDbc(t) ==
    /\ At(t, "unlockD")
    /\ dlock' = Nobody
    /\ Advance(t)
    /\ UNCHANGED <<slock, busy, setting, ok, session, mysql, stmts, told,
                   killed>>

-----------------------------------------------------------------------------
(* set_sql_select_limit: the value wanted is compared with the one the     *)
(* driver remembers, sent if they differ, and then remembered.             *)
Check(t) ==
    /\ At(t, "check")
    /\ setting' = [setting EXCEPT ![t] = cache # MaxRows[of[t]]]
    /\ Advance(t)
    /\ UNCHANGED <<locks, busy, ok, session, mysql, stmts, told, killed>>

Branch(t) ==
    /\ At(t, "branch")
    /\ Continue(t, IF setting[t] THEN "ParamLimit" ELSE "ParamQuery")
    /\ UNCHANGED <<locks, busy, setting, ok, session, mysql, stmts, told,
                   killed>>

SendLimit(t) ==
    /\ At(t, "limit")
    /\ busy' = [busy EXCEPT ![t] = IF setting[t] THEN "limit" ELSE @]
    /\ Advance(t)
    /\ UNCHANGED <<locks, setting, ok, session, mysql, stmts, told, killed>>

(* The server sets its variable, or refuses; while results are pending the *)
(* library does.  The query is not sent then.                              *)
Limited(t) ==
    /\ At(t, "limited")
    /\ \E set \in BOOLEAN :
          /\ set => setting[t] /\ more = 0
          /\ limit' = IF set THEN MaxRows[of[t]] ELSE limit
          /\ affected' = IF set THEN Nobody ELSE affected
          /\ ok' = [ok EXCEPT ![t] = set \/ ~setting[t]]
          /\ setting' = [setting EXCEPT ![t] = set]
    /\ busy' = [busy EXCEPT ![t] = "no"]
    /\ Advance(t)
    /\ UNCHANGED <<locks, cache, batch, more, stmts, told, killed>>

(* (Variant of the next: the value is remembered in any case.)             *)
AlwaysRemembered(t) == MaxRows[of[t]]

Remembered(t) == IF setting[t] THEN MaxRows[of[t]] ELSE cache

Cache(t) ==
    /\ At(t, "cache")
    /\ cache' = Remembered(t)
    /\ Advance(t)
    /\ UNCHANGED <<locks, busy, setting, ok, limit, mysql, stmts, told,
                   killed>>

-----------------------------------------------------------------------------
(* A query.  The library refuses it while results are pending.             *)
Send(t) ==
    /\ At(t, "send")
    /\ ok' = [ok EXCEPT ![t] = @ /\ more = 0]
    /\ busy' = [busy EXCEPT ![t] = IF ok'[t] THEN "query" ELSE "no"]
    /\ killed' = killed \ {t}
    /\ Advance(t)
    /\ UNCHANGED <<locks, setting, session, mysql, stmts, told>>

(* The answer.  A batch leaves further results pending.                    *)
Receive(t) ==
    /\ At(t, "receive")
    /\ ok[t]
    /\ busy' = [busy EXCEPT ![t] = "no"]
    /\ \/ /\ t \notin killed
          /\ \E m \in 0..(IF call[t] = "Execute" THEN MaxMore ELSE 0) :
                /\ more' = m
                /\ batch' = IF m = 0 THEN Nobody ELSE of[t]
          /\ affected' = IF call[t] = "EndTran" THEN Nobody ELSE of[t]
          /\ UNCHANGED ok
       \/ /\ ok' = [ok EXCEPT ![t] = FALSE]
          /\ affected' = Nobody
          /\ UNCHANGED <<batch, more>>
    /\ Advance(t)
    /\ UNCHANGED <<locks, setting, session, stmts, told, killed>>

NothingSent(t) ==
    /\ At(t, "receive") /\ ~ok[t]
    /\ busy' = [busy EXCEPT ![t] = "no"]
    /\ Advance(t)
    /\ UNCHANGED <<locks, setting, ok, session, mysql, stmts, told, killed>>

(* The end of do_query: a SELECT has its result; otherwise, and in         *)
(* SQLSetPos, the row count is read from the MYSQL object.                 *)
Count(t) ==
    /\ At(t, "count")
    /\ LET s == of[t] IN
       /\ IF call[t] = "SetPos" THEN UNCHANGED <<ran, result>>
          ELSE /\ ran' = [ran EXCEPT ![s] = ok[t]]
               /\ result' = [result EXCEPT ![s] =
                                IF ok[t] /\ s \in Selects THEN "real"
                                ELSE "none"]
       /\ rowcount' = [rowcount EXCEPT ![s] =
                          IF ok[t] /\ (call[t] = "SetPos" \/ s \notin Selects)
                          THEN affected ELSE @]
       /\ awaiting' = awaiting \ {s}
    /\ Advance(t)
    /\ UNCHANGED <<locks, busy, setting, ok, session, mysql, told, killed>>

NeedData(t) ==
    /\ At(t, "needdata")
    /\ awaiting' = awaiting \cup {of[t]}
    /\ Advance(t)
    /\ UNCHANGED <<locks, busy, setting, ok, session, mysql, result,
                   rowcount, ran, told, killed>>

(* A catalog function shows rows that the driver makes itself; SQLRowCount *)
(* counts those.  set_row_count writes their number in the MYSQL object too*)
(* (create_fake_resultset).                                                *)
FakeResult(t) ==
    /\ At(t, "fake")
    /\ LET s == of[t] IN
       /\ result' = [result EXCEPT ![s] = IF ok[t] THEN "fake" ELSE "none"]
       /\ rowcount' = [rowcount EXCEPT ![s] = IF ok[t] THEN s ELSE @]
       /\ ran' = [ran EXCEPT ![s] = ok[t]]
       /\ affected' = IF ok[t] THEN s ELSE affected
    /\ Advance(t)
    /\ UNCHANGED <<locks, busy, setting, ok, session, batch, more, awaiting,
                   told, killed>>

(* mysql_store_result of SQLColumns.                                       *)
Store(t) ==
    /\ At(t, "store")
    /\ busy' = [busy EXCEPT ![t] = IF ok[t] THEN "store" ELSE "no"]
    /\ Advance(t)
    /\ UNCHANGED <<locks, setting, ok, session, mysql, stmts, told, killed>>

Stored(t) ==
    /\ At(t, "stored")
    /\ busy' = [busy EXCEPT ![t] = "no"]
    /\ Advance(t)
    /\ UNCHANGED <<locks, setting, ok, session, mysql, stmts, told, killed>>

-----------------------------------------------------------------------------
(* free_all_results reads and drops what is pending on the connection,     *)
(* unless the result is one of the driver's own.                           *)
Drain(t) ==
    /\ At(t, "drain")
    /\ busy' = [busy EXCEPT ![t] = IF result[of[t]] = "fake" THEN "no"
                                   ELSE "drain"]
    /\ Advance(t)
    /\ UNCHANGED <<locks, setting, ok, session, mysql, stmts, told, killed>>

Drained(t) ==
    /\ At(t, "drained")
    /\ IF busy[t] = "drain"
       THEN more' = 0 /\ batch' = Nobody /\ affected' = Nobody
       ELSE UNCHANGED mysql
    /\ busy' = [busy EXCEPT ![t] = "no"]
    /\ LET s == of[t] IN
       /\ result' = [result EXCEPT ![s] = "none"]
       /\ rowcount' = [rowcount EXCEPT ![s] = Nobody]
       /\ ran' = [ran EXCEPT ![s] = FALSE]
    /\ Advance(t)
    /\ UNCHANGED <<locks, setting, ok, session, awaiting, told, killed>>

(* my_SQLFreeStmtExtended(SQL_CLOSE) also ends the wait for data.          *)
CloseStmt(t) ==
    /\ At(t, "close")
    /\ awaiting' = awaiting \ {of[t]}
    /\ Advance(t)
    /\ UNCHANGED <<locks, busy, setting, ok, session, mysql, result,
                   rowcount, ran, told, killed>>

MoreLeft == IF more = 0 THEN 0 ELSE more - 1

(* SQLMoreResults: mysql_next_result, whosever result comes next.  Without *)
(* a successful execution there is nothing more (the driver manager's rule *)
(* where the driver still has an older ST_EXECUTED).                       *)
NextResult(t) ==
    /\ At(t, "next")
    /\ busy' = [busy EXCEPT ![t] = IF ran[of[t]] THEN "next" ELSE "no"]
    /\ Advance(t)
    /\ UNCHANGED <<locks, setting, ok, session, mysql, stmts, told, killed>>

NextDone(t) ==
    /\ At(t, "nextdone")
    /\ IF busy[t] = "next"
       THEN LET s == of[t] IN
            /\ more' = MoreLeft
            /\ batch' = IF more <= 1 THEN Nobody ELSE batch
            /\ affected' = batch
            /\ result' = [result EXCEPT ![s] =
                             IF more > 0 /\ s \in Selects THEN "real"
                             ELSE "none"]
            /\ rowcount' = [rowcount EXCEPT ![s] =
                               IF more > 0 THEN batch ELSE @]
       ELSE UNCHANGED <<mysql, result, rowcount>>
    /\ busy' = [busy EXCEPT ![t] = "no"]
    /\ Advance(t)
    /\ UNCHANGED <<locks, setting, ok, session, ran, awaiting, told, killed>>

(* SQLRowCount: the count in the MYSQL object if the statement has a result*)
(* of the server, otherwise the one kept for it.                           *)
CountShown(s) == IF result[s] = "real" THEN affected ELSE rowcount[s]

RowCount(t) ==
    /\ At(t, "rowcount")
    /\ told' = IF ran[of[t]] THEN <<of[t], CountShown(of[t])>> ELSE told
    /\ Advance(t)
    /\ UNCHANGED <<locks, busy, setting, ok, session, mysql, stmts, killed>>

(* SQLCancel.  The second connection may fail, or the KILL arrive when     *)
(* another query is running, or none.                                      *)
TryLock(t) ==
    /\ At(t, "try")
    /\ Continue(t, IF dlock = Nobody THEN "CancelClose" ELSE "CancelKill")
    /\ UNCHANGED <<locks, busy, setting, ok, session, mysql, stmts, told,
                   killed>>

Kill(t) ==
    /\ At(t, "kill")
    /\ killed' \in {killed, killed \cup {u \in Threads : busy[u] = "query"}}
    /\ Advance(t)
    /\ UNCHANGED <<locks, busy, setting, ok, session, mysql, stmts, told>>

Step(t) ==
    \/ LockStmt(t) \/ UnlockStmt(t) \/ LockDbc(t) \/ UnlockDbc(t)
    \/ Check(t) \/ Branch(t) \/ SendLimit(t) \/ Limited(t) \/ Cache(t)
    \/ Send(t) \/ Receive(t) \/ NothingSent(t) \/ Count(t) \/ NeedData(t)
    \/ FakeResult(t) \/ Store(t) \/ Stored(t)
    \/ Drain(t) \/ Drained(t) \/ CloseStmt(t)
    \/ NextResult(t) \/ NextDone(t) \/ RowCount(t)
    \/ TryLock(t) \/ Kill(t) \/ Return(t)

Next ==
    \E t \in Threads :
        \/ \E c \in Calls, s \in Stmts : Call(t, c, s)
        \/ Step(t)

Spec == Init /\ [][Next]_vars

(* A thread that can run runs, and the server answers every query.  A      *)
(* thread makes boundedly many calls, so that no mutex has to be fair.     *)
FairSpec == Spec /\ \A t \in Threads : WF_vars(Step(t))

-----------------------------------------------------------------------------
Waiting(t) == At(t, "lockS") \/ At(t, "lockD")

(* The types of the variables.                                             *)
TypeOK ==
    /\ call \in [Threads -> DOMAIN Program]
    /\ pc \in [Threads -> Nat \ {0}] /\ of \in [Threads -> Stmts]
    /\ calls \in [Threads -> 0..MaxCalls]
    /\ slock \in [Stmts -> Threads \cup {Nobody}]
    /\ dlock \in Threads \cup {Nobody}
    /\ busy \in [Threads -> {"no", "limit", "query", "store", "drain",
                              "next"}]
    /\ setting \in [Threads -> BOOLEAN] /\ ok \in [Threads -> BOOLEAN]
    /\ cache \in Nat \cup {-1} /\ limit \in Nat
    /\ batch \in Stmts \cup {Nobody} /\ more \in 0..MaxMore
    /\ affected \in Stmts \cup {Nobody}
    /\ result \in [Stmts -> {"none", "real", "fake"}]
    /\ rowcount \in [Stmts -> Stmts \cup {Nobody}]
    /\ ran \in [Stmts -> BOOLEAN] /\ awaiting \subseteq Stmts
    /\ told \in (Stmts \cup {Nobody}) \X (Stmts \cup {Nobody})
    /\ killed \subseteq Threads

(* A thread that has DBC::lock waits for no lock, and one that has a       *)
(* statement's lock waits for DBC::lock at most: there is no deadlock.     *)
OwnersProceed ==
    /\ \A t \in Threads : dlock = t => ~Waiting(t)
    /\ \A t \in Threads, s \in Stmts : slock[s] = t => ~At(t, "lockS")

OnTheWire(t) == busy[t] \notin {"no", "drain"}

(* "running odbc_stmt() is thread safe" (connect.cc): two threads are never*)
(* on the network with commands of theirs at the same time (except to read *)
(* what earlier results have left over).                                   *)
CommandsExclusive ==
    \A t, u \in Threads : OnTheWire(t) /\ OnTheWire(u) => t = u

(* A statement's query runs under its own SQL_ATTR_MAX_ROWS, whatever      *)
(* other statements have set and whatever the driver remembers of it.      *)
LimitOwn ==
    \A t \in Threads : busy[t] = "query" /\ call[t] # "EndTran"
                            => limit = MaxRows[of[t]]

(* "If there's no query going on, just close the statement" (execute.cc):  *)
(* SQLCancel takes this way only if no query of the statement is going on. *)
CloseOnlyWhenIdle ==
    [][\A t \in Threads :
          call[t] = "Cancel" /\ call'[t] = "CancelClose" =>
              \A u \in Threads : busy[u] = "query" => of[u] # of[t]]_vars

(* SQLCancel will "cancel the query" of the statement it is called for     *)
(* (execute.cc), not one of another statement on the connection.           *)
KillsOwnQuery ==
    [][\A t, u \in Threads :
          At(t, "kill") /\ pc'[t] # pc[t] /\ u \in killed' \ killed =>
              of[u] = of[t]]_vars

(* SQLMoreResults "determines whether more results are available on a      *)
(* statement" (results.cc), closing a statement "discards pending results" *)
(* (handle.cc): results are taken and dropped for the statement that has   *)
(* produced them.                                                          *)
ResultsReachTheirStatement ==
    [][\A t \in Threads :
          pc'[t] # pc[t] /\ more' < more => batch = of[t]]_vars

(* SQLRowCount "returns the number of rows affected by" the statement it is*)
(* called for (results.cc).                                                *)
RowCountOwn == told[1] = told[2]

(* Every call returns.                                                     *)
CallsReturn ==
    \A t \in Threads : call[t] # "none" ~> call[t] = "none"
=============================================================================
