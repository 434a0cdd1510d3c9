------------------------------ MODULE Session ------------------------------
(***************************************************************************)
(* What the driver believes of its server session, and what the session is  *)
(* (options.cc, connect.cc, handle.cc, transact.cc, utility.cc).  The       *)
(* driver caches the row limit, the isolation level and the catalogue, and  *)
(* reads autocommit from the status the client library keeps; a session     *)
(* ends and another begins under it when the application connects again,    *)
(* when a pooled connection is woken up, and when the client library        *)
(* reconnects.                                                              *)
(*                                                                         *)
(* One connection, its calls one after another (Connection has the          *)
(* threads).  Any command can be refused by the server.  The server supports*)
(* transactions, as every one does that DBC::connect accepts.               *)
(***************************************************************************)
EXTENDS Integers, FiniteSets

CONSTANTS
    Stmts,       \* statement handles
    Levels,      \* values of SQL_ATTR_TXN_ISOLATION that are set
    MaxRows,     \* values of SQL_ATTR_MAX_ROWS
    Catalogs,    \* names of databases
    DATABASE,    \* the option DATABASE of the data source
    Configs,     \* options and server defaults, see ConfigsAssumption
    Lapses,      \* what may happen to the session besides the driver's calls
    MaxLapses    \* bound: kinds of these in one behaviour

Known     == {1, 2, 4, 8}  \* READ UNCOMMITTED ... SERIALIZABLE
NotKnown  == 0             \* DEFAULT_TXN_ISOLATION
Unlimited == -1            \* (SQLULEN)-1: sql_select_unlimited, or never set
NoName    == ""        \* of a database
AllLapses == {"again", "pooled", "unasked", "lost", "swallowed", "text",
              "level", "env"}

ASSUME LevelsAssumption  == Levels \subseteq Nat \ {0}
ASSUME MaxRowsAssumption == MaxRows \subseteq Nat \cup {Unlimited}
ASSUME CatalogsAssumption == DATABASE \in Catalogs /\ NoName \notin Catalogs
ASSUME ConfigsAssumption ==
    Configs \subseteq [NO_TRANSACTIONS : BOOLEAN, AUTO_RECONNECT : BOOLEAN,
                       autocommit : BOOLEAN, isolation : Known]
ASSUME LapsesAssumption  == Lapses \subseteq AllLapses /\ MaxLapses \in Nat

VARIABLES
    config,  \* a member of Configs
    link,    \* DBC::mysql: "none"; or the connection is "up", is "lost", or
             \* the client library has "noticed" that (no net.vio)
    server,  \* the session; of a lost connection, the one that would follow;
             \* seen is history: the driver has set its isolation level or
             \* asked for it, and no text of a query changed it since
    mysql,   \* what the client library knows: status flags and database
    dbc,     \* the driver's fields
    stmts,   \* SQL_ATTR_MAX_ROWS of the statements there are
    asked,   \* what the application set and was told is set
    held,    \* "app", or "pool" while the driver manager keeps it
    rolled,  \* work was lost and no call has returned an error since
    last,    \* the last call and what came of it
    lapses   \* the kinds of Lapses met

vars == <<config, link, server, mysql, dbc, stmts, asked, held, rolled, last,
          lapses>>

Fresh(db) == [autocommit |-> config.autocommit,
              isolation |-> config.isolation, limit |-> 0, catalog |-> db,
              work |-> FALSE, owner |-> "present", seen |-> FALSE]

Free == -2   \* no statement of this name

Idle == [call |-> "none", value |-> 0, lost |-> FALSE]

NothingAsked == [autocommit |-> {}, isolation |-> {}]

Init ==
    /\ config \in Configs
    /\ link = "none"
    /\ server = Fresh(DATABASE)
    /\ mysql = [autocommit |-> TRUE, in_trans |-> FALSE, db |-> DATABASE]
    /\ dbc = [commit_flag |-> "none", txn_isolation |-> NotKnown,
              sql_select_limit |-> Unlimited, database |-> NoName,
              need_to_wakeup |-> FALSE]
    /\ stmts = [s \in Stmts |-> Free]
    /\ asked = NothingAsked
    /\ held = "app" /\ rolled = FALSE /\ last = Idle /\ lapses = {}

-----------------------------------------------------------------------------
(***************************************************************************)
(* Commands, and how they end                                              *)
(***************************************************************************)

(* A kind of Lapses is met.                                                *)
Meet(kind) ==
    /\ kind \in Lapses
    /\ lapses' = lapses \cup {kind}
    /\ Cardinality(lapses') <= MaxLapses

(* The call returns what the properties look at; an error, or "dead", tells *)
(* the application that work is lost.                                      *)
Return(call, value) ==
    /\ last' = [call |-> call, value |-> value, lost |-> rolled]
    /\ rolled' = /\ rolled
                 /\ call \notin {"commit", "rollback"}
                 /\ ~(call = "get_dead" /\ value)
Over   == last' = Idle /\ UNCHANGED rolled
Failed == last' = Idle /\ rolled' = FALSE

(* mysql_reconnect: not in a transaction.                                  *)
Reachable == link = "up" \/ (config.AUTO_RECONNECT /\ ~mysql.in_trans)

(* The server has answered; s is the session then, db mysql->db.           *)
Answered(s, db) ==
    /\ link' = "up"
    /\ server' = s
    /\ mysql' = [autocommit |-> s.autocommit, in_trans |-> s.work, db |-> db]

Done(s) == Reachable /\ Answered(s, mysql.db)

(* The connection breaks, or is broken and the server still away.          *)
Broken ==
    /\ link # "up"
    /\ link' = "noticed"
    /\ \/ mysql' = [mysql EXCEPT !.in_trans = FALSE]
       \/ link = "lost" /\ UNCHANGED mysql
    /\ UNCHANGED server

(* A command fails: the server refuses it, or cannot be reached.           *)
Fails == Done(server) \/ Broken

NoCommand == UNCHANGED <<link, server, mysql>>

(* WAKEUP_CONN_IF_NEEDED: the session a call with this macro goes on in.    *)
Woken    == IF dbc.need_to_wakeup THEN Fresh(DATABASE) ELSE server
WokenDb  == IF dbc.need_to_wakeup THEN DATABASE ELSE mysql.db
WokenDbc == [dbc EXCEPT !.need_to_wakeup = FALSE]
WokenDone(s, db) == Reachable /\ Answered(s, db) /\ dbc' = WokenDbc
WokenFails ==
    /\ IF dbc.need_to_wakeup THEN WokenDone(Woken, WokenDb) ELSE Fails
    /\ dbc' = WokenDbc
WokenIdle ==
    /\ IF dbc.need_to_wakeup THEN WokenDone(Woken, WokenDb) ELSE NoCommand
    /\ dbc' = WokenDbc

(* wakeup_connection fails; a server that refuses COM_CHANGE_USER closes    *)
(* the connection.                                                         *)
WakeupRefused ==
    /\ dbc.need_to_wakeup /\ Reachable
    /\ link' = "lost" /\ server' = Fresh(mysql.db)
    /\ UNCHANGED <<mysql, dbc>>
WakeupBroken == dbc.need_to_wakeup /\ Broken /\ UNCHANGED dbc

(* A call with the macro that returns because of it.                       *)
NotWoken ==
    /\ WakeupRefused \/ WakeupBroken
    /\ Failed
    /\ UNCHANGED <<config, stmts, asked, held, lapses>>

Connected == link # "none" /\ held = "app"

(* is_connected, after the wake-up.                                        *)
IsConnected == dbc.need_to_wakeup \/ link # "noticed"

-----------------------------------------------------------------------------
(***************************************************************************)
(* Connecting                                                              *)
(***************************************************************************)

(* DBC::connect tests bits, highest first.                                 *)
Bit(v, b) == (v \div b) % 2 = 1
LevelSent(v) == IF Bit(v, 8) THEN 8
                ELSE IF Bit(v, 4) THEN 4
                ELSE IF Bit(v, 2) THEN 2 ELSE 1

(* SQLSetConnectAttr before there is a connection.                         *)
SetEarly ==
    /\ link = "none" /\ held = "app" /\ ~dbc.need_to_wakeup
    /\ \/ \E on \in BOOLEAN :
            /\ dbc' = [dbc EXCEPT !.commit_flag = IF on THEN "on" ELSE "off"]
            /\ asked' = [asked EXCEPT !.autocommit = {on}]
            /\ UNCHANGED lapses
       \/ \E v \in Levels :
            /\ dbc' = [dbc EXCEPT !.txn_isolation = v]
            /\ asked' = [asked EXCEPT !.isolation = {v}]
            /\ IF v \in Known THEN UNCHANGED lapses ELSE Meet("level")
       \/ \E c \in Catalogs :
            /\ dbc' = [dbc EXCEPT !.database = c]
            /\ UNCHANGED <<asked, lapses>>
    /\ Over
    /\ UNCHANGED <<config, link, server, mysql, stmts, held>>

(* Autocommit and isolation as DBC::connect leaves them.                   *)
FlagKept == IF dbc.commit_flag = "off" /\ config.NO_TRANSACTIONS
            THEN "on" ELSE dbc.commit_flag
AutocommitSentOn ==  \* variant: autocommit is only ever switched on
    config.autocommit \/ dbc.commit_flag = "on"
AutocommitSent == CASE dbc.commit_flag = "none" -> config.autocommit
                    [] dbc.commit_flag = "on"   -> TRUE
                    [] OTHER -> config.autocommit /\ config.NO_TRANSACTIONS
IsolationSent == IF dbc.txn_isolation = NotKnown THEN config.isolation
                 ELSE LevelSent(dbc.txn_isolation)

(* DBC::connect; if the server cannot be reached, or refuses one of the     *)
(* commands, dbc_guard closes the connection again.                        *)
Connect ==
    /\ link = "none" /\ held = "app"
    /\ \/ /\ Answered([Fresh(DATABASE) EXCEPT
                         !.autocommit = AutocommitSent,
                         !.isolation = IsolationSent,
                         !.seen = dbc.txn_isolation \in Known], DATABASE)
          /\ dbc' = [dbc EXCEPT !.database = DATABASE,
                                !.commit_flag = FlagKept]
          /\ asked' = [asked EXCEPT
                !.autocommit = IF dbc.commit_flag = FlagKept THEN @ ELSE {}]
          /\ Over
       \/ /\ \/ UNCHANGED dbc
             \/ dbc' = [dbc EXCEPT !.database = DATABASE,
                                   !.commit_flag = FlagKept]
          /\ Failed
          /\ UNCHANGED <<link, server, mysql, asked>>
    /\ UNCHANGED <<config, stmts, held, lapses>>

(* The application's SQLDisconnect; it may connect the handle again.       *)
Disconnect ==
    /\ Connected
    /\ Meet("again")
    /\ link' = "none" /\ server' = Fresh(DATABASE)
    /\ stmts' = [s \in Stmts |-> Free]
    /\ dbc' = [dbc EXCEPT !.database = NoName]
    /\ asked' = NothingAsked
    /\ rolled' = FALSE /\ last' = Idle
    /\ UNCHANGED <<config, mysql, held>>

-----------------------------------------------------------------------------
(***************************************************************************)
(* The pool of the driver manager                                          *)
(***************************************************************************)

(* SQLSetConnectAttr(SQL_ATTR_RESET_CONNECTION), as the connection goes     *)
(* into the pool.                                                          *)
Reset ==
    /\ Connected
    /\ \/ NotWoken
       \/ /\ IF dbc.need_to_wakeup THEN Reachable ELSE TRUE
          /\ LET s == IF dbc.need_to_wakeup THEN Woken ELSE server
             IN  server' = IF dbc.need_to_wakeup \/ link = "up"
                           THEN [s EXCEPT !.owner = "former"] ELSE s
          /\ IF dbc.need_to_wakeup
             THEN /\ link' = "up"
                  /\ mysql' = [autocommit |-> config.autocommit,
                               in_trans |-> FALSE, db |-> DATABASE]
             ELSE UNCHANGED <<link, mysql>>
          /\ dbc' = [dbc EXCEPT !.need_to_wakeup = TRUE]
          /\ stmts' = [s \in Stmts |-> Free]
          /\ asked' = NothingAsked
          /\ held' = "pool" /\ rolled' = FALSE /\ last' = Idle
          /\ UNCHANGED <<config, lapses>>

(* The driver manager asks SQL_ATTR_CONNECTION_DEAD before it hands the     *)
(* connection out; a refused wake-up does not count as dead.                *)
Ask ==
    /\ held = "pool"
    /\ Meet("pooled")
    /\ \/ WokenDone(Woken, WokenDb) /\ held' = "app"
       \/ WakeupRefused /\ held' = "app"
       \/ WakeupBroken /\ UNCHANGED held
    /\ rolled' = FALSE /\ last' = Idle
    /\ UNCHANGED <<config, stmts, asked>>

(* A driver manager that does not ask.                                     *)
HandOut ==
    /\ held = "pool"
    /\ Meet("unasked")
    /\ held' = "app"
    /\ UNCHANGED <<config, link, server, mysql, dbc, stmts, asked, rolled,
                   last>>

(* It disconnects and frees the handle; the application gets a new one.    *)
Drop ==
    /\ held = "pool"
    /\ link' = "none" /\ server' = Fresh(DATABASE) /\ held' = "app"
    /\ dbc' = [commit_flag |-> "none", txn_isolation |-> NotKnown,
               sql_select_limit |-> Unlimited, database |-> NoName,
               need_to_wakeup |-> FALSE]
    /\ lapses' = {}
    /\ UNCHANGED <<config, mysql, stmts, asked, rolled, last>>

-----------------------------------------------------------------------------
(***************************************************************************)
(* Attributes of a connected handle                                        *)
(***************************************************************************)

(* A call is over, and only session and driver fields have changed.        *)
OnlySession == UNCHANGED <<config, stmts, asked, held, lapses>>

SetAutocommit(on) ==
    /\ Connected
    /\ \/ NotWoken
       \/ /\ ~IsConnected
          /\ dbc' = [dbc EXCEPT !.commit_flag = IF on THEN "on" ELSE "off"]
          /\ asked' = [asked EXCEPT !.autocommit = {on}]
          /\ NoCommand /\ Over
          /\ UNCHANGED <<config, stmts, held, lapses>>
       \/ /\ IsConnected /\ ~on /\ config.NO_TRANSACTIONS
          /\ WokenIdle /\ Failed /\ OnlySession
       \/ /\ IsConnected /\ (on \/ ~config.NO_TRANSACTIONS)
          /\ LET is_on == IF dbc.need_to_wakeup THEN config.autocommit
                          ELSE mysql.autocommit
             IN  \/ /\ is_on # on
                    /\ WokenDone([Woken EXCEPT !.autocommit = on,
                            !.work = @ /\ ~on], WokenDb)
                    /\ Over
                    /\ asked' = [asked EXCEPT !.autocommit = {on}]
                 \/ /\ is_on # on
                    /\ WokenFails /\ Failed
                    /\ UNCHANGED asked
                 \/ /\ is_on = on
                    /\ WokenIdle /\ Over
                    /\ asked' = [asked EXCEPT !.autocommit = {on}]
          /\ UNCHANGED <<config, stmts, held, lapses>>

SetIsolationEagerly(v) ==  \* variant: cached before the server has answered
    /\ Connected /\ v \in Known
    /\ Fails /\ Failed
    /\ dbc' = [dbc EXCEPT !.txn_isolation = v]
    /\ UNCHANGED <<config, stmts, asked, held, lapses>>

SetIsolation(v) ==
    /\ Connected
    /\ \/ NotWoken
       \/ /\ ~IsConnected
          /\ dbc' = [dbc EXCEPT !.txn_isolation = v]
          /\ asked' = [asked EXCEPT !.isolation = {v}]
          /\ NoCommand /\ Over
          /\ IF v \in Known THEN UNCHANGED lapses ELSE Meet("level")
          /\ UNCHANGED <<config, stmts, held>>
       \/ /\ IsConnected /\ v \notin Known
          /\ WokenIdle /\ Failed /\ OnlySession
       \/ /\ IsConnected /\ v \in Known
          /\ WokenFails /\ Failed /\ OnlySession
       \/ /\ IsConnected /\ v \in Known /\ Reachable
          /\ Answered([Woken EXCEPT !.isolation = v, !.seen = TRUE], WokenDb)
          /\ dbc' = [WokenDbc EXCEPT !.txn_isolation = v]
          /\ asked' = [asked EXCEPT !.isolation = {v}]
          /\ Over
          /\ UNCHANGED <<config, stmts, held, lapses>>

SetCatalog(c) ==
    /\ Connected
    /\ \/ NotWoken
       \/ /\ ~IsConnected
          /\ dbc' = [dbc EXCEPT !.database = c]
          /\ NoCommand /\ Over
          /\ OnlySession
       \/ IsConnected /\ WokenFails /\ Failed /\ OnlySession
       \/ /\ IsConnected /\ Reachable
          /\ Answered([Woken EXCEPT !.catalog = c], c)
          /\ dbc' = [WokenDbc EXCEPT !.database = c]
          /\ Over
          /\ OnlySession

GetAutocommit ==
    /\ Connected
    /\ \/ NotWoken
       \/ /\ WokenIdle
          /\ Return("get_autocommit", mysql'.autocommit)
          /\ OnlySession

(* From the cache, or asked of the server and cached.                      *)
GetIsolation ==
    /\ Connected
    /\ \/ NotWoken
       \/ /\ dbc.txn_isolation # NotKnown
          /\ WokenIdle
          /\ Return("get_isolation", dbc.txn_isolation)
       \/ /\ dbc.txn_isolation = NotKnown /\ ~IsConnected
          /\ NoCommand /\ UNCHANGED dbc
          /\ Return("get_isolation", 4)
       \/ /\ dbc.txn_isolation = NotKnown /\ IsConnected
          /\ \/ /\ Reachable
                /\ Answered([Woken EXCEPT !.seen = TRUE], WokenDb)
                /\ dbc' = [WokenDbc EXCEPT !.txn_isolation = Woken.isolation]
                /\ Return("get_isolation", Woken.isolation)
             \/ WokenFails /\ Failed
    /\ OnlySession

(* SQL_ATTR_CONNECTION_DEAD asked by the application: a ping, or a wake-up  *)
(* if one is due.                                                          *)
GetDead ==
    /\ Connected
    /\ \/ /\ IF dbc.need_to_wakeup THEN WokenDone(Woken, WokenDb)
             ELSE Done(server) /\ UNCHANGED dbc
          /\ Return("get_dead", FALSE)
       \/ WakeupRefused /\ Return("get_dead", FALSE)
       \/ Broken /\ UNCHANGED dbc /\ Return("get_dead", TRUE)
    /\ OnlySession

(* SQLGetInfo(SQL_DATABASE_NAME): reget_current_catalog, without a wake-up. *)
GetCatalog ==
    /\ Connected
    /\ \/ link = "noticed" /\ NoCommand /\ Over /\ UNCHANGED dbc
       \/ /\ link # "noticed" /\ Done(server) /\ Over
          /\ dbc' = [dbc EXCEPT !.database = server.catalog]
       \/ /\ link # "noticed" /\ Fails /\ Failed
          /\ dbc' = [dbc EXCEPT !.database = NoName]
    /\ OnlySession

-----------------------------------------------------------------------------
(***************************************************************************)
(* Statements                                                              *)
(***************************************************************************)

(* set_sql_select_limit: whether it sends a command, and which.            *)
NeedsSet(d, n) == ~ \/ n = d.sql_select_limit
                    \/ n = Unlimited /\ d.sql_select_limit = 0
LimitSent(n) == IF n > 0 THEN n ELSE 0
LimitedDbc(d, n) == IF NeedsSet(d, n)
                    THEN [d EXCEPT !.sql_select_limit = LimitSent(n)] ELSE d
Limited(s, d, n) == IF NeedsSet(d, n)
                    THEN [s EXCEPT !.limit = LimitSent(n)] ELSE s

Wrote(s, writes) == [s EXCEPT !.work = @ \/ (writes /\ ~s.autocommit)]

(* A first command that cannot be sent lets the client library reconnect at *)
(* the next.                                                               *)
SecondTry == link = "up" \/ config.AUTO_RECONNECT

(* The row limit and a query of statement s; d are the driver's fields.    *)
QueryWorks(call, d, n, writes) ==
    /\ Answered(Wrote(Limited(server, d, n), writes), mysql.db)
    /\ dbc' = LimitedDbc(d, n)
    /\ Return(call, n)

QueryRefusedCached(d, n) ==  \* variant: cached though it was refused
    /\ Answered(server, mysql.db)
    /\ dbc' = LimitedDbc(d, n)
    /\ Failed

(* The server refuses it; the limit is set, or was refused in its turn.    *)
QueryRefused(d, n) ==
    /\ \/ /\ Answered(Limited(server, d, n), mysql.db)
          /\ dbc' = LimitedDbc(d, n)
       \/ Answered(server, mysql.db) /\ dbc' = d
    /\ Failed

Unreachable(d) == Broken /\ dbc' = d /\ Failed

AllocStmtAsleep(s) ==  \* variant: without the wake-up
    /\ Connected /\ stmts[s] = Free
    /\ NoCommand
    /\ stmts' = [stmts EXCEPT ![s] = 0]
    /\ Over
    /\ UNCHANGED <<config, dbc, asked, held, lapses>>

AllocStmt(s) ==
    /\ Connected /\ stmts[s] = Free
    /\ \/ NotWoken
       \/ /\ WokenIdle
          /\ stmts' = [stmts EXCEPT ![s] = 0]
          /\ Over
          /\ UNCHANGED <<config, asked, held, lapses>>

FreeStmt(s) ==
    /\ Connected /\ stmts[s] # Free
    /\ stmts' = [stmts EXCEPT ![s] = Free]
    /\ Over
    /\ NoCommand
    /\ UNCHANGED <<config, dbc, asked, held, lapses>>

SetMaxRows(s, n) ==
    /\ Connected /\ stmts[s] # Free
    /\ stmts' = [stmts EXCEPT ![s] = n]
    /\ Over
    /\ NoCommand
    /\ UNCHANGED <<config, dbc, asked, held, lapses>>

Query(s) ==
    /\ Connected /\ stmts[s] # Free
    /\ \/ /\ Reachable
          /\ \E writes \in BOOLEAN :
               QueryWorks("query", dbc, stmts[s], writes)
       \/ Reachable /\ QueryRefused(dbc, stmts[s])
       \/ Unreachable(dbc)
    /\ OnlySession

(* check_result: SQLDescribeCol of a prepared SELECT executes it for one    *)
(* row; if that fails the limit of the statement is set at once.           *)
PreExecute(s) ==
    /\ Connected /\ stmts[s] # Free
    /\ \/ Reachable /\ QueryWorks("query", dbc, 1, FALSE)
       \/ /\ SecondTry
          /\ \E one, own \in BOOLEAN :
               LET d1 == IF one THEN LimitedDbc(dbc, 1) ELSE dbc
                   s1 == IF one THEN Limited(server, dbc, 1) ELSE server
               IN  /\ one => Reachable
                   /\ Answered(IF own THEN Limited(s1, d1, stmts[s]) ELSE s1,
                               mysql.db)
                   /\ dbc' = IF own THEN LimitedDbc(d1, stmts[s]) ELSE d1
          /\ Failed
       \/ Unreachable(dbc)
    /\ OnlySession

(* STMT::prepare on the server: without a limit, whether that could be set  *)
(* or not.                                                                 *)
Prepare(s) ==
    /\ Connected /\ stmts[s] # Free
    /\ \/ /\ Reachable
          /\ Answered(Limited(server, dbc, 0), mysql.db)
          /\ dbc' = LimitedDbc(dbc, 0)
          /\ (Over \/ Failed)
          /\ UNCHANGED lapses
       \/ /\ SecondTry /\ NeedsSet(dbc, 0)
          /\ Meet("swallowed")
          /\ Answered(server, mysql.db)
          /\ UNCHANGED dbc
          /\ (Over \/ Failed)
       \/ Unreachable(dbc) /\ UNCHANGED lapses
    /\ UNCHANGED <<config, stmts, asked, held>>

(* A catalogue function called without a catalogue: it looks into the       *)
(* current one, and into "null" if it cannot learn which that is.          *)
Lookup(s) ==
    /\ Connected /\ stmts[s] # Free
    /\ LET known == [dbc EXCEPT !.database = server.catalog]
           lost  == [dbc EXCEPT !.database = NoName]
       IN  \/ /\ Reachable
              /\ \/ QueryWorks("lookup", known, stmts[s], FALSE)
                 \/ QueryRefused(known, stmts[s])
              /\ UNCHANGED lapses
           \/ /\ SecondTry
              /\ Meet("swallowed")
              /\ \/ QueryWorks("lookup", lost, stmts[s], FALSE)
                 \/ QueryRefused(lost, stmts[s])
           \/ Unreachable(lost) /\ UNCHANGED lapses
    /\ UNCHANGED <<config, stmts, asked, held>>

(* The application changes the session by the text of a query.             *)
ByText(s) ==
    /\ Connected /\ Reachable /\ stmts[s] # Free
    /\ Meet("text")
    /\ LET before == Limited(server, dbc, stmts[s])
       IN  \/ \E on \in BOOLEAN :
                Answered([before EXCEPT !.autocommit = on,
                                        !.work = @ /\ ~on], mysql.db)
           \/ \E v \in Levels \cap Known :
                Answered([before EXCEPT !.isolation = v, !.seen = FALSE],
                         mysql.db)
           \/ \E c \in Catalogs :
                Answered([before EXCEPT !.catalog = c], mysql.db)
    /\ dbc' = LimitedDbc(dbc, stmts[s])
    /\ asked' = NothingAsked
    /\ Over
    /\ UNCHANGED <<config, stmts, held>>

-----------------------------------------------------------------------------
(***************************************************************************)
(* Transactions, and the loss of the connection                            *)
(***************************************************************************)

TransactDeaf(kind) ==  \* variant: the result of the command is not looked at
    /\ \/ Done([server EXCEPT !.work = FALSE])
       \/ Fails
    /\ Return(kind, FALSE)

(* my_transact; value tells whether it was another user's work.            *)
Transact(kind) ==
    \/ /\ ~config.NO_TRANSACTIONS
       /\ Done([server EXCEPT !.work = FALSE])
       /\ Return(kind, server.work /\ server.owner = "former")
    \/ /\ ~config.NO_TRANSACTIONS
       /\ Fails
       /\ Failed
    \/ /\ config.NO_TRANSACTIONS
       /\ NoCommand
       /\ Return(kind, FALSE)

EndTran(kind) ==
    /\ Connected
    /\ Transact(kind)
    /\ UNCHANGED <<config, dbc, stmts, asked, held, lapses>>

(* SQLEndTran of the environment does not look at what its connections      *)
(* answer.                                                                 *)
EndTranEnv(kind) ==
    /\ Connected /\ ~config.NO_TRANSACTIONS
    /\ Fails
    /\ Meet("env")
    /\ Return(kind, FALSE)
    /\ UNCHANGED <<config, dbc, stmts, asked, held>>

(* The server goes away, or closes the connection, and rolls back.         *)
Lose ==
    /\ link = "up"
    /\ Meet("lost")
    /\ link' = "lost" /\ server' = Fresh(mysql.db)
    /\ rolled' = (rolled \/ (server.work /\ server.owner = "present"))
    /\ asked' = NothingAsked
    /\ last' = Idle
    /\ UNCHANGED <<config, mysql, dbc, stmts, held>>

Next ==
    \/ SetEarly \/ Connect \/ Disconnect
    \/ Reset \/ Ask \/ HandOut \/ Drop
    \/ \E on \in BOOLEAN : SetAutocommit(on)
    \/ \E v \in Levels : SetIsolation(v)
    \/ \E c \in Catalogs : SetCatalog(c)
    \/ GetAutocommit \/ GetIsolation \/ GetDead \/ GetCatalog
    \/ \E s \in Stmts :
         \/ AllocStmt(s) \/ FreeStmt(s)
         \/ \E n \in MaxRows : SetMaxRows(s, n)
         \/ Query(s) \/ PreExecute(s) \/ Prepare(s) \/ Lookup(s)
         \/ ByText(s)
    \/ \E kind \in {"commit", "rollback"} : EndTran(kind) \/ EndTranEnv(kind)
    \/ Lose

Spec == Init /\ [][Next]_vars

-----------------------------------------------------------------------------
(***************************************************************************)
(* Properties                                                              *)
(***************************************************************************)

(* The variables have their types; the database of the session is a known   *)
(* one.                                                                    *)
TypeOK ==
    /\ config \in Configs
    /\ link \in {"none", "up", "lost", "noticed"}
    /\ server \in [autocommit : BOOLEAN, isolation : Known,
                   limit : Nat, catalog : Catalogs, work : BOOLEAN,
                   owner : {"present", "former"}, seen : BOOLEAN]
    /\ mysql \in [autocommit : BOOLEAN, in_trans : BOOLEAN, db : Catalogs]
    /\ dbc \in [commit_flag : {"none", "on", "off"}, txn_isolation : Nat,
                sql_select_limit : Nat \cup {Unlimited},
                database : Catalogs \cup {NoName}, need_to_wakeup : BOOLEAN]
    /\ stmts \in [Stmts -> MaxRows \cup {0, Free}]
    /\ asked \in [autocommit : SUBSET BOOLEAN, isolation : SUBSET Levels]
    /\ held \in {"app", "pool"} /\ rolled \in BOOLEAN
    /\ lapses \subseteq Lapses

Met(kinds) == lapses \cap kinds # {}
Queried    == last.call \in {"query", "lookup"}

(* A query that succeeds runs under the SQL_ATTR_MAX_ROWS of its own        *)
(* statement, whatever other statements, prepared queries and refused       *)
(* commands came before, as long as the driver has one session throughout   *)
(* (set_sql_select_limit and its cache).                                   *)
LimitInForce ==
    Queried /\ ~Met({"again", "pooled", "unasked", "lost"})
        => server.limit = LimitSent(last.value)

(* Whatever sessions came and went, no query loses rows to the limit of     *)
(* another statement: a stale cache can only fail to limit it.             *)
NoRowsCut == Queried => server.limit \in {0, LimitSent(last.value)}

(* Each query runs under the limit of its statement, or under none.         *)
RowLimits == LimitInForce /\ NoRowsCut

(* SQLGetConnectAttr(SQL_ATTR_TXN_ISOLATION), answered from the cache, is  *)
(* the level of the session if the driver has set that level in this       *)
(* session, or asked for it there, whatever became of earlier sessions; and*)
(* in every other session of the handle that began by connecting it.  What *)
(* is left out: a session that began by a wake-up or a reconnect, a level  *)
(* set by the text of a query, and a level that is none.                   *)
IsolationTruthful ==
    /\ last.call = "get_isolation"
    /\ server.seen \/ ~Met({"pooled", "unasked", "lost", "text", "level"})
    => server.isolation = last.value

(* SQLGetConnectAttr(SQL_ATTR_AUTOCOMMIT) is the state of the session,      *)
(* whatever happened to it: the status flags come with every answer.       *)
AutocommitTruthful ==
    last.call = "get_autocommit" /\ link = "up"
        => server.autocommit = last.value

(* What the application was told is set holds in the session: autocommit   *)
(* and isolation, set before or after connecting.  (A connect that fails    *)
(* may drop the autocommit that NO_TRANSACTIONS forbids without saying so.) *)
SettingsHold ==
    /\ link = "up" /\ held = "app"
    /\ ~Met({"lost", "level"})
    => /\ \/ config.NO_TRANSACTIONS
          \/ asked.autocommit \subseteq {server.autocommit}
       /\ asked.isolation \subseteq {server.isolation}

(* No query runs in the session of the user who gave the connection back to *)
(* the pool, even if the driver manager does not ask whether it is alive.  *)
OwnSession == Queried => server.owner = "present"

(* SQLEndTran never commits the work of that user; it does not wake the     *)
(* connection up, so this takes a driver manager that asks.                *)
NoForeignCommit ==
    last.call = "commit" /\ ~Met({"unasked"}) => last.value = FALSE

(* A connection that went through the pool does not mix the sessions of its *)
(* users.                                                                  *)
SessionsApart == OwnSession /\ NoForeignCommit

(* After a successful SQLEndTran of the connection no work is left open, and*)
(* none has been rolled back behind the application's back: it has seen an  *)
(* error since, or the call returns one.  Environments ignore the errors of *)
(* their connections, and prepare and the catalogue functions one of theirs.*)
EndTranTruthful ==
    /\ last.call \in {"commit", "rollback"}
    /\ ~config.NO_TRANSACTIONS /\ ~Met({"env", "swallowed"})
    => ~last.lost /\ ~server.work

(* A catalogue function without a catalogue looks into the current one     *)
(* (get_database_name), and into no other even if the server refuses the   *)
(* question which that is: then it looks for the name "null".              *)
LooksInCurrent ==
    last.call = "lookup" =>
        \/ dbc.database = server.catalog
        \/ dbc.database = NoName /\ Met({"swallowed"})

(* SQL_ATTR_CONNECTION_DEAD says dead of no connection that answers, and    *)
(* alive of no dead one except after a wake-up the server refused.         *)
DeadTruthful ==
    last.call = "get_dead" =>
        /\ last.value => link = "noticed"
        /\ ~last.value /\ ~dbc.need_to_wakeup => link = "up"

(* What the driver answers about the session, from a cache or not, is what  *)
(* the session is.                                                         *)
CachesTruthful ==
    /\ TypeOK /\ IsolationTruthful /\ AutocommitTruthful
    /\ LooksInCurrent /\ DeadTruthful
=============================================================================
