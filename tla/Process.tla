------------------------------ MODULE Process ------------------------------
(***************************************************************************)
(* What the handles of one process share: the count of environments behind  *)
(* myodbc_init and myodbc_end (dll.cc), the threads' counts of connections  *)
(* (handle.cc), the table of SQLSTATEs (error.cc, info.cc) and the pool of  *)
(* authentication plugins with their options (connect.cc).                  *)
(*                                                                         *)
(* Threads make their calls one inside the other.  The driver manager's     *)
(* rules hold: no handle is freed while in use or with handles under it,    *)
(* and a connection serves one call at a time.  The client library is       *)
(* external: mysql_library_end ends it for every connection and unloads     *)
(* the plugins, mysql_init starts it again.                                *)
(***************************************************************************)
EXTENDS Integers, Sequences, FiniteSets

CONSTANTS
    Threads,   \* threads of the application
    Envs,      \* names of environments
    Dbcs,      \* names of connections
    None,      \* no thread, environment or connection
    Settings,  \* the calls of set_plugin_option in DBC::connect, in order
    Lapses,    \* the ways in which calls may meet
    MaxLapses, \* bound: kinds of these in one behaviour
    MaxCount   \* bound on myodbc_inited and thread_count

Versions == {2, 3}                \* SQL_OV_ODBC2; SQL_OV_ODBC3 and 3_80
Classes  == {"S1", "42", "HYT"}   \* SQLSTATEs rewritten by the loop; by name
                                  \* both ways; HYT00 and HY008
Options  == {Settings[i].option : i \in DOMAIN Settings}
Plugins  == {Settings[i].plugin : i \in DOMAIN Settings}
AllLapses == {"raced", "crossed", "refused", "mixed", "halfway", "together",
              "device", "again"}

ASSUME NoneAssumption ==
    /\ None \notin Threads \cup Envs \cup Dbcs \cup Versions
    /\ None \notin [env : Envs, by : Threads, set : SUBSET Options,
                    connected : BOOLEAN]
ASSUME HandlesAssumption == IsFiniteSet(Envs) /\ IsFiniteSet(Dbcs)
ASSUME SettingsAssumption ==
    /\ Settings \in Seq([plugin : STRING, option : STRING, always : BOOLEAN])
    /\ \A i, j \in DOMAIN Settings :
          Settings[i].option = Settings[j].option => i = j
ASSUME LapsesAssumption == Lapses \subseteq AllLapses /\ MaxLapses \in Nat
ASSUME CountAssumption  == MaxCount \in Nat

VARIABLES
    inited,   \* myodbc_inited
    g_lock,   \* the thread that holds it, or None
    library,  \* the client library: "idle", "up", or "over" once ended
    envs,     \* odbc_ver of every environment there is
    dbcs,     \* every connection: its environment, the thread that made it,
              \* the options of its data source, whether it is connected
    thread_count,  \* per thread
    served,   \* threads between mysql_thread_init and mysql_thread_end
    uneven,   \* history: threads whose count has become less than their
              \* connections, and those whose count has become more
    sqlstate, \* myodbc3_errors: the version each class is written for
    ov2,      \* myodbc_ov2_inited
    pool,     \* global_pool: its plugins, mysql and pool_mtx
    loaded,   \* the plugins the client library has loaded for the pool
    option,   \* the options as the plugins have them: who set each
    call,     \* where each thread is
    lapses    \* the kinds of Lapses met

vars == <<inited, g_lock, library, envs, dbcs, thread_count, served, sqlstate,
          uneven, ov2, pool, loaded, option, call, lapses>>

libVars    == <<inited, g_lock, library>>
threadVars == <<thread_count, served, uneven>>
stateVars  == <<sqlstate, ov2>>
poolVars   == <<pool, loaded, option>>

Idle == [at |-> "application"]

Init ==
    /\ inited = 0 /\ g_lock = None /\ library = "idle"
    /\ envs = [e \in Envs |-> None]
    /\ dbcs = [d \in Dbcs |-> None]
    /\ thread_count = [t \in Threads |-> 0]
    /\ served = {}
    /\ uneven = [less |-> {}, more |-> {}]
    /\ sqlstate = [c \in Classes |-> 3]
    /\ ov2 = FALSE
    /\ pool = [plugins |-> {}, mysql |-> None, pool_mtx |-> None]
    /\ loaded = {}
    /\ option = [o \in Options |-> None]
    /\ call = [t \in Threads |-> Idle]
    /\ lapses = {}

-----------------------------------------------------------------------------
(* The calls under way at one of the given places, but for thread t's.      *)
Others(t, places) == {u \in Threads \ {t} : call[u].at \in places}

Goes(t, where) == call' = [call EXCEPT ![t] = where]
Ready(t)       == call[t] = Idle
Returns(t)     == Goes(t, Idle)

(* The kinds the step meets, given as a set.                               *)
Meets(kinds) ==
    /\ kinds \subseteq Lapses
    /\ lapses' = lapses \cup kinds
    /\ Cardinality(lapses') <= MaxLapses
When(condition, kind) == IF condition THEN {kind} ELSE {}

Allocating == {"myodbc_ov_init", "sqlstate_init"}
Connecting == {"set_plugin_option", "add_plugin", "set_option", "failed"}
Ending     == {"myodbc_end", "myodbc_inited", "clear_plugin_pool",
               "mysql_library_end"}

Existing   == {d \in Dbcs : dbcs[d] # None}
InUse(d)   == \E t \in Threads : "dbc" \in DOMAIN call[t] /\ call[t].dbc = d
EnvInUse(e) ==
    \/ \E d \in Existing : dbcs[d].env = e
    \/ \E t \in Threads : "env" \in DOMAIN call[t] /\ call[t].env = e

-----------------------------------------------------------------------------
(***************************************************************************)
(* Environments                                                            *)
(***************************************************************************)

(* my_SQLAllocEnv: takes g_lock and reads myodbc_inited, which is a plain   *)
(* int ...                                                                 *)
AllocEnv(t, e) ==
    /\ Ready(t) /\ g_lock = None
    /\ envs[e] = None /\ ~EnvInUse(e) /\ inited < MaxCount
    /\ g_lock' = t
    /\ Goes(t, [at |-> "myodbc_init", env |-> e, seen |-> inited])
    /\ Meets(When(Others(t, Ending) # {}, "raced"))
    /\ UNCHANGED <<inited, library, envs, dbcs, threadVars, stateVars,
                   poolVars>>

(* ... and writes the next number; the environment is there.               *)
Inited(t) ==
    /\ call[t].at = "myodbc_init"
    /\ inited' = call[t].seen + 1
    /\ envs' = [envs EXCEPT ![call[t].env] = 3]
    /\ g_lock' = None
    /\ Returns(t)
    /\ UNCHANGED <<library, dbcs, threadVars, stateVars, poolVars, lapses>>

(* SQLSetEnvAttr(SQL_ATTR_ODBC_VERSION), refused with connections.          *)
SetVersion(t, e, v) ==
    /\ Ready(t) /\ envs[e] # None /\ ~EnvInUse(e)
    /\ envs' = [envs EXCEPT ![e] = v]
    /\ UNCHANGED <<libVars, dbcs, threadVars, stateVars, poolVars, call,
                   lapses>>

(* my_SQLFreeEnv: myodbc_end reads the count, without g_lock ...            *)
FreeEnv(t, e) ==
    /\ Ready(t) /\ envs[e] # None /\ ~EnvInUse(e)
    /\ envs' = [envs EXCEPT ![e] = None]
    /\ IF inited = 0 THEN UNCHANGED call
       ELSE Goes(t, [at |-> "myodbc_end", seen |-> inited])
    /\ Meets(When(Others(t, Ending \cup {"myodbc_init"}) # {}, "raced"))
    /\ UNCHANGED <<libVars, dbcs, threadVars, stateVars, poolVars>>

(* ... writes the one below ...                                            *)
Decremented(t) ==
    /\ call[t].at = "myodbc_end"
    /\ inited' = call[t].seen - 1
    /\ Goes(t, [at |-> "myodbc_inited"])
    /\ UNCHANGED <<g_lock, library, envs, dbcs, threadVars, stateVars,
                   poolVars, lapses>>

(* ... and reads it again: the last one ends the library,                   *)
LastEnv(t) ==
    /\ call[t].at = "myodbc_inited"
    /\ IF inited = 0 THEN Goes(t, [at |-> "clear_plugin_pool"]) ELSE Returns(t)
    /\ UNCHANGED <<libVars, envs, dbcs, threadVars, stateVars, poolVars,
                   lapses>>

(* first the pool, under its mutex,                                        *)
ClearPool(t) ==
    /\ call[t].at = "clear_plugin_pool" /\ pool.pool_mtx = None
    /\ pool' = [pool EXCEPT !.plugins = {}, !.mysql = None]
    /\ Goes(t, [at |-> "mysql_library_end"])
    /\ UNCHANGED <<libVars, envs, dbcs, threadVars, stateVars, loaded, option,
                   lapses>>

(* then the client library with its plugins.                               *)
LibraryEnd(t) ==
    /\ call[t].at = "mysql_library_end"
    /\ library' = "over"
    /\ loaded' = {}
    /\ option' = [o \in Options |-> None]
    /\ Returns(t)
    /\ UNCHANGED <<inited, g_lock, envs, dbcs, threadVars, stateVars, pool,
                   lapses>>

-----------------------------------------------------------------------------
(***************************************************************************)
(* Connection handles                                                      *)
(***************************************************************************)

(* my_SQLAllocConnect: mysql_thread_init and the count.                    *)
Counted(t) ==
    /\ thread_count[t] < MaxCount
    /\ served' = IF thread_count[t] = 0 THEN served \cup {t} ELSE served
    /\ thread_count' = [thread_count EXCEPT ![t] = @ + 1]

(* The versions of the connections there are or are being made.            *)
VersionsUsed ==
    {envs[dbcs[d].env] : d \in Existing}
        \cup {envs[call[t].env] :
                  t \in {u \in Threads : call[u].at \in Allocating}}

AllocConnect(t, e, d) ==
    /\ Ready(t) /\ envs[e] # None
    /\ dbcs[d] = None /\ ~InUse(d)
    /\ Counted(t)
    /\ Goes(t, [at |-> "myodbc_ov_init", env |-> e, dbc |-> d])
    /\ Meets(When(VersionsUsed \ {envs[e]} # {}, "mixed"))
    /\ UNCHANGED <<libVars, envs, dbcs, uneven, stateVars, poolVars>>

(* The library is too old, or DBC::DBC throws: SQL_ERROR.                   *)
AllocConnectRefused(t, e) ==
    /\ Ready(t) /\ envs[e] # None
    /\ Counted(t)
    /\ uneven' = [uneven EXCEPT !.more = @ \cup {t}]
    /\ Meets({"refused"})
    /\ UNCHANGED <<libVars, envs, dbcs, stateVars, poolVars, call>>

(* DBC::DBC, ENV::add_dbc: the connection is there.                         *)
Allocated(t) ==
    /\ dbcs' = [dbcs EXCEPT ![call[t].dbc] =
                   [env |-> call[t].env, by |-> t, set |-> {},
                    connected |-> FALSE]]
    /\ Returns(t)

(* myodbc_ov_init: version 2 always writes the table, version 3 only when   *)
(* myodbc_ov2_inited, which it resets before.                               *)
OvInit(t) ==
    /\ call[t].at = "myodbc_ov_init"
    /\ LET ver == envs[call[t].env] IN
       IF ver = 3 /\ ~ov2
       THEN /\ Allocated(t)
            /\ Meets(When(Others(t, {"sqlstate_init"}) # {}, "halfway"))
            /\ UNCHANGED ov2
       ELSE /\ Goes(t, [call[t] EXCEPT !.at = "sqlstate_init"])
            /\ ov2' = (ov2 /\ ver = 2)
            /\ UNCHANGED <<dbcs, lapses>>
    /\ UNCHANGED <<libVars, envs, threadVars, sqlstate, poolVars>>

(* Only the loop is undone.                                                *)
WrittenByLoop(ver) == IF ver = 2 THEN Classes ELSE {"S1"}

(* myodbc_sqlstate2_init writes every class, myodbc_sqlstate3_init two.     *)
Written(ver) == IF ver = 2 THEN Classes ELSE Classes \ {"HYT"}

(* The classes one after another, S1 first, each while other threads read.  *)
SqlstateInit(t) ==
    /\ call[t].at = "sqlstate_init"
    /\ LET ver == envs[call[t].env] IN
       \/ /\ sqlstate["S1"] # ver
          /\ sqlstate' = [sqlstate EXCEPT !["S1"] = ver]
          /\ UNCHANGED <<ov2, dbcs, call>>
       \/ /\ sqlstate["S1"] = ver
          /\ sqlstate' = [c \in Classes |->
                             IF c \in Written(ver) THEN ver ELSE sqlstate[c]]
          /\ ov2' = (ov2 \/ ver = 2)
          /\ Allocated(t)
    /\ UNCHANGED <<libVars, envs, threadVars, poolVars, lapses>>

(* Connection d, made by another thread, is counted off in thread t.       *)
Misses(t, d) ==
    LET u == dbcs[d].by IN
    uneven' = [less |-> uneven.less
                   \cup When(u # t /\ thread_count[t] # 0, t),
               more |-> uneven.more \cup When(u # t, u)]

(* The count is tested before it is lowered.                               *)
FreeConnectPostfix(t, d) ==
    /\ Ready(t) /\ d \in Existing /\ ~dbcs[d].connected /\ ~InUse(d)
    /\ dbcs' = [dbcs EXCEPT ![d] = None]
    /\ IF thread_count[t] = 0 THEN UNCHANGED <<thread_count, served>>
       ELSE /\ thread_count' = [thread_count EXCEPT ![t] = @ - 1]
            /\ served' = IF thread_count[t] = 0 THEN served \ {t} ELSE served
    /\ Misses(t, d)
    /\ Meets(When(dbcs[d].by # t, "crossed"))
    /\ UNCHANGED <<libVars, envs, stateVars, poolVars, call>>

(* my_SQLFreeConnect: counted in the thread that frees.                     *)
FreeConnect(t, d) ==
    /\ Ready(t) /\ d \in Existing /\ ~dbcs[d].connected /\ ~InUse(d)
    /\ dbcs' = [dbcs EXCEPT ![d] = None]
    /\ IF thread_count[t] = 0 THEN UNCHANGED <<thread_count, served>>
       ELSE /\ thread_count' = [thread_count EXCEPT ![t] = @ - 1]
            /\ served' = IF thread_count'[t] = 0 THEN served \ {t} ELSE served
    /\ Misses(t, d)
    /\ Meets(When(dbcs[d].by # t, "crossed"))
    /\ UNCHANGED <<libVars, envs, stateVars, poolVars, call>>

-----------------------------------------------------------------------------
(***************************************************************************)
(* Connecting                                                              *)
(***************************************************************************)

Holds(t)     == pool.pool_mtx = t
HasPlugin(s) == s.plugin \in pool.plugins

(* The library is started once in a process, by the static of new_mysql.    *)
ConnectOnce(t, d, set) ==
    /\ Ready(t) /\ d \in Existing /\ ~dbcs[d].connected /\ ~InUse(d)
    /\ library' = IF library = "idle" THEN "up" ELSE library
    /\ dbcs' = [dbcs EXCEPT ![d].set = set]
    /\ pool' = [pool EXCEPT !.mysql = d]
    /\ Goes(t, [at |-> "set_plugin_option", dbc |-> d, next |-> 1])
    /\ Meets(When(Others(t, Connecting) # {}, "together")
             \cup When(\E i \in DOMAIN Settings :
                           /\ ~Settings[i].always
                           /\ option[Settings[i].option] # None
                           /\ Settings[i].option \notin set, "device"))
    /\ UNCHANGED <<inited, g_lock, envs, threadVars, stateVars, loaded,
                   option>>

(* DBC::connect: new_mysql, get_plugin_option_setter.  The data source has  *)
(* the options in set.                                                     *)
Connect(t, d, set) ==
    /\ Ready(t) /\ d \in Existing /\ ~dbcs[d].connected /\ ~InUse(d)
    /\ library' = "up"
    /\ dbcs' = [dbcs EXCEPT ![d].set = set]
    /\ pool' = [pool EXCEPT !.mysql = d]
    /\ Goes(t, [at |-> "set_plugin_option", dbc |-> d, next |-> 1])
    /\ Meets(When(Others(t, Connecting) # {}, "together")
             \cup When(\E i \in DOMAIN Settings :
                           /\ ~Settings[i].always
                           /\ option[Settings[i].option] # None
                           /\ Settings[i].option \notin set, "device"))
    /\ UNCHANGED <<inited, g_lock, envs, threadVars, stateVars, loaded,
                   option>>

(* A plugin is added for every option.                                     *)
LookAdds(t) ==
    /\ call[t].at = "set_plugin_option"
    /\ call[t].next \in DOMAIN Settings
    /\ LET s     == Settings[call[t].next]
           isSet == s.option \in dbcs[call[t].dbc].set
       IN  Goes(t, IF isSet \/ (s.always /\ HasPlugin(s))
                   THEN [call[t] EXCEPT !.at = "add_plugin"]
                   ELSE [call[t] EXCEPT !.next = @ + 1])
    /\ UNCHANGED <<libVars, envs, dbcs, threadVars, stateVars, poolVars,
                   lapses>>

(* The next option: passed over when neither the plugin is in the pool nor  *)
(* the option set, or when it is set only with a value and has none.  The   *)
(* pool is looked at without pool_mtx.                                     *)
Look(t) ==
    /\ call[t].at = "set_plugin_option"
    /\ call[t].next \in DOMAIN Settings
    /\ LET s     == Settings[call[t].next]
           isSet == s.option \in dbcs[call[t].dbc].set
       IN  Goes(t, IF isSet \/ (s.always /\ HasPlugin(s))
                   THEN [call[t] EXCEPT !.at = IF HasPlugin(s)
                                               THEN "set_option"
                                               ELSE "add_plugin"]
                   ELSE [call[t] EXCEPT !.next = @ + 1])
    /\ UNCHANGED <<libVars, envs, dbcs, threadVars, stateVars, poolVars,
                   lapses>>

Fails(t, why, mysql) ==
    Goes(t, [at |-> "failed", dbc |-> call[t].dbc, why |-> why,
             mysql |-> mysql])

(* lock and add_plugin: another thread has added it; it cannot be loaded,   *)
(* an error written into the MYSQL the pool has; or it is added.            *)
AddPlugin(t) ==
    /\ call[t].at = "add_plugin" /\ pool.pool_mtx \in {None, t}
    /\ LET s == Settings[call[t].next] IN
       \/ /\ HasPlugin(s)
          /\ Fails(t, "already in the pool", None)
          /\ pool' = [pool EXCEPT !.pool_mtx = t]
       \/ /\ ~HasPlugin(s)
          /\ Fails(t, "not loaded", pool.mysql)
          /\ pool' = [pool EXCEPT !.pool_mtx = t]
       \/ /\ ~HasPlugin(s)
          /\ Goes(t, [call[t] EXCEPT !.at = "set_option"])
          /\ pool' = [pool EXCEPT !.plugins = @ \cup {s.plugin},
                                  !.pool_mtx = t]
    /\ loaded' = IF call'[t].at = "failed" THEN loaded
                 ELSE loaded \cup {Settings[call[t].next].plugin}
    /\ UNCHANGED <<libVars, envs, dbcs, threadVars, stateVars, option, lapses>>

(* lock and set_option; an error counts only when there is a value.         *)
SetOption(t) ==
    /\ call[t].at = "set_option" /\ pool.pool_mtx \in {None, t}
    /\ pool' = [pool EXCEPT !.pool_mtx = t]
    /\ LET d == call[t].dbc
           o == Settings[call[t].next].option
       IN  \/ /\ o \in dbcs[d].set
              /\ Fails(t, "option", None)
              /\ UNCHANGED option
           \/ /\ option' = [option EXCEPT ![o] =
                               IF o \in dbcs[d].set THEN d ELSE None]
              /\ Goes(t, [call[t] EXCEPT !.at = "set_plugin_option",
                                         !.next = @ + 1])
    /\ UNCHANGED <<libVars, envs, dbcs, threadVars, stateVars, loaded, lapses>>

(* Past the options: in mysql_real_connect.                               *)
Handshake(t) ==
    /\ call[t].at = "set_plugin_option"
    /\ call[t].next \notin DOMAIN Settings

(* The end of DBC::connect: the setter lets go of pool_mtx.                 *)
Leave(t, connected) ==
    /\ dbcs' = [dbcs EXCEPT ![call[t].dbc].connected = connected,
                            ![call[t].dbc].set = IF connected THEN @ ELSE {}]
    /\ pool' = [pool EXCEPT !.pool_mtx = IF Holds(t) THEN None ELSE @]
    /\ Returns(t)
    /\ UNCHANGED <<libVars, envs, threadVars, stateVars, loaded, option,
                   lapses>>

Connected(t) ==
    /\ Handshake(t)
    /\ \E connected \in BOOLEAN : Leave(t, connected)

ConnectFailed(t) == call[t].at = "failed" /\ Leave(t, FALSE)

(* The client library reconnects, inside any call on the connection.        *)
Reconnect(t, d) ==
    /\ Ready(t) /\ d \in Existing /\ dbcs[d].connected /\ ~InUse(d)
    /\ dbcs[d].set # {}
    /\ Goes(t, [at |-> "set_plugin_option", dbc |-> d,
                next |-> Len(Settings) + 1])
    /\ Meets({"again"})
    /\ UNCHANGED <<libVars, envs, dbcs, threadVars, stateVars, poolVars>>

Disconnect(t, d) ==
    /\ Ready(t) /\ d \in Existing /\ dbcs[d].connected /\ ~InUse(d)
    /\ dbcs' = [dbcs EXCEPT ![d].connected = FALSE, ![d].set = {}]
    /\ UNCHANGED <<libVars, envs, threadVars, stateVars, poolVars, call,
                   lapses>>

Environment(t) ==
    \/ \E e \in Envs : AllocEnv(t, e) \/ FreeEnv(t, e)
    \/ \E e \in Envs, v \in Versions : SetVersion(t, e, v)
    \/ Inited(t) \/ Decremented(t) \/ LastEnv(t)
    \/ ClearPool(t) \/ LibraryEnd(t)

Connection(t) ==
    \/ \E e \in Envs, d \in Dbcs : AllocConnect(t, e, d)
    \/ \E e \in Envs : AllocConnectRefused(t, e)
    \/ OvInit(t) \/ SqlstateInit(t)
    \/ \E d \in Dbcs : FreeConnect(t, d) \/ Disconnect(t, d) \/ Reconnect(t, d)
    \/ \E d \in Dbcs, set \in SUBSET Options : Connect(t, d, set)
    \/ Look(t) \/ AddPlugin(t) \/ SetOption(t)
    \/ Connected(t) \/ ConnectFailed(t)

Next == \E t \in Threads : Environment(t) \/ Connection(t)

Spec == Init /\ [][Next]_vars

-----------------------------------------------------------------------------
(***************************************************************************)
(* Properties                                                              *)
(***************************************************************************)

Places == {"application", "myodbc_init"} \cup Allocating
              \cup Connecting \cup Ending

(* The variables have their types.                                         *)
TypeOK ==
    /\ inited \in 0..MaxCount
    /\ g_lock \in Threads \cup {None}
    /\ library \in {"idle", "up", "over"}
    /\ envs \in [Envs -> Versions \cup {None}]
    /\ \A d \in Existing :
          dbcs[d] \in [env : Envs, by : Threads, set : SUBSET Options,
                      connected : BOOLEAN]
    /\ thread_count \in [Threads -> 0..MaxCount]
    /\ served \subseteq Threads
    /\ uneven \in [less : SUBSET Threads, more : SUBSET Threads]
    /\ sqlstate \in [Classes -> Versions]
    /\ ov2 \in BOOLEAN
    /\ pool \in [plugins : SUBSET Plugins, mysql : Dbcs \cup {None},
                 pool_mtx : Threads \cup {None}]
    /\ loaded \subseteq Plugins
    /\ option \in [Options -> Dbcs \cup {None}]
    /\ \A t \in Threads : call[t].at \in Places

Never(kinds) == lapses \cap kinds = {}
At(t, place) == call[t].at = place

(* mysql_library_end is not called under a connection: the environments     *)
(* that threads allocate at once are all counted (handle.cc:149), and none  *)
(* but the last ends the library.  The end of an environment takes no lock, *)
(* so that this is only so when it does not meet the start or end of        *)
(* another.                                                                *)
LibraryKept ==
    Never({"raced"}) =>
        /\ \A d \in Existing : dbcs[d].connected => library = "up"
        /\ \A t \in Threads : Handshake(t) => library = "up"

(* With the last environment the library is ended (dll.cc:135), unless the  *)
(* count was lost between two threads.                                     *)
LibraryReleased ==
    /\ Never({"raced"})
    /\ \A e \in Envs : envs[e] = None
    /\ \A t \in Threads : Ready(t)
    => library # "up"

(* A thread that has allocated a connection is one of the client library's  *)
(* until that connection is freed (handle.cc:211, 316), whatever the other  *)
(* threads do, even if they free some of its connections.  Only a thread    *)
(* that has itself freed another's, and was counted down for it, may be     *)
(* let go too early.                                                       *)
ThreadServed == \A d \in Existing : dbcs[d].by \in served \cup uneven.less

(* When the library ends, the threads it may still have to wait for are     *)
(* those another thread has freed a connection of, or that were refused one *)
(* after it was counted (handle.cc:214); and no thread that only freed the  *)
(* connections of others.                                                  *)
ThreadsReleased ==
    Never({"raced"}) =>
        \A t \in Threads :
            At(t, "mysql_library_end") => served \subseteq uneven.more

(* A thread is one of the library's for as long as it has connections.      *)
ThreadsCounted == ThreadServed /\ ThreadsReleased

(* An error on a connection has the SQLSTATE of its environment's version,  *)
(* in the classes myodbc_sqlstate3_init sets back (error.cc:139).  The      *)
(* table is the process's: not so next to a connection of the other version *)
(* nor while another thread is writing the table back.                     *)
StatesOfVersion ==
    Never({"mixed", "halfway"}) =>
        \A d \in Existing, c \in {"S1", "42"} :
            sqlstate[c] = envs[dbcs[d].env]

(* A connection authenticates with the options of its own data source       *)
(* (connect.cc:609): they are the process's while it does.  Not when two    *)
(* threads connect at once, for a thread that finds no plugin goes on       *)
(* without pool_mtx; not when the client library reconnects; not for an     *)
(* option that is left alone when it has no value; and not when the library *)
(* is being ended.                                                         *)
OptionsOwn ==
    Never({"together", "again", "device", "raced"}) =>
        \A t \in Threads : Handshake(t) =>
            \A o \in Options :
                option[o] = IF o \in dbcs[call[t].dbc].set THEN call[t].dbc
                            ELSE None

(* No connect fails because of another: the pool is looked at and added to  *)
(* in two steps, the first without pool_mtx (connect.cc:197).               *)
NoneRefused ==
    Never({"together"}) =>
        \A t \in Threads :
            At(t, "failed") => call[t].why # "already in the pool"

(* A plugin is loaded with the handle of the connection that needs it, into *)
(* which the client library writes the error when that fails, and not with  *)
(* one that another thread uses or has closed: the pool has one MYSQL for   *)
(* all, which the end of the library sets to null (connect.cc:184, 232).    *)
OwnHandle ==
    Never({"together", "raced"}) =>
        \A t \in Threads :
            At(t, "failed") /\ call[t].why = "not loaded" =>
                call[t].mysql = call[t].dbc

(* Options are set on plugins that are loaded: the pool is cleared before   *)
(* the library unloads them (dll.cc:149), however environments come and go. *)
PluginsLoaded ==
    Never({"raced"}) =>
        \A t \in Threads :
            At(t, "set_option") => Settings[call[t].next].plugin \in loaded

(* Connects do not disturb each other, though the pool of plugins and the   *)
(* options of plugins are the process's.                                   *)
ConnectsApart == OptionsOwn /\ NoneRefused /\ OwnHandle

(* The library and its plugins are there while they are needed and no       *)
(* longer.                                                                 *)
LibraryLives ==
    TypeOK /\ LibraryKept /\ LibraryReleased /\ PluginsLoaded
============================================================================
