---------------------------- MODULE ProcessProofs ----------------------------
(* Theorems about what the handles of a process share, for any threads,    *)
(* environments, connections and plugins, and any number of lapses of the  *)
(* given kinds.                                                            *)
EXTENDS Process, FiniteSetTheorems, TLAPS

(* The places of calls with a connection, and with an environment.         *)
OnDbc == Allocating \cup Connecting
OnEnv == Allocating \cup {"myodbc_init"}

DbcT  == [env : Envs, by : Threads, set : SUBSET Options,
          connected : BOOLEAN]
PoolT == [plugins : SUBSET Plugins, mysql : Dbcs \cup {None},
          pool_mtx : Threads \cup {None}]
UnevenT == [less : SUBSET Threads, more : SUBSET Threads]
CallT ==
    [at : {"application", "myodbc_inited", "clear_plugin_pool",
           "mysql_library_end"}]
    \cup [at : {"myodbc_init"}, env : Envs, seen : 0..(MaxCount - 1)]
    \cup [at : {"myodbc_end"}, seen : 1..MaxCount]
    \cup [at : Allocating, env : Envs, dbc : Dbcs]
    \cup [at : {"set_plugin_option"}, dbc : Dbcs,
          next : 1..(Len(Settings) + 1)]
    \cup [at : {"add_plugin", "set_option"}, dbc : Dbcs,
          next : 1..Len(Settings)]
    \cup [at : {"failed"}, dbc : Dbcs,
          why : {"already in the pool", "not loaded", "option"},
          mysql : Dbcs \cup {None}]

(* TypeOK with the types of the calls' local variables.                    *)
Typed ==
    /\ TypeOK
    /\ dbcs \in [Dbcs -> DbcT \cup {None}]
    /\ call \in [Threads -> CallT]
    /\ lapses \subseteq Lapses

(* The driver manager's rules: connections have their environment, and each *)
(* serves one call at a time.                                              *)
Tree ==
    /\ \A d \in Existing : envs[dbcs[d].env] # None
    /\ \A t \in Threads :
          /\ call[t].at \in Allocating =>
                envs[call[t].env] # None /\ dbcs[call[t].dbc] = None
          /\ call[t].at \in Connecting => call[t].dbc \in Existing
          /\ call[t].at = "myodbc_init" =>
                g_lock = t /\ envs[call[t].env] = None
    /\ \A t, u \in Threads :
          /\ call[t].at \in OnDbc /\ call[u].at \in OnDbc
          /\ call[t].dbc = call[u].dbc
          => t = u

LEMMA SettingsType ==
    /\ Len(Settings) \in Nat /\ DOMAIN Settings = 1..Len(Settings)
    /\ \A i \in 1..Len(Settings) :
          /\ Settings[i].plugin \in Plugins /\ Settings[i].option \in Options
          /\ Settings[i].always \in BOOLEAN
    /\ \A o \in Options : \E i \in 1..Len(Settings) : o = Settings[i].option
<1> DEFINE R == [plugin : STRING, option : STRING, always : BOOLEAN]
<1>1. Settings \in Seq(R)
  BY SettingsAssumption
<1>2. /\ Len(Settings) \in Nat /\ DOMAIN Settings = 1..Len(Settings)
      /\ \A i \in 1..Len(Settings) : Settings[i] \in R
  <2> HIDE DEF R
  <2> QED
    BY <1>1
<1>3. \A i \in 1..Len(Settings) : Settings[i].always \in BOOLEAN
  BY <1>2
<1> HIDE DEF R
<1>4. /\ \A i \in 1..Len(Settings) : /\ Settings[i].plugin \in Plugins
                                     /\ Settings[i].option \in Options
      /\ \A o \in Options :
            \E i \in 1..Len(Settings) : o = Settings[i].option
  BY <1>2, Zenon DEF Plugins, Options
<1> QED
  BY <1>2, <1>3, <1>4

Shape(c) ==
    /\ c.at \in Places
    /\ "dbc" \in DOMAIN c <=> c.at \in OnDbc
    /\ "env" \in DOMAIN c <=> c.at \in OnEnv
    /\ c.at \in OnDbc => c.dbc \in Dbcs
    /\ c.at \in OnEnv => c.env \in Envs
    /\ c.at = "myodbc_init" => c.seen \in 0..(MaxCount - 1)
    /\ c.at = "myodbc_end" => c.seen \in 1..MaxCount
    /\ c.at = "set_plugin_option" => c.next \in 1..(Len(Settings) + 1)
    /\ c.at \in {"add_plugin", "set_option"} => c.next \in 1..Len(Settings)
    /\ c.at = "application" <=> c = Idle

LEMMA CallShape == ASSUME NEW c \in CallT PROVE Shape(c)
<1>1. CASE c \in [at : {"application", "myodbc_inited",
                         "clear_plugin_pool", "mysql_library_end"}]
  BY <1>1 DEF Shape, Places, OnDbc, OnEnv, Allocating, Connecting, Ending,
     Idle
<1>2. CASE \/ c \in [at : {"myodbc_init"}, env : Envs,
                     seen : 0..(MaxCount - 1)]
           \/ c \in [at : {"myodbc_end"}, seen : 1..MaxCount]
  BY <1>2 DEF Shape, Places, OnDbc, OnEnv, Allocating, Connecting, Ending,
     Idle
<1>3. CASE c \in [at : Allocating, env : Envs, dbc : Dbcs]
  BY <1>3 DEF Shape, Places, OnDbc, OnEnv, Allocating, Connecting, Ending,
     Idle
<1>4. CASE \/ c \in [at : {"set_plugin_option"}, dbc : Dbcs,
                     next : 1..(Len(Settings) + 1)]
           \/ c \in [at : {"add_plugin", "set_option"}, dbc : Dbcs,
                     next : 1..Len(Settings)]
  BY <1>4 DEF Shape, Places, OnDbc, OnEnv, Allocating, Connecting, Ending,
     Idle
<1>5. CASE c \in [at : {"failed"}, dbc : Dbcs,
                  why : {"already in the pool", "not loaded", "option"},
                  mysql : Dbcs \cup {None}]
  <2>1. c.at = "failed" /\ c.dbc \in Dbcs
    BY <1>5
  <2>2. DOMAIN c = {"at", "dbc", "why", "mysql"}
    BY <1>5
  <2>3. c # Idle
    BY <2>1 DEF Idle
  <2> QED
    BY <2>1, <2>2, <2>3
       DEF Shape, Places, OnDbc, OnEnv, Allocating, Connecting, Ending
<1> QED
  BY <1>1, <1>2, <1>3, <1>4, <1>5 DEF CallT

LEMMA InUseMeans ==
    ASSUME Typed, NEW d
    PROVE  InUse(d) <=> \E t \in Threads : /\ call[t].at \in OnDbc
                                           /\ call[t].dbc = d
BY CallShape DEF Shape, Typed, InUse

LEMMA EnvInUseMeans ==
    ASSUME Typed, NEW e
    PROVE  EnvInUse(e) <=>
              \/ \E d \in Existing : dbcs[d].env = e
              \/ \E t \in Threads : /\ call[t].at \in OnEnv
                                    /\ call[t].env = e
BY CallShape DEF Shape, Typed, EnvInUse

-----------------------------------------------------------------------------
(***************************************************************************)
(* Types                                                                   *)
(***************************************************************************)

LEMMA SimpleCalls ==
    /\ Idle \in CallT
    /\ [at |-> "myodbc_inited"] \in CallT
    /\ [at |-> "clear_plugin_pool"] \in CallT
    /\ [at |-> "mysql_library_end"] \in CallT
<1> DEFINE S == [at : {"application", "myodbc_inited", "clear_plugin_pool",
                       "mysql_library_end"}]
<1>1. /\ Idle \in S /\ [at |-> "myodbc_inited"] \in S
      /\ [at |-> "clear_plugin_pool"] \in S
      /\ [at |-> "mysql_library_end"] \in S
  BY DEF Idle
<1> QED
  BY <1>1, Zenon DEF CallT

LEMMA EnvCalls ==
    /\ \A e \in Envs, n \in 0..(MaxCount - 1) :
          [at |-> "myodbc_init", env |-> e, seen |-> n] \in CallT
    /\ \A n \in 1..MaxCount : [at |-> "myodbc_end", seen |-> n] \in CallT
    /\ \A a \in Allocating, e \in Envs, d \in Dbcs :
          [at |-> a, env |-> e, dbc |-> d] \in CallT
<1>1. /\ \A e \in Envs, n \in 0..(MaxCount - 1) :
            [at |-> "myodbc_init", env |-> e, seen |-> n] \in
              [at : {"myodbc_init"}, env : Envs, seen : 0..(MaxCount - 1)]
      /\ \A n \in 1..MaxCount :
            [at |-> "myodbc_end", seen |-> n] \in
              [at : {"myodbc_end"}, seen : 1..MaxCount]
      /\ \A a \in Allocating, e \in Envs, d \in Dbcs :
            [at |-> a, env |-> e, dbc |-> d] \in
              [at : Allocating, env : Envs, dbc : Dbcs]
  OBVIOUS
<1> QED
  BY <1>1, Zenon DEF CallT

LEMMA DbcCalls ==
    /\ \A d \in Dbcs, n \in 1..(Len(Settings) + 1) :
          [at |-> "set_plugin_option", dbc |-> d, next |-> n] \in CallT
    /\ \A a \in {"add_plugin", "set_option"}, d \in Dbcs,
          n \in 1..Len(Settings) :
          [at |-> a, dbc |-> d, next |-> n] \in CallT
    /\ \A d \in Dbcs, m \in Dbcs \cup {None},
          w \in {"already in the pool", "not loaded", "option"} :
          [at |-> "failed", dbc |-> d, why |-> w, mysql |-> m] \in CallT
<1>1. /\ \A d \in Dbcs, n \in 1..(Len(Settings) + 1) :
            [at |-> "set_plugin_option", dbc |-> d, next |-> n] \in
              [at : {"set_plugin_option"}, dbc : Dbcs,
               next : 1..(Len(Settings) + 1)]
      /\ \A a \in {"add_plugin", "set_option"}, d \in Dbcs,
            n \in 1..Len(Settings) :
            [at |-> a, dbc |-> d, next |-> n] \in
              [at : {"add_plugin", "set_option"}, dbc : Dbcs,
               next : 1..Len(Settings)]
      /\ \A d \in Dbcs, m \in Dbcs \cup {None},
            w \in {"already in the pool", "not loaded", "option"} :
            [at |-> "failed", dbc |-> d, why |-> w, mysql |-> m] \in
              [at : {"failed"}, dbc : Dbcs,
               why : {"already in the pool", "not loaded", "option"},
               mysql : Dbcs \cup {None}]
  OBVIOUS
<1> QED
  BY <1>1, Zenon DEF CallT

(* A call on its way through the options of its plugins.                   *)
LEMMA OptionCall ==
    ASSUME NEW c \in CallT, c.at \in {"set_plugin_option", "add_plugin",
                                      "set_option"}
    PROVE  c = [at |-> c.at, dbc |-> c.dbc, next |-> c.next]
BY DEF CallT, Allocating

LEMMA AllocCall ==
    ASSUME NEW c \in CallT, c.at \in Allocating
    PROVE  c = [at |-> c.at, env |-> c.env, dbc |-> c.dbc]
BY DEF CallT, Allocating

LEMMA Moves ==
    ASSUME Typed, NEW t \in Threads, NEW c, Goes(t, c)
    PROVE  /\ call'[t] = c
           /\ \A u \in Threads \ {t} : call'[u] = call[u]
           /\ c \in CallT => call' \in [Threads -> CallT]
BY DEF Typed, Goes

LEMMA MeetsType ==
    ASSUME Typed, NEW kinds, Meets(kinds)
    PROVE  lapses' \subseteq Lapses /\ lapses' = lapses \cup kinds
BY DEF Typed, Meets

LEMMA TypedFromParts ==
    ASSUME inited' \in 0..MaxCount, g_lock' \in Threads \cup {None},
           library' \in {"idle", "up", "over"},
           envs' \in [Envs -> Versions \cup {None}],
           dbcs' \in [Dbcs -> DbcT \cup {None}],
           thread_count' \in [Threads -> 0..MaxCount],
           served' \subseteq Threads, uneven' \in UnevenT,
           sqlstate' \in [Classes -> Versions],
           ov2' \in BOOLEAN, pool' \in PoolT, loaded' \subseteq Plugins,
           option' \in [Options -> Dbcs \cup {None}],
           call' \in [Threads -> CallT], lapses' \subseteq Lapses
    PROVE  Typed'
<1>1. \A t \in Threads : call'[t].at \in Places
  BY CallShape DEF Shape
<1>2. \A d \in Existing' : dbcs'[d] \in DbcT
  BY DEF Existing
<1> QED
  BY <1>1, <1>2 DEF Typed, TypeOK, PoolT, UnevenT, DbcT

LEMMA TypedParts ==
    ASSUME Typed
    PROVE  /\ inited \in 0..MaxCount /\ g_lock \in Threads \cup {None}
           /\ library \in {"idle", "up", "over"}
           /\ envs \in [Envs -> Versions \cup {None}]
           /\ dbcs \in [Dbcs -> DbcT \cup {None}]
           /\ thread_count \in [Threads -> 0..MaxCount]
           /\ served \subseteq Threads /\ uneven \in UnevenT
           /\ sqlstate \in [Classes -> Versions]
           /\ ov2 \in BOOLEAN /\ pool \in PoolT /\ loaded \subseteq Plugins
           /\ option \in [Options -> Dbcs \cup {None}]
           /\ call \in [Threads -> CallT] /\ lapses \subseteq Lapses
           /\ MaxCount \in Nat
           /\ \A d \in Existing : dbcs[d] \in DbcT
BY CountAssumption DEF Typed, TypeOK, PoolT, UnevenT, DbcT

LEMMA CallTyped == ASSUME Typed, NEW t \in Threads PROVE Shape(call[t])
BY CallShape DEF Typed

LEMMA EnvironmentTyped ==
    ASSUME Typed, NEW t \in Threads, Environment(t) PROVE Typed'
<1>1. ASSUME NEW e \in Envs, AllocEnv(t, e) PROVE Typed'
  <2>1. inited \in 0..(MaxCount - 1)
    BY <1>1, TypedParts DEF AllocEnv
  <2>2. call' \in [Threads -> CallT]
    BY <1>1, <2>1, EnvCalls, Moves DEF AllocEnv
  <2>3. lapses' \subseteq Lapses
    BY <1>1, MeetsType DEF AllocEnv
  <2> QED
    BY <1>1, <2>2, <2>3, TypedParts, TypedFromParts
       DEF AllocEnv, threadVars, stateVars, poolVars
<1>2. ASSUME NEW e \in Envs, FreeEnv(t, e) PROVE Typed'
  <2>1. envs' \in [Envs -> Versions \cup {None}]
    BY <1>2, TypedParts DEF FreeEnv
  <2>2. call' \in [Threads -> CallT]
    <3>1. inited # 0 => inited \in 1..MaxCount
      BY TypedParts
    <3> QED
      BY <1>2, <3>1, EnvCalls, Moves, TypedParts DEF FreeEnv
  <2>3. lapses' \subseteq Lapses
    BY <1>2, MeetsType DEF FreeEnv
  <2> QED
    BY <1>2, <2>1, <2>2, <2>3, TypedParts, TypedFromParts
       DEF FreeEnv, libVars, threadVars, stateVars, poolVars
<1>3. ASSUME NEW e \in Envs, NEW v \in Versions, SetVersion(t, e, v)
      PROVE  Typed'
  <2>1. envs' \in [Envs -> Versions \cup {None}]
    BY <1>3, TypedParts DEF SetVersion
  <2> QED
    BY <1>3, <2>1, TypedParts, TypedFromParts
       DEF SetVersion, libVars, threadVars, stateVars, poolVars
<1>4. CASE Inited(t)
  <2>1. call[t].at = "myodbc_init" /\ call[t].env \in Envs
        /\ call[t].seen \in 0..(MaxCount - 1)
    BY <1>4, CallTyped DEF Inited, Shape, OnEnv
  <2>2. inited' \in 0..MaxCount
    BY <1>4, <2>1, TypedParts DEF Inited
  <2>3. envs' \in [Envs -> Versions \cup {None}]
    BY <1>4, <2>1, TypedParts DEF Inited, Versions
  <2>4. call' \in [Threads -> CallT]
    BY <1>4, SimpleCalls, Moves DEF Inited, Returns
  <2> QED
    BY <1>4, <2>2, <2>3, <2>4, TypedParts, TypedFromParts
       DEF Inited, threadVars, stateVars, poolVars
<1>5. CASE Decremented(t)
  <2>1. call[t].seen \in 1..MaxCount
    BY <1>5, CallTyped DEF Decremented, Shape
  <2>2. inited' \in 0..MaxCount
    BY <1>5, <2>1, TypedParts DEF Decremented
  <2>3. call' \in [Threads -> CallT]
    BY <1>5, SimpleCalls, Moves DEF Decremented
  <2> QED
    BY <1>5, <2>2, <2>3, TypedParts, TypedFromParts
       DEF Decremented, threadVars, stateVars, poolVars
<1>6. CASE LastEnv(t)
  <2>1. call' \in [Threads -> CallT]
    BY <1>6, SimpleCalls, Moves DEF LastEnv, Returns
  <2> QED
    BY <1>6, <2>1, TypedParts, TypedFromParts
       DEF LastEnv, libVars, threadVars, stateVars, poolVars
<1>7. CASE ClearPool(t)
  <2>1. call' \in [Threads -> CallT]
    BY <1>7, SimpleCalls, Moves DEF ClearPool
  <2>2. pool' \in PoolT
    BY <1>7, TypedParts DEF ClearPool, PoolT
  <2> QED
    BY <1>7, <2>1, <2>2, TypedParts, TypedFromParts
       DEF ClearPool, libVars, threadVars, stateVars
<1>8. CASE LibraryEnd(t)
  <2>1. call' \in [Threads -> CallT]
    BY <1>8, SimpleCalls, Moves DEF LibraryEnd, Returns
  <2>2. option' \in [Options -> Dbcs \cup {None}]
    BY <1>8 DEF LibraryEnd
  <2> QED
    BY <1>8, <2>1, <2>2, TypedParts, TypedFromParts
       DEF LibraryEnd, threadVars, stateVars
<1> QED
  BY <1>1, <1>2, <1>3, <1>4, <1>5, <1>6, <1>7, <1>8 DEF Environment

LEMMA CountedType ==
    ASSUME Typed, NEW t \in Threads, Counted(t)
    PROVE  /\ thread_count' \in [Threads -> 0..MaxCount]
           /\ served' \subseteq Threads
BY TypedParts DEF Counted

LEMMA AllocatedType ==
    ASSUME Typed, NEW t \in Threads, call[t].at \in Allocating, Allocated(t)
    PROVE  /\ dbcs' \in [Dbcs -> DbcT \cup {None}]
           /\ call' \in [Threads -> CallT]
<1>1. call[t].env \in Envs /\ call[t].dbc \in Dbcs
  BY CallTyped DEF Shape, OnEnv, OnDbc
<1>2. [env |-> call[t].env, by |-> t, set |-> {}, connected |-> FALSE]
         \in DbcT
  BY <1>1 DEF DbcT
<1>3. dbcs' \in [Dbcs -> DbcT \cup {None}]
  BY <1>1, <1>2, TypedParts DEF Allocated
<1> QED
  BY <1>3, SimpleCalls, Moves DEF Allocated, Returns

LEMMA AllocatingTyped ==
    ASSUME Typed, Tree, NEW t \in Threads,
           \/ \E e \in Envs, d \in Dbcs : AllocConnect(t, e, d)
           \/ \E e \in Envs : AllocConnectRefused(t, e)
           \/ OvInit(t) \/ SqlstateInit(t)
    PROVE  Typed'
<1>1. ASSUME NEW e \in Envs, NEW d \in Dbcs, AllocConnect(t, e, d)
      PROVE  Typed'
  <2>1. call' \in [Threads -> CallT]
    BY <1>1, EnvCalls, Moves DEF AllocConnect, Allocating
  <2>2. lapses' \subseteq Lapses
    BY <1>1, MeetsType DEF AllocConnect
  <2> QED
    BY <1>1, <2>1, <2>2, CountedType, TypedParts, TypedFromParts
       DEF AllocConnect, libVars, stateVars, poolVars
<1>2. ASSUME NEW e \in Envs, AllocConnectRefused(t, e) PROVE Typed'
  <2>1. lapses' \subseteq Lapses
    BY <1>2, MeetsType DEF AllocConnectRefused
  <2>2. uneven' \in UnevenT
    BY <1>2, TypedParts DEF AllocConnectRefused, UnevenT
  <2> QED
    BY <1>2, <2>1, <2>2, CountedType, TypedParts, TypedFromParts
       DEF AllocConnectRefused, libVars, stateVars, poolVars
<1>3. CASE OvInit(t)
  <2>1. call[t].at \in Allocating
    BY <1>3 DEF OvInit, Allocating
  <2>2. CASE Allocated(t) /\ UNCHANGED ov2
             /\ Meets(When(Others(t, {"sqlstate_init"}) # {}, "halfway"))
    <3>1. lapses' \subseteq Lapses
      BY <2>2, MeetsType
    <3> QED
      BY <1>3, <2>1, <2>2, <3>1, AllocatedType, TypedParts, TypedFromParts
         DEF OvInit, libVars, threadVars, poolVars
  <2>3. CASE /\ Goes(t, [call[t] EXCEPT !.at = "sqlstate_init"])
             /\ ov2' = (ov2 /\ envs[call[t].env] = 2)
             /\ UNCHANGED <<dbcs, lapses>>
    <3>1. call[t] = [at |-> call[t].at, env |-> call[t].env,
                     dbc |-> call[t].dbc]
          /\ call[t].env \in Envs /\ call[t].dbc \in Dbcs
      BY <2>1, CallTyped, AllocCall DEF Typed, Shape, OnEnv, OnDbc
    <3>2. [call[t] EXCEPT !.at = "sqlstate_init"] =
             [at |-> "sqlstate_init", env |-> call[t].env,
              dbc |-> call[t].dbc]
      BY <3>1
    <3>3. call' \in [Threads -> CallT]
      BY <2>3, <3>1, <3>2, EnvCalls, Moves DEF Allocating
    <3>4. ov2' \in BOOLEAN
      BY <2>3, TypedParts
    <3> QED
      BY <1>3, <2>3, <3>3, <3>4, TypedParts, TypedFromParts
         DEF OvInit, libVars, threadVars, poolVars
  <2> QED
    BY <1>3, <2>2, <2>3 DEF OvInit
<1>4. CASE SqlstateInit(t)
  <2>1. call[t].at \in Allocating
    BY <1>4 DEF SqlstateInit, Allocating
  <2>2. envs[call[t].env] \in Versions
    <3>1. call[t].env \in Envs /\ envs[call[t].env] # None
      BY <2>1, CallTyped DEF Tree, Shape, OnEnv
    <3> QED
      BY <3>1, TypedParts
  <2>3. CASE /\ sqlstate["S1"] # envs[call[t].env]
             /\ sqlstate' = [sqlstate EXCEPT !["S1"] = envs[call[t].env]]
             /\ UNCHANGED <<ov2, dbcs, call>>
    <3>1. sqlstate' \in [Classes -> Versions]
      BY <2>2, <2>3, TypedParts
    <3> QED
      BY <1>4, <2>3, <3>1, TypedParts, TypedFromParts
         DEF SqlstateInit, libVars, threadVars, poolVars
  <2>4. CASE /\ sqlstate' = [c \in Classes |->
                                IF c \in Written(envs[call[t].env])
                                THEN envs[call[t].env] ELSE sqlstate[c]]
             /\ ov2' = (ov2 \/ envs[call[t].env] = 2)
             /\ Allocated(t)
    <3>1. sqlstate' \in [Classes -> Versions] /\ ov2' \in BOOLEAN
      BY <2>2, <2>4, TypedParts
    <3> QED
      BY <1>4, <2>1, <2>4, <3>1, AllocatedType, TypedParts, TypedFromParts
         DEF SqlstateInit, libVars, threadVars, poolVars
  <2> QED
    BY <1>4, <2>3, <2>4 DEF SqlstateInit
<1> QED
  BY <1>1, <1>2, <1>3, <1>4

(* It goes on to another stage, or to the next option.                     *)
LEMMA OptionCalls ==
    ASSUME NEW c \in CallT, c.at \in {"set_plugin_option", "add_plugin",
                                      "set_option"},
           NEW a \in {"add_plugin", "set_option"},
           c.next \in 1..Len(Settings)
    PROVE  /\ [c EXCEPT !.at = a] \in CallT
           /\ [c EXCEPT !.at = a].at = a
           /\ [c EXCEPT !.at = a].dbc = c.dbc
           /\ [c EXCEPT !.at = a].next = c.next
           /\ [c EXCEPT !.at = "set_plugin_option", !.next = c.next + 1]
                \in CallT
           /\ [c EXCEPT !.at = "set_plugin_option", !.next = c.next + 1].at
                = "set_plugin_option"
           /\ [c EXCEPT !.at = "set_plugin_option", !.next = c.next + 1].dbc
                = c.dbc
           /\ [c EXCEPT !.at = "set_plugin_option", !.next = c.next + 1].next
                = c.next + 1
<1>1. c = [at |-> c.at, dbc |-> c.dbc, next |-> c.next]
  BY OptionCall
<1>2. c.dbc \in Dbcs
  BY CallShape DEF Shape, OnDbc, Connecting
<1>3. c.next + 1 \in 1..(Len(Settings) + 1)
  BY SettingsType
<1>4. [at |-> a, dbc |-> c.dbc, next |-> c.next] \in CallT
  BY <1>2, DbcCalls
<1>5. [c EXCEPT !.at = a] = [at |-> a, dbc |-> c.dbc, next |-> c.next]
  BY <1>1
<1>6. c \in [at : {"set_plugin_option", "add_plugin", "set_option"},
             dbc : Dbcs, next : 1..Len(Settings)]
  BY <1>1, <1>2
<1> DEFINE n == [c EXCEPT !.at = "set_plugin_option", !.next = c.next + 1]
<1>7. /\ n \in [at : {"set_plugin_option"}, dbc : Dbcs,
                next : 1..(Len(Settings) + 1)]
      /\ n.at = "set_plugin_option" /\ n.dbc = c.dbc
      /\ n.next = c.next + 1
  BY <1>3, <1>6
<1>8. n \in CallT
  <2> HIDE DEF n
  <2> QED
    BY <1>7, Zenon DEF CallT
<1>9. /\ [c EXCEPT !.at = a].at = a /\ [c EXCEPT !.at = a].dbc = c.dbc
      /\ [c EXCEPT !.at = a].next = c.next
  BY <1>6
<1> QED
  BY <1>4, <1>5, <1>7, <1>8, <1>9

LEMMA NextOption ==
    ASSUME NEW c \in CallT, c.at = "set_plugin_option",
           c.next \in 1..Len(Settings)
    PROVE  /\ [c EXCEPT !.next = c.next + 1] \in CallT
           /\ [c EXCEPT !.next = c.next + 1].at = "set_plugin_option"
           /\ [c EXCEPT !.next = c.next + 1].dbc = c.dbc
           /\ [c EXCEPT !.next = c.next + 1].next = c.next + 1
<1>1. c = [at |-> c.at, dbc |-> c.dbc, next |-> c.next] /\ c.dbc \in Dbcs
  BY OptionCall, CallShape DEF Shape, OnDbc, Connecting
<1>2. c \in [at : {"set_plugin_option"}, dbc : Dbcs,
             next : 1..Len(Settings)]
  BY <1>1
<1>3. c.next + 1 \in 1..(Len(Settings) + 1)
  BY SettingsType
<1> DEFINE n == [c EXCEPT !.next = c.next + 1]
<1>4. /\ n \in [at : {"set_plugin_option"}, dbc : Dbcs,
                next : 1..(Len(Settings) + 1)]
      /\ n.at = "set_plugin_option" /\ n.dbc = c.dbc
      /\ n.next = c.next + 1
  BY <1>2, <1>3
<1>5. n \in CallT
  <2> HIDE DEF n
  <2> QED
    BY <1>4, Zenon DEF CallT
<1> QED
  BY <1>4, <1>5

LEMMA NewConnect ==
    ASSUME NEW d \in Dbcs, NEW n \in {1, Len(Settings) + 1}
    PROVE  [at |-> "set_plugin_option", dbc |-> d, next |-> n] \in CallT
<1>1. n \in 1..(Len(Settings) + 1)
  BY SettingsType
<1> QED
  BY <1>1, DbcCalls

(* The connection a call connects is one there is.                         *)
LEMMA ConnectingDbc ==
    ASSUME Typed, Tree, NEW t \in Threads, call[t].at \in Connecting
    PROVE  /\ call[t].dbc \in Dbcs /\ call[t].dbc \in Existing
           /\ dbcs[call[t].dbc] \in DbcT
<1>1. call[t].dbc \in Existing
  BY DEF Tree
<1> QED
  BY <1>1, TypedParts DEF Existing

LEMMA ConnectTyped ==
    ASSUME Typed, NEW t \in Threads, NEW d \in Dbcs,
           \/ \E set \in SUBSET Options : Connect(t, d, set)
           \/ Reconnect(t, d) \/ Disconnect(t, d) \/ FreeConnect(t, d)
    PROVE  Typed'
<1>1. ASSUME NEW set \in SUBSET Options, Connect(t, d, set) PROVE Typed'
  <2>1. dbcs' \in [Dbcs -> DbcT \cup {None}]
    <3>1. dbcs[d] \in DbcT
      BY <1>1, TypedParts DEF Connect
    <3>2. [dbcs[d] EXCEPT !.set = set] \in DbcT
      BY <3>1 DEF DbcT
    <3>3. dbcs' = [dbcs EXCEPT ![d] = [dbcs[d] EXCEPT !.set = set]]
      BY <1>1 DEF Connect
    <3> QED
      BY <3>2, <3>3, TypedParts
  <2>2. pool' \in PoolT
    BY <1>1, TypedParts DEF Connect, PoolT
  <2>3. call' \in [Threads -> CallT]
    BY <1>1, NewConnect, Moves DEF Connect
  <2>4. lapses' \subseteq Lapses
    BY <1>1, MeetsType DEF Connect
  <2> QED
    BY <1>1, <2>1, <2>2, <2>3, <2>4, TypedParts, TypedFromParts
       DEF Connect, threadVars, stateVars
<1>2. CASE Reconnect(t, d)
  <2>1. call' \in [Threads -> CallT]
    BY <1>2, NewConnect, Moves DEF Reconnect
  <2>2. lapses' \subseteq Lapses
    BY <1>2, MeetsType DEF Reconnect
  <2> QED
    BY <1>2, <2>1, <2>2, TypedParts, TypedFromParts
       DEF Reconnect, libVars, threadVars, stateVars, poolVars
<1>3. CASE Disconnect(t, d)
  <2>1. dbcs[d] \in DbcT
    BY <1>3, TypedParts DEF Disconnect
  <2>2. [dbcs[d] EXCEPT !.connected = FALSE, !.set = {}] \in DbcT
    BY <2>1 DEF DbcT
  <2>3. dbcs' = [dbcs EXCEPT ![d] = [dbcs[d] EXCEPT !.connected = FALSE,
                                                    !.set = {}]]
    BY <1>3, TypedParts DEF Disconnect
  <2>4. dbcs' \in [Dbcs -> DbcT \cup {None}]
    BY <2>2, <2>3, TypedParts
  <2> QED
    BY <1>3, <2>4, TypedParts, TypedFromParts
       DEF Disconnect, libVars, threadVars, stateVars, poolVars
<1>4. CASE FreeConnect(t, d)
  <2>1. dbcs' \in [Dbcs -> DbcT \cup {None}]
    BY <1>4, TypedParts DEF FreeConnect
  <2>2. /\ thread_count' \in [Threads -> 0..MaxCount]
        /\ served' \subseteq Threads
    BY <1>4, TypedParts DEF FreeConnect, threadVars
  <2>3. lapses' \subseteq Lapses
    BY <1>4, MeetsType DEF FreeConnect
  <2>4. uneven' \in UnevenT
    <3>1. dbcs[d].by \in Threads
      BY <1>4, TypedParts DEF FreeConnect, DbcT
    <3> QED
      BY <1>4, <3>1, TypedParts DEF FreeConnect, Misses, When, UnevenT
  <2> QED
    BY <1>4, <2>1, <2>2, <2>3, <2>4, TypedParts, TypedFromParts
       DEF FreeConnect, libVars, stateVars, poolVars
<1> QED
  BY <1>1, <1>2, <1>3, <1>4

(* What the calls on the options of plugins do to the rest.                *)
LEMMA LookTyped == ASSUME Typed, NEW t \in Threads, Look(t) PROVE Typed'
<1>1. PICK c \in CallT : c = call[t]
  BY DEF Typed
<1>2. c.at = "set_plugin_option" /\ c.next \in 1..Len(Settings)
  BY <1>1, SettingsType DEF Look
<1>3. \/ Goes(t, [c EXCEPT !.at = "set_option"])
      \/ Goes(t, [c EXCEPT !.at = "add_plugin"])
      \/ Goes(t, [c EXCEPT !.next = c.next + 1])
  BY <1>1 DEF Look
<1>4. /\ [c EXCEPT !.at = "set_option"] \in CallT
      /\ [c EXCEPT !.at = "add_plugin"] \in CallT
  BY <1>2, OptionCalls
<1>5. [c EXCEPT !.next = c.next + 1] \in CallT
  BY <1>2, NextOption
<1>6. call' \in [Threads -> CallT]
  BY <1>3, <1>4, <1>5, Moves
<1> QED
  BY <1>6, TypedParts, TypedFromParts
     DEF Look, libVars, threadVars, stateVars, poolVars

LEMMA FailedCall ==
    ASSUME Typed, NEW t \in Threads, call[t].at \in Connecting,
           NEW w \in {"already in the pool", "not loaded", "option"},
           NEW m \in Dbcs \cup {None}, Fails(t, w, m)
    PROVE  /\ call' \in [Threads -> CallT]
           /\ call'[t] = [at |-> "failed", dbc |-> call[t].dbc, why |-> w,
                          mysql |-> m]
<1>1. call[t].dbc \in Dbcs
  BY CallTyped DEF Shape, OnDbc
<1>2. [at |-> "failed", dbc |-> call[t].dbc, why |-> w, mysql |-> m]
         \in CallT
  BY <1>1, DbcCalls
<1> QED
  BY <1>2, Moves DEF Fails

LEMMA AddPluginTyped ==
    ASSUME Typed, NEW t \in Threads, AddPlugin(t) PROVE Typed'
<1>1. PICK c \in CallT : c = call[t]
  BY DEF Typed
<1>2. c.at = "add_plugin" /\ c.next \in 1..Len(Settings)
  BY <1>1, CallShape DEF AddPlugin, Shape
<1>3. Settings[c.next].plugin \in Plugins
  BY <1>2, SettingsType
<1>4. pool \in PoolT /\ pool.mysql \in Dbcs \cup {None}
  BY TypedParts DEF PoolT
<1>5. pool' \in PoolT
  <2>1. /\ [pool EXCEPT !.pool_mtx = t] \in PoolT
        /\ [pool EXCEPT !.plugins = @ \cup {Settings[c.next].plugin},
                        !.pool_mtx = t] \in PoolT
    BY <1>3, <1>4 DEF PoolT
  <2> QED
    BY <1>1, <2>1 DEF AddPlugin
<1>6. call' \in [Threads -> CallT]
  <2>1. [c EXCEPT !.at = "set_option"] \in CallT
    BY <1>2, OptionCalls
  <2>2. \/ Goes(t, [c EXCEPT !.at = "set_option"])
        \/ Fails(t, "already in the pool", None)
        \/ Fails(t, "not loaded", pool.mysql)
    BY <1>1 DEF AddPlugin
  <2>3. call[t].at \in Connecting
    BY <1>1, <1>2 DEF Connecting
  <2> QED
    BY <1>4, <2>1, <2>2, <2>3, Moves, FailedCall
<1>7. loaded' \subseteq Plugins
  BY <1>1, <1>3, TypedParts DEF AddPlugin
<1> QED
  BY <1>5, <1>6, <1>7, TypedParts, TypedFromParts
     DEF AddPlugin, libVars, threadVars, stateVars

LEMMA SetOptionTyped ==
    ASSUME Typed, NEW t \in Threads, SetOption(t) PROVE Typed'
<1>1. PICK c \in CallT : c = call[t]
  BY DEF Typed
<1>2. /\ c.at = "set_option" /\ c.next \in 1..Len(Settings)
      /\ c.dbc \in Dbcs
  BY <1>1, CallShape DEF SetOption, Shape, OnDbc, Connecting
<1>3. Settings[c.next].option \in Options
  BY <1>2, SettingsType
<1>4. pool' \in PoolT
  BY TypedParts DEF SetOption, PoolT
<1>5. call' \in [Threads -> CallT]
  <2>1. [c EXCEPT !.at = "set_plugin_option", !.next = c.next + 1] \in CallT
    BY <1>2, OptionCalls
  <2>2. \/ Goes(t, [c EXCEPT !.at = "set_plugin_option",
                             !.next = c.next + 1])
        \/ Fails(t, "option", None)
    BY <1>1 DEF SetOption
  <2>3. call[t].at \in Connecting
    BY <1>1, <1>2 DEF Connecting
  <2> QED
    BY <2>1, <2>2, <2>3, Moves, FailedCall
<1>6. option' \in [Options -> Dbcs \cup {None}]
  <2>1. \/ option' = option
        \/ option' = [option EXCEPT ![Settings[c.next].option] = c.dbc]
        \/ option' = [option EXCEPT ![Settings[c.next].option] = None]
    BY <1>1 DEF SetOption
  <2> QED
    BY <1>2, <1>3, <2>1, TypedParts
<1> QED
  BY <1>4, <1>5, <1>6, TypedParts, TypedFromParts
     DEF SetOption, libVars, threadVars, stateVars

LEMMA LeaveTyped ==
    ASSUME Typed, Tree, NEW t \in Threads, Connected(t) \/ ConnectFailed(t)
    PROVE  Typed'
<1>1. PICK b \in BOOLEAN : Leave(t, b)
  BY DEF Connected, ConnectFailed
<1>2. call[t].at \in Connecting
  BY DEF Connected, ConnectFailed, Handshake, Connecting
<1> DEFINE d == call[t].dbc
<1>3. d \in Dbcs /\ dbcs[d] \in DbcT
  BY <1>2, ConnectingDbc
<1>4. dbcs' \in [Dbcs -> DbcT \cup {None}]
  <2> DEFINE r == [dbcs[d] EXCEPT !.connected = b,
                      !.set = IF b THEN @ ELSE {}]
  <2>1. r \in DbcT
    BY <1>3 DEF DbcT
  <2>2. dbcs' = [dbcs EXCEPT ![d] = r]
    BY <1>1, <1>3, TypedParts DEF Leave
  <2> HIDE DEF r, d
  <2> QED
    BY <1>3, <2>1, <2>2, TypedParts
<1>5. pool' \in PoolT
  BY <1>1, TypedParts DEF Leave, PoolT
<1>6. call' \in [Threads -> CallT]
  BY <1>1, SimpleCalls, Moves DEF Leave, Returns
<1> QED
  BY <1>1, <1>4, <1>5, <1>6, TypedParts, TypedFromParts
     DEF Leave, libVars, threadVars, stateVars

LEMMA TypedNext == ASSUME Typed, Tree, [Next]_vars PROVE Typed'
<1>1. ASSUME NEW t \in Threads, Environment(t) PROVE Typed'
  BY <1>1, EnvironmentTyped
<1>2. ASSUME NEW t \in Threads, Connection(t) PROVE Typed'
  BY <1>2, AllocatingTyped, ConnectTyped, LookTyped, AddPluginTyped,
     SetOptionTyped, LeaveTyped DEF Connection
<1>3. CASE UNCHANGED vars
  BY <1>3 DEF vars, Typed, TypeOK, Existing
<1> QED
  BY <1>1, <1>2, <1>3 DEF Next

-----------------------------------------------------------------------------
(***************************************************************************)
(* Handles in their places                                                 *)
(***************************************************************************)

(* A thread's call goes on, with the connection and environment it has.    *)
GoesOn(u) ==
    /\ call'[u].at \in Allocating =>
          /\ call[u].at \in Allocating
          /\ call'[u].dbc = call[u].dbc /\ call'[u].env = call[u].env
    /\ call'[u].at \in Connecting =>
          call[u].at \in Connecting /\ call'[u].dbc = call[u].dbc
    /\ call'[u].at = "myodbc_init" => call'[u] = call[u]

(* No handle comes or goes.                                                *)
TreeSame ==
    /\ envs' = envs /\ g_lock' = g_lock
    /\ Existing' = Existing
    /\ \A d \in Existing : dbcs'[d].env = dbcs[d].env
    /\ \A u \in Threads : GoesOn(u)

LEMMA TreeSameHolds == ASSUME Typed, Tree, TreeSame PROVE Tree'
<1>1. \A d \in Existing' : envs'[dbcs'[d].env] # None
  BY DEF TreeSame, Tree
<1>2. ASSUME NEW t \in Threads
      PROVE  /\ call'[t].at \in Allocating =>
                  /\ envs'[call'[t].env] # None
                  /\ dbcs'[call'[t].dbc] = None
             /\ call'[t].at \in Connecting => call'[t].dbc \in Existing'
             /\ call'[t].at = "myodbc_init" =>
                  g_lock' = t /\ envs'[call'[t].env] = None
  <2>1. CASE call'[t].at \in Allocating
    <3>1. /\ call[t].at \in Allocating /\ call'[t].dbc = call[t].dbc
          /\ call'[t].env = call[t].env
      BY <2>1 DEF TreeSame, GoesOn
    <3>2. call[t].dbc \in Dbcs /\ dbcs[call[t].dbc] = None
      BY <3>1, CallTyped DEF Shape, OnDbc, Tree
    <3> QED
      BY <2>1, <3>1, <3>2
         DEF TreeSame, Tree, Existing, Allocating, Connecting
  <2>2. CASE call'[t].at \notin Allocating
    BY <2>2 DEF TreeSame, GoesOn, Tree
  <2> QED
    BY <2>1, <2>2
<1>3. ASSUME NEW t \in Threads, NEW u \in Threads,
             call'[t].at \in OnDbc, call'[u].at \in OnDbc,
             call'[t].dbc = call'[u].dbc
      PROVE  t = u
  BY <1>3 DEF TreeSame, GoesOn, Tree, OnDbc
<1> QED
  BY <1>1, <1>2, <1>3 DEF Tree

(* Where a thread goes on, and the others stay.                            *)
LEMMA OneGoesOn ==
    ASSUME Typed, NEW t \in Threads, NEW c, Goes(t, c),
           c.at \in Allocating => /\ call[t].at \in Allocating
                                  /\ c.dbc = call[t].dbc
                                  /\ c.env = call[t].env,
           c.at \in Connecting => /\ call[t].at \in Connecting
                                  /\ c.dbc = call[t].dbc,
           c.at # "myodbc_init"
    PROVE  \A u \in Threads : GoesOn(u)
BY Moves DEF GoesOn

LEMMA NoneGoesOn ==
    ASSUME UNCHANGED call PROVE \A u \in Threads : GoesOn(u)
BY DEF GoesOn

LEMMA OneReturns ==
    ASSUME Typed, NEW t \in Threads, NEW c, Goes(t, c),
           c.at \in {"application"} \cup Ending
    PROVE  \A u \in Threads : GoesOn(u)
BY OneGoesOn DEF Ending, Allocating, Connecting

(* The stages of a connect.                                                *)
LEMMA FailedGoes ==
    ASSUME Typed, NEW t \in Threads, call[t].at \in Connecting,
           NEW w \in {"already in the pool", "not loaded", "option"},
           NEW m \in Dbcs \cup {None}, Fails(t, w, m)
    PROVE  /\ \A u \in Threads : GoesOn(u)
           /\ \A u \in Threads \ {t} : call'[u] = call[u]
           /\ call'[t].at = "failed" /\ call'[t].dbc = call[t].dbc
           /\ call'[t].why = w /\ call'[t].mysql = m
<1> DEFINE n == [at |-> "failed", dbc |-> call[t].dbc, why |-> w,
                 mysql |-> m]
<1>1. n.at = "failed" /\ n.dbc = call[t].dbc /\ n.why = w /\ n.mysql = m
  OBVIOUS
<1>2. Goes(t, n)
  BY DEF Fails
<1> HIDE DEF n
<1>3. call'[t] = n /\ \A u \in Threads \ {t} : call'[u] = call[u]
  BY <1>2, Moves
<1>4. \A u \in Threads : GoesOn(u)
  BY <1>1, <1>2, OneGoesOn DEF Allocating
<1> QED
  BY <1>1, <1>3, <1>4

LEMMA LookGoes ==
    ASSUME Typed, NEW t \in Threads, Look(t)
    PROVE  /\ \A u \in Threads : GoesOn(u)
           /\ \A u \in Threads \ {t} : call'[u] = call[u]
           /\ call'[t].dbc = call[t].dbc
           /\ call[t].next \in 1..Len(Settings)
           /\ \/ /\ call'[t].at \in {"set_option", "add_plugin"}
                 /\ call'[t].next = call[t].next
              \/ /\ call'[t].at = "set_plugin_option"
                 /\ call'[t].next = call[t].next + 1
<1>1. PICK c \in CallT : c = call[t]
  BY DEF Typed
<1>2. c.at = "set_plugin_option" /\ c.next \in 1..Len(Settings)
  BY <1>1, SettingsType DEF Look
<1>3. PICK n : /\ Goes(t, n)
               /\ n \in {[c EXCEPT !.at = "set_option"],
                         [c EXCEPT !.at = "add_plugin"],
                         [c EXCEPT !.next = c.next + 1]}
  BY <1>1 DEF Look
<1>4. /\ n.dbc = c.dbc
      /\ \/ n.at \in {"set_option", "add_plugin"} /\ n.next = c.next
         \/ n.at = "set_plugin_option" /\ n.next = c.next + 1
  <2>1. CASE n = [c EXCEPT !.at = "set_option"]
    BY <1>2, <2>1, OptionCalls
  <2>2. CASE n = [c EXCEPT !.at = "add_plugin"]
    BY <1>2, <2>2, OptionCalls
  <2>3. CASE n = [c EXCEPT !.next = c.next + 1]
    BY <1>2, <2>3, NextOption
  <2> QED
    BY <1>3, <2>1, <2>2, <2>3
<1>5. call'[t] = n /\ \A u \in Threads \ {t} : call'[u] = call[u]
  BY <1>3, Moves
<1>6. \A u \in Threads : GoesOn(u)
  BY <1>1, <1>2, <1>3, <1>4, OneGoesOn DEF Allocating, Connecting
<1> QED
  BY <1>1, <1>2, <1>4, <1>5, <1>6

LEMMA AddPluginGoes ==
    ASSUME Typed, NEW t \in Threads, AddPlugin(t)
    PROVE  /\ \A u \in Threads : GoesOn(u)
           /\ \A u \in Threads \ {t} : call'[u] = call[u]
           /\ call'[t].dbc = call[t].dbc
           /\ call[t].next \in 1..Len(Settings)
           /\ \/ /\ call'[t].at = "set_option"
                 /\ call'[t].next = call[t].next
                 /\ pool' = [pool EXCEPT
                       !.plugins = @ \cup {Settings[call[t].next].plugin},
                       !.pool_mtx = t]
                 /\ loaded' = loaded \cup {Settings[call[t].next].plugin}
              \/ /\ call'[t].at = "failed" /\ loaded' = loaded
                 /\ pool' = [pool EXCEPT !.pool_mtx = t]
                 /\ \/ /\ call'[t].why = "already in the pool"
                       /\ HasPlugin(Settings[call[t].next])
                    \/ /\ call'[t].why = "not loaded"
                       /\ call'[t].mysql = pool.mysql
<1>1. PICK c \in CallT : c = call[t]
  BY DEF Typed
<1>2. c.at = "add_plugin" /\ c.next \in 1..Len(Settings)
  BY <1>1, CallShape DEF AddPlugin, Shape
<1>3. call[t].at \in Connecting
  BY <1>1, <1>2 DEF Connecting
<1>4. CASE /\ Goes(t, [c EXCEPT !.at = "set_option"])
           /\ pool' = [pool EXCEPT
                 !.plugins = @ \cup {Settings[call[t].next].plugin},
                 !.pool_mtx = t]
  <2> DEFINE n == [c EXCEPT !.at = "set_option"]
  <2>1. n.at = "set_option" /\ n.dbc = c.dbc /\ n.next = c.next
    BY <1>2, OptionCalls
  <2> HIDE DEF n
  <2>2. call'[t] = n /\ \A u \in Threads \ {t} : call'[u] = call[u]
    BY <1>4, Moves DEF n
  <2>3. \A u \in Threads : GoesOn(u)
    <3>1. Goes(t, n)
      BY <1>4 DEF n
    <3> QED
      BY <1>1, <1>3, <2>1, <3>1, OneGoesOn DEF Allocating
  <2>4. loaded' = loaded \cup {Settings[call[t].next].plugin}
    BY <2>1, <2>2 DEF AddPlugin
  <2> QED
    BY <1>1, <1>2, <1>4, <2>1, <2>2, <2>3, <2>4
<1>5. ASSUME NEW w \in {"already in the pool", "not loaded", "option"},
             NEW m \in Dbcs \cup {None}, Fails(t, w, m)
      PROVE  /\ \A u \in Threads : GoesOn(u)
             /\ \A u \in Threads \ {t} : call'[u] = call[u]
             /\ call'[t].at = "failed" /\ call'[t].dbc = call[t].dbc
             /\ call'[t].why = w /\ call'[t].mysql = m
             /\ loaded' = loaded
  <2>1. /\ \A u \in Threads : GoesOn(u)
        /\ \A u \in Threads \ {t} : call'[u] = call[u]
        /\ call'[t].at = "failed" /\ call'[t].dbc = call[t].dbc
        /\ call'[t].why = w /\ call'[t].mysql = m
    BY <1>3, <1>5, FailedGoes
  <2>2. loaded' = loaded
    BY <2>1 DEF AddPlugin
  <2> QED
    BY <2>1, <2>2
<1>6. CASE /\ HasPlugin(Settings[call[t].next])
           /\ Fails(t, "already in the pool", None)
           /\ pool' = [pool EXCEPT !.pool_mtx = t]
  BY <1>1, <1>2, <1>5, <1>6
<1>7. CASE /\ Fails(t, "not loaded", pool.mysql)
           /\ pool' = [pool EXCEPT !.pool_mtx = t]
  <2>1. pool.mysql \in Dbcs \cup {None}
    BY TypedParts DEF PoolT
  <2> QED
    BY <1>1, <1>2, <1>5, <1>7, <2>1
<1> QED
  BY <1>1, <1>4, <1>6, <1>7 DEF AddPlugin

LEMMA SetOptionGoes ==
    ASSUME Typed, NEW t \in Threads, SetOption(t)
    PROVE  /\ \A u \in Threads : GoesOn(u)
           /\ \A u \in Threads \ {t} : call'[u] = call[u]
           /\ call'[t].dbc = call[t].dbc
           /\ call[t].next \in 1..Len(Settings)
           /\ \/ /\ call'[t].at = "set_plugin_option"
                 /\ call'[t].next = call[t].next + 1
                 /\ option' = [option EXCEPT
                       ![Settings[call[t].next].option] =
                          IF Settings[call[t].next].option
                                \in dbcs[call[t].dbc].set
                          THEN call[t].dbc ELSE None]
              \/ /\ call'[t].at = "failed" /\ call'[t].why = "option"
                 /\ option' = option
<1>1. PICK c \in CallT : c = call[t]
  BY DEF Typed
<1>2. c.at = "set_option" /\ c.next \in 1..Len(Settings)
  BY <1>1, CallShape DEF SetOption, Shape
<1>3. call[t].at \in Connecting
  BY <1>1, <1>2 DEF Connecting
<1>4. CASE /\ Goes(t, [c EXCEPT !.at = "set_plugin_option",
                                !.next = c.next + 1])
           /\ option' = [option EXCEPT
                 ![Settings[call[t].next].option] =
                    IF Settings[call[t].next].option
                          \in dbcs[call[t].dbc].set
                    THEN call[t].dbc ELSE None]
  <2> DEFINE n == [c EXCEPT !.at = "set_plugin_option", !.next = c.next + 1]
  <2>1. /\ n.at = "set_plugin_option" /\ n.dbc = c.dbc
        /\ n.next = c.next + 1
    BY <1>2, OptionCalls
  <2> HIDE DEF n
  <2>2. Goes(t, n)
    BY <1>4 DEF n
  <2>3. call'[t] = n /\ \A u \in Threads \ {t} : call'[u] = call[u]
    BY <2>2, Moves
  <2>4. \A u \in Threads : GoesOn(u)
    BY <1>1, <1>3, <2>1, <2>2, OneGoesOn DEF Allocating
  <2> QED
    BY <1>1, <1>2, <1>4, <2>1, <2>3, <2>4
<1>5. CASE Fails(t, "option", None) /\ option' = option
  <2>1. /\ \A u \in Threads : GoesOn(u)
        /\ \A u \in Threads \ {t} : call'[u] = call[u]
        /\ call'[t].at = "failed" /\ call'[t].dbc = call[t].dbc
        /\ call'[t].why = "option"
    BY <1>3, <1>5, FailedGoes
  <2> QED
    BY <1>1, <1>2, <1>5, <2>1
<1> QED
  BY <1>1, <1>4, <1>5 DEF SetOption

(* Actions by which no handle comes or goes.                               *)
LEMMA QuietTree ==
    ASSUME Typed, NEW t \in Threads,
           \/ Decremented(t) \/ LastEnv(t) \/ ClearPool(t) \/ LibraryEnd(t)
           \/ \E e \in Envs : AllocConnectRefused(t, e)
           \/ Look(t) \/ AddPlugin(t) \/ SetOption(t)
    PROVE  TreeSame
<1>1. envs' = envs /\ g_lock' = g_lock /\ dbcs' = dbcs
  BY DEF Decremented, LastEnv, ClearPool, LibraryEnd, AllocConnectRefused,
     Look, AddPlugin, SetOption, libVars
<1>2. \A u \in Threads : GoesOn(u)
  <2>1. CASE Decremented(t) \/ LastEnv(t) \/ ClearPool(t) \/ LibraryEnd(t)
    <3>1. PICK c : /\ Goes(t, c)
                   /\ c \in {Idle, [at |-> "myodbc_inited"],
                             [at |-> "clear_plugin_pool"],
                             [at |-> "mysql_library_end"]}
      BY <2>1 DEF Decremented, LastEnv, ClearPool, LibraryEnd, Returns
    <3>2. c.at \in {"application"} \cup Ending
      BY <3>1 DEF Idle, Ending
    <3> QED
      BY <3>1, <3>2, OneReturns
  <2>2. CASE \E e \in Envs : AllocConnectRefused(t, e)
    BY <2>2, NoneGoesOn DEF AllocConnectRefused
  <2>3. CASE Look(t) \/ AddPlugin(t) \/ SetOption(t)
    BY <2>3, LookGoes, AddPluginGoes, SetOptionGoes
  <2> QED
    BY <2>1, <2>2, <2>3
<1> QED
  BY <1>1, <1>2 DEF TreeSame, Existing

LEMMA LeaveTree ==
    ASSUME Typed, Tree, NEW t \in Threads, Connected(t) \/ ConnectFailed(t)
    PROVE  /\ TreeSame
           /\ \A u \in Threads \ {t} : call'[u] = call[u]
           /\ call'[t] = Idle
           /\ \A d \in Existing : dbcs'[d].by = dbcs[d].by
           /\ \A d \in Existing \ {call[t].dbc} : dbcs'[d] = dbcs[d]
           /\ call[t].at \in Connecting
<1>1. PICK b \in BOOLEAN : Leave(t, b)
  BY DEF Connected, ConnectFailed
<1>2. call[t].at \in Connecting
  BY DEF Connected, ConnectFailed, Handshake, Connecting
<1> DEFINE d == call[t].dbc
           r == [dbcs[d] EXCEPT !.connected = b, !.set = IF b THEN @ ELSE {}]
<1>3. d \in Dbcs /\ dbcs[d] \in DbcT
  BY <1>2, ConnectingDbc
<1>4. r \in DbcT /\ r.env = dbcs[d].env /\ r.by = dbcs[d].by
  BY <1>3 DEF DbcT
<1>5. dbcs' = [dbcs EXCEPT ![d] = r]
  BY <1>1, <1>3, TypedParts DEF Leave
<1>6. Goes(t, Idle) /\ Idle.at = "application"
  BY <1>1 DEF Leave, Returns, Idle
<1>7. \A u \in Threads : GoesOn(u)
  BY <1>6, OneReturns
<1>8. r # None
  BY <1>4, NoneAssumption DEF DbcT
<1>9. d \in Existing
  BY <1>2 DEF Tree
<1>10. call'[t] = Idle /\ \A u \in Threads \ {t} : call'[u] = call[u]
  BY <1>6, Moves
<1>11. envs' = envs /\ g_lock' = g_lock
  BY <1>1 DEF Leave, libVars
<1> HIDE DEF r, d
<1>12. /\ Existing' = Existing
       /\ \A x \in Existing : dbcs'[x].env = dbcs[x].env
       /\ \A x \in Existing : dbcs'[x].by = dbcs[x].by
       /\ \A x \in Existing \ {d} : dbcs'[x] = dbcs[x]
  BY <1>3, <1>4, <1>5, <1>8, <1>9, TypedParts DEF Existing
<1> QED
  BY <1>2, <1>7, <1>10, <1>11, <1>12 DEF TreeSame, d

LEMMA EnvTree ==
    ASSUME Typed, Tree, NEW t \in Threads, NEW e \in Envs,
           \/ AllocEnv(t, e) \/ FreeEnv(t, e)
           \/ \E v \in Versions : SetVersion(t, e, v)
    PROVE  Tree'
<1>1. ~EnvInUse(e) /\ dbcs' = dbcs /\ call[t] = Idle
  BY DEF AllocEnv, FreeEnv, SetVersion, Ready
<1>2. /\ \A d \in Existing : dbcs[d].env # e
      /\ \A u \in Threads : call[u].at \in OnEnv => call[u].env # e
  BY <1>1, EnvInUseMeans
<1>3. CASE AllocEnv(t, e)
  <2> DEFINE c == [at |-> "myodbc_init", env |-> e, seen |-> inited]
  <2>1. /\ Goes(t, c) /\ c.at = "myodbc_init" /\ c.env = e
        /\ g_lock' = t /\ envs' = envs /\ envs[e] = None /\ g_lock = None
    BY <1>3 DEF AllocEnv
  <2> HIDE DEF c
  <2>2. call'[t] = c /\ \A u \in Threads \ {t} : call'[u] = call[u]
    BY <2>1, Moves
  <2>3. c.at \notin OnDbc
    BY <2>1 DEF OnDbc, Allocating, Connecting
  <2>4. \A u \in Threads : call[u].at # "myodbc_init"
    BY <2>1, NoneAssumption DEF Tree
  <2> QED
    BY <1>1, <2>1, <2>2, <2>3, <2>4
       DEF Tree, OnDbc, Existing
<1>4. CASE FreeEnv(t, e)
  <2>1. envs' = [envs EXCEPT ![e] = None] /\ g_lock' = g_lock
    BY <1>4 DEF FreeEnv, libVars
  <2>2. \A u \in Threads : GoesOn(u)
    <3> DEFINE c == [at |-> "myodbc_end", seen |-> inited]
    <3>1. UNCHANGED call \/ Goes(t, c)
      BY <1>4 DEF FreeEnv
    <3>2. c.at \in {"application"} \cup Ending
      BY DEF Ending
    <3> HIDE DEF c
    <3> QED
      BY <3>1, <3>2, OneReturns, NoneGoesOn
  <2>3. \A x \in Envs : x # e => envs'[x] = envs[x]
    BY <2>1, TypedParts
  <2>4. \A u \in Threads : call[u].at \in OnEnv => call[u].env \in Envs
    BY CallTyped DEF Shape
  <2>5. \A d \in Existing : dbcs[d].env \in Envs
    BY TypedParts DEF DbcT
  <2> QED
    BY <1>1, <1>2, <2>1, <2>2, <2>3, <2>4, <2>5
       DEF Tree, GoesOn, OnEnv, OnDbc, Existing
<1>5. ASSUME NEW v \in Versions, SetVersion(t, e, v) PROVE Tree'
  <2>1. /\ envs' = [envs EXCEPT ![e] = v] /\ g_lock' = g_lock
        /\ call' = call
    BY <1>5 DEF SetVersion, libVars
  <2>2. \A x \in Envs : x # e => envs'[x] = envs[x]
    BY <2>1, TypedParts
  <2>3. \A u \in Threads : call[u].at \in OnEnv => call[u].env \in Envs
    BY CallTyped DEF Shape
  <2>4. \A d \in Existing : dbcs[d].env \in Envs
    BY TypedParts DEF DbcT
  <2> QED
    BY <1>1, <1>2, <2>1, <2>2, <2>3, <2>4
       DEF Tree, OnEnv, OnDbc, Existing
<1> QED
  BY <1>3, <1>4, <1>5

LEMMA InitedTree ==
    ASSUME Typed, Tree, NEW t \in Threads, Inited(t) PROVE Tree'
<1>1. /\ call[t].at = "myodbc_init" /\ call[t].env \in Envs
      /\ envs[call[t].env] = None /\ g_lock = t
  BY CallTyped DEF Inited, Tree, Shape, OnEnv
<1>2. /\ envs' = [envs EXCEPT ![call[t].env] = 3] /\ dbcs' = dbcs
      /\ Goes(t, Idle) /\ Idle.at = "application"
  BY DEF Inited, Returns, Idle
<1>3. \A u \in Threads : GoesOn(u)
  BY <1>2, OneReturns
<1>4. \A u \in Threads \ {t} : call[u].at # "myodbc_init"
  BY <1>1 DEF Tree
<1>5. call'[t] = Idle /\ \A u \in Threads \ {t} : call'[u] = call[u]
  BY <1>2, Moves
<1>6. \A x \in Envs : envs[x] # None => envs'[x] = envs[x]
  BY <1>1, <1>2, TypedParts
<1>7. \A u \in Threads : call[u].at \in OnEnv => call[u].env \in Envs
  BY CallTyped DEF Shape
<1>8. \A d \in Existing : dbcs[d].env \in Envs
  BY TypedParts DEF DbcT
<1>9. \A u \in Threads : call'[u].at # "myodbc_init"
  BY <1>2, <1>4, <1>5
<1> QED
  BY <1>2, <1>3, <1>6, <1>7, <1>8, <1>9
     DEF Tree, GoesOn, OnEnv, OnDbc, Existing

LEMMA AllocConnectTree ==
    ASSUME Typed, Tree, NEW t \in Threads, NEW e \in Envs, NEW d \in Dbcs,
           AllocConnect(t, e, d)
    PROVE  /\ Tree' /\ envs[e] # None /\ dbcs[d] = None
           /\ envs' = envs /\ dbcs' = dbcs /\ call[t] = Idle
           /\ call'[t].at = "myodbc_ov_init" /\ call'[t].env = e
           /\ call'[t].dbc = d
           /\ \A u \in Threads \ {t} : call'[u] = call[u]
<1> DEFINE c == [at |-> "myodbc_ov_init", env |-> e, dbc |-> d]
<1>1. /\ envs[e] # None /\ dbcs[d] = None /\ ~InUse(d) /\ Goes(t, c)
      /\ envs' = envs /\ dbcs' = dbcs /\ g_lock' = g_lock /\ call[t] = Idle
  BY DEF AllocConnect, libVars, Ready
<1>2. c.at = "myodbc_ov_init" /\ c.env = e /\ c.dbc = d
  OBVIOUS
<1> HIDE DEF c
<1>3. call'[t] = c /\ \A u \in Threads \ {t} : call'[u] = call[u]
  BY <1>1, Moves
<1>4. \A u \in Threads : call[u].at \in OnDbc => call[u].dbc # d
  BY <1>1, InUseMeans
<1>5. Tree'
  BY <1>1, <1>2, <1>3, <1>4
     DEF Tree, OnDbc, Existing, Allocating, Connecting
<1> QED
  BY <1>1, <1>2, <1>3, <1>5

(* A connection is made.                                                   *)
LEMMA AllocatedTree ==
    ASSUME Typed, Tree, NEW t \in Threads, call[t].at \in Allocating,
           Allocated(t), UNCHANGED <<envs, g_lock>>
    PROVE  /\ Tree' /\ call'[t] = Idle
           /\ \A u \in Threads \ {t} : call'[u] = call[u]
           /\ call[t].dbc \in Dbcs \ Existing
           /\ Existing' = Existing \cup {call[t].dbc}
           /\ \A d \in Existing : dbcs'[d] = dbcs[d]
           /\ dbcs'[call[t].dbc].env = call[t].env
           /\ dbcs'[call[t].dbc].by = t
           /\ dbcs'[call[t].dbc].connected = FALSE
<1> DEFINE r == [env |-> call[t].env, by |-> t, set |-> {},
                 connected |-> FALSE]
           d == call[t].dbc
<1>1. /\ call[t].env \in Envs /\ d \in Dbcs /\ dbcs[d] = None
      /\ envs[call[t].env] # None
  BY CallTyped DEF Shape, OnEnv, OnDbc, Tree
<1>2. r \in DbcT /\ r.env = call[t].env /\ r.by = t /\ r.connected = FALSE
  BY <1>1 DEF DbcT
<1>3. r # None
  BY <1>2, NoneAssumption DEF DbcT
<1>4. dbcs' = [dbcs EXCEPT ![d] = r] /\ Goes(t, Idle)
      /\ Idle.at = "application"
  BY DEF Allocated, Returns, Idle
<1>5. call'[t] = Idle /\ \A u \in Threads \ {t} : call'[u] = call[u]
  BY <1>4, Moves
<1>6. \A u \in Threads \ {t} : call[u].at \in OnDbc => call[u].dbc # d
  BY DEF Tree, OnDbc
<1> HIDE DEF r, d
<1>7. /\ Existing' = Existing \cup {d} /\ d \notin Existing
      /\ dbcs'[d] = r /\ \A x \in Existing : dbcs'[x] = dbcs[x]
      /\ \A x \in Dbcs \ {d} : dbcs'[x] = dbcs[x]
  BY <1>1, <1>3, <1>4, TypedParts DEF Existing
<1>8. \A u \in Threads : call[u].at \in OnDbc => call[u].dbc \in Dbcs
  BY CallTyped DEF Shape
<1>9. Tree'
  BY <1>1, <1>2, <1>4, <1>5, <1>6, <1>7, <1>8
     DEF Tree, OnDbc, Allocating, Connecting
<1> QED
  BY <1>1, <1>2, <1>5, <1>7, <1>9 DEF d

LEMMA StatesTree ==
    ASSUME Typed, Tree, NEW t \in Threads, OvInit(t) \/ SqlstateInit(t)
    PROVE  Tree'
<1>1. call[t].at \in Allocating /\ UNCHANGED <<envs, g_lock>>
  BY DEF OvInit, SqlstateInit, Allocating, libVars
<1>2. CASE Allocated(t)
  BY <1>1, <1>2, AllocatedTree
<1>3. CASE UNCHANGED <<dbcs, call>>
  <2>1. \A u \in Threads : GoesOn(u)
    BY <1>3, NoneGoesOn
  <2> QED
    BY <1>1, <1>3, <2>1, TreeSameHolds DEF TreeSame, Existing
<1>4. CASE dbcs' = dbcs /\ Goes(t, [call[t] EXCEPT !.at = "sqlstate_init"])
  <2> DEFINE c == [call[t] EXCEPT !.at = "sqlstate_init"]
  <2>1. c.at = "sqlstate_init" /\ c.env = call[t].env
        /\ c.dbc = call[t].dbc
    <3>1. call[t] = [at |-> call[t].at, env |-> call[t].env,
                     dbc |-> call[t].dbc]
      BY <1>1, AllocCall DEF Typed
    <3> QED
      BY <3>1
  <2>2. Goes(t, c)
    BY <1>4
  <2> HIDE DEF c
  <2>3. \A u \in Threads : GoesOn(u)
    BY <1>1, <2>1, <2>2, OneGoesOn DEF Allocating, Connecting
  <2> QED
    BY <1>1, <1>4, <2>3, TreeSameHolds DEF TreeSame, Existing
<1> QED
  BY <1>2, <1>3, <1>4 DEF OvInit, SqlstateInit

LEMMA DbcTree ==
    ASSUME Typed, Tree, NEW t \in Threads, NEW d \in Dbcs,
           \/ FreeConnect(t, d) \/ Disconnect(t, d) \/ Reconnect(t, d)
           \/ \E set \in SUBSET Options : Connect(t, d, set)
    PROVE  Tree'
<1>1. /\ d \in Existing /\ ~InUse(d) /\ envs' = envs /\ g_lock' = g_lock
      /\ call[t] = Idle
  BY DEF FreeConnect, Disconnect, Reconnect, Connect, libVars, Ready
<1>2. \A u \in Threads : call[u].at \in OnDbc => call[u].dbc # d
  BY <1>1, InUseMeans
<1>3. dbcs[d] \in DbcT
  BY <1>1, TypedParts
<1>4. CASE FreeConnect(t, d)
  <2>1. dbcs' = [dbcs EXCEPT ![d] = None] /\ call' = call
    BY <1>4 DEF FreeConnect
  <2>2. /\ Existing' = Existing \ {d}
        /\ \A x \in Dbcs \ {d} : dbcs'[x] = dbcs[x]
    BY <2>1, TypedParts DEF Existing
  <2>3. \A u \in Threads : call[u].at \in OnDbc => call[u].dbc \in Dbcs
    BY CallTyped DEF Shape
  <2> QED
    BY <1>1, <1>2, <2>1, <2>2, <2>3 DEF Tree, OnDbc, Existing
<1>5. CASE Disconnect(t, d)
  <2> DEFINE r == [dbcs[d] EXCEPT !.connected = FALSE, !.set = {}]
  <2>1. r \in DbcT /\ r.env = dbcs[d].env
    BY <1>3 DEF DbcT
  <2>2. dbcs' = [dbcs EXCEPT ![d] = r] /\ call' = call
    BY <1>5, TypedParts DEF Disconnect
  <2>3. r # None
    BY <2>1, NoneAssumption DEF DbcT
  <2> HIDE DEF r
  <2>4. Existing' = Existing /\ \A x \in Existing : dbcs'[x].env = dbcs[x].env
    BY <1>1, <2>1, <2>2, <2>3, TypedParts DEF Existing
  <2>5. \A u \in Threads : GoesOn(u)
    BY <2>2, NoneGoesOn
  <2> QED
    BY <1>1, <2>4, <2>5, TreeSameHolds DEF TreeSame
<1>6. ASSUME NEW n \in {1, Len(Settings) + 1}, Existing' = Existing,
             \A x \in Existing : dbcs'[x].env = dbcs[x].env,
             Goes(t, [at |-> "set_plugin_option", dbc |-> d, next |-> n])
      PROVE  Tree'
  <2> DEFINE c == [at |-> "set_plugin_option", dbc |-> d, next |-> n]
  <2>1. c.at = "set_plugin_option" /\ c.dbc = d
    OBVIOUS
  <2>2. call'[t] = c /\ \A u \in Threads \ {t} : call'[u] = call[u]
    BY <1>6, Moves
  <2>3. \A u \in Threads : /\ call[u].at \in Allocating =>
                                call[u].dbc \in Dbcs \ Existing
    BY CallTyped DEF Shape, OnDbc, Tree, Existing
  <2> HIDE DEF c
  <2> QED
    BY <1>1, <1>2, <1>6, <2>1, <2>2, <2>3
       DEF Tree, OnDbc, Allocating, Connecting, Existing
<1>7. CASE Reconnect(t, d)
  <2>1. dbcs' = dbcs
    BY <1>7 DEF Reconnect
  <2> QED
    BY <1>6, <1>7, <2>1 DEF Reconnect, Existing
<1>8. ASSUME NEW set \in SUBSET Options, Connect(t, d, set) PROVE Tree'
  <2> DEFINE r == [dbcs[d] EXCEPT !.set = set]
  <2>1. r \in DbcT /\ r.env = dbcs[d].env
    BY <1>3 DEF DbcT
  <2>2. dbcs' = [dbcs EXCEPT ![d] = r]
    BY <1>8 DEF Connect
  <2>3. r # None
    BY <2>1, NoneAssumption DEF DbcT
  <2> HIDE DEF r
  <2>4. Existing' = Existing /\ \A x \in Existing : dbcs'[x].env = dbcs[x].env
    BY <1>1, <2>1, <2>2, <2>3, TypedParts DEF Existing
  <2> QED
    BY <1>6, <1>8, <2>4 DEF Connect
<1> QED
  BY <1>4, <1>5, <1>7, <1>8

LEMMA TreeNext == ASSUME Typed, Tree, [Next]_vars PROVE Tree'
<1>1. ASSUME NEW t \in Threads, Environment(t) PROVE Tree'
  BY <1>1, EnvTree, InitedTree, QuietTree, TreeSameHolds DEF Environment
<1>2. ASSUME NEW t \in Threads, Connection(t) PROVE Tree'
  BY <1>2, AllocConnectTree, QuietTree, StatesTree, DbcTree, LeaveTree,
     TreeSameHolds DEF Connection
<1>3. CASE UNCHANGED vars
  BY <1>3 DEF vars, Tree, Existing
<1> QED
  BY <1>1, <1>2, <1>3 DEF Next

-----------------------------------------------------------------------------
(***************************************************************************)
(* Steps of one thread                                                     *)
(***************************************************************************)

(* A thread goes from one place to another, and only that thread.          *)
Step(t, from, to) ==
    /\ call[t].at = from /\ call'[t].at = to
    /\ \A u \in Threads \ {t} : call'[u] = call[u]

LEMMA GoesSteps ==
    ASSUME Typed, NEW t \in Threads, NEW c, Goes(t, c)
    PROVE  Step(t, call[t].at, c.at) /\ call'[t] = c
BY Moves DEF Step

LEMMA EnvironmentSteps ==
    ASSUME Typed, NEW t \in Threads
    PROVE  /\ \A e \in Envs : AllocEnv(t, e) =>
                 /\ Step(t, "application", "myodbc_init")
                 /\ call'[t].env = e /\ call'[t].seen = inited
           /\ Inited(t) => Step(t, "myodbc_init", "application")
           /\ \A e \in Envs : FreeEnv(t, e) /\ inited # 0 =>
                 /\ Step(t, "application", "myodbc_end")
                 /\ call'[t].seen = inited
           /\ Decremented(t) => Step(t, "myodbc_end", "myodbc_inited")
           /\ LastEnv(t) =>
                 Step(t, "myodbc_inited", IF inited = 0
                                          THEN "clear_plugin_pool"
                                          ELSE "application")
           /\ ClearPool(t) =>
                 Step(t, "clear_plugin_pool", "mysql_library_end")
           /\ LibraryEnd(t) => Step(t, "mysql_library_end", "application")
<1>1. ASSUME NEW e \in Envs, AllocEnv(t, e)
      PROVE  /\ Step(t, "application", "myodbc_init")
             /\ call'[t].env = e /\ call'[t].seen = inited
  BY <1>1, GoesSteps DEF AllocEnv, Ready, Idle
<1>2. ASSUME NEW e \in Envs, FreeEnv(t, e), inited # 0
      PROVE  Step(t, "application", "myodbc_end") /\ call'[t].seen = inited
  BY <1>2, GoesSteps DEF FreeEnv, Ready, Idle
<1>3. ASSUME Inited(t) PROVE Step(t, "myodbc_init", "application")
  BY <1>3, GoesSteps DEF Inited, Returns, Idle
<1>4. ASSUME Decremented(t) PROVE Step(t, "myodbc_end", "myodbc_inited")
  BY <1>4, GoesSteps DEF Decremented
<1>5. ASSUME LastEnv(t)
      PROVE  Step(t, "myodbc_inited", IF inited = 0
                                      THEN "clear_plugin_pool"
                                      ELSE "application")
  BY <1>5, GoesSteps DEF LastEnv, Returns, Idle
<1>6. ASSUME ClearPool(t)
      PROVE  Step(t, "clear_plugin_pool", "mysql_library_end")
  BY <1>6, GoesSteps DEF ClearPool
<1>7. ASSUME LibraryEnd(t)
      PROVE  Step(t, "mysql_library_end", "application")
  BY <1>7, GoesSteps DEF LibraryEnd, Returns, Idle
<1> QED
  BY <1>1, <1>2, <1>3, <1>4, <1>5, <1>6, <1>7

LEMMA ConnectionSteps ==
    ASSUME Typed, Tree, NEW t \in Threads
    PROVE  /\ \A e \in Envs, d \in Dbcs : AllocConnect(t, e, d) =>
                 Step(t, "application", "myodbc_ov_init")
           /\ \A d \in Dbcs, set \in SUBSET Options : Connect(t, d, set) =>
                 /\ Step(t, "application", "set_plugin_option")
                 /\ call'[t].dbc = d /\ call'[t].next = 1
           /\ \A d \in Dbcs : Reconnect(t, d) =>
                 /\ Step(t, "application", "set_plugin_option")
                 /\ call'[t].dbc = d /\ call'[t].next = Len(Settings) + 1
           /\ Look(t) \/ AddPlugin(t) \/ SetOption(t) =>
                 /\ Step(t, call[t].at, call'[t].at)
                 /\ call[t].at \in Connecting /\ call'[t].at \in Connecting
           /\ Connected(t) \/ ConnectFailed(t) =>
                 /\ Step(t, call[t].at, "application")
                 /\ call[t].at \in Connecting
<1>1. ASSUME NEW e \in Envs, NEW d \in Dbcs, AllocConnect(t, e, d)
      PROVE  Step(t, "application", "myodbc_ov_init")
  BY <1>1, GoesSteps DEF AllocConnect, Ready, Idle
<1>2. ASSUME NEW d \in Dbcs, NEW set \in SUBSET Options, Connect(t, d, set)
      PROVE  /\ Step(t, "application", "set_plugin_option")
             /\ call'[t].dbc = d /\ call'[t].next = 1
  BY <1>2, GoesSteps DEF Connect, Ready, Idle
<1>3. ASSUME NEW d \in Dbcs, Reconnect(t, d)
      PROVE  /\ Step(t, "application", "set_plugin_option")
             /\ call'[t].dbc = d /\ call'[t].next = Len(Settings) + 1
  BY <1>3, GoesSteps DEF Reconnect, Ready, Idle
<1>4. ASSUME Look(t) \/ AddPlugin(t) \/ SetOption(t)
      PROVE  /\ Step(t, call[t].at, call'[t].at)
             /\ call[t].at \in Connecting /\ call'[t].at \in Connecting
  BY <1>4, LookGoes, AddPluginGoes, SetOptionGoes
     DEF Step, Look, AddPlugin, SetOption, Connecting
<1>5. ASSUME Connected(t) \/ ConnectFailed(t)
      PROVE  /\ Step(t, call[t].at, "application")
             /\ call[t].at \in Connecting
  BY <1>5, LeaveTree DEF Step, Idle
<1> QED
  BY <1>1, <1>2, <1>3, <1>4, <1>5

LEMMA InitTree == Init => Typed /\ Tree
<1> SUFFICES ASSUME Init PROVE Typed /\ Tree
  OBVIOUS
<1>1. /\ Existing = {} /\ lapses = {}
      /\ \A t \in Threads : call[t] = Idle /\ Idle.at = "application"
  BY DEF Init, Existing, Idle
<1>2. call \in [Threads -> CallT]
  BY SimpleCalls DEF Init
<1>3. \A t \in Threads : call[t].at \in Places
  BY <1>1 DEF Places
<1>4. dbcs \in [Dbcs -> DbcT \cup {None}]
  BY DEF Init
<1>5. pool \in PoolT
  BY DEF Init, PoolT
<1>6. TypeOK
  <2>1. /\ inited \in 0..MaxCount /\ g_lock \in Threads \cup {None}
        /\ library \in {"idle", "up", "over"}
        /\ envs \in [Envs -> Versions \cup {None}]
        /\ thread_count \in [Threads -> 0..MaxCount]
        /\ served \subseteq Threads /\ uneven \in UnevenT
    BY CountAssumption DEF Init, UnevenT
  <2>2. sqlstate \in [Classes -> Versions] /\ ov2 \in BOOLEAN
    BY DEF Init, Versions
  <2>3. loaded \subseteq Plugins /\ option \in [Options -> Dbcs \cup {None}]
    BY DEF Init
  <2> QED
    BY <1>1, <1>3, <1>5, <2>1, <2>2, <2>3 DEF TypeOK, PoolT, UnevenT
<1>7. Tree
  BY <1>1 DEF Tree, OnDbc, Allocating, Connecting
<1> QED
  BY <1>1, <1>2, <1>4, <1>6, <1>7 DEF Typed

(* The variables have their types, of which the counts are bounded only by *)
(* MaxCount, and a call's stage is one the code has (dll.cc, connect.cc).   *)
THEOREM ProcessTypes == Spec => []TypeOK
<1>1. Init => Typed /\ Tree
  BY InitTree
<1>2. Typed /\ Tree /\ [Next]_vars => Typed' /\ Tree'
  BY TypedNext, TreeNext
<1>3. Typed => TypeOK
  BY DEF Typed
<1> QED
  BY <1>1, <1>2, <1>3, PTL DEF Spec

-----------------------------------------------------------------------------
(***************************************************************************)
(* The table of SQLSTATEs                                                  *)
(***************************************************************************)

(* Connections that there are and are being made have one version, the one *)
(* the table is written for; unless it is being written, myodbc_ov2_inited  *)
(* says whether that is version 2.                                         *)
TableOK ==
    Never({"mixed", "halfway"}) =>
        /\ \A v, w \in VersionsUsed : v = w
        /\ \A d \in Existing : /\ sqlstate["S1"] = envs[dbcs[d].env]
                               /\ sqlstate["42"] = envs[dbcs[d].env]
        /\ ~ov2 /\ (\A t \in Threads : call[t].at # "sqlstate_init") =>
               sqlstate["S1"] = 3 /\ sqlstate["42"] = 3

(* The environments of allocations under way have a version.               *)
LEMMA VersionsMean ==
    ASSUME Typed
    PROVE  \A v : v \in VersionsUsed <=>
              \/ \E d \in Existing : v = envs[dbcs[d].env]
              \/ \E t \in Threads : /\ call[t].at \in Allocating
                                    /\ v = envs[call[t].env]
BY DEF VersionsUsed

(* Neither versions nor the table change.                                  *)
TableSame ==
    /\ sqlstate' = sqlstate /\ ov2' = ov2 /\ lapses \subseteq lapses'
    /\ Existing' \subseteq Existing
    /\ \A d \in Existing' : /\ dbcs'[d].env = dbcs[d].env
                            /\ envs'[dbcs[d].env] = envs[dbcs[d].env]
    /\ \A u \in Threads :
          \/ call'[u].at \notin Allocating /\ call[u].at \notin Allocating
          \/ /\ call'[u] = call[u]
             /\ call[u].at \in Allocating =>
                   envs'[call[u].env] = envs[call[u].env]

LEMMA TableSameHolds == ASSUME TableOK, TableSame PROVE TableOK'
<1> SUFFICES ASSUME Never({"mixed", "halfway"})' PROVE TableOK'
  BY DEF TableOK
<1>1. Never({"mixed", "halfway"})
  BY DEF Never, TableSame
<1>2. VersionsUsed' \subseteq VersionsUsed
  BY DEF TableSame, VersionsUsed
<1>3. (\A t \in Threads : call'[t].at # "sqlstate_init") =>
         \A t \in Threads : call[t].at # "sqlstate_init"
  BY DEF TableSame, Allocating
<1> QED
  BY <1>1, <1>2, <1>3 DEF TableOK, TableSame

EnvsKept ==
    /\ \A d \in Existing : envs'[dbcs[d].env] = envs[dbcs[d].env]
    /\ \A u \in Threads :
          call[u].at \in Allocating => envs'[call[u].env] = envs[call[u].env]

DbcsKept ==
    /\ Existing' \subseteq Existing
    /\ \A d \in Existing' : dbcs'[d].env = dbcs[d].env

(* The environments in use keep their version, and the calls in which a    *)
(* connection is made are not touched.                                     *)
LEMMA EnvironmentTable ==
    ASSUME Typed, Tree, TableOK, NEW t \in Threads, Environment(t)
    PROVE  TableOK'
<1>1. sqlstate' = sqlstate /\ ov2' = ov2 /\ dbcs' = dbcs
      /\ lapses \subseteq lapses'
  BY DEF Environment, AllocEnv, SetVersion, Inited, FreeEnv, Decremented,
     LastEnv, ClearPool, LibraryEnd, stateVars, Meets
<1>2. \A u \in Threads :
         \/ call'[u].at \notin Allocating /\ call[u].at \notin Allocating
         \/ call'[u] = call[u]
  BY EnvironmentSteps
     DEF Environment, SetVersion, FreeEnv, Step, Allocating
<1>3. /\ \A d \in Existing : dbcs[d].env \in Envs
      /\ \A u \in Threads : call[u].at \in Allocating => call[u].env \in Envs
  BY TypedParts, CallTyped DEF DbcT, Shape, OnEnv
<1>4. EnvsKept
  <2>1. ASSUME NEW e \in Envs, ~EnvInUse(e),
               \A x \in Envs \ {e} : envs'[x] = envs[x]
        PROVE  EnvsKept
    <3>1. /\ \A d \in Existing : dbcs[d].env # e
          /\ \A u \in Threads : call[u].at \in Allocating => call[u].env # e
      BY <2>1, EnvInUseMeans DEF OnEnv
    <3> QED
      BY <1>3, <2>1, <3>1 DEF EnvsKept
  <2>2. CASE \E e \in Envs : FreeEnv(t, e) \/ \E v \in Versions :
                                                  SetVersion(t, e, v)
    BY <2>1, <2>2, TypedParts DEF FreeEnv, SetVersion
  <2>3. CASE Inited(t)
    <3>1. call[t].env \in Envs /\ envs[call[t].env] = None
      BY <2>3, CallTyped DEF Inited, Tree, Shape, OnEnv
    <3>2. \A x \in Envs \ {call[t].env} : envs'[x] = envs[x]
      BY <2>3, <3>1, TypedParts DEF Inited
    <3>3. /\ \A d \in Existing : envs[dbcs[d].env] # None
          /\ \A u \in Threads :
                call[u].at \in Allocating => envs[call[u].env] # None
      BY DEF Tree
    <3> QED
      BY <1>3, <3>1, <3>2, <3>3 DEF EnvsKept
  <2>4. CASE UNCHANGED envs
    BY <2>4 DEF EnvsKept
  <2> QED
    BY <2>2, <2>3, <2>4
       DEF Environment, AllocEnv, Decremented, LastEnv, ClearPool, LibraryEnd
<1> QED
  BY <1>1, <1>2, <1>4, TableSameHolds DEF TableSame, EnvsKept, Existing

(* No step on a connection there is changes its environment.               *)
LEMMA ConnectionTable ==
    ASSUME Typed, Tree, TableOK, NEW t \in Threads,
           \/ \E e \in Envs : AllocConnectRefused(t, e)
           \/ \E d \in Dbcs : \/ FreeConnect(t, d) \/ Disconnect(t, d)
                              \/ Reconnect(t, d)
                              \/ \E set \in SUBSET Options : Connect(t, d, set)
           \/ Look(t) \/ AddPlugin(t) \/ SetOption(t)
           \/ Connected(t) \/ ConnectFailed(t)
    PROVE  TableOK'
<1>1. sqlstate' = sqlstate /\ ov2' = ov2 /\ envs' = envs
      /\ lapses \subseteq lapses'
  BY DEF AllocConnectRefused, FreeConnect, Disconnect, Reconnect, Connect,
     Look, AddPlugin, SetOption, Connected, ConnectFailed, Leave, stateVars,
     Meets
<1>2. \A u \in Threads :
         \/ call'[u].at \notin Allocating /\ call[u].at \notin Allocating
         \/ call'[u] = call[u]
  BY ConnectionSteps
     DEF AllocConnectRefused, FreeConnect, Disconnect, Step, Allocating,
         Connecting
<1>3. DbcsKept
  <2>1. CASE \/ \E e \in Envs : AllocConnectRefused(t, e)
             \/ \E d \in Dbcs : Reconnect(t, d)
             \/ Look(t) \/ AddPlugin(t) \/ SetOption(t)
    BY <2>1 DEF AllocConnectRefused, Reconnect, Look, AddPlugin, SetOption,
       Existing, DbcsKept
  <2>2. ASSUME NEW d \in Dbcs, FreeConnect(t, d) PROVE DbcsKept
    BY <2>2, TypedParts DEF FreeConnect, Existing, DbcsKept
  <2>3. ASSUME NEW d \in Existing, NEW r, r \in DbcT, r.env = dbcs[d].env,
               dbcs' = [dbcs EXCEPT ![d] = r]
        PROVE  DbcsKept
    BY <2>3, TypedParts DEF Existing, DbcsKept
  <2>4. ASSUME NEW d \in Dbcs, Disconnect(t, d) PROVE DbcsKept
    <3> DEFINE r == [dbcs[d] EXCEPT !.connected = FALSE, !.set = {}]
    <3>1. d \in Existing /\ dbcs[d] \in DbcT
      BY <2>4, TypedParts DEF Disconnect
    <3>2. r \in DbcT /\ r.env = dbcs[d].env
      BY <3>1 DEF DbcT
    <3>3. dbcs' = [dbcs EXCEPT ![d] = r]
      BY <2>4, TypedParts DEF Disconnect
    <3> HIDE DEF r
    <3> QED
      BY <2>3, <3>1, <3>2, <3>3
  <2>5. ASSUME NEW d \in Dbcs, NEW set \in SUBSET Options, Connect(t, d, set)
        PROVE  DbcsKept
    <3> DEFINE r == [dbcs[d] EXCEPT !.set = set]
    <3>1. d \in Existing /\ dbcs[d] \in DbcT
      BY <2>5, TypedParts DEF Connect
    <3>2. r \in DbcT /\ r.env = dbcs[d].env
      BY <3>1 DEF DbcT
    <3>3. dbcs' = [dbcs EXCEPT ![d] = r]
      BY <2>5 DEF Connect
    <3> HIDE DEF r
    <3> QED
      BY <2>3, <3>1, <3>2, <3>3
  <2>6. CASE Connected(t) \/ ConnectFailed(t)
    BY <2>6, LeaveTree DEF TreeSame, DbcsKept
  <2> QED
    BY <2>1, <2>2, <2>4, <2>5, <2>6
<1> QED
  BY <1>1, <1>2, <1>3, TableSameHolds DEF TableSame, DbcsKept

(* A new connection has the version of those there are, unless the versions *)
(* are mixed.                                                              *)
LEMMA AllocConnectTable ==
    ASSUME Typed, Tree, TableOK, NEW t \in Threads, NEW e \in Envs,
           NEW d \in Dbcs, AllocConnect(t, e, d)
    PROVE  TableOK'
<1> SUFFICES ASSUME Never({"mixed", "halfway"})' PROVE TableOK'
  BY DEF TableOK
<1>1. /\ envs' = envs /\ dbcs' = dbcs /\ sqlstate' = sqlstate /\ ov2' = ov2
      /\ lapses' = lapses \cup When(VersionsUsed \ {envs[e]} # {}, "mixed")
  BY DEF AllocConnect, stateVars, Meets
<1>2. Never({"mixed", "halfway"}) /\ VersionsUsed \subseteq {envs[e]}
  BY <1>1 DEF Never, When
<1>3. /\ call[t] = Idle /\ call'[t].at = "myodbc_ov_init"
      /\ call'[t].env = e
      /\ \A u \in Threads \ {t} : call'[u] = call[u]
  BY AllocConnectTree
<1>4. VersionsUsed' \subseteq {envs[e]}
  BY <1>1, <1>2, <1>3 DEF VersionsUsed, Existing
<1>5. call[t].at # "sqlstate_init" /\ call'[t].at # "sqlstate_init"
  BY <1>3 DEF Idle
<1> QED
  BY <1>1, <1>2, <1>3, <1>4, <1>5 DEF TableOK, Existing

(* A connection is there once the table is written for its version.        *)
LEMMA AllocatedTable ==
    ASSUME Typed, Tree, TableOK, NEW t \in Threads,
           call[t].at \in Allocating, Allocated(t),
           UNCHANGED <<envs, g_lock>>, Never({"mixed", "halfway"}),
           NEW ver, ver = envs[call[t].env],
           sqlstate'["S1"] = ver, sqlstate'["42"] = ver, ~ov2' => ver = 3
    PROVE  TableOK'
<1>1. /\ call'[t] = Idle
      /\ \A u \in Threads \ {t} : call'[u] = call[u]
      /\ Existing' = Existing \cup {call[t].dbc}
      /\ \A d \in Existing : dbcs'[d] = dbcs[d]
      /\ dbcs'[call[t].dbc].env = call[t].env
  BY AllocatedTree
<1>2. \A v \in VersionsUsed : v = ver
  BY DEF TableOK, VersionsUsed
<1>3. \A d \in Existing : envs[dbcs[d].env] = ver
  BY <1>2 DEF VersionsUsed
<1>4. \A u \in Threads : call'[u].at \in Allocating =>
         u # t /\ envs[call[u].env] = ver
  <2>1. Idle.at \notin Allocating
    BY DEF Idle, Allocating
  <2> QED
    BY <1>1, <1>2, <2>1 DEF VersionsUsed
<1>5. \A v \in VersionsUsed' : v = ver
  BY <1>1, <1>3, <1>4 DEF VersionsUsed
<1> QED
  BY <1>1, <1>3, <1>5 DEF TableOK

LEMMA OvInitTable ==
    ASSUME Typed, Tree, TableOK, NEW t \in Threads, OvInit(t)
    PROVE  TableOK'
<1> SUFFICES ASSUME Never({"mixed", "halfway"})' PROVE TableOK'
  BY DEF TableOK
<1> DEFINE ver == envs[call[t].env]
<1>1. /\ call[t].at = "myodbc_ov_init" /\ call[t].at \in Allocating
      /\ envs' = envs /\ g_lock' = g_lock /\ sqlstate' = sqlstate
      /\ lapses \subseteq lapses'
  BY DEF OvInit, Allocating, libVars, Meets
<1>2. Never({"mixed", "halfway"})
  BY <1>1 DEF Never
<1>3. CASE /\ ver = 3 /\ ~ov2 /\ Allocated(t) /\ ov2' = ov2
           /\ Meets(When(Others(t, {"sqlstate_init"}) # {}, "halfway"))
  <2>1. Others(t, {"sqlstate_init"}) = {}
    BY <1>3 DEF Meets, When, Never
  <2>2. \A u \in Threads : call[u].at # "sqlstate_init"
    BY <1>1, <2>1 DEF Others
  <2>3. sqlstate["S1"] = 3 /\ sqlstate["42"] = 3
    BY <1>2, <1>3, <2>2 DEF TableOK
  <2> QED
    BY <1>1, <1>2, <1>3, <2>3, AllocatedTable
<1>4. CASE /\ Goes(t, [call[t] EXCEPT !.at = "sqlstate_init"])
           /\ dbcs' = dbcs
  <2> DEFINE c == [call[t] EXCEPT !.at = "sqlstate_init"]
  <2>1. c.at = "sqlstate_init" /\ c.env = call[t].env
    <3>1. call[t] = [at |-> call[t].at, env |-> call[t].env,
                     dbc |-> call[t].dbc]
      BY <1>1, AllocCall DEF Typed
    <3> QED
      BY <3>1
  <2>2. Goes(t, c)
    BY <1>4
  <2> HIDE DEF c
  <2>3. call'[t] = c /\ \A u \in Threads \ {t} : call'[u] = call[u]
    BY <2>2, Moves
  <2>4. VersionsUsed' \subseteq VersionsUsed
    BY <1>1, <1>4, <2>1, <2>3 DEF VersionsUsed, Existing
  <2> QED
    BY <1>1, <1>2, <1>4, <2>1, <2>3, <2>4 DEF TableOK, Existing
<1> QED
  BY <1>3, <1>4 DEF OvInit

LEMMA SqlstateInitTable ==
    ASSUME Typed, Tree, TableOK, NEW t \in Threads, SqlstateInit(t)
    PROVE  TableOK'
<1> SUFFICES ASSUME Never({"mixed", "halfway"})' PROVE TableOK'
  BY DEF TableOK
<1> DEFINE ver == envs[call[t].env]
<1>1. /\ call[t].at = "sqlstate_init" /\ call[t].at \in Allocating
      /\ envs' = envs /\ g_lock' = g_lock /\ lapses' = lapses
      /\ Never({"mixed", "halfway"})
  BY DEF SqlstateInit, Allocating, libVars, Never
<1>2. ver \in Versions
  <2>1. call[t].env \in Envs /\ envs[call[t].env] # None
    BY <1>1, CallTyped DEF Tree, Shape, OnEnv
  <2> QED
    BY <2>1, TypedParts
<1>3. \A d \in Existing : envs[dbcs[d].env] = ver
  BY <1>1 DEF TableOK, VersionsUsed
<1>4. CASE /\ sqlstate["S1"] # ver
           /\ sqlstate' = [sqlstate EXCEPT !["S1"] = ver]
           /\ UNCHANGED <<ov2, dbcs, call>>
  <2>1. Existing = {}
    BY <1>1, <1>3, <1>4 DEF TableOK
  <2>2. VersionsUsed' = VersionsUsed /\ Existing' = {}
    BY <1>1, <1>4, <2>1 DEF VersionsUsed, Existing
  <2>3. \A v, w \in VersionsUsed' : v = w
    BY <1>1, <2>2 DEF TableOK
  <2>4. call'[t].at = "sqlstate_init"
    BY <1>1, <1>4
  <2> QED
    BY <2>2, <2>3, <2>4 DEF TableOK
<1>5. CASE /\ sqlstate' = [c \in Classes |->
                              IF c \in Written(ver) THEN ver ELSE sqlstate[c]]
           /\ ov2' = (ov2 \/ ver = 2)
           /\ Allocated(t)
  <2>1. sqlstate'["S1"] = ver /\ sqlstate'["42"] = ver
    BY <1>5 DEF Written, Classes
  <2>2. ~ov2' => ver = 3
    BY <1>2, <1>5 DEF Versions
  <2> QED
    BY <1>1, <1>5, <2>1, <2>2, AllocatedTable
<1> QED
  BY <1>4, <1>5 DEF SqlstateInit

LEMMA TableNext ==
    ASSUME Typed, Tree, TableOK, [Next]_vars PROVE TableOK'
<1>1. ASSUME NEW t \in Threads, Environment(t) PROVE TableOK'
  BY <1>1, EnvironmentTable
<1>2. ASSUME NEW t \in Threads, Connection(t) PROVE TableOK'
  BY <1>2, AllocConnectTable, OvInitTable, SqlstateInitTable, ConnectionTable
     DEF Connection
<1>3. CASE UNCHANGED vars
  BY <1>3 DEF vars, TableOK, Never, VersionsUsed, Existing
<1> QED
  BY <1>1, <1>2, <1>3 DEF Next

(* An error on a connection has the SQLSTATE of its environment's version   *)
(* (error.cc:139), for any number of connections being made at once: the    *)
(* first that needs the table written for version 2 does so before it is    *)
(* there, and so does the first that needs it written back.                *)
THEOREM ProcessStates == Spec => []StatesOfVersion
<1>1. Init => Typed /\ Tree /\ TableOK
  <2>1. Init => TableOK
    BY DEF Init, TableOK, VersionsUsed, Existing, Idle, Allocating, Classes
  <2> QED
    BY <2>1, InitTree
<1>2. Typed /\ Tree /\ TableOK /\ [Next]_vars => Typed' /\ Tree' /\ TableOK'
  BY TypedNext, TreeNext, TableNext
<1>3. TableOK => StatesOfVersion
  BY DEF TableOK, StatesOfVersion
<1> QED
  BY <1>1, <1>2, <1>3, PTL DEF Spec

-----------------------------------------------------------------------------
(***************************************************************************)
(* The count of environments                                               *)
(***************************************************************************)

Present  == {e \in Envs : envs[e] # None}
Counting == {"myodbc_init"} \cup Ending

(* One thread at a time starts or ends an environment.                     *)
OneCounts ==
    \A t, u \in Threads :
        call[t].at \in Counting /\ call[u].at \in Counting => t = u

(* The environments there are and the one that is going are counted, and   *)
(* the library is ended when there are none.                               *)
CountOK ==
    Never({"raced"}) =>
        /\ OneCounts
        /\ inited = Cardinality(Present) +
                       IF \E t \in Threads : call[t].at = "myodbc_end"
                       THEN 1 ELSE 0
        /\ \A t \in Threads :
              /\ call[t].at \in {"myodbc_init", "myodbc_end"} =>
                    call[t].seen = inited
              /\ call[t].at \in {"clear_plugin_pool", "mysql_library_end"} =>
                    Present = {}

CountSame ==
    /\ inited' = inited /\ envs' = envs /\ lapses \subseteq lapses'
    /\ \A u \in Threads :
          \/ call'[u] = call[u]
          \/ call'[u].at \notin Counting /\ call[u].at \notin Counting

LEMMA CountSameHolds == ASSUME CountOK, CountSame PROVE CountOK'
<1> SUFFICES ASSUME Never({"raced"})' PROVE CountOK'
  BY DEF CountOK
<1>1. Never({"raced"}) /\ Present' = Present
  BY DEF Never, CountSame, Present
<1>2. OneCounts'
  BY <1>1 DEF CountOK, OneCounts, CountSame
<1>3. /\ \A t \in Threads :
            call'[t].at \in {"myodbc_init", "myodbc_end", "clear_plugin_pool",
                             "mysql_library_end"} => call'[t] = call[t]
      /\ (\E t \in Threads : call'[t].at = "myodbc_end") <=>
             \E t \in Threads : call[t].at = "myodbc_end"
  BY DEF CountSame, Counting, Ending
<1> QED
  BY <1>1, <1>2, <1>3 DEF CountOK, CountSame

LEMMA PresentSize ==
    /\ IsFiniteSet(Present) /\ Cardinality(Present) \in Nat
    /\ Cardinality(Present) = 0 <=> Present = {}
<1>1. IsFiniteSet(Present)
  BY HandlesAssumption, FS_Subset DEF Present
<1> QED
  BY <1>1, FS_CardinalityType, FS_EmptySet

(* With the count of environments the thread goes on.                      *)
LEMMA AllocEnvCount ==
    ASSUME Typed, Tree, CountOK, NEW t \in Threads, NEW e \in Envs,
           AllocEnv(t, e)
    PROVE  CountOK'
<1> SUFFICES ASSUME Never({"raced"})' PROVE CountOK'
  BY DEF CountOK
<1>1. /\ Step(t, "application", "myodbc_init") /\ call'[t].seen = inited
      /\ envs' = envs /\ inited' = inited /\ g_lock = None
      /\ lapses' = lapses \cup When(Others(t, Ending) # {}, "raced")
  BY EnvironmentSteps DEF AllocEnv, Meets
<1>2. Never({"raced"}) /\ Others(t, Ending) = {} /\ Present' = Present
  BY <1>1 DEF Never, When, Present
<1>3. \A u \in Threads : call[u].at \notin Counting
  <2>1. \A u \in Threads : call[u].at # "myodbc_init"
    BY <1>1, NoneAssumption DEF Tree
  <2> QED
    BY <1>1, <1>2, <2>1 DEF Others, Counting, Ending, Step
<1>4. \A u \in Threads : call'[u].at \in Counting => u = t
  BY <1>1, <1>3 DEF Step
<1>5. /\ ~\E u \in Threads : call'[u].at = "myodbc_end"
      /\ ~\E u \in Threads : call[u].at = "myodbc_end"
  BY <1>1, <1>3, <1>4 DEF Step, Counting, Ending
<1>6. \A u \in Threads : call'[u].at \in {"myodbc_init", "myodbc_end",
                            "clear_plugin_pool", "mysql_library_end"} => u = t
  BY <1>4 DEF Counting, Ending
<1> QED
  BY <1>1, <1>2, <1>4, <1>5, <1>6 DEF CountOK, OneCounts, Step

LEMMA InitedCount ==
    ASSUME Typed, Tree, CountOK, NEW t \in Threads, Inited(t) PROVE CountOK'
<1> SUFFICES ASSUME Never({"raced"})' PROVE CountOK'
  BY DEF CountOK
<1>1. /\ Step(t, "myodbc_init", "application")
      /\ inited' = call[t].seen + 1 /\ lapses' = lapses
      /\ envs' = [envs EXCEPT ![call[t].env] = 3]
  BY EnvironmentSteps DEF Inited
<1>2. Never({"raced"})
  BY <1>1 DEF Never
<1>3. /\ \A u \in Threads : call[u].at \in Counting => u = t
      /\ call[t].seen = inited
  BY <1>1, <1>2 DEF CountOK, OneCounts, Step, Counting
<1>4. \A u \in Threads : call'[u].at \notin Counting
  BY <1>1, <1>3 DEF Step, Counting, Ending
<1>5. /\ ~\E u \in Threads : call'[u].at = "myodbc_end"
      /\ ~\E u \in Threads : call[u].at = "myodbc_end"
  BY <1>1, <1>3, <1>4 DEF Step, Counting, Ending
<1>6. /\ call[t].env \in Envs /\ envs[call[t].env] = None
  BY <1>1, CallTyped DEF Step, Tree, Shape, OnEnv
<1>7. Present' = Present \cup {call[t].env} /\ call[t].env \notin Present
  BY <1>1, <1>6, TypedParts, NoneAssumption DEF Present, Versions
<1>8. Cardinality(Present') = Cardinality(Present) + 1
  BY <1>7, PresentSize, FS_AddElement
<1>9. inited' = Cardinality(Present')
  BY <1>1, <1>2, <1>3, <1>5, <1>8, PresentSize DEF CountOK
<1>10. \A u \in Threads : call'[u].at \notin {"myodbc_init", "myodbc_end",
                             "clear_plugin_pool", "mysql_library_end"}
  BY <1>4 DEF Counting, Ending
<1>11. Cardinality(Present)' = Cardinality(Present')
  OBVIOUS
<1>12. inited' \in Nat
  BY <1>8, <1>9, PresentSize
<1> QED
  BY <1>4, <1>5, <1>9, <1>10, <1>11, <1>12 DEF CountOK, OneCounts

LEMMA FreeEnvCount ==
    ASSUME Typed, Tree, CountOK, NEW t \in Threads, NEW e \in Envs,
           FreeEnv(t, e)
    PROVE  CountOK'
<1> SUFFICES ASSUME Never({"raced"})' PROVE CountOK'
  BY DEF CountOK
<1>1. /\ inited' = inited /\ envs[e] # None
      /\ envs' = [envs EXCEPT ![e] = None] /\ call[t].at = "application"
      /\ lapses' = lapses \cup
                     When(Others(t, Ending \cup {"myodbc_init"}) # {}, "raced")
  BY DEF FreeEnv, Meets, libVars, Ready, Idle
<1>2. Never({"raced"}) /\ Others(t, Ending \cup {"myodbc_init"}) = {}
  BY <1>1 DEF Never, When
<1>3. \A u \in Threads : call[u].at \notin Counting
  BY <1>1, <1>2 DEF Others, Counting, Ending
<1>4. Present' = Present \ {e} /\ e \in Present
  BY <1>1, TypedParts DEF Present
<1>5. /\ Cardinality(Present') = Cardinality(Present) - 1
      /\ Cardinality(Present) # 0
  BY <1>4, PresentSize, FS_RemoveElement
<1>6. ~\E u \in Threads : call[u].at = "myodbc_end"
  BY <1>3 DEF Counting, Ending
<1>7. inited = Cardinality(Present)
  BY <1>2, <1>6, PresentSize DEF CountOK
<1>8. Step(t, "application", "myodbc_end") /\ call'[t].seen = inited
  BY <1>5, <1>7, EnvironmentSteps
<1>9. \A u \in Threads : call'[u].at \in Counting => u = t
  BY <1>3, <1>8 DEF Step
<1>10. \A u \in Threads : call'[u].at \in {"myodbc_init", "myodbc_end",
                             "clear_plugin_pool", "mysql_library_end"} => u = t
  BY <1>9 DEF Counting, Ending
<1>11. Cardinality(Present)' = Cardinality(Present')
  OBVIOUS
<1>12. inited' = Cardinality(Present)' + 1
  BY <1>1, <1>5, <1>7, <1>11, PresentSize
<1> QED
  BY <1>1, <1>8, <1>9, <1>10, <1>12 DEF CountOK, OneCounts, Step

LEMMA EndCount ==
    ASSUME Typed, Tree, CountOK, NEW t \in Threads,
           Decremented(t) \/ LastEnv(t) \/ ClearPool(t) \/ LibraryEnd(t)
    PROVE  CountOK'
<1> SUFFICES ASSUME Never({"raced"})' PROVE CountOK'
  BY DEF CountOK
<1>1. envs' = envs /\ lapses' = lapses
  BY DEF Decremented, LastEnv, ClearPool, LibraryEnd
<1>2. Never({"raced"}) /\ Present' = Present
  BY <1>1 DEF Never, Present
<1>3. PICK to : /\ Step(t, call[t].at, to)
                /\ \/ /\ Decremented(t) /\ call[t].at = "myodbc_end"
                      /\ to = "myodbc_inited"
                   \/ /\ LastEnv(t) /\ call[t].at = "myodbc_inited"
                      /\ to = IF inited = 0 THEN "clear_plugin_pool"
                              ELSE "application"
                   \/ /\ ClearPool(t) /\ call[t].at = "clear_plugin_pool"
                      /\ to = "mysql_library_end"
                   \/ /\ LibraryEnd(t) /\ call[t].at = "mysql_library_end"
                      /\ to = "application"
  BY EnvironmentSteps DEF Step
<1>4. \A u \in Threads : call[u].at \in Counting => u = t
  BY <1>2, <1>3 DEF CountOK, OneCounts, Counting, Ending
<1>5. \A u \in Threads : call'[u].at \in Counting => u = t
  BY <1>3, <1>4 DEF Step
<1>6. call'[t].at = to /\ to # "myodbc_end" /\ to # "myodbc_init"
  BY <1>3 DEF Step
<1>7. ~\E u \in Threads : call'[u].at = "myodbc_end"
  BY <1>5, <1>6 DEF Counting, Ending
<1>8. (\E u \in Threads : call[u].at = "myodbc_end") <=> Decremented(t)
  <2>1. call[t].at = "myodbc_end" <=> Decremented(t)
    BY <1>3 DEF Decremented
  <2> QED
    BY <1>4, <2>1 DEF Counting, Ending
<1>9. inited' = Cardinality(Present)
  <2>1. CASE Decremented(t)
    <3>1. inited' = call[t].seen - 1 /\ call[t].at = "myodbc_end"
      BY <2>1 DEF Decremented
    <3>2. call[t].seen = inited
      BY <1>2, <3>1 DEF CountOK
    <3>3. inited = Cardinality(Present) + 1
      BY <1>2, <1>8, <2>1 DEF CountOK
    <3> QED
      BY <3>1, <3>2, <3>3, PresentSize
  <2>2. CASE ~Decremented(t)
    <3>1. inited' = inited
      BY <1>3, <2>2 DEF LastEnv, ClearPool, LibraryEnd, libVars
    <3>2. inited = Cardinality(Present) + 0
      BY <1>2, <1>8, <2>2 DEF CountOK
    <3> QED
      BY <3>1, <3>2, PresentSize
  <2> QED
    BY <2>1, <2>2
<1>10. to \in {"clear_plugin_pool", "mysql_library_end"} => Present = {}
  <2>1. CASE LastEnv(t)
    <3>1. inited' = inited
      BY <2>1 DEF LastEnv, libVars
    <3>2. call[t].at = "myodbc_inited"
      BY <2>1 DEF LastEnv
    <3> QED
      BY <1>3, <1>9, <3>1, <3>2, PresentSize
  <2>2. CASE ~LastEnv(t)
    BY <1>2, <1>3, <2>2 DEF CountOK
  <2> QED
    BY <2>1, <2>2
<1>11. Cardinality(Present)' = Cardinality(Present)
  BY <1>2
<1>12. inited' = Cardinality(Present)' + 0
  BY <1>9, <1>11, PresentSize
<1>13. \A u \in Threads : call'[u].at \in {"myodbc_init", "myodbc_end",
                             "clear_plugin_pool", "mysql_library_end"} => u = t
  BY <1>5 DEF Counting, Ending
<1> QED
  BY <1>2, <1>5, <1>6, <1>7, <1>10, <1>12, <1>13 DEF CountOK, OneCounts

(* Connections are not counted there.                                      *)
LEMMA StatesSteps ==
    ASSUME Typed, NEW t \in Threads, OvInit(t) \/ SqlstateInit(t)
    PROVE  /\ Step(t, call[t].at, call'[t].at) /\ call[t].at \in Allocating
           /\ call'[t].at \in Allocating \cup {"application"}
<1>1. call[t].at \in Allocating
  BY DEF OvInit, SqlstateInit, Allocating
<1>2. CASE Allocated(t)
  BY <1>1, <1>2, GoesSteps DEF Allocated, Returns, Idle, Step
<1>3. CASE call' = call
  BY <1>1, <1>3 DEF Step
<1>4. CASE Goes(t, [call[t] EXCEPT !.at = "sqlstate_init"])
  <2> DEFINE c == [call[t] EXCEPT !.at = "sqlstate_init"]
  <2>1. c.at = "sqlstate_init"
    <3>1. call[t] = [at |-> call[t].at, env |-> call[t].env,
                     dbc |-> call[t].dbc]
      BY <1>1, AllocCall DEF Typed
    <3> QED
      BY <3>1
  <2>2. Goes(t, c)
    BY <1>4
  <2> HIDE DEF c
  <2> QED
    BY <1>1, <2>1, <2>2, GoesSteps DEF Step, Allocating
<1> QED
  BY <1>2, <1>3, <1>4 DEF OvInit, SqlstateInit

LEMMA ConnectionCount ==
    ASSUME Typed, Tree, NEW t \in Threads, Connection(t) PROVE CountSame
<1>1. inited' = inited /\ envs' = envs /\ lapses \subseteq lapses'
  BY DEF Connection, AllocConnect, AllocConnectRefused, OvInit, SqlstateInit,
     FreeConnect, Disconnect, Reconnect, Connect, Look, AddPlugin, SetOption,
     Connected, ConnectFailed, Leave, libVars, Meets
<1>2. CASE call' = call
  BY <1>1, <1>2 DEF CountSame
<1>3. CASE /\ Step(t, call[t].at, call'[t].at)
           /\ call[t].at \in Allocating \cup Connecting \cup {"application"}
           /\ call'[t].at \in Allocating \cup Connecting \cup {"application"}
  BY <1>1, <1>3 DEF CountSame, Step, Counting, Ending, Allocating, Connecting
<1>4. \/ call' = call
      \/ /\ Step(t, call[t].at, call'[t].at)
         /\ call[t].at \in Allocating \cup Connecting \cup {"application"}
         /\ call'[t].at \in Allocating \cup Connecting \cup {"application"}
  BY ConnectionSteps, StatesSteps
     DEF Connection, AllocConnectRefused, FreeConnect, Disconnect, Step,
         Allocating, Connecting
<1> QED
  BY <1>2, <1>3, <1>4

LEMMA InitCount == Init => CountOK
<1>1. Init => /\ Present = {} /\ inited = 0
              /\ \A t \in Threads : call[t].at = "application"
  BY DEF Init, Present, Idle
<1>2. Init => inited = Cardinality(Present) + 0
  BY <1>1, PresentSize
<1> QED
  BY <1>1, <1>2 DEF CountOK, OneCounts, Counting, Ending

LEMMA CountNext ==
    ASSUME Typed, Tree, CountOK, [Next]_vars PROVE CountOK'
<1>1. ASSUME NEW t \in Threads, Environment(t) PROVE CountOK'
  <2>1. ASSUME NEW e \in Envs, NEW v \in Versions, SetVersion(t, e, v)
        PROVE  CountOK'
    <3>1. /\ inited' = inited /\ call' = call /\ lapses' = lapses
          /\ envs' = [envs EXCEPT ![e] = v] /\ envs[e] # None
      BY <2>1 DEF SetVersion, libVars
    <3>2. Present' = Present
      BY <3>1, TypedParts, NoneAssumption DEF Present
    <3> QED
      BY <3>1, <3>2 DEF CountOK, OneCounts, Never
  <2> QED
    BY <1>1, <2>1, AllocEnvCount, InitedCount, FreeEnvCount, EndCount
       DEF Environment
<1>2. ASSUME NEW t \in Threads, Connection(t) PROVE CountOK'
  BY <1>2, ConnectionCount, CountSameHolds
<1>3. CASE UNCHANGED vars
  BY <1>3 DEF vars, CountOK, OneCounts, Never, Present
<1> QED
  BY <1>1, <1>2, <1>3 DEF Next

-----------------------------------------------------------------------------
(***************************************************************************)
(* The client library and its plugins                                      *)
(***************************************************************************)

(* The library is up under connections, and ended after the last           *)
(* environment; the pool has no plugin that is not loaded, and none once it *)
(* is cleared.                                                             *)
LibraryOK ==
    Never({"raced"}) =>
        /\ \A d \in Existing : dbcs[d].connected => library = "up"
        /\ \A t \in Threads : call[t].at \in Connecting => library = "up"
        /\ Present = {} /\ (\A t \in Threads : call[t].at \notin Ending) =>
               library # "up"

PluginsOK ==
    Never({"raced"}) =>
        /\ pool.plugins \subseteq loaded
        /\ \A t \in Threads :
              /\ call[t].at = "set_option" =>
                    Settings[call[t].next].plugin \in pool.plugins
              /\ call[t].at = "mysql_library_end" => pool.plugins = {}

(* Without environments there are no connections.                          *)
LEMMA NoneLeft ==
    ASSUME Typed, Tree, Present = {}
    PROVE  /\ Existing = {}
           /\ \A t \in Threads : call[t].at \notin Connecting
           /\ \A t \in Threads : call[t].at \notin Allocating
<1>1. \A d \in Existing : dbcs[d].env \in Present
  BY TypedParts DEF Tree, Present, DbcT
<1>2. \A t \in Threads :
         call[t].at \in Allocating => call[t].env \in Present
  BY CallTyped DEF Tree, Present, Shape, OnEnv
<1> QED
  BY <1>1, <1>2 DEF Tree

LEMMA EnvironmentLibrary ==
    ASSUME Typed, Tree, CountOK, LibraryOK, Tree', NEW t \in Threads,
           Environment(t)
    PROVE  LibraryOK'
<1> SUFFICES ASSUME Never({"raced"})' PROVE LibraryOK'
  BY DEF LibraryOK
<1>1. Never({"raced"}) /\ dbcs' = dbcs
  BY DEF Environment, AllocEnv, SetVersion, Inited, FreeEnv, Decremented,
     LastEnv, ClearPool, LibraryEnd, Meets, Never
<1>2. \A u \in Threads : call'[u].at \in Connecting => call'[u] = call[u]
  BY EnvironmentSteps
     DEF Environment, SetVersion, FreeEnv, Step, Connecting
<1>3. CASE LibraryEnd(t)
  <2>1. library' = "over" /\ call[t].at = "mysql_library_end"
    BY <1>3 DEF LibraryEnd
  <2>2. Present = {}
    BY <1>1, <2>1 DEF CountOK
  <2> QED
    BY <1>1, <1>2, <2>1, <2>2, NoneLeft DEF LibraryOK, Existing
<1>4. CASE ~LibraryEnd(t)
  <2>1. library' = library
    BY <1>4 DEF Environment, AllocEnv, SetVersion, Inited, FreeEnv,
       Decremented, LastEnv, ClearPool, libVars
  <2>2. (Present = {} /\ \A u \in Threads : call[u].at \notin Ending)'
          => Present = {} /\ \A u \in Threads : call[u].at \notin Ending
    <3> SUFFICES ASSUME Present' = {},
                        \A u \in Threads : call'[u].at \notin Ending
                 PROVE  /\ Present = {}
                        /\ \A u \in Threads : call[u].at \notin Ending
      OBVIOUS
    <3>1. \A e \in Envs : ~FreeEnv(t, e)
      <4> SUFFICES ASSUME NEW e \in Envs, FreeEnv(t, e) PROVE FALSE
        OBVIOUS
      <4>1. /\ call[t].at = "application" /\ envs[e] # None
            /\ lapses' = lapses \cup
                  When(Others(t, Ending \cup {"myodbc_init"}) # {}, "raced")
        BY DEF FreeEnv, Ready, Idle, Meets
      <4>2. Others(t, Ending \cup {"myodbc_init"}) = {}
        BY <4>1 DEF Never, When
      <4>3. ~\E u \in Threads : call[u].at = "myodbc_end"
        BY <4>1, <4>2 DEF Others, Ending
      <4>4. inited = Cardinality(Present) + 0
        BY <1>1, <4>3 DEF CountOK
      <4>5. inited # 0
        BY <4>1, <4>4, PresentSize DEF Present
      <4>6. call'[t].at = "myodbc_end"
        BY <4>5, EnvironmentSteps DEF Step
      <4> QED
        BY <4>6 DEF Ending
    <3>2. ~ClearPool(t) /\ ~Decremented(t)
      BY EnvironmentSteps DEF Step, Ending
    <3>3. CASE LastEnv(t)
      <4>1. envs' = envs /\ call[t].at = "myodbc_inited"
        BY <3>3 DEF LastEnv
      <4>2. Present = {} /\ call[t].at \in Counting
        BY <4>1 DEF Present, Counting, Ending
      <4>3. ~\E u \in Threads : call[u].at = "myodbc_end"
        BY <1>1, <4>1, <4>2 DEF CountOK, OneCounts, Counting, Ending
      <4>4. inited = Cardinality(Present) + 0
        BY <1>1, <4>3 DEF CountOK
      <4>5. inited = 0
        BY <4>2, <4>4, PresentSize
      <4>6. call'[t].at = "clear_plugin_pool"
        BY <3>3, <4>5, EnvironmentSteps DEF Step
      <4> QED
        BY <4>6 DEF Ending
    <3>4. ~Inited(t)
      <4>1. ASSUME Inited(t) PROVE FALSE
        <5>1. call[t].env \in Envs
              /\ envs' = [envs EXCEPT ![call[t].env] = 3]
          BY <4>1, CallTyped DEF Inited, Shape, OnEnv
        <5>2. call[t].env \in Present'
          BY <5>1, TypedParts, NoneAssumption DEF Present, Versions
        <5> QED
          BY <5>2
      <4> QED
        BY <4>1
    <3>5. ASSUME NEW e \in Envs, AllocEnv(t, e)
          PROVE  /\ Present = {}
                 /\ \A u \in Threads : call[u].at \notin Ending
      BY <3>5, EnvironmentSteps DEF AllocEnv, Step, Present, Ending
    <3>6. ASSUME NEW e \in Envs, NEW v \in Versions, SetVersion(t, e, v)
          PROVE  FALSE
      <4>1. envs' = [envs EXCEPT ![e] = v]
        BY <3>6 DEF SetVersion
      <4>2. e \in Present'
        BY <4>1, TypedParts, NoneAssumption DEF Present
      <4> QED
        BY <4>2
    <3> QED
      BY <1>4, <3>1, <3>2, <3>3, <3>4, <3>5, <3>6 DEF Environment
  <2> QED
    BY <1>1, <1>2, <2>1, <2>2 DEF LibraryOK, Existing
<1> QED
  BY <1>3, <1>4

(* What a connect finds in the pool.                                       *)
LEMMA LookSets ==
    ASSUME Typed, NEW t \in Threads, Look(t)
    PROVE  /\ call'[t].at = "set_option" =>
                 HasPlugin(Settings[call[t].next])
           /\ call'[t].at = "add_plugin" =>
                 ~HasPlugin(Settings[call[t].next])
           /\ call'[t].at = "set_plugin_option" =>
                 /\ Settings[call[t].next].option
                       \notin dbcs[call[t].dbc].set
                 /\ ~Settings[call[t].next].always
                       \/ ~HasPlugin(Settings[call[t].next])
<1>1. PICK c \in CallT : c = call[t]
  BY DEF Typed
<1>2. c.at = "set_plugin_option" /\ c.next \in 1..Len(Settings)
  BY <1>1, SettingsType DEF Look
<1> DEFINE s == Settings[c.next]
<1>3. /\ [c EXCEPT !.at = "set_option"].at = "set_option"
      /\ [c EXCEPT !.at = "add_plugin"].at = "add_plugin"
      /\ [c EXCEPT !.next = c.next + 1].at = "set_plugin_option"
  BY <1>2, OptionCalls, NextOption
<1>4. CASE s.option \in dbcs[c.dbc].set \/ (s.always /\ HasPlugin(s))
  <2>1. Goes(t, [c EXCEPT !.at = IF HasPlugin(s) THEN "set_option"
                                 ELSE "add_plugin"])
    BY <1>1, <1>4 DEF Look
  <2> QED
    BY <1>1, <1>3, <2>1, Moves
<1>5. CASE ~(s.option \in dbcs[c.dbc].set \/ (s.always /\ HasPlugin(s)))
  <2>1. Goes(t, [c EXCEPT !.next = c.next + 1])
    BY <1>1, <1>5 DEF Look
  <2> QED
    BY <1>1, <1>3, <1>5, <2>1, Moves
<1> QED
  BY <1>4, <1>5

(* A connect starts the library, and needs an environment.                 *)
LEMMA ConnectionLibrary ==
    ASSUME Typed, Tree, LibraryOK, Tree', NEW t \in Threads, Connection(t)
    PROVE  LibraryOK'
<1> SUFFICES ASSUME Never({"raced"})' PROVE LibraryOK'
  BY DEF LibraryOK
<1>1. CountSame
  BY ConnectionCount
<1>2. Never({"raced"}) /\ Present' = Present
  BY <1>1 DEF CountSame, Never, Present
<1>3. (\A u \in Threads : call'[u].at \notin Ending) =>
         \A u \in Threads : call[u].at \notin Ending
  BY <1>1 DEF CountSame, Counting
<1>4. CASE \E d \in Dbcs, set \in SUBSET Options : Connect(t, d, set)
  <2>1. library' = "up" /\ Existing # {}
    BY <1>4 DEF Connect
  <2>2. Present # {}
    BY <2>1, NoneLeft
  <2> QED
    BY <1>2, <2>1, <2>2 DEF LibraryOK
<1>5. CASE ~\E d \in Dbcs, set \in SUBSET Options : Connect(t, d, set)
  <2>1. library' = library
    BY <1>5 DEF Connection, AllocConnect, AllocConnectRefused, OvInit,
       SqlstateInit, FreeConnect, Disconnect, Reconnect, Look, AddPlugin,
       SetOption, Connected, ConnectFailed, Leave, libVars
  <2>2. \A u \in Threads : call'[u].at \in Connecting => library = "up"
    <3> SUFFICES ASSUME NEW u \in Threads, call'[u].at \in Connecting
                 PROVE  library = "up"
      OBVIOUS
    <3>1. CASE \E d \in Dbcs : Reconnect(t, d)
      <4>1. PICK d \in Existing : dbcs[d].connected
        BY <3>1 DEF Reconnect
      <4> QED
        BY <1>2, <4>1 DEF LibraryOK
    <3>2. CASE Look(t) \/ AddPlugin(t) \/ SetOption(t)
      BY <1>2, <3>2, ConnectionSteps DEF LibraryOK, Step
    <3>3. call[u].at \in Connecting \/ \E d \in Dbcs : Reconnect(t, d)
      BY <1>5, ConnectionSteps, StatesSteps
         DEF Connection, AllocConnectRefused, FreeConnect, Disconnect, Step,
             Allocating, Connecting
    <3> QED
      BY <1>2, <3>1, <3>3 DEF LibraryOK
  <2>3. ASSUME NEW d \in Existing', dbcs'[d].connected
        PROVE  library = "up"
    <3>1. CASE Connected(t) \/ ConnectFailed(t)
      BY <1>2, <3>1, LeaveTree DEF LibraryOK
    <3>2. CASE OvInit(t) \/ SqlstateInit(t)
      <4>1. CASE Allocated(t)
        <5>1. UNCHANGED <<envs, g_lock>>
          BY <3>2 DEF OvInit, SqlstateInit, libVars
        <5>2. call[t].at \in Allocating
          BY <3>2, StatesSteps
        <5>3. /\ Existing' = Existing \cup {call[t].dbc}
              /\ \A x \in Existing : dbcs'[x] = dbcs[x]
              /\ dbcs'[call[t].dbc].connected = FALSE
          BY <4>1, <5>1, <5>2, AllocatedTree
        <5>4. d \in Existing /\ dbcs[d].connected
          BY <2>3, <5>3
        <5> QED
          BY <1>2, <5>4 DEF LibraryOK
      <4>2. CASE dbcs' = dbcs
        BY <1>2, <2>3, <4>2 DEF LibraryOK, Existing
      <4> QED
        BY <3>2, <4>1, <4>2 DEF OvInit, SqlstateInit
    <3>3. ASSUME NEW x \in Dbcs, FreeConnect(t, x) PROVE library = "up"
      BY <1>2, <2>3, <3>3, TypedParts DEF FreeConnect, LibraryOK, Existing
    <3>4. ASSUME NEW x \in Dbcs, Disconnect(t, x) PROVE library = "up"
      <4> DEFINE r == [dbcs[x] EXCEPT !.connected = FALSE, !.set = {}]
      <4>1. dbcs[x] \in DbcT /\ x \in Existing
        BY <3>4, TypedParts DEF Disconnect
      <4>2. ~r.connected
        BY <4>1 DEF DbcT
      <4>3. dbcs' = [dbcs EXCEPT ![x] = r]
        BY <3>4, TypedParts DEF Disconnect
      <4> HIDE DEF r
      <4> QED
        BY <1>2, <2>3, <4>1, <4>2, <4>3, TypedParts DEF LibraryOK, Existing
    <3>5. CASE dbcs' = dbcs
      BY <1>2, <2>3, <3>5 DEF LibraryOK, Existing
    <3> QED
      BY <1>5, <3>1, <3>2, <3>3, <3>4, <3>5
         DEF Connection, AllocConnect, AllocConnectRefused, Reconnect, Look,
             AddPlugin, SetOption
  <2> QED
    BY <1>2, <1>3, <2>1, <2>2, <2>3 DEF LibraryOK
<1> QED
  BY <1>4, <1>5

LEMMA EnvironmentPlugins ==
    ASSUME Typed, Tree, CountOK, PluginsOK, NEW t \in Threads,
           Environment(t)
    PROVE  PluginsOK'
<1> SUFFICES ASSUME Never({"raced"})' PROVE PluginsOK'
  BY DEF PluginsOK
<1>1. Never({"raced"})
  BY DEF Environment, AllocEnv, SetVersion, Inited, FreeEnv, Decremented,
     LastEnv, ClearPool, LibraryEnd, Meets, Never
<1>2. \A u \in Threads : call'[u].at = "set_option" => call'[u] = call[u]
  BY EnvironmentSteps DEF Environment, SetVersion, FreeEnv, Step
<1>3. CASE ClearPool(t)
  <2>1. /\ pool'.plugins = {} /\ loaded' = loaded
        /\ call[t].at = "clear_plugin_pool"
    BY <1>3, TypedParts DEF ClearPool, PoolT
  <2>2. Present = {}
    BY <1>1, <2>1 DEF CountOK
  <2>3. \A u \in Threads : call[u].at # "set_option"
    BY <2>2, NoneLeft DEF Connecting
  <2> QED
    BY <1>2, <2>1, <2>3 DEF PluginsOK
<1>4. CASE ~ClearPool(t)
  <2>1. pool' = pool /\ (loaded' = loaded \/ pool.plugins = {})
    BY <1>1, <1>4 DEF PluginsOK, Environment, AllocEnv, SetVersion, Inited,
       FreeEnv, Decremented, LastEnv, LibraryEnd, poolVars
  <2>2. \A u \in Threads :
           call'[u].at = "mysql_library_end" => call'[u] = call[u]
    BY <1>4, EnvironmentSteps DEF Environment, SetVersion, FreeEnv, Step
  <2> QED
    BY <1>1, <1>2, <2>1, <2>2 DEF PluginsOK
<1> QED
  BY <1>3, <1>4

LEMMA ConnectionPlugins ==
    ASSUME Typed, Tree, CountOK, PluginsOK, NEW t \in Threads,
           Connection(t)
    PROVE  PluginsOK'
<1> SUFFICES ASSUME Never({"raced"})' PROVE PluginsOK'
  BY DEF PluginsOK
<1>1. CountSame
  BY ConnectionCount
<1>2. Never({"raced"})
  BY <1>1 DEF CountSame, Never
<1>3. \A u \in Threads :
         call'[u].at = "mysql_library_end" => call'[u] = call[u]
  BY <1>1 DEF CountSame, Counting, Ending
<1>4. CASE Look(t) \/ SetOption(t)
  <2>1. loaded' = loaded /\ pool'.plugins = pool.plugins
    BY <1>4, TypedParts DEF Look, SetOption, poolVars, PoolT
  <2>2. /\ \A u \in Threads \ {t} : call'[u] = call[u]
        /\ call'[t].at = "set_option" =>
              Settings[call'[t].next].plugin \in pool.plugins
    <3>1. CASE Look(t)
      BY <3>1, LookSets, LookGoes DEF HasPlugin
    <3>2. CASE SetOption(t)
      BY <3>2, SetOptionGoes
    <3> QED
      BY <1>4, <3>1, <3>2
  <2> QED
    BY <1>2, <1>3, <2>1, <2>2 DEF PluginsOK
<1>5. CASE AddPlugin(t)
  <2> DEFINE p == Settings[call[t].next].plugin
  <2>1. /\ \A u \in Threads \ {t} : call'[u] = call[u]
        /\ \/ /\ call'[t].at = "set_option"
              /\ call'[t].next = call[t].next
              /\ pool'.plugins = pool.plugins \cup {p}
              /\ loaded' = loaded \cup {p}
           \/ /\ call'[t].at = "failed" /\ loaded' = loaded
              /\ pool'.plugins = pool.plugins
    BY <1>5, AddPluginGoes, TypedParts DEF PoolT
  <2>2. \A u \in Threads : call[u].at # "mysql_library_end"
    <3>1. call[t].at \in Connecting
      BY <1>5 DEF AddPlugin, Connecting
    <3> QED
      BY <1>2, <3>1, NoneLeft DEF CountOK
  <2> QED
    BY <1>2, <1>3, <2>1, <2>2 DEF PluginsOK
<1>6. CASE ~(Look(t) \/ SetOption(t) \/ AddPlugin(t))
  <2>1. loaded' = loaded /\ pool'.plugins = pool.plugins
    BY <1>6, TypedParts
       DEF Connection, AllocConnect, AllocConnectRefused, OvInit,
           SqlstateInit, FreeConnect, Disconnect, Reconnect, Connect,
           Connected, ConnectFailed, Leave, poolVars, PoolT
  <2>2. \A u \in Threads : call'[u].at = "set_option" => call'[u] = call[u]
    BY <1>6, ConnectionSteps, StatesSteps
       DEF Connection, AllocConnectRefused, FreeConnect, Disconnect, Step,
           Allocating
  <2> QED
    BY <1>2, <1>3, <2>1, <2>2 DEF PluginsOK
<1> QED
  BY <1>4, <1>5, <1>6

LEMMA LibraryNext ==
    ASSUME Typed, Tree, CountOK, LibraryOK, PluginsOK, [Next]_vars
    PROVE  LibraryOK' /\ PluginsOK'
<1>1. Tree'
  BY TreeNext
<1>2. ASSUME NEW t \in Threads, Environment(t) PROVE LibraryOK' /\ PluginsOK'
  BY <1>1, <1>2, EnvironmentLibrary, EnvironmentPlugins
<1>3. ASSUME NEW t \in Threads, Connection(t) PROVE LibraryOK' /\ PluginsOK'
  BY <1>1, <1>3, ConnectionLibrary, ConnectionPlugins
<1>4. CASE UNCHANGED vars
  BY <1>4 DEF vars, LibraryOK, PluginsOK, Never, Present, Existing
<1> QED
  BY <1>2, <1>3, <1>4 DEF Next

LEMMA InitLibrary == Init => LibraryOK /\ PluginsOK
<1>1. Init => /\ Existing = {} /\ Present = {} /\ library = "idle"
              /\ pool.plugins = {}
              /\ \A t \in Threads : call[t].at = "application"
  BY DEF Init, Existing, Present, Idle
<1> QED
  BY <1>1 DEF LibraryOK, PluginsOK, Connecting

(* The client library and its plugins are there for as long as a            *)
(* connection needs them and are let go with the last environment           *)
(* (dll.cc:135), for any number of environments: myodbc_inited is the       *)
(* number of those there are and of the one that is going.                 *)
THEOREM ProcessLibrary == Spec => []LibraryLives
<1>1. Init => Typed /\ Tree /\ CountOK /\ LibraryOK /\ PluginsOK
  BY InitTree, InitCount, InitLibrary
<1>2. Typed /\ Tree /\ CountOK /\ LibraryOK /\ PluginsOK /\ [Next]_vars
         => Typed' /\ Tree' /\ CountOK' /\ LibraryOK' /\ PluginsOK'
  BY TypedNext, TreeNext, CountNext, LibraryNext
<1>3. Typed /\ LibraryOK /\ PluginsOK => LibraryLives
  <2> SUFFICES ASSUME Typed, LibraryOK, PluginsOK PROVE LibraryLives
    OBVIOUS
  <2>1. TypeOK
    BY DEF Typed
  <2>2. LibraryKept
    BY DEF LibraryOK, LibraryKept, Handshake, Connecting
  <2>3. LibraryReleased
    BY DEF LibraryOK, LibraryReleased, Present, Ready, Idle, Ending
  <2>4. PluginsLoaded
    BY DEF PluginsOK, PluginsLoaded, At
  <2> QED
    BY <2>1, <2>2, <2>3, <2>4 DEF LibraryLives
<1> QED
  BY <1>1, <1>2, <1>3, PTL DEF Spec

-----------------------------------------------------------------------------
(***************************************************************************)
(* The counts of connections of the threads                                *)
(***************************************************************************)

Own(t)  == {d \in Existing : dbcs[d].by = t}
Size(t) == Cardinality(Own(t)) + IF call[t].at \in Allocating THEN 1 ELSE 0

(* A thread's count is of the connections it has made and the one it is     *)
(* making: not less, unless it was counted down for another's connection;   *)
(* not more, unless one was refused to it or freed by another thread.       *)
ThreadsOK ==
    /\ \A t \in Threads : t \in served <=> thread_count[t] # 0
    /\ \A t \in Threads \ uneven.less : Size(t) <= thread_count[t]
    /\ \A t \in Threads \ uneven.more : thread_count[t] <= Size(t)

LEMMA OwnSize ==
    ASSUME NEW t
    PROVE  /\ IsFiniteSet(Own(t)) /\ Cardinality(Own(t)) \in Nat
           /\ Cardinality(Own(t)) = 0 <=> Own(t) = {}
           /\ Size(t) \in Nat
<1>1. IsFiniteSet(Own(t))
  BY HandlesAssumption, FS_Subset DEF Own, Existing
<1>2. Cardinality(Own(t)) \in Nat /\ (Cardinality(Own(t)) = 0 <=> Own(t) = {})
  BY <1>1, FS_CardinalityType, FS_EmptySet
<1> QED
  BY <1>1, <1>2 DEF Size

(* No connection is made or freed.                                         *)
OwnSame ==
    \A u \in Threads :
        /\ Own(u)' = Own(u)
        /\ call'[u].at \in Allocating <=> call[u].at \in Allocating

LEMMA OwnSameHolds ==
    ASSUME ThreadsOK, OwnSame, UNCHANGED threadVars PROVE ThreadsOK'
<1>1. ASSUME NEW u \in Threads PROVE Size(u)' = Size(u)
  BY DEF Size, OwnSame
<1> QED
  BY <1>1 DEF ThreadsOK, threadVars

LEMMA EnvironmentThreads ==
    ASSUME Typed, Tree, ThreadsOK, NEW t \in Threads, Environment(t)
    PROVE  ThreadsOK'
<1>1. UNCHANGED threadVars /\ dbcs' = dbcs
  BY DEF Environment, AllocEnv, SetVersion, Inited, FreeEnv, Decremented,
     LastEnv, ClearPool, LibraryEnd
<1>2. \A u \in Threads :
         call'[u].at \in Allocating <=> call[u].at \in Allocating
  BY EnvironmentSteps
     DEF Environment, SetVersion, FreeEnv, Step, Allocating
<1> QED
  BY <1>1, <1>2, OwnSameHolds DEF OwnSame, Own, Existing

LEMMA QuietThreads ==
    ASSUME Typed, Tree, ThreadsOK, NEW t \in Threads,
           \/ \E d \in Dbcs : \/ Disconnect(t, d) \/ Reconnect(t, d)
                              \/ \E set \in SUBSET Options : Connect(t, d, set)
           \/ Look(t) \/ AddPlugin(t) \/ SetOption(t)
           \/ Connected(t) \/ ConnectFailed(t)
    PROVE  ThreadsOK'
<1>1. UNCHANGED threadVars
  BY DEF Disconnect, Reconnect, Connect, Look, AddPlugin, SetOption,
     Connected, ConnectFailed, Leave
<1>2. \A u \in Threads :
         call'[u].at \in Allocating <=> call[u].at \in Allocating
  BY ConnectionSteps DEF Disconnect, Step, Allocating, Connecting
<1>3. Existing' = Existing /\ \A d \in Existing : dbcs'[d].by = dbcs[d].by
  <2>1. CASE dbcs' = dbcs
    BY <2>1 DEF Existing
  <2>2. ASSUME NEW d \in Existing, NEW r, r \in DbcT, r.by = dbcs[d].by,
               dbcs' = [dbcs EXCEPT ![d] = r]
        PROVE  /\ Existing' = Existing
               /\ \A x \in Existing : dbcs'[x].by = dbcs[x].by
    <3>1. r # None
      BY <2>2, NoneAssumption DEF DbcT
    <3> QED
      BY <2>2, <3>1, TypedParts DEF Existing
  <2>3. ASSUME NEW d \in Dbcs, Disconnect(t, d)
        PROVE  /\ Existing' = Existing
               /\ \A x \in Existing : dbcs'[x].by = dbcs[x].by
    <3> DEFINE r == [dbcs[d] EXCEPT !.connected = FALSE, !.set = {}]
    <3>1. d \in Existing /\ dbcs[d] \in DbcT
      BY <2>3, TypedParts DEF Disconnect
    <3>2. r \in DbcT /\ r.by = dbcs[d].by
      BY <3>1 DEF DbcT
    <3>3. dbcs' = [dbcs EXCEPT ![d] = r]
      BY <2>3, TypedParts DEF Disconnect
    <3> HIDE DEF r
    <3> QED
      BY <2>2, <3>1, <3>2, <3>3
  <2>4. ASSUME NEW d \in Dbcs, NEW set \in SUBSET Options, Connect(t, d, set)
        PROVE  /\ Existing' = Existing
               /\ \A x \in Existing : dbcs'[x].by = dbcs[x].by
    <3> DEFINE r == [dbcs[d] EXCEPT !.set = set]
    <3>1. d \in Existing /\ dbcs[d] \in DbcT
      BY <2>4, TypedParts DEF Connect
    <3>2. r \in DbcT /\ r.by = dbcs[d].by
      BY <3>1 DEF DbcT
    <3>3. dbcs' = [dbcs EXCEPT ![d] = r]
      BY <2>4 DEF Connect
    <3> HIDE DEF r
    <3> QED
      BY <2>2, <3>1, <3>2, <3>3
  <2>5. CASE Connected(t) \/ ConnectFailed(t)
    BY <2>5, LeaveTree DEF TreeSame
  <2> QED
    BY <2>1, <2>3, <2>4, <2>5 DEF Reconnect, Look, AddPlugin, SetOption
<1>4. \A u \in Threads : Own(u)' = Own(u)
  BY <1>3 DEF Own
<1> QED
  BY <1>1, <1>2, <1>4, OwnSameHolds DEF OwnSame

(* A connection is counted before it is made.                              *)
LEMMA AllocConnectThreads ==
    ASSUME Typed, Tree, ThreadsOK, NEW t \in Threads, NEW e \in Envs,
           \/ \E d \in Dbcs : AllocConnect(t, e, d)
           \/ AllocConnectRefused(t, e)
    PROVE  ThreadsOK'
<1>1. /\ Counted(t) /\ dbcs' = dbcs
      /\ AllocConnectRefused(t, e) => call' = call
      /\ uneven'.less = uneven.less
      /\ uneven'.more =
            uneven.more \cup When(AllocConnectRefused(t, e), t)
  <2>1. uneven \in UnevenT
    BY TypedParts
  <2>2. CASE AllocConnectRefused(t, e)
    BY <2>1, <2>2 DEF AllocConnectRefused, When, UnevenT
  <2>3. ASSUME NEW d \in Dbcs, AllocConnect(t, e, d),
               ~AllocConnectRefused(t, e)
        PROVE  /\ Counted(t) /\ dbcs' = dbcs /\ uneven' = uneven
               /\ When(AllocConnectRefused(t, e), t) = {}
    BY <2>3 DEF AllocConnect, When
  <2> QED
    BY <2>2, <2>3
<1>2. /\ thread_count'[t] = thread_count[t] + 1
      /\ \A u \in Threads \ {t} : /\ thread_count'[u] = thread_count[u]
                                  /\ u \in served' <=> u \in served
      /\ t \in served' /\ thread_count[t] \in Nat
  BY <1>1, TypedParts DEF Counted, ThreadsOK
<1>3. /\ \A u \in Threads \ {t} : call'[u].at = call[u].at
      /\ call[t].at \notin Allocating
      /\ \/ call'[t].at \in Allocating
         \/ AllocConnectRefused(t, e) /\ call'[t].at \notin Allocating
  BY <1>1, ConnectionSteps
     DEF Step, Allocating, AllocConnectRefused, Ready, Idle
<1>4. \A u \in Threads : Cardinality(Own(u))' = Cardinality(Own(u))
  BY <1>1 DEF Own, Existing
<1>5. /\ \A u \in Threads \ {t} : Size(u)' = Size(u)
      /\ \/ Size(t)' = Size(t) + 1
         \/ AllocConnectRefused(t, e) /\ Size(t)' = Size(t)
      /\ \A u \in Threads : Size(u) \in Nat
  BY <1>3, <1>4, OwnSize DEF Size
<1>6. \A u \in Threads : u \in served' <=> thread_count'[u] # 0
  BY <1>2 DEF ThreadsOK
<1>7. ASSUME NEW u \in Threads \ uneven'.less
      PROVE  Size(u)' <= thread_count'[u]
  <2>1. Size(u) <= thread_count[u]
    BY <1>1 DEF ThreadsOK
  <2> QED
    BY <1>2, <1>5, <2>1
<1>8. ASSUME NEW u \in Threads \ uneven'.more
      PROVE  thread_count'[u] <= Size(u)'
  <2>1. thread_count[u] <= Size(u)
    BY <1>1 DEF ThreadsOK
  <2>2. u = t => ~AllocConnectRefused(t, e)
    BY <1>1 DEF When
  <2> QED
    BY <1>2, <1>5, <2>1, <2>2
<1> QED
  BY <1>6, <1>7, <1>8 DEF ThreadsOK

(* The connection that was being made is there.                            *)
LEMMA StatesThreads ==
    ASSUME Typed, Tree, ThreadsOK, NEW t \in Threads,
           OvInit(t) \/ SqlstateInit(t)
    PROVE  ThreadsOK'
<1>1. UNCHANGED threadVars /\ UNCHANGED <<envs, g_lock>>
  BY DEF OvInit, SqlstateInit, libVars
<1>2. call[t].at \in Allocating /\ Step(t, call[t].at, call'[t].at)
  BY StatesSteps
<1>3. CASE Allocated(t)
  <2> DEFINE d == call[t].dbc
  <2>1. /\ call'[t] = Idle /\ d \in Dbcs \ Existing
        /\ Existing' = Existing \cup {d}
        /\ \A x \in Existing : dbcs'[x] = dbcs[x]
        /\ dbcs'[d].by = t
    BY <1>1, <1>2, <1>3, AllocatedTree
  <2>2. /\ Own(t)' = Own(t) \cup {d} /\ d \notin Own(t)
        /\ \A u \in Threads \ {t} : Own(u)' = Own(u)
    BY <2>1 DEF Own
  <2>3. Cardinality(Own(t))' = Cardinality(Own(t)) + 1
    BY <2>2, OwnSize, FS_AddElement
  <2>4. call'[t].at \notin Allocating
    BY <2>1 DEF Idle, Allocating
  <2>5. Size(t)' = Size(t)
    BY <1>2, <2>3, <2>4, OwnSize DEF Size
  <2>6. \A u \in Threads \ {t} : Size(u)' = Size(u)
    BY <1>2, <2>2 DEF Size, Step
  <2>7. \A u \in Threads : Size(u)' = Size(u)
    BY <2>5, <2>6
  <2> QED
    BY <1>1, <2>7 DEF ThreadsOK, threadVars
<1>4. CASE dbcs' = dbcs /\ call'[t].at \in Allocating
  BY <1>1, <1>2, <1>4, OwnSameHolds DEF OwnSame, Own, Existing, Step
<1>5. Allocated(t) \/ (dbcs' = dbcs /\ call'[t].at \in Allocating)
  <2>1. Goes(t, [call[t] EXCEPT !.at = "sqlstate_init"]) =>
           call'[t].at \in Allocating
    <3>1. [call[t] EXCEPT !.at = "sqlstate_init"].at = "sqlstate_init"
      <4>1. call[t] = [at |-> call[t].at, env |-> call[t].env,
                       dbc |-> call[t].dbc]
        BY <1>2, AllocCall DEF Typed
      <4> QED
        BY <4>1
    <3> QED
      BY <3>1, GoesSteps DEF Allocating
  <2> QED
    BY <1>2, <2>1 DEF OvInit, SqlstateInit
<1> QED
  BY <1>3, <1>4, <1>5

LEMMA FreeConnectThreads ==
    ASSUME Typed, Tree, ThreadsOK, NEW t \in Threads, NEW d \in Dbcs,
           FreeConnect(t, d)
    PROVE  ThreadsOK'
<1>1. /\ d \in Existing /\ dbcs' = [dbcs EXCEPT ![d] = None] /\ call' = call
      /\ dbcs[d].by \in Threads
  BY TypedParts DEF FreeConnect, DbcT
<1> PICK o \in Threads : o = dbcs[d].by
  BY <1>1
<1>2. /\ \A u \in Threads \ {t} : /\ thread_count'[u] = thread_count[u]
                                  /\ u \in served' <=> u \in served
      /\ thread_count[t] \in Nat
      /\ IF thread_count[t] = 0
         THEN thread_count'[t] = 0 /\ (t \in served' <=> t \in served)
         ELSE /\ thread_count'[t] = thread_count[t] - 1
              /\ t \in served' <=> /\ t \in served
                                   /\ thread_count'[t] # 0
  BY TypedParts DEF FreeConnect
<1>3. \A u \in Threads : u \in served' <=> thread_count'[u] # 0
  BY <1>2 DEF ThreadsOK
<1>4. /\ uneven.less \subseteq uneven'.less
      /\ o # t /\ thread_count[t] # 0 => t \in uneven'.less
      /\ uneven.more \subseteq uneven'.more
      /\ o # t => o \in uneven'.more
  BY DEF FreeConnect, Misses, When
<1>5. /\ Existing' = Existing \ {d}
      /\ \A x \in Existing' : dbcs'[x] = dbcs[x]
  BY <1>1, TypedParts DEF Existing
<1>6. /\ Own(o)' = Own(o) \ {d} /\ d \in Own(o)
      /\ \A u \in Threads \ {o} : Own(u)' = Own(u)
  BY <1>1, <1>5 DEF Own
<1>7. /\ Cardinality(Own(o))' = Cardinality(Own(o)) - 1
      /\ Cardinality(Own(o)) # 0
  <2>1. /\ IsFiniteSet(Own(o)) /\ Cardinality(Own(o)) \in Nat
        /\ Cardinality(Own(o)) = 0 <=> Own(o) = {}
    BY OwnSize
  <2>2. Cardinality(Own(o) \ {d}) = Cardinality(Own(o)) - 1
    BY <1>6, <2>1, FS_RemoveElement
  <2>3. Own(o)' = Own(o) \ {d} /\ Own(o) # {}
    BY <1>6
  <2> QED
    BY <2>1, <2>2, <2>3
<1>8. /\ Size(o)' = Size(o) - 1 /\ Size(o) \in Nat /\ Size(o) # 0
      /\ \A u \in Threads \ {o} : Size(u)' = Size(u) /\ Size(u) \in Nat
  BY <1>1, <1>6, <1>7, OwnSize DEF Size
<1>9. \A u \in Threads : thread_count[u] \in Nat /\ Size(u) \in Nat
  BY TypedParts, OwnSize
<1>10. ASSUME NEW u \in Threads \ uneven'.less
       PROVE  Size(u)' <= thread_count'[u]
  <2>1. Size(u) <= thread_count[u]
    BY <1>4 DEF ThreadsOK
  <2>2. CASE u # t
    BY <1>2, <1>8, <1>9, <2>1, <2>2
  <2>3. CASE u = t /\ o = t
    <3>1. thread_count[t] # 0
      BY <1>8, <1>9, <2>1, <2>3
    <3> QED
      BY <1>2, <1>8, <1>9, <2>1, <2>3, <3>1
  <2>4. CASE u = t /\ o # t
    <3>1. thread_count[t] = 0
      BY <1>4, <2>4
    <3> QED
      BY <1>2, <1>8, <1>9, <2>1, <2>4, <3>1
  <2> QED
    BY <2>2, <2>3, <2>4
<1>11. ASSUME NEW u \in Threads \ uneven'.more
       PROVE  thread_count'[u] <= Size(u)'
  <2>1. thread_count[u] <= Size(u)
    BY <1>4 DEF ThreadsOK
  <2>2. CASE u # o
    <3>1. thread_count'[u] <= thread_count[u]
      BY <1>2, <1>9
    <3> QED
      BY <1>2, <1>8, <1>9, <2>1, <2>2, <3>1
  <2>3. CASE u = o
    <3>1. o = t
      BY <1>4, <2>3
    <3> QED
      BY <1>2, <1>8, <1>9, <2>1, <2>3, <3>1
  <2> QED
    BY <2>2, <2>3
<1> QED
  BY <1>3, <1>10, <1>11 DEF ThreadsOK

LEMMA ThreadsNext ==
    ASSUME Typed, Tree, ThreadsOK, [Next]_vars PROVE ThreadsOK'
<1>1. ASSUME NEW t \in Threads, Environment(t) PROVE ThreadsOK'
  BY <1>1, EnvironmentThreads
<1>2. ASSUME NEW t \in Threads, Connection(t) PROVE ThreadsOK'
  BY <1>2, AllocConnectThreads, StatesThreads, FreeConnectThreads,
     QuietThreads DEF Connection
<1>3. CASE UNCHANGED vars
  BY <1>3 DEF vars, ThreadsOK, Size, Own, Existing
<1> QED
  BY <1>1, <1>2, <1>3 DEF Next

(* The counts of several threads (handle.cc:211, 316), for any number of    *)
(* threads that free connections of their own and of each other and are     *)
(* refused some.  A thread with connections is one of the client library's, *)
(* unless it was counted down for freeing another's connection; what other  *)
(* threads do with its connections cannot end its service.  When the        *)
(* library ends, those it waits for have had a connection freed by another  *)
(* thread, or refused after it was counted.  It needs the invariant that    *)
(* compares each thread's count with the connections it has made.          *)
THEOREM ProcessThreads == Spec => []ThreadsCounted
<1>1. Init => Typed /\ Tree /\ CountOK /\ ThreadsOK
  <2>1. Init => CountOK
    BY InitCount
  <2>2. Init => /\ \A t \in Threads : /\ Own(t) = {} /\ thread_count[t] = 0
                                      /\ call[t].at \notin Allocating
                /\ served = {}
    BY DEF Init, Own, Existing, Idle, Allocating
  <2>3. Init => \A t \in Threads : Size(t) = 0
    BY <2>2, OwnSize DEF Size
  <2>4. Init => ThreadsOK
    BY <2>2, <2>3 DEF ThreadsOK
  <2> QED
    BY <2>1, <2>4, InitTree
<1>2. Typed /\ Tree /\ CountOK /\ ThreadsOK /\ [Next]_vars
         => Typed' /\ Tree' /\ CountOK' /\ ThreadsOK'
  BY TypedNext, TreeNext, CountNext, ThreadsNext
<1>3. Typed /\ Tree /\ CountOK /\ ThreadsOK => ThreadsCounted
  <2> SUFFICES ASSUME Typed, Tree, CountOK, ThreadsOK PROVE ThreadsCounted
    OBVIOUS
  <2>1. ThreadServed
    <3> SUFFICES ASSUME NEW d \in Existing, dbcs[d].by \notin uneven.less
                 PROVE  dbcs[d].by \in served
      BY DEF ThreadServed
    <3> DEFINE t == dbcs[d].by
    <3>1. t \in Threads /\ d \in Own(t)
      BY TypedParts DEF DbcT, Own
    <3>2. Cardinality(Own(t)) # 0 /\ Cardinality(Own(t)) \in Nat
      BY <3>1, OwnSize
    <3>3. Size(t) <= thread_count[t] /\ thread_count[t] \in Nat
      BY <3>1, TypedParts DEF ThreadsOK
    <3>4. thread_count[t] # 0
      BY <3>2, <3>3 DEF Size
    <3> QED
      BY <3>1, <3>4 DEF ThreadsOK
  <2>2. ThreadsReleased
    <3> SUFFICES ASSUME Never({"raced"}), NEW t \in Threads,
                        call[t].at = "mysql_library_end",
                        NEW u \in served, u \notin uneven.more
                 PROVE  FALSE
      BY DEF ThreadsReleased, At
    <3>1. Present = {}
      BY DEF CountOK
    <3>2. /\ Existing = {} /\ u \in Threads
          /\ call[u].at \notin Allocating
      BY <3>1, NoneLeft, TypedParts
    <3>3. Size(u) = 0
      BY <3>2, OwnSize DEF Size, Own
    <3>4. thread_count[u] <= 0 /\ thread_count[u] \in Nat
      BY <3>2, <3>3, TypedParts DEF ThreadsOK
    <3> QED
      BY <3>2, <3>4 DEF ThreadsOK
  <2> QED
    BY <2>1, <2>2 DEF ThreadsCounted
<1> QED
  BY <1>1, <1>2, <1>3, PTL DEF Spec

-----------------------------------------------------------------------------
(***************************************************************************)
(* Connects                                                                *)
(***************************************************************************)

(* The connection a thread is connecting is left to it.                    *)
DbcLeft(u) ==
    call[u].at \in Connecting /\ call'[u].at \in Connecting =>
        /\ call'[u].dbc = call[u].dbc
        /\ dbcs'[call[u].dbc] = dbcs[call[u].dbc]

LEMMA ConnectingLeft ==
    ASSUME Typed, Tree, NEW t \in Threads, Environment(t) \/ Connection(t)
    PROVE  \A u \in Threads : DbcLeft(u)
<1>1. ASSUME dbcs' = dbcs, \A u \in Threads : GoesOn(u)
      PROVE  \A u \in Threads : DbcLeft(u)
  BY <1>1 DEF GoesOn, DbcLeft
<1>2. ASSUME NEW from, NEW to, Step(t, from, to), dbcs' = dbcs,
             from \notin Connecting
      PROVE  \A u \in Threads : DbcLeft(u)
  BY <1>2 DEF Step, DbcLeft
<1>3. CASE Environment(t)
  <2>1. dbcs' = dbcs
    BY <1>3 DEF Environment, AllocEnv, SetVersion, Inited, FreeEnv,
       Decremented, LastEnv, ClearPool, LibraryEnd
  <2>2. CASE call' = call
    BY <2>1, <2>2 DEF DbcLeft
  <2>3. CASE call' # call
    <3>1. PICK from, to : Step(t, from, to) /\ from \notin Connecting
      BY <1>3, <2>3, EnvironmentSteps
         DEF Environment, SetVersion, FreeEnv, Step, Connecting
    <3> QED
      BY <1>2, <2>1, <3>1
  <2> QED
    BY <2>2, <2>3
<1>4. ASSUME NEW d \in Dbcs, ~InUse(d), call[t].at \notin Connecting,
             \A u \in Threads \ {t} : call'[u] = call[u],
             \A x \in Dbcs \ {d} : dbcs'[x] = dbcs[x]
      PROVE  \A u \in Threads : DbcLeft(u)
  <2>1. \A u \in Threads : call[u].at \in Connecting =>
           call[u].dbc # d /\ call[u].dbc \in Dbcs
    BY <1>4, InUseMeans, CallTyped DEF OnDbc, Shape
  <2> QED
    BY <1>4, <2>1 DEF DbcLeft
<1>5. ASSUME NEW d \in Dbcs,
             \/ FreeConnect(t, d) \/ Disconnect(t, d)
             \/ \E set \in SUBSET Options : Connect(t, d, set)
      PROVE  \A u \in Threads : DbcLeft(u)
  <2>1. ~InUse(d) /\ call[t] = Idle /\ Idle.at = "application"
    BY <1>5 DEF FreeConnect, Disconnect, Connect, Ready, Idle
  <2>2. \A u \in Threads \ {t} : call'[u] = call[u]
    BY <1>5, ConnectionSteps DEF FreeConnect, Disconnect, Step
  <2>3. \A x \in Dbcs \ {d} : dbcs'[x] = dbcs[x]
    BY <1>5, TypedParts DEF FreeConnect, Disconnect, Connect
  <2> QED
    BY <1>4, <2>1, <2>2, <2>3 DEF Connecting
<1>6. CASE OvInit(t) \/ SqlstateInit(t)
  <2>1. call[t].at \in Allocating /\ call[t].at \notin Connecting
        /\ \A u \in Threads \ {t} : call'[u] = call[u]
    BY <1>6, StatesSteps DEF Step, Allocating, Connecting
  <2>2. CASE dbcs' = dbcs
    BY <2>1, <2>2 DEF DbcLeft
  <2>3. CASE Allocated(t)
    <3>1. UNCHANGED <<envs, g_lock>>
      BY <1>6 DEF OvInit, SqlstateInit, libVars
    <3>2. \A d \in Existing : dbcs'[d] = dbcs[d]
      BY <2>1, <2>3, <3>1, AllocatedTree
    <3> QED
      BY <2>1, <3>2 DEF DbcLeft, Tree
  <2> QED
    BY <1>6, <2>2, <2>3 DEF OvInit, SqlstateInit
<1>7. CASE Connected(t) \/ ConnectFailed(t)
  <2>1. /\ \A u \in Threads \ {t} : call'[u] = call[u]
        /\ call'[t] = Idle /\ call[t].at \in Connecting
        /\ \A d \in Existing \ {call[t].dbc} : dbcs'[d] = dbcs[d]
    BY <1>7, LeaveTree
  <2>2. \A u \in Threads \ {t} : call[u].at \in Connecting =>
           call[u].dbc \in Existing \ {call[t].dbc}
    BY <2>1 DEF Tree, OnDbc
  <2>3. Idle.at \notin Connecting
    BY DEF Idle, Connecting
  <2> QED
    BY <2>1, <2>2, <2>3 DEF DbcLeft
<1>8. CASE \/ \E e \in Envs, d \in Dbcs : AllocConnect(t, e, d)
           \/ \E e \in Envs : AllocConnectRefused(t, e)
           \/ \E d \in Dbcs : Reconnect(t, d)
  <2>1. dbcs' = dbcs
    BY <1>8 DEF AllocConnect, AllocConnectRefused, Reconnect
  <2>2. /\ call[t].at \notin Connecting
        /\ \A u \in Threads \ {t} : call'[u] = call[u]
    BY <1>8, ConnectionSteps
       DEF AllocConnectRefused, Ready, Idle, Step, Connecting
  <2> QED
    BY <2>1, <2>2 DEF DbcLeft
<1>9. CASE Look(t) \/ AddPlugin(t) \/ SetOption(t)
  <2>1. dbcs' = dbcs
    BY <1>9 DEF Look, AddPlugin, SetOption
  <2> QED
    BY <1>1, <1>9, <2>1, LookGoes, AddPluginGoes, SetOptionGoes
<1> QED
  BY <1>3, <1>5, <1>6, <1>7, <1>8, <1>9 DEF Connection

(* The steps that are none of a connect on its way.                        *)
OnItsWay(t) ==
    \/ \E d \in Dbcs, set \in SUBSET Options : Connect(t, d, set)
    \/ Look(t) \/ AddPlugin(t) \/ SetOption(t)

LEMMA OthersOfConnect ==
    ASSUME Typed, Tree, NEW t \in Threads, Environment(t) \/ Connection(t),
           ~OnItsWay(t)
    PROVE  /\ \A u \in Threads : call'[u].at \in Connecting =>
                 \/ call'[u] = call[u]
                 \/ /\ \E d \in Dbcs : Reconnect(u, d)
                    /\ call'[u].at = "set_plugin_option"
                    /\ call'[u].next = Len(Settings) + 1
           /\ \/ /\ pool'.plugins = pool.plugins /\ pool'.mysql = pool.mysql
              \/ ClearPool(t) /\ pool'.plugins = {}
           /\ option' = option \/ LibraryEnd(t)
           /\ lapses \subseteq lapses'
<1>1. /\ option' = option \/ LibraryEnd(t)
      /\ lapses \subseteq lapses'
  BY DEF OnItsWay, Environment, AllocEnv, SetVersion, Inited, FreeEnv,
     Decremented, LastEnv, ClearPool, LibraryEnd, Meets, Connection,
     AllocConnect, AllocConnectRefused, OvInit, SqlstateInit, FreeConnect,
     Disconnect, Reconnect, Connected, ConnectFailed, Leave, poolVars
<1>2. \/ pool'.plugins = pool.plugins /\ pool'.mysql = pool.mysql
      \/ ClearPool(t) /\ pool'.plugins = {}
  <2>1. CASE ClearPool(t)
    BY <2>1, TypedParts DEF ClearPool, PoolT
  <2>2. CASE Connected(t) \/ ConnectFailed(t)
    BY <2>2, TypedParts DEF Connected, ConnectFailed, Leave, PoolT
  <2>3. pool' = pool \/ ClearPool(t) \/ Connected(t) \/ ConnectFailed(t)
    BY DEF OnItsWay, Environment, AllocEnv, SetVersion, Inited, FreeEnv,
       Decremented, LastEnv, LibraryEnd, Connection, AllocConnect,
       AllocConnectRefused, OvInit, SqlstateInit, FreeConnect, Disconnect,
       Reconnect, poolVars
  <2> QED
    BY <2>1, <2>2, <2>3
<1>3. ASSUME NEW d \in Dbcs, Reconnect(t, d)
      PROVE  /\ call'[t].at = "set_plugin_option"
             /\ call'[t].next = Len(Settings) + 1
             /\ \A u \in Threads \ {t} : call'[u] = call[u]
  BY <1>3, ConnectionSteps DEF Step
<1>4. \/ \A u \in Threads : call'[u].at \in Connecting => call'[u] = call[u]
      \/ \E d \in Dbcs : Reconnect(t, d)
  <2>1. CASE Environment(t)
    BY <2>1, EnvironmentSteps
       DEF Environment, SetVersion, FreeEnv, Step, Connecting
  <2>2. CASE Connection(t)
    BY <2>2, ConnectionSteps, StatesSteps
       DEF OnItsWay, Connection, AllocConnectRefused, FreeConnect,
           Disconnect, Step, Allocating, Connecting
  <2> QED
    BY <2>1, <2>2
<1> QED
  BY <1>1, <1>2, <1>3, <1>4

(* A thread among the options of its connection, not yet in the handshake. *)
Busy(u) ==
    \/ call[u].at \in {"add_plugin", "set_option", "failed"}
    \/ call[u].at = "set_plugin_option" /\ call[u].next \in 1..Len(Settings)

(* One connection sets its options at a time.                              *)
ConnectsOK ==
    Never({"together"}) =>
        /\ \A t, u \in Threads : Busy(t) /\ Busy(u) => t = u
        /\ \A t \in Threads :
              call[t].at = "add_plugin" => ~HasPlugin(Settings[call[t].next])
        /\ NoneRefused

(* It does so with its own handle.                                         *)
HandlesOK ==
    Never({"together", "raced"}) =>
        /\ \A t \in Threads : Busy(t) /\ call[t].at # "failed" =>
              pool.mysql = call[t].dbc
        /\ OwnHandle

LEMMA BusyConnecting ==
    \A u \in Threads : Busy(u) => call[u].at \in Connecting
BY DEF Busy, Connecting

LEMMA OthersConnects ==
    ASSUME Typed, Tree, ConnectsOK, NEW t \in Threads,
           Environment(t) \/ Connection(t), ~OnItsWay(t)
    PROVE  ConnectsOK'
<1> SUFFICES ASSUME Never({"together"})' PROVE ConnectsOK'
  BY DEF ConnectsOK
<1>1. Never({"together"})
  BY OthersOfConnect DEF Never
<1>2. \A u \in Threads : Busy(u)' => call'[u] = call[u]
  BY OthersOfConnect, SettingsType DEF Busy, Connecting
<1>3. \A t1, t2 \in Threads : Busy(t1)' /\ Busy(t2)' => t1 = t2
  BY <1>1, <1>2 DEF ConnectsOK, Busy
<1>4. pool'.plugins \subseteq pool.plugins
  BY OthersOfConnect
<1> QED
  BY <1>1, <1>2, <1>3, <1>4 DEF ConnectsOK, Busy, HasPlugin, NoneRefused, At

LEMMA OthersHandles ==
    ASSUME Typed, Tree, CountOK, HandlesOK, NEW t \in Threads,
           Environment(t) \/ Connection(t), ~OnItsWay(t)
    PROVE  HandlesOK'
<1> SUFFICES ASSUME Never({"together", "raced"})' PROVE HandlesOK'
  BY DEF HandlesOK
<1>1. Never({"together", "raced"}) /\ Never({"raced"})
  BY OthersOfConnect DEF Never
<1>2. \A u \in Threads : Busy(u)' => call'[u] = call[u]
  BY OthersOfConnect, SettingsType DEF Busy, Connecting
<1>3. pool'.mysql = pool.mysql \/ \A u \in Threads : ~Busy(u)
  <2>1. CASE ClearPool(t)
    <3>1. Present = {}
      BY <1>1, <2>1 DEF ClearPool, CountOK
    <3> QED
      BY <3>1, NoneLeft, BusyConnecting
  <2>2. CASE ~ClearPool(t)
    BY <2>2, OthersOfConnect
  <2> QED
    BY <2>1, <2>2
<1> QED
  BY <1>1, <1>2, <1>3 DEF HandlesOK, Busy, OwnHandle, At

LEMMA ConnectConnects ==
    ASSUME Typed, Tree, ConnectsOK, HandlesOK, NEW t \in Threads,
           NEW d \in Dbcs, NEW set \in SUBSET Options, Connect(t, d, set)
    PROVE  ConnectsOK' /\ HandlesOK'
<1> SUFFICES ASSUME Never({"together"})' PROVE ConnectsOK' /\ HandlesOK'
  BY DEF ConnectsOK, HandlesOK, Never
<1>1. /\ Step(t, "application", "set_plugin_option") /\ call'[t].dbc = d
      /\ pool'.mysql = d
  BY ConnectionSteps, TypedParts DEF Connect, PoolT
<1>2. Others(t, Connecting) = {}
  BY DEF Connect, Meets, When, Never
<1>3. \A u \in Threads \ {t} : call'[u].at \notin Connecting
  BY <1>1, <1>2 DEF Others, Step
<1>4. \A u \in Threads : Busy(u)' => u = t
  BY <1>3 DEF Busy, Connecting
<1>5. \A u \in Threads : call'[u].at \notin {"add_plugin", "failed"}
  BY <1>1, <1>3 DEF Step, Connecting
<1> QED
  BY <1>1, <1>4, <1>5
     DEF ConnectsOK, HandlesOK, NoneRefused, OwnHandle, Step, At

LEMMA LookConnects ==
    ASSUME Typed, Tree, ConnectsOK, HandlesOK, NEW t \in Threads,
           Look(t) \/ AddPlugin(t) \/ SetOption(t)
    PROVE  ConnectsOK' /\ HandlesOK'
<1> SUFFICES ASSUME Never({"together"})' PROVE ConnectsOK' /\ HandlesOK'
  BY DEF ConnectsOK, HandlesOK, Never
<1>1. /\ Never({"together"})
      /\ Never({"together", "raced"})' => Never({"together", "raced"})
  BY DEF Look, AddPlugin, SetOption, Never
<1>2. /\ \A u \in Threads \ {t} : call'[u] = call[u]
      /\ call'[t].dbc = call[t].dbc /\ call[t].next \in 1..Len(Settings)
      /\ call[t].at \in {"set_plugin_option", "add_plugin", "set_option"}
      /\ call'[t].at = "failed" =>
            \/ AddPlugin(t) /\ call'[t].why = "already in the pool"
                  /\ HasPlugin(Settings[call[t].next])
            \/ AddPlugin(t) /\ call'[t].why = "not loaded"
                  /\ call'[t].mysql = pool.mysql
            \/ call'[t].why = "option"
  BY LookGoes, AddPluginGoes, SetOptionGoes DEF Look, AddPlugin, SetOption
<1>3. Busy(t) /\ \A u \in Threads \ {t} : ~Busy(u)
  BY <1>1, <1>2 DEF ConnectsOK, Busy
<1>4. \A u \in Threads : Busy(u)' => u = t
  BY <1>2, <1>3 DEF Busy
<1>5. \A u \in Threads \ {t} : call'[u].at \notin {"add_plugin", "failed"}
  BY <1>2, <1>3 DEF Busy
<1>6. call'[t].at = "add_plugin" =>
         Settings[call'[t].next].plugin \notin pool'.plugins
  <2>1. CASE Look(t)
    <3>1. pool' = pool
      BY <2>1 DEF Look, poolVars
    <3> QED
      BY <2>1, <3>1, LookGoes, LookSets DEF HasPlugin
  <2>2. CASE AddPlugin(t) \/ SetOption(t)
    BY <2>2, AddPluginGoes, SetOptionGoes
  <2> QED
    BY <2>1, <2>2
<1>7. call'[t].at = "failed" => call'[t].why # "already in the pool"
  BY <1>1, <1>2 DEF ConnectsOK, AddPlugin
<1>8. pool'.mysql = pool.mysql
  <2>1. CASE Look(t)
    BY <2>1 DEF Look, poolVars
  <2>2. CASE AddPlugin(t)
    BY <2>2, AddPluginGoes, TypedParts DEF PoolT
  <2>3. CASE SetOption(t)
    BY <2>3, TypedParts DEF SetOption, PoolT
  <2> QED
    BY <2>1, <2>2, <2>3
<1>9. ConnectsOK'
  BY <1>4, <1>5, <1>6, <1>7 DEF ConnectsOK, NoneRefused, HasPlugin, At
<1>10. ASSUME Never({"together", "raced"})' PROVE HandlesOK'
  <2>1. pool.mysql = call[t].dbc
    BY <1>1, <1>2, <1>3, <1>10 DEF HandlesOK
  <2> QED
    BY <1>2, <1>4, <1>5, <1>8, <2>1 DEF HandlesOK, OwnHandle, At
<1> QED
  BY <1>9, <1>10 DEF HandlesOK

LEMMA ConnectsNext ==
    ASSUME Typed, Tree, CountOK, ConnectsOK, HandlesOK, [Next]_vars
    PROVE  ConnectsOK' /\ HandlesOK'
<1>1. ASSUME NEW t \in Threads, Environment(t) \/ Connection(t)
      PROVE  ConnectsOK' /\ HandlesOK'
  BY <1>1, OthersConnects, OthersHandles, ConnectConnects, LookConnects
     DEF OnItsWay
<1>2. CASE UNCHANGED vars
  BY <1>2 DEF vars, ConnectsOK, HandlesOK, Never, Busy, HasPlugin,
     NoneRefused, OwnHandle, At
<1> QED
  BY <1>1, <1>2 DEF Next

Setting == {"set_plugin_option", "add_plugin", "set_option"}
OptionLapses == {"together", "again", "device", "raced"}

(* Whose an option is while a connection authenticates.                    *)
Owner(o, d) == IF o \in dbcs[d].set THEN d ELSE None

(* Options of plugins that are not in the pool are not set.                *)
Unset ==
    \A i \in 1..Len(Settings) :
        Settings[i].plugin \notin pool.plugins =>
            option[Settings[i].option] = None

(* The options up to the next are the connection's own, and those that come *)
(* are not set when it would leave them alone.                             *)
OwnOptions(t) ==
    \A i \in 1..Len(Settings) :
        /\ i < call[t].next =>
              option[Settings[i].option] =
                  Owner(Settings[i].option, call[t].dbc)
        /\ /\ i >= call[t].next /\ ~Settings[i].always
           /\ Settings[i].option \notin dbcs[call[t].dbc].set
           => option[Settings[i].option] = None

OptionsOK ==
    Never(OptionLapses) =>
        /\ \A t, u \in Threads :
              call[t].at \in Connecting /\ call[u].at \in Connecting => t = u
        /\ (\A t \in Threads : call[t].at # "mysql_library_end") => Unset
        /\ \A t \in Threads : call[t].at \in Setting => OwnOptions(t)

LEMMA OthersOptions ==
    ASSUME Typed, Tree, CountOK, OptionsOK, NEW t \in Threads,
           Environment(t) \/ Connection(t), ~OnItsWay(t)
    PROVE  OptionsOK'
<1> SUFFICES ASSUME Never(OptionLapses)' PROVE OptionsOK'
  BY DEF OptionsOK
<1>1. Never(OptionLapses) /\ Never({"raced"})
  BY OthersOfConnect DEF Never, OptionLapses
<1>2. \A u \in Threads : call'[u].at \in Connecting => call'[u] = call[u]
  <2>1. \A u \in Threads, d \in Dbcs : ~Reconnect(u, d)
    BY DEF Reconnect, Meets, Never, OptionLapses
  <2> QED
    BY <2>1, OthersOfConnect
<1>3. \A u, v \in Threads :
         call'[u].at \in Connecting /\ call'[v].at \in Connecting => u = v
  BY <1>1, <1>2 DEF OptionsOK
<1>4. (\A u \in Threads : call'[u].at # "mysql_library_end") => Unset'
  <2> SUFFICES ASSUME \A u \in Threads : call'[u].at # "mysql_library_end"
               PROVE  Unset'
    OBVIOUS
  <2>1. CASE LibraryEnd(t)
    BY <2>1, SettingsType DEF LibraryEnd, Unset
  <2>2. CASE ~LibraryEnd(t)
    <3>1. ~ClearPool(t)
      BY EnvironmentSteps DEF Step
    <3>2. pool'.plugins = pool.plugins /\ option' = option
      BY <2>2, <3>1, OthersOfConnect
    <3>3. \A u \in Threads : call[u].at # "mysql_library_end"
      <4>1. CASE Connection(t)
        BY <4>1, ConnectionCount DEF CountSame, Counting, Ending
      <4>2. CASE Environment(t)
        BY <2>2, <4>2, EnvironmentSteps
           DEF Environment, SetVersion, FreeEnv, Step, Ready, Idle
      <4> QED
        BY <4>1, <4>2
    <3> QED
      BY <1>1, <3>2, <3>3 DEF OptionsOK, Unset
  <2> QED
    BY <2>1, <2>2
<1>5. ASSUME NEW u \in Threads, call'[u].at \in Setting
      PROVE  OwnOptions(u)'
  <2>1. call[u].at \in Connecting /\ call'[u] = call[u]
    BY <1>2, <1>5 DEF Setting, Connecting
  <2>2. ~LibraryEnd(t)
    <3>1. Present # {}
      BY <2>1, NoneLeft
    <3> QED
      BY <1>1, <3>1 DEF LibraryEnd, CountOK
  <2>3. option' = option /\ dbcs'[call[u].dbc] = dbcs[call[u].dbc]
    BY <2>1, <2>2, OthersOfConnect, ConnectingLeft DEF DbcLeft
  <2>4. OwnOptions(u)
    BY <1>1, <1>5, <2>1 DEF OptionsOK
  <2> QED
    BY <2>1, <2>3, <2>4 DEF OwnOptions, Owner
<1> QED
  BY <1>3, <1>4, <1>5 DEF OptionsOK

LEMMA ConnectOptions ==
    ASSUME Typed, Tree, CountOK, OptionsOK, NEW t \in Threads,
           NEW d \in Dbcs, NEW set \in SUBSET Options, Connect(t, d, set)
    PROVE  OptionsOK'
<1> SUFFICES ASSUME Never(OptionLapses)' PROVE OptionsOK'
  BY DEF OptionsOK
<1>1. /\ Step(t, "application", "set_plugin_option")
      /\ call'[t].dbc = d /\ call'[t].next = 1
  BY ConnectionSteps
<1>2. /\ option' = option /\ pool'.plugins = pool.plugins
      /\ lapses \subseteq lapses' /\ dbcs[d] # None
  BY TypedParts DEF Connect, PoolT, Meets, Existing
<1>3. Never(OptionLapses)
  BY <1>2 DEF Never
<1>4. Others(t, Connecting) = {}
  BY DEF Connect, Meets, When, Never, OptionLapses
<1>5. \A u \in Threads \ {t} : call'[u].at \notin Connecting
  BY <1>1, <1>4 DEF Others, Step
<1>6. dbcs'[d].set = set
  <2>1. dbcs[d] \in DbcT
    BY TypedParts DEF Connect
  <2>2. dbcs' = [dbcs EXCEPT ![d] = [dbcs[d] EXCEPT !.set = set]]
    BY DEF Connect
  <2>3. [dbcs[d] EXCEPT !.set = set].set = set
    BY <2>1 DEF DbcT
  <2> QED
    BY <2>2, <2>3, TypedParts
<1>7. \A i \in DOMAIN Settings :
         ~Settings[i].always /\ Settings[i].option \notin set =>
             option[Settings[i].option] = None
  <2>1. ~\E i \in DOMAIN Settings : /\ ~Settings[i].always
                                    /\ option[Settings[i].option] # None
                                    /\ Settings[i].option \notin set
    BY DEF Connect, Meets, When, Never, OptionLapses
  <2> QED
    BY <2>1
<1>8. OwnOptions(t)'
  BY <1>1, <1>2, <1>6, <1>7, SettingsType DEF OwnOptions
<1>9. (\A u \in Threads : call'[u].at # "mysql_library_end") => Unset'
  BY <1>1, <1>2, <1>3 DEF OptionsOK, Unset, Step
<1> QED
  BY <1>5, <1>8, <1>9 DEF OptionsOK, Setting, Connecting

LEMMA LookOptions ==
    ASSUME Typed, Tree, CountOK, PluginsOK, OptionsOK, NEW t \in Threads,
           Look(t) \/ AddPlugin(t) \/ SetOption(t)
    PROVE  OptionsOK'
<1> SUFFICES ASSUME Never(OptionLapses)' PROVE OptionsOK'
  BY DEF OptionsOK
<1>1. Never(OptionLapses) /\ Never({"raced"}) /\ dbcs' = dbcs
  BY DEF Look, AddPlugin, SetOption, Never, OptionLapses
<1>2. /\ \A u \in Threads \ {t} : call'[u] = call[u]
      /\ call'[t].dbc = call[t].dbc /\ call[t].next \in 1..Len(Settings)
      /\ call[t].at \in Setting
  BY LookGoes, AddPluginGoes, SetOptionGoes
     DEF Look, AddPlugin, SetOption, Setting
<1>3. /\ call[t].at \in Connecting
      /\ \A u \in Threads \ {t} : call'[u].at \notin Connecting
  BY <1>1, <1>2 DEF OptionsOK, Setting, Connecting
<1>4. \A u \in Threads : call[u].at # "mysql_library_end"
  BY <1>1, <1>3, NoneLeft DEF CountOK
<1>5. Unset /\ OwnOptions(t)
  BY <1>1, <1>2, <1>4 DEF OptionsOK
<1> DEFINE n == call[t].next
           s == Settings[n]
           d == call[t].dbc
<1>6. CASE Look(t)
  <2>1. pool' = pool /\ option' = option
    BY <1>6 DEF Look, poolVars
  <2>2. OwnOptions(t)'
    <3>1. CASE call'[t].next = n
      BY <1>1, <1>2, <1>5, <2>1, <3>1 DEF OwnOptions, Owner
    <3>2. CASE call'[t].at = "set_plugin_option" /\ call'[t].next = n + 1
      <4>1. s.option \notin dbcs[d].set /\ (~s.always \/ ~HasPlugin(s))
        BY <1>6, <3>2, LookSets
      <4>2. option[s.option] = None
        BY <1>2, <1>5, <4>1 DEF OwnOptions, Unset, HasPlugin
      <4>3. option[s.option] = Owner(s.option, d)
        BY <4>1, <4>2 DEF Owner
      <4>4. \A i \in 1..Len(Settings) : /\ i < n + 1 <=> i < n \/ i = n
                                        /\ i >= n + 1 => i >= n
        BY <1>2, SettingsType
      <4> QED
        BY <1>1, <1>2, <1>5, <2>1, <3>2, <4>3, <4>4 DEF OwnOptions, Owner
    <3> QED
      BY <1>6, <3>1, <3>2, LookGoes
  <2> QED
    BY <1>3, <1>5, <2>1, <2>2
       DEF OptionsOK, Unset, Setting, Connecting
<1>7. CASE AddPlugin(t)
  <2>1. /\ option' = option /\ pool.plugins \subseteq pool'.plugins
        /\ call'[t].at \in Setting => call'[t].next = n
    <3>1. option' = option
      BY <1>7 DEF AddPlugin
    <3>2. pool.plugins \subseteq pool'.plugins
      <4>1. \/ pool' = [pool EXCEPT !.plugins = @ \cup {s.plugin},
                                   !.pool_mtx = t]
            \/ pool' = [pool EXCEPT !.pool_mtx = t]
        BY <1>7, AddPluginGoes
      <4>2. pool \in PoolT
        BY TypedParts
      <4>3. \/ pool'.plugins = pool.plugins \cup {s.plugin}
            \/ pool'.plugins = pool.plugins
        BY <4>1, <4>2 DEF PoolT
      <4> QED
        BY <4>3
    <3>3. call'[t].at \in Setting => call'[t].next = n
      BY <1>7, AddPluginGoes DEF Setting
    <3> QED
      BY <3>1, <3>2, <3>3
  <2>2. call'[t].at \in Setting => OwnOptions(t)'
    BY <1>1, <1>2, <1>5, <2>1 DEF OwnOptions, Owner
  <2>3. Unset'
    BY <1>5, <2>1 DEF Unset
  <2> QED
    BY <1>3, <2>2, <2>3 DEF OptionsOK, Setting, Connecting
<1>8. CASE SetOption(t)
  <2>1. pool'.plugins = pool.plugins /\ call[t].at = "set_option"
    BY <1>8, TypedParts DEF SetOption, PoolT
  <2>2. CASE call'[t].at = "failed" /\ option' = option
    BY <1>3, <1>5, <2>1, <2>2
       DEF OptionsOK, Unset, Setting, Connecting
  <2>3. CASE /\ call'[t].next = n + 1
             /\ option' = [option EXCEPT ![s.option] = Owner(s.option, d)]
    <3>1. /\ s.option \in Options
          /\ \A i \in 1..Len(Settings) : Settings[i].option \in Options
      BY <1>2, SettingsType
    <3>2. /\ option'[s.option] = Owner(s.option, d)
          /\ \A i \in 1..Len(Settings) :
                i # n => option'[Settings[i].option]
                            = option[Settings[i].option]
      BY <1>2, <2>3, <3>1, TypedParts, SettingsType, SettingsAssumption
    <3>3. s.plugin \in pool.plugins
      BY <1>1, <2>1 DEF PluginsOK
    <3>4. Unset'
      BY <1>5, <2>1, <3>2, <3>3 DEF Unset
    <3>5. \A i \in 1..Len(Settings) :
             /\ i < n + 1 => i < n \/ i = n
             /\ i >= n + 1 => i >= n /\ i # n
      BY <1>2, SettingsType
    <3>6. OwnOptions(t)'
      BY <1>1, <1>2, <1>5, <2>3, <3>2, <3>5 DEF OwnOptions, Owner
    <3> QED
      BY <1>3, <3>4, <3>6 DEF OptionsOK, Setting, Connecting
  <2> QED
    BY <1>8, <2>2, <2>3, SetOptionGoes DEF Owner
<1> QED
  BY <1>6, <1>7, <1>8

LEMMA OptionsNext ==
    ASSUME Typed, Tree, CountOK, PluginsOK, OptionsOK, [Next]_vars
    PROVE  OptionsOK'
<1>1. ASSUME NEW t \in Threads, Environment(t) \/ Connection(t)
      PROVE  OptionsOK'
  BY <1>1, OthersOptions, ConnectOptions, LookOptions DEF OnItsWay
<1>2. CASE UNCHANGED vars
  BY <1>2 DEF vars, OptionsOK, Never, Unset, OwnOptions, Owner
<1> QED
  BY <1>1, <1>2 DEF Next

(* Connects do not disturb each other though the pool of plugins and the    *)
(* options of plugins are the process's (connect.cc:197, 609): one at a     *)
(* time a connection finds every option its own when it comes to the        *)
(* handshake, those it leaves alone not being set by one before it.         *)
THEOREM ProcessConnects == Spec => []ConnectsApart
<1>1. Init => /\ Typed /\ Tree /\ CountOK /\ LibraryOK /\ PluginsOK
              /\ ConnectsOK /\ HandlesOK /\ OptionsOK
  <2>1. Init => /\ \A t \in Threads : call[t].at = "application"
                /\ \A i \in 1..Len(Settings) :
                      option[Settings[i].option] = None
    BY SettingsType DEF Init, Idle
  <2>2. Init => ConnectsOK /\ HandlesOK
    BY <2>1 DEF ConnectsOK, HandlesOK, Busy, NoneRefused, OwnHandle, At
  <2>3. Init => OptionsOK
    BY <2>1 DEF OptionsOK, Unset, Setting, Connecting
  <2> QED
    BY <2>2, <2>3, InitTree, InitCount, InitLibrary
<1>2. /\ Typed /\ Tree /\ CountOK /\ LibraryOK /\ PluginsOK
      /\ ConnectsOK /\ HandlesOK /\ OptionsOK
      /\ [Next]_vars
      => /\ Typed' /\ Tree' /\ CountOK' /\ LibraryOK' /\ PluginsOK'
         /\ ConnectsOK' /\ HandlesOK' /\ OptionsOK'
  BY TypedNext, TreeNext, CountNext, LibraryNext, ConnectsNext, OptionsNext
<1>3. Typed /\ ConnectsOK /\ HandlesOK /\ OptionsOK => ConnectsApart
  <2> SUFFICES ASSUME Typed, ConnectsOK, HandlesOK, OptionsOK
               PROVE  ConnectsApart
    OBVIOUS
  <2>1. NoneRefused /\ OwnHandle
    <3>1. Never({"together", "raced"}) => Never({"together"})
      BY DEF Never
    <3> QED
      BY <3>1 DEF ConnectsOK, HandlesOK, NoneRefused, OwnHandle
  <2>2. OptionsOwn
    <3> SUFFICES ASSUME Never(OptionLapses), NEW t \in Threads,
                        Handshake(t), NEW o \in Options
                 PROVE  option[o] = Owner(o, call[t].dbc)
      BY DEF OptionsOwn, OptionLapses, Owner
    <3>1. PICK i \in 1..Len(Settings) : o = Settings[i].option
      BY SettingsType
    <3>2. call[t].at \in Setting /\ i < call[t].next
      BY CallTyped, SettingsType DEF Handshake, Setting, Shape
    <3> QED
      BY <3>1, <3>2 DEF OptionsOK, OwnOptions
  <2> QED
    BY <2>1, <2>2 DEF ConnectsApart
<1> QED
  BY <1>1, <1>2, <1>3, PTL DEF Spec
=============================================================================
