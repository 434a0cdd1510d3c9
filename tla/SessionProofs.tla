--------------------------- MODULE SessionProofs ---------------------------
(* Theorems about the driver and its session, for any statements, values,  *)
(* servers and data sources, and any number of lapses of the given kinds.  *)
EXTENDS Session, TLAPS

NoFormer == ~Met({"again", "pooled", "unasked", "lost"})

(* The row limit of the session is none or the one the driver remembers; in*)
(* the driver's first session it is the one.                               *)
LimitCached ==
    /\ server.limit # 0 => dbc.sql_select_limit = server.limit
    /\ NoFormer => server.limit = LimitSent(dbc.sql_select_limit)

(* A connection that is to be woken up has no statements, and only such a  *)
(* one has the session of its former user.                                 *)
Asleep ==
    /\ dbc.need_to_wakeup =>
           /\ \A s \in Stmts : stmts[s] = Free
           /\ asked = NothingAsked
           /\ held = "app" => Met({"pooled", "unasked"})
    /\ server.owner = "former" => dbc.need_to_wakeup
    /\ server.owner = "former" /\ held = "app" => Met({"unasked"})
    /\ held = "pool" => /\ last = Idle /\ ~rolled /\ dbc.need_to_wakeup
                        /\ link = "up" => server.owner = "former"
    /\ link \in {"lost", "noticed"} /\ ~Met({"lost"}) => dbc.need_to_wakeup

(* Work that was lost is still open for the client library, and that lets   *)
(* no command through before one has failed; a session that is still to be *)
(* begun is untouched.                                                     *)
WorkKnown ==
    /\ link = "up" => mysql.in_trans = server.work
    /\ link # "up" => ~server.work
    /\ rolled /\ ~Met({"env", "swallowed"}) => link = "lost" /\ mysql.in_trans
    /\ link = "none" => server.limit = 0

SessInv == TypeOK /\ LimitCached /\ Asleep /\ WorkKnown

(* What the application is told.                                           *)
Answers == RowLimits /\ SessionsApart /\ EndTranTruthful

SessionT == [autocommit : BOOLEAN, isolation : Known, limit : Nat,
             catalog : Catalogs, work : BOOLEAN,
             owner : {"present", "former"}, seen : BOOLEAN]
ClientT  == [autocommit : BOOLEAN, in_trans : BOOLEAN, db : Catalogs]
DriverT  == [commit_flag : {"none", "on", "off"}, txn_isolation : Nat,
             sql_select_limit : Nat \cup {Unlimited},
             database : Catalogs \cup {NoName}, need_to_wakeup : BOOLEAN]
AskedT   == [autocommit : SUBSET BOOLEAN, isolation : SUBSET Levels]
Limits   == MaxRows \cup {0}

LEMMA Types ==
    TypeOK <=> /\ config \in Configs
               /\ link \in {"none", "up", "lost", "noticed"}
               /\ server \in SessionT /\ mysql \in ClientT /\ dbc \in DriverT
               /\ stmts \in [Stmts -> MaxRows \cup {0, Free}]
               /\ asked \in AskedT
               /\ held \in {"app", "pool"} /\ rolled \in BOOLEAN
               /\ lapses \subseteq Lapses
BY DEF TypeOK, SessionT, ClientT, DriverT, AskedT

LEMMA ConfigType ==
    ASSUME TypeOK
    PROVE  /\ config.NO_TRANSACTIONS \in BOOLEAN
           /\ config.AUTO_RECONNECT \in BOOLEAN
           /\ config.autocommit \in BOOLEAN /\ config.isolation \in Known
BY ConfigsAssumption DEF TypeOK

(* A new session.                                                          *)
LEMMA FreshType ==
    ASSUME TypeOK, NEW db \in Catalogs
    PROVE  /\ Fresh(db) \in SessionT
           /\ Fresh(db).limit = 0 /\ Fresh(db).work = FALSE
           /\ Fresh(db).owner = "present" /\ Fresh(db).catalog = db
           /\ Fresh(db).seen = FALSE
           /\ Fresh(db).autocommit = config.autocommit
           /\ Fresh(db).isolation = config.isolation
BY ConfigType DEF Fresh, SessionT

LEMMA WokenType ==
    ASSUME TypeOK
    PROVE  /\ Woken \in SessionT /\ WokenDb \in Catalogs
           /\ WokenDbc \in DriverT
           /\ WokenDbc.need_to_wakeup = FALSE
           /\ WokenDbc.sql_select_limit = dbc.sql_select_limit
           /\ WokenDbc.txn_isolation = dbc.txn_isolation
           /\ WokenDbc.database = dbc.database
           /\ WokenDbc.commit_flag = dbc.commit_flag
           /\ IF dbc.need_to_wakeup
              THEN Woken = Fresh(DATABASE) /\ WokenDb = DATABASE
              ELSE Woken = server /\ WokenDb = mysql.db
<1>1. server \in SessionT /\ mysql.db \in Catalogs /\ dbc \in DriverT
  BY Types DEF ClientT
<1>2. Woken \in SessionT /\ WokenDb \in Catalogs
  BY <1>1, CatalogsAssumption, FreshType DEF Woken, WokenDb
<1>3. WokenDbc \in DriverT
  BY <1>1 DEF WokenDbc, DriverT
<1>4. /\ WokenDbc.need_to_wakeup = FALSE
      /\ WokenDbc.sql_select_limit = dbc.sql_select_limit
      /\ WokenDbc.txn_isolation = dbc.txn_isolation
      /\ WokenDbc.database = dbc.database
      /\ WokenDbc.commit_flag = dbc.commit_flag
  BY <1>1 DEF WokenDbc, DriverT
<1> QED
  BY <1>2, <1>3, <1>4 DEF Woken, WokenDb

LEMMA AnsweredType ==
    ASSUME NEW s \in SessionT, NEW db \in Catalogs, Answered(s, db)
    PROVE  /\ link' = "up" /\ server' = s /\ server' \in SessionT
           /\ mysql' \in ClientT
           /\ mysql'.autocommit = s.autocommit
           /\ mysql'.in_trans = s.work /\ mysql'.db = db
BY DEF Answered, SessionT, ClientT

LEMMA BrokenType ==
    ASSUME TypeOK, Broken
    PROVE  /\ link # "up" /\ link' = "noticed" /\ server' = server
           /\ mysql' \in ClientT
           /\ mysql' = mysql \/ ~mysql'.in_trans
           /\ mysql'.autocommit = mysql.autocommit
BY Types DEF Broken, ClientT

LEMMA FailsType ==
    ASSUME TypeOK, Fails
    PROVE  /\ server' = server /\ mysql' \in ClientT
           /\ \/ /\ Reachable /\ link' = "up"
                 /\ mysql'.in_trans = server.work
                 /\ mysql'.autocommit = server.autocommit
              \/ /\ link # "up" /\ link' = "noticed"
                 /\ mysql'.autocommit = mysql.autocommit
<1>1. server \in SessionT /\ mysql.db \in Catalogs
  BY Types DEF ClientT
<1> QED
  BY <1>1, AnsweredType, BrokenType DEF Fails, Done

LEMMA WokenDoneType ==
    ASSUME TypeOK, NEW s \in SessionT, NEW db \in Catalogs,
           WokenDone(s, db)
    PROVE  /\ Reachable /\ link' = "up" /\ server' = s /\ mysql' \in ClientT
           /\ mysql'.autocommit = s.autocommit /\ mysql'.in_trans = s.work
           /\ dbc' = WokenDbc /\ dbc' \in DriverT
BY AnsweredType, WokenType DEF WokenDone

(* A wake-up that fails.                                                   *)
LEMMA RefusedType ==
    ASSUME TypeOK, WakeupRefused \/ WakeupBroken
    PROVE  /\ dbc.need_to_wakeup /\ dbc' = dbc
           /\ mysql' \in ClientT /\ server' \in SessionT
           /\ mysql'.autocommit = mysql.autocommit
           /\ \/ link' = "lost" /\ server' = Fresh(mysql.db)
                 /\ mysql' = mysql /\ Reachable
              \/ link' = "noticed" /\ server' = server /\ link # "up"
<1>1. mysql \in ClientT /\ server \in SessionT /\ mysql.db \in Catalogs
  BY Types DEF ClientT
<1>2. CASE WakeupRefused
  BY <1>1, <1>2, FreshType DEF WakeupRefused
<1>3. CASE WakeupBroken
  BY <1>1, <1>3, BrokenType DEF WakeupBroken
<1> QED
  BY <1>2, <1>3

LEMMA WokenFailsType ==
    ASSUME TypeOK, WokenFails
    PROVE  /\ dbc' = WokenDbc /\ dbc' \in DriverT
           /\ server' = Woken /\ server' \in SessionT /\ mysql' \in ClientT
           /\ \/ /\ Reachable /\ link' = "up"
                 /\ mysql'.in_trans = server'.work
                 /\ mysql'.autocommit = server'.autocommit
              \/ /\ link # "up" /\ link' = "noticed" /\ ~dbc.need_to_wakeup
                 /\ mysql'.autocommit = mysql.autocommit
<1>1. dbc' = WokenDbc /\ dbc' \in DriverT
  BY WokenType DEF WokenFails
<1>2. CASE dbc.need_to_wakeup
  <2>1. WokenDone(Woken, WokenDb)
    BY <1>2 DEF WokenFails
  <2> QED
    BY <1>1, <2>1, WokenDoneType, WokenType
<1>3. CASE ~dbc.need_to_wakeup
  <2>1. Fails /\ Woken = server
    BY <1>3 DEF WokenFails, Woken
  <2>2. server \in SessionT
    BY Types
  <2> QED
    BY <1>1, <1>3, <2>1, <2>2, FailsType
<1> QED
  BY <1>2, <1>3

LEMMA WokenIdleType ==
    ASSUME TypeOK, WokenIdle
    PROVE  /\ dbc' = WokenDbc /\ dbc' \in DriverT
           /\ server' = Woken /\ server' \in SessionT /\ mysql' \in ClientT
           /\ \/ /\ Reachable /\ link' = "up" /\ dbc.need_to_wakeup
                 /\ mysql'.in_trans = server'.work
                 /\ mysql'.autocommit = server'.autocommit
              \/ link' = link /\ mysql' = mysql /\ ~dbc.need_to_wakeup
<1>1. dbc' = WokenDbc /\ dbc' \in DriverT
  BY WokenType DEF WokenIdle
<1>2. CASE dbc.need_to_wakeup
  <2>1. WokenDone(Woken, WokenDb)
    BY <1>2 DEF WokenIdle
  <2> QED
    BY <1>1, <1>2, <2>1, WokenDoneType, WokenType
<1>3. CASE ~dbc.need_to_wakeup
  <2>1. NoCommand /\ Woken = server
    BY <1>3 DEF WokenIdle, Woken
  <2>2. server \in SessionT /\ mysql \in ClientT
    BY Types
  <2> QED
    BY <1>1, <1>3, <2>1, <2>2 DEF NoCommand
<1> QED
  BY <1>2, <1>3

LEMMA MeetType ==
    ASSUME TypeOK, NEW kind, Meet(kind)
    PROVE  /\ lapses' \subseteq Lapses /\ lapses' = lapses \cup {kind}
BY Types DEF Meet

LEMMA EndType ==
    ASSUME TypeOK, Over \/ Failed \/ \E call, value : Return(call, value)
    PROVE  rolled' \in BOOLEAN
BY DEF TypeOK, Over, Failed, Return

LEMMA NotWokenType ==
    ASSUME TypeOK, NotWoken
    PROVE  TypeOK'
<1>1. /\ config' = config /\ stmts' = stmts /\ asked' = asked
      /\ held' = held /\ lapses' = lapses
  BY DEF NotWoken
<1>2. /\ dbc' = dbc /\ mysql' \in ClientT /\ server' \in SessionT
      /\ link' \in {"lost", "noticed"} /\ rolled' \in BOOLEAN
  BY RefusedType DEF NotWoken, Failed
<1> QED
  BY <1>1, <1>2, Types DEF TypeOK, SessionT, ClientT

LEMMA TypeFromParts ==
    ASSUME TypeOK, config' = config,
           link' \in {"none", "up", "lost", "noticed"},
           server' \in SessionT, mysql' \in ClientT, dbc' \in DriverT,
           stmts' \in [Stmts -> MaxRows \cup {0, Free}], asked' \in AskedT,
           held' \in {"app", "pool"}, rolled' \in BOOLEAN,
           lapses' \subseteq Lapses
    PROVE  TypeOK'
BY DEF TypeOK, SessionT, ClientT, DriverT, AskedT

(* The session DBC::connect leaves.                                        *)
Begun == [Fresh(DATABASE) EXCEPT !.autocommit = AutocommitSent,
                                 !.isolation = IsolationSent,
                                 !.seen = dbc.txn_isolation \in Known]

LEMMA SentType ==
    ASSUME TypeOK PROVE AutocommitSent \in BOOLEAN /\ IsolationSent \in Known
BY ConfigType DEF AutocommitSent, IsolationSent, LevelSent, Known

LEMMA BegunType ==
    ASSUME TypeOK
    PROVE  /\ Begun \in SessionT /\ DATABASE \in Catalogs
           /\ Begun.autocommit = AutocommitSent
           /\ Begun.isolation = IsolationSent
           /\ Begun.seen = (dbc.txn_isolation \in Known)
           /\ Begun.limit = 0 /\ Begun.work = FALSE
           /\ Begun.owner = "present" /\ Begun.catalog = DATABASE
<1>1. DATABASE \in Catalogs
  BY CatalogsAssumption
<1>2. PICK f \in SessionT : f = Fresh(DATABASE)
  BY <1>1, FreshType
<1>3. PICK a \in BOOLEAN : a = AutocommitSent
  BY SentType
<1>4. PICK i \in Known : i = IsolationSent
  BY SentType
<1>5. PICK k \in BOOLEAN : k = (dbc.txn_isolation \in Known)
  <2>1. (dbc.txn_isolation \in Known) \in BOOLEAN
    BY SMT
  <2> QED
    BY <2>1, Zenon
<1>6. Begun = [f EXCEPT !.autocommit = a, !.isolation = i, !.seen = k]
  BY <1>2, <1>3, <1>4, <1>5 DEF Begun
<1>7. /\ f.limit = 0 /\ f.work = FALSE /\ f.owner = "present"
      /\ f.catalog = DATABASE
  BY <1>1, <1>2, FreshType
<1> QED
  BY <1>1, <1>3, <1>4, <1>5, <1>6, <1>7 DEF SessionT

LEMMA SetEarlyType == ASSUME TypeOK, SetEarly PROVE TypeOK'
<1>1. /\ config' = config /\ link' = link /\ server' = server
      /\ mysql' = mysql /\ stmts' = stmts /\ held' = held
  BY DEF SetEarly
<1>2. dbc' \in DriverT /\ asked' \in AskedT
  BY Types, LevelsAssumption DEF SetEarly, DriverT, AskedT
<1>3. lapses' \subseteq Lapses
  BY Types, MeetType DEF SetEarly
<1>4. rolled' \in BOOLEAN
  BY EndType DEF SetEarly
<1> QED
  BY <1>1, <1>2, <1>3, <1>4, TypeFromParts, Types

LEMMA ConnectType == ASSUME TypeOK, Connect PROVE TypeOK'
<1>1. /\ config' = config /\ stmts' = stmts /\ held' = held
      /\ lapses' = lapses
  BY DEF Connect
<1>2. rolled' \in BOOLEAN
  BY EndType DEF Connect
<1>3. FlagKept \in {"none", "on", "off"} /\ DATABASE \in Catalogs
  BY Types, CatalogsAssumption DEF FlagKept, DriverT
<1>4. dbc' \in DriverT /\ asked' \in AskedT
  <2>1. dbc' \in {dbc, [dbc EXCEPT !.database = DATABASE,
                                 !.commit_flag = FlagKept]}
    BY DEF Connect
  <2>2. [dbc EXCEPT !.database = DATABASE, !.commit_flag = FlagKept]
            \in DriverT
    BY <1>3, Types DEF DriverT
  <2>3. asked' = asked \/ asked' = [asked EXCEPT !.autocommit = {}]
    BY Types DEF Connect, AskedT
  <2> QED
    BY <2>1, <2>2, <2>3, Types DEF AskedT
<1>6. CASE Answered(Begun, DATABASE)
  <2>1. link' = "up" /\ server' \in SessionT /\ mysql' \in ClientT
    BY <1>6, BegunType, AnsweredType
  <2> QED
    BY <1>1, <1>2, <1>4, <2>1, TypeFromParts, Types
<1>7. CASE UNCHANGED <<link, server, mysql>>
  BY <1>1, <1>2, <1>4, <1>7, TypeFromParts, Types
<1> QED
  BY <1>6, <1>7 DEF Connect, Begun

LEMMA DisconnectType == ASSUME TypeOK, Disconnect PROVE TypeOK'
<1>1. DATABASE \in Catalogs
  BY CatalogsAssumption
<1>2. /\ config' = config /\ held' = held /\ mysql' = mysql
      /\ link' = "none" /\ rolled' = FALSE
      /\ server' = Fresh(DATABASE) /\ asked' = NothingAsked
      /\ stmts' = [s \in Stmts |-> Free]
  BY DEF Disconnect
<1>3. dbc' \in DriverT
  BY Types DEF Disconnect, DriverT
<1>4. lapses' \subseteq Lapses
  BY MeetType DEF Disconnect
<1>5. asked' \in AskedT /\ stmts' \in [Stmts -> MaxRows \cup {0, Free}]
  BY <1>2 DEF NothingAsked, AskedT
<1>6. server' \in SessionT
  BY <1>1, <1>2, FreshType
<1> QED
  BY <1>2, <1>3, <1>4, <1>5, <1>6, TypeFromParts, Types

LEMMA PoolType == ASSUME TypeOK, Reset \/ Ask \/ HandOut \/ Drop PROVE TypeOK'
<1>1. CASE Reset
  <2>1. CASE NotWoken
    BY <2>1, NotWokenType
  <2>2. CASE ~NotWoken
    <3>1. /\ config' = config /\ lapses' = lapses
          /\ held' = "pool" /\ rolled' = FALSE /\ asked' = NothingAsked
          /\ stmts' = [s \in Stmts |-> Free]
      BY <1>1, <2>2 DEF Reset
    <3>2. dbc' \in DriverT
      BY <1>1, <2>2, Types DEF Reset, DriverT
    <3>3. mysql' \in ClientT /\ link' \in {"none", "up", "lost", "noticed"}
      <4>1. [autocommit |-> config.autocommit, in_trans |-> FALSE,
             db |-> DATABASE] \in ClientT
        BY ConfigType, CatalogsAssumption DEF ClientT
      <4>2. \/ link' = link /\ mysql' = mysql
            \/ /\ link' = "up"
               /\ mysql' = [autocommit |-> config.autocommit,
                            in_trans |-> FALSE, db |-> DATABASE]
        BY <1>1, <2>2 DEF Reset
      <4> QED
        BY <4>1, <4>2, Types
    <3>4. server' \in SessionT
      BY <1>1, <2>2, Types, WokenType DEF Reset, SessionT
    <3>5. asked' \in AskedT /\ stmts' \in [Stmts -> MaxRows \cup {0, Free}]
      BY <3>1 DEF NothingAsked, AskedT
    <3> QED
      BY <3>1, <3>2, <3>3, <3>4, <3>5, TypeFromParts, Types
  <2> QED
    BY <2>1, <2>2
<1>2. CASE Ask
  <2>1. /\ config' = config /\ stmts' = stmts /\ asked' = asked
        /\ rolled' = FALSE /\ held' \in {"app", "pool"}
    BY <1>2, Types DEF Ask
  <2>2. lapses' \subseteq Lapses
    BY <1>2, MeetType DEF Ask
  <2>3. /\ dbc' \in DriverT /\ server' \in SessionT /\ mysql' \in ClientT
        /\ link' \in {"up", "lost", "noticed"}
    BY <1>2, Types, WokenType, WokenDoneType, RefusedType DEF Ask
  <2> QED
    BY <2>1, <2>2, <2>3, TypeFromParts, Types
<1>3. CASE HandOut
  <2>1. lapses' \subseteq Lapses
    BY <1>3, MeetType DEF HandOut
  <2> QED
    BY <1>3, <2>1, TypeFromParts, Types DEF HandOut
<1>4. CASE Drop
  <2>1. server' \in SessionT
    BY <1>4, FreshType, CatalogsAssumption DEF Drop
  <2>2. dbc' \in DriverT
    BY <1>4 DEF Drop, DriverT, NotKnown
  <2> QED
    BY <1>4, <2>1, <2>2, TypeFromParts, Types DEF Drop
<1> QED
  BY <1>1, <1>2, <1>3, <1>4

LEMMA DbcWith ==
    ASSUME NEW d \in DriverT, NEW f \in {"none", "on", "off"},
           NEW i \in Nat, NEW l \in Nat \cup {Unlimited},
           NEW n \in Catalogs \cup {NoName}
    PROVE  /\ [d EXCEPT !.commit_flag = f] \in DriverT
           /\ [d EXCEPT !.txn_isolation = i] \in DriverT
           /\ [d EXCEPT !.sql_select_limit = l] \in DriverT
           /\ [d EXCEPT !.database = n] \in DriverT
BY DEF DriverT

LEMMA AutocommitChanged ==
    ASSUME NEW s \in SessionT, NEW a \in BOOLEAN, NEW w \in BOOLEAN
    PROVE  /\ [s EXCEPT !.autocommit = a, !.work = w] \in SessionT
           /\ [s EXCEPT !.autocommit = a, !.work = w].owner = s.owner
           /\ [s EXCEPT !.autocommit = a, !.work = w].limit = s.limit
BY DEF SessionT

LEMMA IsolationChanged ==
    ASSUME NEW s \in SessionT, NEW i \in Known, NEW k \in BOOLEAN
    PROVE  /\ [s EXCEPT !.isolation = i, !.seen = k] \in SessionT
           /\ [s EXCEPT !.isolation = i, !.seen = k].owner = s.owner
           /\ [s EXCEPT !.isolation = i, !.seen = k].limit = s.limit
BY DEF SessionT

LEMMA NowSeen ==
    ASSUME NEW s \in SessionT
    PROVE  /\ [s EXCEPT !.seen = TRUE] \in SessionT
           /\ [s EXCEPT !.seen = TRUE].owner = s.owner
           /\ [s EXCEPT !.seen = TRUE].limit = s.limit
           /\ [s EXCEPT !.seen = TRUE].autocommit = s.autocommit
           /\ [s EXCEPT !.seen = TRUE].isolation = s.isolation
BY DEF SessionT

LEMMA CatalogChanged ==
    ASSUME NEW s \in SessionT, NEW c \in Catalogs
    PROVE  /\ [s EXCEPT !.catalog = c] \in SessionT
           /\ [s EXCEPT !.catalog = c].owner = s.owner
           /\ [s EXCEPT !.catalog = c].limit = s.limit
BY DEF SessionT

LEMMA WorkChanged ==
    ASSUME NEW s \in SessionT, NEW w \in BOOLEAN
    PROVE  /\ [s EXCEPT !.work = w] \in SessionT
           /\ [s EXCEPT !.work = w].owner = s.owner
           /\ [s EXCEPT !.work = w].limit = s.limit
           /\ [s EXCEPT !.work = w].work = w
BY DEF SessionT

LEMMA LimitChanged ==
    ASSUME NEW s \in SessionT, NEW l \in Nat
    PROVE  /\ [s EXCEPT !.limit = l] \in SessionT
           /\ [s EXCEPT !.limit = l].owner = s.owner
           /\ [s EXCEPT !.limit = l].limit = l
           /\ [s EXCEPT !.limit = l].work = s.work
BY DEF SessionT

(* A call of a connected handle, except where its wake-up fails: the        *)
(* session goes on or a new one begins, the client library hears from the   *)
(* server or finds it gone, and lost work is either known to both or the    *)
(* call is told of.                                                         *)
CallPasses ==
    /\ Connected /\ held' = held /\ config' = config
    /\ lapses \subseteq lapses' /\ lapses' \subseteq Lapses
    /\ asked' \in AskedT
    /\ stmts' \in [Stmts -> MaxRows \cup {0, Free}]
    /\ server' \in SessionT /\ mysql' \in ClientT /\ dbc' \in DriverT
    /\ \/ /\ dbc'.need_to_wakeup = dbc.need_to_wakeup
          /\ server'.owner = server.owner
          /\ dbc.need_to_wakeup => stmts' = stmts /\ asked' = asked
       \/ /\ dbc.need_to_wakeup /\ ~dbc'.need_to_wakeup
          /\ server'.owner = "present" /\ link' = "up"
    /\ \/ link' = "up" /\ mysql'.in_trans = server'.work
       \/ link' = "noticed" /\ link # "up" /\ server'.work = server.work
       \/ link' = link /\ mysql' = mysql /\ server'.work = server.work
    /\ \/ link' = link /\ mysql' = mysql
       \/ Reachable \/ ~rolled' \/ Met({"env", "swallowed"})'
    /\ rolled' \in BOOLEAN /\ (rolled' => rolled)
    /\ LimitCached'

LEMMA CallHolds == ASSUME SessInv, CallPasses PROVE SessInv'
<1>1. TypeOK /\ LimitCached /\ Asleep /\ WorkKnown
  BY DEF SessInv
<1>2. TypeOK'
  <2>1. link' \in {"none", "up", "lost", "noticed"}
    BY <1>1, Types DEF CallPasses
  <2> QED
    BY <1>1, <2>1, TypeFromParts, Types DEF CallPasses
<1>3. Asleep'
  BY <1>1, Types DEF CallPasses, Asleep, Connected, Met
<1>4. WorkKnown'
  BY <1>1, Types DEF CallPasses, WorkKnown, Reachable, Met, Connected
<1> QED
  BY <1>2, <1>3, <1>4 DEF SessInv, CallPasses

(* What the lemmas on single calls have in common.                         *)
Around ==
    /\ Connected /\ held' = held /\ config' = config
    /\ lapses \subseteq lapses' /\ lapses' \subseteq Lapses
    /\ asked' \in AskedT
    /\ stmts' \in [Stmts -> MaxRows \cup {0, Free}]
    /\ rolled' \in BOOLEAN /\ (rolled' => rolled)

LEMMA Quiet ==
    ASSUME last'.call \notin {"query", "lookup", "commit", "rollback"}
    PROVE  Answers'
BY DEF Answers, RowLimits, LimitInForce, NoRowsCut, SessionsApart, OwnSession,
   NoForeignCommit, EndTranTruthful, Queried

LEMMA LimitSame ==
    ASSUME SessInv, lapses \subseteq lapses', server'.limit = server.limit,
           dbc'.sql_select_limit = dbc.sql_select_limit
    PROVE  LimitCached'
BY DEF SessInv, LimitCached, NoFormer, Met, LimitSent

LEMMA LimitWoken ==
    ASSUME SessInv, Connected, dbc.need_to_wakeup, lapses \subseteq lapses',
           server'.limit = 0
    PROVE  LimitCached'
BY DEF SessInv, LimitCached, NoFormer, Met, Asleep, Connected

LEMMA WokenPasses ==
    ASSUME SessInv, Around, Reachable,
           NEW s \in SessionT, NEW db \in Catalogs, Answered(s, db),
           s.owner = Woken.owner, s.limit = Woken.limit,
           dbc' \in DriverT, ~dbc'.need_to_wakeup,
           dbc'.sql_select_limit = dbc.sql_select_limit
    PROVE  CallPasses
<1>1. TypeOK
  BY DEF SessInv
<1>2. /\ link' = "up" /\ server' = s /\ mysql' \in ClientT
      /\ mysql'.in_trans = s.work
  BY AnsweredType
<1>3. CASE dbc.need_to_wakeup
  <2>1. s.owner = "present" /\ s.limit = 0
    BY <1>1, <1>3, WokenType, FreshType, CatalogsAssumption
  <2>2. LimitCached'
    BY <1>2, <1>3, <2>1, LimitWoken DEF Around
  <2> QED
    BY <1>2, <1>3, <2>1, <2>2 DEF CallPasses, Around
<1>4. CASE ~dbc.need_to_wakeup
  <2>1. s.owner = server.owner /\ s.limit = server.limit
    BY <1>1, <1>4, WokenType
  <2>2. LimitCached'
    BY <1>2, <2>1, LimitSame DEF Around
  <2>3. dbc'.need_to_wakeup = dbc.need_to_wakeup
    BY <1>1, <1>4, Types DEF DriverT
  <2> QED
    BY <1>2, <1>4, <2>1, <2>2, <2>3 DEF CallPasses, Around
<1> QED
  BY <1>3, <1>4

LEMMA NoCommandPasses ==
    ASSUME SessInv, Around, NoCommand, dbc' \in DriverT,
           dbc'.need_to_wakeup = dbc.need_to_wakeup,
           dbc.need_to_wakeup => stmts' = stmts /\ asked' = asked,
           dbc'.sql_select_limit = dbc.sql_select_limit
    PROVE  CallPasses
<1>1. /\ server' = server /\ link' = link /\ mysql' = mysql
      /\ server \in SessionT /\ mysql \in ClientT
  BY Types DEF NoCommand, SessInv
<1>2. LimitCached'
  BY <1>1, LimitSame DEF Around
<1> QED
  BY <1>1, <1>2 DEF CallPasses, Around

LEMMA FailsPasses ==
    ASSUME SessInv, Around, Fails, dbc' \in DriverT, ~rolled',
           dbc'.need_to_wakeup = dbc.need_to_wakeup,
           dbc.need_to_wakeup => stmts' = stmts /\ asked' = asked,
           dbc'.sql_select_limit = dbc.sql_select_limit
    PROVE  CallPasses
<1>1. /\ server' = server /\ mysql' \in ClientT /\ server \in SessionT
      /\ \/ link' = "up" /\ mysql'.in_trans = server.work
         \/ link # "up" /\ link' = "noticed"
  BY FailsType, Types DEF SessInv
<1>2. LimitCached'
  BY <1>1, LimitSame DEF Around
<1> QED
  BY <1>1, <1>2 DEF CallPasses, Around

LEMMA WokenIdlePasses ==
    ASSUME SessInv, Around, WokenIdle
    PROVE  CallPasses
<1>1. TypeOK
  BY DEF SessInv
<1>2. CASE dbc.need_to_wakeup
  <2>1. Reachable /\ Answered(Woken, WokenDb) /\ dbc' = WokenDbc
    BY <1>2 DEF WokenIdle, WokenDone
  <2> QED
    BY <1>1, <2>1, WokenType, WokenPasses
<1>3. CASE ~dbc.need_to_wakeup
  <2>1. NoCommand /\ dbc' = WokenDbc
    BY <1>3 DEF WokenIdle
  <2>2. dbc'.need_to_wakeup = dbc.need_to_wakeup
    BY <1>1, <1>3, <2>1, WokenType, Types DEF DriverT
  <2> QED
    BY <1>1, <1>3, <2>1, <2>2, WokenType, NoCommandPasses
<1> QED
  BY <1>2, <1>3

LEMMA WokenFailsPasses ==
    ASSUME SessInv, Around, WokenFails, ~rolled'
    PROVE  CallPasses
<1>1. TypeOK
  BY DEF SessInv
<1>2. CASE dbc.need_to_wakeup
  <2>1. Reachable /\ Answered(Woken, WokenDb) /\ dbc' = WokenDbc
    BY <1>2 DEF WokenFails, WokenDone
  <2> QED
    BY <1>1, <2>1, WokenType, WokenPasses
<1>3. CASE ~dbc.need_to_wakeup
  <2>1. Fails /\ dbc' = WokenDbc
    BY <1>3 DEF WokenFails
  <2>2. dbc'.need_to_wakeup = dbc.need_to_wakeup
    BY <1>1, <1>3, <2>1, WokenType, Types DEF DriverT
  <2> QED
    BY <1>1, <1>3, <2>1, <2>2, WokenType, FailsPasses
<1> QED
  BY <1>2, <1>3

LEMMA Ended ==
    ASSUME TypeOK, Over \/ Failed
    PROVE  /\ last'.call = "none" /\ rolled' \in BOOLEAN
           /\ rolled' => rolled
           /\ Failed => ~rolled'
<1>1. CASE Over
  BY <1>1 DEF TypeOK, Over, Failed, Idle
<1>2. CASE Failed
  BY <1>2 DEF Failed, Idle
<1> QED
  BY <1>1, <1>2 DEF Failed

LEMMA Returned ==
    ASSUME TypeOK, NEW c, NEW value, Return(c, value)
    PROVE  /\ last'.call = c /\ last'.value = value /\ last'.lost = rolled
           /\ rolled' \in BOOLEAN /\ (rolled' => rolled)
BY DEF TypeOK, Return

LEMMA OnlyAround ==
    ASSUME TypeOK, Connected, OnlySession, rolled' \in BOOLEAN,
           rolled' => rolled
    PROVE  Around /\ stmts' = stmts /\ asked' = asked
BY Types DEF OnlySession, Around

LEMMA SetAutocommitPasses ==
    ASSUME SessInv, NEW on \in BOOLEAN, SetAutocommit(on)
    PROVE  NotWoken \/ (CallPasses /\ Answers')
<1>1. TypeOK /\ Connected
  BY DEF SessInv, SetAutocommit
<1>2. [asked EXCEPT !.autocommit = {on}] \in AskedT
  BY <1>1, Types DEF AskedT
<1>3. ASSUME Over \/ Failed, asked' \in AskedT,
             UNCHANGED <<config, stmts, held, lapses>>
      PROVE  Around /\ Answers'
  BY <1>1, <1>3, Ended, Quiet, Types DEF Around
<1>4. CASE /\ ~IsConnected
           /\ dbc' = [dbc EXCEPT !.commit_flag = IF on THEN "on" ELSE "off"]
           /\ asked' = [asked EXCEPT !.autocommit = {on}]
           /\ NoCommand /\ Over
           /\ UNCHANGED <<config, stmts, held, lapses>>
  <2>1. /\ dbc' \in DriverT /\ dbc'.need_to_wakeup = dbc.need_to_wakeup
        /\ dbc'.sql_select_limit = dbc.sql_select_limit
    BY <1>1, <1>4, Types DEF DriverT
  <2>2. dbc.need_to_wakeup = FALSE
    BY <1>1, <1>4, Types DEF IsConnected, DriverT
  <2> QED
    BY <1>2, <1>3, <1>4, <2>1, <2>2, NoCommandPasses
<1>5. CASE WokenIdle /\ Failed /\ OnlySession
  <2>1. Around /\ Answers'
    BY <1>1, <1>3, <1>5, Types DEF OnlySession
  <2> QED
    BY <1>5, <2>1, WokenIdlePasses
<1>6. CASE /\ WokenDone([Woken EXCEPT !.autocommit = on,
                            !.work = @ /\ ~on], WokenDb)
           /\ Over
           /\ asked' = [asked EXCEPT !.autocommit = {on}]
           /\ UNCHANGED <<config, stmts, held, lapses>>
  <2> DEFINE s == [Woken EXCEPT !.autocommit = on, !.work = @ /\ ~on]
  <2>1. s \in SessionT /\ s.owner = Woken.owner /\ s.limit = Woken.limit
    <3>1. PICK w \in BOOLEAN : w = (Woken.work /\ ~on)
      OBVIOUS
    <3>2. s = [Woken EXCEPT !.autocommit = on, !.work = w]
      BY <3>1
    <3> HIDE DEF s
    <3>3. Woken \in SessionT
      BY <1>1, WokenType
    <3> QED
      BY <3>2, <3>3, AutocommitChanged
  <2>2. Reachable /\ Answered(s, WokenDb) /\ dbc' = WokenDbc
    BY <1>6 DEF WokenDone
  <2>3. Around /\ Answers'
    BY <1>2, <1>3, <1>6
  <2> HIDE DEF s
  <2> QED
    BY <1>1, <2>1, <2>2, <2>3, WokenType, WokenPasses
<1>7. CASE WokenFails /\ Failed /\ UNCHANGED asked
           /\ UNCHANGED <<config, stmts, held, lapses>>
  <2>1. Around /\ Answers' /\ ~rolled'
    BY <1>1, <1>3, <1>7, Ended, Types
  <2> QED
    BY <1>7, <2>1, WokenFailsPasses
<1>8. CASE WokenIdle /\ Over /\ asked' = [asked EXCEPT !.autocommit = {on}]
           /\ UNCHANGED <<config, stmts, held, lapses>>
  BY <1>2, <1>3, <1>8, WokenIdlePasses
<1> QED
  BY <1>4, <1>5, <1>6, <1>7, <1>8 DEF SetAutocommit

LEMMA SetIsolationPasses ==
    ASSUME SessInv, NEW v \in Levels, SetIsolation(v)
    PROVE  NotWoken \/ (CallPasses /\ Answers')
<1>1. TypeOK /\ Connected /\ v \in Nat
  BY LevelsAssumption DEF SessInv, SetIsolation
<1>2. [asked EXCEPT !.isolation = {v}] \in AskedT
  BY <1>1, Types DEF AskedT
<1>3. ASSUME Over \/ Failed, asked' \in AskedT, lapses \subseteq lapses',
             lapses' \subseteq Lapses, UNCHANGED <<config, stmts, held>>
      PROVE  Around /\ Answers'
  BY <1>1, <1>3, Ended, Quiet, Types DEF Around
<1>4. CASE /\ ~IsConnected
           /\ dbc' = [dbc EXCEPT !.txn_isolation = v]
           /\ asked' = [asked EXCEPT !.isolation = {v}]
           /\ NoCommand /\ Over
           /\ IF v \in Known THEN UNCHANGED lapses ELSE Meet("level")
           /\ UNCHANGED <<config, stmts, held>>
  <2>1. /\ dbc' \in DriverT /\ dbc'.need_to_wakeup = dbc.need_to_wakeup
        /\ dbc'.sql_select_limit = dbc.sql_select_limit
    BY <1>1, <1>4, Types DEF DriverT
  <2>2. dbc.need_to_wakeup = FALSE
    BY <1>1, <1>4, Types DEF IsConnected, DriverT
  <2>3. lapses \subseteq lapses' /\ lapses' \subseteq Lapses
    BY <1>1, <1>4, MeetType, Types
  <2> QED
    BY <1>2, <1>3, <1>4, <2>1, <2>2, <2>3, NoCommandPasses
<1>5. CASE WokenIdle /\ Failed /\ OnlySession
  <2>1. Around /\ Answers'
    BY <1>1, <1>3, <1>5, Types DEF OnlySession
  <2> QED
    BY <1>5, <2>1, WokenIdlePasses
<1>6. CASE WokenFails /\ Failed /\ OnlySession
  <2>1. Around /\ Answers' /\ ~rolled'
    BY <1>1, <1>3, <1>6, Ended, Types DEF OnlySession
  <2> QED
    BY <1>6, <2>1, WokenFailsPasses
<1>7. CASE /\ v \in Known /\ Reachable
           /\ Answered([Woken EXCEPT !.isolation = v, !.seen = TRUE],
                       WokenDb)
           /\ dbc' = [WokenDbc EXCEPT !.txn_isolation = v]
           /\ asked' = [asked EXCEPT !.isolation = {v}]
           /\ Over
           /\ UNCHANGED <<config, stmts, held, lapses>>
  <2> DEFINE s == [Woken EXCEPT !.isolation = v, !.seen = TRUE]
  <2>1. s \in SessionT /\ s.owner = Woken.owner /\ s.limit = Woken.limit
    BY <1>1, <1>7, WokenType, IsolationChanged
  <2>2. /\ dbc' \in DriverT /\ dbc'.need_to_wakeup = FALSE
        /\ dbc'.sql_select_limit = dbc.sql_select_limit
    BY <1>1, <1>7, WokenType DEF DriverT
  <2>3. Around /\ Answers'
    BY <1>1, <1>2, <1>3, <1>7, Types
  <2>4. Answered(s, WokenDb)
    BY <1>7
  <2> HIDE DEF s
  <2> QED
    BY <1>1, <1>7, <2>1, <2>2, <2>3, <2>4, WokenType, WokenPasses
<1> QED
  BY <1>4, <1>5, <1>6, <1>7 DEF SetIsolation

LEMMA SetCatalogPasses ==
    ASSUME SessInv, NEW c \in Catalogs, SetCatalog(c)
    PROVE  NotWoken \/ (CallPasses /\ Answers')
<1>1. TypeOK /\ Connected
  BY DEF SessInv, SetCatalog
<1>2. ASSUME Over \/ Failed, OnlySession PROVE Around /\ Answers'
  BY <1>1, <1>2, Ended, Quiet, OnlyAround
<1>3. CASE /\ ~IsConnected
           /\ dbc' = [dbc EXCEPT !.database = c]
           /\ NoCommand /\ Over /\ OnlySession
  <2>1. /\ dbc' \in DriverT /\ dbc'.need_to_wakeup = dbc.need_to_wakeup
        /\ dbc'.sql_select_limit = dbc.sql_select_limit
    BY <1>1, <1>3, Types DEF DriverT
  <2>2. dbc.need_to_wakeup = FALSE
    BY <1>1, <1>3, Types DEF IsConnected, DriverT
  <2> QED
    BY <1>2, <1>3, <2>1, <2>2, NoCommandPasses
<1>4. CASE WokenFails /\ Failed /\ OnlySession
  <2>1. Around /\ Answers' /\ ~rolled'
    BY <1>1, <1>2, <1>4, Ended
  <2> QED
    BY <1>4, <2>1, WokenFailsPasses
<1>5. CASE /\ Reachable
           /\ Answered([Woken EXCEPT !.catalog = c], c)
           /\ dbc' = [WokenDbc EXCEPT !.database = c]
           /\ Over /\ OnlySession
  <2> DEFINE s == [Woken EXCEPT !.catalog = c]
  <2>1. s \in SessionT /\ s.owner = Woken.owner /\ s.limit = Woken.limit
    BY <1>1, WokenType, CatalogChanged
  <2>2. /\ dbc' \in DriverT /\ dbc'.need_to_wakeup = FALSE
        /\ dbc'.sql_select_limit = dbc.sql_select_limit
    BY <1>1, <1>5, WokenType DEF DriverT
  <2>3. Around /\ Answers'
    BY <1>2, <1>5
  <2>4. Answered(s, c)
    BY <1>5
  <2> HIDE DEF s
  <2> QED
    BY <1>1, <1>5, <2>1, <2>2, <2>3, <2>4, WokenPasses
<1> QED
  BY <1>3, <1>4, <1>5 DEF SetCatalog

LEMMA GetAutocommitPasses ==
    ASSUME SessInv, GetAutocommit
    PROVE  NotWoken \/ (CallPasses /\ Answers')
<1>1. TypeOK /\ Connected
  BY DEF SessInv, GetAutocommit
<1>2. CASE /\ WokenIdle
           /\ Return("get_autocommit", mysql'.autocommit)
           /\ OnlySession
  <2>1. last'.call = "get_autocommit" /\ rolled' \in BOOLEAN
        /\ (rolled' => rolled)
    BY <1>1, <1>2, Returned
  <2>2. Around /\ Answers'
    BY <1>1, <1>2, <2>1, OnlyAround, Quiet
  <2> QED
    BY <1>2, <2>2, WokenIdlePasses
<1> QED
  BY <1>2 DEF GetAutocommit

LEMMA GetIsolationPasses ==
    ASSUME SessInv, GetIsolation
    PROVE  NotWoken \/ (CallPasses /\ Answers')
<1>1. TypeOK /\ Connected /\ OnlySession
  BY DEF SessInv, GetIsolation
<1>2. ASSUME NEW value, Return("get_isolation", value)
      PROVE  Around /\ Answers'
  <2>1. last'.call = "get_isolation" /\ rolled' \in BOOLEAN
        /\ (rolled' => rolled)
    BY <1>1, <1>2, Returned
  <2> QED
    BY <1>1, <2>1, OnlyAround, Quiet
<1>3. CASE WokenIdle /\ Return("get_isolation", dbc.txn_isolation)
  BY <1>2, <1>3, WokenIdlePasses
<1>4. CASE NoCommand /\ UNCHANGED dbc /\ Return("get_isolation", 4)
  <2>1. dbc' = dbc /\ dbc \in DriverT
    BY <1>1, <1>4, Types
  <2>2. stmts' = stmts /\ asked' = asked
    BY <1>1 DEF OnlySession
  <2> QED
    BY <1>2, <1>4, <2>1, <2>2, NoCommandPasses
<1>5. CASE /\ Reachable /\ Answered([Woken EXCEPT !.seen = TRUE], WokenDb)
           /\ dbc' = [WokenDbc EXCEPT !.txn_isolation = Woken.isolation]
           /\ Return("get_isolation", Woken.isolation)
  <2>1. Woken.isolation \in Nat
    BY <1>1, WokenType DEF SessionT, Known
  <2>2. /\ dbc' \in DriverT /\ dbc'.need_to_wakeup = FALSE
        /\ dbc'.sql_select_limit = dbc.sql_select_limit
    BY <1>1, <1>5, <2>1, WokenType DEF DriverT
  <2>3. /\ [Woken EXCEPT !.seen = TRUE] \in SessionT
        /\ [Woken EXCEPT !.seen = TRUE].owner = Woken.owner
        /\ [Woken EXCEPT !.seen = TRUE].limit = Woken.limit
    BY <1>1, WokenType, NowSeen
  <2> QED
    BY <1>1, <1>2, <1>5, <2>2, <2>3, WokenType, WokenPasses
<1>6. CASE WokenFails /\ Failed
  <2>1. last'.call = "none" /\ rolled' \in BOOLEAN /\ ~rolled'
    BY <1>1, <1>6, Ended
  <2>2. Around /\ Answers'
    BY <1>1, <2>1, OnlyAround, Quiet
  <2> QED
    BY <1>6, <2>1, <2>2, WokenFailsPasses
<1> QED
  BY <1>3, <1>4, <1>5, <1>6 DEF GetIsolation

(* A command to the session as it is.                                      *)
LEMMA DonePasses ==
    ASSUME SessInv, Around, NEW s \in SessionT, NEW db \in Catalogs,
           Answered(s, db), s.owner = server.owner,
           Reachable \/ ~rolled' \/ Met({"env", "swallowed"})',
           dbc' \in DriverT, dbc'.need_to_wakeup = dbc.need_to_wakeup,
           dbc.need_to_wakeup => stmts' = stmts /\ asked' = asked,
           LimitCached'
    PROVE  CallPasses
<1>1. /\ link' = "up" /\ server' = s /\ mysql' \in ClientT
      /\ mysql'.in_trans = s.work
  BY AnsweredType
<1> QED
  BY <1>1 DEF CallPasses, Around

LEMMA GetDeadPasses ==
    ASSUME SessInv, GetDead
    PROVE  \/ /\ WakeupRefused /\ OnlySession /\ Answers'
              /\ rolled' \in BOOLEAN /\ (rolled' => rolled)
           \/ CallPasses /\ Answers'
<1>1. TypeOK /\ Connected /\ OnlySession
  BY DEF SessInv, GetDead
<1>2. \E value \in BOOLEAN : Return("get_dead", value)
  BY DEF GetDead
<1>3. last'.call = "get_dead" /\ rolled' \in BOOLEAN /\ (rolled' => rolled)
  BY <1>1, <1>2, Returned
<1>4. Around /\ Answers' /\ stmts' = stmts /\ asked' = asked
  BY <1>1, <1>3, OnlyAround, Quiet
<1>5. CASE dbc.need_to_wakeup /\ WokenDone(Woken, WokenDb)
  <2>1. Reachable /\ Answered(Woken, WokenDb) /\ dbc' = WokenDbc
    BY <1>5 DEF WokenDone
  <2> QED
    BY <1>1, <1>4, <2>1, WokenType, WokenPasses
<1>6. CASE Done(server) /\ UNCHANGED dbc
  <2>1. /\ server \in SessionT /\ mysql.db \in Catalogs /\ dbc' = dbc
        /\ dbc \in DriverT
    BY <1>1, <1>6, Types DEF ClientT
  <2>2. Reachable /\ Answered(server, mysql.db)
    BY <1>6 DEF Done
  <2>3. server' = server
    BY <2>2 DEF Answered
  <2>4. LimitCached'
    BY <1>4, <2>1, <2>3, LimitSame DEF Around
  <2> QED
    BY <1>4, <2>1, <2>2, <2>4, DonePasses
<1>7. CASE WakeupRefused
  BY <1>1, <1>3, <1>4, <1>7
<1>8. CASE Broken /\ UNCHANGED dbc /\ Return("get_dead", TRUE)
  <2>1. ~rolled' /\ Fails
    BY <1>8 DEF Return, Fails
  <2>2. dbc' = dbc /\ dbc \in DriverT
    BY <1>1, <1>8, Types
  <2> QED
    BY <1>4, <2>1, <2>2, FailsPasses
<1> QED
  BY <1>5, <1>6, <1>7, <1>8 DEF GetDead

LEMMA GetCatalogPasses ==
    ASSUME SessInv, GetCatalog PROVE CallPasses /\ Answers'
<1>1. TypeOK /\ Connected /\ OnlySession /\ (Over \/ Failed)
  BY DEF SessInv, GetCatalog
<1>2. Around /\ Answers' /\ stmts' = stmts /\ asked' = asked
  BY <1>1, Ended, OnlyAround, Quiet
<1>3. CASE NoCommand /\ UNCHANGED dbc
  <2>1. dbc' = dbc /\ dbc \in DriverT
    BY <1>1, <1>3, Types
  <2> QED
    BY <1>2, <1>3, <2>1, NoCommandPasses
<1>4. CASE Done(server) /\ dbc' = [dbc EXCEPT !.database = server.catalog]
  <2>1. /\ server \in SessionT /\ mysql.db \in Catalogs /\ dbc' \in DriverT
        /\ dbc'.need_to_wakeup = dbc.need_to_wakeup
        /\ dbc'.sql_select_limit = dbc.sql_select_limit
    BY <1>1, <1>4, Types DEF ClientT, DriverT, SessionT
  <2>2. Reachable /\ Answered(server, mysql.db)
    BY <1>4 DEF Done
  <2>3. server' = server
    BY <2>2 DEF Answered
  <2>4. LimitCached'
    BY <1>2, <2>1, <2>3, LimitSame DEF Around
  <2> QED
    BY <1>2, <2>1, <2>2, <2>4, DonePasses
<1>5. CASE Fails /\ Failed /\ dbc' = [dbc EXCEPT !.database = NoName]
  <2>1. /\ dbc' \in DriverT /\ dbc'.need_to_wakeup = dbc.need_to_wakeup
        /\ dbc'.sql_select_limit = dbc.sql_select_limit /\ ~rolled'
    BY <1>1, <1>5, Types, Ended DEF DriverT
  <2> QED
    BY <1>2, <1>5, <2>1, FailsPasses
<1> QED
  BY <1>3, <1>4, <1>5 DEF GetCatalog

LEMMA LimitType ==
    ASSUME NEW n \in Limits PROVE n \in Nat \cup {Unlimited}
<1>1. CASE n = 0
  BY <1>1
<1>2. CASE n \in MaxRows
  BY <1>2, MaxRowsAssumption
<1> QED
  BY <1>1, <1>2 DEF Limits

(* Statements come to a connection that is awake.                          *)
LEMMA HasStatement ==
    ASSUME SessInv, Connected, NEW s \in Stmts, stmts[s] # Free
    PROVE  /\ ~dbc.need_to_wakeup /\ dbc.need_to_wakeup = FALSE
           /\ server.owner = "present" /\ stmts[s] \in Limits
           /\ stmts[s] \in Nat \cup {Unlimited}
<1>1. ~dbc.need_to_wakeup /\ dbc.need_to_wakeup = FALSE
  BY Types DEF SessInv, Asleep, DriverT
<1>2. server.owner = "present"
  BY <1>1, Types DEF SessInv, Asleep, SessionT
<1>3. stmts[s] \in Limits /\ stmts[s] \in Nat \cup {Unlimited}
  <2>1. stmts \in [Stmts -> MaxRows \cup {0, Free}]
    BY Types DEF SessInv
  <2>2. stmts[s] \in MaxRows \cup {0}
    BY <2>1
  <2> QED
    BY <2>2, LimitType DEF Limits
<1> QED
  BY <1>1, <1>2, <1>3

LEMMA AllocStmtPasses ==
    ASSUME SessInv, NEW s \in Stmts, AllocStmt(s)
    PROVE  NotWoken \/ (CallPasses /\ Answers')
<1>1. TypeOK /\ Connected
  BY DEF SessInv, AllocStmt
<1>2. CASE /\ WokenIdle /\ stmts' = [stmts EXCEPT ![s] = 0] /\ Over
           /\ UNCHANGED <<config, asked, held, lapses>>
  <2>1. stmts' \in [Stmts -> MaxRows \cup {0, Free}]
    BY <1>1, <1>2, Types
  <2>2. Around /\ Answers'
    BY <1>1, <1>2, <2>1, Ended, Quiet, Types DEF Around
  <2> QED
    BY <1>2, <2>2, WokenIdlePasses
<1> QED
  BY <1>2 DEF AllocStmt

LEMMA StmtPasses ==
    ASSUME SessInv, NEW s \in Stmts,
           FreeStmt(s) \/ \E n \in MaxRows : SetMaxRows(s, n)
    PROVE  CallPasses /\ Answers'
<1>1. /\ TypeOK /\ Connected /\ stmts[s] # Free /\ Over /\ NoCommand
      /\ UNCHANGED <<config, dbc, asked, held, lapses>>
  BY DEF SessInv, FreeStmt, SetMaxRows
<1>2. stmts' \in [Stmts -> MaxRows \cup {0, Free}]
  BY <1>1, Types DEF FreeStmt, SetMaxRows
<1>3. Around /\ Answers'
  BY <1>1, <1>2, Ended, Quiet, Types DEF Around
<1>4. ~dbc.need_to_wakeup /\ dbc' = dbc /\ dbc \in DriverT
  BY <1>1, HasStatement, Types
<1> QED
  BY <1>1, <1>3, <1>4, NoCommandPasses

(* A session and the driver's fields agree on the row limit.               *)
Cached(s, d) == s.limit # 0 => d.sql_select_limit = s.limit
Exact(s, d)  == s.limit = LimitSent(d.sql_select_limit)

LEMMA LimitParts ==
    LimitCached <=> Cached(server, dbc) /\ (NoFormer => Exact(server, dbc))
BY DEF LimitCached, Cached, Exact

(* set_sql_select_limit keeps them in agreement, and the limit is the one   *)
(* asked for, or there is none.                                            *)
LEMMA LimitIsSet ==
    ASSUME NEW s \in SessionT, NEW d \in DriverT,
           NEW n \in Nat \cup {Unlimited}
    PROVE  /\ Limited(s, d, n) \in SessionT /\ LimitedDbc(d, n) \in DriverT
           /\ Limited(s, d, n).owner = s.owner
           /\ Limited(s, d, n).work = s.work
           /\ LimitedDbc(d, n).need_to_wakeup = d.need_to_wakeup
           /\ Cached(s, d) => /\ Cached(Limited(s, d, n), LimitedDbc(d, n))
                              /\ Limited(s, d, n).limit \in {0, LimitSent(n)}
           /\ Exact(s, d) => /\ Exact(Limited(s, d, n), LimitedDbc(d, n))
                             /\ Limited(s, d, n).limit = LimitSent(n)
<1>1. LimitSent(n) \in Nat /\ LimitSent(LimitSent(n)) = LimitSent(n)
  BY DEF LimitSent, Unlimited
<1>2. s.limit \in Nat /\ d.sql_select_limit \in Nat \cup {Unlimited}
  BY DEF SessionT, DriverT
<1>3. CASE NeedsSet(d, n)
  <2>1. /\ Limited(s, d, n) = [s EXCEPT !.limit = LimitSent(n)]
        /\ LimitedDbc(d, n) = [d EXCEPT !.sql_select_limit = LimitSent(n)]
    BY <1>3 DEF Limited, LimitedDbc
  <2>2. /\ Limited(s, d, n) \in SessionT /\ Limited(s, d, n).owner = s.owner
        /\ Limited(s, d, n).work = s.work
        /\ Limited(s, d, n).limit = LimitSent(n)
    BY <1>1, <2>1, LimitChanged
  <2>3. /\ LimitedDbc(d, n) \in DriverT
        /\ LimitedDbc(d, n).need_to_wakeup = d.need_to_wakeup
        /\ LimitedDbc(d, n).sql_select_limit = LimitSent(n)
    BY <1>1, <2>1 DEF DriverT
  <2> QED
    BY <1>1, <2>2, <2>3 DEF Cached, Exact
<1>4. CASE ~NeedsSet(d, n)
  <2>1. Limited(s, d, n) = s /\ LimitedDbc(d, n) = d
    BY <1>4 DEF Limited, LimitedDbc
  <2>2. n = d.sql_select_limit \/ (n = Unlimited /\ d.sql_select_limit = 0)
    BY <1>4 DEF NeedsSet
  <2>3. Cached(s, d) => s.limit \in {0, LimitSent(n)}
    BY <1>2, <2>2 DEF Cached, LimitSent, Unlimited
  <2>4. Exact(s, d) => s.limit = LimitSent(n)
    BY <1>2, <2>2 DEF Exact, LimitSent, Unlimited
  <2> QED
    BY <2>1, <2>3, <2>4
<1> QED
  BY <1>3, <1>4

LEMMA WroteType ==
    ASSUME NEW s \in SessionT, NEW writes \in BOOLEAN
    PROVE  /\ Wrote(s, writes) \in SessionT
           /\ Wrote(s, writes).owner = s.owner
           /\ Wrote(s, writes).limit = s.limit
<1>1. PICK w \in BOOLEAN : w = (s.work \/ (writes /\ ~s.autocommit))
  OBVIOUS
<1>2. Wrote(s, writes) = [s EXCEPT !.work = w]
  BY <1>1 DEF Wrote
<1> QED
  BY <1>2, WorkChanged

(* A query that succeeds.                                                  *)
LEMMA WorksPasses ==
    ASSUME SessInv, Around, NEW d \in DriverT,
           d.sql_select_limit = dbc.sql_select_limit,
           d.need_to_wakeup = dbc.need_to_wakeup,
           ~dbc.need_to_wakeup, server.owner = "present",
           NEW n \in Nat \cup {Unlimited}, NEW writes \in BOOLEAN,
           NEW call \in {"query", "lookup"}, QueryWorks(call, d, n, writes),
           Reachable \/ Met({"swallowed"})'
    PROVE  CallPasses /\ Answers'
<1>1. TypeOK /\ LimitCached /\ server \in SessionT /\ mysql.db \in Catalogs
  BY Types DEF SessInv, ClientT
<1> DEFINE s == Limited(server, d, n)
<1>2. /\ s \in SessionT /\ s.owner = "present" /\ dbc' = LimitedDbc(d, n)
      /\ dbc' \in DriverT /\ dbc'.need_to_wakeup = dbc.need_to_wakeup
  BY <1>1, LimitIsSet DEF QueryWorks
<1>3. Answered(Wrote(s, writes), mysql.db) /\ Return(call, n)
  BY DEF QueryWorks
<1>4. /\ Wrote(s, writes) \in SessionT
      /\ Wrote(s, writes).owner = "present"
      /\ Wrote(s, writes).limit = s.limit
  BY <1>2, WroteType
<1>5. server' = Wrote(s, writes)
  BY <1>3 DEF Answered
<1>6. Cached(server, d) /\ (NoFormer => Exact(server, d))
  BY <1>1 DEF LimitCached, Cached, Exact
<1>7. NoFormer' => NoFormer
  BY DEF NoFormer, Met, Around
<1>8. /\ server'.limit \in {0, LimitSent(n)}
      /\ NoFormer' => server'.limit = LimitSent(n)
      /\ Cached(server', dbc') /\ (NoFormer' => Exact(server', dbc'))
  BY <1>1, <1>2, <1>4, <1>5, <1>6, <1>7, LimitIsSet DEF Cached, Exact
<1>9. LimitCached'
  BY <1>8 DEF LimitCached, Cached, Exact
<1>10. last'.call = call /\ last'.value = n
  BY <1>1, <1>3, Returned
<1>11. Answers'
  BY <1>4, <1>5, <1>8, <1>10
     DEF Answers, RowLimits, LimitInForce, NoRowsCut, SessionsApart,
         OwnSession, NoForeignCommit, EndTranTruthful, Queried, NoFormer
<1>12. Reachable \/ Met({"env", "swallowed"})'
  BY DEF Met
<1> HIDE DEF s
<1> QED
  BY <1>1, <1>2, <1>3, <1>4, <1>9, <1>11, <1>12, DonePasses

(* A command is answered, and the row limit may have been set before it.    *)
LEMMA AnswerPasses ==
    ASSUME SessInv, Around, ~dbc.need_to_wakeup,
           NEW s \in SessionT, NEW d \in DriverT,
           Answered(s, mysql.db), dbc' = d,
           d.need_to_wakeup = dbc.need_to_wakeup, s.owner = server.owner,
           Cached(s, d), NoFormer => Exact(s, d),
           Reachable \/ ~rolled' \/ Met({"env", "swallowed"})'
    PROVE  CallPasses
<1>1. server' = s /\ dbc' = d /\ mysql.db \in Catalogs
  BY Types DEF Answered, SessInv, ClientT
<1>2. NoFormer' => NoFormer
  BY DEF NoFormer, Met, Around
<1>3. LimitCached'
  BY <1>1, <1>2 DEF LimitCached, Cached, Exact
<1> QED
  BY <1>1, <1>3, DonePasses

(* The server refuses the query, or cannot be reached.                     *)
LEMMA RefusedPasses ==
    ASSUME SessInv, Around, NEW d \in DriverT,
           d.sql_select_limit = dbc.sql_select_limit,
           d.need_to_wakeup = dbc.need_to_wakeup, ~dbc.need_to_wakeup,
           NEW n \in Nat \cup {Unlimited},
           QueryRefused(d, n) \/ Unreachable(d)
    PROVE  CallPasses /\ Answers'
<1>1. TypeOK /\ LimitCached /\ server \in SessionT /\ Failed
  BY Types DEF SessInv, QueryRefused, Unreachable
<1>2. ~rolled' /\ Answers'
  BY <1>1, Ended, Quiet
<1>3. Cached(server, d) /\ (NoFormer => Exact(server, d))
  BY <1>1 DEF LimitCached, Cached, Exact
<1>4. CASE Unreachable(d)
  <2>1. Fails /\ dbc' = d
    BY <1>4 DEF Unreachable, Fails
  <2> QED
    BY <1>2, <2>1, FailsPasses
<1>5. CASE Answered(Limited(server, d, n), mysql.db) /\ dbc' = LimitedDbc(d, n)
  <2> DEFINE s == Limited(server, d, n)
  <2>1. /\ s \in SessionT /\ LimitedDbc(d, n) \in DriverT
        /\ s.owner = server.owner
        /\ LimitedDbc(d, n).need_to_wakeup = d.need_to_wakeup
        /\ Cached(s, LimitedDbc(d, n))
        /\ NoFormer => Exact(s, LimitedDbc(d, n))
    BY <1>1, <1>3, LimitIsSet
  <2>2. Answered(s, mysql.db)
    BY <1>5
  <2> HIDE DEF s
  <2> QED
    BY <1>2, <1>5, <2>1, <2>2, AnswerPasses
<1>6. CASE Answered(server, mysql.db) /\ dbc' = d
  BY <1>1, <1>2, <1>3, <1>6, AnswerPasses
<1> QED
  BY <1>4, <1>5, <1>6 DEF QueryRefused

LEMMA WorksReturns ==
    ASSUME TypeOK, NEW call, NEW d, NEW n, NEW writes,
           QueryWorks(call, d, n, writes)
    PROVE  rolled' \in BOOLEAN /\ (rolled' => rolled)
BY Returned DEF QueryWorks

LEMMA QueryPasses ==
    ASSUME SessInv, NEW s \in Stmts, Query(s) PROVE CallPasses /\ Answers'
<1>1. /\ TypeOK /\ Connected /\ stmts[s] # Free /\ OnlySession
      /\ dbc \in DriverT
  BY Types DEF SessInv, Query
<1>2. /\ ~dbc.need_to_wakeup /\ server.owner = "present"
      /\ stmts[s] \in Nat \cup {Unlimited}
  BY <1>1, HasStatement
<1>3. ASSUME NEW writes \in BOOLEAN, Reachable,
             QueryWorks("query", dbc, stmts[s], writes)
      PROVE  CallPasses /\ Answers'
  BY <1>1, <1>2, <1>3, WorksReturns, OnlyAround, WorksPasses
<1>4. CASE QueryRefused(dbc, stmts[s]) \/ Unreachable(dbc)
  <2>1. rolled' \in BOOLEAN /\ (rolled' => rolled)
    BY <1>1, <1>4, Ended DEF QueryRefused, Unreachable
  <2> QED
    BY <1>1, <1>2, <1>4, <2>1, OnlyAround, RefusedPasses
<1> QED
  BY <1>3, <1>4 DEF Query

LEMMA PreExecutePasses ==
    ASSUME SessInv, NEW s \in Stmts, PreExecute(s)
    PROVE  CallPasses /\ Answers'
<1>1. /\ TypeOK /\ Connected /\ stmts[s] # Free /\ OnlySession
      /\ dbc \in DriverT /\ server \in SessionT /\ LimitCached
  BY Types DEF SessInv, PreExecute
<1>2. /\ ~dbc.need_to_wakeup /\ server.owner = "present"
      /\ stmts[s] \in Nat \cup {Unlimited}
  BY <1>1, HasStatement
<1>3. CASE Reachable /\ QueryWorks("query", dbc, 1, FALSE)
  BY <1>1, <1>2, <1>3, WorksReturns, OnlyAround, WorksPasses
<1>4. CASE Unreachable(dbc)
  <2>1. rolled' \in BOOLEAN /\ (rolled' => rolled)
    BY <1>1, <1>4, Ended DEF Unreachable
  <2> QED
    BY <1>1, <1>2, <1>4, <2>1, OnlyAround, RefusedPasses
<1>5. ASSUME NEW one \in BOOLEAN, NEW own \in BOOLEAN,
             LET d1 == IF one THEN LimitedDbc(dbc, 1) ELSE dbc
                 s1 == IF one THEN Limited(server, dbc, 1) ELSE server
             IN  /\ one => Reachable
                 /\ Answered(IF own THEN Limited(s1, d1, stmts[s]) ELSE s1,
                             mysql.db)
                 /\ dbc' = IF own THEN LimitedDbc(d1, stmts[s]) ELSE d1,
             Failed
      PROVE  CallPasses /\ Answers'
  <2> DEFINE d1 == IF one THEN LimitedDbc(dbc, 1) ELSE dbc
             s1 == IF one THEN Limited(server, dbc, 1) ELSE server
             d2 == IF own THEN LimitedDbc(d1, stmts[s]) ELSE d1
             s2 == IF own THEN Limited(s1, d1, stmts[s]) ELSE s1
  <2>1. ~rolled' /\ rolled' \in BOOLEAN /\ Answers'
    BY <1>1, <1>5, Ended, Quiet
  <2>2. Around
    BY <1>1, <2>1, OnlyAround
  <2>3. Cached(server, dbc) /\ (NoFormer => Exact(server, dbc))
    BY <1>1, LimitParts
  <2>4. /\ s1 \in SessionT /\ d1 \in DriverT /\ s1.owner = server.owner
        /\ d1.need_to_wakeup = dbc.need_to_wakeup
        /\ Cached(s1, d1) /\ (NoFormer => Exact(s1, d1))
    BY <1>1, <2>3, LimitIsSet
  <2>5. Answered(s2, mysql.db) /\ dbc' = d2
    BY <1>5
  <2> HIDE DEF s1, d1
  <2>6. /\ s2 \in SessionT /\ d2 \in DriverT /\ s2.owner = server.owner
        /\ d2.need_to_wakeup = dbc.need_to_wakeup
        /\ Cached(s2, d2) /\ (NoFormer => Exact(s2, d2))
    BY <1>2, <2>4, LimitIsSet, ZenonT(30)
  <2> HIDE DEF s2, d2
  <2> QED
    BY <1>2, <2>1, <2>2, <2>5, <2>6, AnswerPasses
<1> QED
  BY <1>3, <1>4, <1>5 DEF PreExecute

LEMMA PreparePasses ==
    ASSUME SessInv, NEW s \in Stmts, Prepare(s)
    PROVE  CallPasses /\ Answers'
<1>1. /\ TypeOK /\ Connected /\ stmts[s] # Free
      /\ dbc \in DriverT /\ server \in SessionT /\ LimitCached
      /\ UNCHANGED <<config, stmts, asked, held>>
  BY Types DEF SessInv, Prepare
<1>2. ~dbc.need_to_wakeup /\ 0 \in Nat \cup {Unlimited}
  BY <1>1, HasStatement
<1>3. Cached(server, dbc) /\ (NoFormer => Exact(server, dbc))
  BY <1>1, LimitParts
<1>4. ASSUME Over \/ Failed, lapses \subseteq lapses', lapses' \subseteq Lapses
      PROVE  Around /\ Answers'
  BY <1>1, <1>4, Ended, Quiet, Types DEF Around
<1>5. CASE /\ Reachable
           /\ Answered(Limited(server, dbc, 0), mysql.db)
           /\ dbc' = LimitedDbc(dbc, 0)
           /\ (Over \/ Failed)
           /\ UNCHANGED lapses
  <2> DEFINE r == Limited(server, dbc, 0)
  <2>1. /\ r \in SessionT /\ LimitedDbc(dbc, 0) \in DriverT
        /\ r.owner = server.owner
        /\ LimitedDbc(dbc, 0).need_to_wakeup = dbc.need_to_wakeup
        /\ Cached(r, LimitedDbc(dbc, 0))
        /\ NoFormer => Exact(r, LimitedDbc(dbc, 0))
    BY <1>1, <1>2, <1>3, LimitIsSet
  <2>2. Around /\ Answers'
    BY <1>1, <1>4, <1>5, Types
  <2>3. Answered(r, mysql.db)
    BY <1>5
  <2> HIDE DEF r
  <2> QED
    BY <1>2, <1>5, <2>1, <2>2, <2>3, AnswerPasses
<1>6. CASE /\ Meet("swallowed") /\ Answered(server, mysql.db)
           /\ UNCHANGED dbc /\ (Over \/ Failed)
  <2>1. lapses' \subseteq Lapses /\ lapses' = lapses \cup {"swallowed"}
    BY <1>1, <1>6, MeetType
  <2>2. Around /\ Answers' /\ Met({"env", "swallowed"})'
    BY <1>4, <1>6, <2>1 DEF Met
  <2> QED
    BY <1>1, <1>2, <1>3, <1>6, <2>2, AnswerPasses
<1>7. CASE Unreachable(dbc) /\ UNCHANGED lapses
  <2>1. Around
    BY <1>1, <1>4, <1>7, Types DEF Unreachable
  <2> QED
    BY <1>1, <1>2, <1>7, <2>1, RefusedPasses
<1> QED
  BY <1>5, <1>6, <1>7 DEF Prepare

LEMMA LookupPasses ==
    ASSUME SessInv, NEW s \in Stmts, Lookup(s) PROVE CallPasses /\ Answers'
<1>1. /\ TypeOK /\ Connected /\ stmts[s] # Free
      /\ dbc \in DriverT /\ server \in SessionT
      /\ UNCHANGED <<config, stmts, asked, held>>
  BY Types DEF SessInv, Lookup
<1>2. /\ ~dbc.need_to_wakeup /\ server.owner = "present"
      /\ stmts[s] \in Nat \cup {Unlimited} /\ FALSE \in BOOLEAN
  BY <1>1, HasStatement
<1> DEFINE known == [dbc EXCEPT !.database = server.catalog]
           lost  == [dbc EXCEPT !.database = NoName]
<1>3. /\ known \in DriverT /\ lost \in DriverT
      /\ known.sql_select_limit = dbc.sql_select_limit
      /\ lost.sql_select_limit = dbc.sql_select_limit
      /\ known.need_to_wakeup = dbc.need_to_wakeup
      /\ lost.need_to_wakeup = dbc.need_to_wakeup
  BY <1>1 DEF DriverT, SessionT
<1>4. ASSUME rolled' \in BOOLEAN, rolled' => rolled,
             lapses \subseteq lapses', lapses' \subseteq Lapses
      PROVE  Around
  BY <1>1, <1>4, Types DEF Around
<1>5. CASE /\ Reachable
           /\ \/ QueryWorks("lookup", known, stmts[s], FALSE)
              \/ QueryRefused(known, stmts[s])
           /\ UNCHANGED lapses
  <2>1. rolled' \in BOOLEAN /\ (rolled' => rolled)
    BY <1>1, <1>5, WorksReturns, Ended DEF QueryRefused
  <2>2. Around
    BY <1>1, <1>4, <1>5, <2>1, Types
  <2> HIDE DEF known
  <2> QED
    BY <1>2, <1>3, <1>5, <2>2, WorksPasses, RefusedPasses
<1>6. CASE /\ Meet("swallowed")
           /\ \/ QueryWorks("lookup", lost, stmts[s], FALSE)
              \/ QueryRefused(lost, stmts[s])
  <2>1. rolled' \in BOOLEAN /\ (rolled' => rolled)
    BY <1>1, <1>6, WorksReturns, Ended DEF QueryRefused
  <2>2. lapses' \subseteq Lapses /\ lapses' = lapses \cup {"swallowed"}
    BY <1>1, <1>6, MeetType
  <2>3. Around /\ Met({"swallowed"})'
    BY <1>4, <2>1, <2>2 DEF Met
  <2> HIDE DEF lost
  <2> QED
    BY <1>2, <1>3, <1>6, <2>3, WorksPasses, RefusedPasses
<1>7. CASE Unreachable(lost) /\ UNCHANGED lapses
  <2>1. rolled' \in BOOLEAN /\ (rolled' => rolled)
    BY <1>1, <1>7, Ended DEF Unreachable
  <2>2. Around
    BY <1>1, <1>4, <1>7, <2>1, Types
  <2> HIDE DEF lost
  <2> QED
    BY <1>2, <1>3, <1>7, <2>2, RefusedPasses
<1> QED
  BY <1>5, <1>6, <1>7 DEF Lookup

LEMMA ByTextPasses ==
    ASSUME SessInv, NEW s \in Stmts, ByText(s) PROVE CallPasses /\ Answers'
<1>1. /\ TypeOK /\ Connected /\ stmts[s] # Free /\ Reachable
      /\ dbc \in DriverT /\ server \in SessionT /\ LimitCached
      /\ UNCHANGED <<config, stmts, held>> /\ asked' = NothingAsked /\ Over
      /\ Meet("text") /\ dbc' = LimitedDbc(dbc, stmts[s])
  BY Types DEF SessInv, ByText
<1>2. ~dbc.need_to_wakeup /\ stmts[s] \in Nat \cup {Unlimited}
  BY <1>1, HasStatement
<1>3. lapses' \subseteq Lapses /\ lapses' = lapses \cup {"text"}
  BY <1>1, MeetType
<1>4. Around /\ Answers'
  <2>1. asked' \in AskedT
    BY <1>1 DEF NothingAsked, AskedT
  <2> QED
    BY <1>1, <1>3, <2>1, Ended, Quiet, Types DEF Around
<1> DEFINE before == Limited(server, dbc, stmts[s])
<1>5. /\ before \in SessionT /\ LimitedDbc(dbc, stmts[s]) \in DriverT
      /\ before.owner = server.owner
      /\ LimitedDbc(dbc, stmts[s]).need_to_wakeup = dbc.need_to_wakeup
      /\ Cached(before, LimitedDbc(dbc, stmts[s]))
      /\ NoFormer => Exact(before, LimitedDbc(dbc, stmts[s]))
  BY <1>1, <1>2, LimitParts, LimitIsSet
<1>6. PICK r : /\ Answered(r, mysql.db)
               /\ \/ \E on \in BOOLEAN :
                        r = [before EXCEPT !.autocommit = on,
                                           !.work = @ /\ ~on]
                  \/ \E v \in Known :
                        r = [before EXCEPT !.isolation = v, !.seen = FALSE]
                  \/ \E c \in Catalogs : r = [before EXCEPT !.catalog = c]
  BY DEF ByText
<1> HIDE DEF before
<1>7. r \in SessionT /\ r.owner = before.owner /\ r.limit = before.limit
  <2>1. ASSUME NEW on \in BOOLEAN,
               r = [before EXCEPT !.autocommit = on, !.work = @ /\ ~on]
        PROVE  r \in SessionT /\ r.owner = before.owner
               /\ r.limit = before.limit
    <3>1. PICK w \in BOOLEAN : w = (before.work /\ ~on)
      OBVIOUS
    <3>2. r = [before EXCEPT !.autocommit = on, !.work = w]
      BY <2>1, <3>1
    <3> QED
      BY <1>5, <3>2, AutocommitChanged
  <2>2. ASSUME NEW v \in Known,
               r = [before EXCEPT !.isolation = v, !.seen = FALSE]
        PROVE  r \in SessionT /\ r.owner = before.owner
               /\ r.limit = before.limit
    BY <1>5, <2>2, IsolationChanged
  <2>3. ASSUME NEW c \in Catalogs, r = [before EXCEPT !.catalog = c]
        PROVE  r \in SessionT /\ r.owner = before.owner
               /\ r.limit = before.limit
    BY <1>5, <2>3, CatalogChanged
  <2> QED
    BY <1>6, <2>1, <2>2, <2>3
<1>8. Cached(r, LimitedDbc(dbc, stmts[s]))
      /\ (NoFormer => Exact(r, LimitedDbc(dbc, stmts[s])))
  BY <1>5, <1>7 DEF Cached, Exact
<1> QED
  BY <1>1, <1>2, <1>4, <1>5, <1>6, <1>7, <1>8, AnswerPasses

LEMMA EndTranPasses ==
    ASSUME SessInv, NEW kind \in {"commit", "rollback"},
           EndTran(kind) \/ EndTranEnv(kind)
    PROVE  CallPasses /\ Answers'
<1>1. /\ TypeOK /\ Connected /\ dbc' = dbc /\ dbc \in DriverT
      /\ server \in SessionT /\ mysql.db \in Catalogs
      /\ config' = config /\ stmts' = stmts /\ asked' = asked /\ held' = held
  BY Types DEF SessInv, EndTran, EndTranEnv, ClientT
<1>2. ASSUME rolled' \in BOOLEAN, rolled' => rolled,
             lapses \subseteq lapses', lapses' \subseteq Lapses
      PROVE  Around
  BY <1>1, <1>2, Types DEF Around
<1>3. CASE /\ ~config.NO_TRANSACTIONS /\ UNCHANGED lapses
           /\ Done([server EXCEPT !.work = FALSE])
           /\ Return(kind, server.work /\ server.owner = "former")
  <2> DEFINE s == [server EXCEPT !.work = FALSE]
  <2>1. /\ last'.call = kind /\ last'.lost = rolled
        /\ last'.value = (server.work /\ server.owner = "former")
        /\ rolled' \in BOOLEAN /\ (rolled' => rolled)
    BY <1>1, <1>3, Returned
  <2>2. Reachable /\ Answered(s, mysql.db)
    BY <1>3 DEF Done
  <2>3. /\ s \in SessionT /\ s.owner = server.owner
        /\ s.limit = server.limit /\ s.work = FALSE
    BY <1>1, WorkChanged
  <2>4. server' = s
    BY <2>2 DEF Answered
  <2>5. Around /\ LimitCached'
    BY <1>1, <1>2, <1>3, <2>1, <2>3, <2>4, LimitSame, Types
  <2>6. CallPasses
    <3> HIDE DEF s
    <3> QED
      BY <1>1, <2>2, <2>3, <2>5, DonePasses
  <2>7. EndTranTruthful'
    <3>1. ~Met({"env", "swallowed"})' => ~rolled
      BY <1>3, <2>2 DEF SessInv, WorkKnown, Reachable, Met
    <3>2. ~server'.work
      BY <2>3, <2>4
    <3> QED
      BY <2>1, <3>1, <3>2 DEF EndTranTruthful
  <2>8. SessionsApart'
    <3>1. server.owner = "former" => Met({"unasked"})'
      BY <1>1, <1>3 DEF SessInv, Asleep, Connected, Met
    <3>2. last'.value # FALSE => server.owner = "former"
      BY <2>1
    <3> QED
      BY <2>1, <3>1, <3>2 DEF SessionsApart, OwnSession, NoForeignCommit,
         Queried
  <2>9. RowLimits'
    BY <2>1 DEF RowLimits, LimitInForce, NoRowsCut, Queried
  <2> QED
    BY <2>6, <2>7, <2>8, <2>9 DEF Answers
<1>4. CASE Fails /\ Failed /\ UNCHANGED lapses
  <2>1. ~rolled' /\ rolled' \in BOOLEAN /\ Answers'
    BY <1>1, <1>4, Ended, Quiet
  <2>2. Around
    BY <1>1, <1>2, <1>4, <2>1, Types
  <2> QED
    BY <1>1, <1>4, <2>1, <2>2, FailsPasses
<1>5. CASE config.NO_TRANSACTIONS /\ NoCommand /\ Return(kind, FALSE)
           /\ UNCHANGED lapses
  <2>1. last'.call = kind /\ last'.value = FALSE
        /\ rolled' \in BOOLEAN /\ (rolled' => rolled)
    BY <1>1, <1>5, Returned
  <2>2. Around
    BY <1>1, <1>2, <1>5, <2>1, Types
  <2>3. Answers'
    BY <1>1, <1>5, <2>1
       DEF Answers, RowLimits, LimitInForce, NoRowsCut, SessionsApart,
           OwnSession, NoForeignCommit, EndTranTruthful, Queried
  <2> QED
    BY <1>1, <1>5, <2>2, <2>3, NoCommandPasses
<1>6. CASE Fails /\ Meet("env") /\ Return(kind, FALSE)
  <2>1. last'.call = kind /\ last'.value = FALSE /\ rolled' = FALSE
    BY <1>1, <1>6, Returned DEF Return
  <2>2. lapses' \subseteq Lapses /\ lapses' = lapses \cup {"env"}
    BY <1>1, <1>6, MeetType
  <2>3. Around
    BY <1>2, <2>1, <2>2
  <2>4. Answers'
    BY <2>1, <2>2
       DEF Answers, RowLimits, LimitInForce, NoRowsCut, SessionsApart,
           OwnSession, NoForeignCommit, EndTranTruthful, Queried, Met
  <2> QED
    BY <1>1, <1>6, <2>1, <2>3, <2>4, FailsPasses
<1> QED
  BY <1>3, <1>4, <1>5, <1>6 DEF EndTran, EndTranEnv, Transact

-----------------------------------------------------------------------------
(* A wake-up that fails, in whatever call.                                 *)
LEMMA RefusedHolds ==
    ASSUME SessInv, Connected, WakeupRefused \/ WakeupBroken, OnlySession,
           rolled' \in BOOLEAN, rolled' => rolled /\ WakeupRefused
    PROVE  SessInv'
<1>1. TypeOK /\ mysql.db \in Catalogs
  BY Types DEF SessInv, ClientT
<1>2. /\ dbc.need_to_wakeup /\ dbc' = dbc /\ mysql' \in ClientT
      /\ server' \in SessionT
      /\ \/ link' = "lost" /\ server' = Fresh(mysql.db) /\ Reachable
         \/ link' = "noticed" /\ server' = server /\ link # "up"
  BY <1>1, RefusedType
<1>3. WakeupBroken => link' = "noticed" /\ server' = server /\ link # "up"
  BY DEF WakeupBroken, Broken
<1>4. /\ config' = config /\ stmts' = stmts /\ asked' = asked
      /\ held' = held /\ lapses' = lapses
  BY DEF OnlySession
<1>5. TypeOK'
  BY <1>1, <1>2, <1>4, TypeFromParts, Types
<1>6. LimitCached'
  <2>1. CASE server' = server
    BY <1>2, <1>4, <2>1, LimitSame
  <2>2. CASE server' = Fresh(mysql.db)
    BY <1>1, <1>2, <1>4, <2>2, FreshType, LimitWoken
  <2> QED
    BY <1>2, <2>1, <2>2
<1>7. Fresh(mysql.db).owner = "present" /\ ~Fresh(mysql.db).work
  BY <1>1, FreshType
<1>8. Asleep'
  BY <1>2, <1>4, <1>7 DEF SessInv, Asleep, Met, Connected
<1>9. WorkKnown'
  <2>1. link' \notin {"up", "none"} /\ ~server'.work
    BY <1>2, <1>7 DEF SessInv, WorkKnown
  <2>2. rolled' /\ ~Met({"env", "swallowed"})' => FALSE
    <3>1. WakeupRefused => Reachable
      BY DEF WakeupRefused
    <3> QED
      BY <1>4, <3>1 DEF SessInv, WorkKnown, Reachable, Met
  <2> QED
    BY <2>1, <2>2 DEF WorkKnown
<1> QED
  BY <1>5, <1>6, <1>8, <1>9 DEF SessInv

LEMMA NotWokenHolds ==
    ASSUME SessInv, Connected, NotWoken PROVE SessInv' /\ Answers'
<1>1. /\ OnlySession /\ ~rolled' /\ rolled' \in BOOLEAN
      /\ last'.call = "none" /\ (WakeupRefused \/ WakeupBroken)
  BY DEF NotWoken, OnlySession, Failed, Idle
<1> QED
  BY <1>1, RefusedHolds, Quiet

LEMMA SetEarlyHolds ==
    ASSUME SessInv, SetEarly PROVE SessInv' /\ Answers'
<1>1. /\ TypeOK /\ link = "none" /\ held = "app" /\ ~dbc.need_to_wakeup
      /\ server' = server /\ link' = link /\ mysql' = mysql
      /\ stmts' = stmts /\ held' = held /\ config' = config /\ Over
  BY DEF SessInv, SetEarly
<1>2. /\ dbc'.need_to_wakeup = dbc.need_to_wakeup
      /\ dbc'.sql_select_limit = dbc.sql_select_limit
  BY <1>1, Types DEF SetEarly, DriverT
<1>3. lapses \subseteq lapses'
  BY <1>1, MeetType DEF SetEarly
<1>4. rolled' = rolled /\ last'.call = "none"
  BY <1>1 DEF Over, Idle
<1>5. LimitCached'
  BY <1>1, <1>2, <1>3, LimitSame
<1>6. Asleep' /\ WorkKnown'
  BY <1>1, <1>2, <1>3, <1>4 DEF SessInv, Asleep, WorkKnown, Met
<1> QED
  BY <1>1, <1>4, <1>5, <1>6, SetEarlyType, Quiet DEF SessInv

LEMMA ConnectHolds == ASSUME SessInv, Connect PROVE SessInv' /\ Answers'
<1>1. /\ TypeOK /\ link = "none" /\ held = "app" /\ TypeOK'
      /\ stmts' = stmts /\ held' = held /\ config' = config
      /\ lapses' = lapses /\ (Over \/ Failed)
  BY ConnectType DEF SessInv, Connect
<1>2. last'.call = "none" /\ rolled' \in BOOLEAN /\ (rolled' => rolled)
  BY <1>1, Ended
<1>3. /\ dbc'.need_to_wakeup = dbc.need_to_wakeup
      /\ dbc'.sql_select_limit = dbc.sql_select_limit
  BY <1>1, Types DEF Connect, DriverT
<1>4. dbc.need_to_wakeup => asked' = asked
  <2>1. asked' = asked \/ asked' = [asked EXCEPT !.autocommit = {}]
    BY <1>1, Types DEF Connect, AskedT
  <2> QED
    BY <2>1 DEF SessInv, Asleep, NothingAsked
<1>5. CASE UNCHANGED <<link, server, mysql>>
  <2>1. LimitCached'
    BY <1>1, <1>3, <1>5, LimitSame
  <2>2. Asleep' /\ WorkKnown'
    BY <1>1, <1>2, <1>3, <1>4, <1>5 DEF SessInv, Asleep, WorkKnown, Met
  <2> QED
    BY <1>1, <1>2, <2>1, <2>2, Quiet DEF SessInv
<1>6. CASE Answered(Begun, DATABASE)
  <2>1. /\ Begun.limit = 0 /\ Begun.work = FALSE
        /\ Begun.owner = "present"
        /\ link' = "up" /\ server' = Begun /\ mysql'.in_trans = Begun.work
    BY <1>1, <1>6, BegunType, AnsweredType
  <2>2. LimitCached'
    BY <1>1, <1>3, <2>1
       DEF SessInv, LimitCached, WorkKnown, NoFormer, Met
  <2>3. Asleep' /\ WorkKnown'
    BY <1>1, <1>2, <1>3, <1>4, <2>1 DEF SessInv, Asleep, WorkKnown, Met
  <2> QED
    BY <1>1, <1>2, <2>2, <2>3, Quiet DEF SessInv
<1> QED
  BY <1>5, <1>6 DEF Connect, Begun

LEMMA DisconnectHolds == ASSUME SessInv, Disconnect PROVE SessInv' /\ Answers'
<1>1. /\ TypeOK /\ TypeOK' /\ held = "app" /\ held' = held
      /\ link' = "none" /\ server' = Fresh(DATABASE) /\ rolled' = FALSE
      /\ stmts' = [s \in Stmts |-> Free] /\ asked' = NothingAsked
      /\ last'.call = "none"
  BY DisconnectType DEF SessInv, Disconnect, Connected, Idle
<1>2. lapses' = lapses \cup {"again"}
  BY <1>1, MeetType DEF Disconnect
<1>3. dbc'.need_to_wakeup = dbc.need_to_wakeup
  BY <1>1, Types DEF Disconnect, DriverT
<1>4. server'.limit = 0 /\ ~server'.work /\ server'.owner = "present"
  BY <1>1, FreshType, CatalogsAssumption
<1>5. LimitCached'
  BY <1>2, <1>4 DEF LimitCached, NoFormer, Met
<1>6. Asleep' /\ WorkKnown'
  BY <1>1, <1>2, <1>3, <1>4 DEF SessInv, Asleep, WorkKnown, Met
<1> QED
  BY <1>1, <1>5, <1>6, Quiet DEF SessInv

LEMMA ResetHolds == ASSUME SessInv, Reset PROVE SessInv' /\ Answers'
<1>1. TypeOK /\ TypeOK' /\ Connected
  BY PoolType DEF SessInv, Reset
<1>2. CASE NotWoken
  BY <1>1, <1>2, NotWokenHolds
<1>3. CASE ~NotWoken
  <2>1. /\ held' = "pool" /\ rolled' = FALSE /\ last' = Idle
        /\ stmts' = [s \in Stmts |-> Free] /\ asked' = NothingAsked
        /\ lapses' = lapses
    BY <1>3 DEF Reset
  <2>2. /\ dbc'.need_to_wakeup = TRUE
        /\ dbc'.sql_select_limit = dbc.sql_select_limit
    BY <1>1, <1>3, Types DEF Reset, DriverT
  <2>3. CASE dbc.need_to_wakeup
    <3>1. /\ link' = "up" /\ mysql'.in_trans = FALSE
          /\ server' = [Woken EXCEPT !.owner = "former"]
      BY <1>3, <2>3 DEF Reset
    <3>2. Woken \in SessionT /\ Woken.limit = 0 /\ Woken.work = FALSE
      BY <1>1, <2>3, WokenType, FreshType, CatalogsAssumption
    <3>3. server'.limit = 0 /\ server'.work = FALSE
          /\ server'.owner = "former"
      BY <3>1, <3>2 DEF SessionT
    <3>4. LimitCached'
      BY <1>1, <2>1, <2>3, <3>3, LimitWoken
    <3>5. Asleep' /\ WorkKnown'
      BY <2>1, <2>2, <3>1, <3>3 DEF Asleep, WorkKnown, Idle
    <3> QED
      BY <1>1, <2>1, <3>4, <3>5, Quiet DEF SessInv, Idle
  <2>4. CASE ~dbc.need_to_wakeup
    <3>1. /\ link' = link /\ mysql' = mysql
          /\ server' = IF link = "up" THEN [server EXCEPT !.owner = "former"]
                       ELSE server
      BY <1>3, <2>4 DEF Reset
    <3>2. /\ server'.limit = server.limit /\ server'.work = server.work
          /\ link = "up" => server'.owner = "former"
      BY <1>1, <3>1, Types DEF SessionT
    <3>3. LimitCached'
      BY <2>1, <2>2, <3>2, LimitSame
    <3>4. Asleep'
      BY <2>1, <2>2, <3>1, <3>2 DEF Asleep
    <3>5. WorkKnown'
      BY <1>1, <2>1, <3>1, <3>2 DEF SessInv, WorkKnown, Connected
    <3> QED
      BY <1>1, <2>1, <3>3, <3>4, <3>5, Quiet DEF SessInv, Idle
  <2> QED
    BY <2>3, <2>4
<1> QED
  BY <1>2, <1>3

LEMMA AskHolds == ASSUME SessInv, Ask PROVE SessInv' /\ Answers'
<1>1. /\ TypeOK /\ TypeOK' /\ held = "pool" /\ dbc.need_to_wakeup
      /\ rolled' = FALSE /\ last' = Idle /\ last'.call = "none"
      /\ stmts' = stmts /\ asked' = asked
      /\ \A s \in Stmts : stmts[s] = Free
      /\ asked = NothingAsked
  BY PoolType DEF SessInv, Ask, Asleep, Idle
<1>2. lapses' = lapses \cup {"pooled"}
  BY <1>1, MeetType DEF Ask
<1>3. CASE WokenDone(Woken, WokenDb) /\ held' = "app"
  <2>1. /\ Woken = Fresh(DATABASE) /\ Woken \in SessionT
        /\ WokenDb \in Catalogs /\ WokenDbc.need_to_wakeup = FALSE
    BY <1>1, WokenType
  <2>2. Woken.limit = 0 /\ Woken.owner = "present"
    BY <1>1, <2>1, FreshType, CatalogsAssumption
  <2>3. /\ link' = "up" /\ server' = Woken /\ dbc' = WokenDbc
        /\ mysql'.in_trans = Woken.work
    BY <1>1, <1>3, <2>1, WokenDoneType
  <2>4. LimitCached'
    BY <1>2, <2>2, <2>3 DEF LimitCached, NoFormer, Met
  <2>5. Asleep' /\ WorkKnown'
    BY <1>1, <1>2, <1>3, <2>1, <2>2, <2>3 DEF Asleep, WorkKnown
  <2> QED
    BY <1>1, <2>4, <2>5, Quiet DEF SessInv
<1>4. CASE WakeupRefused /\ held' = "app"
  <2>1. /\ link' = "lost" /\ server' = Fresh(mysql.db) /\ dbc' = dbc
        /\ mysql.db \in Catalogs
    BY <1>1, <1>4, Types DEF WakeupRefused, ClientT
  <2>2. server'.limit = 0 /\ ~server'.work /\ server'.owner = "present"
    BY <1>1, <2>1, FreshType
  <2>3. LimitCached'
    BY <1>2, <2>2 DEF LimitCached, NoFormer, Met
  <2>4. Asleep' /\ WorkKnown'
    BY <1>1, <1>2, <1>4, <2>1, <2>2 DEF Asleep, WorkKnown, Met
  <2> QED
    BY <1>1, <2>3, <2>4, Quiet DEF SessInv
<1>5. CASE WakeupBroken /\ held' = held
  <2>1. link # "up" /\ link' = "noticed" /\ server' = server /\ dbc' = dbc
    BY <1>5 DEF WakeupBroken, Broken
  <2>2. LimitCached'
    BY <1>2, <2>1, LimitSame
  <2>3. Asleep' /\ WorkKnown'
    BY <1>1, <1>5, <2>1 DEF SessInv, Asleep, WorkKnown
  <2> QED
    BY <1>1, <2>2, <2>3, Quiet DEF SessInv
<1> QED
  BY <1>3, <1>4, <1>5 DEF Ask

LEMMA HandOutHolds == ASSUME SessInv, HandOut PROVE SessInv' /\ Answers'
<1>1. /\ TypeOK /\ TypeOK' /\ held = "pool" /\ held' = "app"
      /\ link' = link /\ server' = server /\ mysql' = mysql /\ dbc' = dbc
      /\ stmts' = stmts /\ asked' = asked /\ rolled' = rolled
      /\ last' = last
  BY PoolType DEF SessInv, HandOut
<1>2. lapses' = lapses \cup {"unasked"}
  BY <1>1, MeetType DEF HandOut
<1>3. last'.call = "none"
  BY <1>1 DEF SessInv, Asleep, Idle
<1>4. LimitCached'
  BY <1>1, <1>2, LimitSame
<1>5. Asleep' /\ WorkKnown'
  BY <1>1, <1>2 DEF SessInv, Asleep, WorkKnown, Met
<1> QED
  BY <1>1, <1>3, <1>4, <1>5, Quiet DEF SessInv

LEMMA DropHolds == ASSUME SessInv, Drop PROVE SessInv' /\ Answers'
<1>1. /\ TypeOK /\ TypeOK' /\ held = "pool" /\ held' = "app"
      /\ link' = "none" /\ server' = Fresh(DATABASE)
      /\ rolled' = rolled /\ last' = last
      /\ dbc'.need_to_wakeup = FALSE
      /\ dbc'.sql_select_limit = Unlimited
  BY PoolType DEF SessInv, Drop
<1>2. ~rolled /\ last = Idle
  BY <1>1 DEF SessInv, Asleep
<1>3. server'.limit = 0 /\ ~server'.work /\ server'.owner = "present"
  BY <1>1, FreshType, CatalogsAssumption
<1>4. LimitCached'
  BY <1>1, <1>3 DEF LimitCached, LimitSent, Unlimited
<1>5. Asleep' /\ WorkKnown'
  BY <1>1, <1>2, <1>3 DEF Asleep, WorkKnown
<1>6. last'.call = "none"
  BY <1>1, <1>2 DEF Idle
<1> QED
  BY <1>1, <1>4, <1>5, <1>6, Quiet DEF SessInv

LEMMA LoseHolds == ASSUME SessInv, Lose PROVE SessInv' /\ Answers'
<1>1. /\ TypeOK /\ link = "up" /\ link' = "lost" /\ mysql' = mysql
      /\ server' = Fresh(mysql.db) /\ dbc' = dbc /\ held' = held
      /\ rolled' = (rolled \/ (server.work /\ server.owner = "present"))
      /\ config' = config /\ stmts' = stmts /\ asked' = NothingAsked
      /\ last' = Idle /\ last'.call = "none"
      /\ mysql.db \in Catalogs
  BY Types DEF SessInv, Lose, ClientT, Idle
<1>2. lapses' = lapses \cup {"lost"} /\ lapses' \subseteq Lapses
  BY <1>1, MeetType DEF Lose
<1>3. /\ server' \in SessionT /\ server'.limit = 0 /\ ~server'.work
      /\ server'.owner = "present"
  BY <1>1, FreshType
<1>4. TypeOK'
  <2>1. asked' \in AskedT
    BY <1>1 DEF NothingAsked, AskedT
  <2>2. rolled' \in BOOLEAN
    BY <1>1
  <2> QED
    BY <1>1, <1>2, <1>3, <2>1, <2>2, TypeFromParts, Types
<1>5. LimitCached'
  BY <1>2, <1>3 DEF LimitCached, NoFormer, Met
<1>6. Asleep'
  BY <1>1, <1>2, <1>3 DEF SessInv, Asleep, Met
<1>7. WorkKnown'
  <2>1. mysql.in_trans = server.work
    BY <1>1 DEF SessInv, WorkKnown
  <2>2. rolled' /\ ~Met({"env", "swallowed"})' => mysql'.in_trans
    BY <1>1, <1>2, <2>1 DEF SessInv, WorkKnown, Met
  <2> QED
    BY <1>1, <1>3, <2>2 DEF WorkKnown
<1> QED
  BY <1>1, <1>4, <1>5, <1>6, <1>7, Quiet DEF SessInv

-----------------------------------------------------------------------------
LEMMA InitHolds == ASSUME Init PROVE SessInv /\ Answers
<1>1. /\ config \in Configs /\ link = "none" /\ server = Fresh(DATABASE)
      /\ mysql = [autocommit |-> TRUE, in_trans |-> FALSE, db |-> DATABASE]
      /\ dbc = [commit_flag |-> "none", txn_isolation |-> NotKnown,
                sql_select_limit |-> Unlimited, database |-> NoName,
                need_to_wakeup |-> FALSE]
      /\ stmts = [s \in Stmts |-> Free] /\ asked = NothingAsked
      /\ held = "app" /\ rolled = FALSE /\ last = Idle /\ lapses = {}
  BY DEF Init
<1>2. config.autocommit \in BOOLEAN /\ config.isolation \in Known
  BY <1>1, ConfigsAssumption
<1>3. TypeOK
  BY <1>1, <1>2, CatalogsAssumption
     DEF TypeOK, Fresh, NothingAsked, NotKnown
<1>4. server.limit = 0 /\ ~server.work /\ server.owner = "present"
  BY <1>1 DEF Fresh
<1>5. LimitCached
  BY <1>1, <1>4 DEF LimitCached, LimitSent, Unlimited
<1>6. Asleep /\ WorkKnown
  BY <1>1, <1>4 DEF Asleep, WorkKnown
<1>7. Answers
  BY <1>1 DEF Answers, RowLimits, LimitInForce, NoRowsCut, SessionsApart,
     OwnSession, NoForeignCommit, EndTranTruthful, Queried, Idle
<1> QED
  BY <1>3, <1>5, <1>6, <1>7 DEF SessInv

LEMMA StutterHolds ==
    ASSUME SessInv, Answers, UNCHANGED vars PROVE SessInv' /\ Answers'
<1>1. SessInv'
  BY DEF vars, SessInv, TypeOK, LimitCached, Asleep, WorkKnown, NoFormer, Met
<1>2. Answers'
  BY DEF vars, Answers, RowLimits, LimitInForce, NoRowsCut, SessionsApart,
     OwnSession, NoForeignCommit, EndTranTruthful, Queried, Met
<1> QED
  BY <1>1, <1>2

LEMMA NextHolds ==
    ASSUME SessInv /\ Answers, [Next]_vars PROVE SessInv' /\ Answers'
<1>1. CASE CallPasses /\ Answers'
  BY <1>1, CallHolds
<1>2. ASSUME Connected, NotWoken PROVE SessInv' /\ Answers'
  BY <1>2, NotWokenHolds
<1>3. CASE SetEarly \/ Connect \/ Disconnect
  BY <1>3, SetEarlyHolds, ConnectHolds, DisconnectHolds
<1>4. CASE Reset \/ Ask \/ HandOut \/ Drop
  BY <1>4, ResetHolds, AskHolds, HandOutHolds, DropHolds
<1>5. ASSUME NEW on \in BOOLEAN, SetAutocommit(on)
      PROVE  SessInv' /\ Answers'
  BY <1>1, <1>2, <1>5, SetAutocommitPasses DEF SetAutocommit
<1>6. ASSUME NEW v \in Levels, SetIsolation(v) PROVE SessInv' /\ Answers'
  BY <1>1, <1>2, <1>6, SetIsolationPasses DEF SetIsolation
<1>7. ASSUME NEW c \in Catalogs, SetCatalog(c) PROVE SessInv' /\ Answers'
  BY <1>1, <1>2, <1>7, SetCatalogPasses DEF SetCatalog
<1>8. CASE GetAutocommit
  BY <1>1, <1>2, <1>8, GetAutocommitPasses DEF GetAutocommit
<1>9. CASE GetIsolation
  BY <1>1, <1>2, <1>9, GetIsolationPasses DEF GetIsolation
<1>10. CASE GetDead
  <2>1. CASE /\ WakeupRefused /\ OnlySession /\ Answers'
             /\ rolled' \in BOOLEAN /\ (rolled' => rolled)
    BY <1>10, <2>1, RefusedHolds DEF GetDead
  <2> QED
    BY <1>1, <1>10, <2>1, GetDeadPasses
<1>11. CASE GetCatalog
  BY <1>1, <1>11, GetCatalogPasses
<1>12. ASSUME NEW s \in Stmts,
              \/ AllocStmt(s) \/ FreeStmt(s)
              \/ \E n \in MaxRows : SetMaxRows(s, n)
       PROVE  SessInv' /\ Answers'
  <2>1. CASE AllocStmt(s)
    BY <1>1, <1>2, <2>1, AllocStmtPasses DEF AllocStmt
  <2>2. CASE FreeStmt(s) \/ \E n \in MaxRows : SetMaxRows(s, n)
    BY <1>1, <2>2, StmtPasses
  <2> QED
    BY <1>12, <2>1, <2>2
<1>13. ASSUME NEW s \in Stmts,
              \/ Query(s) \/ PreExecute(s) \/ Prepare(s) \/ Lookup(s)
              \/ ByText(s)
       PROVE  SessInv' /\ Answers'
  BY <1>1, <1>13, QueryPasses, PreExecutePasses, PreparePasses, LookupPasses,
     ByTextPasses
<1>14. ASSUME NEW kind \in {"commit", "rollback"},
              EndTran(kind) \/ EndTranEnv(kind)
       PROVE  SessInv' /\ Answers'
  BY <1>1, <1>14, EndTranPasses
<1>15. CASE Lose
  BY <1>15, LoseHolds
<1>16. CASE UNCHANGED vars
  BY <1>16, StutterHolds
<1> QED
  BY <1>3, <1>4, <1>5, <1>6, <1>7, <1>8, <1>9, <1>10, <1>11, <1>12, <1>13,
     <1>14, <1>15, <1>16 DEF Next

LEMMA SessionInvariant == Spec => [](SessInv /\ Answers)
<1>1. Init => SessInv /\ Answers
  BY InitHolds
<1>2. (SessInv /\ Answers) /\ [Next]_vars => (SessInv /\ Answers)'
  BY NextHolds
<1> QED
  BY <1>1, <1>2, PTL DEF Spec

(* The fields of the driver, the client library and the session always     *)
(* have the values the calls give them, and the database of a session that *)
(* begins is one there is.                                                 *)
THEOREM SessionTypes == Spec => []TypeOK
<1>1. SessInv /\ Answers => TypeOK
  BY DEF SessInv
<1> QED
  BY <1>1, SessionInvariant, PTL

(* No query is cut by the SQL_ATTR_MAX_ROWS of another statement, and in   *)
(* the driver's first session each runs under its own: the limit that      *)
(* set_sql_select_limit remembers is wrong only about a session that has   *)
(* none.                                                                   *)
THEOREM RowLimitsHold == Spec => []RowLimits
<1>1. SessInv /\ Answers => RowLimits
  BY DEF Answers
<1> QED
  BY <1>1, SessionInvariant, PTL

(* No query runs in the session of the former user of a pooled connection, *)
(* since what wakes it up comes before any statement; and SQLEndTran, which*)
(* does not, commits none of that user's work if the driver manager asks   *)
(* whether the connection is alive.                                        *)
THEOREM UsersAreApart == Spec => []SessionsApart
<1>1. SessInv /\ Answers => SessionsApart
  BY DEF Answers
<1> QED
  BY <1>1, SessionInvariant, PTL

(* A SQLEndTran that succeeds has left no work open, and none was rolled   *)
(* back that the application has not been told of: my_transact does not    *)
(* reconnect in a transaction, and each call that meets the broken         *)
(* connection returns an error.                                            *)
THEOREM EndTranIsTruthful == Spec => []EndTranTruthful
<1>1. SessInv /\ Answers => EndTranTruthful
  BY DEF Answers
<1> QED
  BY <1>1, SessionInvariant, PTL
-----------------------------------------------------------------------------
(***************************************************************************)
(* What the driver believes of the session                                 *)
(***************************************************************************)

(* The status flags of the last answer are those of the session; a          *)
(* connection that is not up has had none since.                           *)
StatusKnown == link = "up" => mysql.autocommit = server.autocommit

(* The levels the driver remembers are levels there are, unless another was *)
(* set.                                                                    *)
LevelsKnown ==
    ~Met({"level"}) => /\ dbc.txn_isolation \in Known \cup {NotKnown}
                       /\ asked.isolation \subseteq Known

(* What was set before there is a connection is in the fields that          *)
(* DBC::connect sends.                                                     *)
EarlyKept ==
    link = "none" =>
        /\ \/ config.NO_TRANSACTIONS
           \/ asked.autocommit = {}
           \/ /\ dbc.commit_flag # "none"
              /\ asked.autocommit = {dbc.commit_flag = "on"}
        /\ asked.isolation \subseteq {dbc.txn_isolation}

(* The level the driver remembers is that of the session, as long as no     *)
(* other session can have taken its place.                                 *)
IsolationCached ==
    /\ link = "up" /\ held = "app"
    /\ ~Met({"pooled", "unasked", "lost", "text", "level"})
    => dbc.txn_isolation \in {NotKnown, server.isolation}

(* A level the driver has set or asked for is the one it remembers, whatever*)
(* became of earlier sessions; a new session has none.                      *)
SeenTrue ==
    server.seen => link = "up" /\ dbc.txn_isolation = server.isolation

Belief == /\ StatusKnown /\ LevelsKnown /\ EarlyKept /\ IsolationCached
          /\ SettingsHold /\ SeenTrue

(* What the application is told of it.                                     *)
Truths == /\ IsolationTruthful /\ AutocommitTruthful
          /\ LooksInCurrent /\ DeadTruthful

(* Who answers has told the autocommit of its session, and a session that   *)
(* is not woken up keeps its settings; a level that is known was known.     *)
Went ==
    /\ link' # "none" /\ server' \in SessionT /\ StatusKnown'
    /\ \/ dbc.need_to_wakeup
       \/ /\ server'.autocommit = server.autocommit
          /\ server'.isolation = server.isolation
    /\ server'.seen => /\ link' = "up" /\ server.seen
                       /\ server'.isolation = server.isolation

LEMMA AnsweredWent ==
    ASSUME NEW s \in SessionT, NEW db \in Catalogs, Answered(s, db),
           \/ dbc.need_to_wakeup
           \/ /\ s.autocommit = server.autocommit
              /\ s.isolation = server.isolation,
           s.seen => server.seen /\ s.isolation = server.isolation
    PROVE  Went
BY AnsweredType DEF Went, StatusKnown

LEMMA NoCommandWent ==
    ASSUME TypeOK, Connected, StatusKnown, SeenTrue, NoCommand PROVE Went
BY Types DEF Went, StatusKnown, SeenTrue, NoCommand, Connected

LEMMA FailsWent ==
    ASSUME TypeOK, SeenTrue, Fails PROVE Went
<1>1. server \in SessionT
  BY Types
<1> QED
  BY <1>1, FailsType DEF Went, StatusKnown, SeenTrue

LEMMA RefusedWent ==
    ASSUME TypeOK, SeenTrue, WakeupRefused \/ WakeupBroken PROVE Went
<1>1. mysql.db \in Catalogs
  BY Types DEF ClientT
<1> QED
  BY <1>1, RefusedType, FreshType DEF Went, StatusKnown, SeenTrue

LEMMA WokenFailsWent ==
    ASSUME TypeOK, SeenTrue, WokenFails PROVE Went
<1>1. dbc.need_to_wakeup => Woken.seen = FALSE
  BY WokenType, FreshType, CatalogsAssumption
<1> QED
  BY <1>1, WokenFailsType, WokenType DEF Went, StatusKnown, SeenTrue

LEMMA WokenIdleWent ==
    ASSUME TypeOK, Connected, StatusKnown, SeenTrue, WokenIdle PROVE Went
<1>1. dbc.need_to_wakeup => Woken.seen = FALSE
  BY WokenType, FreshType, CatalogsAssumption
<1> QED
  BY <1>1, WokenIdleType, WokenType
     DEF Went, StatusKnown, SeenTrue, Connected

LEMMA WokenDoneWent ==
    ASSUME TypeOK, WokenDone(Woken, WokenDb) PROVE Went
<1>1. dbc.need_to_wakeup => Woken.seen = FALSE
  BY WokenType, FreshType, CatalogsAssumption
<1> QED
  BY <1>1, WokenDoneType, WokenType DEF Went, StatusKnown

(* A session that has just been woken up has no level the driver knows.     *)
LEMMA WokenSeen ==
    ASSUME TypeOK, Woken.seen
    PROVE  server.seen /\ Woken.isolation = server.isolation
<1>1. dbc.need_to_wakeup => Woken.seen = FALSE
  BY WokenType, FreshType, CatalogsAssumption
<1> QED
  BY <1>1, WokenType

(* What is believed after a call of a connected handle.                     *)
LEMMA BeliefKept ==
    ASSUME SessInv, Belief, Connected, config' = config, held' = held,
           lapses \subseteq lapses', link' # "none", server' \in SessionT,
           StatusKnown',
           ~Met({"level"})' =>
               /\ dbc'.txn_isolation
                    \in Known \cup {NotKnown, dbc.txn_isolation}
               /\ asked'.isolation \subseteq asked.isolation \cup Known,
           link' = "up" =>
               \/ asked'.autocommit \subseteq {server'.autocommit}
               \/ /\ asked'.autocommit = asked.autocommit
                  /\ \/ dbc.need_to_wakeup
                     \/ server'.autocommit = server.autocommit,
           link' = "up" =>
               \/ asked'.isolation \subseteq {server'.isolation}
               \/ /\ asked'.isolation = asked.isolation
                  /\ \/ dbc.need_to_wakeup
                     \/ server'.isolation = server.isolation,
           link' = "up" =>
               \/ dbc'.txn_isolation = server'.isolation
               \/ /\ dbc'.txn_isolation = dbc.txn_isolation
                  /\ \/ dbc.need_to_wakeup
                     \/ server'.isolation = server.isolation,
           server'.seen =>
               /\ link' = "up"
               /\ \/ dbc'.txn_isolation = server'.isolation
                  \/ /\ dbc'.txn_isolation = dbc.txn_isolation
                     /\ server.seen /\ server'.isolation = server.isolation
    PROVE  Belief'
<1>1. /\ TypeOK /\ link \in {"up", "lost", "noticed"} /\ held = "app"
      /\ held' = "app"
  BY Types DEF SessInv, Connected
<1>2. /\ dbc.need_to_wakeup => /\ asked.autocommit = {}
                               /\ asked.isolation = {}
                               /\ Met({"pooled", "unasked"})
      /\ link # "up" /\ ~dbc.need_to_wakeup => Met({"lost"})
  BY <1>1 DEF SessInv, Asleep, NothingAsked
<1>3. \A kinds : Met(kinds) => Met(kinds)'
  BY DEF Met
<1>4. LevelsKnown'
  BY <1>3 DEF LevelsKnown, Belief
<1>5. EarlyKept'
  BY DEF EarlyKept
<1>6. IsolationCached'
  <2> SUFFICES ASSUME link' = "up",
                  ~Met({"pooled", "unasked", "lost", "text", "level"})'
               PROVE  dbc'.txn_isolation \in {NotKnown, server'.isolation}
    BY DEF IsolationCached
  <2>1. ~Met({"pooled", "unasked", "lost", "text", "level"})
        /\ ~Met({"pooled", "unasked"}) /\ ~Met({"lost"})
    BY DEF Met
  <2>2. dbc.txn_isolation \in {NotKnown, server.isolation} /\ link = "up"
        /\ ~dbc.need_to_wakeup
    BY <1>1, <1>2, <2>1 DEF Belief, IsolationCached
  <2> QED
    BY <2>2
<1>7. SettingsHold'
  <2> SUFFICES ASSUME link' = "up", ~Met({"lost", "level"})'
               PROVE  /\ \/ config'.NO_TRANSACTIONS
                         \/ asked'.autocommit \subseteq {server'.autocommit}
                      /\ asked'.isolation \subseteq {server'.isolation}
    BY DEF SettingsHold
  <2>1. ~Met({"lost", "level"}) /\ ~Met({"lost"})
    BY DEF Met
  <2>2. CASE dbc.need_to_wakeup
    BY <1>2, <2>2
  <2>3. CASE ~dbc.need_to_wakeup
    <3>1. link = "up"
      BY <1>2, <2>1, <2>3
    <3>2. /\ \/ config.NO_TRANSACTIONS
             \/ asked.autocommit \subseteq {server.autocommit}
          /\ asked.isolation \subseteq {server.isolation}
      BY <1>1, <2>1, <3>1 DEF Belief, SettingsHold
    <3> QED
      BY <2>3, <3>2
  <2> QED
    BY <2>2, <2>3
<1>8. SeenTrue'
  BY DEF Belief, SeenTrue
<1> QED
  BY <1>4, <1>5, <1>6, <1>7, <1>8 DEF Belief

(* A call that asks for nothing and leaves the driver's level.              *)
LEMMA BeliefSteady ==
    ASSUME SessInv, Belief, Connected, Went, config' = config, held' = held,
           asked' = asked, lapses \subseteq lapses',
           dbc'.txn_isolation = dbc.txn_isolation
    PROVE  Belief'
BY BeliefKept DEF Went

LEMMA PlainTruths ==
    ASSUME last'.call \notin {"get_isolation", "get_autocommit", "lookup",
                              "get_dead"}
    PROVE  Truths'
BY DEF Truths, IsolationTruthful, AutocommitTruthful, LooksInCurrent,
   DeadTruthful

LEMMA NotWokenBelief ==
    ASSUME SessInv, Belief, Connected, NotWoken PROVE Belief' /\ Truths'
<1>1. /\ OnlySession /\ Went /\ last'.call = "none" /\ dbc' = dbc
  BY RefusedWent, RefusedType
     DEF NotWoken, OnlySession, Failed, Idle, SessInv, Belief
<1> QED
  BY <1>1, BeliefSteady, PlainTruths DEF OnlySession

LEMMA SetAutocommitBelief ==
    ASSUME SessInv, Belief, NEW on \in BOOLEAN, SetAutocommit(on)
    PROVE  Belief' /\ Truths'
<1>1. TypeOK /\ Connected /\ StatusKnown /\ SeenTrue /\ asked \in AskedT
  BY Types DEF SessInv, SetAutocommit, Belief
<1>2. ASSUME Over \/ Failed PROVE Truths'
  BY <1>1, <1>2, Ended, PlainTruths
<1>3. CASE NotWoken
  BY <1>1, <1>3, NotWokenBelief
<1>4. CASE /\ ~IsConnected
           /\ dbc' = [dbc EXCEPT !.commit_flag = IF on THEN "on" ELSE "off"]
           /\ asked' = [asked EXCEPT !.autocommit = {on}]
           /\ NoCommand /\ Over
           /\ UNCHANGED <<config, stmts, held, lapses>>
  <2>1. /\ dbc'.txn_isolation = dbc.txn_isolation
        /\ asked'.isolation = asked.isolation
    BY <1>1, <1>4, Types DEF DriverT, AskedT
  <2>2. link' = "noticed" /\ Went
    BY <1>1, <1>4, NoCommandWent DEF IsConnected, NoCommand
  <2> QED
    BY <1>1, <1>2, <1>4, <2>1, <2>2, BeliefKept DEF Went
<1>5. CASE WokenIdle /\ Failed /\ OnlySession
  <2>1. Went /\ dbc'.txn_isolation = dbc.txn_isolation
    BY <1>1, <1>5, WokenIdleWent, WokenIdleType, WokenType
  <2> QED
    BY <1>1, <1>2, <1>5, <2>1, BeliefSteady DEF OnlySession
<1>6. CASE /\ WokenDone([Woken EXCEPT !.autocommit = on,
                            !.work = @ /\ ~on], WokenDb)
           /\ Over
           /\ asked' = [asked EXCEPT !.autocommit = {on}]
           /\ UNCHANGED <<config, stmts, held, lapses>>
  <2> DEFINE s == [Woken EXCEPT !.autocommit = on, !.work = @ /\ ~on]
  <2>1. /\ s \in SessionT /\ s.autocommit = on
        /\ s.isolation = Woken.isolation /\ s.seen = Woken.seen
    BY <1>1, WokenType DEF SessionT
  <2>2. WokenDone(s, WokenDb) /\ WokenDb \in Catalogs
    BY <1>1, <1>6, WokenType
  <2> HIDE DEF s
  <2>3. /\ link' = "up" /\ server' = s /\ mysql'.autocommit = on
        /\ dbc'.txn_isolation = dbc.txn_isolation
    BY <1>1, <2>1, <2>2, WokenDoneType, WokenType
  <2>4. asked'.autocommit = {on} /\ asked'.isolation = asked.isolation
    BY <1>1, <1>6 DEF AskedT
  <2>5. dbc.need_to_wakeup \/ s.isolation = server.isolation
    BY <1>1, <2>1, WokenType
  <2>6. s.seen => server.seen /\ s.isolation = server.isolation
    BY <1>1, <2>1, WokenSeen
  <2>7. Belief'
    BY <1>1, <1>6, <2>1, <2>3, <2>4, <2>5, <2>6, BeliefKept DEF StatusKnown
  <2> QED
    BY <1>2, <1>6, <2>7
<1>7. CASE WokenFails /\ Failed /\ UNCHANGED asked
           /\ UNCHANGED <<config, stmts, held, lapses>>
  <2>1. Went /\ dbc'.txn_isolation = dbc.txn_isolation
    BY <1>1, <1>7, WokenFailsWent, WokenFailsType, WokenType
  <2> QED
    BY <1>1, <1>2, <1>7, <2>1, BeliefSteady
<1>8. CASE /\ (IF dbc.need_to_wakeup THEN config.autocommit
               ELSE mysql.autocommit) = on
           /\ WokenIdle /\ Over
           /\ asked' = [asked EXCEPT !.autocommit = {on}]
           /\ UNCHANGED <<config, stmts, held, lapses>>
  <2>1. /\ Went /\ dbc'.txn_isolation = dbc.txn_isolation
        /\ server' = Woken
    BY <1>1, <1>8, WokenIdleWent, WokenIdleType, WokenType
  <2>2. asked'.autocommit = {on} /\ asked'.isolation = asked.isolation
    BY <1>1, <1>8 DEF AskedT
  <2>3. link' = "up" => server'.autocommit = on
    <3>1. CASE dbc.need_to_wakeup
      BY <1>1, <1>8, <2>1, <3>1, WokenType, FreshType, CatalogsAssumption
    <3>2. CASE ~dbc.need_to_wakeup
      BY <1>1, <1>8, <2>1, <3>2, WokenType, WokenIdleType DEF StatusKnown
    <3> QED
      BY <3>1, <3>2
  <2>4. Belief'
    BY <1>1, <1>8, <2>1, <2>2, <2>3, BeliefKept DEF Went
  <2> QED
    BY <1>2, <1>8, <2>4
<1> QED
  BY <1>3, <1>4, <1>5, <1>6, <1>7, <1>8 DEF SetAutocommit

LEMMA SetIsolationBelief ==
    ASSUME SessInv, Belief, NEW v \in Levels, SetIsolation(v)
    PROVE  Belief' /\ Truths'
<1>1. /\ TypeOK /\ Connected /\ StatusKnown /\ SeenTrue /\ asked \in AskedT
      /\ dbc \in DriverT /\ v \in Nat
  BY Types, LevelsAssumption DEF SessInv, SetIsolation, Belief
<1>2. ASSUME Over \/ Failed PROVE Truths'
  BY <1>1, <1>2, Ended, PlainTruths
<1>3. CASE NotWoken
  BY <1>1, <1>3, NotWokenBelief
<1>4. CASE /\ ~IsConnected
           /\ dbc' = [dbc EXCEPT !.txn_isolation = v]
           /\ asked' = [asked EXCEPT !.isolation = {v}]
           /\ NoCommand /\ Over
           /\ IF v \in Known THEN UNCHANGED lapses ELSE Meet("level")
           /\ UNCHANGED <<config, stmts, held>>
  <2>1. /\ dbc'.txn_isolation = v /\ asked'.isolation = {v}
        /\ asked'.autocommit = asked.autocommit
    BY <1>1, <1>4 DEF DriverT, AskedT
  <2>2. link' = "noticed" /\ Went
    BY <1>1, <1>4, NoCommandWent DEF IsConnected, NoCommand
  <2>3. lapses \subseteq lapses' /\ (~Met({"level"})' => v \in Known)
    BY <1>1, <1>4, MeetType DEF Met
  <2> QED
    BY <1>1, <1>2, <1>4, <2>1, <2>2, <2>3, BeliefKept DEF Went
<1>5. CASE WokenIdle /\ Failed /\ OnlySession
  <2>1. Went /\ dbc'.txn_isolation = dbc.txn_isolation
    BY <1>1, <1>5, WokenIdleWent, WokenIdleType, WokenType
  <2> QED
    BY <1>1, <1>2, <1>5, <2>1, BeliefSteady DEF OnlySession
<1>6. CASE WokenFails /\ Failed /\ OnlySession
  <2>1. Went /\ dbc'.txn_isolation = dbc.txn_isolation
    BY <1>1, <1>6, WokenFailsWent, WokenFailsType, WokenType
  <2> QED
    BY <1>1, <1>2, <1>6, <2>1, BeliefSteady DEF OnlySession
<1>7. CASE /\ v \in Known
           /\ Answered([Woken EXCEPT !.isolation = v, !.seen = TRUE],
                       WokenDb)
           /\ dbc' = [WokenDbc EXCEPT !.txn_isolation = v]
           /\ asked' = [asked EXCEPT !.isolation = {v}]
           /\ Over
           /\ UNCHANGED <<config, stmts, held, lapses>>
  <2> DEFINE s == [Woken EXCEPT !.isolation = v, !.seen = TRUE]
  <2>1. /\ s \in SessionT /\ s.isolation = v
        /\ s.autocommit = Woken.autocommit
    BY <1>1, <1>7, WokenType DEF SessionT
  <2>2. Answered(s, WokenDb) /\ WokenDb \in Catalogs
    BY <1>1, <1>7, WokenType
  <2> HIDE DEF s
  <2>3. /\ link' = "up" /\ server' = s /\ mysql'.autocommit = s.autocommit
    BY <1>1, <2>1, <2>2, AnsweredType
  <2>4. /\ asked'.isolation = {v} /\ asked'.autocommit = asked.autocommit
        /\ dbc'.txn_isolation = v
    BY <1>1, <1>7, WokenType DEF AskedT, DriverT
  <2>5. dbc.need_to_wakeup \/ s.autocommit = server.autocommit
    BY <1>1, <2>1, WokenType
  <2>6. Belief'
    BY <1>1, <1>7, <2>1, <2>3, <2>4, <2>5, BeliefKept DEF StatusKnown
  <2> QED
    BY <1>2, <1>7, <2>6
<1> QED
  BY <1>3, <1>4, <1>5, <1>6, <1>7 DEF SetIsolation

LEMMA SetCatalogBelief ==
    ASSUME SessInv, Belief, NEW c \in Catalogs, SetCatalog(c)
    PROVE  Belief' /\ Truths'
<1>1. /\ TypeOK /\ Connected /\ StatusKnown /\ SeenTrue /\ dbc \in DriverT
  BY Types DEF SessInv, SetCatalog, Belief
<1>2. ASSUME Over \/ Failed PROVE Truths'
  BY <1>1, <1>2, Ended, PlainTruths
<1>3. CASE NotWoken
  BY <1>1, <1>3, NotWokenBelief
<1>4. CASE /\ dbc' = [dbc EXCEPT !.database = c]
           /\ NoCommand /\ Over /\ OnlySession
  <2>1. Went /\ dbc'.txn_isolation = dbc.txn_isolation
    BY <1>1, <1>4, NoCommandWent DEF DriverT
  <2> QED
    BY <1>1, <1>2, <1>4, <2>1, BeliefSteady DEF OnlySession
<1>5. CASE WokenFails /\ Failed /\ OnlySession
  <2>1. Went /\ dbc'.txn_isolation = dbc.txn_isolation
    BY <1>1, <1>5, WokenFailsWent, WokenFailsType, WokenType
  <2> QED
    BY <1>1, <1>2, <1>5, <2>1, BeliefSteady DEF OnlySession
<1>6. CASE /\ Answered([Woken EXCEPT !.catalog = c], c)
           /\ dbc' = [WokenDbc EXCEPT !.database = c]
           /\ Over /\ OnlySession
  <2> DEFINE s == [Woken EXCEPT !.catalog = c]
  <2>1. /\ s \in SessionT /\ s.isolation = Woken.isolation
        /\ s.autocommit = Woken.autocommit /\ s.seen = Woken.seen
    BY <1>1, WokenType DEF SessionT
  <2>2. Answered(s, c)
    BY <1>6
  <2> HIDE DEF s
  <2>3. Went
    BY <1>1, <2>1, <2>2, AnsweredWent, WokenType, WokenSeen
  <2>4. dbc'.txn_isolation = dbc.txn_isolation
    BY <1>1, <1>6, WokenType DEF DriverT
  <2> QED
    BY <1>1, <1>2, <1>6, <2>3, <2>4, BeliefSteady DEF OnlySession
<1> QED
  BY <1>3, <1>4, <1>5, <1>6 DEF SetCatalog

LEMMA GetAutocommitBelief ==
    ASSUME SessInv, Belief, GetAutocommit PROVE Belief' /\ Truths'
<1>1. TypeOK /\ Connected /\ StatusKnown /\ SeenTrue
  BY DEF SessInv, GetAutocommit, Belief
<1>2. CASE NotWoken
  BY <1>1, <1>2, NotWokenBelief
<1>3. CASE /\ WokenIdle /\ Return("get_autocommit", mysql'.autocommit)
           /\ OnlySession
  <2>1. Went /\ dbc'.txn_isolation = dbc.txn_isolation
    BY <1>1, <1>3, WokenIdleWent, WokenIdleType, WokenType
  <2>2. Belief'
    BY <1>1, <1>3, <2>1, BeliefSteady DEF OnlySession
  <2>3. last'.call = "get_autocommit" /\ last'.value = mysql'.autocommit
    BY <1>1, <1>3, Returned
  <2>4. link' = "up" => server'.autocommit = last'.value
    BY <2>1, <2>3 DEF Went, StatusKnown
  <2> QED
    BY <2>2, <2>3, <2>4 DEF Truths, IsolationTruthful, AutocommitTruthful,
       LooksInCurrent, DeadTruthful
<1> QED
  BY <1>2, <1>3 DEF GetAutocommit

LEMMA GetIsolationBelief ==
    ASSUME SessInv, Belief, GetIsolation PROVE Belief' /\ Truths'
<1>1. /\ TypeOK /\ Connected /\ StatusKnown /\ SeenTrue
      /\ OnlySession /\ dbc \in DriverT
      /\ held = "app"
  BY Types DEF SessInv, GetIsolation, Belief, Connected
<1>2. /\ config' = config /\ asked' = asked /\ held' = held
      /\ lapses' = lapses
  BY <1>1 DEF OnlySession
<1>3. ASSUME NEW value, Return("get_isolation", value),
             (\/ server'.seen
              \/ ~Met({"pooled", "unasked", "lost", "text", "level"})')
                => server'.isolation = value
      PROVE  Truths'
  <2>1. last'.call = "get_isolation" /\ last'.value = value
    BY <1>1, <1>3, Returned
  <2> QED
    BY <1>3, <2>1 DEF Truths, IsolationTruthful, AutocommitTruthful,
       LooksInCurrent, DeadTruthful
<1>4. CASE NotWoken
  BY <1>1, <1>4, NotWokenBelief
<1>5. ~Met({"pooled", "unasked", "lost", "text", "level"})'
         => ~dbc.need_to_wakeup /\ link = "up"
  <2>1. link \in {"up", "lost", "noticed"}
    BY <1>1, Types DEF Connected
  <2> QED
    BY <1>1, <1>2, <2>1 DEF SessInv, Asleep, Met
<1>6. CASE /\ dbc.txn_isolation # NotKnown /\ WokenIdle
           /\ Return("get_isolation", dbc.txn_isolation)
  <2>1. Went /\ dbc'.txn_isolation = dbc.txn_isolation /\ server' = Woken
    BY <1>1, <1>6, WokenIdleWent, WokenIdleType, WokenType
  <2>2. Belief'
    BY <1>1, <1>2, <2>1, BeliefSteady
  <2>3. ~Met({"pooled", "unasked", "lost", "text", "level"})'
           => server'.isolation = dbc.txn_isolation
    <3> SUFFICES ASSUME
                   ~Met({"pooled", "unasked", "lost", "text", "level"})'
                 PROVE  server'.isolation = dbc.txn_isolation
      OBVIOUS
    <3>1. server' = server
      BY <1>1, <1>5, <2>1, WokenType
    <3>2. dbc.txn_isolation \in {NotKnown, server.isolation}
      BY <1>1, <1>2, <1>5 DEF Belief, IsolationCached, Met
    <3> QED
      BY <1>6, <3>1, <3>2
  <2>4. server'.seen => server'.isolation = dbc.txn_isolation
    BY <2>1, <2>2 DEF Belief, SeenTrue
  <2> QED
    BY <1>3, <1>6, <2>2, <2>3, <2>4
<1>7. CASE /\ dbc.txn_isolation = NotKnown /\ ~IsConnected
           /\ NoCommand /\ UNCHANGED dbc /\ Return("get_isolation", 4)
  <2>1. Went /\ dbc'.txn_isolation = dbc.txn_isolation
    BY <1>1, <1>7, NoCommandWent
  <2>2. Belief'
    BY <1>1, <1>2, <2>1, BeliefSteady
  <2>3. Met({"pooled", "unasked", "lost", "text", "level"})'
    BY <1>5, <1>7 DEF IsConnected
  <2>4. ~server'.seen
    BY <1>1, <1>7 DEF IsConnected, SeenTrue, NoCommand
  <2> QED
    BY <1>3, <1>7, <2>2, <2>3, <2>4
<1>8. CASE /\ Answered([Woken EXCEPT !.seen = TRUE], WokenDb)
           /\ dbc' = [WokenDbc EXCEPT !.txn_isolation = Woken.isolation]
           /\ Return("get_isolation", Woken.isolation)
  <2>1. PICK s \in SessionT : /\ s = [Woken EXCEPT !.seen = TRUE]
                              /\ s.autocommit = Woken.autocommit
                              /\ s.isolation = Woken.isolation
    BY <1>1, WokenType, NowSeen
  <2>2. /\ link' = "up" /\ server' = s /\ mysql'.autocommit = s.autocommit
    BY <1>1, <1>8, <2>1, AnsweredType, WokenType
  <2>3. dbc'.txn_isolation = server'.isolation /\ server'.isolation \in Known
    BY <1>1, <1>8, <2>1, <2>2, WokenType DEF DriverT, SessionT
  <2>4. \/ dbc.need_to_wakeup
        \/ /\ s.autocommit = server.autocommit
           /\ s.isolation = server.isolation
    BY <1>1, <2>1, WokenType
  <2>5. Belief'
    BY <1>1, <1>2, <2>2, <2>3, <2>4, BeliefKept DEF StatusKnown
  <2> QED
    BY <1>3, <1>8, <2>1, <2>2, <2>5
<1>9. CASE WokenFails /\ Failed
  <2>1. Went /\ dbc'.txn_isolation = dbc.txn_isolation
    BY <1>1, <1>9, WokenFailsWent, WokenFailsType, WokenType
  <2>2. Belief'
    BY <1>1, <1>2, <2>1, BeliefSteady
  <2> QED
    BY <1>1, <1>9, <2>2, Ended, PlainTruths
<1> QED
  BY <1>4, <1>6, <1>7, <1>8, <1>9 DEF GetIsolation

LEMMA GetDeadBelief ==
    ASSUME SessInv, Belief, GetDead PROVE Belief' /\ Truths'
<1>1. /\ TypeOK /\ Connected /\ StatusKnown /\ SeenTrue /\ OnlySession
  BY DEF SessInv, GetDead, Belief
<1>2. ASSUME Went, dbc'.txn_isolation = dbc.txn_isolation PROVE Belief'
  BY <1>1, <1>2, BeliefSteady DEF OnlySession
<1>3. ASSUME NEW value \in BOOLEAN, Return("get_dead", value),
             value => link' = "noticed",
             ~value /\ ~dbc'.need_to_wakeup => link' = "up"
      PROVE  Truths'
  <2>1. last'.call = "get_dead" /\ last'.value = value
    BY <1>1, <1>3, Returned
  <2> QED
    BY <1>3, <2>1 DEF Truths, IsolationTruthful, AutocommitTruthful,
       LooksInCurrent, DeadTruthful
<1>4. CASE WokenDone(Woken, WokenDb) /\ Return("get_dead", FALSE)
  <2>1. Went /\ link' = "up" /\ dbc'.txn_isolation = dbc.txn_isolation
    BY <1>1, <1>4, WokenDoneWent, WokenDoneType, WokenType
  <2> QED
    BY <1>2, <1>3, <1>4, <2>1
<1>5. CASE Done(server) /\ UNCHANGED dbc /\ Return("get_dead", FALSE)
  <2>1. Fails /\ link' = "up"
    BY <1>5 DEF Fails, Done, Answered
  <2> QED
    BY <1>1, <1>2, <1>3, <1>5, <2>1, FailsWent
<1>6. CASE WakeupRefused /\ Return("get_dead", FALSE)
  <2>1. Went /\ dbc' = dbc /\ dbc.need_to_wakeup
    BY <1>1, <1>6, RefusedWent, RefusedType
  <2> QED
    BY <1>2, <1>3, <1>6, <2>1
<1>7. CASE Broken /\ UNCHANGED dbc /\ Return("get_dead", TRUE)
  <2>1. Fails /\ link' = "noticed"
    BY <1>7 DEF Fails, Broken
  <2> QED
    BY <1>1, <1>2, <1>3, <1>7, <2>1, FailsWent
<1> QED
  BY <1>4, <1>5, <1>6, <1>7 DEF GetDead

LEMMA GetCatalogBelief ==
    ASSUME SessInv, Belief, GetCatalog PROVE Belief' /\ Truths'
<1>1. /\ TypeOK /\ Connected /\ StatusKnown /\ SeenTrue
      /\ OnlySession /\ dbc \in DriverT
      /\ (Over \/ Failed)
  BY Types DEF SessInv, GetCatalog, Belief
<1>2. dbc'.txn_isolation = dbc.txn_isolation
  BY <1>1 DEF GetCatalog, DriverT
<1>3. NoCommand \/ Fails
  BY DEF GetCatalog, Fails
<1>4. Went
  BY <1>1, <1>3, NoCommandWent, FailsWent
<1> QED
  BY <1>1, <1>2, <1>4, BeliefSteady, Ended, PlainTruths DEF OnlySession

(* The row limit and a write leave the other settings alone.                *)
LEMMA LimitedKeeps ==
    ASSUME NEW s \in SessionT, NEW d \in DriverT,
           NEW n \in Nat \cup {Unlimited}
    PROVE  /\ Limited(s, d, n) \in SessionT /\ LimitedDbc(d, n) \in DriverT
           /\ Limited(s, d, n).autocommit = s.autocommit
           /\ Limited(s, d, n).isolation = s.isolation
           /\ Limited(s, d, n).catalog = s.catalog
           /\ Limited(s, d, n).seen = s.seen
           /\ LimitedDbc(d, n).txn_isolation = d.txn_isolation
           /\ LimitedDbc(d, n).database = d.database
<1>1. /\ Limited(s, d, n) \in {s, [s EXCEPT !.limit = LimitSent(n)]}
      /\ LimitedDbc(d, n)
           \in {d, [d EXCEPT !.sql_select_limit = LimitSent(n)]}
  BY DEF Limited, LimitedDbc
<1> QED
  BY <1>1, LimitIsSet DEF SessionT, DriverT

LEMMA WroteKeeps ==
    ASSUME NEW s \in SessionT, NEW writes \in BOOLEAN
    PROVE  /\ Wrote(s, writes) \in SessionT
           /\ Wrote(s, writes).autocommit = s.autocommit
           /\ Wrote(s, writes).isolation = s.isolation
           /\ Wrote(s, writes).catalog = s.catalog
           /\ Wrote(s, writes).seen = s.seen
BY WroteType DEF Wrote, SessionT

LEMMA WorksWent ==
    ASSUME TypeOK, NEW d \in DriverT, NEW n \in Nat \cup {Unlimited},
           NEW writes \in BOOLEAN, NEW call, QueryWorks(call, d, n, writes)
    PROVE  /\ Went /\ dbc'.txn_isolation = d.txn_isolation
           /\ dbc'.database = d.database
           /\ server'.catalog = server.catalog /\ last'.call = call
<1>1. server \in SessionT /\ mysql.db \in Catalogs
  BY Types DEF ClientT
<1> DEFINE s == Limited(server, d, n)
           r == Wrote(s, writes)
<1>2. Answered(r, mysql.db) /\ dbc' = LimitedDbc(d, n) /\ Return(call, n)
  BY DEF QueryWorks
<1>3. /\ r \in SessionT /\ r.autocommit = server.autocommit
      /\ r.isolation = server.isolation /\ r.catalog = server.catalog
      /\ r.seen = server.seen
  BY <1>1, LimitedKeeps, WroteKeeps
<1> HIDE DEF r
<1>4. Went
  BY <1>1, <1>2, <1>3, AnsweredWent
<1>5. server' = r
  BY <1>2 DEF Answered
<1> QED
  BY <1>2, <1>3, <1>4, <1>5, LimitedKeeps, Returned

LEMMA RefusedQueryWent ==
    ASSUME TypeOK, SeenTrue, NEW d \in DriverT, NEW n \in Nat \cup {Unlimited},
           QueryRefused(d, n) \/ Unreachable(d)
    PROVE  /\ Went /\ dbc'.txn_isolation = d.txn_isolation
           /\ last'.call = "none"
<1>1. server \in SessionT /\ mysql.db \in Catalogs
  BY Types DEF ClientT
<1>2. last'.call = "none"
  BY Ended DEF QueryRefused, Unreachable
<1>3. CASE Unreachable(d)
  BY <1>2, <1>3, FailsWent DEF Unreachable, Fails
<1>4. CASE Answered(Limited(server, d, n), mysql.db) /\ dbc' = LimitedDbc(d, n)
  BY <1>1, <1>2, <1>4, LimitedKeeps, AnsweredWent
<1>5. CASE Answered(server, mysql.db) /\ dbc' = d
  BY <1>1, <1>2, <1>5, AnsweredWent
<1> QED
  BY <1>3, <1>4, <1>5 DEF QueryRefused

LEMMA QueryBelief ==
    ASSUME SessInv, Belief, NEW s \in Stmts, Query(s)
    PROVE  Belief' /\ Truths'
<1>1. /\ TypeOK /\ Connected /\ stmts[s] # Free /\ OnlySession
      /\ dbc \in DriverT /\ SeenTrue
  BY Types DEF SessInv, Query, Belief
<1>2. stmts[s] \in Nat \cup {Unlimited}
  BY <1>1, HasStatement
<1>3. /\ Went /\ dbc'.txn_isolation = dbc.txn_isolation
      /\ last'.call \in {"none", "query"}
  BY <1>1, <1>2, WorksWent, RefusedQueryWent DEF Query
<1> QED
  BY <1>1, <1>3, BeliefSteady, PlainTruths DEF OnlySession

LEMMA PreExecuteBelief ==
    ASSUME SessInv, Belief, NEW s \in Stmts, PreExecute(s)
    PROVE  Belief' /\ Truths'
<1>1. /\ TypeOK /\ Connected /\ stmts[s] # Free /\ OnlySession
      /\ dbc \in DriverT /\ server \in SessionT /\ mysql.db \in Catalogs
      /\ SeenTrue
  BY Types DEF SessInv, PreExecute, ClientT, Belief
<1>2. stmts[s] \in Nat \cup {Unlimited} /\ 1 \in Nat \cup {Unlimited}
  BY <1>1, HasStatement
<1>3. ASSUME Went, dbc'.txn_isolation = dbc.txn_isolation,
             last'.call \in {"none", "query"}
      PROVE  Belief' /\ Truths'
  BY <1>1, <1>3, BeliefSteady, PlainTruths DEF OnlySession
<1>4. CASE QueryWorks("query", dbc, 1, FALSE) \/ Unreachable(dbc)
  BY <1>1, <1>2, <1>3, <1>4, WorksWent, RefusedQueryWent
<1>5. ASSUME NEW one \in BOOLEAN, NEW own \in BOOLEAN,
             LET d1 == IF one THEN LimitedDbc(dbc, 1) ELSE dbc
                 s1 == IF one THEN Limited(server, dbc, 1) ELSE server
             IN  /\ one => Reachable
                 /\ Answered(IF own THEN Limited(s1, d1, stmts[s]) ELSE s1,
                             mysql.db)
                 /\ dbc' = IF own THEN LimitedDbc(d1, stmts[s]) ELSE d1,
             Failed
      PROVE  Belief' /\ Truths'
  <2> DEFINE d1 == IF one THEN LimitedDbc(dbc, 1) ELSE dbc
             s1 == IF one THEN Limited(server, dbc, 1) ELSE server
             d2 == IF own THEN LimitedDbc(d1, stmts[s]) ELSE d1
             s2 == IF own THEN Limited(s1, d1, stmts[s]) ELSE s1
  <2>1. /\ s1 \in SessionT /\ d1 \in DriverT
        /\ s1.autocommit = server.autocommit
        /\ s1.isolation = server.isolation /\ s1.seen = server.seen
        /\ d1.txn_isolation = dbc.txn_isolation
    <3>1. PICK n \in Nat \cup {Unlimited} : n = 1
      BY <1>2
    <3>2. /\ Limited(server, dbc, n) \in SessionT
          /\ LimitedDbc(dbc, n) \in DriverT
          /\ Limited(server, dbc, n).autocommit = server.autocommit
          /\ Limited(server, dbc, n).isolation = server.isolation
          /\ Limited(server, dbc, n).seen = server.seen
          /\ LimitedDbc(dbc, n).txn_isolation = dbc.txn_isolation
      BY <1>1, LimitedKeeps
    <3> QED
      BY <1>1, <3>1, <3>2, Zenon
  <2>2. Answered(s2, mysql.db) /\ dbc' = d2
    BY <1>5
  <2> HIDE DEF s1, d1
  <2>3. /\ s2 \in SessionT
        /\ s2.autocommit = server.autocommit
        /\ s2.isolation = server.isolation /\ s2.seen = server.seen
        /\ d2.txn_isolation = dbc.txn_isolation
    <3>1. PICK n \in Nat \cup {Unlimited} : n = stmts[s]
      BY <1>2
    <3>2. /\ Limited(s1, d1, n) \in SessionT
          /\ Limited(s1, d1, n).autocommit = s1.autocommit
          /\ Limited(s1, d1, n).isolation = s1.isolation
          /\ Limited(s1, d1, n).seen = s1.seen
          /\ LimitedDbc(d1, n).txn_isolation = d1.txn_isolation
      BY <2>1, LimitedKeeps
    <3> QED
      BY <2>1, <3>1, <3>2, Zenon
  <2> HIDE DEF s2, d2
  <2>4. last'.call = "none"
    BY <1>1, <1>5, Ended
  <2> QED
    BY <1>1, <1>3, <2>2, <2>3, <2>4, AnsweredWent
<1> QED
  BY <1>4, <1>5 DEF PreExecute

LEMMA PrepareBelief ==
    ASSUME SessInv, Belief, NEW s \in Stmts, Prepare(s)
    PROVE  Belief' /\ Truths'
<1>1. /\ TypeOK /\ Connected
      /\ dbc \in DriverT /\ server \in SessionT /\ mysql.db \in Catalogs
      /\ UNCHANGED <<config, stmts, asked, held>>
      /\ 0 \in Nat \cup {Unlimited} /\ SeenTrue
  BY Types DEF SessInv, Prepare, ClientT, Belief
<1>2. lapses \subseteq lapses'
  BY <1>1, MeetType DEF Prepare
<1>3. (Over \/ Failed) /\ last'.call = "none"
  BY <1>1, Ended DEF Prepare, Unreachable
<1>4. CASE /\ Answered(Limited(server, dbc, 0), mysql.db)
           /\ dbc' = LimitedDbc(dbc, 0)
  <2>1. Went /\ dbc'.txn_isolation = dbc.txn_isolation
    BY <1>1, <1>4, LimitedKeeps, AnsweredWent
  <2> QED
    BY <1>1, <1>2, <1>3, <2>1, BeliefSteady, PlainTruths
<1>5. CASE Answered(server, mysql.db) /\ UNCHANGED dbc
  <2>1. Went /\ dbc'.txn_isolation = dbc.txn_isolation
    BY <1>1, <1>5, AnsweredWent
  <2> QED
    BY <1>1, <1>2, <1>3, <2>1, BeliefSteady, PlainTruths
<1>6. CASE Unreachable(dbc)
  <2>1. Went /\ dbc'.txn_isolation = dbc.txn_isolation
    BY <1>1, <1>6, FailsWent DEF Unreachable, Fails
  <2> QED
    BY <1>1, <1>2, <1>3, <2>1, BeliefSteady, PlainTruths
<1> QED
  BY <1>4, <1>5, <1>6 DEF Prepare

LEMMA LookupBelief ==
    ASSUME SessInv, Belief, NEW s \in Stmts, Lookup(s)
    PROVE  Belief' /\ Truths'
<1>1. /\ TypeOK /\ Connected /\ stmts[s] # Free
      /\ dbc \in DriverT /\ server \in SessionT
      /\ UNCHANGED <<config, stmts, asked, held>> /\ SeenTrue
  BY Types DEF SessInv, Lookup, Belief
<1>2. stmts[s] \in Nat \cup {Unlimited} /\ FALSE \in BOOLEAN
  BY <1>1, HasStatement
<1>3. lapses \subseteq lapses'
  BY <1>1, MeetType DEF Lookup
<1> DEFINE known == [dbc EXCEPT !.database = server.catalog]
           lost  == [dbc EXCEPT !.database = NoName]
<1>4. /\ known \in DriverT /\ lost \in DriverT
      /\ known.txn_isolation = dbc.txn_isolation
      /\ lost.txn_isolation = dbc.txn_isolation
      /\ known.database = server.catalog /\ lost.database = NoName
  BY <1>1 DEF DriverT, SessionT
<1>5. /\ \/ QueryWorks("lookup", known, stmts[s], FALSE)
         \/ QueryRefused(known, stmts[s])
         \/ /\ Met({"swallowed"})'
            /\ QueryWorks("lookup", lost, stmts[s], FALSE)
         \/ QueryRefused(lost, stmts[s])
         \/ Unreachable(lost)
  <2>1. Meet("swallowed") => Met({"swallowed"})'
    BY <1>1, MeetType DEF Met
  <2> QED
    BY <2>1 DEF Lookup
<1> HIDE DEF known, lost
<1>6. ASSUME Went, dbc'.txn_isolation = dbc.txn_isolation PROVE Belief'
  BY <1>1, <1>3, <1>6, BeliefSteady
<1>7. ASSUME last'.call = "lookup",
             \/ dbc'.database = server'.catalog
             \/ dbc'.database = NoName /\ Met({"swallowed"})'
      PROVE  Truths'
  BY <1>7 DEF Truths, IsolationTruthful, AutocommitTruthful,
     LooksInCurrent, DeadTruthful
<1>8. CASE QueryWorks("lookup", known, stmts[s], FALSE)
  BY <1>1, <1>2, <1>4, <1>6, <1>7, <1>8, WorksWent
<1>9. CASE /\ Met({"swallowed"})'
           /\ QueryWorks("lookup", lost, stmts[s], FALSE)
  BY <1>1, <1>2, <1>4, <1>6, <1>7, <1>9, WorksWent
<1>10. CASE \/ QueryRefused(known, stmts[s])
            \/ QueryRefused(lost, stmts[s]) \/ Unreachable(lost)
  BY <1>1, <1>2, <1>4, <1>6, <1>10, RefusedQueryWent, PlainTruths
<1> QED
  BY <1>5, <1>8, <1>9, <1>10

(* What a text changes is no longer what the application has asked for.     *)
LEMMA ByTextBelief ==
    ASSUME SessInv, Belief, NEW s \in Stmts, ByText(s)
    PROVE  Belief' /\ Truths'
<1>1. /\ TypeOK /\ Connected /\ stmts[s] # Free
      /\ dbc \in DriverT /\ server \in SessionT /\ mysql.db \in Catalogs
      /\ UNCHANGED <<config, stmts, held>> /\ asked' = NothingAsked /\ Over
      /\ Meet("text") /\ dbc' = LimitedDbc(dbc, stmts[s])
  BY Types DEF SessInv, ByText, ClientT
<1>2. stmts[s] \in Nat \cup {Unlimited}
  BY <1>1, HasStatement
<1>3. lapses' = lapses \cup {"text"}
  BY <1>1, MeetType
<1> DEFINE before == Limited(server, dbc, stmts[s])
<1>4. /\ before \in SessionT /\ before.isolation = server.isolation
      /\ before.seen = server.seen
  BY <1>1, <1>2, LimitedKeeps
<1>5. PICK r : /\ Answered(r, mysql.db)
               /\ \/ \E on \in BOOLEAN :
                        r = [before EXCEPT !.autocommit = on,
                                           !.work = @ /\ ~on]
                  \/ \E v \in Known :
                        r = [before EXCEPT !.isolation = v, !.seen = FALSE]
                  \/ \E c \in Catalogs : r = [before EXCEPT !.catalog = c]
  BY DEF ByText
<1> HIDE DEF before
<1>6. /\ r \in SessionT
      /\ r.seen => server.seen /\ r.isolation = server.isolation
  BY <1>4, <1>5 DEF SessionT
<1>7. /\ link' = "up" /\ server' = r /\ server' \in SessionT
      /\ mysql'.autocommit = r.autocommit
  BY <1>1, <1>5, <1>6, AnsweredType
<1>8. /\ asked'.autocommit = {} /\ asked'.isolation = {}
      /\ dbc'.txn_isolation = dbc.txn_isolation
  <2>1. LimitedDbc(dbc, stmts[s]).txn_isolation = dbc.txn_isolation
    BY <1>1, <1>2, LimitedKeeps
  <2> QED
    BY <1>1, <2>1 DEF NothingAsked
<1>9. Belief'
  <2>1. StatusKnown'
    BY <1>7 DEF StatusKnown
  <2>2. LevelsKnown'
    BY <1>3, <1>8 DEF Belief, LevelsKnown, Met
  <2>3. EarlyKept'
    BY <1>7 DEF EarlyKept
  <2>4. IsolationCached'
    BY <1>3 DEF IsolationCached, Met
  <2>5. SettingsHold'
    BY <1>8 DEF SettingsHold
  <2>6. SeenTrue'
    BY <1>6, <1>7, <1>8 DEF Belief, SeenTrue
  <2> QED
    BY <2>1, <2>2, <2>3, <2>4, <2>5, <2>6 DEF Belief
<1> QED
  BY <1>1, <1>9, Ended, PlainTruths

LEMMA StmtBelief ==
    ASSUME SessInv, Belief, NEW s \in Stmts,
           \/ AllocStmt(s) \/ FreeStmt(s)
           \/ \E n \in MaxRows : SetMaxRows(s, n)
    PROVE  Belief' /\ Truths'
<1>1. TypeOK /\ Connected /\ StatusKnown /\ SeenTrue
  BY DEF SessInv, Belief, AllocStmt, FreeStmt, SetMaxRows
<1>2. CASE NotWoken
  BY <1>1, <1>2, NotWokenBelief
<1>3. CASE ~NotWoken
  <2>1. /\ Over /\ UNCHANGED <<config, asked, held, lapses>>
        /\ WokenIdle \/ (NoCommand /\ UNCHANGED dbc)
    BY <1>3 DEF AllocStmt, FreeStmt, SetMaxRows
  <2>2. Went /\ dbc'.txn_isolation = dbc.txn_isolation
    BY <1>1, <2>1, WokenIdleWent, WokenIdleType, WokenType, NoCommandWent
  <2> QED
    BY <1>1, <2>1, <2>2, BeliefSteady, Ended, PlainTruths
<1> QED
  BY <1>2, <1>3

LEMMA EndTranBelief ==
    ASSUME SessInv, Belief, NEW kind \in {"commit", "rollback"},
           EndTran(kind) \/ EndTranEnv(kind)
    PROVE  Belief' /\ Truths'
<1>1. /\ TypeOK /\ Connected /\ dbc' = dbc /\ StatusKnown /\ SeenTrue
      /\ server \in SessionT /\ mysql.db \in Catalogs
      /\ config' = config /\ asked' = asked /\ held' = held
  BY Types DEF SessInv, Belief, EndTran, EndTranEnv, ClientT
<1>2. lapses \subseteq lapses'
  BY <1>1, MeetType DEF EndTran, EndTranEnv
<1>3. last'.call \in {kind, "none"}
  BY <1>1, Returned, Ended DEF EndTran, EndTranEnv, Transact
<1>4. Went
  <2>1. CASE Done([server EXCEPT !.work = FALSE])
    <3> DEFINE s == [server EXCEPT !.work = FALSE]
    <3>1. /\ s \in SessionT /\ s.autocommit = server.autocommit
          /\ s.isolation = server.isolation /\ s.seen = server.seen
      BY <1>1 DEF SessionT
    <3>2. Answered(s, mysql.db)
      BY <2>1 DEF Done
    <3> HIDE DEF s
    <3> QED
      BY <1>1, <3>1, <3>2, AnsweredWent
  <2>2. CASE Fails \/ NoCommand
    BY <1>1, <2>2, FailsWent, NoCommandWent
  <2> QED
    BY <2>1, <2>2 DEF EndTran, EndTranEnv, Transact
<1> QED
  BY <1>1, <1>2, <1>3, <1>4, BeliefSteady, PlainTruths

(* A handle without a connection is believed to have what it will send.     *)
LEMMA SetEarlyBelief ==
    ASSUME SessInv, Belief, SetEarly PROVE Belief' /\ Truths'
<1>1. /\ TypeOK /\ link = "none" /\ config' = config /\ link' = "none"
      /\ dbc \in DriverT /\ asked \in AskedT /\ (Over \/ Failed)
  BY Types DEF SessInv, SetEarly
<1>2. Truths'
  BY <1>1, Ended, PlainTruths
<1>3. lapses \subseteq lapses'
  BY <1>1, MeetType DEF SetEarly
<1>4. ~Met({"level"})' => ~Met({"level"})
  BY <1>3 DEF Met
<1>5. /\ StatusKnown' /\ IsolationCached' /\ SettingsHold' /\ SeenTrue'
  BY <1>1 DEF StatusKnown, IsolationCached, SettingsHold, SeenTrue,
     Belief, SetEarly
<1>6. EarlyKept /\ LevelsKnown
  BY DEF Belief
<1>7. ASSUME NEW on \in BOOLEAN,
             dbc' = [dbc EXCEPT !.commit_flag = IF on THEN "on" ELSE "off"],
             asked' = [asked EXCEPT !.autocommit = {on}]
      PROVE  EarlyKept' /\ LevelsKnown'
  <2>1. /\ dbc'.commit_flag = IF on THEN "on" ELSE "off"
        /\ dbc'.txn_isolation = dbc.txn_isolation
        /\ asked'.autocommit = {on} /\ asked'.isolation = asked.isolation
    BY <1>1, <1>7 DEF DriverT, AskedT
  <2>2. asked'.autocommit = {dbc'.commit_flag = "on"}
        /\ dbc'.commit_flag # "none"
    BY <2>1
  <2> QED
    BY <1>1, <1>4, <1>6, <2>1, <2>2 DEF EarlyKept, LevelsKnown
<1>8. ASSUME NEW v \in Levels,
             dbc' = [dbc EXCEPT !.txn_isolation = v],
             asked' = [asked EXCEPT !.isolation = {v}],
             IF v \in Known THEN UNCHANGED lapses ELSE Meet("level")
      PROVE  EarlyKept' /\ LevelsKnown'
  <2>1. /\ dbc'.commit_flag = dbc.commit_flag /\ dbc'.txn_isolation = v
        /\ asked'.autocommit = asked.autocommit /\ asked'.isolation = {v}
    BY <1>1, <1>8 DEF DriverT, AskedT
  <2>2. ~Met({"level"})' => v \in Known
    BY <1>1, <1>8, MeetType DEF Met
  <2> QED
    BY <1>1, <1>6, <2>1, <2>2 DEF EarlyKept, LevelsKnown
<1>9. ASSUME NEW c \in Catalogs, dbc' = [dbc EXCEPT !.database = c],
             asked' = asked
      PROVE  EarlyKept' /\ LevelsKnown'
  <2>1. /\ dbc'.commit_flag = dbc.commit_flag
        /\ dbc'.txn_isolation = dbc.txn_isolation
    BY <1>1, <1>9 DEF DriverT
  <2> QED
    BY <1>1, <1>4, <1>6, <1>9, <2>1 DEF EarlyKept, LevelsKnown
<1>10. EarlyKept' /\ LevelsKnown'
  BY <1>7, <1>8, <1>9 DEF SetEarly
<1> QED
  BY <1>2, <1>5, <1>10 DEF Belief

(* DBC::connect sends what was asked for.                                   *)
LEMMA SentAsAsked ==
    ASSUME TypeOK, link = "none", Belief
    PROVE  /\ AutocommitSent \in BOOLEAN /\ IsolationSent \in Known
           /\ \/ config.NO_TRANSACTIONS
              \/ asked.autocommit \subseteq {AutocommitSent}
           /\ ~Met({"level"}) =>
                /\ asked.isolation \subseteq {IsolationSent}
                /\ dbc.txn_isolation \in {NotKnown, IsolationSent}
           /\ dbc.txn_isolation \in Known => dbc.txn_isolation = IsolationSent
<1>1. /\ AutocommitSent \in BOOLEAN /\ IsolationSent \in Known
  BY SentType
<1>2. dbc.commit_flag \in {"none", "on", "off"} /\ asked \in AskedT
  BY Types DEF DriverT
<1>3. EarlyKept /\ LevelsKnown
  BY DEF Belief
<1>4. \/ config.NO_TRANSACTIONS
      \/ asked.autocommit \subseteq {AutocommitSent}
  BY <1>2, <1>3, ConfigType DEF EarlyKept, AutocommitSent
<1>5. dbc.txn_isolation \in Known => dbc.txn_isolation = IsolationSent
  <2>1. /\ LevelSent(1) = 1 /\ LevelSent(2) = 2
        /\ LevelSent(4) = 4 /\ LevelSent(8) = 8
    BY DEF LevelSent, Bit
  <2> QED
    BY <2>1 DEF IsolationSent, Known, NotKnown
<1>6. ASSUME ~Met({"level"})
      PROVE  /\ asked.isolation \subseteq {IsolationSent}
             /\ dbc.txn_isolation \in {NotKnown, IsolationSent}
  <2>1. /\ dbc.txn_isolation \in Known \cup {NotKnown}
        /\ asked.isolation \subseteq Known
        /\ asked.isolation \subseteq {dbc.txn_isolation}
    BY <1>3, <1>6 DEF EarlyKept, LevelsKnown
  <2>2. NotKnown \notin Known
    BY DEF NotKnown, Known
  <2> QED
    BY <1>5, <2>1, <2>2
<1> QED
  BY <1>1, <1>4, <1>5, <1>6

LEMMA ConnectBelief ==
    ASSUME SessInv, Belief, Connect PROVE Belief' /\ Truths'
<1>1. /\ TypeOK /\ link = "none" /\ held = "app" /\ config' = config
      /\ held' = held /\ lapses' = lapses /\ (Over \/ Failed)
      /\ dbc \in DriverT /\ asked \in AskedT
  BY Types DEF SessInv, Connect
<1>2. Truths'
  BY <1>1, Ended, PlainTruths
<1>3. dbc'.txn_isolation = dbc.txn_isolation
  BY <1>1 DEF Connect, DriverT
<1>4. LevelsKnown'
  <2>1. asked'.isolation = asked.isolation
    BY <1>1 DEF Connect, AskedT
  <2> QED
    BY <1>1, <1>3, <2>1 DEF Belief, LevelsKnown, Met
<1>5. CASE UNCHANGED <<link, server, mysql, asked>>
  <2>1. /\ StatusKnown' /\ IsolationCached' /\ SettingsHold' /\ SeenTrue'
    BY <1>1, <1>5 DEF StatusKnown, IsolationCached, SettingsHold, SeenTrue,
       Belief
  <2>2. dbc'.commit_flag \in {dbc.commit_flag, FlagKept}
    BY <1>1 DEF Connect, DriverT
  <2>3. dbc'.commit_flag = dbc.commit_flag \/ config.NO_TRANSACTIONS
    BY <2>2 DEF FlagKept
  <2>4. EarlyKept'
    BY <1>1, <1>3, <1>5, <2>3 DEF Belief, EarlyKept
  <2> QED
    BY <1>2, <1>4, <2>1, <2>4 DEF Belief
<1>6. CASE /\ Answered(Begun, DATABASE)
           /\ asked' = [asked EXCEPT
                !.autocommit = IF dbc.commit_flag = FlagKept THEN @ ELSE {}]
  <2>1. /\ link' = "up" /\ server'.autocommit = AutocommitSent
        /\ server'.isolation = IsolationSent
        /\ server'.seen = (dbc.txn_isolation \in Known)
        /\ mysql'.autocommit = server'.autocommit
    BY <1>1, <1>6, BegunType, AnsweredType
  <2>2. /\ asked'.autocommit \subseteq asked.autocommit
        /\ asked'.isolation = asked.isolation
    BY <1>1, <1>6 DEF AskedT
  <2>3. StatusKnown' /\ EarlyKept'
    BY <2>1 DEF StatusKnown, EarlyKept
  <2>4. IsolationCached'
    BY <1>1, <1>3, <2>1, SentAsAsked DEF IsolationCached, Met
  <2>5. SettingsHold'
    BY <1>1, <2>1, <2>2, SentAsAsked DEF SettingsHold, Met
  <2>6. SeenTrue'
    BY <1>1, <1>3, <2>1, SentAsAsked DEF SeenTrue
  <2> QED
    BY <1>2, <1>4, <2>3, <2>4, <2>5, <2>6 DEF Belief
<1> QED
  BY <1>5, <1>6 DEF Connect, Begun

(* Where nothing is asked and the connection is down, or pooled.            *)
LEMMA NothingBelieved ==
    ASSUME asked'.autocommit = {}, asked'.isolation = {},
           link' = "up" => held' = "pool" \/ Met({"pooled", "unasked"})',
           StatusKnown', SeenTrue',
           ~Met({"level"})' => dbc'.txn_isolation \in Known \cup {NotKnown}
    PROVE  Belief'
<1>1. LevelsKnown' /\ EarlyKept' /\ SettingsHold'
  BY DEF LevelsKnown, EarlyKept, SettingsHold
<1>2. IsolationCached'
  BY DEF IsolationCached, Met
<1> QED
  BY <1>1, <1>2 DEF Belief

LEMMA DownBelief ==
    ASSUME SessInv, Belief, Disconnect \/ Drop \/ Lose
    PROVE  Belief' /\ Truths'
<1>1. TypeOK /\ dbc \in DriverT
  BY Types DEF SessInv
<1>2. asked'.autocommit = {} /\ asked'.isolation = {}
  BY DEF Disconnect, Drop, Lose, SessInv, Asleep, NothingAsked
<1>3. link' # "up"
  BY DEF Disconnect, Drop, Lose
<1>4. last'.call = "none"
  BY DEF Disconnect, Drop, Lose, SessInv, Asleep, Idle
<1>5. ~Met({"level"})' => dbc'.txn_isolation \in Known \cup {NotKnown}
  <2>1. CASE Drop
    BY <2>1 DEF Drop
  <2>2. CASE Disconnect \/ Lose
    <3>1. dbc'.txn_isolation = dbc.txn_isolation /\ lapses \subseteq lapses'
      BY <1>1, <2>2, MeetType DEF Disconnect, Lose, DriverT
    <3> QED
      BY <3>1 DEF Belief, LevelsKnown, Met
  <2> QED
    BY <2>1, <2>2
<1>6. SeenTrue'
  <2>1. CASE Disconnect \/ Drop
    BY <1>1, <2>1, FreshType, CatalogsAssumption
       DEF Disconnect, Drop, Fresh, SeenTrue
  <2>2. CASE Lose
    BY <2>2 DEF Lose, Fresh, SeenTrue
  <2> QED
    BY <2>1, <2>2
<1> QED
  BY <1>2, <1>3, <1>4, <1>5, <1>6, NothingBelieved, PlainTruths
     DEF StatusKnown

LEMMA PoolBelief ==
    ASSUME SessInv, Belief, Reset \/ Ask \/ HandOut
    PROVE  Belief' /\ Truths'
<1>1. /\ TypeOK /\ dbc \in DriverT /\ StatusKnown /\ SeenTrue
      /\ server \in SessionT
  BY Types DEF SessInv, Belief
<1>2. CASE NotWoken /\ Connected
  BY <1>2, NotWokenBelief
<1>3. CASE Reset /\ ~NotWoken
  <2>1. /\ asked' = NothingAsked /\ held' = "pool" /\ lapses' = lapses
        /\ last' = Idle
    BY <1>3 DEF Reset
  <2>2. dbc'.txn_isolation = dbc.txn_isolation
    BY <1>1, <1>3 DEF Reset, DriverT
  <2>3. StatusKnown'
    <3>1. CASE dbc.need_to_wakeup
      <4>1. /\ server' = [Woken EXCEPT !.owner = "former"]
            /\ mysql'.autocommit = config.autocommit
        BY <1>3, <3>1 DEF Reset
      <4>2. Woken \in SessionT /\ Woken.autocommit = config.autocommit
        BY <1>1, <3>1, WokenType, FreshType, CatalogsAssumption
      <4> QED
        BY <4>1, <4>2 DEF StatusKnown, SessionT
    <3>2. CASE ~dbc.need_to_wakeup
      <4>1. /\ link' = link /\ mysql' = mysql
            /\ server' \in {server, [server EXCEPT !.owner = "former"]}
        BY <1>3, <3>2 DEF Reset
      <4> QED
        BY <1>1, <4>1 DEF StatusKnown, SessionT
    <3> QED
      BY <3>1, <3>2
  <2>4. SeenTrue'
    <3>1. CASE dbc.need_to_wakeup
      <4>1. server' = [Woken EXCEPT !.owner = "former"]
        BY <1>3, <3>1 DEF Reset
      <4>2. Woken \in SessionT /\ Woken.seen = FALSE
        BY <1>1, <3>1, WokenType, FreshType, CatalogsAssumption
      <4> QED
        BY <4>1, <4>2 DEF SeenTrue, SessionT
    <3>2. CASE ~dbc.need_to_wakeup
      <4>1. /\ link' = link
            /\ server' \in {server, [server EXCEPT !.owner = "former"]}
        BY <1>3, <3>2 DEF Reset
      <4> QED
        BY <1>1, <2>2, <4>1 DEF SeenTrue, SessionT
    <3> QED
      BY <3>1, <3>2
  <2> QED
    BY <2>1, <2>2, <2>3, <2>4, NothingBelieved, PlainTruths
       DEF NothingAsked, Idle, Belief, LevelsKnown, Met
<1>4. CASE Ask \/ HandOut
  <2>1. /\ asked' = asked /\ asked = NothingAsked
        /\ last' = Idle /\ Met({"pooled", "unasked"})'
        /\ lapses \subseteq lapses'
    BY <1>1, <1>4, MeetType DEF Ask, HandOut, SessInv, Asleep, Met
  <2>2. dbc'.txn_isolation = dbc.txn_isolation
    BY <1>1, <1>4, WokenDoneType, WokenType, RefusedType DEF Ask, HandOut
  <2>3. StatusKnown'
    <3>1. CASE Ask
      BY <1>1, <3>1, WokenDoneWent, RefusedWent DEF Ask, Went
    <3>2. CASE HandOut
      BY <1>1, <3>2 DEF HandOut, StatusKnown
    <3> QED
      BY <1>4, <3>1, <3>2
  <2>4. SeenTrue'
    <3>1. CASE Ask
      BY <1>1, <2>2, <3>1, WokenDoneWent, RefusedWent
         DEF Ask, Went, SeenTrue
    <3>2. CASE HandOut
      BY <1>1, <3>2 DEF HandOut, SeenTrue
    <3> QED
      BY <1>4, <3>1, <3>2
  <2> QED
    BY <2>1, <2>2, <2>3, <2>4, NothingBelieved, PlainTruths
       DEF NothingAsked, Idle, Belief, LevelsKnown, Met
<1> QED
  BY <1>2, <1>3, <1>4 DEF Reset

-----------------------------------------------------------------------------
LEMMA NextBelief ==
    ASSUME SessInv, Belief, Truths, [Next]_vars PROVE Belief' /\ Truths'
<1>1. CASE SetEarly \/ Connect \/ Disconnect
  BY <1>1, SetEarlyBelief, ConnectBelief, DownBelief
<1>2. CASE Reset \/ Ask \/ HandOut \/ Drop
  BY <1>2, PoolBelief, DownBelief
<1>3. ASSUME NEW on \in BOOLEAN, SetAutocommit(on) PROVE Belief' /\ Truths'
  BY <1>3, SetAutocommitBelief
<1>4. ASSUME NEW v \in Levels, SetIsolation(v) PROVE Belief' /\ Truths'
  BY <1>4, SetIsolationBelief
<1>5. ASSUME NEW c \in Catalogs, SetCatalog(c) PROVE Belief' /\ Truths'
  BY <1>5, SetCatalogBelief
<1>6. CASE GetAutocommit \/ GetIsolation \/ GetDead \/ GetCatalog
  BY <1>6, GetAutocommitBelief, GetIsolationBelief, GetDeadBelief,
     GetCatalogBelief
<1>7. ASSUME NEW s \in Stmts,
             \/ AllocStmt(s) \/ FreeStmt(s)
             \/ \E n \in MaxRows : SetMaxRows(s, n)
      PROVE  Belief' /\ Truths'
  BY <1>7, StmtBelief
<1>8. ASSUME NEW s \in Stmts,
             \/ Query(s) \/ PreExecute(s) \/ Prepare(s) \/ Lookup(s)
             \/ ByText(s)
      PROVE  Belief' /\ Truths'
  BY <1>8, QueryBelief, PreExecuteBelief, PrepareBelief, LookupBelief,
     ByTextBelief
<1>9. ASSUME NEW kind \in {"commit", "rollback"},
             EndTran(kind) \/ EndTranEnv(kind)
      PROVE  Belief' /\ Truths'
  BY <1>9, EndTranBelief
<1>10. CASE Lose
  BY <1>10, DownBelief
<1>11. CASE UNCHANGED vars
  <2>1. Belief'
    BY <1>11 DEF vars, Belief, StatusKnown, LevelsKnown, EarlyKept,
       IsolationCached, SettingsHold, SeenTrue, Met
  <2>2. Truths'
    BY <1>11 DEF vars, Truths, IsolationTruthful, AutocommitTruthful,
       LooksInCurrent, DeadTruthful, Met
  <2> QED
    BY <2>1, <2>2
<1> QED
  BY <1>1, <1>2, <1>3, <1>4, <1>5, <1>6, <1>7, <1>8, <1>9, <1>10, <1>11
     DEF Next

LEMMA BeliefInvariant == Spec => [](SessInv /\ Belief /\ Truths)
<1>1. Init => Belief /\ Truths
  <2> SUFFICES ASSUME Init PROVE Belief /\ Truths
    OBVIOUS
  <2>1. /\ link = "none" /\ asked = NothingAsked /\ last = Idle
        /\ dbc.txn_isolation = NotKnown
    BY DEF Init
  <2>2. /\ StatusKnown /\ LevelsKnown /\ EarlyKept /\ IsolationCached
        /\ SettingsHold /\ SeenTrue
    BY <2>1 DEF StatusKnown, LevelsKnown, EarlyKept, IsolationCached,
       SettingsHold, SeenTrue, NothingAsked, Init, Fresh
  <2>3. Truths
    BY <2>1 DEF Truths, IsolationTruthful, AutocommitTruthful,
       LooksInCurrent, DeadTruthful, Idle
  <2> QED
    BY <2>2, <2>3 DEF Belief
<1>2. /\ SessInv /\ Belief /\ Truths /\ [Next]_vars
      => Belief' /\ Truths'
  BY NextBelief
<1> QED
  BY <1>1, <1>2, SessionInvariant, PTL DEF Spec

(* Autocommit and isolation are in the session what the application was     *)
(* told they are, set before or after connecting: what is set early is what*)
(* DBC::connect sends, is_autocommit reads the status the server sent with  *)
(* its last answer, and a session that takes the place of this one does so  *)
(* only after the connection was lost or has been through the pool.        *)
THEOREM SettingsAreInForce == Spec => []SettingsHold
<1>1. SessInv /\ Belief /\ Truths => SettingsHold
  BY DEF Belief
<1> QED
  BY <1>1, BeliefInvariant, PTL

(* What the driver answers about its session.  Autocommit, read from the    *)
(* status flags, is so in every session.  The isolation level from the cache*)
(* is so in each session where the driver has set it or asked for it, and in*)
(* the others as long as none of the handle has begun by a wake-up or a     *)
(* reconnect, no text has changed the level and all levels are known ones:  *)
(* elsewhere the cache may be stale.  A catalogue function looks into the   *)
(* current catalogue, or into none that exists after the server refused the *)
(* question.  A connection said to be dead is, and one said to be alive is, *)
(* but for a refused wake-up.                                               *)
THEOREM CachesAreTruthful == Spec => []CachesTruthful
<1>1. SessInv /\ Belief /\ Truths => CachesTruthful
  BY DEF SessInv, Truths, CachesTruthful
<1> QED
  BY <1>1, BeliefInvariant, PTL
============================================================================
