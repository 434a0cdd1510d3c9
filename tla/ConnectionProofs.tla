------------------------- MODULE ConnectionProofs -------------------------
(***************************************************************************)
(* Proofs about module Connection, for any numbers of threads, statements  *)
(* and calls.  The programs of the calls are read once, by the lemmas on   *)
(* where a call has which lock; everything else follows from these.        *)
(***************************************************************************)
EXTENDS Connection, TLAPS

(* The places of a program where the thread has DBC::lock, and STMT::lock. *)
InDbc(c, i) ==
    \/ c = "Execute" /\ i \in 5..12
    \/ c = "ExecuteDae" /\ i \in 5..6
    \/ c = "ParamData" /\ i = 2
    \/ c = "ParamLimit" /\ i \in 2..4
    \/ c = "Tables" /\ i \in 5..12
    \/ c = "Columns" /\ i \in 9..11
    \/ c = "Prefetch" /\ i \in 3..9
    \/ c = "MoreResults" /\ i \in 3..5
    \/ c = "EndTran" /\ i \in 2..4

InStmt(c, i) ==
    \/ c = "Execute" /\ i \in 2..13
    \/ c = "ExecuteDae" /\ i \in 2..7
    \/ c = "ParamLimit" /\ i \in 7..10
    \/ c = "ParamQuery" /\ i \in 2..5
    \/ c = "Tables" /\ i \in 2..13
    \/ c = "Columns" /\ i \in 2..15
    \/ c = "Prefetch" /\ i \in 2..10
    \/ c = "MoreResults" /\ i \in 2..6
    \/ c \in {"Close", "CancelClose"} /\ i \in 2..5

(* A step that is at place i of the program of call c.                     *)
Is(c, i, step) == i \in 1..Len(Program[c]) /\ Program[c][i] = step

Places(c) == 1..(Len(Program[c]) + 1)

LockSteps == {"lockS", "unlockS", "lockD", "unlockD"}

(* DBC::lock is taken where it is not held, given back where it is, held   *)
(* neither at the ends of a program nor where it goes on with another.     *)
DbcPlaces(c) ==
    /\ ~InDbc(c, 1) /\ ~InDbc(c, Len(Program[c]) + 1)
    /\ \A i \in 1..Len(Program[c]) :
          /\ Is(c, i, "lockD") => ~InDbc(c, i) /\ InDbc(c, i + 1)
          /\ Is(c, i, "unlockD") => InDbc(c, i) /\ ~InDbc(c, i + 1)
          /\ Program[c][i] \notin {"lockD", "unlockD"}
                => (InDbc(c, i + 1) <=> InDbc(c, i))
          /\ Program[c][i] \in {"lockS", "try", "branch"} => ~InDbc(c, i)

(* The same for STMT::lock, which is only taken by a thread without locks. *)
StmtPlaces(c) ==
    /\ ~InStmt(c, 1) /\ ~InStmt(c, Len(Program[c]) + 1)
    /\ \A i \in 1..Len(Program[c]) :
          /\ Is(c, i, "lockS") => ~InStmt(c, i) /\ InStmt(c, i + 1)
          /\ Is(c, i, "unlockS") => InStmt(c, i) /\ ~InStmt(c, i + 1)
          /\ Program[c][i] \notin {"lockS", "unlockS"}
                => (InStmt(c, i + 1) <=> InStmt(c, i))
          /\ Program[c][i] \in {"try", "branch"} => ~InStmt(c, i)

(* What begins on the network ends with the next step.                     *)
WirePlaces(c) ==
    \A i \in 1..Len(Program[c]) :
        /\ Is(c, i, "limit") => Is(c, i + 1, "limited")
        /\ Is(c, i, "send") => Is(c, i + 1, "receive")
        /\ Is(c, i, "store") => Is(c, i + 1, "stored")
        /\ Is(c, i, "next") => Is(c, i + 1, "nextdone")
        /\ Is(c, i, "drain") => Is(c, i + 1, "drained")

(* Where a program has DBC::lock.                                          *)
LEMMA DbcPlacesOK == \A c \in DOMAIN Program : DbcPlaces(c)
<1> USE DEF DbcPlaces, InDbc, Is, Program
<1>1. DbcPlaces("Execute")
  BY DEF ExecuteSteps
<1>2. DbcPlaces("ExecuteDae")
  BY DEF ExecuteDaeSteps
<1>3. DbcPlaces("ParamData")
  BY DEF ParamDataSteps
<1>4. DbcPlaces("ParamLimit")
  BY DEF ParamLimitSteps, ParamQuerySteps
<1>5. DbcPlaces("ParamQuery")
  BY DEF ParamQuerySteps
<1>6. DbcPlaces("SetPos")
  BY DEF SetPosSteps
<1>7. DbcPlaces("Tables")
  BY DEF TablesSteps
<1>8. DbcPlaces("Columns")
  BY DEF ColumnsSteps
<1>9. DbcPlaces("Prefetch")
  BY DEF PrefetchSteps
<1>10. DbcPlaces("MoreResults")
  BY DEF MoreResultsSteps
<1>11. DbcPlaces("EndTran")
  BY DEF EndTranSteps
<1>12. DbcPlaces("Close")
  BY DEF CloseSteps
<1>13. DbcPlaces("RowCount")
  BY DEF RowCountSteps
<1>14. DbcPlaces("Cancel")
  BY DEF CancelSteps
<1>15. DbcPlaces("CancelClose")
  BY DEF CloseSteps
<1>16. DbcPlaces("CancelKill")
  BY DEF KillSteps
<1>17. DbcPlaces("none")
  OBVIOUS
<1> HIDE DEF DbcPlaces
<1>q. QED
  BY <1>1, <1>2, <1>3, <1>4, <1>5, <1>6, <1>7, <1>8,
     <1>9, <1>10, <1>11, <1>12, <1>13, <1>14, <1>15, <1>16, <1>17

(* Where a program has STMT::lock.                                         *)
LEMMA StmtPlacesOK == \A c \in DOMAIN Program : StmtPlaces(c)
<1> USE DEF StmtPlaces, InStmt, Is, Program
<1>1. StmtPlaces("Execute")
  BY DEF ExecuteSteps
<1>2. StmtPlaces("ExecuteDae")
  BY DEF ExecuteDaeSteps
<1>3. StmtPlaces("ParamData")
  BY DEF ParamDataSteps
<1>4. StmtPlaces("ParamLimit")
  BY DEF ParamLimitSteps, ParamQuerySteps
<1>5. StmtPlaces("ParamQuery")
  BY DEF ParamQuerySteps
<1>6. StmtPlaces("SetPos")
  BY DEF SetPosSteps
<1>7. StmtPlaces("Tables")
  BY DEF TablesSteps
<1>8. StmtPlaces("Columns")
  BY DEF ColumnsSteps
<1>9. StmtPlaces("Prefetch")
  BY DEF PrefetchSteps
<1>10. StmtPlaces("MoreResults")
  BY DEF MoreResultsSteps
<1>11. StmtPlaces("EndTran")
  BY DEF EndTranSteps
<1>12. StmtPlaces("Close")
  BY DEF CloseSteps
<1>13. StmtPlaces("RowCount")
  BY DEF RowCountSteps
<1>14. StmtPlaces("Cancel")
  BY DEF CancelSteps
<1>15. StmtPlaces("CancelClose")
  BY DEF CloseSteps
<1>16. StmtPlaces("CancelKill")
  BY DEF KillSteps
<1>17. StmtPlaces("none")
  OBVIOUS
<1> HIDE DEF StmtPlaces
<1>q. QED
  BY <1>1, <1>2, <1>3, <1>4, <1>5, <1>6, <1>7, <1>8,
     <1>9, <1>10, <1>11, <1>12, <1>13, <1>14, <1>15, <1>16, <1>17

(* Where a program is on the network.                                      *)
LEMMA WirePlacesOK == \A c \in DOMAIN Program : WirePlaces(c)
<1> USE DEF WirePlaces, Is, Program
<1>1. WirePlaces("Execute")
  BY DEF ExecuteSteps
<1>2. WirePlaces("ExecuteDae")
  BY DEF ExecuteDaeSteps
<1>3. WirePlaces("ParamData")
  BY DEF ParamDataSteps
<1>4. WirePlaces("ParamLimit")
  BY DEF ParamLimitSteps, ParamQuerySteps
<1>5. WirePlaces("ParamQuery")
  BY DEF ParamQuerySteps
<1>6. WirePlaces("SetPos")
  BY DEF SetPosSteps
<1>7. WirePlaces("Tables")
  BY DEF TablesSteps
<1>8. WirePlaces("Columns")
  BY DEF ColumnsSteps
<1>9. WirePlaces("Prefetch")
  BY DEF PrefetchSteps
<1>10. WirePlaces("MoreResults")
  BY DEF MoreResultsSteps
<1>11. WirePlaces("EndTran")
  BY DEF EndTranSteps
<1>12. WirePlaces("Close")
  BY DEF CloseSteps
<1>13. WirePlaces("RowCount")
  BY DEF RowCountSteps
<1>14. WirePlaces("Cancel")
  BY DEF CancelSteps
<1>15. WirePlaces("CancelClose")
  BY DEF CloseSteps
<1>16. WirePlaces("CancelKill")
  BY DEF KillSteps
<1>17. WirePlaces("none")
  OBVIOUS
<1> HIDE DEF WirePlaces
<1>q. QED
  BY <1>1, <1>2, <1>3, <1>4, <1>5, <1>6, <1>7, <1>8,
     <1>9, <1>10, <1>11, <1>12, <1>13, <1>14, <1>15, <1>16, <1>17

(* Every program is a sequence of steps.                                   *)
LEMMA ProgramLengths == \A c \in DOMAIN Program : Len(Program[c]) \in Nat
BY DEF Program, ExecuteSteps, ExecuteDaeSteps, ParamDataSteps,
       ParamLimitSteps, ParamQuerySteps, SetPosSteps, TablesSteps,
       ColumnsSteps, PrefetchSteps, MoreResultsSteps, EndTranSteps,
       CloseSteps, RowCountSteps, CancelSteps, KillSteps

(* The programs by name.                                                   *)
LEMMA ProgramNames ==
    /\ APICalls \subseteq DOMAIN Program
    /\ {"none", "ParamLimit", "ParamQuery", "CancelClose", "CancelKill"}
          \subseteq DOMAIN Program
BY DEF Program, APICalls

-----------------------------------------------------------------------------
(* The steps that neither take nor give back a lock, and go to the next.   *)
Plain(t) ==
    \/ Check(t) \/ SendLimit(t) \/ Limited(t) \/ Cache(t)
    \/ Send(t) \/ Receive(t) \/ NothingSent(t) \/ Count(t) \/ NeedData(t)
    \/ FakeResult(t) \/ Store(t) \/ Stored(t)
    \/ Drain(t) \/ Drained(t) \/ CloseStmt(t)
    \/ NextResult(t) \/ NextDone(t) \/ RowCount(t) \/ Kill(t)

PlainSteps == {"check", "limit", "limited", "cache", "send", "receive",
               "count", "needdata", "fake", "store", "stored", "drain",
               "drained", "close", "next", "nextdone", "rowcount", "kill"}

(* What is common to them.                                                 *)
LEMMA PlainIsPlain ==
    ASSUME NEW t \in Threads, Plain(t)
    PROVE  /\ Advance(t) /\ UNCHANGED locks
           /\ \E step \in PlainSteps : At(t, step)
<1> USE DEF PlainSteps
<1>1. CASE Check(t)       BY <1>1 DEF Check
<1>2. CASE SendLimit(t)   BY <1>2 DEF SendLimit
<1>3. CASE Limited(t)     BY <1>3 DEF Limited
<1>4. CASE Cache(t)       BY <1>4 DEF Cache
<1>5. CASE Send(t)        BY <1>5 DEF Send
<1>6. CASE Receive(t)     BY <1>6 DEF Receive
<1>7. CASE NothingSent(t) BY <1>7 DEF NothingSent
<1>8. CASE Count(t)       BY <1>8 DEF Count
<1>9. CASE NeedData(t)    BY <1>9 DEF NeedData
<1>10. CASE FakeResult(t) BY <1>10 DEF FakeResult
<1>11. CASE Store(t)      BY <1>11 DEF Store
<1>12. CASE Stored(t)     BY <1>12 DEF Stored
<1>13. CASE Drain(t)      BY <1>13 DEF Drain
<1>14. CASE Drained(t)    BY <1>14 DEF Drained
<1>15. CASE CloseStmt(t)  BY <1>15 DEF CloseStmt
<1>16. CASE NextResult(t) BY <1>16 DEF NextResult
<1>17. CASE NextDone(t)   BY <1>17 DEF NextDone
<1>18. CASE RowCount(t)   BY <1>18 DEF RowCount
<1>19. CASE Kill(t)       BY <1>19 DEF Kill
<1>20. QED
  BY <1>1, <1>2, <1>3, <1>4, <1>5, <1>6, <1>7, <1>8, <1>9, <1>10, <1>11,
     <1>12, <1>13, <1>14, <1>15, <1>16, <1>17, <1>18, <1>19 DEF Plain

(* The types of what says where the threads are and who has the locks.     *)
PlacesOK ==
    /\ call \in [Threads -> DOMAIN Program]
    /\ pc \in [Threads -> Nat \ {0}] /\ of \in [Threads -> Stmts]
    /\ \A t \in Threads : pc[t] \in Places(call[t])
    /\ slock \in [Stmts -> Threads \cup {Nobody}]
    /\ dlock \in Threads \cup {Nobody}

(* The owner of a lock is the thread whose program has it where it is.     *)
DbcOwned == \A t \in Threads : dlock = t <=> InDbc(call[t], pc[t])

StmtOwned ==
    \A t \in Threads, s \in Stmts :
        slock[s] = t <=> of[t] = s /\ InStmt(call[t], pc[t])

LockInv == PlacesOK /\ DbcOwned /\ StmtOwned

(* A step of a thread's program, seen from the lemmas on programs.         *)
LEMMA AtIs ==
    ASSUME PlacesOK, NEW t \in Threads, NEW step, At(t, step)
    PROVE  /\ Is(call[t], pc[t], step)
           /\ pc[t] \in 1..Len(Program[call[t]])
           /\ Program[call[t]][pc[t]] = step
           /\ pc[t] + 1 \in Places(call[t]) /\ pc[t] + 1 \in Nat \ {0}
           /\ call[t] \in DOMAIN Program
BY ProgramLengths DEF PlacesOK, At, Done, Is, Places

(* The locks at the start.                                                 *)
LEMMA LockInit == Init => LockInv
<1> SUFFICES ASSUME Init PROVE LockInv
  OBVIOUS
<1>1. PlacesOK
  BY ProgramNames, ProgramLengths DEF Init, PlacesOK, Places
<1>2. \A t \in Threads : ~InDbc(call[t], pc[t]) /\ ~InStmt(call[t], pc[t])
  BY DEF Init, InDbc, InStmt
<1>3. DbcOwned /\ StmtOwned
  BY <1>2, ConnectionAssumption DEF Init, DbcOwned, StmtOwned
<1> QED BY <1>1, <1>3 DEF LockInv

(* A thread goes on within its program: the place keeps its type.          *)
LEMMA AdvancePlaces ==
    ASSUME PlacesOK, NEW t \in Threads, NEW step, At(t, step), Advance(t),
           slock' \in [Stmts -> Threads \cup {Nobody}],
           dlock' \in Threads \cup {Nobody}
    PROVE  /\ PlacesOK'
           /\ call' = call /\ of' = of
           /\ pc'[t] = pc[t] + 1
           /\ \A u \in Threads : u # t => pc'[u] = pc[u]
<1>1. /\ pc[t] + 1 \in Places(call[t]) /\ pc[t] + 1 \in Nat \ {0}
  BY AtIs
<1>2. /\ call' = call /\ of' = of /\ pc' = [pc EXCEPT ![t] = @ + 1]
  BY DEF Advance
<1>3. /\ pc'[t] = pc[t] + 1
      /\ \A u \in Threads : u # t => pc'[u] = pc[u]
      /\ pc' \in [Threads -> Nat \ {0}]
  BY <1>1, <1>2 DEF PlacesOK
<1>4. \A u \in Threads : pc'[u] \in Places(call'[u])
  BY <1>1, <1>2, <1>3 DEF PlacesOK
<1> QED BY <1>2, <1>3, <1>4 DEF PlacesOK, Places

(* The steps that neither take nor give back a lock.                       *)
LEMMA PlainLocks ==
    ASSUME LockInv, NEW t \in Threads, Plain(t)
    PROVE  LockInv'
<1>1. PICK step \in PlainSteps : At(t, step)
  BY PlainIsPlain
<1>2. Advance(t) /\ slock' = slock /\ dlock' = dlock
  BY PlainIsPlain DEF locks
<1>3. /\ PlacesOK' /\ call' = call /\ of' = of /\ pc'[t] = pc[t] + 1
      /\ \A u \in Threads : u # t => pc'[u] = pc[u]
  BY <1>1, <1>2, AdvancePlaces DEF LockInv, PlacesOK
<1>4. /\ InDbc(call[t], pc[t] + 1) <=> InDbc(call[t], pc[t])
      /\ InStmt(call[t], pc[t] + 1) <=> InStmt(call[t], pc[t])
  BY <1>1, AtIs, DbcPlacesOK, StmtPlacesOK
     DEF PlainSteps, DbcPlaces, StmtPlaces, LockInv
<1>5. DbcOwned'
  BY <1>2, <1>3, <1>4 DEF LockInv, DbcOwned
<1>6. StmtOwned'
  BY <1>2, <1>3, <1>4 DEF LockInv, StmtOwned
<1> QED BY <1>3, <1>5, <1>6 DEF LockInv

(* Taking and giving back STMT::lock.                                      *)
LEMMA StmtLocks ==
    ASSUME LockInv, NEW t \in Threads, LockStmt(t) \/ UnlockStmt(t)
    PROVE  LockInv'
<1>1. PICK step \in {"lockS", "unlockS"} : At(t, step)
  BY DEF LockStmt, UnlockStmt
<1>2. /\ Advance(t) /\ dlock' = dlock
      /\ slock' \in [Stmts -> Threads \cup {Nobody}]
  BY DEF LockStmt, UnlockStmt, LockInv, PlacesOK
<1>3. /\ PlacesOK' /\ call' = call /\ of' = of /\ pc'[t] = pc[t] + 1
      /\ \A u \in Threads : u # t => pc'[u] = pc[u]
  BY <1>1, <1>2, AdvancePlaces DEF LockInv, PlacesOK
<1>4. InDbc(call[t], pc[t] + 1) <=> InDbc(call[t], pc[t])
  BY <1>1, AtIs, DbcPlacesOK DEF DbcPlaces, LockInv
<1>5. DbcOwned'
  BY <1>2, <1>3, <1>4 DEF LockInv, DbcOwned
<1>6. CASE LockStmt(t)
  <2>1. /\ slock[of[t]] = Nobody /\ slock' = [slock EXCEPT ![of[t]] = t]
        /\ InStmt(call[t], pc[t] + 1) /\ ~InStmt(call[t], pc[t])
    BY <1>6, AtIs, StmtPlacesOK DEF StmtPlaces, LockInv, LockStmt
  <2>2. StmtOwned'
    BY <1>3, <2>1, ConnectionAssumption DEF LockInv, StmtOwned, PlacesOK
  <2> QED BY <1>3, <1>5, <2>2 DEF LockInv
<1>7. CASE UnlockStmt(t)
  <2>1. /\ slock' = [slock EXCEPT ![of[t]] = Nobody]
        /\ ~InStmt(call[t], pc[t] + 1) /\ InStmt(call[t], pc[t])
    BY <1>7, AtIs, StmtPlacesOK DEF StmtPlaces, LockInv, UnlockStmt
  <2>2. StmtOwned'
    BY <1>3, <2>1, ConnectionAssumption DEF LockInv, StmtOwned, PlacesOK
  <2> QED BY <1>3, <1>5, <2>2 DEF LockInv
<1> QED BY <1>6, <1>7

(* Taking and giving back DBC::lock.                                       *)
LEMMA DbcLocks ==
    ASSUME LockInv, NEW t \in Threads, LockDbc(t) \/ UnlockDbc(t)
    PROVE  LockInv'
<1>1. PICK step \in {"lockD", "unlockD"} : At(t, step)
  BY DEF LockDbc, UnlockDbc
<1>2. /\ Advance(t) /\ slock' = slock
      /\ dlock' \in Threads \cup {Nobody}
  BY DEF LockDbc, UnlockDbc, LockInv, PlacesOK
<1>3. /\ PlacesOK' /\ call' = call /\ of' = of /\ pc'[t] = pc[t] + 1
      /\ \A u \in Threads : u # t => pc'[u] = pc[u]
  BY <1>1, <1>2, AdvancePlaces DEF LockInv, PlacesOK
<1>4. InStmt(call[t], pc[t] + 1) <=> InStmt(call[t], pc[t])
  BY <1>1, AtIs, StmtPlacesOK DEF StmtPlaces, LockInv
<1>5. StmtOwned'
  BY <1>2, <1>3, <1>4 DEF LockInv, StmtOwned
<1>6. CASE LockDbc(t)
  <2>1. /\ dlock = Nobody /\ dlock' = t
        /\ InDbc(call[t], pc[t] + 1) /\ ~InDbc(call[t], pc[t])
    BY <1>6, AtIs, DbcPlacesOK DEF DbcPlaces, LockInv, LockDbc
  <2>2. DbcOwned'
    BY <1>3, <2>1, ConnectionAssumption DEF LockInv, DbcOwned, PlacesOK
  <2> QED BY <1>3, <1>5, <2>2 DEF LockInv
<1>7. CASE UnlockDbc(t)
  <2>1. /\ dlock' = Nobody
        /\ ~InDbc(call[t], pc[t] + 1) /\ InDbc(call[t], pc[t])
    BY <1>7, AtIs, DbcPlacesOK DEF DbcPlaces, LockInv, UnlockDbc
  <2>2. DbcOwned'
    BY <1>3, <2>1, ConnectionAssumption DEF LockInv, DbcOwned, PlacesOK
  <2> QED BY <1>3, <1>5, <2>2 DEF LockInv
<1> QED BY <1>6, <1>7

(* A call begins, returns, or goes on with another program: no locks.      *)
LEMMA MoveLocks ==
    ASSUME LockInv, NEW t \in Threads, NEW c \in DOMAIN Program,
           NEW s \in Stmts,
           ~InDbc(call[t], pc[t]), ~InStmt(call[t], pc[t]),
           call' = [call EXCEPT ![t] = c], pc' = [pc EXCEPT ![t] = 1],
           of' = [of EXCEPT ![t] = s], UNCHANGED locks
    PROVE  LockInv'
<1>1. ~InDbc(c, 1) /\ ~InStmt(c, 1)
  BY DbcPlacesOK, StmtPlacesOK DEF DbcPlaces, StmtPlaces
<1>2. /\ call'[t] = c /\ pc'[t] = 1 /\ of'[t] = s
      /\ \A u \in Threads : u # t =>
            call'[u] = call[u] /\ pc'[u] = pc[u] /\ of'[u] = of[u]
      /\ slock' = slock /\ dlock' = dlock
  BY DEF LockInv, PlacesOK, locks
<1>3. 1 \in Places(c)
  BY ProgramLengths DEF Places
<1>4. PlacesOK'
  <2>1. \A u \in Threads : pc'[u] \in Places(call'[u])
    BY <1>2, <1>3 DEF LockInv, PlacesOK
  <2> QED BY <1>2, <2>1 DEF LockInv, PlacesOK, Places
<1>5. DbcOwned'
  BY <1>1, <1>2 DEF LockInv, DbcOwned
<1>6. StmtOwned'
  BY <1>1, <1>2 DEF LockInv, StmtOwned
<1> QED BY <1>4, <1>5, <1>6 DEF LockInv

(* At the end of a program, and where it goes on with another, a thread has*)
(* no lock.                                                                *)
LEMMA NoLockAtEnds ==
    ASSUME LockInv, NEW t \in Threads,
           \/ Done(t) \/ At(t, "try") \/ At(t, "branch")
    PROVE  ~InDbc(call[t], pc[t]) /\ ~InStmt(call[t], pc[t])
<1>1. CASE Done(t)
  <2>1. call[t] \in DOMAIN Program /\ pc[t] \in Places(call[t])
    BY DEF LockInv, PlacesOK
  <2>2. Len(Program[call[t]]) \in Nat
    BY <2>1, ProgramLengths
  <2>3. pc[t] > Len(Program[call[t]])
    BY <1>1 DEF Done
  <2>4. pc[t] = Len(Program[call[t]]) + 1
    BY <2>1, <2>2, <2>3 DEF Places
  <2> QED BY <2>1, <2>4, DbcPlacesOK, StmtPlacesOK DEF DbcPlaces, StmtPlaces
<1>2. CASE At(t, "try") \/ At(t, "branch")
  BY <1>2, AtIs, DbcPlacesOK, StmtPlacesOK
     DEF DbcPlaces, StmtPlaces, LockInv
<1> QED BY <1>1, <1>2

(* A thread without a call is at the end of the empty program.             *)
LEMMA NoneIsDone ==
    ASSUME LockInv, NEW t \in Threads, call[t] = "none"
    PROVE  Done(t)
BY DEF Done, LockInv, PlacesOK, Program

(* Every step keeps the locks with their owners.                           *)
LEMMA LockNext == LockInv /\ [Next]_vars => LockInv'
<1> SUFFICES ASSUME LockInv, [Next]_vars PROVE LockInv'
  OBVIOUS
<1>1. CASE UNCHANGED vars
  BY <1>1 DEF vars, LockInv, PlacesOK, DbcOwned, StmtOwned
<1>2. ASSUME NEW t \in Threads, NEW c \in Calls, NEW s \in Stmts,
             Call(t, c, s)
      PROVE  LockInv'
  <2>1. ~InDbc(call[t], pc[t]) /\ ~InStmt(call[t], pc[t])
    BY <1>2, NoneIsDone, NoLockAtEnds DEF Call
  <2>2. c \in DOMAIN Program
    BY ConnectionAssumption, ProgramNames
  <2> QED BY <1>2, <2>1, <2>2, MoveLocks DEF Call
<1>3. ASSUME NEW t \in Threads, Return(t) PROVE LockInv'
  <2>1. ~InDbc(call[t], pc[t]) /\ ~InStmt(call[t], pc[t])
    BY <1>3, NoLockAtEnds DEF Return
  <2>2. of[t] \in Stmts /\ of' = [of EXCEPT ![t] = of[t]]
    BY <1>3 DEF Return, LockInv, PlacesOK
  <2> QED BY <1>3, <2>1, <2>2, MoveLocks, ProgramNames DEF Return
<1>4. ASSUME NEW t \in Threads, TryLock(t) \/ Branch(t) PROVE LockInv'
  <2>1. ~InDbc(call[t], pc[t]) /\ ~InStmt(call[t], pc[t])
    BY <1>4, NoLockAtEnds DEF TryLock, Branch
  <2>2. PICK c \in {"ParamLimit", "ParamQuery", "CancelClose", "CancelKill"} :
          Continue(t, c) /\ UNCHANGED locks
    BY <1>4 DEF TryLock, Branch
  <2>3. of[t] \in Stmts /\ of' = [of EXCEPT ![t] = of[t]]
    BY <2>2 DEF Continue, LockInv, PlacesOK
  <2> QED BY <2>1, <2>2, <2>3, MoveLocks, ProgramNames DEF Continue
<1>5. ASSUME NEW t \in Threads, Step(t) PROVE LockInv'
  BY <1>3, <1>4, <1>5, PlainLocks, StmtLocks, DbcLocks DEF Step, Plain
<1> QED BY <1>1, <1>2, <1>5 DEF Next

(* The locks always belong to the thread whose program holds them.         *)
THEOREM LocksHaveTheirOwners == Spec => []LockInv
<1>1. Init => LockInv
  BY LockInit
<1>2. LockInv /\ [Next]_vars => LockInv'
  BY LockNext
<1> QED BY <1>1, <1>2, PTL DEF Spec

(* No deadlock: a thread that has DBC::lock waits for no lock, one that has*)
(* a statement's lock waits for DBC::lock at most, whatever calls are made *)
(* by however many threads.                                                *)
THEOREM OwnersAlwaysProceed == Spec => []OwnersProceed
<1>1. LockInv => OwnersProceed
  <2> SUFFICES ASSUME LockInv PROVE OwnersProceed
    OBVIOUS
  <2>1. ASSUME NEW t \in Threads, dlock = t PROVE ~Waiting(t)
    <3>1. InDbc(call[t], pc[t])
      BY <2>1 DEF LockInv, DbcOwned
    <3> QED BY <3>1, AtIs, DbcPlacesOK DEF Waiting, DbcPlaces, LockInv
  <2>2. ASSUME NEW t \in Threads, NEW s \in Stmts, slock[s] = t
        PROVE  ~At(t, "lockS")
    <3>1. InStmt(call[t], pc[t])
      BY <2>2 DEF LockInv, StmtOwned
    <3> QED BY <3>1, AtIs, StmtPlacesOK DEF StmtPlaces, LockInv
  <2> QED BY <2>1, <2>2 DEF OwnersProceed
<1> QED BY <1>1, LocksHaveTheirOwners, PTL

-----------------------------------------------------------------------------
(* The calls that hold DBC::lock around every command.                     *)
LockedCalls == {"Execute", "ExecuteDae", "Tables", "Prefetch", "MoreResults",
                "EndTran", "Close", "RowCount", "Cancel"}

LockedPrograms == LockedCalls \cup {"CancelClose", "CancelKill", "none"}

WireEnds == {"limited", "receive", "stored", "nextdone"}

(* In their programs the ends of commands are where DBC::lock is held.     *)
LEMMA LockedPlaces ==
    \A c \in LockedPrograms : \A i \in 1..Len(Program[c]) :
        Program[c][i] \in WireEnds \cup {"limit", "cache"} => InDbc(c, i)
<1> DEFINE L(c) == \A i \in 1..Len(Program[c]) :
                      Program[c][i] \in WireEnds \cup {"limit", "cache"}
                          => InDbc(c, i)
<1> USE DEF InDbc, WireEnds, Program
<1>1. L("Execute")     BY DEF ExecuteSteps
<1>2. L("ExecuteDae")  BY DEF ExecuteDaeSteps
<1>3. L("Tables")      BY DEF TablesSteps
<1>4. L("Prefetch")    BY DEF PrefetchSteps
<1>5. L("MoreResults") BY DEF MoreResultsSteps
<1>6. L("EndTran")     BY DEF EndTranSteps
<1>7. L("Close")       BY DEF CloseSteps
<1>8. L("RowCount")    BY DEF RowCountSteps
<1>9. L("Cancel")      BY DEF CancelSteps
<1>10. L("CancelClose") BY DEF CloseSteps
<1>11. L("CancelKill") BY DEF KillSteps
<1>12. L("none")       OBVIOUS
<1> HIDE DEF L
<1>13. \A c \in LockedPrograms : L(c)
  BY <1>1, <1>2, <1>3, <1>4, <1>5, <1>6, <1>7, <1>8, <1>9, <1>10, <1>11,
     <1>12 DEF LockedPrograms, LockedCalls
<1> QED BY <1>13 DEF L

(* What a thread does on the network agrees with its place.                *)
BusyPlaces ==
    /\ busy \in [Threads -> {"no", "limit", "query", "store", "drain",
                              "next"}]
    /\ \A t \in Threads :
          /\ busy[t] = "limit" => At(t, "limited")
          /\ busy[t] = "query" => At(t, "receive")
          /\ busy[t] = "store" => At(t, "stored")
          /\ busy[t] = "next" => At(t, "nextdone")
          /\ busy[t] = "drain" => At(t, "drained")

WireInv == LockInv /\ BusyPlaces

(* At two different steps a thread cannot be at once.                      *)
LEMMA BusyNo ==
    ASSUME BusyPlaces, NEW t \in Threads, NEW step, At(t, step) \/ Done(t),
           step \notin WireEnds \cup {"drained"}
    PROVE  busy[t] = "no"
BY DEF BusyPlaces, At, WireEnds

(* Another thread's place is not touched.                                  *)
LEMMA OthersStay ==
    ASSUME NEW t \in Threads, NEW u \in Threads, u # t,
           call \in [Threads -> DOMAIN Program], pc \in [Threads -> Nat \ {0}],
           \/ Advance(t)
           \/ \E c : Continue(t, c)
           \/ /\ \E c : call' = [call EXCEPT ![t] = c]
              /\ pc' = [pc EXCEPT ![t] = 1]
    PROVE  \A step : At(u, step)' <=> At(u, step)
<1>1. call'[u] = call[u] /\ pc'[u] = pc[u]
  BY DEF Advance, Continue
<1> QED BY <1>1 DEF At, Done

(* A step of a thread that leaves the network, or stays off it.            *)
LEMMA BusyOff ==
    ASSUME BusyPlaces, NEW t \in Threads, busy'[t] = "no",
           busy' \in [Threads -> {"no", "limit", "query", "store", "drain",
                                  "next"}],
           \A u \in Threads : u # t =>
               busy'[u] = busy[u] /\ (\A step : At(u, step)' <=> At(u, step))
    PROVE  BusyPlaces'
<1>1. ASSUME NEW u \in Threads
      PROVE  /\ busy'[u] = "limit" => At(u, "limited")'
             /\ busy'[u] = "query" => At(u, "receive")'
             /\ busy'[u] = "store" => At(u, "stored")'
             /\ busy'[u] = "next" => At(u, "nextdone")'
             /\ busy'[u] = "drain" => At(u, "drained")'
  BY DEF BusyPlaces
<1> QED BY <1>1 DEF BusyPlaces

(* The step that begins each use of the network.                           *)
Begins(step, b) ==
    \/ step = "limit" /\ b = "limit"
    \/ step = "send" /\ b = "query"
    \/ step = "store" /\ b = "store"
    \/ step = "next" /\ b = "next"
    \/ step = "drain" /\ b = "drain"

(* A step of a thread that begins something on the network.                *)
LEMMA BusyOn ==
    ASSUME PlacesOK, BusyPlaces, NEW t \in Threads, NEW b, NEW step,
           Begins(step, b), At(t, step), Advance(t),
           busy' = [busy EXCEPT ![t] = b]
    PROVE  BusyPlaces'
<1>1. Is(call[t], pc[t], step) /\ call[t] \in DOMAIN Program
      /\ pc[t] \in 1..Len(Program[call[t]])
  BY AtIs
<1>2. /\ call' = call /\ pc'[t] = pc[t] + 1
      /\ \A u \in Threads : u # t => pc'[u] = pc[u]
  BY DEF Advance, PlacesOK
<1>3. /\ step = "limit" => Is(call[t], pc[t] + 1, "limited")
      /\ step = "send" => Is(call[t], pc[t] + 1, "receive")
      /\ step = "store" => Is(call[t], pc[t] + 1, "stored")
      /\ step = "next" => Is(call[t], pc[t] + 1, "nextdone")
      /\ step = "drain" => Is(call[t], pc[t] + 1, "drained")
  BY <1>1, WirePlacesOK DEF WirePlaces
<1>4. \A x : Is(call[t], pc[t] + 1, x) => At(t, x)'
  BY <1>1, <1>2, ProgramLengths DEF Is, At, Done
<1>5. \A u \in Threads : u # t => \A x : At(u, x)' <=> At(u, x)
  BY <1>2 DEF At, Done
<1>6. busy'[t] = b /\ \A u \in Threads : u # t => busy'[u] = busy[u]
  BY DEF BusyPlaces
<1>7. busy' \in [Threads -> {"no", "limit", "query", "store", "drain",
                             "next"}]
  BY DEF BusyPlaces, Begins
<1>8. ASSUME NEW u \in Threads
      PROVE  /\ busy'[u] = "limit" => At(u, "limited")'
             /\ busy'[u] = "query" => At(u, "receive")'
             /\ busy'[u] = "store" => At(u, "stored")'
             /\ busy'[u] = "next" => At(u, "nextdone")'
             /\ busy'[u] = "drain" => At(u, "drained")'
  <2>1. CASE u = t
    BY <2>1, <1>3, <1>4, <1>6 DEF Begins
  <2>2. CASE u # t
    BY <2>2, <1>5, <1>6 DEF BusyPlaces
  <2> QED BY <2>1, <2>2
<1> QED BY <1>7, <1>8 DEF BusyPlaces

(* The steps off the network.                                              *)
LEMMA BusyQuiet ==
    ASSUME PlacesOK, BusyPlaces, NEW t \in Threads, UNCHANGED busy,
           \/ \E step : /\ At(t, step) /\ step \notin WireEnds \cup {"drained"}
                        /\ Advance(t) \/ \E c : Continue(t, c)
           \/ /\ Done(t)
              /\ \E c : call' = [call EXCEPT ![t] = c]
              /\ pc' = [pc EXCEPT ![t] = 1]
    PROVE  BusyPlaces'
<1>1. busy[t] = "no"
  <2>1. CASE \E step : /\ At(t, step)
                       /\ step \notin WireEnds \cup {"drained"}
    <3>1. PICK step : At(t, step) /\ step \notin WireEnds \cup {"drained"}
      BY <2>1
    <3> QED BY <3>1, BusyNo
  <2>2. CASE Done(t)
    BY <2>2 DEF BusyPlaces, At
  <2> QED BY <2>1, <2>2
<1>2. \A u \in Threads : u # t => \A step : At(u, step)' <=> At(u, step)
  BY OthersStay DEF PlacesOK
<1> QED BY <1>1, <1>2, BusyOff DEF BusyPlaces

(* The steps that end something on the network.                            *)
LEMMA BusyEnds ==
    ASSUME PlacesOK, BusyPlaces, NEW t \in Threads, Advance(t),
           busy' = [busy EXCEPT ![t] = "no"]
    PROVE  BusyPlaces'
<1>1. \A u \in Threads : u # t => \A step : At(u, step)' <=> At(u, step)
  BY OthersStay DEF PlacesOK
<1>2. /\ busy'[t] = "no" /\ \A u \in Threads : u # t => busy'[u] = busy[u]
      /\ busy' \in [Threads -> {"no", "limit", "query", "store", "drain",
                                "next"}]
  BY DEF BusyPlaces
<1> QED BY <1>1, <1>2, BusyOff

(* Every step keeps busy in agreement with the places.                     *)
LEMMA BusyNext ==
    ASSUME LockInv, BusyPlaces, [Next]_vars
    PROVE  BusyPlaces'
<1>0. PlacesOK
  BY DEF LockInv
<1>1. CASE UNCHANGED vars
  BY <1>1 DEF vars, BusyPlaces, At, Done
<1>2. ASSUME NEW t \in Threads, NEW c \in Calls, NEW s \in Stmts,
             Call(t, c, s)
      PROVE  BusyPlaces'
  BY <1>0, <1>2, NoneIsDone, BusyQuiet DEF Call
<1>3. ASSUME NEW t \in Threads, Return(t) PROVE BusyPlaces'
  BY <1>0, <1>3, BusyQuiet DEF Return
<1>4. ASSUME NEW t \in Threads,
             \/ LockStmt(t) \/ UnlockStmt(t) \/ LockDbc(t) \/ UnlockDbc(t)
             \/ Check(t) \/ Cache(t) \/ Count(t) \/ NeedData(t)
             \/ FakeResult(t) \/ CloseStmt(t) \/ RowCount(t) \/ Kill(t)
             \/ TryLock(t) \/ Branch(t)
      PROVE  BusyPlaces'
  <2>1. UNCHANGED busy
    BY <1>4 DEF LockStmt, UnlockStmt, LockDbc, UnlockDbc, Check, Cache,
                Count, NeedData, FakeResult, CloseStmt, RowCount, Kill,
                TryLock, Branch
  <2>2. \E step : /\ At(t, step) /\ step \notin WireEnds \cup {"drained"}
                  /\ Advance(t) \/ \E c : Continue(t, c)
    <3> USE DEF WireEnds
    <3>1. CASE LockStmt(t)   BY <3>1 DEF LockStmt
    <3>2. CASE UnlockStmt(t) BY <3>2 DEF UnlockStmt
    <3>3. CASE LockDbc(t)    BY <3>3 DEF LockDbc
    <3>4. CASE UnlockDbc(t)  BY <3>4 DEF UnlockDbc
    <3>5. CASE Check(t)      BY <3>5 DEF Check
    <3>6. CASE Cache(t)      BY <3>6 DEF Cache
    <3>7. CASE Count(t)      BY <3>7 DEF Count
    <3>8. CASE NeedData(t)   BY <3>8 DEF NeedData
    <3>9. CASE FakeResult(t) BY <3>9 DEF FakeResult
    <3>10. CASE CloseStmt(t) BY <3>10 DEF CloseStmt
    <3>11. CASE RowCount(t)  BY <3>11 DEF RowCount
    <3>12. CASE Kill(t)      BY <3>12 DEF Kill
    <3>13. CASE TryLock(t)   BY <3>13 DEF TryLock
    <3>14. CASE Branch(t)    BY <3>14 DEF Branch
    <3> QED BY <1>4, <3>1, <3>2, <3>3, <3>4, <3>5, <3>6, <3>7, <3>8, <3>9,
               <3>10, <3>11, <3>12, <3>13, <3>14
  <2> QED BY <1>0, <2>1, <2>2, BusyQuiet
<1>5. ASSUME NEW t \in Threads,
             \/ Limited(t) \/ Receive(t) \/ NothingSent(t) \/ Stored(t)
             \/ Drained(t) \/ NextDone(t)
      PROVE  BusyPlaces'
  <2>1. Advance(t) /\ busy' = [busy EXCEPT ![t] = "no"]
    BY <1>5 DEF Limited, Receive, NothingSent, Stored, Drained, NextDone
  <2> QED BY <1>0, <2>1, BusyEnds
<1>6. ASSUME NEW t \in Threads,
             \/ SendLimit(t) \/ Send(t) \/ Store(t) \/ Drain(t)
             \/ NextResult(t)
      PROVE  BusyPlaces'
  <2>1. PICK step, b : /\ Begins(step, b) /\ At(t, step) /\ Advance(t)
                       /\ \/ busy' = [busy EXCEPT ![t] = b]
                          \/ busy' = [busy EXCEPT ![t] = "no"]
                          \/ busy' = [busy EXCEPT ![t] = @]
    <3>1. CASE SendLimit(t)
      <4>1. Begins("limit", "limit") /\ At(t, "limit") /\ Advance(t)
        BY <3>1 DEF SendLimit, Begins
      <4>2. \/ busy' = [busy EXCEPT ![t] = "limit"]
            \/ busy' = [busy EXCEPT ![t] = @]
        BY <3>1 DEF SendLimit
      <4> QED BY <4>1, <4>2
    <3>2. CASE Send(t)
      <4>1. Begins("send", "query") /\ At(t, "send") /\ Advance(t)
        BY <3>2 DEF Send, Begins
      <4>2. \/ busy' = [busy EXCEPT ![t] = "query"]
            \/ busy' = [busy EXCEPT ![t] = "no"]
        BY <3>2 DEF Send
      <4> QED BY <4>1, <4>2
    <3>3. CASE Store(t)
      <4>1. Begins("store", "store") /\ At(t, "store") /\ Advance(t)
        BY <3>3 DEF Store, Begins
      <4>2. \/ busy' = [busy EXCEPT ![t] = "store"]
            \/ busy' = [busy EXCEPT ![t] = "no"]
        BY <3>3 DEF Store
      <4> QED BY <4>1, <4>2
    <3>4. CASE Drain(t)
      <4>1. Begins("drain", "drain") /\ At(t, "drain") /\ Advance(t)
        BY <3>4 DEF Drain, Begins
      <4>2. \/ busy' = [busy EXCEPT ![t] = "drain"]
            \/ busy' = [busy EXCEPT ![t] = "no"]
        BY <3>4 DEF Drain
      <4> QED BY <4>1, <4>2
    <3>5. CASE NextResult(t)
      <4>1. Begins("next", "next") /\ At(t, "next") /\ Advance(t)
        BY <3>5 DEF NextResult, Begins
      <4>2. \/ busy' = [busy EXCEPT ![t] = "next"]
            \/ busy' = [busy EXCEPT ![t] = "no"]
        BY <3>5 DEF NextResult
      <4> QED BY <4>1, <4>2
    <3> QED BY <1>6, <3>1, <3>2, <3>3, <3>4, <3>5
  <2>2. CASE busy' = [busy EXCEPT ![t] = b]
    BY <1>0, <2>1, <2>2, BusyOn
  <2>3. CASE busy' = [busy EXCEPT ![t] = "no"]
    BY <1>0, <2>1, <2>3, BusyEnds
  <2>4. CASE busy' = [busy EXCEPT ![t] = @]
    <3>1. step \notin WireEnds \cup {"drained"}
      BY <2>1 DEF WireEnds, Begins
    <3>2. busy[t] = "no"
      BY <2>1, <3>1, BusyNo
    <3>3. busy' = [busy EXCEPT ![t] = "no"]
      BY <2>4, <3>2
    <3> QED BY <1>0, <2>1, <3>3, BusyEnds
  <2> QED BY <2>1, <2>2, <2>3, <2>4
<1>7. ASSUME NEW t \in Threads, Step(t) PROVE BusyPlaces'
  BY <1>3, <1>4, <1>5, <1>6, <1>7 DEF Step
<1> QED BY <1>1, <1>2, <1>7 DEF Next

(* What a thread does on the network agrees with its place, for any calls. *)
THEOREM WireIsProgram == Spec => []WireInv
<1>1. Init => WireInv
  BY LockInit DEF Init, WireInv, BusyPlaces
<1>2. WireInv /\ [Next]_vars => WireInv'
  BY LockNext, BusyNext DEF WireInv
<1> QED BY <1>1, <1>2, PTL DEF Spec
-----------------------------------------------------------------------------
(* The initial state has the types.                                        *)
LEMMA TypeInit == Init => TypeOK
BY ConnectionAssumption, ProgramNames DEF Init, TypeOK

(* Every step keeps the types.                                             *)
LEMMA TypeNext == TypeOK /\ [Next]_vars => TypeOK'
<1> SUFFICES ASSUME TypeOK, [Next]_vars PROVE TypeOK'
  OBVIOUS
<1> USE ConnectionAssumption, ProgramNames
    DEF TypeOK, Advance, Continue, locks, session, mysql, stmts
<1>1. CASE UNCHANGED vars
  BY <1>1 DEF vars
<1>2. ASSUME NEW t \in Threads, NEW c \in Calls, NEW s \in Stmts,
             Call(t, c, s)
      PROVE  TypeOK'
  BY <1>2 DEF Call
<1>3. ASSUME NEW t \in Threads, Step(t) PROVE TypeOK'
  <2>1. CASE LockStmt(t)   BY <2>1 DEF LockStmt
  <2>2. CASE UnlockStmt(t) BY <2>2 DEF UnlockStmt
  <2>3. CASE LockDbc(t)    BY <2>3 DEF LockDbc
  <2>4. CASE UnlockDbc(t)  BY <2>4 DEF UnlockDbc
  <2>5. CASE Check(t)      BY <2>5 DEF Check
  <2>6. CASE Branch(t)     BY <2>6 DEF Branch
  <2>7. CASE SendLimit(t)  BY <2>7 DEF SendLimit
  <2>8. CASE Limited(t)    BY <2>8 DEF Limited
  <2>9. CASE Cache(t)      BY <2>9 DEF Cache, Remembered
  <2>10. CASE Send(t)      BY <2>10 DEF Send
  <2>11. CASE Receive(t)
    <3>1. of[t] \in Stmts /\ t \in Threads
      OBVIOUS
    <3>2. /\ busy' = [busy EXCEPT ![t] = "no"]
          /\ pc' = [pc EXCEPT ![t] = @ + 1]
          /\ ok' = ok \/ ok' = [ok EXCEPT ![t] = FALSE]
          /\ UNCHANGED <<call, of, calls, slock, dlock, setting, cache,
                         limit, result, rowcount, ran, awaiting, told,
                         killed>>
      BY <2>11 DEF Receive
    <3>3. more' \in 0..MaxMore /\ batch' \in Stmts \cup {Nobody}
      BY <2>11 DEF Receive
    <3>4. affected' \in Stmts \cup {Nobody}
      BY <2>11 DEF Receive
    <3>5. busy' \in [Threads -> {"no", "limit", "query", "store", "drain",
                                 "next"}]
      BY <3>2
    <3>6. pc' \in [Threads -> Nat \ {0}]
      BY <3>2
    <3>7. ok' \in [Threads -> BOOLEAN]
      BY <3>2
    <3> QED BY <3>2, <3>3, <3>4, <3>5, <3>6, <3>7
  <2>12. CASE NothingSent(t) BY <2>12 DEF NothingSent
  <2>13. CASE Count(t)     BY <2>13 DEF Count
  <2>14. CASE NeedData(t)  BY <2>14 DEF NeedData
  <2>15. CASE FakeResult(t) BY <2>15 DEF FakeResult
  <2>16. CASE Store(t)     BY <2>16 DEF Store
  <2>17. CASE Stored(t)    BY <2>17 DEF Stored
  <2>18. CASE Drain(t)     BY <2>18 DEF Drain
  <2>19. CASE Drained(t)   BY <2>19 DEF Drained
  <2>20. CASE CloseStmt(t) BY <2>20 DEF CloseStmt
  <2>21. CASE NextResult(t) BY <2>21 DEF NextResult
  <2>22. CASE NextDone(t)  BY <2>22 DEF NextDone, MoreLeft
  <2>23. CASE RowCount(t)  BY <2>23 DEF RowCount, CountShown
  <2>24. CASE TryLock(t)   BY <2>24 DEF TryLock
  <2>25. CASE Kill(t)      BY <2>25 DEF Kill
  <2>26. CASE Return(t)    BY <2>26 DEF Return
  <2> QED BY <1>3, <2>1, <2>2, <2>3, <2>4, <2>5, <2>6, <2>7, <2>8, <2>9,
             <2>10, <2>11, <2>12, <2>13, <2>14, <2>15, <2>16, <2>17, <2>18,
             <2>19, <2>20, <2>21, <2>22, <2>23, <2>24, <2>25, <2>26 DEF Step
<1> QED BY <1>1, <1>2, <1>3 DEF Next

(* The variables have their types, for any calls.                          *)
THEOREM TypesHold == Spec => []TypeOK
BY TypeInit, TypeNext, PTL DEF Spec

-----------------------------------------------------------------------------
(* Only the locked calls, and what they go on with, are under way.         *)
CallsLocked == \A t \in Threads : call[t] \in LockedPrograms

LockedInv == TypeOK /\ WireInv /\ CallsLocked

(* The programs of the locked calls do not branch.                         *)
LEMMA NoBranch ==
    \A c \in LockedPrograms : \A i \in 1..Len(Program[c]) :
        Program[c][i] # "branch"
<1> DEFINE N(c) == \A i \in 1..Len(Program[c]) : Program[c][i] # "branch"
<1> USE DEF Program
<1>1. N("Execute")     BY DEF ExecuteSteps
<1>2. N("ExecuteDae")  BY DEF ExecuteDaeSteps
<1>3. N("Tables")      BY DEF TablesSteps
<1>4. N("Prefetch")    BY DEF PrefetchSteps
<1>5. N("MoreResults") BY DEF MoreResultsSteps
<1>6. N("EndTran")     BY DEF EndTranSteps
<1>7. N("Close")       BY DEF CloseSteps
<1>8. N("RowCount")    BY DEF RowCountSteps
<1>9. N("Cancel")      BY DEF CancelSteps
<1>10. N("CancelClose") BY DEF CloseSteps
<1>11. N("CancelKill") BY DEF KillSteps
<1>12. N("none")       OBVIOUS
<1> HIDE DEF N
<1>13. \A c \in LockedPrograms : N(c)
  BY <1>1, <1>2, <1>3, <1>4, <1>5, <1>6, <1>7, <1>8, <1>9, <1>10, <1>11,
     <1>12 DEF LockedPrograms, LockedCalls
<1> QED BY <1>13 DEF N

(* With the locked calls alone no other program is ever entered.           *)
LEMMA CallsLockedNext ==
    ASSUME Calls \subseteq LockedCalls, LockInv, TypeOK, CallsLocked,
           [Next]_vars
    PROVE  CallsLocked'
<1>1. CASE UNCHANGED call
  BY <1>1 DEF CallsLocked
<1>2. ASSUME NEW t \in Threads, NEW c \in LockedPrograms,
             call' = [call EXCEPT ![t] = c]
      PROVE  CallsLocked'
  BY <1>2 DEF CallsLocked, TypeOK
<1>3. ASSUME NEW t \in Threads, NEW c \in Calls, NEW s \in Stmts,
             Call(t, c, s)
      PROVE  CallsLocked'
  BY <1>2, <1>3 DEF Call, LockedPrograms
<1>4. ASSUME NEW t \in Threads, Step(t) PROVE CallsLocked'
  <2>1. CASE Return(t)
    BY <1>2, <2>1 DEF Return, LockedPrograms
  <2>2. CASE TryLock(t)
    BY <1>2, <2>2 DEF TryLock, Continue, LockedPrograms
  <2>3. ~Branch(t)
    BY AtIs, NoBranch DEF Branch, CallsLocked, LockInv, Is
  <2>4. CASE UNCHANGED call
    BY <2>4, <1>1
  <2>5. CASE LockStmt(t) \/ UnlockStmt(t) \/ LockDbc(t) \/ UnlockDbc(t)
    BY <2>5, <2>4
       DEF LockStmt, UnlockStmt, LockDbc, UnlockDbc, Advance
  <2>6. CASE Plain(t)
    BY <2>4, <2>6, PlainIsPlain DEF Advance
  <2> QED BY <1>4, <2>1, <2>2, <2>3, <2>5, <2>6 DEF Step, Plain
<1> QED BY <1>1, <1>3, <1>4 DEF Next, vars

(* A thread on the network with a command of its own has DBC::lock.        *)
LEMMA WireHasLock ==
    ASSUME LockedInv, NEW t \in Threads, OnTheWire(t)
    PROVE  dlock = t
<1>1. PICK step \in WireEnds : At(t, step)
  BY DEF LockedInv, WireInv, BusyPlaces, OnTheWire, WireEnds
<1>2. Is(call[t], pc[t], step)
  BY <1>1, AtIs DEF LockedInv, WireInv, LockInv
<1>3. InDbc(call[t], pc[t])
  BY <1>2, LockedPlaces DEF Is, LockedInv, CallsLocked
<1> QED BY <1>3 DEF LockedInv, WireInv, LockInv, DbcOwned

(* The invariant of the locked calls.                                      *)
LEMMA LockedHolds ==
    ASSUME Calls \subseteq LockedCalls
    PROVE  Spec => []LockedInv
<1>1. Init => LockedInv
  BY TypeInit, LockInit
     DEF Init, LockedInv, WireInv, BusyPlaces, CallsLocked, LockedPrograms
<1>2. LockedInv /\ [Next]_vars => LockedInv'
  BY TypeNext, LockNext, BusyNext, CallsLockedNext DEF LockedInv, WireInv
<1> QED BY <1>1, <1>2, PTL DEF Spec

(* Two threads never have commands on the connection at the same time, as  *)
(* long as the application keeps to the calls that hold DBC::lock around   *)
(* them: running odbc_stmt() is thread safe then (connect.cc).             *)
THEOREM CommandsNeverMeet ==
    ASSUME Calls \subseteq LockedCalls
    PROVE  Spec => []CommandsExclusive
<1>1. LockedInv => CommandsExclusive
  BY WireHasLock DEF CommandsExclusive
<1> QED BY <1>1, LockedHolds, PTL

(* With these calls SQLCancel, which closes the statement when it finds    *)
(* DBC::lock free, never does so while a query of the statement is running.*)
THEOREM CancelClosesIdle ==
    ASSUME Calls \subseteq LockedCalls
    PROVE  Spec => CloseOnlyWhenIdle
<1> DEFINE Idle == \A t \in Threads :
                      call[t] = "Cancel" /\ call'[t] = "CancelClose" =>
                          \A u \in Threads : busy[u] = "query" => of[u] # of[t]
<1>1. LockedInv /\ [Next]_vars => [Idle]_vars
  <2> SUFFICES ASSUME LockedInv, Next, NEW t \in Threads,
                      call[t] = "Cancel", call'[t] = "CancelClose",
                      NEW u \in Threads, busy[u] = "query"
               PROVE  FALSE
    OBVIOUS
  <2>1. dlock = u /\ u # Nobody
    BY WireHasLock, ConnectionAssumption DEF OnTheWire
  <2>2. call \in [Threads -> DOMAIN Program]
    BY DEF LockedInv, TypeOK
  <2>3. PICK v \in Threads : \/ \E c \in Calls, s \in Stmts : Call(v, c, s)
                             \/ Step(v)
    BY DEF Next
  <2>4. CASE \E c \in Calls, s \in Stmts : Call(v, c, s)
    BY <2>2, <2>4 DEF Call, LockedCalls
  <2>5. CASE Step(v)
    <3>1. CASE Return(v)   BY <2>2, <3>1 DEF Return
    <3>2. CASE TryLock(v)  BY <2>1, <2>2, <3>2 DEF TryLock, Continue
    <3>3. CASE Branch(v)   BY <2>2, <3>3 DEF Branch, Continue
    <3>4. CASE LockStmt(v) \/ UnlockStmt(v) \/ LockDbc(v) \/ UnlockDbc(v)
      BY <3>4 DEF LockStmt, UnlockStmt, LockDbc, UnlockDbc, Advance
    <3>5. CASE Plain(v)
      BY <3>5, PlainIsPlain DEF Advance
    <3> QED BY <2>5, <3>1, <3>2, <3>3, <3>4, <3>5 DEF Step, Plain
  <2> QED BY <2>3, <2>4, <2>5
<1>2. []LockedInv /\ [][Next]_vars => [][Idle]_vars
  BY <1>1, PTL
<1> QED BY <1>2, LockedHolds, PTL DEF Spec, CloseOnlyWhenIdle
-----------------------------------------------------------------------------
(* The steps that send the row limit and the query.                        *)
SessionSteps == {"check", "limit", "limited", "cache", "send", "receive"}

(* In the locked programs they come one after the other, under DBC::lock.  *)
SessionPlaces(c) ==
    /\ \A i \in 1..Len(Program[c]) :
          /\ Program[c][i] \in SessionSteps => InDbc(c, i)
          /\ Is(c, i + 1, "limit") => Is(c, i, "check")
          /\ Is(c, i + 1, "limited") => Is(c, i, "limit")
          /\ Is(c, i + 1, "cache") => Is(c, i, "limited")
          /\ Is(c, i + 1, "send") => Is(c, i, "cache") \/ c = "EndTran"
          /\ Is(c, i + 1, "receive") => Is(c, i, "send")
          /\ Is(c, i, "limited") => Is(c, i + 1, "cache")
    /\ \A step \in SessionSteps : ~Is(c, 1, step)

LEMMA SessionPlacesOK == \A c \in LockedPrograms : SessionPlaces(c)
<1> USE DEF SessionPlaces, SessionSteps, InDbc, Is, Program
<1>1. SessionPlaces("Execute")     BY DEF ExecuteSteps
<1>2. SessionPlaces("ExecuteDae")  BY DEF ExecuteDaeSteps
<1>3. SessionPlaces("Tables")      BY DEF TablesSteps
<1>4. SessionPlaces("Prefetch")    BY DEF PrefetchSteps
<1>5. SessionPlaces("MoreResults") BY DEF MoreResultsSteps
<1>6. SessionPlaces("EndTran")     BY DEF EndTranSteps
<1>7. SessionPlaces("Close")       BY DEF CloseSteps
<1>8. SessionPlaces("RowCount")    BY DEF RowCountSteps
<1>9. SessionPlaces("Cancel")      BY DEF CancelSteps
<1>10. SessionPlaces("CancelClose") BY DEF CloseSteps
<1>11. SessionPlaces("CancelKill") BY DEF KillSteps
<1>12. SessionPlaces("none")       OBVIOUS
<1> HIDE DEF SessionPlaces
<1> QED BY <1>1, <1>2, <1>3, <1>4, <1>5, <1>6, <1>7, <1>8, <1>9, <1>10,
           <1>11, <1>12 DEF LockedPrograms, LockedCalls

(* What a thread knows of the limit on its way to the query.               *)
LimitKnown(t) ==
    /\ At(t, "limit") \/ At(t, "limited") =>
          (setting[t] <=> cache # MaxRows[of[t]])
    /\ At(t, "cache") /\ setting[t] => limit = MaxRows[of[t]]
    /\ At(t, "cache") /\ ok[t] /\ ~setting[t] => cache = MaxRows[of[t]]
    /\ At(t, "send") /\ ok[t] /\ call[t] # "EndTran" =>
          limit = MaxRows[of[t]]
    /\ busy[t] = "query" /\ call[t] # "EndTran" => limit = MaxRows[of[t]]

(* The driver's memory of the limit is right, unless it is unset or a      *)
(* thread is about to correct it.                                          *)
CacheRight ==
    \/ cache = -1
    \/ cache = limit
    \/ \E t \in Threads : At(t, "cache") /\ setting[t]

LimitInv ==
    /\ LockedInv
    /\ \A t \in Threads : LimitKnown(t)
    /\ CacheRight

(* A thread at one of these steps has DBC::lock.                           *)
LEMMA SessionHasLock ==
    ASSUME LockedInv, NEW t \in Threads, NEW step \in SessionSteps,
           At(t, step)
    PROVE  dlock = t
<1>1. Is(call[t], pc[t], step)
  BY AtIs DEF LockedInv, WireInv, LockInv
<1>2. InDbc(call[t], pc[t])
  BY <1>1, SessionPlacesOK DEF Is, LockedInv, CallsLocked, SessionPlaces
<1> QED BY <1>2 DEF LockedInv, WireInv, LockInv, DbcOwned

(* The limit and its memory are not changed by the steps of the others.    *)
LEMMA OthersKnow ==
    ASSUME LockedInv, NEW t \in Threads, NEW u \in Threads, u # t,
           LimitKnown(u),
           UNCHANGED <<call[u], pc[u], of[u], setting[u], ok[u], busy[u]>>,
           dlock = u => UNCHANGED session
    PROVE  LimitKnown(u)'
<1>1. \A step : At(u, step)' <=> At(u, step)
  BY DEF At, Done
<1>2. CASE dlock = u
  BY <1>1, <1>2 DEF LimitKnown, session
<1>3. CASE dlock # u
  <2>1. \A step \in SessionSteps : ~At(u, step)
    BY <1>3, SessionHasLock
  <2>2. busy[u] # "query"
    BY <1>3, WireHasLock DEF OnTheWire
  <2> QED BY <1>1, <2>1, <2>2 DEF LimitKnown, SessionSteps
<1> QED BY <1>2, <1>3

(* Where a thread comes to after a step of its own.                        *)
LEMMA CameFrom ==
    ASSUME LockedInv, NEW t \in Threads, NEW step, At(t, step), Advance(t)
    PROVE  /\ At(t, "limit")' => step = "check"
           /\ At(t, "limited")' => step = "limit"
           /\ At(t, "cache")' => step = "limited"
           /\ At(t, "send")' /\ call[t] # "EndTran" => step = "cache"
           /\ At(t, "receive")' => step = "send"
           /\ call'[t] = call[t] /\ of'[t] = of[t]
           /\ \A u \in Threads : u # t =>
                 UNCHANGED <<call[u], pc[u], of[u]>>
<1>1. /\ Is(call[t], pc[t], step) /\ call[t] \in LockedPrograms
      /\ pc[t] \in 1..Len(Program[call[t]])
      /\ Len(Program[call[t]]) \in Nat
  BY AtIs, ProgramLengths DEF LockedInv, WireInv, LockInv, CallsLocked
<1>2. /\ call' = call /\ of' = of /\ pc'[t] = pc[t] + 1
      /\ \A u \in Threads : u # t => pc'[u] = pc[u]
  BY DEF Advance, LockedInv, TypeOK
<1>3. \A x : At(t, x)' => Is(call[t], pc[t] + 1, x)
  BY <1>1, <1>2 DEF At, Done, Is
<1>4. SessionPlaces(call[t])
  BY <1>1, SessionPlacesOK
<1>5. \A x : Is(call[t], pc[t], x) => x = step
  BY <1>1 DEF Is
<1> QED BY <1>1, <1>2, <1>3, <1>4, <1>5 DEF SessionPlaces
(* A step of a thread leaves the others where they are.                    *)
LEMMA StepIsLocal ==
    ASSUME TypeOK, NEW t \in Threads, Step(t), NEW u \in Threads, u # t
    PROVE  UNCHANGED <<call[u], pc[u], of[u], setting[u], ok[u], busy[u]>>
<1> USE DEF TypeOK, Advance, Continue
<1>1. CASE LockStmt(t) \/ UnlockStmt(t) \/ LockDbc(t) \/ UnlockDbc(t)
  BY <1>1 DEF LockStmt, UnlockStmt, LockDbc, UnlockDbc
<1>2. CASE Check(t) \/ Branch(t) \/ SendLimit(t) \/ Cache(t)
  BY <1>2 DEF Check, Branch, SendLimit, Cache
<1>3. CASE Limited(t)
  BY <1>3 DEF Limited
<1>4. CASE Send(t)
  BY <1>4 DEF Send
<1>5. CASE Receive(t)
  BY <1>5 DEF Receive
<1>6. CASE NothingSent(t) \/ Count(t) \/ NeedData(t) \/ FakeResult(t)
  BY <1>6 DEF NothingSent, Count, NeedData, FakeResult
<1>7. CASE Store(t) \/ Stored(t) \/ Drain(t) \/ Drained(t) \/ CloseStmt(t)
  BY <1>7 DEF Store, Stored, Drain, Drained, CloseStmt
<1>8. CASE NextResult(t) \/ NextDone(t) \/ RowCount(t)
  BY <1>8 DEF NextResult, NextDone, RowCount
<1>9. CASE TryLock(t) \/ Kill(t) \/ Return(t)
  BY <1>9 DEF TryLock, Kill, Return
<1> QED BY <1>1, <1>2, <1>3, <1>4, <1>5, <1>6, <1>7, <1>8, <1>9 DEF Step

(* It is enough to look at the thread that takes the step.                 *)
LEMMA LimitStep ==
    ASSUME LimitInv, LockedInv', NEW t \in Threads, LimitKnown(t)',
           CacheRight', dlock = t \/ UNCHANGED session,
           \A u \in Threads : u # t =>
               UNCHANGED <<call[u], pc[u], of[u], setting[u], ok[u], busy[u]>>
    PROVE  LimitInv'
<1>1. ASSUME NEW u \in Threads PROVE LimitKnown(u)'
  <2>1. CASE u = t
    BY <2>1
  <2>2. CASE u # t
    BY <2>2, OthersKnow DEF LimitInv
  <2> QED BY <2>1, <2>2
<1> QED BY <1>1 DEF LimitInv

(* A step off the way to the query.                                        *)
LEMMA LimitOff ==
    ASSUME LimitInv, LockedInv', NEW t \in Threads,
           \A step \in SessionSteps : ~At(t, step),
           \A step \in SessionSteps : At(t, step)' =>
               \/ step \in {"check", "receive"}
               \/ step = "send" /\ call'[t] = "EndTran",
           busy'[t] # "query", UNCHANGED session,
           \A u \in Threads : u # t =>
               UNCHANGED <<call[u], pc[u], of[u], setting[u], ok[u], busy[u]>>
    PROVE  LimitInv'
<1>1. LimitKnown(t)'
  BY DEF LimitKnown, SessionSteps
<1>2. CacheRight'
  <2>1. CASE cache = -1 \/ cache = limit
    BY <2>1 DEF CacheRight, session
  <2>2. ASSUME NEW u \in Threads, At(u, "cache") /\ setting[u]
        PROVE  CacheRight'
    <3>1. u # t
      BY <2>2 DEF SessionSteps
    <3>2. At(u, "cache")' /\ setting'[u]
      BY <2>2, <3>1 DEF At, Done
    <3> QED BY <3>2 DEF CacheRight
  <2> QED BY <2>1, <2>2 DEF LimitInv, CacheRight
<1> QED BY <1>1, <1>2, LimitStep

(* The steps that are not on the way to the query.                         *)
OffSteps == {"lockS", "unlockS", "lockD", "unlockD", "count", "needdata",
             "fake", "store", "stored", "drain", "drained", "close", "next",
             "nextdone", "rowcount", "kill"}

LEMMA LimitAdvance ==
    ASSUME LimitInv, LockedInv', NEW t \in Threads, NEW step \in OffSteps,
           At(t, step), Advance(t), UNCHANGED session, Step(t)
    PROVE  LimitInv'
<1>1. LockedInv /\ TypeOK
  BY DEF LimitInv, LockedInv
<1>2. \A x \in SessionSteps : ~At(t, x)
  BY DEF At, SessionSteps, OffSteps
<1>3. step \notin SessionSteps
  BY DEF SessionSteps, OffSteps
<1>4. \A x \in SessionSteps : At(t, x)' =>
          \/ x \in {"check", "receive"}
          \/ x = "send" /\ call'[t] = "EndTran"
  BY <1>1, <1>3, CameFrom DEF SessionSteps
<1>5. ~At(t, "receive")'
  BY <1>1, CameFrom DEF OffSteps
<1>6. busy'[t] # "query"
  BY <1>5 DEF LockedInv, WireInv, BusyPlaces
<1>7. \A u \in Threads : u # t =>
          UNCHANGED <<call[u], pc[u], of[u], setting[u], ok[u], busy[u]>>
  BY <1>1, StepIsLocal
<1> QED BY <1>2, <1>4, <1>6, <1>7, LimitOff
(* A call begins, returns, or goes on with another program.                *)
LEMMA LimitMove ==
    ASSUME LimitInv, LockedInv', NEW t \in Threads, NEW step,
           Done(t) \/ (At(t, step) /\ step \in {"try", "branch"}),
           pc'[t] = 1, UNCHANGED session, UNCHANGED busy,
           \A u \in Threads : u # t =>
               UNCHANGED <<call[u], pc[u], of[u], setting[u], ok[u], busy[u]>>
    PROVE  LimitInv'
<1>1. \A x \in SessionSteps : ~At(t, x)
  BY DEF At, SessionSteps
<1>2. busy[t] # "query"
  BY <1>1 DEF LimitInv, LockedInv, WireInv, BusyPlaces, SessionSteps
<1>3. \A x \in SessionSteps : ~At(t, x)'
  <2>1. call'[t] \in LockedPrograms /\ call'[t] \in DOMAIN Program
    BY DEF LockedInv, CallsLocked, TypeOK
  <2>2. \A x \in SessionSteps : ~Is(call'[t], 1, x)
    BY <2>1, SessionPlacesOK DEF SessionPlaces
  <2> QED BY <2>1, <2>2, ProgramLengths DEF At, Done, Is
<1> QED BY <1>1, <1>2, <1>3, LimitOff

(* The steps on the way to the query.                                      *)
LEMMA LimitWay ==
    ASSUME LimitInv, LockedInv', NEW t \in Threads,
           \/ Check(t) \/ SendLimit(t) \/ Limited(t) \/ Cache(t)
           \/ Send(t) \/ Receive(t) \/ NothingSent(t)
    PROVE  LimitInv'
<1>0. LockedInv /\ TypeOK /\ LimitKnown(t) /\ CacheRight
  BY DEF LimitInv, LockedInv
<1>1. \A u \in Threads : u # t =>
          UNCHANGED <<call[u], pc[u], of[u], setting[u], ok[u], busy[u]>>
  BY <1>0, StepIsLocal DEF Step
<1>2. dlock = t
  BY <1>0, SessionHasLock
     DEF Check, SendLimit, Limited, Cache, Send, Receive, NothingSent,
         SessionSteps
<1>3. \A u \in Threads : At(u, "cache") => u = t
  BY <1>0, <1>2, SessionHasLock DEF SessionSteps
<1>4. Advance(t)
  BY DEF Check, SendLimit, Limited, Cache, Send, Receive, NothingSent
<1>5. SUFFICES LimitKnown(t)' /\ CacheRight'
  BY <1>1, <1>2, LimitStep
<1>6. \A step : At(t, step) =>
          /\ At(t, "limit")' => step = "check"
          /\ At(t, "limited")' => step = "limit"
          /\ At(t, "cache")' => step = "limited"
          /\ At(t, "send")' /\ call[t] # "EndTran" => step = "cache"
          /\ At(t, "receive")' => step = "send"
  BY <1>0, <1>4, CameFrom
<1>7. call'[t] = call[t] /\ of'[t] = of[t] /\ of[t] \in Stmts
  BY <1>0, <1>4 DEF Advance, TypeOK
<1>8. \A step : busy'[t] = "query" /\ At(t, step) => step = "send"
  <2>1. busy'[t] = "query" => At(t, "receive")'
    BY DEF LockedInv, WireInv, BusyPlaces
  <2> QED BY <1>6, <2>1
<1>9. CASE Check(t)
  <2>1. At(t, "check") /\ UNCHANGED session
    BY <1>9 DEF Check
  <2>2. setting'[t] <=> cache' # MaxRows[of'[t]]
    <3>1. setting'[t] <=> cache # MaxRows[of[t]]
      BY <1>0, <1>9 DEF Check, TypeOK
    <3> QED BY <1>7, <2>1, <3>1 DEF session
  <2>3. LimitKnown(t)'
    BY <1>6, <1>7, <1>8, <2>1, <2>2 DEF LimitKnown, session
  <2>4. CacheRight'
    BY <1>0, <1>3, <2>1 DEF CacheRight, session, At
  <2> QED BY <2>3, <2>4
<1>10. CASE SendLimit(t)
  <2>1. At(t, "limit") /\ UNCHANGED <<session, setting>>
    BY <1>10 DEF SendLimit
  <2>2. LimitKnown(t)'
    BY <1>0, <1>6, <1>7, <1>8, <2>1 DEF LimitKnown, session
  <2>3. CacheRight'
    BY <1>0, <1>3, <2>1 DEF CacheRight, session, At
  <2> QED BY <2>2, <2>3
<1>11. CASE Limited(t)
  <2>1. At(t, "limited") /\ cache' = cache
    BY <1>11 DEF Limited
  <2>2. PICK set \in BOOLEAN :
           /\ set => setting[t]
           /\ limit' = IF set THEN MaxRows[of[t]] ELSE limit
           /\ ok' = [ok EXCEPT ![t] = set \/ ~setting[t]]
           /\ setting' = [setting EXCEPT ![t] = set]
    BY <1>11 DEF Limited
  <2>3. setting'[t] = set /\ ok'[t] = (set \/ ~setting[t])
    BY <1>0, <2>2 DEF TypeOK
  <2>4. LimitKnown(t)'
    <3>1. setting[t] <=> cache # MaxRows[of[t]]
      BY <1>0, <2>1 DEF LimitKnown
    <3>2. setting'[t] => limit' = MaxRows[of[t]]
      BY <2>2, <2>3
    <3>3. ok'[t] /\ ~setting'[t] => cache' = MaxRows[of[t]]
      BY <2>1, <2>3, <3>1
    <3> QED BY <1>6, <1>7, <1>8, <2>1, <3>2, <3>3 DEF LimitKnown
  <2>5. CacheRight'
    <3>1. CASE set
      <4>1. At(t, "cache")'
        <5>1. Is(call[t], pc[t], "limited") /\ call[t] \in DOMAIN Program
              /\ call[t] \in LockedPrograms
          BY <1>0, <2>1, AtIs DEF LockedInv, WireInv, LockInv, CallsLocked
        <5>2. Is(call[t], pc[t] + 1, "cache")
          BY <5>1, SessionPlacesOK DEF SessionPlaces, Is
        <5>3. call'[t] = call[t] /\ pc'[t] = pc[t] + 1
          BY <1>0, <1>4 DEF Advance, TypeOK
        <5> QED BY <5>1, <5>2, <5>3, ProgramLengths DEF At, Done, Is
      <4> QED BY <2>3, <3>1, <4>1 DEF CacheRight
    <3>2. CASE ~set
      BY <1>0, <1>3, <2>1, <2>2, <3>2 DEF CacheRight, At
    <3> QED BY <3>1, <3>2
  <2> QED BY <2>4, <2>5
<1>12. CASE Cache(t)
  <2>1. At(t, "cache") /\ cache' = Remembered(t)
        /\ UNCHANGED <<limit, setting, ok>>
    BY <1>12 DEF Cache
  <2>2. /\ setting[t] => limit = MaxRows[of[t]]
        /\ ok[t] /\ ~setting[t] => cache = MaxRows[of[t]]
    BY <1>0, <2>1 DEF LimitKnown
  <2>3. MaxRows[of[t]] # -1
    <3>1. MaxRows[of[t]] \in Nat
      BY <1>7, ConnectionAssumption
    <3> QED BY <3>1
  <2>4. ~setting[t] => cache = -1 \/ cache = limit
    BY <1>0, <1>3 DEF CacheRight
  <2>5. ok[t] => limit = MaxRows[of[t]]
    BY <2>2, <2>3, <2>4
  <2>6. LimitKnown(t)'
    BY <1>6, <1>7, <1>8, <2>1, <2>5 DEF LimitKnown
  <2>7. CacheRight'
    BY <2>1, <2>2, <2>4 DEF Remembered, CacheRight
  <2> QED BY <2>6, <2>7
<1>13. CASE Send(t)
  <2>1. At(t, "send") /\ UNCHANGED <<session, setting>>
    BY <1>13 DEF Send
  <2>2. busy'[t] = "query" => ok[t]
    <3>1. busy'[t] = IF ok'[t] THEN "query" ELSE "no"
      BY <1>0, <1>13 DEF Send, TypeOK
    <3>2. ok'[t] => ok[t]
      BY <1>0, <1>13 DEF Send, TypeOK
    <3> QED BY <3>1, <3>2
  <2>3. LimitKnown(t)'
    BY <1>0, <1>6, <1>7, <2>1, <2>2 DEF LimitKnown, session
  <2>4. CacheRight'
    BY <1>0, <1>3, <2>1 DEF CacheRight, session, At
  <2> QED BY <2>3, <2>4
<1>14. CASE Receive(t) \/ NothingSent(t)
  <2>1. At(t, "receive") /\ UNCHANGED <<session, setting>>
    BY <1>14 DEF Receive, NothingSent
  <2>2. LimitKnown(t)'
    BY <1>6, <1>7, <1>8, <2>1 DEF LimitKnown
  <2>3. CacheRight'
    BY <1>0, <1>3, <2>1 DEF CacheRight, session, At
  <2> QED BY <2>2, <2>3
<1> QED BY <1>9, <1>10, <1>11, <1>12, <1>13, <1>14
(* Every step keeps the invariant of the row limit.                        *)
LEMMA LimitNext ==
    ASSUME LimitInv, LockedInv', [Next]_vars
    PROVE  LimitInv'
<1>0. LockedInv /\ TypeOK /\ LockInv
  BY DEF LimitInv, LockedInv, WireInv
<1>1. CASE UNCHANGED vars
  BY <1>1 DEF vars, LimitInv, LimitKnown, CacheRight, At, Done
<1>2. ASSUME NEW t \in Threads, NEW c \in Calls, NEW s \in Stmts,
             Call(t, c, s)
      PROVE  LimitInv'
  <2>1. Done(t)
    BY <1>0, <1>2, NoneIsDone DEF Call
  <2>2. /\ pc'[t] = 1 /\ UNCHANGED session /\ UNCHANGED busy
        /\ \A u \in Threads : u # t =>
              UNCHANGED <<call[u], pc[u], of[u], setting[u], ok[u], busy[u]>>
    BY <1>0, <1>2 DEF Call, TypeOK
  <2> QED BY <2>1, <2>2, LimitMove
<1>3. ASSUME NEW t \in Threads, Return(t) \/ TryLock(t) \/ Branch(t)
      PROVE  LimitInv'
  <2>1. Done(t) \/ At(t, "try") \/ At(t, "branch")
    BY <1>3 DEF Return, TryLock, Branch
  <2>2. /\ pc'[t] = 1 /\ UNCHANGED session /\ UNCHANGED busy
    BY <1>0, <1>3 DEF Return, TryLock, Branch, Continue, TypeOK
  <2>3. \A u \in Threads : u # t =>
            UNCHANGED <<call[u], pc[u], of[u], setting[u], ok[u], busy[u]>>
    BY <1>0, <1>3, StepIsLocal DEF Step
  <2> QED BY <2>1, <2>2, <2>3, LimitMove
<1>4. ASSUME NEW t \in Threads,
             \/ LockStmt(t) \/ UnlockStmt(t) \/ LockDbc(t) \/ UnlockDbc(t)
             \/ Count(t) \/ NeedData(t) \/ FakeResult(t) \/ Store(t)
             \/ Stored(t) \/ Drain(t) \/ Drained(t) \/ CloseStmt(t)
             \/ NextResult(t) \/ NextDone(t) \/ RowCount(t) \/ Kill(t)
      PROVE  LimitInv'
  <2>1. Step(t)
    BY <1>4 DEF Step
  <2>2. Advance(t) /\ UNCHANGED session
    BY <1>4 DEF LockStmt, UnlockStmt, LockDbc, UnlockDbc, Count, NeedData,
                FakeResult, Store, Stored, Drain, Drained, CloseStmt,
                NextResult, NextDone, RowCount, Kill
  <2>3. \E step \in OffSteps : At(t, step)
    BY <1>4 DEF LockStmt, UnlockStmt, LockDbc, UnlockDbc, Count, NeedData,
                FakeResult, Store, Stored, Drain, Drained, CloseStmt,
                NextResult, NextDone, RowCount, Kill, OffSteps
  <2> QED BY <2>1, <2>2, <2>3, LimitAdvance
<1>5. ASSUME NEW t \in Threads, Step(t) PROVE LimitInv'
  BY <1>3, <1>4, <1>5, LimitWay DEF Step
<1> QED BY <1>1, <1>2, <1>5 DEF Next

(* A query runs under the row limit of its own statement, whatever other   *)
(* statements have set meanwhile, whatever has failed, and whatever the    *)
(* driver remembers of it: as long as the application keeps to the calls   *)
(* that hold DBC::lock around the check of the limit and the query.        *)
THEOREM LimitIsOwn ==
    ASSUME Calls \subseteq LockedCalls
    PROVE  Spec => []LimitOwn
<1>1. Init => LimitInv
  <2> SUFFICES ASSUME Init PROVE LimitInv
    OBVIOUS
  <2>1. LockedInv
    BY TypeInit, LockInit
       DEF Init, LockedInv, WireInv, BusyPlaces, CallsLocked, LockedPrograms
  <2>2. \A t \in Threads : Done(t) /\ busy[t] = "no"
    BY <2>1, NoneIsDone DEF Init, LockedInv, WireInv
  <2>3. \A t \in Threads : LimitKnown(t)
    BY <2>2 DEF LimitKnown, At
  <2>4. CacheRight
    BY DEF Init, CacheRight
  <2> QED BY <2>1, <2>3, <2>4 DEF LimitInv
<1>2. LimitInv /\ LockedInv' /\ [Next]_vars => LimitInv'
  BY LimitNext
<1>3. LimitInv => LimitOwn
  BY DEF LimitInv, LimitKnown, LimitOwn
<1> QED BY <1>1, <1>2, <1>3, LockedHolds, PTL DEF Spec
=============================================================================
