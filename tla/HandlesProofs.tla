--------------------------- MODULE HandlesProofs ---------------------------
(* Theorems about the handle tree, for any number of handles.              *)
EXTENDS Handles, TLAPS

LEMMA ImpAppType ==
    ASSUME NEW s \in Stmts, NEW t \in DescTypes
    PROVE  ImpApp(s, t) \in ImpDescs
BY DEF ImpApp, ImpDescs, RefTypes

LEMMA ImplicitDescType ==
    ASSUME NEW o \in ImpDescs, NEW c \in Dbcs \cup {NoDbc}
    PROVE  ImplicitDesc(o, c) \in DescRecord
BY DEF ImplicitDesc, ImpDescs, DescRecord

LEMMA ExplicitDescType ==
    ASSUME NEW c \in Dbcs \cup {NoDbc}
    PROVE  ExplicitDesc(c) \in DescRecord
BY DEF ExplicitDesc, DescRecord, RefTypes

(* The list operations keep the type of the descriptor table.              *)
LEMMA ListOpsType ==
    ASSUME NEW ds \in [AllDescs -> DescRecord], NEW o \in AllDescs,
           NEW s \in Stmts
    PROVE  /\ stmt_list_remove(ds, o, s) \in [AllDescs -> DescRecord]
           /\ stmt_list_add(ds, o, s) \in [AllDescs -> DescRecord]
<1>1. ds[o] \in DescRecord
  OBVIOUS
<1>2. [ds[o] EXCEPT !.list = @ \ {s}] \in DescRecord
  BY <1>1 DEF DescRecord
<1>3. [ds[o] EXCEPT !.list = @ \cup {s}] \in DescRecord
  BY <1>1 DEF DescRecord
<1> QED
  BY <1>2, <1>3 DEF stmt_list_remove, stmt_list_add

LEMMA DropDescsType ==
    ASSUME desc \in [AllDescs -> DescRecord], NEW ss \in SUBSET Stmts
    PROVE  DropDescs(ss) \in [AllDescs -> DescRecord]
<1> SUFFICES ASSUME NEW o \in AllDescs
             PROVE  DropDescs(ss)[o] \in DescRecord
  BY DEF DropDescs
<1>1. CASE o \in ImpDescs /\ o[1] \in ss
  BY <1>1, ImplicitDescType DEF DropDescs
<1>2. CASE ~(o \in ImpDescs /\ o[1] \in ss)
  <2>1. desc[o] \in DescRecord
    OBVIOUS
  <2>2. \A l : l \subseteq desc[o].list
                 => [desc[o] EXCEPT !.list = l] \in DescRecord
    BY <2>1 DEF DescRecord
  <2> QED
    BY <1>2, <2>1, <2>2 DEF DropDescs
<1> QED
  BY <1>1, <1>2

LEMMA DropStmtsType ==
    ASSUME TypeOK, NEW ss \in SUBSET Stmts, DropStmts(ss)
    PROVE  /\ stmtDbc' \in [Stmts -> Dbcs \cup {NoDbc}]
           /\ app' \in [Stmts -> [DescTypes -> AllDescs]]
<1>1. \A s \in Stmts, t \in DescTypes : ImpApp(s, t) \in AllDescs
  BY ImpAppType DEF AllDescs
<1> QED
  BY <1>1 DEF TypeOK, DropStmts

LEMMA ForgetDescsType ==
    ASSUME NEW f \in [AllDescs -> DescRecord], NEW ds
    PROVE  ForgetDescs(f, ds) \in [AllDescs -> DescRecord]
BY ExplicitDescType DEF ForgetDescs

LEMMA TypeInit == Init => TypeOK
<1> SUFFICES ASSUME Init PROVE TypeOK
  OBVIOUS
<1>1. desc \in [AllDescs -> DescRecord]
  BY ImplicitDescType, ExplicitDescType DEF Init, AllDescs
<1>2. app \in [Stmts -> [DescTypes -> AllDescs]]
  BY ImpAppType DEF Init, AllDescs
<1> QED
  BY <1>1, <1>2 DEF Init, TypeOK

LEMMA TypeStep == TypeOK /\ [Next]_vars => TypeOK'
<1> SUFFICES ASSUME TypeOK, [Next]_vars PROVE TypeOK'
  OBVIOUS
<1>1. ASSUME NEW c \in Dbcs, my_SQLAllocConnect(c) PROVE TypeOK'
  BY <1>1 DEF my_SQLAllocConnect, TypeOK
<1>2. ASSUME NEW c \in Dbcs, Connect(c) PROVE TypeOK'
  BY <1>2 DEF Connect, TypeOK
<1>3. ASSUME NEW c \in Dbcs, SQLDisconnect(c) PROVE TypeOK'
  <2>1. stmt_list[c] \in SUBSET Stmts
    BY DEF TypeOK
  <2>2. DropDescs(stmt_list[c]) \in [AllDescs -> DescRecord]
    BY <2>1, DropDescsType DEF TypeOK
  <2> QED
    BY <1>3, <2>1, <2>2, DropStmtsType DEF SQLDisconnect, Erase, TypeOK
<1>4. ASSUME NEW c \in Dbcs, reset_connection(c) PROVE TypeOK'
  <2>1. stmt_list[c] \in SUBSET Stmts
    BY DEF TypeOK
  <2>2. desc' \in [AllDescs -> DescRecord]
    BY <1>4, <2>1, DropDescsType, ForgetDescsType
    DEF TypeOK, reset_connection
  <2> QED
    BY <1>4, <2>1, <2>2, DropStmtsType DEF reset_connection, Erase, TypeOK,
     free_explicit_descriptors, Outlive
<1>5. ASSUME NEW c \in Dbcs, wakeup_connection(c) PROVE TypeOK'
  BY <1>5 DEF wakeup_connection, Wakeup, TypeOK
<1>6. ASSUME NEW c \in Dbcs, my_SQLFreeConnect(c) PROVE TypeOK'
  <2>1. desc' \in [AllDescs -> DescRecord]
    BY <1>6, ForgetDescsType DEF TypeOK, my_SQLFreeConnect
  <2> QED
    BY <1>6, <2>1 DEF my_SQLFreeConnect, TypeOK,
     free_explicit_descriptors, Outlive
<1>7. ASSUME NEW c \in Dbcs, NEW s \in Stmts, my_SQLAllocStmt(c, s)
      PROVE  TypeOK'
  <2>1. desc' \in [AllDescs -> DescRecord]
    BY <1>7, ImplicitDescType DEF TypeOK, my_SQLAllocStmt
  <2>2. [t \in DescTypes |-> ImpApp(s, t)] \in [DescTypes -> AllDescs]
    BY ImpAppType DEF AllDescs
  <2> QED
    BY <1>7, <2>1, <2>2 DEF my_SQLAllocStmt, Wakeup, TypeOK
<1>8. ASSUME NEW s \in Stmts, my_SQLFreeStmt(s) PROVE TypeOK'
  <2>1. DropDescs({s}) \in [AllDescs -> DescRecord]
    BY DropDescsType DEF TypeOK
  <2> QED
    BY <1>8, <2>1, DropStmtsType DEF my_SQLFreeStmt, Erase, TypeOK
<1>9. ASSUME NEW c \in Dbcs, NEW d \in Descs, my_SQLAllocDesc(c, d)
      PROVE  TypeOK'
  BY <1>9, ExplicitDescType DEF my_SQLAllocDesc, TypeOK
<1>10. ASSUME NEW s \in Stmts, NEW t \in DescTypes, NEW o \in AllDescs,
              SetAppDesc(s, t, o)
       PROVE  TypeOK'
  <2>1. app[s][t] \in AllDescs
    BY DEF TypeOK
  <2> DEFINE r == stmt_list_remove(desc, app[s][t], s)
             a == stmt_list_add(r, o, s)
  <2>2. r \in [AllDescs -> DescRecord]
    BY <2>1, ListOpsType DEF TypeOK
  <2>3. a \in [AllDescs -> DescRecord]
    BY <2>2, ListOpsType
  <2>4. [a EXCEPT ![o].dtype = t] \in [AllDescs -> DescRecord]
    <3> HIDE DEF a
    <3>1. a[o] \in DescRecord
      BY <2>3
    <3>2. [a[o] EXCEPT !.dtype = t] \in DescRecord
      BY <3>1 DEF DescRecord
    <3> QED
      BY <2>3, <3>2
  <2>5. desc' = [a EXCEPT ![o].dtype = t]
    BY <1>10 DEF SetAppDesc
  <2> QED
    BY <1>10, <2>4, <2>5 DEF SetAppDesc, TypeOK
<1>11. ASSUME NEW s \in Stmts, NEW t \in DescTypes, NEW o \in AllDescs,
              SetAppDescRefused(s, t, o)
       PROVE  TypeOK'
  BY <1>11, ListOpsType DEF SetAppDescRefused, TypeOK
<1>12. ASSUME NEW s \in Stmts, NEW t \in DescTypes, SetAppDescNull(s, t)
       PROVE  TypeOK'
  <2>1. ImpApp(s, t) \in AllDescs
    BY ImpAppType DEF AllDescs
  <2>2. app' \in [Stmts -> [DescTypes -> AllDescs]]
    BY <1>12, <2>1 DEF SetAppDescNull, TypeOK
  <2>3. desc' \in [AllDescs -> DescRecord]
    <3>1. app[s][t] \in AllDescs /\ desc \in [AllDescs -> DescRecord]
      BY DEF TypeOK
    <3>2. stmt_list_remove(desc, app[s][t], s) \in [AllDescs -> DescRecord]
      BY <3>1, ListOpsType
    <3> QED
      BY <1>12, <3>2 DEF SetAppDescNull
  <2> QED
    BY <1>12, <2>2, <2>3 DEF SetAppDescNull, TypeOK
<1>13. ASSUME NEW o \in AllDescs, my_SQLFreeDesc(o) PROVE TypeOK'
  <2>1. desc' \in [AllDescs -> DescRecord]
    BY <1>13, ExplicitDescType DEF my_SQLFreeDesc, TypeOK
  <2>2. app' \in [Stmts -> [DescTypes -> AllDescs]]
    BY <1>13, ImpAppType DEF my_SQLFreeDesc, ResetUsers, TypeOK, AllDescs
  <2> QED
    BY <1>13, <2>1, <2>2 DEF my_SQLFreeDesc, remove_desc, TypeOK
<1>14. ASSUME NEW src \in AllDescs, NEW dest \in AllDescs,
              MySQLCopyDesc(src, dest)
       PROVE  TypeOK'
  BY <1>14 DEF MySQLCopyDesc, TypeOK
<1>15. CASE UndefinedBehaviour
  BY <1>15 DEF UndefinedBehaviour, TypeOK
<1>16. CASE UNCHANGED vars
  BY <1>16 DEF vars, TypeOK
<1> QED
  BY <1>1, <1>2, <1>3, <1>4, <1>5, <1>6, <1>7, <1>8, <1>9, <1>10, <1>11,
     <1>12, <1>13, <1>14, <1>15, <1>16 DEF Next

(* Every pointer the driver keeps is an address of its kind: STMT::apd and *)
(* STMT::ard are never null.                                               *)
THEOREM TypeCorrect == Spec => []TypeOK
BY TypeInit, TypeStep, PTL DEF Spec

-----------------------------------------------------------------------------
(* Part 1.  Statement lists and the pool, whatever the application calls.  *)

(* What born tells of: a descriptor is on the list of the connection it was*)
(* allocated for, whatever connection it names by now.                     *)
BornListed == \A d \in descs : /\ born[d] \in dbcs
                               /\ d \in desc_list[born[d]]

ListInv == TypeOK /\ StmtListsExact /\ PooledIsClean /\ BornListed

LEMMA ListInit == Init => ListInv
<1> SUFFICES ASSUME Init PROVE ListInv
  OBVIOUS
<1> QED
  BY TypeInit DEF Init, ListInv, StmtListsExact, PooledIsClean, LiveStmts,
     StmtsOf, BornListed

(* Dropping every statement a connection lists leaves it with none.        *)
LEMMA DropListed ==
    ASSUME ListInv, NEW c \in connected, DropStmts(stmt_list[c]),
           stmt_list' = Erase(c, stmt_list[c])
    PROVE  /\ \A s \in Stmts : stmtDbc'[s] = IF stmtDbc[s] = c THEN NoDbc
                                             ELSE stmtDbc[s]
           /\ \A b \in dbcs : stmt_list'[b] = IF b = c THEN {}
                                              ELSE stmt_list[b]
<1>1. stmt_list[c] = StmtsOf(c) /\ c \in dbcs /\ dbcs \subseteq Dbcs
  BY DEF ListInv, TypeOK, StmtListsExact
<1> QED
  BY <1>1 DEF DropStmts, StmtsOf, Erase, ListInv, TypeOK

(* The first half of PooledIsClean.                                        *)
NoStatements ==
    \A c \in connected \cap need_to_wakeup : StmtsOf(c) = {}

LEMMA StatementsStep ==
    ASSUME ListInv, [Next]_vars
    PROVE  (StmtListsExact /\ NoStatements)'
<1> USE HandlesAssumption
<1>0. TypeOK /\ StmtListsExact /\ NoStatements
  BY DEF ListInv, PooledIsClean, NoStatements
<1>a. ASSUME UNCHANGED <<dbcs, connected, need_to_wakeup, stmtDbc, stmt_list>>
      PROVE  (StmtListsExact /\ NoStatements)'
  BY <1>0, <1>a DEF StmtListsExact, NoStatements, StmtsOf, LiveStmts
<1>1. ASSUME NEW c \in Dbcs, my_SQLAllocConnect(c)
      PROVE  (StmtListsExact /\ NoStatements)'
  BY <1>0, <1>1 DEF my_SQLAllocConnect, StmtListsExact, NoStatements,
     StmtsOf, LiveStmts, TypeOK
<1>2. ASSUME NEW c \in Dbcs, Connect(c)
      PROVE  (StmtListsExact /\ NoStatements)'
  BY <1>0, <1>2 DEF Connect, StmtListsExact, NoStatements, StmtsOf,
     LiveStmts, TypeOK
<1>3. ASSUME NEW c \in Dbcs, SQLDisconnect(c)
      PROVE  (StmtListsExact /\ NoStatements)'
  <2>1. c \in connected /\ dbcs' = dbcs /\ connected' = connected \ {c}
        /\ need_to_wakeup' = need_to_wakeup
    BY <1>3 DEF SQLDisconnect
  <2>2. /\ \A s \in Stmts : stmtDbc'[s] = IF stmtDbc[s] = c THEN NoDbc
                                           ELSE stmtDbc[s]
        /\ \A b \in dbcs : stmt_list'[b] = IF b = c THEN {}
                                            ELSE stmt_list[b]
    BY <1>3, <2>1, DropListed DEF SQLDisconnect
  <2>3. connected \subseteq dbcs /\ dbcs \subseteq Dbcs
    BY <1>0 DEF TypeOK
  <2> QED
    BY <1>0, <2>1, <2>2, <2>3 DEF StmtListsExact, NoStatements, StmtsOf,
       LiveStmts
<1>4. ASSUME NEW c \in Dbcs, reset_connection(c)
      PROVE  (StmtListsExact /\ NoStatements)'
  BY <1>0, <1>4, DropListed DEF reset_connection, StmtListsExact,
     NoStatements, StmtsOf, LiveStmts, TypeOK
<1>5. ASSUME NEW c \in Dbcs, wakeup_connection(c)
      PROVE  (StmtListsExact /\ NoStatements)'
  BY <1>0, <1>5 DEF wakeup_connection, Wakeup, StmtListsExact,
     NoStatements, StmtsOf, LiveStmts
<1>6. ASSUME NEW c \in Dbcs, my_SQLFreeConnect(c)
      PROVE  (StmtListsExact /\ NoStatements)'
  BY <1>0, <1>6 DEF my_SQLFreeConnect, StmtListsExact, NoStatements,
     StmtsOf, LiveStmts, TypeOK
<1>7. ASSUME NEW c \in Dbcs, NEW s \in Stmts, my_SQLAllocStmt(c, s)
      PROVE  (StmtListsExact /\ NoStatements)'
  BY <1>0, <1>7 DEF my_SQLAllocStmt, Wakeup, StmtListsExact, NoStatements,
     StmtsOf, LiveStmts, TypeOK
<1>8. ASSUME NEW s \in Stmts, my_SQLFreeStmt(s)
      PROVE  (StmtListsExact /\ NoStatements)'
  BY <1>0, <1>8 DEF my_SQLFreeStmt, DropStmts, Erase, StmtListsExact,
     NoStatements, StmtsOf, LiveStmts, TypeOK
<1>9. ASSUME NEW c \in Dbcs, NEW d \in Descs, my_SQLAllocDesc(c, d)
      PROVE  (StmtListsExact /\ NoStatements)'
  BY <1>a, <1>9 DEF my_SQLAllocDesc
<1>10. ASSUME NEW s \in Stmts, NEW t \in DescTypes, NEW o \in AllDescs,
              SetAppDesc(s, t, o) \/ SetAppDescRefused(s, t, o)
       PROVE  (StmtListsExact /\ NoStatements)'
  BY <1>a, <1>10 DEF SetAppDesc, SetAppDescRefused
<1>11. ASSUME NEW s \in Stmts, NEW t \in DescTypes, SetAppDescNull(s, t)
       PROVE  (StmtListsExact /\ NoStatements)'
  BY <1>a, <1>11 DEF SetAppDescNull
<1>12. ASSUME NEW o \in AllDescs, my_SQLFreeDesc(o)
       PROVE  (StmtListsExact /\ NoStatements)'
  BY <1>a, <1>12 DEF my_SQLFreeDesc
<1>13. ASSUME NEW src \in AllDescs, NEW dest \in AllDescs,
              MySQLCopyDesc(src, dest)
       PROVE  (StmtListsExact /\ NoStatements)'
  BY <1>a, <1>13 DEF MySQLCopyDesc
<1>14. CASE UndefinedBehaviour
  BY <1>a, <1>14 DEF UndefinedBehaviour
<1>15. CASE UNCHANGED vars
  BY <1>a, <1>15 DEF vars
<1> QED
  BY <1>1, <1>2, <1>3, <1>4, <1>5, <1>6, <1>7, <1>8, <1>9, <1>10, <1>11,
     <1>12, <1>13, <1>14, <1>15 DEF Next

(* The lists of descriptors, as far as a descriptor's own goes.            *)
LEMMA BornStep ==
    ASSUME ListInv, [Next]_vars
    PROVE  BornListed'
<1> USE HandlesAssumption
<1>0. /\ BornListed /\ dbcs \subseteq Dbcs /\ connected \subseteq dbcs
      /\ descs \subseteq Descs /\ NoDbc \notin dbcs
      /\ desc_list \in [Dbcs -> SUBSET Descs]
      /\ born \in [Descs -> Dbcs \cup {NoDbc}]
  BY DEF ListInv, TypeOK
<1>a. ASSUME UNCHANGED <<dbcs, descs, desc_list, born>>
      PROVE  BornListed'
  BY <1>0, <1>a DEF BornListed
<1>1. ASSUME NEW c \in Dbcs, my_SQLAllocConnect(c)
      PROVE  BornListed'
  BY <1>0, <1>1 DEF my_SQLAllocConnect, BornListed
<1>2. ASSUME NEW c \in Dbcs,
             Connect(c) \/ SQLDisconnect(c) \/ wakeup_connection(c)
      PROVE  BornListed'
  BY <1>a, <1>2 DEF Connect, SQLDisconnect, wakeup_connection
<1>3. ASSUME NEW c \in Dbcs, reset_connection(c) \/ my_SQLFreeConnect(c)
      PROVE  BornListed'
  <2>1. /\ free_explicit_descriptors(c) /\ dbcs \ {c} \subseteq dbcs'
        /\ dbcs' \subseteq dbcs
    BY <1>3 DEF reset_connection, my_SQLFreeConnect
  <2>2. ASSUME NEW d \in descs'
        PROVE  /\ d \in descs /\ born[d] # c /\ born'[d] = born[d]
               /\ born[d] \in dbcs'
               /\ desc_list'[born[d]] = desc_list[born[d]]
    <3>1. d \in descs /\ d \notin desc_list[c] /\ d \in Descs
      BY <1>0, <2>1 DEF free_explicit_descriptors
    <3>2. born[d] \in dbcs /\ born[d] # c
      BY <1>0, <3>1 DEF BornListed
    <3> QED
      BY <1>0, <2>1, <3>1, <3>2 DEF free_explicit_descriptors, Outlive
  <2> QED
    BY <1>0, <2>2 DEF BornListed
<1>4. ASSUME NEW c \in Dbcs, NEW s \in Stmts, my_SQLAllocStmt(c, s)
      PROVE  BornListed'
  BY <1>a, <1>4 DEF my_SQLAllocStmt
<1>5. ASSUME NEW s \in Stmts, my_SQLFreeStmt(s) PROVE BornListed'
  BY <1>a, <1>5 DEF my_SQLFreeStmt
<1>6. ASSUME NEW c \in Dbcs, NEW d \in Descs, my_SQLAllocDesc(c, d)
      PROVE  BornListed'
  BY <1>0, <1>6 DEF my_SQLAllocDesc, BornListed
<1>7. ASSUME NEW s \in Stmts, NEW t \in DescTypes, NEW o \in AllDescs,
             SetAppDesc(s, t, o) \/ SetAppDescRefused(s, t, o)
      PROVE  BornListed'
  BY <1>a, <1>7 DEF SetAppDesc, SetAppDescRefused
<1>8. ASSUME NEW s \in Stmts, NEW t \in DescTypes, SetAppDescNull(s, t)
      PROVE  BornListed'
  BY <1>a, <1>8 DEF SetAppDescNull
<1>9. ASSUME NEW o \in AllDescs, my_SQLFreeDesc(o) PROVE BornListed'
  <2>1. /\ o \in Descs /\ descs' = descs \ {o} /\ dbcs' = dbcs
        /\ born' = [born EXCEPT ![o] = NoDbc]
        /\ desc_list' = remove_desc(desc[o].dbc, o)
    BY <1>9 DEF my_SQLFreeDesc, FreeDescIsSafe
  <2>2. \A c \in Dbcs, d \in Descs :
            d # o /\ d \in desc_list[c] => d \in desc_list'[c]
    BY <1>0, <2>1 DEF remove_desc
  <2> QED
    BY <1>0, <2>1, <2>2 DEF BornListed
<1>10. ASSUME NEW src \in AllDescs, NEW dest \in AllDescs,
              MySQLCopyDesc(src, dest)
       PROVE  BornListed'
  BY <1>a, <1>10 DEF MySQLCopyDesc
<1>11. CASE UndefinedBehaviour
  BY <1>a, <1>11 DEF UndefinedBehaviour
<1>12. CASE UNCHANGED vars
  BY <1>a, <1>12 DEF vars
<1> QED
  BY <1>1, <1>2, <1>3, <1>4, <1>5, <1>6, <1>7, <1>8, <1>9, <1>10, <1>11,
     <1>12 DEF Next

LEMMA ListStep == ListInv /\ [Next]_vars => ListInv'
<1> SUFFICES ASSUME ListInv, [Next]_vars PROVE ListInv'
  OBVIOUS
<1>1. TypeOK' /\ BornListed' /\ StmtListsExact' /\ NoStatements'
  BY TypeStep, BornStep, StatementsStep DEF ListInv
<1>2. \A d \in descs' : born'[d] # NoDbc
  BY <1>1, HandlesAssumption DEF TypeOK, BornListed
<1> QED
  BY <1>1, <1>2 DEF ListInv, PooledIsClean, NoStatements

(* SQLDisconnect frees exactly the statements that are alive on the        *)
(* connection, whatever calls were made on the descriptors.                *)
THEOREM StatementListsExact == Spec => []StmtListsExact
<1>1. ListInv => StmtListsExact
  BY DEF ListInv
<1> QED
  BY <1>1, ListInit, ListStep, PTL DEF Spec

(* A connection in the pool carries no statement of its previous user, and *)
(* no explicit descriptor outlives the user its connection was lent to:    *)
(* free_explicit_descriptors finds every one of them, whatever SQLCopyDesc *)
(* has written over its pointer to the connection.                         *)
THEOREM PooledConnectionsClean == Spec => []PooledIsClean
<1>1. ListInv => PooledIsClean
  BY DEF ListInv
<1> QED
  BY <1>1, ListInit, ListStep, PTL DEF Spec

-----------------------------------------------------------------------------
(* Part 2.  Without SQLCopyDesc: descriptor lists, refused calls included. *)

(* Embedded descriptors stay embedded ones of their statement.             *)
DescShape ==
    /\ \A d \in Descs : desc[d].alloc = "USER" /\ desc[d].ref = "APP"
    /\ \A o \in ImpDescs : desc[o].alloc = "AUTO" /\ desc[o].stmt = o[1]

(* A statement never uses a descriptor embedded in another one.            *)
OwnImplicit ==
    \A s \in LiveStmts, t \in DescTypes :
        app[s][t] \in ImpDescs => app[s][t][1] = s

OwnInv == /\ ListInv
          /\ DescShape
          /\ OwnImplicit
          /\ ListedUseIt
          /\ DescListsExact

LEMMA OwnInit == Init => OwnInv
<1> SUFFICES ASSUME Init PROVE OwnInv
  OBVIOUS
<1>1. DescShape
  BY HandlesAssumption DEF Init, DescShape, ExplicitDesc, ImplicitDesc, AllDescs
<1> QED
  BY <1>1, ListInit DEF Init, OwnInv, OwnImplicit, ListedUseIt, DescListsExact,
     LiveStmts

(* What a drop does to the descriptors, field by field.                    *)
LEMMA DropDescsFields ==
    ASSUME TypeOK, DescShape, NEW ss \in SUBSET Stmts
    PROVE  /\ \A d \in Descs :
                 /\ DropDescs(ss)[d].alloc = desc[d].alloc
                 /\ DropDescs(ss)[d].dtype = desc[d].dtype
                 /\ DropDescs(ss)[d].ref = desc[d].ref
                 /\ DropDescs(ss)[d].dbc = desc[d].dbc
                 /\ DropDescs(ss)[d].list =
                      {s \in desc[d].list :
                         ~(s \in ss /\ \E t \in DescTypes : app[s][t] = d)}
           /\ \A o \in ImpDescs : /\ DropDescs(ss)[o].alloc = "AUTO"
                                  /\ DropDescs(ss)[o].stmt = o[1]
<1>1. ASSUME NEW d \in Descs
      PROVE  /\ d \in AllDescs /\ d \notin ImpDescs
             /\ desc[d] \in DescRecord
             /\ desc[d].alloc = "USER"
  BY HandlesAssumption DEF AllDescs, TypeOK, DescShape
<1>2. ASSUME NEW d \in Descs
      PROVE  DropDescs(ss)[d] =
               [desc[d] EXCEPT !.list =
                  {s \in @ : ~(s \in ss /\ \E t \in DescTypes :
                                              app[s][t] = d)}]
  BY <1>1 DEF DropDescs
<1>3. ASSUME NEW r \in DescRecord, NEW l
      PROVE  /\ [r EXCEPT !.list = l].alloc = r.alloc
             /\ [r EXCEPT !.list = l].dtype = r.dtype
             /\ [r EXCEPT !.list = l].ref = r.ref
             /\ [r EXCEPT !.list = l].dbc = r.dbc
             /\ [r EXCEPT !.list = l].list = l
  BY DEF DescRecord
<1>4. ASSUME NEW o \in ImpDescs
      PROVE  DropDescs(ss)[o].alloc = "AUTO" /\ DropDescs(ss)[o].stmt = o[1]
  BY DEF DropDescs, AllDescs, DescShape, ImplicitDesc
<1>5. ASSUME NEW d \in Descs
      PROVE  /\ DropDescs(ss)[d].alloc = desc[d].alloc
             /\ DropDescs(ss)[d].dtype = desc[d].dtype
             /\ DropDescs(ss)[d].ref = desc[d].ref
             /\ DropDescs(ss)[d].dbc = desc[d].dbc
             /\ DropDescs(ss)[d].list =
                  {s \in desc[d].list :
                     ~(s \in ss /\ \E t \in DescTypes : app[s][t] = d)}
  <2> DEFINE l == {s \in desc[d].list :
                     ~(s \in ss /\ \E t \in DescTypes : app[s][t] = d)}
  <2>1. DropDescs(ss)[d] = [desc[d] EXCEPT !.list = l]
    BY <1>1, <1>2
  <2>2. desc[d] \in DescRecord
    BY <1>1
  <2> HIDE DEF l
  <2>3. /\ DropDescs(ss)[d].alloc = desc[d].alloc
        /\ DropDescs(ss)[d].dtype = desc[d].dtype
        /\ DropDescs(ss)[d].ref = desc[d].ref
        /\ DropDescs(ss)[d].dbc = desc[d].dbc
        /\ DropDescs(ss)[d].list = l
    BY <2>1, <2>2, <1>3
  <2> QED
    BY <2>3 DEF l
<1> QED
  BY <1>4, <1>5

LEMMA ImplicitDescFields ==
    ASSUME NEW o, NEW c
    PROVE  ImplicitDesc(o, c).alloc = "AUTO" /\ ImplicitDesc(o, c).stmt = o[1]
BY DEF ImplicitDesc

(* Changing its list leaves the other fields of a descriptor alone.        *)
LEMMA ListExcept ==
    ASSUME NEW r \in DescRecord, NEW l
    PROVE  /\ [r EXCEPT !.list = l].alloc = r.alloc
           /\ [r EXCEPT !.list = l].dtype = r.dtype
           /\ [r EXCEPT !.list = l].ref = r.ref
           /\ [r EXCEPT !.list = l].stmt = r.stmt
           /\ [r EXCEPT !.list = l].dbc = r.dbc
           /\ [r EXCEPT !.list = l].list = l
BY DEF DescRecord

(* Two descriptors that differ in their lists only.                        *)
SameButList(a, b) ==
    /\ a.alloc = b.alloc /\ a.dtype = b.dtype /\ a.ref = b.ref
    /\ a.stmt = b.stmt /\ a.dbc = b.dbc

(* The list operations change the list of one explicit descriptor only.    *)
LEMMA ListRemoveFields ==
    ASSUME NEW ds \in [AllDescs -> DescRecord], NEW p \in AllDescs,
           NEW s \in Stmts, NEW o \in AllDescs
    PROVE  /\ SameButList(stmt_list_remove(ds, p, s)[o], ds[o])
           /\ \A u : u \in stmt_list_remove(ds, p, s)[o].list
                       <=> /\ u \in ds[o].list
                           /\ ~(o = p /\ ds[p].alloc = "USER" /\ u = s)
<1>1. CASE o = p /\ ds[p].alloc = "USER"
  <2>1. stmt_list_remove(ds, p, s)[o] =
          [ds[o] EXCEPT !.list = ds[o].list \ {s}]
    BY <1>1 DEF stmt_list_remove
  <2> QED
    BY <1>1, <2>1, ListExcept DEF SameButList
<1>2. CASE ~(o = p /\ ds[p].alloc = "USER")
  BY <1>2 DEF stmt_list_remove, SameButList
<1> QED
  BY <1>1, <1>2

LEMMA ListAddFields ==
    ASSUME NEW ds \in [AllDescs -> DescRecord], NEW p \in AllDescs,
           NEW s \in Stmts, NEW o \in AllDescs
    PROVE  /\ SameButList(stmt_list_add(ds, p, s)[o], ds[o])
           /\ \A u : u \in stmt_list_add(ds, p, s)[o].list
                       <=> \/ u \in ds[o].list
                           \/ o = p /\ ds[p].alloc = "USER" /\ u = s
<1>1. CASE o = p /\ ds[p].alloc = "USER"
  <2>1. stmt_list_add(ds, p, s)[o] =
          [ds[o] EXCEPT !.list = ds[o].list \cup {s}]
    BY <1>1 DEF stmt_list_add
  <2> QED
    BY <1>1, <2>1, ListExcept DEF SameButList
<1>2. CASE ~(o = p /\ ds[p].alloc = "USER")
  BY <1>2 DEF stmt_list_add, SameButList
<1> QED
  BY <1>1, <1>2

(* The part of the invariant that concerns descriptors.                    *)
DescInv == DescShape /\ OwnImplicit /\ ListedUseIt /\ DescListsExact

LEMMA OwnStep ==
    ASSUME MaxCopies = 0
    PROVE  OwnInv /\ [Next]_vars => OwnInv'
<1> SUFFICES ASSUME OwnInv, [Next]_vars PROVE DescInv'
  BY ListStep DEF OwnInv, DescInv
<1> USE HandlesAssumption
<1>0. /\ TypeOK /\ StmtListsExact /\ DescInv
      /\ DescShape /\ OwnImplicit /\ ListedUseIt /\ DescListsExact
  BY DEF OwnInv, ListInv, DescInv
<1>t. TypeOK'
  BY <1>0, TypeStep
<1>a. ASSUME UNCHANGED <<dbcs, stmtDbc, app, descs, desc, desc_list>>
      PROVE  DescInv'
  BY <1>0, <1>a DEF DescInv, DescShape, OwnImplicit, ListedUseIt,
     DescListsExact, LiveStmts
<1>b. ASSUME UNCHANGED <<dbcs, descs, desc_list>>,
             \A d \in Descs : desc'[d].dbc = desc[d].dbc
      PROVE  DescListsExact'
  BY <1>0, <1>b DEF DescListsExact, TypeOK
<1>d. ASSUME NEW ss \in SUBSET Stmts, desc' = DropDescs(ss), DropStmts(ss),
             UNCHANGED <<dbcs, descs, desc_list>>
      PROVE  DescInv'
  <2>3. DescShape'
    BY <1>0, <1>d, DropDescsFields DEF DescShape
  <2>4. OwnImplicit'
    BY <1>0, <1>d DEF OwnImplicit, DropStmts, LiveStmts
  <2>5. ListedUseIt'
    BY <1>0, <1>d, DropDescsFields
    DEF ListedUseIt, DropStmts, LiveStmts, TypeOK
  <2>6. DescListsExact'
    BY <1>0, <1>b, <1>d, DropDescsFields
  <2> QED
    BY <2>3, <2>4, <2>5, <2>6 DEF DescInv
<1>1. ASSUME NEW c \in Dbcs, my_SQLAllocConnect(c) PROVE DescInv'
  BY <1>0, <1>1 DEF my_SQLAllocConnect, TypeOK, DescInv, DescShape,
     OwnImplicit, ListedUseIt, DescListsExact, LiveStmts
<1>2. ASSUME NEW c \in Dbcs, Connect(c) PROVE DescInv'
  BY <1>a, <1>2 DEF Connect
<1>3. ASSUME NEW c \in Dbcs, SQLDisconnect(c) PROVE DescInv'
  <2>1. stmt_list[c] \in SUBSET Stmts
    BY <1>0 DEF TypeOK
  <2> QED
    BY <1>3, <1>d, <2>1 DEF SQLDisconnect
<1>4. ASSUME NEW c \in Dbcs, reset_connection(c) PROVE DescInv'
  <2> DEFINE ss == stmt_list[c]
  <2>1. ss \in SUBSET Stmts
    BY <1>0 DEF TypeOK
  <2>2. desc' = ForgetDescs(DropDescs(ss), desc_list[c]) /\ DropStmts(ss)
    BY <1>4 DEF reset_connection
  <2> HIDE DEF ss
  <2>a. /\ \A d \in Descs : d \notin desc_list[c]
                              => desc'[d] = DropDescs(ss)[d]
        /\ \A d \in Descs : d \in desc_list[c]
                              => desc'[d] = ExplicitDesc(NoDbc)
        /\ \A o \in ImpDescs : desc'[o] = DropDescs(ss)[o]
    BY <1>0, <2>2 DEF ForgetDescs, AllDescs, TypeOK
  <2>3. DescShape'
    BY <1>0, <2>1, <2>a, DropDescsFields DEF DescShape, ExplicitDesc
  <2>4. OwnImplicit'
    BY <1>0, <2>2 DEF OwnImplicit, DropStmts, LiveStmts
  <2>b. /\ descs' = descs \ desc_list[c] /\ dbcs' = dbcs
        /\ desc_list' = [desc_list EXCEPT ![c] = {}]
        /\ descs \subseteq Descs /\ stmtDbc \in [Stmts -> Dbcs \cup {NoDbc}]
        /\ app \in [Stmts -> [DescTypes -> AllDescs]]
        /\ desc_list \in [Dbcs -> SUBSET Descs] /\ dbcs \subseteq Dbcs
    BY <1>0, <1>4 DEF reset_connection, free_explicit_descriptors, TypeOK
  <2>5. ListedUseIt'
    <3> SUFFICES ASSUME NEW d \in descs', NEW s \in desc'[d].list
                 PROVE  /\ s \in LiveStmts'
                        /\ desc'[d].dtype \in DescTypes
                        /\ app'[s][desc'[d].dtype] = d
      BY DEF ListedUseIt
    <3>1. /\ d \in Descs /\ d \in descs /\ desc'[d] = DropDescs(ss)[d]
      BY <2>a, <2>b
    <3>2. /\ s \in desc[d].list /\ desc'[d].dtype = desc[d].dtype
          /\ ~(s \in ss /\ \E t \in DescTypes : app[s][t] = d)
      BY <1>0, <2>1, <3>1, DropDescsFields
    <3>3. /\ s \in LiveStmts /\ desc[d].dtype \in DescTypes
          /\ app[s][desc[d].dtype] = d
      BY <1>0, <3>1, <3>2 DEF ListedUseIt
    <3> QED
      BY <2>2, <2>b, <3>2, <3>3 DEF DropStmts, LiveStmts
  <2>6. DescListsExact'
    <3>1. \A d \in descs' : /\ d \in Descs /\ d \in descs
                             /\ desc'[d].dbc = desc[d].dbc
      BY <1>0, <2>1, <2>a, <2>b, DropDescsFields
    <3>2. \A b \in dbcs : desc_list[b] = {d \in descs : desc[d].dbc = b}
      BY <1>0 DEF DescListsExact
    <3>3. c \in dbcs
      BY <1>0, <1>4 DEF reset_connection, TypeOK
    <3>4. ASSUME NEW b \in dbcs
          PROVE  desc_list'[b] = {d \in descs' : desc'[d].dbc = b}
      BY <2>b, <3>1, <3>2, <3>3
    <3>5. \A d \in descs' : desc'[d].dbc \in dbcs
      BY <1>0, <3>1 DEF DescListsExact
    <3> QED
      BY <2>b, <3>4, <3>5 DEF DescListsExact
  <2> QED
    BY <2>3, <2>4, <2>5, <2>6 DEF DescInv
<1>5. ASSUME NEW c \in Dbcs, wakeup_connection(c) PROVE DescInv'
  BY <1>a, <1>5 DEF wakeup_connection
<1>6. ASSUME NEW c \in Dbcs, my_SQLFreeConnect(c) PROVE DescInv'
  <2>1. \A o \in AllDescs : desc'[o] = IF o \in desc_list[c]
                                       THEN ExplicitDesc(NoDbc) ELSE desc[o]
    BY <1>6 DEF my_SQLFreeConnect, ForgetDescs
  <2>2. desc_list[c] \subseteq Descs /\ Descs \subseteq AllDescs
        /\ ImpDescs \subseteq AllDescs
    BY <1>0 DEF TypeOK, AllDescs
  <2>3. DescShape'
    BY <1>0, <2>1, <2>2 DEF DescShape, ExplicitDesc
  <2>4. OwnImplicit'
    BY <1>0, <1>6 DEF my_SQLFreeConnect, OwnImplicit, LiveStmts
  <2>5. ListedUseIt'
    BY <1>0, <1>6, <2>1, <2>2 DEF my_SQLFreeConnect, ListedUseIt, LiveStmts,
       free_explicit_descriptors, TypeOK
  <2>6. DescListsExact'
    BY <1>0, <1>6, <2>1, <2>2 DEF my_SQLFreeConnect, DescListsExact, TypeOK,
       free_explicit_descriptors
  <2> QED
    BY <2>3, <2>4, <2>5, <2>6 DEF DescInv
<1>7. ASSUME NEW c \in Dbcs, NEW s \in Stmts, my_SQLAllocStmt(c, s)
      PROVE  DescInv'
  <2>1. /\ \A d \in Descs : desc'[d] = desc[d]
        /\ \A o \in ImpDescs : desc'[o] = IF o[1] = s THEN ImplicitDesc(o, c)
                                                     ELSE desc[o]
    BY <1>7 DEF my_SQLAllocStmt, AllDescs
  <2>2. DescShape'
    <3>1. ASSUME NEW o \in ImpDescs
          PROVE  desc'[o].alloc = "AUTO" /\ desc'[o].stmt = o[1]
      <4>1. CASE o[1] = s
        BY <2>1, <4>1, ImplicitDescFields
      <4>2. CASE o[1] # s
        BY <1>0, <2>1, <4>2 DEF DescShape
      <4> QED
        BY <4>1, <4>2
    <3> QED
      BY <1>0, <2>1, <3>1 DEF DescShape
  <2>3. OwnImplicit'
    BY <1>0, <1>7 DEF my_SQLAllocStmt, OwnImplicit, LiveStmts, ImpApp, TypeOK
  <2>4. ListedUseIt'
    <3>1. /\ descs' = descs /\ descs \subseteq Descs
          /\ \A u \in LiveStmts : u \in LiveStmts' /\ app'[u] = app[u]
      BY <1>0, <1>7 DEF my_SQLAllocStmt, LiveStmts, TypeOK
    <3> QED
      BY <1>0, <2>1, <3>1 DEF ListedUseIt
  <2>5. DescListsExact'
    <3>1. /\ descs' = descs /\ descs \subseteq Descs /\ dbcs' = dbcs
          /\ desc_list' = desc_list
      BY <1>0, <1>7 DEF my_SQLAllocStmt, TypeOK
    <3> QED
      BY <1>0, <2>1, <3>1 DEF DescListsExact
  <2> QED
    BY <2>2, <2>3, <2>4, <2>5 DEF DescInv
<1>8. ASSUME NEW s \in Stmts, my_SQLFreeStmt(s) PROVE DescInv'
  BY <1>8, <1>d DEF my_SQLFreeStmt
<1>9. ASSUME NEW c \in Dbcs, NEW d \in Descs, my_SQLAllocDesc(c, d)
      PROVE  DescInv'
  <2>1. /\ desc'[d] = ExplicitDesc(c)
        /\ \A o \in AllDescs : o # d => desc'[o] = desc[o]
        /\ Descs \subseteq AllDescs /\ ImpDescs \subseteq AllDescs
    BY <1>0, <1>9 DEF my_SQLAllocDesc, AllDescs, TypeOK
  <2>2. DescShape'
    BY <1>0, <2>1 DEF DescShape, ExplicitDesc
  <2>3. OwnImplicit'
    BY <1>0, <1>9 DEF my_SQLAllocDesc, OwnImplicit, LiveStmts
  <2>4. ListedUseIt'
    BY <1>0, <1>9, <2>1 DEF my_SQLAllocDesc, ListedUseIt, LiveStmts,
       ExplicitDesc, TypeOK
  <2>5. DescListsExact'
    BY <1>0, <1>9, <2>1 DEF my_SQLAllocDesc, DescListsExact, ExplicitDesc,
       TypeOK
  <2> QED
    BY <2>2, <2>3, <2>4, <2>5 DEF DescInv
<1>10. ASSUME NEW s \in Stmts, NEW t \in DescTypes, NEW o \in AllDescs,
              SetAppDesc(s, t, o)
       PROVE  DescInv'
  <2> DEFINE p == app[s][t]
             r == stmt_list_remove(desc, p, s)
             a == stmt_list_add(r, o, s)
  <2>1. p \in AllDescs
    BY <1>0 DEF TypeOK
  <2>2. r \in [AllDescs -> DescRecord]
    BY <1>0, <2>1, ListOpsType DEF TypeOK
  <2>3. a \in [AllDescs -> DescRecord]
    BY <2>2, ListOpsType
  <2>4. \A x \in AllDescs :
          /\ SameButList(a[x], desc[x])
          /\ \A u : u \in a[x].list
                      <=> \/ /\ u \in desc[x].list
                             /\ ~(x = p /\ desc[p].alloc = "USER" /\ u = s)
                          \/ x = o /\ desc[o].alloc = "USER" /\ u = s
    <3> TAKE x \in AllDescs
    <3>1. /\ SameButList(r[x], desc[x]) /\ SameButList(r[o], desc[o])
          /\ \A u : u \in r[x].list
                      <=> /\ u \in desc[x].list
                          /\ ~(x = p /\ desc[p].alloc = "USER" /\ u = s)
      BY <1>0, <2>1, ListRemoveFields DEF TypeOK
    <3> HIDE DEF r
    <3>2. /\ SameButList(a[x], r[x])
          /\ \A u : u \in a[x].list
                      <=> \/ u \in r[x].list
                          \/ x = o /\ r[o].alloc = "USER" /\ u = s
      BY <2>2, ListAddFields
    <3> HIDE DEF a
    <3> QED
      BY <3>1, <3>2 DEF SameButList
  <2>5. desc' = [a EXCEPT ![o].dtype = t]
    BY <1>10 DEF SetAppDesc
  <2> HIDE DEF a, r
  <2>6. \A x \in AllDescs :
          /\ desc'[x].alloc = desc[x].alloc
          /\ desc'[x].dtype = IF x = o THEN t ELSE desc[x].dtype
          /\ desc'[x].ref = desc[x].ref /\ desc'[x].stmt = desc[x].stmt
          /\ desc'[x].dbc = desc[x].dbc
          /\ desc'[x].list = a[x].list
    <3> TAKE x \in AllDescs
    <3>1. a[x] \in DescRecord
      BY <2>3
    <3>2. CASE x # o
      BY <2>3, <2>4, <2>5, <3>2 DEF SameButList
    <3>3. CASE x = o
      <4>1. desc'[x] = [a[x] EXCEPT !.dtype = t]
        BY <2>3, <2>5, <3>3
      <4>2. /\ desc'[x].alloc = a[x].alloc /\ desc'[x].dtype = t
            /\ desc'[x].ref = a[x].ref /\ desc'[x].stmt = a[x].stmt
            /\ desc'[x].dbc = a[x].dbc /\ desc'[x].list = a[x].list
        BY <3>1, <4>1 DEF DescRecord
      <4> QED
        BY <2>4, <3>3, <4>2 DEF SameButList
    <3> QED
      BY <3>2, <3>3
  <2>7. Descs \subseteq AllDescs /\ ImpDescs \subseteq AllDescs
    BY DEF AllDescs
  <2>8. DescShape'
    BY <1>0, <2>6, <2>7 DEF DescShape
  <2>9. OwnImplicit'
    <3>1. o \in ImpDescs => o[1] = s
      BY <1>0, <1>10 DEF SetAppDesc, Refused, DescShape
    <3> QED
      BY <1>0, <1>10, <3>1 DEF SetAppDesc, OwnImplicit, LiveStmts, TypeOK
  <2>10. ListedUseIt'
    <3> SUFFICES ASSUME NEW d \in descs', NEW u \in desc'[d].list
                 PROVE  /\ u \in LiveStmts'
                        /\ desc'[d].dtype \in DescTypes
                        /\ app'[u][desc'[d].dtype] = d
      BY DEF ListedUseIt
    <3>1. d \in descs /\ d \in Descs /\ d \in AllDescs /\ LiveStmts' = LiveStmts
      BY <1>0, <1>10, <2>7 DEF SetAppDesc, TypeOK, LiveStmts
    <3>2. /\ app' = [app EXCEPT ![s][t] = o] /\ s \in LiveStmts
          /\ desc[o].dtype \in {"UNKNOWN", t} /\ "UNKNOWN" \notin DescTypes
      BY <1>10 DEF SetAppDesc, Refused, DescTypes
    <3>3. desc[d].alloc = "USER"
      BY <1>0, <3>1 DEF DescShape
    <3>4. CASE d = o
      <4>1. u = s \/ u \in desc[d].list
        <5>1. u \in a[d].list
          BY <2>6, <3>1
        <5> QED
          BY <2>4, <3>1, <5>1
      <4>2. desc'[d].dtype = t
        BY <2>6, <3>1, <3>4
      <4>3. CASE u = s
        BY <1>0, <3>1, <3>2, <3>4, <4>2, <4>3 DEF TypeOK
      <4>4. CASE u # s
        BY <1>0, <3>1, <3>2, <3>4, <4>1, <4>2, <4>4 DEF TypeOK, ListedUseIt
      <4> QED
        BY <4>3, <4>4
    <3>5. CASE d # o
      <4>1. u \in desc[d].list /\ (d = p => u # s)
        BY <2>4, <2>6, <3>1, <3>3, <3>5
      <4>2. /\ u \in LiveStmts /\ desc[d].dtype \in DescTypes
            /\ app[u][desc[d].dtype] = d
        BY <1>0, <3>1, <4>1 DEF ListedUseIt
      <4>3. desc'[d].dtype = desc[d].dtype
        BY <2>6, <3>1, <3>5
      <4>4. ~(u = s /\ desc[d].dtype = t)
        BY <4>1, <4>2
      <4> QED
        BY <1>0, <3>1, <3>2, <4>2, <4>3, <4>4 DEF TypeOK, LiveStmts
    <3> QED
      BY <3>4, <3>5
  <2>11. DescListsExact'
    BY <1>b, <1>10, <2>6, <2>7 DEF SetAppDesc
  <2> QED
    BY <2>8, <2>9, <2>10, <2>11 DEF DescInv
<1>11. ASSUME NEW s \in Stmts, NEW t \in DescTypes,
              UNCHANGED <<dbcs, stmtDbc, descs, desc_list>>,
              desc' = stmt_list_remove(desc, app[s][t], s),
              app' = app \/ app' = [app EXCEPT ![s][t] = ImpApp(s, t)]
       PROVE  DescInv'
  <2> DEFINE p == app[s][t]
  <2>1. p \in AllDescs
    BY <1>0 DEF TypeOK
  <2>2. \A x \in AllDescs :
          /\ SameButList(desc'[x], desc[x])
          /\ \A u : u \in desc'[x].list
                      <=> /\ u \in desc[x].list
                          /\ ~(x = p /\ desc[p].alloc = "USER" /\ u = s)
    BY <1>0, <1>11, <2>1, ListRemoveFields DEF TypeOK
  <2>3. Descs \subseteq AllDescs /\ ImpDescs \subseteq AllDescs
    BY DEF AllDescs
  <2>4. DescShape'
    BY <1>0, <2>2, <2>3 DEF DescShape, SameButList
  <2>5. OwnImplicit'
    BY <1>0, <1>11 DEF OwnImplicit, LiveStmts, TypeOK, ImpApp
  <2>6. ListedUseIt'
    <3> SUFFICES ASSUME NEW d \in descs', NEW u \in desc'[d].list
                 PROVE  /\ u \in LiveStmts'
                        /\ desc'[d].dtype \in DescTypes
                        /\ app'[u][desc'[d].dtype] = d
      BY DEF ListedUseIt
    <3>1. d \in descs /\ d \in Descs /\ d \in AllDescs /\ LiveStmts' = LiveStmts
      BY <1>0, <1>11, <2>3 DEF TypeOK, LiveStmts
    <3>2. u \in desc[d].list /\ (d = p => u # s)
      BY <1>0, <2>2, <3>1 DEF DescShape
    <3>3. /\ u \in LiveStmts /\ desc[d].dtype \in DescTypes
          /\ app[u][desc[d].dtype] = d
      BY <1>0, <3>1, <3>2 DEF ListedUseIt
    <3>4. ~(u = s /\ desc[d].dtype = t)
      BY <3>2, <3>3
    <3>5. desc'[d].dtype = desc[d].dtype /\ u \in Stmts
      BY <2>2, <3>1, <3>3 DEF LiveStmts, SameButList
    <3>6. app'[u][desc[d].dtype] = app[u][desc[d].dtype]
      BY <1>0, <1>11, <3>3, <3>4, <3>5 DEF TypeOK
    <3> QED
      BY <3>1, <3>3, <3>5, <3>6
  <2>7. DescListsExact'
    BY <1>b, <1>11, <2>2, <2>3 DEF SameButList
  <2> QED
    BY <2>4, <2>5, <2>6, <2>7 DEF DescInv
<1>12. ASSUME NEW o \in AllDescs, my_SQLFreeDesc(o) PROVE DescInv'
  <2>1. /\ o \in Descs /\ o \in descs
        /\ \A x \in AllDescs : x # o => desc'[x] = desc[x]
        /\ desc'[o] = ExplicitDesc(NoDbc)
    BY <1>0, <1>12 DEF my_SQLFreeDesc, FreeDescIsSafe, LiveDesc, TypeOK
  <2>2. Descs \subseteq AllDescs /\ ImpDescs \subseteq AllDescs
    BY DEF AllDescs
  <2>3. DescShape'
    BY <1>0, <2>1, <2>2 DEF DescShape, ExplicitDesc
  <2>4. OwnImplicit'
    BY <1>0, <1>12 DEF my_SQLFreeDesc, ResetUsers, OwnImplicit, LiveStmts,
       ImpApp, TypeOK
  <2>5. ListedUseIt'
    <3> SUFFICES ASSUME NEW d \in descs', NEW u \in desc'[d].list
                 PROVE  /\ u \in LiveStmts'
                        /\ desc'[d].dtype \in DescTypes
                        /\ app'[u][desc'[d].dtype] = d
      BY DEF ListedUseIt
    <3>1. /\ d \in descs /\ d # o /\ d \in AllDescs
          /\ LiveStmts' = LiveStmts /\ desc'[d] = desc[d]
      BY <1>0, <1>12, <2>1, <2>2 DEF my_SQLFreeDesc, TypeOK, LiveStmts
    <3>2. /\ u \in LiveStmts /\ desc[d].dtype \in DescTypes
          /\ app[u][desc[d].dtype] = d
      BY <1>0, <3>1 DEF ListedUseIt
    <3>3. u \in desc[o].list => desc[o].dtype # desc[d].dtype
      BY <1>0, <2>1, <3>1, <3>2 DEF ListedUseIt
    <3> QED
      BY <1>0, <1>12, <3>1, <3>2, <3>3
      DEF my_SQLFreeDesc, ResetUsers, TypeOK, LiveStmts
  <2>6. DescListsExact'
    BY <1>0, <1>12, <2>1, <2>2 DEF my_SQLFreeDesc, remove_desc,
       DescListsExact, TypeOK
  <2> QED
    BY <2>3, <2>4, <2>5, <2>6 DEF DescInv
<1>13. ASSUME NEW src \in AllDescs, NEW dest \in AllDescs
       PROVE  ~MySQLCopyDesc(src, dest)
  BY <1>0 DEF MySQLCopyDesc, TypeOK
<1>14. CASE UndefinedBehaviour
  BY <1>a, <1>14 DEF UndefinedBehaviour
<1>15. CASE UNCHANGED vars
  BY <1>a, <1>15 DEF vars
<1>16. ASSUME NEW s \in Stmts, NEW t \in DescTypes, NEW o \in AllDescs,
              SetAppDescRefused(s, t, o)
       PROVE  DescInv'
  BY <1>11, <1>16 DEF SetAppDescRefused
<1>17. ASSUME NEW s \in Stmts, NEW t \in DescTypes, SetAppDescNull(s, t)
       PROVE  DescInv'
  BY <1>11, <1>17 DEF SetAppDescNull
<1> QED
  BY <1>1, <1>2, <1>3, <1>4, <1>5, <1>6, <1>7, <1>8, <1>9, <1>10, <1>12,
     <1>13, <1>14, <1>15, <1>16, <1>17 DEF Next

(* Without SQLCopyDesc, whatever an explicit descriptor lists exists and   *)
(* uses it, even after refused SQLSetStmtAttr calls.                       *)
THEOREM ListedStatementsUseIt ==
    ASSUME MaxCopies = 0 PROVE Spec => []ListedUseIt
<1>1. OwnInv => ListedUseIt
  BY DEF OwnInv
<1> QED
  BY <1>1, OwnInit, OwnStep, PTL DEF Spec

(* Without SQLCopyDesc, ~DBC and reset_connection delete exactly the       *)
(* explicit descriptors of the connection.                                 *)
THEOREM DescriptorListsExact ==
    ASSUME MaxCopies = 0 PROVE Spec => []DescListsExact
<1>1. OwnInv => DescListsExact
  BY DEF OwnInv
<1> QED
  BY <1>1, OwnInit, OwnStep, PTL DEF Spec

-----------------------------------------------------------------------------
(* Part 3.  Without refused calls either: no dangling pointer.             *)

UseInv == UsersAreListed /\ AppDescsAlive /\ NoBadDeref

CleanInv == OwnInv /\ UseInv

LEMMA CleanInit == Init => CleanInv
<1> SUFFICES ASSUME Init PROVE CleanInv
  OBVIOUS
<1>1. LiveStmts = {}
  BY DEF Init, LiveStmts
<1> QED
  BY <1>1, OwnInit DEF Init, CleanInv, UseInv, UsersAreListed, AppDescsAlive,
     NoBadDeref

(* No handler can meet a freed object in a state of the invariant.         *)
LEMMA NoUndefinedBehaviour ==
    ASSUME MaxCopies = 0, CleanInv PROVE ~UndefinedBehaviour
<1> USE HandlesAssumption
<1>0. /\ TypeOK /\ StmtListsExact /\ DescShape /\ OwnImplicit /\ ListedUseIt
      /\ DescListsExact /\ AppDescsAlive
  BY DEF CleanInv, OwnInv, ListInv, UseInv
<1>1. ASSUME NEW c \in connected PROVE DropIsSafe(stmt_list[c])
  <2>1. stmt_list[c] = StmtsOf(c) /\ c \in Dbcs
    BY <1>0 DEF StmtListsExact, TypeOK
  <2>2. stmt_list[c] \subseteq LiveStmts
    BY <2>1 DEF StmtsOf, LiveStmts
  <2> QED
    BY <1>0, <2>2 DEF DropIsSafe, AppDescsAlive, OwnImplicit
<1>2. ASSUME NEW c \in dbcs PROVE desc_list[c] \subseteq descs
  BY <1>0 DEF DescListsExact
<1>3. ASSUME NEW o \in AllDescs, LiveDesc(o), desc[o].alloc = "USER"
      PROVE  FreeDescIsSafe(o)
  <2>1. o \in Descs
    BY <1>0, <1>3 DEF DescShape, AllDescs
  <2>2. o \in descs
    BY <1>3, <2>1 DEF LiveDesc
  <2> QED
    BY <1>0, <2>1, <2>2 DEF FreeDescIsSafe, DescListsExact, ListedUseIt
<1>4. ~(copies < MaxCopies)
  BY <1>0 DEF TypeOK
<1> QED
  BY <1>1, <1>2, <1>3, <1>4 DEF UndefinedBehaviour

LEMMA CleanStep ==
    ASSUME MaxCopies = 0, ~RejectedCalls
    PROVE  CleanInv /\ [Next]_vars => CleanInv'
<1> SUFFICES ASSUME CleanInv, [Next]_vars PROVE UseInv'
  BY OwnStep DEF CleanInv
<1> USE HandlesAssumption
<1>0. /\ TypeOK /\ StmtListsExact /\ DescShape /\ OwnImplicit /\ ListedUseIt
      /\ DescListsExact /\ UsersAreListed /\ AppDescsAlive /\ NoBadDeref
  BY DEF CleanInv, OwnInv, ListInv, UseInv
<1>s. /\ Descs \subseteq AllDescs /\ ImpDescs \subseteq AllDescs
      /\ Descs \cap ImpDescs = {}
  BY DEF AllDescs
<1>l. \A o \in AllDescs : LiveDesc(o) <=> \/ o \in descs
                                          \/ o \in ImpDescs /\ o[1] \in LiveStmts
  BY <1>0 DEF LiveDesc, AllDescs, TypeOK
<1>m. \A o \in AllDescs : LiveDesc(o)' <=> \/ o \in descs'
                                           \/ o \in ImpDescs /\ o[1] \in LiveStmts'
  <2>1. TypeOK'
    BY <1>0, TypeStep
  <2> QED
    BY <2>1 DEF LiveDesc, AllDescs, TypeOK
<1>n. ASSUME \A s \in LiveStmts', t \in DescTypes :
                \/ app'[s][t] \in descs'
                \/ app'[s][t] \in ImpDescs /\ app'[s][t][1] \in LiveStmts'
      PROVE  AppDescsAlive'
  <2>1. TypeOK'
    BY <1>0, TypeStep
  <2>2. \A s \in LiveStmts', t \in DescTypes : app'[s][t] \in AllDescs
    BY <2>1 DEF TypeOK, LiveStmts
  <2> QED
    BY <1>m, <1>n, <2>2 DEF AppDescsAlive
<1>a. ASSUME UNCHANGED <<stmtDbc, app, descs, desc, badDeref>> PROVE UseInv'
  BY <1>0, <1>a DEF UseInv, UsersAreListed, AppDescsAlive, NoBadDeref, LiveStmts,
     LiveDesc
(* Statements are dropped, and with them explicit descriptors that no      *)
(* remaining statement uses.                                               *)
<1>d. ASSUME NEW ss \in SUBSET Stmts, NEW gone \in SUBSET Descs,
             DropStmts(ss), descs' = descs \ gone, badDeref' = badDeref,
             \A d \in Descs : d \notin gone => desc'[d] = DropDescs(ss)[d],
             \A s \in LiveStmts, t \in DescTypes :
                s \notin ss => app[s][t] \notin gone
      PROVE  UseInv'
  <2>1. \A s \in LiveStmts' : /\ s \in LiveStmts /\ s \notin ss
                              /\ app'[s] = app[s] /\ stmtDbc'[s] = stmtDbc[s]
    BY <1>0, <1>d DEF DropStmts, LiveStmts, TypeOK
  <2>2. \A s \in LiveStmts : s \notin ss => s \in LiveStmts'
    BY <1>0, <1>d DEF DropStmts, LiveStmts, TypeOK
  <2>3. UsersAreListed'
    <3> SUFFICES ASSUME NEW s \in LiveStmts', NEW t \in DescTypes,
                        app'[s][t] \in Descs
                 PROVE  /\ s \in desc'[app'[s][t]].list
                        /\ desc'[app'[s][t]].dtype = t
                        /\ desc'[app'[s][t]].dbc = stmtDbc'[s]
      BY DEF UsersAreListed
    <3> DEFINE d == app[s][t]
    <3>1. /\ app'[s][t] = d /\ s \in LiveStmts /\ s \notin ss /\ d \in Descs
          /\ stmtDbc'[s] = stmtDbc[s]
      BY <2>1
    <3>2. desc'[d] = DropDescs(ss)[d]
      BY <1>d, <3>1
    <3>3. s \in desc[d].list /\ desc[d].dtype = t /\ desc[d].dbc = stmtDbc[s]
      BY <1>0, <3>1 DEF UsersAreListed
    <3> HIDE DEF d
    <3>4. /\ desc'[d].dtype = desc[d].dtype /\ desc'[d].dbc = desc[d].dbc
          /\ s \in desc'[d].list
      BY <1>0, <3>1, <3>2, <3>3, DropDescsFields
    <3> QED
      BY <3>1, <3>3, <3>4
  <2>4. AppDescsAlive'
    <3> SUFFICES ASSUME NEW s \in LiveStmts', NEW t \in DescTypes
                 PROVE  \/ app'[s][t] \in descs'
                        \/ /\ app'[s][t] \in ImpDescs
                           /\ app'[s][t][1] \in LiveStmts'
      BY <1>n
    <3>1. /\ s \in LiveStmts /\ s \notin ss /\ app'[s][t] = app[s][t]
          /\ app[s][t] \in AllDescs
      BY <1>0, <2>1 DEF TypeOK, LiveStmts
    <3>2. LiveDesc(app[s][t])
      BY <1>0, <3>1 DEF AppDescsAlive
    <3>3. CASE app[s][t] \in ImpDescs
      <4>1. app[s][t][1] = s
        BY <1>0, <3>1, <3>3 DEF OwnImplicit
      <4> QED
        BY <1>m, <3>1, <3>3, <4>1
    <3>4. CASE app[s][t] \in Descs
      <4>1. app[s][t] \in descs /\ app[s][t] \notin gone
        BY <1>d, <1>l, <1>s, <3>1, <3>2, <3>4
      <4> QED
        BY <1>d, <1>m, <3>1, <4>1
    <3> QED
      BY <3>1, <3>3, <3>4 DEF AllDescs
  <2> QED
    BY <1>0, <1>d, <2>3, <2>4 DEF UseInv, NoBadDeref
<1>1. ASSUME NEW c \in Dbcs, my_SQLAllocConnect(c) \/ Connect(c)
                             \/ wakeup_connection(c)
      PROVE  UseInv'
  BY <1>a, <1>1 DEF my_SQLAllocConnect, Connect, wakeup_connection
<1>3. ASSUME NEW c \in Dbcs, SQLDisconnect(c) PROVE UseInv'
  <2>1. stmt_list[c] \in SUBSET Stmts /\ {} \in SUBSET Descs
        /\ descs \ {} = descs
    BY <1>0 DEF TypeOK
  <2> QED
    BY <1>3, <1>d, <2>1 DEF SQLDisconnect
<1>4. ASSUME NEW c \in Dbcs, reset_connection(c) PROVE UseInv'
  <2>1. /\ stmt_list[c] \in SUBSET Stmts /\ desc_list[c] \in SUBSET Descs
        /\ DropStmts(stmt_list[c]) /\ descs' = descs \ desc_list[c]
        /\ badDeref' = badDeref
        /\ stmt_list[c] = StmtsOf(c)
    BY <1>0, <1>4 DEF TypeOK, reset_connection, StmtListsExact,
       free_explicit_descriptors
  <2>2. \A d \in Descs : d \notin desc_list[c]
                           => desc'[d] = DropDescs(stmt_list[c])[d]
    BY <1>4, <1>s DEF reset_connection, ForgetDescs
  <2>3. ASSUME NEW s \in LiveStmts, NEW t \in DescTypes,
               s \notin stmt_list[c], app[s][t] \in desc_list[c]
        PROVE  FALSE
    <3>1. desc[app[s][t]].dbc = c /\ app[s][t] \in Descs
      BY <1>0, <1>4, <2>1, <2>3 DEF DescListsExact, reset_connection, TypeOK
    <3>2. stmtDbc[s] = c
      BY <1>0, <3>1 DEF UsersAreListed
    <3> QED
      BY <2>1, <2>3, <3>2 DEF StmtsOf, LiveStmts
  <2> QED
    BY <1>d, <2>1, <2>2, <2>3
<1>6. ASSUME NEW c \in Dbcs, my_SQLFreeConnect(c) PROVE UseInv'
  <2>1. /\ \A d \in Descs : d \notin desc_list[c] => desc'[d] = desc[d]
        /\ c \in dbcs /\ c \notin connected
    BY <1>6, <1>s DEF my_SQLFreeConnect, ForgetDescs
  <2>2. ASSUME NEW s \in LiveStmts, NEW t \in DescTypes, app[s][t] \in Descs
        PROVE  app[s][t] \notin desc_list[c]
    <3>1. desc[app[s][t]].dbc \in connected
      BY <1>0, <2>2 DEF UsersAreListed, StmtListsExact
    <3> QED
      BY <1>0, <2>1, <3>1 DEF DescListsExact
  <2>3. LiveStmts' = LiveStmts /\ app' = app /\ stmtDbc' = stmtDbc
        /\ descs' = descs \ desc_list[c] /\ badDeref' = badDeref
    BY <1>6 DEF my_SQLFreeConnect, LiveStmts, free_explicit_descriptors
  <2>4. UsersAreListed'
    BY <1>0, <2>1, <2>2, <2>3 DEF UsersAreListed
  <2>5. AppDescsAlive'
    <3> SUFFICES ASSUME NEW s \in LiveStmts, NEW t \in DescTypes
                 PROVE  LiveDesc(app[s][t])'
      BY <2>3 DEF AppDescsAlive
    <3>1. app[s][t] \in AllDescs /\ LiveDesc(app[s][t])
      BY <1>0 DEF TypeOK, AppDescsAlive, LiveStmts
    <3>2. app[s][t] \in descs => app[s][t] \in descs'
      BY <1>0, <2>2, <2>3 DEF TypeOK
    <3> QED
      BY <1>l, <1>m, <2>3, <3>1, <3>2
  <2> QED
    BY <1>0, <2>3, <2>4, <2>5 DEF UseInv, NoBadDeref
<1>7. ASSUME NEW c \in Dbcs, NEW s \in Stmts, my_SQLAllocStmt(c, s)
      PROVE  UseInv'
  <2>1. /\ \A d \in Descs : desc'[d] = desc[d]
        /\ LiveStmts' = LiveStmts \cup {s} /\ s \notin LiveStmts
        /\ \A u \in LiveStmts : app'[u] = app[u] /\ stmtDbc'[u] = stmtDbc[u]
        /\ \A t \in DescTypes : app'[s][t] = ImpApp(s, t)
        /\ descs' = descs /\ badDeref' = badDeref
    BY <1>0, <1>7, <1>s DEF my_SQLAllocStmt, LiveStmts, TypeOK
  <2>2. \A t \in DescTypes : ImpApp(s, t) \in ImpDescs /\ ImpApp(s, t)[1] = s
    BY ImpAppType DEF ImpApp
  <2>3. UsersAreListed'
    BY <1>0, <1>s, <2>1, <2>2 DEF UsersAreListed
  <2>4. AppDescsAlive'
    <3> SUFFICES ASSUME NEW u \in LiveStmts', NEW t \in DescTypes
                 PROVE  \/ app'[u][t] \in descs'
                        \/ /\ app'[u][t] \in ImpDescs
                           /\ app'[u][t][1] \in LiveStmts'
      BY <1>n
    <3>1. CASE u = s
      BY <1>m, <1>s, <2>1, <2>2, <3>1
    <3>2. CASE u # s
      <4>1. /\ u \in LiveStmts /\ app'[u][t] = app[u][t]
            /\ app[u][t] \in AllDescs /\ LiveDesc(app[u][t])
        BY <1>0, <2>1, <3>2 DEF TypeOK, AppDescsAlive, LiveStmts
      <4> QED
        BY <1>l, <1>m, <2>1, <4>1
    <3> QED
      BY <3>1, <3>2
  <2> QED
    BY <1>0, <2>1, <2>3, <2>4 DEF UseInv, NoBadDeref
<1>8. ASSUME NEW s \in Stmts, my_SQLFreeStmt(s) PROVE UseInv'
  <2>1. {s} \in SUBSET Stmts /\ {} \in SUBSET Descs /\ descs \ {} = descs
    OBVIOUS
  <2> QED
    BY <1>8, <1>d, <2>1 DEF my_SQLFreeStmt
<1>9. ASSUME NEW c \in Dbcs, NEW d \in Descs, my_SQLAllocDesc(c, d)
      PROVE  UseInv'
  <2>1. /\ \A o \in Descs : o # d => desc'[o] = desc[o]
        /\ LiveStmts' = LiveStmts /\ app' = app /\ stmtDbc' = stmtDbc
        /\ descs' = descs \cup {d} /\ d \notin descs /\ badDeref' = badDeref
    BY <1>0, <1>9, <1>s DEF my_SQLAllocDesc, LiveStmts, TypeOK
  <2>2. \A s \in LiveStmts, t \in DescTypes : app[s][t] # d
    <3> SUFFICES ASSUME NEW s \in LiveStmts, NEW t \in DescTypes,
                        app[s][t] = d
                 PROVE  FALSE
      OBVIOUS
    <3>1. LiveDesc(d) /\ d \in AllDescs
      BY <1>0, <1>s DEF AppDescsAlive
    <3> QED
      BY <1>l, <1>s, <2>1, <3>1
  <2>3. UsersAreListed'
    BY <1>0, <2>1, <2>2 DEF UsersAreListed
  <2>4. AppDescsAlive'
    <3> SUFFICES ASSUME NEW s \in LiveStmts, NEW t \in DescTypes
                 PROVE  LiveDesc(app[s][t])'
      BY <2>1 DEF AppDescsAlive
    <3>1. app[s][t] \in AllDescs /\ LiveDesc(app[s][t])
      BY <1>0 DEF TypeOK, AppDescsAlive, LiveStmts
    <3> QED
      BY <1>l, <1>m, <2>1, <3>1
  <2> QED
    BY <1>0, <2>1, <2>3, <2>4 DEF UseInv, NoBadDeref
<1>10. ASSUME NEW s \in Stmts, NEW t \in DescTypes, NEW o \in AllDescs,
              SetAppDesc(s, t, o)
       PROVE  UseInv'
  <2> DEFINE p == app[s][t]
             r == stmt_list_remove(desc, p, s)
             a == stmt_list_add(r, o, s)
  <2>1. p \in AllDescs
    BY <1>0 DEF TypeOK
  <2>2. r \in [AllDescs -> DescRecord]
    BY <1>0, <2>1, ListOpsType DEF TypeOK
  <2>3. a \in [AllDescs -> DescRecord]
    BY <2>2, ListOpsType
  <2>4. \A x \in AllDescs :
          /\ SameButList(a[x], desc[x])
          /\ \A u : u \in a[x].list
                      <=> \/ /\ u \in desc[x].list
                             /\ ~(x = p /\ desc[p].alloc = "USER" /\ u = s)
                          \/ x = o /\ desc[o].alloc = "USER" /\ u = s
    <3> TAKE x \in AllDescs
    <3>1. /\ SameButList(r[x], desc[x]) /\ SameButList(r[o], desc[o])
          /\ \A u : u \in r[x].list
                      <=> /\ u \in desc[x].list
                          /\ ~(x = p /\ desc[p].alloc = "USER" /\ u = s)
      BY <1>0, <2>1, ListRemoveFields DEF TypeOK
    <3> HIDE DEF r
    <3>2. /\ SameButList(a[x], r[x])
          /\ \A u : u \in a[x].list
                      <=> \/ u \in r[x].list
                          \/ x = o /\ r[o].alloc = "USER" /\ u = s
      BY <2>2, ListAddFields
    <3> HIDE DEF a
    <3> QED
      BY <3>1, <3>2 DEF SameButList
  <2>5. desc' = [a EXCEPT ![o].dtype = t]
    BY <1>10 DEF SetAppDesc
  <2> HIDE DEF a, r
  <2>6. \A x \in AllDescs :
          /\ desc'[x].dtype = IF x = o THEN t ELSE desc[x].dtype
          /\ desc'[x].dbc = desc[x].dbc
          /\ desc'[x].list = a[x].list
    <3> TAKE x \in AllDescs
    <3>1. a[x] \in DescRecord
      BY <2>3
    <3>2. CASE x # o
      BY <2>3, <2>4, <2>5, <3>2 DEF SameButList
    <3>3. CASE x = o
      <4>1. desc'[x] = [a[x] EXCEPT !.dtype = t]
        BY <2>3, <2>5, <3>3
      <4>2. /\ desc'[x].dtype = t /\ desc'[x].dbc = a[x].dbc
            /\ desc'[x].list = a[x].list
        BY <3>1, <4>1 DEF DescRecord
      <4> QED
        BY <2>4, <3>3, <4>2 DEF SameButList
    <3> QED
      BY <3>2, <3>3
  <2>7. /\ app' = [app EXCEPT ![s][t] = o] /\ s \in LiveStmts /\ LiveDesc(o)
        /\ LiveStmts' = LiveStmts /\ descs' = descs /\ stmtDbc' = stmtDbc
        /\ badDeref' = badDeref /\ ~Refused(s, t, o)
    BY <1>10 DEF SetAppDesc, LiveStmts
  <2>8. UsersAreListed'
    <3> SUFFICES ASSUME NEW u \in LiveStmts, NEW w \in DescTypes,
                        app'[u][w] \in Descs
                 PROVE  /\ u \in desc'[app'[u][w]].list
                        /\ desc'[app'[u][w]].dtype = w
                        /\ desc'[app'[u][w]].dbc = stmtDbc[u]
      BY <2>7 DEF UsersAreListed
    <3>1. CASE u = s /\ w = t
      <4>1. app'[u][w] = o /\ o \in Descs
        BY <1>0, <2>7, <3>1 DEF TypeOK
      <4>2. desc[o].alloc = "USER" /\ desc[o].dbc = stmtDbc[s]
        BY <1>0, <2>7, <4>1 DEF DescShape, Refused
      <4>3. s \in desc'[o].list /\ desc'[o].dtype = t
            /\ desc'[o].dbc = desc[o].dbc
        BY <2>4, <2>6, <4>2
      <4> QED
        BY <3>1, <4>1, <4>2, <4>3
    <3>2. CASE ~(u = s /\ w = t)
      <4> DEFINE d == app[u][w]
      <4>1. app'[u][w] = d /\ d \in Descs /\ d \in AllDescs
        BY <1>0, <1>s, <2>7, <3>2 DEF TypeOK, LiveStmts
      <4>2. u \in desc[d].list /\ desc[d].dtype = w /\ desc[d].dbc = stmtDbc[u]
        BY <1>0, <4>1 DEF UsersAreListed
      <4>3. d = p /\ u = s => FALSE
        <5> SUFFICES ASSUME d = p, u = s PROVE FALSE
          OBVIOUS
        <5>1. desc[p].dtype = t
          BY <1>0, <2>7, <4>1 DEF UsersAreListed
        <5> QED
          BY <3>2, <4>2, <5>1
      <4>4. d = o => w = t
        BY <2>7, <4>2 DEF Refused, DescTypes
      <4> HIDE DEF d, p
      <4>5. desc'[d].list = a[d].list /\ desc'[d].dbc = desc[d].dbc
            /\ desc'[d].dtype = w
        BY <2>6, <4>1, <4>2, <4>4
      <4>6. u \in a[d].list
        BY <2>4, <4>1, <4>2, <4>3
      <4> QED
        BY <4>1, <4>2, <4>5, <4>6
    <3> QED
      BY <3>1, <3>2
  <2>9. AppDescsAlive'
    <3> SUFFICES ASSUME NEW u \in LiveStmts, NEW w \in DescTypes
                 PROVE  \/ app'[u][w] \in descs'
                        \/ /\ app'[u][w] \in ImpDescs
                           /\ app'[u][w][1] \in LiveStmts'
      BY <1>n, <2>7
    <3>1. app'[u][w] = app[u][w] \/ app'[u][w] = o
      BY <1>0, <2>7 DEF TypeOK, LiveStmts
    <3>2. app[u][w] \in AllDescs /\ LiveDesc(app[u][w])
      BY <1>0 DEF TypeOK, AppDescsAlive, LiveStmts
    <3> QED
      BY <1>l, <1>m, <2>7, <3>1, <3>2
  <2> QED
    BY <1>0, <2>7, <2>8, <2>9 DEF UseInv, NoBadDeref
<1>11. ASSUME NEW s \in Stmts, NEW t \in DescTypes, SetAppDescNull(s, t)
       PROVE  UseInv'
  <2> DEFINE p == app[s][t]
  <2>1. /\ p \in AllDescs /\ app' = [app EXCEPT ![s][t] = ImpApp(s, t)]
        /\ s \in LiveStmts /\ LiveStmts' = LiveStmts /\ descs' = descs
        /\ stmtDbc' = stmtDbc /\ badDeref' = badDeref
    BY <1>0, <1>11 DEF TypeOK, SetAppDescNull, LiveStmts
  <2>2. \A x \in AllDescs :
          /\ SameButList(desc'[x], desc[x])
          /\ \A u : u \in desc'[x].list
                      <=> /\ u \in desc[x].list
                          /\ ~(x = p /\ desc[p].alloc = "USER" /\ u = s)
    <3>1. desc \in [AllDescs -> DescRecord] /\ s \in Stmts
          /\ p \in AllDescs
      BY <1>0, <2>1 DEF TypeOK
    <3>2. desc' = stmt_list_remove(desc, p, s)
      BY <1>11 DEF SetAppDescNull
    <3> HIDE DEF p
    <3> QED
      BY <3>1, <3>2, ListRemoveFields
  <2>3. ImpApp(s, t) \in ImpDescs /\ ImpApp(s, t)[1] = s
    BY ImpAppType DEF ImpApp
  <2>4. UsersAreListed'
    <3> SUFFICES ASSUME NEW u \in LiveStmts, NEW w \in DescTypes,
                        app'[u][w] \in Descs
                 PROVE  /\ u \in desc'[app'[u][w]].list
                        /\ desc'[app'[u][w]].dtype = w
                        /\ desc'[app'[u][w]].dbc = stmtDbc[u]
      BY <2>1 DEF UsersAreListed
    <3> DEFINE d == app[u][w]
    <3>1. ~(u = s /\ w = t)
      BY <1>0, <1>s, <2>1, <2>3 DEF TypeOK
    <3>2. app'[u][w] = d /\ d \in Descs /\ d \in AllDescs
      BY <1>0, <1>s, <2>1, <3>1 DEF TypeOK, LiveStmts
    <3>3. u \in desc[d].list /\ desc[d].dtype = w /\ desc[d].dbc = stmtDbc[u]
      BY <1>0, <3>2 DEF UsersAreListed
    <3>4. d = p /\ u = s => FALSE
      <4> SUFFICES ASSUME d = p, u = s PROVE FALSE
        OBVIOUS
      <4>1. desc[p].dtype = t
        BY <1>0, <2>1, <3>2 DEF UsersAreListed
      <4> QED
        BY <3>1, <3>3, <4>1
    <3> HIDE DEF d, p
    <3> QED
      BY <2>2, <3>2, <3>3, <3>4 DEF SameButList
  <2>5. AppDescsAlive'
    <3> SUFFICES ASSUME NEW u \in LiveStmts, NEW w \in DescTypes
                 PROVE  \/ app'[u][w] \in descs'
                        \/ /\ app'[u][w] \in ImpDescs
                           /\ app'[u][w][1] \in LiveStmts'
      BY <1>n, <2>1
    <3>1. app'[u][w] = app[u][w] \/ app'[u][w] = ImpApp(s, t)
      BY <1>0, <2>1 DEF TypeOK, LiveStmts
    <3>2. app[u][w] \in AllDescs /\ LiveDesc(app[u][w])
      BY <1>0 DEF TypeOK, AppDescsAlive, LiveStmts
    <3> QED
      BY <1>l, <1>m, <1>s, <2>1, <2>3, <3>1, <3>2
  <2> QED
    BY <1>0, <2>1, <2>4, <2>5 DEF UseInv, NoBadDeref
<1>12. ASSUME NEW o \in AllDescs, my_SQLFreeDesc(o) PROVE UseInv'
  <2>1. /\ o \in Descs /\ o \in descs
        /\ \A x \in AllDescs : x # o => desc'[x] = desc[x]
        /\ LiveStmts' = LiveStmts /\ stmtDbc' = stmtDbc
        /\ badDeref' = badDeref /\ descs' = descs \ {o}
    BY <1>0, <1>12 DEF my_SQLFreeDesc, FreeDescIsSafe, LiveDesc, TypeOK,
       LiveStmts
  <2>2. ASSUME NEW u \in LiveStmts, NEW w \in DescTypes
        PROVE  IF app[u][w] = o THEN app'[u][w] = ImpApp(u, w)
                                ELSE app'[u][w] = app[u][w]
    <3>1. CASE app[u][w] = o
      <4>1. u \in desc[o].list /\ desc[o].dtype = w /\ desc[o].ref = "APP"
        BY <1>0, <2>1, <3>1 DEF UsersAreListed, DescShape
      <4> QED
        BY <1>0, <1>12, <3>1, <4>1 DEF my_SQLFreeDesc, ResetUsers, TypeOK,
           LiveStmts
    <3>2. CASE app[u][w] # o
      <4>1. ~(u \in desc[o].list /\ desc[o].dtype = w)
        BY <1>0, <2>1, <3>2 DEF ListedUseIt
      <4> QED
        BY <1>0, <1>12, <3>2, <4>1 DEF my_SQLFreeDesc, ResetUsers, TypeOK,
           LiveStmts
    <3> QED
      BY <3>1, <3>2
  <2>3. \A u \in LiveStmts, w \in DescTypes :
          /\ app[u][w] \in AllDescs /\ LiveDesc(app[u][w])
          /\ ImpApp(u, w) \in ImpDescs /\ ImpApp(u, w)[1] = u
    <3>1. \A u \in LiveStmts, w \in DescTypes :
            app[u][w] \in AllDescs /\ LiveDesc(app[u][w])
      BY <1>0 DEF TypeOK, AppDescsAlive, LiveStmts
    <3>2. \A u \in LiveStmts, w \in DescTypes : ImpApp(u, w) \in ImpDescs
      BY ImpAppType DEF LiveStmts
    <3>3. \A u \in LiveStmts, w \in DescTypes : ImpApp(u, w)[1] = u
      BY DEF ImpApp
    <3> QED
      BY <3>1, <3>2, <3>3
  <2>4. UsersAreListed'
    <3> SUFFICES ASSUME NEW u \in LiveStmts, NEW w \in DescTypes,
                        app'[u][w] \in Descs
                 PROVE  /\ u \in desc'[app'[u][w]].list
                        /\ desc'[app'[u][w]].dtype = w
                        /\ desc'[app'[u][w]].dbc = stmtDbc[u]
      BY <2>1 DEF UsersAreListed
    <3>1. app[u][w] # o /\ app'[u][w] = app[u][w]
      BY <1>s, <2>2, <2>3
    <3>2. desc'[app[u][w]] = desc[app[u][w]]
      BY <2>1, <2>3, <3>1
    <3> QED
      BY <1>0, <3>1, <3>2 DEF UsersAreListed
  <2>5. AppDescsAlive'
    <3> SUFFICES ASSUME NEW u \in LiveStmts, NEW w \in DescTypes
                 PROVE  \/ app'[u][w] \in descs'
                        \/ /\ app'[u][w] \in ImpDescs
                           /\ app'[u][w][1] \in LiveStmts'
      BY <1>n, <2>1
    <3>1. CASE app[u][w] = o
      BY <1>m, <1>s, <2>1, <2>2, <2>3, <3>1
    <3>2. CASE app[u][w] # o
      BY <1>l, <1>m, <1>s, <2>1, <2>2, <2>3, <3>2
    <3> QED
      BY <3>1, <3>2
  <2> QED
    BY <1>0, <2>1, <2>4, <2>5 DEF UseInv, NoBadDeref
<1>13. ASSUME NEW src \in AllDescs, NEW dest \in AllDescs
       PROVE  ~MySQLCopyDesc(src, dest)
  BY <1>0 DEF MySQLCopyDesc, TypeOK
<1>14. ASSUME NEW s \in Stmts, NEW t \in DescTypes, NEW o \in AllDescs
       PROVE  ~SetAppDescRefused(s, t, o)
  BY DEF SetAppDescRefused
<1>15. ~UndefinedBehaviour
  BY NoUndefinedBehaviour
<1>16. CASE UNCHANGED vars
  BY <1>a, <1>16 DEF vars
<1> QED
  BY <1>1, <1>3, <1>4, <1>6, <1>7, <1>8, <1>9, <1>10, <1>11, <1>12, <1>13,
     <1>14, <1>15, <1>16 DEF Next

(* In an application that never calls SQLCopyDesc and passes SQLSetStmtAttr*)
(* only descriptors the driver accepts, no handler follows a pointer to a  *)
(* freed handle, for any number of handles.                                *)
THEOREM NoDanglingDereference ==
    ASSUME MaxCopies = 0, ~RejectedCalls PROVE Spec => []NoBadDeref
<1>1. CleanInv => NoBadDeref
  BY DEF CleanInv, UseInv
<1> QED
  BY <1>1, CleanInit, CleanStep, PTL DEF Spec

(* In the same application a live statement's application descriptors      *)
(* exist: my_SQLFreeDesc resets every statement that uses the descriptor.  *)
THEOREM ApplicationDescriptorsAlive ==
    ASSUME MaxCopies = 0, ~RejectedCalls PROVE Spec => []AppDescsAlive
<1>1. CleanInv => AppDescsAlive
  BY DEF CleanInv, UseInv
<1> QED
  BY <1>1, CleanInit, CleanStep, PTL DEF Spec

(* In the same application the descriptors and their users, and the        *)
(* connections and their descriptors, name each other exactly.             *)
THEOREM ListsAgreeWithUses ==
    ASSUME MaxCopies = 0, ~RejectedCalls PROVE Spec => []ListsAgree
<1>1. CleanInv => ListsAgree
  BY DEF CleanInv, UseInv, OwnInv, ListsAgree
<1> QED
  BY <1>1, CleanInit, CleanStep, PTL DEF Spec
=============================================================================
