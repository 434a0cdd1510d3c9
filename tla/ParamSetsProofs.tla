-------------------------- MODULE ParamSetsProofs --------------------------
(* Theorems about SQLExecute with parameter sets, for arrays of any length *)
(* and any ways in which conversions and queries may fail.                 *)
EXTENDS ParamSets, TLAPS

Called == pc # "idle"

(* What texts are made of.                                                 *)
Pieces == {"whole", "part", "union"} \X Nat

(* The whole statements in a text have sets of this array in them.         *)
OfThisArray(text) ==
    \A k \in 1..Len(text) : text[k][1] = "whole" => text[k][2] \in 1..size

(* Where the sets stand in a call: those behind are executed, failed or    *)
(* ignored, and those ahead have not been touched.                         *)
Standing ==
    Called =>
        /\ \A i \in failed : i < row \/ (i = row /\ pc = "end")
        /\ pc = "end" => row = size + 1 \/ row \in failed
        /\ pc = "query" => row \notin ignored
        /\ ~select => \A i \in 1..size :
               /\ i \in done => i < row /\ i \notin failed \cup ignored
               /\ i < row => i \in done \cup failed \cup ignored
               /\ i \in ignored => i \notin failed

(* What the status array says of them.                                     *)
Statuses ==
    Called /\ params => \A i \in 1..size :
        /\ i \in failed /\ i < row => status[i] = "DIAG_UNAVAILABLE"
        /\ i < row /\ ~select =>
               /\ status[i] \in {"SUCCESS", "SUCCESS_WITH_INFO"}
                      => i \in done
               /\ status[i] = "UNUSED" => i \notin done \cup failed
        /\ i > row \/ (i = row /\ pc # "query") => status[i] = "NONE"

(* A statement without parameters has no statuses.                         *)
NoMarkers ==
    /\ Called /\ dae => params
    /\ Called /\ ~params => /\ ignored = {} /\ lastError = 0
                            /\ \A i \in 1..size : status[i] = "NONE"

(* lastError is at the last of the sets that failed.                       *)
LastOfFailed ==
    Called /\ params =>
        IF failed = {} THEN lastError = 0
        ELSE lastError \in failed /\ \A j \in failed : j <= lastError

(* The flags from which the return code is made.                           *)
FlagsSay ==
    Called => /\ failed # {} => one_of_params_not_succeeded
              /\ ~select => (all_parameters_failed
                                <=> size > 1 /\ done = {})
              /\ rc = "ERROR" => failed # {}
              /\ size = 1 /\ failed # {} => rc = "ERROR"

(* SELECTs joined by UNION ALL.                                            *)
Alternates(text) ==
    \A k \in 1..Len(text) : IF k % 2 = 1 THEN text[k][1] = "whole"
                            ELSE text[k] = UnionAll

Buffered == params /\ ~ssps

(* The buffer ends with the set whose query is next, and holds nothing but *)
(* whole statements as long as no set has failed.                          *)
BufferHolds ==
    /\ tempbuf \in Seq(Pieces) /\ OfThisArray(tempbuf)
    /\ sent \in Seq(Seq(Pieces))
    /\ Buffered /\ pc = "query" => /\ Len(tempbuf) > 0
                                   /\ tempbuf[Len(tempbuf)] = Whole(row)
    /\ Buffered /\ failed = {} /\ ~select =>
           /\ pc = "set" => tempbuf = <<>>
           /\ pc = "query" => Len(tempbuf) = 1
    /\ Buffered /\ failed = {} /\ select =>
           /\ pc = "set" => Alternates(tempbuf) /\ Len(tempbuf) % 2 = 0
           /\ pc = "query" => Alternates(tempbuf) /\ Len(tempbuf) % 2 = 1
    /\ select /\ pc = "query" => row = size

SInv ==
    /\ TypeOK /\ Standing /\ Statuses /\ NoMarkers /\ LastOfFailed
    /\ FlagsSay /\ StatusTruthful /\ OneErrorDiagnosed /\ ReturnTruthful

PInv == SInv /\ BufferHolds

(* The parts of the type invariant, for the provers.                       *)
BoolsOK ==
    /\ select \in BOOLEAN /\ ssps \in BOOLEAN /\ params \in BOOLEAN
    /\ dae \in BOOLEAN /\ one_of_params_not_succeeded \in BOOLEAN
    /\ all_parameters_failed \in BOOLEAN /\ connection_failure \in BOOLEAN

NumbersOK ==
    /\ pc \in {"idle", "set", "query", "end"}
    /\ size \in Sets /\ row \in 1..size + 1 /\ ignored \subseteq 1..size
    /\ pc \in {"set", "query"} => row <= size
    /\ rc \in Codes \cup {"NEED_DATA", "NONE"}
    /\ lastError \in 0..size /\ diag \in 0..size
    /\ done \subseteq 1..size /\ failed \subseteq 1..size

StatusOK ==
    status \in [Sets -> Codes \cup {"NONE", "UNUSED", "DIAG_UNAVAILABLE"}]

LEMMA TypeParts == TypeOK <=> BoolsOK /\ NumbersOK /\ StatusOK
BY DEF TypeOK, BoolsOK, NumbersOK, StatusOK

LEMMA InitHolds == Init => PInv
<1> SUFFICES ASSUME Init PROVE PInv
  OBVIOUS
<1>1. TypeOK
  <2>1. BoolsOK
    BY DEF Init, BoolsOK
  <2>2. NumbersOK /\ StatusOK
    BY ParamSetsAssumption DEF Init, NumbersOK, StatusOK, Sets, Codes
  <2> QED
    BY <2>1, <2>2, TypeParts
<1>2. ~Called /\ failed = {} /\ rc = "NONE" /\ size = 1
      /\ \A i \in Sets : status[i] = "NONE"
  BY DEF Init, Called
<1>4. SInv
  BY <1>1, <1>2, ParamSetsAssumption
     DEF SInv, Standing, Statuses, NoMarkers, LastOfFailed, FlagsSay,
         StatusTruthful, OneErrorDiagnosed, ReturnTruthful, TypeOK, Sets
<1>3. BufferHolds
  BY DEF Init, BufferHolds, OfThisArray, Buffered
<1> QED
  BY <1>3, <1>4 DEF PInv

(* The next set, or the end of the loop.                                   *)
LEMMA NextSetType ==
    ASSUME TypeOK, row <= size, NextSet, size' = size
    PROVE  /\ pc' \in {"set", "end"} /\ row' \in 1..size' + 1
           /\ pc' = "set" => row' <= size'
           /\ pc' = "end" => row' = size' + 1
<1>1. size \in Nat /\ row \in Nat
  BY ParamSetsAssumption DEF TypeOK, Sets
<1> QED
  BY <1>1 DEF NextSet, TypeOK, Sets

LEMMA FirstRow ==
    ASSUME NEW n \in Nat, n >= 1
    PROVE  1 \in 1..n + 1 /\ 1 <= n /\ 0 \in 0..n
OBVIOUS

(* A new call.                                                             *)
LEMMA ExecuteHolds == ASSUME PInv, SQLExecute PROVE PInv'
<1>1. size' \in Nat /\ size' >= 1
  BY ParamSetsAssumption DEF SQLExecute, Sets
<1>2. TypeOK'
  <2>0. all_parameters_failed' \in BOOLEAN
    BY DEF SQLExecute
  <2>3. one_of_params_not_succeeded' \in BOOLEAN
        /\ connection_failure' \in BOOLEAN
    BY DEF SQLExecute
  <2>4. /\ select' \in BOOLEAN /\ ssps' \in BOOLEAN
        /\ params' \in BOOLEAN /\ dae' \in BOOLEAN
    BY DEF SQLExecute
  <2>1. BoolsOK'
    BY <2>0, <2>3, <2>4 DEF BoolsOK
  <2>5. status' = [i \in Sets |-> "NONE"] /\ size' \in Sets /\ row' = 1
    BY DEF SQLExecute
  <2>6. StatusOK'
    BY <2>5 DEF StatusOK, Sets, Codes
  <2>7. row' = 1 /\ lastError' = 0 /\ diag' = 0
    BY DEF SQLExecute
  <2>8. /\ row' \in 1..size' + 1 /\ row' <= size'
        /\ lastError' \in 0..size' /\ diag' \in 0..size'
    BY <1>1, <2>7, FirstRow
  <2>9. /\ pc' = "set" /\ rc' = "SUCCESS" /\ done' = {} /\ failed' = {}
        /\ ignored' \in SUBSET (1..size')
    BY DEF SQLExecute
  <2>2. NumbersOK' /\ StatusOK'
    BY <2>5, <2>6, <2>8, <2>9 DEF NumbersOK, Codes, Sets
  <2> QED
    BY <2>1, <2>2 DEF TypeOK, BoolsOK, NumbersOK, StatusOK
<1>3. Standing' /\ LastOfFailed'
  BY <1>1 DEF SQLExecute, Standing, LastOfFailed, Called
<1>4. Statuses' /\ NoMarkers'
  BY <1>1, <1>2, ParamSetsAssumption
     DEF SQLExecute, Statuses, NoMarkers, Called, TypeOK, Sets
<1>5. FlagsSay'
  BY <1>1 DEF SQLExecute, FlagsSay, Called
<1>6. StatusTruthful' /\ OneErrorDiagnosed' /\ ReturnTruthful'
  BY DEF SQLExecute, StatusTruthful, OneErrorDiagnosed, ReturnTruthful
<1>7. BufferHolds'
  BY DEF SQLExecute, BufferHolds, OfThisArray, Buffered, Alternates
<1> QED
  BY <1>2, <1>3, <1>4, <1>5, <1>6, <1>7 DEF PInv, SInv

LEMMA IgnoreHolds == ASSUME PInv, IgnoreSet PROVE PInv'
<1>1. size \in Nat /\ size >= 1 /\ row \in 1..size /\ TypeOK
      /\ pc = "set" /\ row \in ignored /\ row \in Sets
  BY ParamSetsAssumption DEF PInv, SInv, TypeOK, Sets, IgnoreSet
<1>2. UNCHANGED <<statement, tempbuf, rc, flags, diag, sent, done, failed>>
      /\ status' = [status EXCEPT ![row] = "UNUSED"] /\ row' = row + 1
  BY DEF IgnoreSet, NextSet
<1>3. /\ pc' \in {"set", "end"} /\ row' \in 1..size' + 1
      /\ pc' = "set" => row' <= size'
      /\ pc' = "end" => row' = size' + 1
  BY <1>1, <1>2, NextSetType DEF IgnoreSet, statement
<1>4. TypeOK'
  <2>1. BoolsOK'
    BY <1>1, <1>2, TypeParts DEF BoolsOK, statement, flags
  <2>2. NumbersOK' /\ StatusOK'
    BY <1>1, <1>2, <1>3, TypeParts
       DEF NumbersOK, StatusOK, statement, flags, Codes, Sets
  <2> QED
    BY <2>1, <2>2 DEF TypeOK, BoolsOK, NumbersOK, StatusOK
<1>5. Standing'
  <2>1. UNCHANGED <<select, size, ignored, done, failed>>
    BY <1>2 DEF statement
  <2>2. /\ \A i \in failed : i < row
        /\ ~select => \A i \in 1..size :
               /\ i \in done => i < row /\ i \notin failed \cup ignored
               /\ i < row => i \in done \cup failed \cup ignored
               /\ i \in ignored => i \notin failed
    BY <1>1 DEF PInv, SInv, Standing, Called
  <2>3. \A i \in failed : i \in Int
    BY <1>1 DEF TypeOK
  <2>4. \A i \in failed' : i < row'
    BY <1>1, <1>2, <2>1, <2>2, <2>3
  <2>5. pc' = "end" => row' = size' + 1
    BY <1>3
  <2>6. ~select' => \A i \in 1..size' :
               /\ i \in done' => i < row' /\ i \notin failed' \cup ignored'
               /\ i < row' => i \in done' \cup failed' \cup ignored'
               /\ i \in ignored' => i \notin failed'
    BY <1>1, <1>2, <2>1, <2>2
  <2> QED
    BY <1>3, <2>4, <2>5, <2>6 DEF Standing
<1>6. Statuses'
  BY <1>1, <1>2, <1>3
     DEF PInv, SInv, Statuses, Standing, Called, statement, TypeOK, Sets
<1>7. NoMarkers' /\ LastOfFailed' /\ FlagsSay'
  BY <1>1, <1>2, <1>3
     DEF PInv, SInv, NoMarkers, LastOfFailed, FlagsSay, Called,
         statement, flags
<1>8. StatusTruthful' /\ OneErrorDiagnosed' /\ ReturnTruthful'
  BY <1>3 DEF StatusTruthful, OneErrorDiagnosed, ReturnTruthful
<1>9. BufferHolds'
  BY <1>1, <1>2, <1>3
     DEF PInv, BufferHolds, OfThisArray, Buffered, Alternates, statement
<1> QED
  BY <1>4, <1>5, <1>6, <1>7, <1>8, <1>9 DEF PInv, SInv

LEMMA Ranges ==
    ASSUME PInv
    PROVE  /\ size \in Nat /\ size >= 1 /\ row \in Nat /\ row >= 1
           /\ row <= size + 1
           /\ \A i \in failed \cup done \cup ignored : i \in 1..size
           /\ 1..size \subseteq Sets
BY ParamSetsAssumption DEF PInv, SInv, TypeOK, Sets

(* A set fails, and the loop goes on.                                      *)
SetFails ==
    /\ pc \in {"set", "query"} /\ row \notin ignored
    /\ rc' = "ERROR" /\ diag' \in {diag, row}
    /\ failed' = failed \cup {row}
    /\ connection_failure' \in BOOLEAN
    /\ lastError' = IF params THEN row ELSE lastError
    /\ one_of_params_not_succeeded' = TRUE
    /\ status' = IF params
                 THEN [status EXCEPT ![row] = "DIAG_UNAVAILABLE"] ELSE status
    /\ NextSet
    /\ UNCHANGED <<statement, all_parameters_failed, done>>

LEMMA FailureHolds == ASSUME PInv, SetFails PROVE SInv'
<1>1. /\ size \in Nat /\ size >= 1 /\ row \in 1..size /\ row \in Nat
      /\ row \in Sets /\ TypeOK /\ pc \in {"set", "query"} /\ Called
      /\ row \notin ignored
      /\ \A i \in failed \cup done \cup ignored : i \in 1..size
  BY Ranges DEF PInv, SInv, TypeOK, SetFails, Called
<1>2. /\ UNCHANGED <<size, select, ssps, params, ignored, dae, done,
                     all_parameters_failed>>
      /\ failed' = failed \cup {row} /\ row' = row + 1 /\ rc' = "ERROR"
      /\ lastError' = IF params THEN row ELSE lastError
      /\ status' = IF params
                   THEN [status EXCEPT ![row] = "DIAG_UNAVAILABLE"]
                   ELSE status
  BY DEF SetFails, NextSet, statement
<1>3. /\ pc' \in {"set", "end"} /\ row' \in 1..size' + 1
      /\ pc' = "set" => row' <= size'
      /\ pc' = "end" => row' = size' + 1
  BY <1>1, <1>2, NextSetType DEF SetFails
<1>4. TypeOK'
  <2>1. BoolsOK'
    BY <1>1, <1>2, TypeParts DEF BoolsOK, SetFails
  <2>2. StatusOK'
    BY <1>1, <1>2, TypeParts DEF StatusOK, Codes, Sets
  <2>3. diag' \in 0..size' /\ lastError' \in 0..size'
    BY <1>1, <1>2, TypeParts DEF NumbersOK, SetFails
  <2>4. failed' \subseteq 1..size' /\ done' \subseteq 1..size'
    BY <1>1, <1>2
  <2>5. NumbersOK'
    BY <1>1, <1>2, <1>3, <2>3, <2>4, TypeParts DEF NumbersOK, Codes, Sets
  <2> QED
    BY <2>1, <2>2, <2>5 DEF TypeOK, BoolsOK, NumbersOK, StatusOK
<1>5. Standing'
  <2>1. /\ \A i \in failed : i < row
        /\ ~select => \A i \in 1..size :
               /\ i \in done => i < row /\ i \notin failed \cup ignored
               /\ i < row => i \in done \cup failed \cup ignored
               /\ i \in ignored => i \notin failed
    BY <1>1 DEF PInv, SInv, Standing, Called
  <2>2. \A i \in failed' : i < row'
    BY <1>1, <1>2, <2>1
  <2>3. ~select' => \A i \in 1..size' :
               /\ i \in done' => i < row' /\ i \notin failed' \cup ignored'
               /\ i < row' => i \in done' \cup failed' \cup ignored'
               /\ i \in ignored' => i \notin failed'
    BY <1>1, <1>2, <2>1
  <2> QED
    BY <1>3, <2>2, <2>3 DEF Standing
<1>6. Statuses'
  BY <1>1, <1>2, <1>3
     DEF PInv, SInv, Statuses, Standing, Called, TypeOK, Sets
<1>7. NoMarkers'
  BY <1>1, <1>2, <1>3 DEF PInv, SInv, NoMarkers, Called
<1>8. LastOfFailed'
  BY <1>1, <1>2, <1>3 DEF PInv, SInv, LastOfFailed, Standing, Called
<1>9. FlagsSay'
  <2>1. one_of_params_not_succeeded'
    BY DEF SetFails
  <2> QED
    BY <1>1, <1>2, <2>1 DEF PInv, SInv, FlagsSay
<1>10. StatusTruthful' /\ OneErrorDiagnosed' /\ ReturnTruthful'
  BY <1>3 DEF StatusTruthful, OneErrorDiagnosed, ReturnTruthful
<1> QED
  BY <1>4, <1>5, <1>6, <1>7, <1>8, <1>9, <1>10 DEF SInv

LEMMA FailureBuffer ==
    ASSUME PInv, SetFails, tempbuf' \in Seq(Pieces), OfThisArray(tempbuf)',
           sent' \in Seq(Seq(Pieces))
    PROVE  BufferHolds'
<1>1. failed' # {} /\ pc' # "query"
  BY DEF SetFails, NextSet
<1> QED
  BY <1>1 DEF BufferHolds

LEMMA WholeIsPiece ==
    ASSUME PInv, row <= size
    PROVE  /\ Whole(row) \in Pieces /\ UnionAll \in Pieces
           /\ Part(row) \in Pieces /\ <<Whole(row)>> \in Seq(Pieces)
           /\ Whole(row)[1] = "whole" /\ Whole(row)[2] = row
           /\ Part(row)[1] = "part" /\ UnionAll[1] = "union"
BY Ranges DEF Whole, UnionAll, Part, Pieces

LEMMA TextTypes ==
    ASSUME PInv, pc = "query"
    PROVE  /\ Text \in Seq(Pieces) /\ OfThisArray(Text)
           /\ BufferSent(tempbuf) \in Seq(Pieces)
           /\ OfThisArray(BufferSent(tempbuf))
<1>1. tempbuf \in Seq(Pieces) /\ OfThisArray(tempbuf) /\ row \in 1..size
  BY Ranges DEF PInv, BufferHolds, SInv, TypeOK
<1>2. BufferSent(tempbuf) \in Seq(Pieces) /\ OfThisArray(BufferSent(tempbuf))
  BY <1>1 DEF BufferSent, OfThisArray
<1>3. Text \in Seq(Pieces) /\ OfThisArray(Text)
  BY <1>1, WholeIsPiece DEF Text, OfThisArray
<1> QED
  BY <1>2, <1>3

LEMMA QueryFailsIsFailure ==
    ASSUME PInv, pc = "query", NEW lost \in BOOLEAN, QueryFails(lost)
    PROVE  SetFails
<1>1. row \notin ignored
  BY DEF PInv, SInv, Standing, Called
<1> QED
  BY <1>1 DEF QueryFails, SetFails, LatestError, QueryStatus, StatusOfQuery,
     StatusOf

LEMMA AppendType ==
    ASSUME NEW S, NEW s \in Seq(S), NEW e \in S
    PROVE  /\ Append(s, e) \in Seq(S) /\ Len(Append(s, e)) = Len(s) + 1
           /\ Append(s, e)[Len(Append(s, e))] = e
OBVIOUS

LEMMA FailedQueryHolds ==
    ASSUME PInv, QueryAfterLoss \/ QueryNotSent \/ QueryRefused
    PROVE  PInv'
<1>1. pc = "query" /\ SetFails
  BY QueryFailsIsFailure DEF QueryAfterLoss, QueryNotSent, QueryRefused
<1>2. UNCHANGED size
  BY <1>1 DEF SetFails, statement
<1>3. tempbuf \in Seq(Pieces) /\ OfThisArray(tempbuf)
      /\ sent \in Seq(Seq(Pieces))
  BY DEF PInv, BufferHolds
<1>4. /\ tempbuf' \in {tempbuf, BufferSent(tempbuf)}
      /\ sent' \in {sent, Append(sent, Text)}
  BY DEF QueryAfterLoss, QueryNotSent, QueryRefused
<1>5. tempbuf' \in Seq(Pieces) /\ OfThisArray(tempbuf)'
  BY <1>1, <1>2, <1>3, <1>4, TextTypes DEF OfThisArray
<1>7. Append(sent, Text) \in Seq(Seq(Pieces))
  BY <1>1, <1>3, TextTypes, AppendType
<1>6. sent' \in Seq(Seq(Pieces))
  BY <1>3, <1>4, <1>7
<1> QED
  BY <1>1, <1>5, <1>6, FailureHolds, FailureBuffer DEF PInv

LEMMA InsertParamsFailsHolds ==
    ASSUME PInv, NEW conversion \in Conversions,
           InsertParamsFails(conversion)
    PROVE  PInv'
<1>1. SetFails
  BY TypeParts DEF InsertParamsFails, SetFails, StatusOf, flags, PInv, SInv,
     BoolsOK
<1>2. UNCHANGED <<size, sent>> /\ row \in 1..size
  BY Ranges DEF InsertParamsFails, statement, PInv, SInv, TypeOK
<1>3. tempbuf \in Seq(Pieces) /\ OfThisArray(tempbuf)
      /\ sent \in Seq(Seq(Pieces))
  BY DEF PInv, BufferHolds
<1>4. tempbuf' \in {tempbuf, Append(tempbuf, Part(row))}
  BY DEF InsertParamsFails
<1>5. tempbuf' \in Seq(Pieces) /\ OfThisArray(tempbuf)'
  <2>1. CASE tempbuf' = tempbuf
    BY <1>2, <1>3, <2>1 DEF OfThisArray
  <2>2. CASE tempbuf' = Append(tempbuf, Part(row))
    <3>1. tempbuf' \in Seq(Pieces) /\ Len(tempbuf') = Len(tempbuf) + 1
      BY <1>2, <1>3, <2>2, WholeIsPiece
    <3>2. \A k \in 1..Len(tempbuf') :
              tempbuf'[k] = IF k <= Len(tempbuf) THEN tempbuf[k]
                            ELSE Part(row)
      BY <1>2, <1>3, <2>2, WholeIsPiece
    <3>3. \A k \in 1..Len(tempbuf') :
              tempbuf'[k][1] = "whole" =>
                  /\ k \in 1..Len(tempbuf) /\ tempbuf'[k] = tempbuf[k]
      BY <1>2, <1>3, <3>1, <3>2, WholeIsPiece
    <3> QED
      BY <1>2, <1>3, <3>1, <3>3 DEF OfThisArray
  <2> QED
    BY <1>4, <2>1, <2>2
<1> QED
  BY <1>1, <1>2, <1>3, <1>5, FailureHolds, FailureBuffer DEF PInv

LEMMA DaeInArrayHolds == ASSUME PInv, DaeInArray PROVE PInv'
<1>1. /\ size \in Nat /\ size >= 1 /\ row \in 1..size /\ row \in Nat
      /\ TypeOK /\ pc = "set" /\ Called /\ row \notin ignored /\ params
      /\ size > 1
      /\ \A i \in failed \cup done \cup ignored : i \in 1..size
  BY Ranges DEF PInv, SInv, TypeOK, DaeInArray, Called, NoMarkers
<1>2. /\ UNCHANGED <<size, select, ssps, params, ignored, dae, done, row,
                     tempbuf, status, sent, all_parameters_failed,
                     connection_failure>>
      /\ failed' = failed \cup {row} /\ rc' = "ERROR" /\ pc' = "end"
      /\ lastError' = row /\ diag' = row
  BY DEF DaeInArray, statement
<1>3. TypeOK'
  <2>1. BoolsOK'
    BY <1>1, <1>2, TypeParts DEF BoolsOK, DaeInArray
  <2>2. StatusOK'
    BY <1>1, <1>2, TypeParts DEF StatusOK, Codes, Sets
  <2>3. NumbersOK'
    BY <1>1, <1>2, TypeParts DEF NumbersOK, Codes, Sets
  <2> QED
    BY <2>1, <2>2, <2>3 DEF TypeOK, BoolsOK, NumbersOK, StatusOK
<1>4. Standing'
  BY <1>1, <1>2 DEF PInv, SInv, Standing, Called
<1>5. Statuses' /\ NoMarkers'
  BY <1>1, <1>2 DEF PInv, SInv, Statuses, NoMarkers, Standing, Called
<1>6. LastOfFailed'
  BY <1>1, <1>2 DEF PInv, SInv, LastOfFailed, Standing, Called
<1>7. FlagsSay'
  <2>1. one_of_params_not_succeeded'
    BY DEF DaeInArray
  <2> QED
    BY <1>1, <1>2, <2>1 DEF PInv, SInv, FlagsSay
<1>8. StatusTruthful' /\ OneErrorDiagnosed' /\ ReturnTruthful'
  BY <1>2 DEF StatusTruthful, OneErrorDiagnosed, ReturnTruthful
<1>9. BufferHolds'
  BY <1>2 DEF PInv, BufferHolds, OfThisArray
<1> QED
  BY <1>3, <1>4, <1>5, <1>6, <1>7, <1>8, <1>9 DEF PInv, SInv

LEMMA NeedDataHolds == ASSUME PInv, NeedData PROVE PInv'
<1>1. /\ size = 1 /\ row = 1 /\ TypeOK /\ pc = "set" /\ Called /\ params
      /\ \A i \in failed \cup done \cup ignored : i \in 1..size
  BY Ranges DEF PInv, SInv, TypeOK, NeedData, Called, NoMarkers
<1>2. /\ UNCHANGED <<size, select, ssps, params, ignored, dae, done, failed,
                     row, tempbuf, status, sent, diag, lastError,
                     one_of_params_not_succeeded, all_parameters_failed,
                     connection_failure>>
      /\ rc' = "NEED_DATA" /\ pc' = "idle"
  BY DEF NeedData, statement, flags
<1>3. TypeOK'
  <2>1. BoolsOK' /\ StatusOK'
    BY <1>1, <1>2, TypeParts DEF BoolsOK, StatusOK, Codes, Sets
  <2>2. NumbersOK'
    BY <1>1, <1>2, TypeParts DEF NumbersOK, Codes, Sets
  <2> QED
    BY <2>1, <2>2 DEF TypeOK, BoolsOK, NumbersOK, StatusOK
<1>4. ~Called'
  BY <1>2 DEF Called
<1>5. failed' = {} /\ status'[1] = "NONE" /\ rc' = "NEED_DATA"
  BY <1>1, <1>2 DEF PInv, SInv, Standing, Statuses
<1>6. StatusTruthful' /\ OneErrorDiagnosed' /\ ReturnTruthful'
  BY <1>1, <1>2, <1>5 DEF StatusTruthful, OneErrorDiagnosed, ReturnTruthful
<1>7. BufferHolds'
  BY <1>2 DEF PInv, BufferHolds, OfThisArray
<1> QED
  BY <1>2, <1>3, <1>4, <1>6, <1>7
     DEF PInv, SInv, Standing, Statuses, NoMarkers, LastOfFailed, FlagsSay,
         Called

(* A set is ready; its query is next, or it waits for the last one.        *)
SetReady ==
    /\ pc = "set" /\ row \notin ignored
    /\ IF Joined THEN NextSet ELSE pc' = "query" /\ row' = row
    /\ UNCHANGED <<statement, all_parameters_failed, connection_failure,
                   lastError, sent, done, failed>>
    /\ diag' \in {diag, row}
    /\ one_of_params_not_succeeded => one_of_params_not_succeeded'
    /\ one_of_params_not_succeeded' \in BOOLEAN
    /\ rc' \in {rc, "SUCCESS", "SUCCESS_WITH_INFO"}
    /\ \/ status' = status /\ ~params
       \/ /\ status' \in {[status EXCEPT ![row] = "SUCCESS"],
                          [status EXCEPT ![row] = "SUCCESS_WITH_INFO"]}
          /\ params
    /\ failed # {} /\ size = 1 => FALSE

LEMMA ReadyFacts ==
    ASSUME PInv, SetReady
    PROVE  /\ size \in Nat /\ size >= 1 /\ row \in 1..size /\ row \in Nat
           /\ TypeOK /\ Called /\ Called' /\ row \in Sets
           /\ \A i \in failed \cup done \cup ignored : i \in 1..size
           /\ UNCHANGED <<size, select, ssps, params, ignored, dae, done,
                         failed, lastError, all_parameters_failed,
                         connection_failure, sent>>
           /\ \/ select /\ pc' = "set" /\ row' = row + 1 /\ row < size
              \/ (select => row = size) /\ pc' = "query" /\ row' = row
<1>1. /\ size \in Nat /\ size >= 1 /\ row \in 1..size /\ row \in Nat
      /\ TypeOK /\ Called /\ row \in Sets
      /\ \A i \in failed \cup done \cup ignored : i \in 1..size
  BY Ranges DEF PInv, SInv, TypeOK, SetReady, Called
<1>2. UNCHANGED <<size, select, ssps, params, ignored, dae, done, failed,
                  lastError, all_parameters_failed, connection_failure, sent>>
  BY DEF SetReady, statement
<1>3. \/ select /\ pc' = "set" /\ row' = row + 1 /\ row < size
      \/ (select => row = size) /\ pc' = "query" /\ row' = row
  BY <1>1 DEF SetReady, Joined, NextSet
<1> QED
  BY <1>1, <1>2, <1>3 DEF Called

LEMMA ReadyHolds == ASSUME PInv, SetReady PROVE SInv'
<1>1. TypeOK'
  <2>1. BoolsOK'
    BY ReadyFacts, TypeParts DEF BoolsOK, SetReady
  <2>2. StatusOK'
    BY ReadyFacts, TypeParts DEF StatusOK, Codes, Sets, SetReady
  <2>3. rc' \in Codes \cup {"NEED_DATA", "NONE"} /\ diag' \in 0..size
    BY ReadyFacts, TypeParts DEF NumbersOK, SetReady, Codes
  <2>4. row' \in 1..size + 1 /\ row' <= size
    BY ReadyFacts
  <2>5. NumbersOK'
    BY <2>3, <2>4, ReadyFacts, TypeParts DEF NumbersOK, Codes, Sets
  <2> QED
    BY <2>1, <2>2, <2>5 DEF TypeOK, BoolsOK, NumbersOK, StatusOK
<1>2. Standing'
  <2>1. row \notin ignored /\ pc = "set"
    BY DEF SetReady
  <2>2. \A i \in failed : i < row
    BY <2>1, ReadyFacts DEF PInv, SInv, Standing
  <2> QED
    BY <2>1, <2>2, ReadyFacts DEF PInv, SInv, Standing
<1>3. Statuses'
  <2>1. row \notin ignored /\ pc = "set"
    BY DEF SetReady
  <2>3. params => \A i \in 1..size : i # row => status'[i] = status[i]
    <3>1. status \in [Sets -> Codes \cup {"NONE", "UNUSED",
                                         "DIAG_UNAVAILABLE"}]
      BY ReadyFacts, TypeParts DEF StatusOK
    <3>2. \A i \in 1..size : i \in Sets
      BY Ranges
    <3> QED
      BY <3>1, <3>2 DEF SetReady
  <2>4. \A i \in failed : i < row
    BY <2>1, ReadyFacts DEF PInv, SInv, Standing
  <2>0. /\ size' = size /\ select' = select /\ params' = params
        /\ failed' = failed /\ done' = done
    BY ReadyFacts
  <2> SUFFICES ASSUME params, NEW i \in 1..size
               PROVE
        /\ i \in failed /\ i < row' => status'[i] = "DIAG_UNAVAILABLE"
        /\ i < row' /\ ~select =>
               /\ status'[i] \in {"SUCCESS", "SUCCESS_WITH_INFO"}
                      => i \in done
               /\ status'[i] = "UNUSED" => i \notin done \cup failed
        /\ i > row' \/ (i = row' /\ pc' # "query") => status'[i] = "NONE"
    BY <2>0 DEF Statuses
  <2>5. /\ i \in failed /\ i < row => status[i] = "DIAG_UNAVAILABLE"
        /\ i < row /\ ~select =>
               /\ status[i] \in {"SUCCESS", "SUCCESS_WITH_INFO"}
                      => i \in done
               /\ status[i] = "UNUSED" => i \notin done \cup failed
        /\ i > row => status[i] = "NONE"
    BY ReadyFacts DEF PInv, SInv, Statuses
  <2>6. CASE select /\ pc' = "set" /\ row' = row + 1 /\ row < size
    BY <2>3, <2>4, <2>5, <2>6, ReadyFacts
  <2>7. CASE pc' = "query" /\ row' = row
    BY <2>3, <2>4, <2>5, <2>7, ReadyFacts
  <2> QED
    BY <2>6, <2>7, ReadyFacts
<1>4. NoMarkers' /\ LastOfFailed'
  BY ReadyFacts DEF SetReady, PInv, SInv, NoMarkers, LastOfFailed
<1>5. FlagsSay'
  BY ReadyFacts DEF SetReady, PInv, SInv, FlagsSay
<1>6. StatusTruthful' /\ OneErrorDiagnosed' /\ ReturnTruthful'
  BY ReadyFacts
     DEF StatusTruthful, OneErrorDiagnosed, ReturnTruthful, Called
<1> QED
  BY <1>1, <1>2, <1>3, <1>4, <1>5, <1>6 DEF SInv

LEMMA NotOneSet ==
    ASSUME PInv, pc = "set", size = 1 PROVE failed = {}
BY Ranges DEF PInv, SInv, Standing, Called, TypeOK

LEMMA NoParamsHolds == ASSUME PInv, NoParams PROVE PInv'
<1>1. SetReady
  BY NotOneSet, TypeParts
     DEF NoParams, SetReady, flags, PInv, SInv, BoolsOK
<1>2. BufferHolds'
  BY <1>1, ReadyFacts
     DEF NoParams, PInv, BufferHolds, Buffered, OfThisArray
<1> QED
  BY <1>1, <1>2, ReadyHolds DEF PInv

LEMMA OneMore ==
    ASSUME NEW S, NEW s \in Seq(S), NEW e \in S
    PROVE  /\ s \o <<e>> \in Seq(S) /\ Len(s \o <<e>>) = Len(s) + 1
           /\ Len(s) \in Nat
           /\ \A k \in 1..Len(s) + 1 :
                  (s \o <<e>>)[k] = IF k <= Len(s) THEN s[k] ELSE e
OBVIOUS

LEMMA TwoMore ==
    ASSUME NEW S, NEW s \in Seq(S), NEW e \in S, NEW f \in S
    PROVE  /\ s \o <<e, f>> \in Seq(S) /\ Len(s \o <<e, f>>) = Len(s) + 2
           /\ Len(s) \in Nat
           /\ \A k \in 1..Len(s) + 2 :
                  (s \o <<e, f>>)[k] = IF k <= Len(s) THEN s[k]
                                       ELSE IF k = Len(s) + 1 THEN e ELSE f
OBVIOUS

LEMMA InsertParamsHolds ==
    ASSUME PInv, NEW conversion \in Conversions, InsertParams(conversion)
    PROVE  PInv'
<1>1. SetReady
  <2>1. one_of_params_not_succeeded' \in BOOLEAN
    BY DEF InsertParams
  <2>2. one_of_params_not_succeeded => one_of_params_not_succeeded'
    BY DEF InsertParams
  <2> QED
    BY <2>1, <2>2, NotOneSet DEF InsertParams, SetReady, StatusOf
<1>2. /\ tempbuf \in Seq(Pieces) /\ OfThisArray(tempbuf)
      /\ sent \in Seq(Seq(Pieces)) /\ pc = "set" /\ params
      /\ row \in 1..size
  BY ReadyFacts, <1>1 DEF PInv, BufferHolds, InsertParams
<1>3. /\ Whole(row) \in Pieces /\ UnionAll \in Pieces
      /\ Whole(row)[1] = "whole" /\ Whole(row)[2] = row
      /\ UnionAll[1] = "union"
  BY <1>1, WholeIsPiece, ReadyFacts
<1>4. /\ size' = size /\ select' = select /\ ssps' = ssps
      /\ params' = params /\ failed' = failed /\ sent' = sent
  BY <1>1, ReadyFacts
<1> SUFFICES BufferHolds'
  BY <1>1, ReadyHolds DEF PInv
<1>5. CASE ssps
  <2>1. tempbuf' = tempbuf /\ ~Buffered'
    BY <1>4, <1>5 DEF InsertParams, Buffered
  <2>2. OfThisArray(tempbuf)'
    BY <1>2, <1>4, <2>1 DEF OfThisArray
  <2>3. select' /\ pc' = "query" => row' = size'
    BY <1>1, <1>4, ReadyFacts
  <2> QED
    BY <1>2, <1>4, <2>1, <2>2, <2>3 DEF BufferHolds
<1>6. CASE ~ssps /\ ~Joined
  <2>1. tempbuf' = tempbuf \o <<Whole(row)>> /\ pc' = "query" /\ row' = row
    BY <1>6 DEF InsertParams
  <2>2. /\ tempbuf' \in Seq(Pieces) /\ Len(tempbuf') = Len(tempbuf) + 1
        /\ Len(tempbuf) \in Nat
        /\ \A k \in 1..Len(tempbuf) + 1 :
               tempbuf'[k] = IF k <= Len(tempbuf) THEN tempbuf[k]
                             ELSE Whole(row)
    <3>1. tempbuf \in Seq(Pieces) /\ Whole(row) \in Pieces
      BY <1>2, <1>3
    <3> QED
      BY <2>1, <3>1, OneMore, Zenon
  <2>3. OfThisArray(tempbuf)'
    <3> SUFFICES ASSUME NEW k \in 1..Len(tempbuf'), tempbuf'[k][1] = "whole"
                 PROVE  tempbuf'[k][2] \in 1..size
      BY <1>4 DEF OfThisArray
    <3>1. CASE k <= Len(tempbuf)
      <4>1. tempbuf'[k] = tempbuf[k] /\ k \in 1..Len(tempbuf)
        BY <2>2, <3>1
      <4> QED
        BY <1>2, <4>1 DEF OfThisArray
    <3>2. CASE k = Len(tempbuf) + 1
      <4>1. tempbuf'[k] = Whole(row)
        BY <2>2, <3>2
      <4> QED
        BY <1>2, <1>3, <4>1
    <3> QED
      BY <2>2, <3>1, <3>2
  <2>4. tempbuf'[Len(tempbuf')] = Whole(row)
    BY <2>2
  <2>5. select => row = size
    BY <1>1, <2>1, ReadyFacts
  <2>6. failed = {} /\ ~select => Len(tempbuf') = 1
    BY <1>2, <1>6, <2>2 DEF PInv, BufferHolds, Buffered
  <2>7. failed = {} /\ select => Alternates(tempbuf)' /\ Len(tempbuf') % 2 = 1
    <3>1. failed = {} /\ select =>
              Alternates(tempbuf) /\ Len(tempbuf) % 2 = 0
      BY <1>2, <1>6 DEF PInv, BufferHolds, Buffered
    <3> QED
      BY <1>3, <2>2, <3>1 DEF Alternates
  <2>8. tempbuf' \in Seq(Pieces) /\ sent' \in Seq(Seq(Pieces))
    BY <1>2, <1>4, <2>2
  <2>9. Len(tempbuf') > 0 /\ tempbuf'[Len(tempbuf')] = Whole(row)'
    BY <2>1, <2>2, <2>4 DEF Whole
  <2> QED
    BY <1>4, <2>1, <2>3, <2>5, <2>6, <2>7, <2>8, <2>9 DEF BufferHolds
<1>7. CASE ~ssps /\ Joined
  <2>1. /\ tempbuf' = tempbuf \o <<Whole(row), UnionAll>>
        /\ pc' = "set" /\ select
    BY <1>1, <1>7, ReadyFacts DEF InsertParams, Joined
  <2>2. /\ tempbuf' \in Seq(Pieces) /\ Len(tempbuf') = Len(tempbuf) + 2
        /\ Len(tempbuf) \in Nat
        /\ \A k \in 1..Len(tempbuf) + 2 :
               tempbuf'[k] = IF k <= Len(tempbuf) THEN tempbuf[k]
                             ELSE IF k = Len(tempbuf) + 1 THEN Whole(row)
                             ELSE UnionAll
    <3>1. /\ tempbuf \in Seq(Pieces) /\ Whole(row) \in Pieces
          /\ UnionAll \in Pieces
      BY <1>2, <1>3
    <3> QED
      BY <2>1, <3>1, TwoMore
  <2>3. OfThisArray(tempbuf)'
    <3> SUFFICES ASSUME NEW k \in 1..Len(tempbuf'), tempbuf'[k][1] = "whole"
                 PROVE  tempbuf'[k][2] \in 1..size
      BY <1>4 DEF OfThisArray
    <3>1. CASE k <= Len(tempbuf)
      <4>1. tempbuf'[k] = tempbuf[k] /\ k \in 1..Len(tempbuf)
        BY <2>2, <3>1
      <4> QED
        BY <1>2, <4>1 DEF OfThisArray
    <3>2. CASE k = Len(tempbuf) + 1
      <4>1. tempbuf'[k] = Whole(row)
        BY <2>2, <3>2
      <4> QED
        BY <1>2, <1>3, <4>1
    <3>3. CASE k = Len(tempbuf) + 2
      <4>1. tempbuf'[k] = UnionAll
        BY <2>2, <3>3
      <4> QED
        BY <1>3, <4>1
    <3> QED
      BY <2>2, <3>1, <3>2, <3>3
  <2>4. failed = {} => Alternates(tempbuf)' /\ Len(tempbuf') % 2 = 0
    <3>1. failed = {} => Alternates(tempbuf) /\ Len(tempbuf) % 2 = 0
      BY <1>2, <1>7, <2>1 DEF PInv, BufferHolds, Buffered
    <3> QED
      BY <1>3, <2>2, <3>1, SMTT(30) DEF Alternates
  <2>5. tempbuf' \in Seq(Pieces) /\ sent' \in Seq(Seq(Pieces))
    BY <1>2, <1>4, <2>2
  <2> QED
    BY <1>4, <2>1, <2>3, <2>4, <2>5 DEF BufferHolds
<1> QED
  BY <1>5, <1>6, <1>7

(* The sets whose statements a text has.                                   *)
SetsOf(text) ==
    {text[k][2] : k \in {j \in 1..Len(text) : text[j][1] = "whole"}}

(* What the server runs: sets of this array, and if it is not a SELECT the *)
(* one at hand.                                                            *)
LEMMA SetsRun ==
    ASSUME PInv, pc = "query", WellFormed(Text)
    PROVE  /\ SetsOf(Text) \subseteq 1..size
           /\ ~select => SetsOf(Text) = {row}
<1>1. Text \in Seq(Pieces) /\ OfThisArray(Text)
  BY TextTypes
<1>2. SetsOf(Text) \subseteq 1..size
  BY <1>1 DEF SetsOf, OfThisArray
<1>3. ASSUME ~select PROVE SetsOf(Text) = {row}
  <2>1. Len(Text) = 1 /\ Text[1][1] = "whole"
    BY <1>3 DEF WellFormed
  <2>2. Text[1] = Whole(row)
    <3>1. CASE ssps \/ ~params
      BY <3>1 DEF Text
    <3>2. CASE ~(ssps \/ ~params)
      <4>1. Text = tempbuf /\ Buffered
        BY <3>2, TypeParts DEF Text, Buffered, PInv, SInv, BoolsOK
      <4> QED
        BY <2>1, <4>1 DEF PInv, BufferHolds
    <3> QED
      BY <3>1, <3>2
  <2>3. Text[1][2] = row
    BY <2>2, WholeIsPiece DEF PInv, SInv, TypeOK
  <2> QED
    BY <2>1, <2>3 DEF SetsOf
<1> QED
  BY <1>2, <1>3

LEMMA RunsFacts ==
    ASSUME PInv, QueryRuns
    PROVE  /\ size \in Nat /\ size >= 1 /\ row \in 1..size /\ row \in Nat
           /\ row \in Sets /\ TypeOK /\ pc = "query" /\ Called
           /\ \A i \in failed \cup done \cup ignored : i \in 1..size
           /\ \A i \in failed : i < row
           /\ row \notin failed \cup ignored
           /\ UNCHANGED <<size, select, ssps, params, ignored, dae, failed,
                         one_of_params_not_succeeded, connection_failure,
                         lastError, diag>>
           /\ row' = row + 1 /\ rc' = "SUCCESS"
           /\ all_parameters_failed' = FALSE
           /\ done' = done \cup SetsOf(Text)
           /\ status' = IF params THEN [status EXCEPT ![row] = "SUCCESS"]
                        ELSE status
<1>1. /\ size \in Nat /\ size >= 1 /\ row \in 1..size /\ row \in Nat
      /\ TypeOK /\ Called /\ row \in Sets /\ pc = "query"
      /\ \A i \in failed \cup done \cup ignored : i \in 1..size
  <2>1. pc = "query"
    BY DEF QueryRuns
  <2> QED
    BY <2>1, Ranges DEF PInv, SInv, TypeOK, Called
<1>2. (\A i \in failed : i < row) /\ row \notin ignored
  BY <1>1 DEF PInv, SInv, Standing
<1>3. row \notin failed
  BY <1>1, <1>2
<1>4. UNCHANGED <<size, select, ssps, params, ignored, dae, failed,
                  one_of_params_not_succeeded, connection_failure, lastError,
                  diag>>
  BY DEF QueryRuns, statement
<1>5. row' = row + 1 /\ rc' = "SUCCESS" /\ all_parameters_failed' = FALSE
  BY DEF QueryRuns, NextSet, NotAllFailed
<1>6. done' = done \cup SetsOf(Text)
  BY DEF QueryRuns, SetsOf
<1>7. status' = IF params THEN [status EXCEPT ![row] = "SUCCESS"] ELSE status
  BY DEF QueryRuns, QueryStatus, StatusOfQuery, StatusOf
<1> QED
  BY <1>1, <1>2, <1>3, <1>4, <1>5, <1>6, <1>7

LEMMA QueryRunsHolds == ASSUME PInv, QueryRuns PROVE PInv'
<1>1. /\ pc' \in {"set", "end"} /\ row' \in 1..size' + 1
      /\ pc' = "set" => row' <= size'
      /\ pc' = "end" => row' = size' + 1
      /\ pc' = "set" => ~select
  <2>1. select => row = size
    BY RunsFacts DEF PInv, BufferHolds
  <2>2. NextSet
    BY DEF QueryRuns
  <2>3. pc' = "set" => ~select
    BY <2>1, <2>2 DEF NextSet
  <2> QED
    BY <2>2, <2>3, RunsFacts, NextSetType
<1>2. /\ SetsOf(Text) \subseteq 1..size
      /\ ~select => done' = done \cup {row}
  BY RunsFacts, SetsRun DEF QueryRuns
<1>3. TypeOK'
  <2>1. BoolsOK'
    BY RunsFacts, TypeParts DEF BoolsOK
  <2>2. StatusOK'
    BY RunsFacts, TypeParts DEF StatusOK, Codes, Sets
  <2>3. done' \subseteq 1..size'
    BY <1>2, RunsFacts
  <2>4. NumbersOK'
    BY <1>1, <2>3, RunsFacts, TypeParts DEF NumbersOK, Codes, Sets
  <2> QED
    BY <2>1, <2>2, <2>4 DEF TypeOK, BoolsOK, NumbersOK, StatusOK
<1>4. Standing'
  <2>1. /\ size' = size /\ select' = select /\ failed' = failed
        /\ ignored' = ignored /\ row' = row + 1
    BY RunsFacts
  <2>2. \A i \in failed' : i < row'
    BY <2>1, RunsFacts
  <2>3. ~select => \A i \in 1..size :
               /\ i \in done => i < row /\ i \notin failed \cup ignored
               /\ i < row => i \in done \cup failed \cup ignored
               /\ i \in ignored => i \notin failed
    BY RunsFacts DEF PInv, SInv, Standing
  <2>4. row \in Nat /\ size \in Nat /\ row \notin failed \cup ignored
    BY RunsFacts
  <2>5. ~select' => \A i \in 1..size' :
               /\ i \in done' => i < row' /\ i \notin failed' \cup ignored'
               /\ i < row' => i \in done' \cup failed' \cup ignored'
               /\ i \in ignored' => i \notin failed'
    BY <1>2, <2>1, <2>3, <2>4
  <2> QED
    BY <1>1, <2>2, <2>5 DEF Standing
<1>5. Statuses'
  <2>1. params => status'[row] = "SUCCESS" /\
                  \A i \in 1..size : i # row => status'[i] = status[i]
    <3>1. status \in [Sets -> Codes \cup {"NONE", "UNUSED",
                                         "DIAG_UNAVAILABLE"}]
      BY RunsFacts, TypeParts DEF StatusOK
    <3> QED
      BY <3>1, RunsFacts, Ranges
  <2> SUFFICES ASSUME params, NEW i \in 1..size
               PROVE
        /\ i \in failed /\ i < row' => status'[i] = "DIAG_UNAVAILABLE"
        /\ i < row' /\ ~select =>
               /\ status'[i] \in {"SUCCESS", "SUCCESS_WITH_INFO"}
                      => i \in done'
               /\ status'[i] = "UNUSED" => i \notin done' \cup failed
        /\ i > row' \/ (i = row' /\ pc' # "query") => status'[i] = "NONE"
    <3>1. /\ size' = size /\ select' = select /\ failed' = failed
          /\ params' = params
      BY RunsFacts
    <3> QED
      BY <3>1 DEF Statuses
  <2>2. /\ i \in failed /\ i < row => status[i] = "DIAG_UNAVAILABLE"
        /\ i < row /\ ~select =>
               /\ status[i] \in {"SUCCESS", "SUCCESS_WITH_INFO"}
                      => i \in done
               /\ status[i] = "UNUSED" => i \notin done \cup failed
        /\ i > row => status[i] = "NONE"
    BY RunsFacts DEF PInv, SInv, Statuses
  <2>3. CASE i = row
    BY <1>2, <2>1, <2>3, RunsFacts
  <2>4. CASE i < row
    BY <1>2, <2>1, <2>2, <2>4, RunsFacts
  <2>5. CASE i > row
    BY <1>2, <2>1, <2>2, <2>5, RunsFacts
  <2>6. i = row \/ i < row \/ i > row
    BY RunsFacts
  <2> QED
    BY <2>3, <2>4, <2>5, <2>6
<1>6. NoMarkers' /\ LastOfFailed'
  <2>1. /\ size' = size /\ failed' = failed /\ params' = params
        /\ dae' = dae /\ ignored' = ignored /\ lastError' = lastError
        /\ (~params => status' = status) /\ Called
    BY RunsFacts
  <2>2. NoMarkers'
    BY <2>1 DEF PInv, SInv, NoMarkers
  <2>3. LastOfFailed'
    BY <2>1 DEF PInv, SInv, LastOfFailed
  <2> QED
    BY <2>2, <2>3
<1>7. FlagsSay'
  <2>1. failed # {} => one_of_params_not_succeeded
    BY RunsFacts DEF PInv, SInv, FlagsSay
  <2>2. ~select => row \in done'
    BY <1>2
  <2>3. size = 1 => failed = {}
    BY RunsFacts
  <2> QED
    BY <2>1, <2>2, <2>3, RunsFacts DEF FlagsSay
<1>8. StatusTruthful' /\ OneErrorDiagnosed' /\ ReturnTruthful'
  BY <1>1 DEF StatusTruthful, OneErrorDiagnosed, ReturnTruthful
<1>9. BufferHolds'
  <2>1. tempbuf' = BufferSent(tempbuf) /\ sent' = Append(sent, Text)
    BY DEF QueryRuns
  <2>2. tempbuf' \in Seq(Pieces) /\ OfThisArray(tempbuf)'
    BY <2>1, RunsFacts, TextTypes DEF OfThisArray
  <2>3. sent' \in Seq(Seq(Pieces))
    <3>1. sent \in Seq(Seq(Pieces))
      BY DEF PInv, BufferHolds
    <3> QED
      BY <2>1, <3>1, RunsFacts, TextTypes, AppendType
  <2>4. Buffered' => tempbuf' = <<>>
    BY <2>1, RunsFacts DEF Buffered, BufferSent
  <2>5. pc' # "query" /\ (pc' = "set" => ~select')
    BY <1>1, RunsFacts
  <2> QED
    BY <2>2, <2>3, <2>4, <2>5 DEF BufferHolds
<1> QED
  BY <1>3, <1>4, <1>5, <1>6, <1>7, <1>8, <1>9 DEF PInv, SInv

(* Return: what the flags say is made the return code, and the last error  *)
(* the one with a diagnostic.                                              *)
LEMMA ReturnHolds == ASSUME PInv, Return PROVE PInv'
<1>1. /\ size \in Nat /\ size >= 1 /\ row \in Nat /\ row <= size + 1
      /\ TypeOK /\ pc = "end" /\ Called /\ 1..size \subseteq Sets
      /\ \A i \in failed \cup done \cup ignored : i \in 1..size
      /\ lastError \in 0..size
  <2>1. pc = "end"
    BY DEF Return
  <2> QED
    BY <2>1, Ranges DEF PInv, SInv, TypeOK, Called
<1>2. /\ size' = size /\ select' = select /\ ssps' = ssps
      /\ params' = params /\ ignored' = ignored /\ dae' = dae
      /\ row' = row /\ tempbuf' = tempbuf /\ diag' = diag /\ sent' = sent
      /\ done' = done /\ failed' = failed /\ lastError' = lastError
      /\ UNCHANGED <<one_of_params_not_succeeded, all_parameters_failed,
                     connection_failure>>
      /\ pc' = "idle" /\ rc' = ReturnCode
      /\ status' = [i \in Sets |-> FinalStatus(status, i)]
  BY DEF Return, statement, flags
<1>3. \A i \in 1..size : status'[i] = FinalStatus(status, i)
  BY <1>1, <1>2
<1>4. TypeOK'
  <2>1. BoolsOK'
    BY <1>1, <1>2, TypeParts DEF BoolsOK
  <2>2. StatusOK'
    <3>1. \A i \in Sets : FinalStatus(status, i) \in
              Codes \cup {"NONE", "UNUSED", "DIAG_UNAVAILABLE"}
      BY <1>1, TypeParts DEF FinalStatus, StatusOK, Codes
    <3> QED
      BY <1>2, <3>1 DEF StatusOK, Codes, Sets
  <2>3. rc' \in Codes \cup {"NEED_DATA", "NONE"}
    BY <1>1, <1>2, TypeParts DEF ReturnCode, NumbersOK, Codes
  <2>4. NumbersOK'
    BY <1>1, <1>2, <2>3, TypeParts DEF NumbersOK, Codes, Sets
  <2> QED
    BY <2>1, <2>2, <2>4 DEF TypeOK, BoolsOK, NumbersOK, StatusOK
<1>5. row = size + 1 \/ row \in failed
  BY <1>1 DEF PInv, SInv, Standing
<1>6. \A i \in failed : i <= row
  BY <1>1 DEF PInv, SInv, Standing
<1>7. StatusTruthful'
  <2> SUFFICES ASSUME ~select, NEW i \in 1..size
               PROVE
        /\ status'[i] \in {"SUCCESS", "SUCCESS_WITH_INFO"} => i \in done
        /\ status'[i] = "UNUSED" => i \notin done \cup failed
    BY <1>2 DEF StatusTruthful
  <2>1. status'[i] = FinalStatus(status, i)
    BY <1>3
  <2>2. /\ i \in done => i < row /\ i \notin failed \cup ignored
        /\ params /\ i < row =>
               /\ status[i] \in {"SUCCESS", "SUCCESS_WITH_INFO"}
                      => i \in done
               /\ status[i] = "UNUSED" => i \notin done \cup failed
        /\ params /\ i >= row => status[i] = "NONE"
        /\ ~params => status[i] = "NONE"
    BY <1>1 DEF PInv, SInv, Standing, Statuses, NoMarkers
  <2>3. CASE i = lastError
    BY <2>1, <2>3 DEF FinalStatus
  <2>4. CASE i # lastError /\ i > row /\ params
    <3>1. i \notin done \cup failed
      BY <1>1, <1>6, <2>2, <2>4
    <3>2. status'[i] = "UNUSED"
      BY <1>1, <2>1, <2>4 DEF FinalStatus
    <3> QED
      BY <3>1, <3>2
  <2>5. CASE i # lastError /\ ~(i > row /\ params)
    <3>1. status'[i] = status[i]
      BY <2>1, <2>5 DEF FinalStatus
    <3> QED
      BY <1>1, <2>2, <3>1
  <2> QED
    BY <2>3, <2>4, <2>5
<1>8. OneErrorDiagnosed'
  <2> SUFFICES ASSUME params, NEW i \in failed
               PROVE  status'[i] = IF \A j \in failed : j <= i THEN "ERROR"
                                   ELSE "DIAG_UNAVAILABLE"
    BY <1>2 DEF OneErrorDiagnosed
  <2>1. status'[i] = FinalStatus(status, i) /\ i \in 1..size
    BY <1>1, <1>3
  <2>2. lastError \in failed /\ \A j \in failed : j <= lastError
    BY <1>1 DEF PInv, SInv, LastOfFailed
  <2>3. i = lastError <=> \A j \in failed : j <= i
    BY <1>1, <2>2
  <2>4. CASE i = lastError
    BY <2>1, <2>3, <2>4 DEF FinalStatus
  <2>5. CASE i # lastError
    <3>1. i < row /\ ~(i > row)
      <4>1. lastError \in Nat /\ i \in Nat /\ lastError <= row
        BY <1>1, <1>6, <2>1, <2>2
      <4> QED
        BY <1>1, <2>2, <2>5, <4>1
    <3>2. status[i] = "DIAG_UNAVAILABLE"
      BY <1>1, <2>1, <3>1 DEF PInv, SInv, Statuses
    <3>3. status'[i] = status[i]
      BY <2>1, <2>5, <3>1 DEF FinalStatus
    <3> QED
      BY <2>3, <2>5, <3>2, <3>3
  <2> QED
    BY <2>4, <2>5
<1>9. ReturnTruthful'
  <2> SUFFICES ASSUME ~select
               PROVE
        /\ ReturnCode = "SUCCESS" =>
               failed = {} /\ done = 1..size \ ignored
        /\ ReturnCode = "ERROR" => done = {}
    BY <1>2 DEF ReturnTruthful
  <2>1. /\ failed # {} => one_of_params_not_succeeded
        /\ all_parameters_failed <=> size > 1 /\ done = {}
        /\ rc = "ERROR" => failed # {}
        /\ size = 1 /\ failed # {} => rc = "ERROR"
    BY <1>1 DEF PInv, SInv, FlagsSay
  <2>2. \A i \in 1..size :
               /\ i \in done => i < row /\ i \notin failed \cup ignored
               /\ i < row => i \in done \cup failed \cup ignored
    BY <1>1 DEF PInv, SInv, Standing
  <2>3. failed = {} => done = 1..size \ ignored
    <3> SUFFICES ASSUME failed = {} PROVE done = 1..size \ ignored
      OBVIOUS
    <3>1. row = size + 1
      BY <1>5
    <3>2. \A i \in 1..size : i < row
      BY <1>1, <3>1
    <3> QED
      BY <1>1, <2>2, <3>2
  <2>4. size = 1 /\ failed # {} => done = {}
    BY <1>1, <2>2
  <2>5. CASE size = 1
    BY <2>1, <2>3, <2>4, <2>5 DEF ReturnCode
  <2>6. CASE size > 1 /\ all_parameters_failed
    BY <2>1, <2>6 DEF ReturnCode
  <2>7. CASE size > 1 /\ ~all_parameters_failed
    BY <2>1, <2>3, <2>7 DEF ReturnCode
  <2> QED
    BY <1>1, <2>5, <2>6, <2>7
<1>10. BufferHolds'
  BY <1>2 DEF PInv, BufferHolds, OfThisArray
<1> QED
  BY <1>2, <1>4, <1>7, <1>8, <1>9, <1>10
     DEF PInv, SInv, Standing, Statuses, NoMarkers, LastOfFailed, FlagsSay,
         Called

LEMMA StutterHolds == ASSUME PInv, UNCHANGED vars PROVE PInv'
<1>1. /\ pc' = pc /\ size' = size /\ select' = select /\ ssps' = ssps
      /\ params' = params /\ ignored' = ignored /\ dae' = dae
      /\ row' = row /\ tempbuf' = tempbuf /\ rc' = rc
      /\ one_of_params_not_succeeded' = one_of_params_not_succeeded
      /\ all_parameters_failed' = all_parameters_failed
      /\ connection_failure' = connection_failure
      /\ lastError' = lastError /\ status' = status /\ diag' = diag
      /\ sent' = sent /\ done' = done /\ failed' = failed
  BY DEF vars
<1>2. TypeOK'
  BY <1>1 DEF PInv, SInv, TypeOK, Sets, Codes
<1>3. Standing' /\ Statuses' /\ NoMarkers' /\ LastOfFailed' /\ FlagsSay'
  BY <1>1 DEF PInv, SInv, Standing, Statuses, NoMarkers, LastOfFailed,
     FlagsSay, Called
<1>4. StatusTruthful' /\ OneErrorDiagnosed' /\ ReturnTruthful'
  BY <1>1 DEF PInv, SInv, StatusTruthful, OneErrorDiagnosed, ReturnTruthful
<1>5. BufferHolds'
  BY <1>1 DEF PInv, BufferHolds, OfThisArray, Alternates, Buffered, Whole
<1> QED
  BY <1>2, <1>3, <1>4, <1>5 DEF PInv, SInv

LEMMA NextHolds == ASSUME PInv, [Next]_vars PROVE PInv'
<1>1. CASE SQLExecute
  BY <1>1, ExecuteHolds
<1>2. CASE IgnoreSet
  BY <1>2, IgnoreHolds
<1>3. CASE DaeInArray
  BY <1>3, DaeInArrayHolds
<1>4. CASE NeedData
  BY <1>4, NeedDataHolds
<1>5. CASE NoParams
  BY <1>5, NoParamsHolds
<1>6. CASE \E conversion \in Conversions :
              InsertParams(conversion) \/ InsertParamsFails(conversion)
  BY <1>6, InsertParamsHolds, InsertParamsFailsHolds
<1>7. CASE QueryAfterLoss \/ QueryNotSent \/ QueryRefused
  BY <1>7, FailedQueryHolds
<1>8. CASE QueryRuns
  BY <1>8, QueryRunsHolds
<1>9. CASE Return
  BY <1>9, ReturnHolds
<1>10. CASE UNCHANGED vars
  BY <1>10, StutterHolds
<1> QED
  BY <1>1, <1>2, <1>3, <1>4, <1>5, <1>6, <1>7, <1>8, <1>9, <1>10 DEF Next

(* The invariant holds in every state of a call of SQLExecute.             *)
THEOREM CallInvariant == Spec => []PInv
<1>1. Init => PInv
  BY InitHolds
<1>2. PInv /\ [Next]_vars => PInv'
  BY NextHolds
<1> QED
  BY <1>1, <1>2, PTL DEF Spec

(* When SQLExecute returns, the status of a set is success only if the     *)
(* server ran it and unused only if it was not touched, and SQL_PARAM_ERROR*)
(* is the status of the last set that failed and of no other that did,     *)
(* whatever the size of the array.                                         *)
THEOREM SetsAreReported == Spec => []SetsReported
<1>1. PInv => SetsReported
  BY DEF PInv, SInv, SetsReported
<1> QED
  BY <1>1, CallInvariant, PTL

(* SQL_SUCCESS means that every set that was not ignored was executed, and *)
(* SQL_ERROR that none was: the flags that my_SQLExecute keeps through the *)
(* loop are enough to tell.                                                *)
THEOREM ReturnIsTruthful == Spec => []ReturnTruthful
<1>1. PInv => ReturnTruthful
  BY DEF PInv, SInv
<1> QED
  BY <1>1, CallInvariant, PTL

LEMMA TextUntilFailure ==
    ASSUME PInv, [Next]_vars, failed = {}, Len(sent') > Len(sent)
    PROVE  WellFormed(sent'[Len(sent')])
<1>1. sent \in Seq(Seq(Pieces)) /\ Len(sent) \in Nat
  BY DEF PInv, BufferHolds
<1>2. sent' # sent
  BY <1>1
<1>3. ~SQLExecute
  <2> SUFFICES ASSUME SQLExecute PROVE FALSE
    OBVIOUS
  <2>1. sent' = <<>>
    BY DEF SQLExecute
  <2> QED
    BY <1>1, <2>1
<1>4. QueryRefused \/ QueryRuns
  BY <1>2, <1>3
     DEF Next, vars, IgnoreSet, DaeInArray, NeedData, NoParams, Return,
         InsertParams, InsertParamsFails, QueryAfterLoss, QueryNotSent
<1>5. pc = "query" /\ sent' = Append(sent, Text)
  BY <1>2, <1>4 DEF QueryRefused, QueryRuns
<1>6. sent'[Len(sent')] = Text
  BY <1>1, <1>5, TextTypes, AppendType
<1>7. WellFormed(Text)
  <2>1. CASE ssps \/ ~params
    <3>1. Text = <<Whole(row)>>
      BY <2>1 DEF Text
    <3>2. Len(Text) = 1 /\ Text[1][1] = "whole"
      BY <3>1 DEF Whole
    <3> QED
      BY <3>2 DEF WellFormed
  <2>2. CASE ~(ssps \/ ~params)
    <3>1. Text = tempbuf /\ Buffered
      BY <2>2, TypeParts DEF Text, Buffered, PInv, SInv, BoolsOK
    <3>2. CASE select
      BY <1>5, <3>1, <3>2 DEF PInv, BufferHolds, WellFormed, Alternates
    <3>3. CASE ~select
      <4>1. Len(tempbuf) = 1 /\ tempbuf[1] = Whole(row)
        BY <1>5, <3>1, <3>3 DEF PInv, BufferHolds
      <4>2. tempbuf[1][1] = "whole"
        BY <4>1 DEF Whole
      <4> QED
        BY <3>1, <3>3, <4>1, <4>2 DEF WellFormed
    <3> QED
      BY <3>2, <3>3
  <2> QED
    BY <2>1, <2>2
<1> QED
  BY <1>6, <1>7

(* Until the first set fails, every text sent is the statement with one set*)
(* in place of its markers, or such SELECTs joined by UNION ALL: only a set*)
(* that failed leaves pieces behind in the buffer.                         *)
THEOREM TextsAreSound == Spec => TextsUntilFailure
<1>1. PInv /\ [Next]_vars =>
          [failed = {} /\ Len(sent') > Len(sent) =>
              WellFormed(sent'[Len(sent')])]_vars
  BY TextUntilFailure
<1> QED
  BY <1>1, CallInvariant, PTL DEF Spec, TextsUntilFailure

-----------------------------------------------------------------------------
(* The SELECTs of an array.  The pieces of a text are whole statements, if *)
(* no set broke off in the middle of its own.                              *)
NoPart(text) == \A k \in 1..Len(text) : text[k][1] # "part"

(* The sets up to r that are neither ignored nor failed.                   *)
Left(r) == (1..r) \ (ignored \cup failed)

(* While the query is gathered nothing was run, and a buffer that can be   *)
(* sent has exactly the sets that are left; afterwards none was run, or all*)
(* of those.                                                               *)
Gathering ==
    Called /\ select /\ params =>
        /\ ssps => size = 1
        /\ pc # "end" => done = {} /\ (all_parameters_failed <=> size > 1)
        /\ pc = "set" /\ row = 1 => rc = "SUCCESS"
        /\ pc = "set" /\ ~ssps /\ NoPart(tempbuf) =>
               SetsOf(tempbuf) = Left(row - 1)
        /\ pc = "query" /\ ~ssps /\ NoPart(tempbuf) =>
               SetsOf(tempbuf) = Left(row)
        /\ pc = "end" =>
               \/ /\ done = {} /\ (all_parameters_failed <=> size > 1)
                  /\ size = 1 => \/ rc = "ERROR"
                                 \/ /\ rc = "SUCCESS" /\ failed = {}
                                    /\ ignored = {1}
               \/ /\ done = Left(size) /\ done # {} /\ rc = "SUCCESS"
                  /\ ~all_parameters_failed

GInv == PInv /\ Gathering /\ SelectTruthful

(* A piece added to a text.                                                *)
LEMMA PieceMore ==
    ASSUME NEW s \in Seq(Pieces), NEW e \in Pieces
    PROVE  /\ Append(s, e) \in Seq(Pieces)
           /\ NoPart(Append(s, e)) <=> NoPart(s) /\ e[1] # "part"
           /\ e[1] = "whole" => SetsOf(Append(s, e)) = SetsOf(s) \cup {e[2]}
           /\ e[1] # "whole" => SetsOf(Append(s, e)) = SetsOf(s)
<1> DEFINE t == Append(s, e)
<1>1. /\ t \in Seq(Pieces) /\ Len(t) = Len(s) + 1 /\ Len(s) \in Nat
      /\ \A k \in 1..Len(s) : t[k] = s[k]
      /\ t[Len(s) + 1] = e
  OBVIOUS
<1>2. \A k : k \in 1..Len(t) <=> k \in 1..Len(s) \/ k = Len(s) + 1
  BY <1>1
<1> HIDE DEF t
<1>3. NoPart(t) <=> NoPart(s) /\ e[1] # "part"
  BY <1>1, <1>2 DEF NoPart
<1>4. \A x : x \in SetsOf(t) <=>
                x \in SetsOf(s) \/ (e[1] = "whole" /\ x = e[2])
  <2> TAKE x
  <2>1. x \in SetsOf(t) <=>
            \E k \in 1..Len(t) : t[k][1] = "whole" /\ x = t[k][2]
    BY DEF SetsOf
  <2>2. x \in SetsOf(s) <=>
            \E k \in 1..Len(s) : s[k][1] = "whole" /\ x = s[k][2]
    BY DEF SetsOf
  <2> QED
    BY <1>1, <1>2, <2>1, <2>2
<1>5. e[1] = "whole" => SetsOf(t) = SetsOf(s) \cup {e[2]}
  BY <1>4
<1>6. e[1] # "whole" => SetsOf(t) = SetsOf(s)
  BY <1>4
<1> QED
  BY <1>1, <1>3, <1>5, <1>6 DEF t

(* A step within a call leaves its arguments alone.                        *)
SameCall == UNCHANGED <<size, select, ssps, params, ignored>>

LEMMA LeftMore ==
    ASSUME PInv, row <= size
    PROVE  /\ row \in ignored \cup failed => Left(row) = Left(row - 1)
           /\ row \notin ignored \cup failed
                  => Left(row) = Left(row - 1) \cup {row}
BY Ranges DEF Left

LEMMA GatherIgnored ==
    ASSUME GInv, IgnoreSet, select, params
    PROVE  Gathering'
<1>1. /\ PInv /\ pc = "set" /\ row \in ignored /\ Called /\ row <= size
      /\ SameCall /\ row' = row + 1 /\ size \in Nat /\ row \in Nat
      /\ row >= 1 /\ tempbuf' = tempbuf /\ rc' = rc /\ done' = done
      /\ failed' = failed /\ all_parameters_failed' = all_parameters_failed
      /\ pc' = IF row = size THEN "end" ELSE "set"
      /\ \A i \in ignored : i \in 1..size
  BY Ranges DEF GInv, IgnoreSet, NextSet, statement, flags, SameCall, Called,
     PInv, SInv, TypeOK
<1>2. /\ ssps => size = 1
      /\ done = {} /\ (all_parameters_failed <=> size > 1)
      /\ row = 1 => rc = "SUCCESS"
      /\ ~ssps /\ NoPart(tempbuf) => SetsOf(tempbuf) = Left(row - 1)
  BY <1>1 DEF GInv, Gathering
<1>3. /\ NoPart(tempbuf)' = NoPart(tempbuf)
      /\ SetsOf(tempbuf)' = SetsOf(tempbuf)
      /\ Left(row - 1)' = Left(row)
  BY <1>1 DEF NoPart, SetsOf, Left, SameCall
<1>4. Left(row) = Left(row - 1)
  BY <1>1, LeftMore
<1>5. CASE row = size
  <2>1. ASSUME size = 1 PROVE rc = "SUCCESS" /\ failed = {} /\ ignored = {1}
    <3>1. failed = {} /\ row = 1 /\ \A i \in ignored : i = 1
      BY <1>1, <1>5, <2>1, NotOneSet
    <3> QED
      BY <1>1, <1>2, <3>1
  <2> QED
    BY <1>1, <1>2, <1>5, <2>1 DEF Gathering, SameCall
<1>6. CASE row # size
  BY <1>1, <1>2, <1>3, <1>4, <1>6 DEF Gathering, SameCall
<1> QED
  BY <1>5, <1>6

LEMMA GatherDae ==
    ASSUME GInv, DaeInArray, select, params
    PROVE  Gathering'
BY DEF GInv, DaeInArray, statement, Gathering, Called

(* A set fails: it leaves a beginning in the buffer, or nothing; or the    *)
(* query of them all fails.                                                *)
LEMMA GatherFailure ==
    ASSUME GInv, SetFails, select, params,
           pc = "set" => \/ tempbuf' = tempbuf
                         \/ tempbuf' = Append(tempbuf, Part(row))
    PROVE  Gathering'
<1>1. /\ PInv /\ pc \in {"set", "query"} /\ Called /\ row <= size
      /\ SameCall /\ row' = row + 1 /\ size \in Nat /\ row \in Nat
      /\ row >= 1 /\ rc' = "ERROR" /\ done' = done
      /\ failed' = failed \cup {row} /\ tempbuf \in Seq(Pieces)
      /\ all_parameters_failed' = all_parameters_failed
      /\ pc' = IF row = size THEN "end" ELSE "set"
      /\ pc = "query" => row = size
  BY Ranges DEF GInv, SetFails, NextSet, statement, SameCall, Called, PInv,
     SInv, TypeOK, BufferHolds
<1>2. /\ ssps => size = 1
      /\ done = {} /\ (all_parameters_failed <=> size > 1)
      /\ pc = "set" /\ ~ssps /\ NoPart(tempbuf) =>
             SetsOf(tempbuf) = Left(row - 1)
  BY <1>1 DEF GInv, Gathering
<1>3. CASE row = size
  BY <1>1, <1>2, <1>3 DEF Gathering, SameCall
<1>4. CASE row # size
  <2>1. Left(row - 1)' = Left(row - 1)
    BY <1>1 DEF Left, SameCall
  <2>2. CASE tempbuf' = tempbuf
    <3>1. /\ NoPart(tempbuf)' = NoPart(tempbuf)
          /\ SetsOf(tempbuf)' = SetsOf(tempbuf)
      BY <2>2 DEF NoPart, SetsOf
    <3> QED
      BY <1>1, <1>2, <1>4, <2>1, <3>1 DEF Gathering, SameCall
  <2>3. CASE tempbuf' = Append(tempbuf, Part(row))
    <3>1. ~NoPart(Append(tempbuf, Part(row)))
      BY <1>1, WholeIsPiece, PieceMore
    <3>2. ~NoPart(tempbuf)'
      BY <2>3, <3>1 DEF NoPart
    <3> QED
      BY <1>1, <1>2, <1>4, <3>2 DEF Gathering, SameCall
  <2> QED
    BY <1>1, <1>4, <2>2, <2>3
<1> QED
  BY <1>3, <1>4

(* A set is converted: its statement is added to the text.                 *)
LEMMA GatherReady ==
    ASSUME GInv, NEW conversion \in Conversions, InsertParams(conversion),
           select, params
    PROVE  Gathering'
<1>1. SetReady
  <2>1. one_of_params_not_succeeded' \in BOOLEAN
    BY DEF InsertParams
  <2>2. one_of_params_not_succeeded => one_of_params_not_succeeded'
    BY DEF InsertParams
  <2> QED
    BY <2>1, <2>2, NotOneSet DEF InsertParams, SetReady, StatusOf, GInv
<1>2. /\ PInv /\ pc = "set" /\ row \notin ignored /\ Called /\ row <= size
      /\ SameCall /\ size \in Nat /\ row \in Nat /\ row >= 1
      /\ done' = done /\ failed' = failed /\ tempbuf \in Seq(Pieces)
      /\ all_parameters_failed' = all_parameters_failed
      /\ \/ pc' = "set" /\ row' = row + 1 /\ row < size
         \/ row = size /\ pc' = "query" /\ row' = row
  <2>1. PInv /\ pc = "set" /\ row \notin ignored /\ tempbuf \in Seq(Pieces)
    BY <1>1 DEF GInv, SetReady, PInv, BufferHolds
  <2>2. row <= size /\ row >= 1
    BY <1>1, <2>1, ReadyFacts
  <2> QED
    BY <1>1, <2>1, <2>2, ReadyFacts DEF SameCall
<1>3. /\ ssps => size = 1
      /\ done = {} /\ (all_parameters_failed <=> size > 1)
      /\ ~ssps /\ NoPart(tempbuf) => SetsOf(tempbuf) = Left(row - 1)
  BY <1>2 DEF GInv, Gathering
<1>4. row \notin failed
  BY <1>2 DEF PInv, SInv, Standing
<1>5. Left(row) = Left(row - 1) \cup {row}
  BY <1>2, <1>4, LeftMore
<1>6. /\ Whole(row) \in Pieces /\ UnionAll \in Pieces
      /\ Whole(row)[1] = "whole" /\ Whole(row)[2] = row
      /\ UnionAll[1] = "union"
  BY <1>2, WholeIsPiece
<1>7. CASE row = size
  <2>1. pc' = "query" /\ row' = row /\ ~Joined
    BY <1>2, <1>7 DEF Joined
  <2>2. ~ssps => tempbuf' = Append(tempbuf, Whole(row))
    BY <1>2, <2>1 DEF InsertParams
  <2>3. ~ssps /\ NoPart(tempbuf)' => SetsOf(tempbuf)' = Left(row)
    <3>1. /\ NoPart(Append(tempbuf, Whole(row))) => NoPart(tempbuf)
          /\ SetsOf(Append(tempbuf, Whole(row))) = SetsOf(tempbuf) \cup {row}
      BY <1>2, <1>6, PieceMore
    <3>2. ~ssps /\ NoPart(tempbuf') => SetsOf(tempbuf') = Left(row)
      BY <1>3, <1>5, <2>2, <3>1
    <3> QED
      BY <3>2 DEF NoPart, SetsOf
  <2>4. Left(row)' = Left(row)
    BY <1>2, <2>1 DEF Left, SameCall
  <2> QED
    BY <1>2, <1>3, <2>1, <2>3, <2>4 DEF Gathering, SameCall
<1>8. CASE row # size
  <2>1. pc' = "set" /\ row' = row + 1 /\ Joined
    BY <1>2, <1>8 DEF Joined
  <2>2. ~ssps => tempbuf' = Append(Append(tempbuf, Whole(row)), UnionAll)
    BY <1>2, <1>6, <2>1 DEF InsertParams
  <2>3. ~ssps /\ NoPart(tempbuf)' => SetsOf(tempbuf)' = Left(row)
    <3> DEFINE t == Append(tempbuf, Whole(row))
    <3>1. /\ NoPart(t) => NoPart(tempbuf)
          /\ SetsOf(t) = SetsOf(tempbuf) \cup {row} /\ t \in Seq(Pieces)
      BY <1>2, <1>6, PieceMore
    <3> HIDE DEF t
    <3>2. /\ NoPart(Append(t, UnionAll)) => NoPart(t)
          /\ SetsOf(Append(t, UnionAll)) = SetsOf(t)
      BY <1>6, <3>1, PieceMore
    <3>3. ~ssps => tempbuf' = Append(t, UnionAll)
      BY <2>2 DEF t
    <3>4. ~ssps /\ NoPart(tempbuf') => SetsOf(tempbuf') = Left(row)
      BY <1>3, <1>5, <3>1, <3>2, <3>3
    <3> QED
      BY <3>4 DEF NoPart, SetsOf
  <2>4. Left(row - 1)' = Left(row)
    BY <1>2, <2>1 DEF Left, SameCall
  <2> QED
    BY <1>2, <1>3, <2>1, <2>3, <2>4 DEF Gathering, SameCall
<1> QED
  BY <1>7, <1>8

(* The query runs: the buffer has the statements of all sets that are left.*)
LEMMA GatherRun ==
    ASSUME GInv, QueryRuns, select, params
    PROVE  Gathering'
<1>1. /\ PInv /\ pc = "query" /\ Called /\ row = size /\ size \in Nat
      /\ size >= 1 /\ SameCall /\ failed' = failed /\ rc' = "SUCCESS"
      /\ all_parameters_failed' = FALSE /\ row \notin failed \cup ignored
      /\ done' = done \cup SetsOf(Text)
  BY RunsFacts DEF GInv, SameCall, PInv, BufferHolds
<1>2. pc' = "end" /\ WellFormed(Text)
  BY <1>1 DEF QueryRuns, NextSet
<1>3. /\ ssps => size = 1
      /\ done = {}
      /\ ~ssps /\ NoPart(tempbuf) => SetsOf(tempbuf) = Left(row)
  BY <1>1 DEF GInv, Gathering
<1>4. size \in Left(size)
  BY <1>1 DEF Left
<1>5. SetsOf(Text) = Left(size)
  <2>1. CASE ssps
    <3>1. Text = <<Whole(row)>> /\ size = 1
      BY <1>3, <2>1 DEF Text
    <3>2. SetsOf(Text) = {1}
      BY <1>1, <3>1 DEF SetsOf, Whole
    <3>3. Left(1) = {1}
      BY <1>1, <3>1 DEF Left
    <3> QED
      BY <3>1, <3>2, <3>3
  <2>2. CASE ~ssps
    <3>1. Text = tempbuf
      BY <2>2 DEF Text
    <3>2. \A k \in 1..Len(Text) : Text[k][1] = "whole" \/ Text[k] = UnionAll
      BY <1>2 DEF WellFormed
    <3>3. NoPart(tempbuf)
      BY <3>1, <3>2 DEF NoPart, UnionAll
    <3> QED
      BY <1>1, <1>3, <2>2, <3>1, <3>3
  <2> QED
    BY <2>1, <2>2
<1>6. Left(size)' = Left(size)
  BY <1>1 DEF Left, SameCall
<1>7. done' = Left(size) /\ done' # {}
  BY <1>1, <1>3, <1>4, <1>5
<1> QED
  BY <1>1, <1>2, <1>3, <1>6, <1>7 DEF Gathering, SameCall

(* What Return makes of the two flags.                                     *)
LEMMA SelectReturns ==
    ASSUME GInv, Return, select, params
    PROVE  SelectTruthful'
<1>1. /\ PInv /\ pc = "end" /\ Called /\ size \in Nat /\ size >= 1
      /\ SameCall /\ failed' = failed /\ done' = done /\ rc' = ReturnCode
      /\ \A i \in failed \cup done \cup ignored : i \in 1..size
  BY Ranges DEF GInv, Return, statement, SameCall, Called
<1>2. /\ failed # {} => one_of_params_not_succeeded
      /\ size = 1 /\ failed # {} => rc = "ERROR"
  BY <1>1 DEF PInv, SInv, FlagsSay
<1>3. CASE /\ done = {} /\ (all_parameters_failed <=> size > 1)
           /\ size = 1 => \/ rc = "ERROR"
                          \/ /\ rc = "SUCCESS" /\ failed = {}
                             /\ ignored = {1}
  <2>1. CASE size = 1
    <3>1. ReturnCode = rc
      BY <2>1 DEF ReturnCode
    <3>2. ignored = {1} => 1..size \ ignored = {}
      BY <2>1
    <3> QED
      BY <1>1, <1>3, <2>1, <3>1, <3>2 DEF SelectTruthful, SameCall
  <2>2. CASE size > 1
    <3>1. ReturnCode = "ERROR"
      BY <1>1, <1>3, <2>2 DEF ReturnCode
    <3> QED
      BY <1>1, <1>3, <3>1 DEF SelectTruthful, SameCall
  <2> QED
    BY <1>1, <2>1, <2>2
<1>4. CASE /\ done = Left(size) /\ done # {} /\ rc = "SUCCESS"
           /\ ~all_parameters_failed
  <2>1. /\ ReturnCode \in {"SUCCESS", "SUCCESS_WITH_INFO"}
        /\ ReturnCode = "SUCCESS" => failed = {}
    BY <1>2, <1>4 DEF ReturnCode
  <2>2. done = 1..size \ (ignored \cup failed)
    BY <1>4 DEF Left
  <2> QED
    BY <1>1, <1>4, <2>1, <2>2 DEF SelectTruthful, SameCall
<1> QED
  BY <1>1, <1>3, <1>4 DEF GInv, Gathering

LEMMA GatherInit == Init => GInv
BY InitHolds DEF Init, GInv, Gathering, SelectTruthful, Called

LEMMA GatherNext == ASSUME GInv, [Next]_vars PROVE GInv'
<1>1. PInv'
  BY NextHolds DEF GInv
<1>2. CASE SQLExecute
  <2>1. /\ pc' = "set" /\ row' = 1 /\ rc' = "SUCCESS" /\ tempbuf' = <<>>
        /\ done' = {} /\ (all_parameters_failed' <=> size' > 1)
        /\ size' \in Sets /\ (ssps' => ~(select' /\ size' > 1))
    BY <1>2 DEF SQLExecute
  <2>2. select' /\ ssps' => size' = 1
    BY <2>1, ParamSetsAssumption DEF Sets
  <2>3. SetsOf(tempbuf)' = {} /\ Left(row - 1)' = {}
    BY <2>1 DEF SetsOf, Left
  <2> QED
    BY <1>1, <2>1, <2>2, <2>3 DEF GInv, Gathering, SelectTruthful
<1>3. CASE NeedData
  <2>1. /\ pc = "set" /\ pc' = "idle" /\ rc' = "NEED_DATA"
        /\ select' = select /\ params' = params /\ done' = done
    BY <1>3 DEF NeedData, statement
  <2>2. select /\ params => done = {}
    BY <2>1 DEF GInv, Gathering, Called
  <2> QED
    BY <1>1, <2>1, <2>2 DEF GInv, Gathering, SelectTruthful, Called
<1>4. CASE Return
  <2>1. select' = select /\ params' = params /\ ~Called'
    BY <1>4 DEF Return, statement, Called
  <2>2. select /\ params => SelectTruthful'
    BY <1>4, SelectReturns
  <2>3. ~(select' /\ params') => SelectTruthful'
    BY DEF SelectTruthful
  <2> QED
    BY <1>1, <2>1, <2>2, <2>3 DEF GInv, Gathering
<1>5. CASE UNCHANGED vars
  <2>1. Gathering'
    BY <1>5 DEF vars, GInv, Gathering, Called, NoPart, SetsOf, Left
  <2>2. SelectTruthful'
    BY <1>5 DEF vars, GInv, SelectTruthful
  <2> QED
    BY <1>1, <2>1, <2>2 DEF GInv
<1>6. CASE \/ IgnoreSet \/ DaeInArray \/ NoParams
           \/ \E conversion \in Conversions :
                  InsertParams(conversion) \/ InsertParamsFails(conversion)
           \/ QueryAfterLoss \/ QueryNotSent \/ QueryRefused \/ QueryRuns
  <2>1. select' = select /\ params' = params /\ pc' # "idle"
    BY <1>6 DEF IgnoreSet, DaeInArray, NoParams, InsertParams,
       InsertParamsFails, QueryAfterLoss, QueryNotSent, QueryRefused,
       QueryRuns, QueryFails, NextSet, statement
  <2>2. SelectTruthful'
    BY <2>1 DEF SelectTruthful
  <2>3. CASE ~(select /\ params)
    BY <1>1, <2>1, <2>2, <2>3 DEF GInv, Gathering
  <2>4. CASE select /\ params
    <3>1. ~NoParams
      BY <2>4 DEF NoParams
    <3>2. ASSUME NEW conversion \in Conversions,
                 InsertParamsFails(conversion)
          PROVE  Gathering'
      <4>1. SetFails
        BY <3>2, TypeParts DEF InsertParamsFails, SetFails, StatusOf, flags,
           GInv, PInv, SInv, BoolsOK
      <4>2. \/ tempbuf' = tempbuf
            \/ tempbuf' = Append(tempbuf, Part(row))
        BY <3>2 DEF InsertParamsFails
      <4> QED
        BY <2>4, <4>1, <4>2, GatherFailure
    <3>3. ASSUME QueryAfterLoss \/ QueryNotSent \/ QueryRefused
          PROVE  Gathering'
      <4>1. pc = "query" /\ SetFails
        BY <3>3, QueryFailsIsFailure
           DEF QueryAfterLoss, QueryNotSent, QueryRefused, GInv
      <4> QED
        BY <2>4, <4>1, GatherFailure
    <3>4. Gathering'
      BY <1>6, <2>4, <3>1, <3>2, <3>3, GatherIgnored, GatherDae, GatherReady,
         GatherRun
    <3> QED
      BY <1>1, <2>2, <3>4 DEF GInv
  <2> QED
    BY <2>3, <2>4
<1> QED
  BY <1>2, <1>3, <1>4, <1>5, <1>6 DEF Next

(* The return code of a SELECT with parameter sets is about all of them:   *)
(* SQL_ERROR means that it did not run, success that it ran with every set *)
(* that was neither ignored nor failed, and without SQL_SUCCESS_WITH_INFO  *)
(* that none failed, for arrays of any size.                               *)
THEOREM SelectsAreTruthful == Spec => []SelectTruthful
<1>1. Init => GInv
  BY GatherInit
<1>2. GInv /\ [Next]_vars => GInv'
  BY GatherNext
<1>3. GInv => SelectTruthful
  BY DEF GInv
<1> QED
  BY <1>1, <1>2, <1>3, PTL DEF Spec
=============================================================================
