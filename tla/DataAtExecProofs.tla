-------------------------- MODULE DataAtExecProofs --------------------------
(* Theorems about data at execution, for any statements and descriptors,   *)
(* any number of parameters and pieces, and all the habits at once.        *)
EXTENDS DataAtExec, SequenceTheorems, WellFoundedInduction, TLAPS

ParT   == [alloc : BOOLEAN, data : Seq(Pieces), is_dae : BOOLEAN]
Copies == [Params -> ParT]
ValueT == [kind : Kinds, pieces : Seq(Pieces)]
Ops    == {"execute", "bookmark"} \cup Changes

(* Each variable is a function of the statements, or of the descriptors.   *)
Shape ==
    /\ result \in [Stmts -> BOOLEAN]
    /\ dae_type \in [Stmts -> {"none", "normal"} \cup Changes]
    /\ current_param \in [Stmts -> 0..N]
    /\ setpos_apd \in [Stmts -> {NoDesc} \cup Copies]
    /\ apd \in [Apds -> Copies]
    /\ apdInd \in [Apds -> SUBSET Params]
    /\ ardInd \in [Stmts -> SUBSET Params]
    /\ moved \in [Stmts -> BOOLEAN]
    /\ server \in [Stmts -> BOOLEAN]
    /\ tempbuf \in [Stmts -> Seq(ValueT)]
    /\ need \in [Stmts -> {"no", "need", "asked", "put"}]
    /\ started \in [Stmts -> {"none"} \cup Ops]
    /\ asked \in [Stmts -> Seq(Params)]
    /\ supplied \in [Stmts -> [Params -> ValueT]]

(* The parameters the operation under way declared data-at-exec.           *)
Declared(s) == IF dae_type[s] = "normal" THEN apdInd[ApdOf[s]] ELSE ardInd[s]

(* A statement in no sequence has nothing of one.                          *)
Idle(s) ==
    need[s] = "no" =>
        /\ asked[s] = <<>> /\ started[s] = "none" /\ ~moved[s]
        /\ "busy" \notin habits => dae_type[s] = "none"
                                   /\ setpos_apd[s] = NoDesc

(* In a sequence the driver knows what it was started for, and has its own *)
(* descriptor exactly if that is a change of columns.                      *)
Kept(s) ==
    need[s] # "no" =>
        /\ dae_type[s] # "none"
        /\ dae_type[s] = "normal" <=> started[s] = "execute"
        /\ dae_type[s] \in Changes => setpos_apd[s] # NoDesc
        /\ dae_type[s] = "normal" /\ "busy" \notin habits =>
              setpos_apd[s] = NoDesc
        /\ dae_type[s] \in Changes /\ "bookmark" \notin habits =>
              started[s] = dae_type[s]
        /\ dae_type[s] = "normal" => ~result[s]

(* What has been asked for is the declared parameters up to the present.   *)
Progress(s) ==
    need[s] # "no" =>
        /\ {asked[s][k] : k \in DOMAIN asked[s]}
              = {p \in Declared(s) : p <= current_param[s]}
        /\ \A j, k \in DOMAIN asked[s] : j < k => asked[s][j] < asked[s][k]
        /\ need[s] # "need" => current_param[s] \in Declared(s)
        /\ moved[s] => \A p \in Declared(s) : p <= current_param[s]

(* Only a failed execution leaves text behind, and no result with it.      *)
Text(s) ==
    tempbuf[s] # <<>> /\ "failedAdd" \notin habits =>
        ~result[s] /\ need[s] = "no"

Control(s) == Idle(s) /\ Kept(s) /\ Progress(s) /\ Text(s)

CInv == Shape /\ \A s \in Stmts : Control(s)

(* What a step of another statement leaves this one: all that is its own,  *)
(* and the length buffers of a shared descriptor while it is executing.    *)
Mine(t) == <<result[t], dae_type[t], current_param[t], setpos_apd[t],
             ardInd[t], moved[t], server[t], tempbuf[t], need[t],
             started[t], asked[t], supplied[t]>>

OthersLeft(s) ==
    /\ \A t \in Stmts \ {s} :
          /\ Mine(t)' = Mine(t)
          /\ started[t] = "execute" => apdInd[ApdOf[t]]' = apdInd[ApdOf[t]]
    /\ habits \subseteq habits'

LEMMA OthersKeep ==
    ASSUME CInv, NEW s \in Stmts, OthersLeft(s), NEW t \in Stmts \ {s}
    PROVE  Control(t)'
<1>1. Control(t)
  BY DEF CInv
<1>2. /\ result'[t] = result[t] /\ dae_type'[t] = dae_type[t]
      /\ current_param'[t] = current_param[t]
      /\ setpos_apd'[t] = setpos_apd[t] /\ ardInd'[t] = ardInd[t]
      /\ moved'[t] = moved[t] /\ tempbuf'[t] = tempbuf[t]
      /\ need'[t] = need[t] /\ started'[t] = started[t]
      /\ asked'[t] = asked[t]
      /\ started[t] = "execute" => apdInd'[ApdOf[t]] = apdInd[ApdOf[t]]
      /\ habits \subseteq habits'
  BY DEF OthersLeft, Mine
<1>3. Idle(t)' /\ Kept(t)' /\ Text(t)'
  BY <1>1, <1>2 DEF Control, Idle, Kept, Text
<1>4. Progress(t)'
  <2> SUFFICES ASSUME need[t] # "no" PROVE Progress(t)'
    BY <1>2 DEF Progress
  <2>1. Declared(t)' = Declared(t)
    BY <1>1, <1>2 DEF Declared, Control, Kept
  <2> QED
    BY <1>1, <1>2, <2>1 DEF Control, Progress
<1> QED
  BY <1>3, <1>4 DEF Control

LEMMA LeastOf ==
    ASSUME NEW S, S \subseteq Params, S # {}
    PROVE  First(S) \in S /\ \A q \in S : First(S) <= q
<1>1. S \subseteq Nat
  BY NAssumption DEF Params
<1>2. PICK n \in S : \A m \in S : <<m, n>> \notin OpToRel(<, Nat)
  BY <1>1, WFMin, NatLessThanWellFounded, Zenon
<1>3. \A m \in S : ~(m < n)
  BY <1>1, <1>2 DEF OpToRel
<1>4. \A m \in S : n <= m
  BY <1>1, <1>3
<1> QED
  BY <1>4 DEF First

LEMMA ResetType ==
    ASSUME NEW par \in ParT
    PROVE  /\ Reset(par) \in ParT /\ Reset(par).data = <<>>
           /\ Reset(par).alloc = par.alloc /\ ~Reset(par).is_dae
<1> DEFINE emptied == [par EXCEPT !.data = <<>>]
<1>1. Reset(par) = [alloc |-> par.alloc, data |-> <<>>, is_dae |-> FALSE]
  <2>1. emptied = [alloc |-> par.alloc, data |-> <<>>, is_dae |-> par.is_dae]
    BY DEF ParT
  <2>2. Reset(par) = [emptied EXCEPT !.is_dae = FALSE]
    BY Zenon DEF Reset
  <2> HIDE DEF emptied
  <2> QED
    BY <2>1, <2>2
<1>2. par.alloc \in BOOLEAN /\ <<>> \in Seq(Pieces)
  BY DEF ParT
<1> QED
  BY <1>1, <1>2 DEF ParT

LEMMA FreshType ==
    /\ FreshPar \in ParT /\ FreshPar.data = <<>> /\ ~FreshPar.is_dae
    /\ [p \in Params |-> FreshPar] \in Copies
    /\ [p \in Params |-> FreshPar] # NoDesc
<1>1. FreshPar \in ParT /\ FreshPar.data = <<>> /\ ~FreshPar.is_dae
  BY DEF FreshPar, ParT
<1>2. [p \in Params |-> FreshPar] \in Copies
  BY <1>1 DEF Copies
<1> QED
  BY <1>1, <1>2, NoDescAssumption DEF Copies, ParT

LEMMA ValueTypes ==
    /\ Bound \in ValueT /\ Null \in ValueT /\ Default \in ValueT
    /\ Wrong \in ValueT /\ Nothing \in ValueT
    /\ \A pieces \in Seq(Pieces) : Data(pieces) \in ValueT
BY DEF Bound, Null, Default, Wrong, Nothing, Data, Value, ValueT, Kinds

LEMMA CInit == Init => CInv
<1> SUFFICES ASSUME Init PROVE CInv
  OBVIOUS
<1>1. Shape
  <2>1. [a \in Apds |-> [p \in Params |-> FreshPar]] \in [Apds -> Copies]
    BY FreshType
  <2>2. [s \in Stmts |-> [p \in Params |-> Nothing]]
          \in [Stmts -> [Params -> ValueT]]
    BY ValueTypes
  <2>3. apd \in [Apds -> Copies] /\ supplied \in [Stmts -> [Params -> ValueT]]
    BY <2>1, <2>2 DEF Init
  <2>4. /\ asked \in [Stmts -> Seq(Params)]
        /\ tempbuf \in [Stmts -> Seq(ValueT)]
        /\ current_param \in [Stmts -> 0..N]
    BY NAssumption DEF Init
  <2> QED
    BY <2>3, <2>4 DEF Init, Shape, Ops
<1>2. ASSUME NEW s \in Stmts PROVE Control(s)
  BY DEF Init, Control, Idle, Kept, Progress, Text
<1> QED
  BY <1>1, <1>2 DEF CInv

LEMMA CActor ==
    ASSUME CInv, NEW s \in Stmts, Shape', OthersLeft(s), Control(s)'
    PROVE  CInv'
BY OthersKeep DEF CInv

LEMMA FreeStmtEffect ==
    ASSUME Shape, NEW s \in Stmts, FreeStmt(s)
    PROVE  /\ apd' \in [Apds -> Copies]
           /\ \A a \in Apds \ {ApdOf[s]} : apd'[a] = apd[a]
           /\ \A p \in Params :
                 apd'[ApdOf[s]][p] = Reset(apd[ApdOf[s]][p])
           /\ tempbuf' \in [Stmts -> Seq(ValueT)]
           /\ tempbuf'[s] = <<>>
           /\ \A t \in Stmts \ {s} : tempbuf'[t] = tempbuf[t]
<1> DEFINE a0 == ApdOf[s]
           freed == FreeParamData(apd[a0])
<1>1. a0 \in Apds /\ apd \in [Apds -> Copies]
      /\ tempbuf \in [Stmts -> Seq(ValueT)]
  BY ApdOfAssumption DEF Shape
<1>2. freed = [p \in Params |-> Reset(apd[a0][p])]
  BY DEF FreeParamData
<1>3. \A p \in Params : Reset(apd[a0][p]) \in ParT
  BY <1>1, ResetType DEF Copies
<1>4. freed \in Copies
  BY <1>2, <1>3 DEF Copies
<1>5. \A p \in Params : freed[p] = Reset(apd[a0][p])
  BY <1>2
<1>6. /\ apd' = [apd EXCEPT ![a0] = freed]
      /\ tempbuf' = [tempbuf EXCEPT ![s] = <<>>]
  BY DEF FreeStmt
<1> HIDE DEF a0, freed
<1>7. apd' \in [Apds -> Copies] /\ apd'[a0] = freed
      /\ \A a \in Apds \ {a0} : apd'[a] = apd[a]
  BY <1>1, <1>4, <1>6
<1>8. /\ tempbuf' \in [Stmts -> Seq(ValueT)] /\ tempbuf'[s] = <<>>
      /\ \A t \in Stmts \ {s} : tempbuf'[t] = tempbuf[t]
  BY <1>1, <1>6
<1> QED
  BY <1>5, <1>7, <1>8 DEF a0

LEMMA NeedDataEffect ==
    ASSUME Shape, NEW s \in Stmts, NEW op \in Ops,
           NEW type \in {"normal"} \cup Changes,
           NEW D \in (SUBSET Params) \ {{}}, NeedData(s, op, type, D)
    PROVE  /\ dae_type' \in [Stmts -> {"none", "normal"} \cup Changes]
           /\ current_param' \in [Stmts -> 0..N]
           /\ need' \in [Stmts -> {"no", "need", "asked", "put"}]
           /\ started' \in [Stmts -> {"none"} \cup Ops]
           /\ asked' \in [Stmts -> Seq(Params)]
           /\ supplied' \in [Stmts -> [Params -> ValueT]]
           /\ dae_type'[s] = type /\ need'[s] = "need" /\ started'[s] = op
           /\ asked'[s] = <<>> /\ sent' = NoQuery
           /\ \A p \in Params : supplied'[s][p] = Nothing
           /\ \A p \in D : p > current_param'[s]
           /\ \A t \in Stmts \ {s} :
                 /\ dae_type'[t] = dae_type[t] /\ need'[t] = need[t]
                 /\ current_param'[t] = current_param[t]
                 /\ started'[t] = started[t] /\ asked'[t] = asked[t]
                 /\ supplied'[t] = supplied[t]
<1>1. First(D) \in Params /\ (\A q \in D : First(D) <= q)
  <2>1. D \subseteq Params /\ D # {}
    OBVIOUS
  <2> QED
    BY <2>1, LeastOf
<1>2. First(D) - 1 \in 0..N /\ \A q \in D : q > First(D) - 1
  BY <1>1, NAssumption DEF Params
<1>3. [p \in Params |-> Nothing] \in [Params -> ValueT]
  BY ValueTypes
<1>4. /\ dae_type' \in [Stmts -> {"none", "normal"} \cup Changes]
      /\ dae_type'[s] = type
      /\ \A t \in Stmts \ {s} : dae_type'[t] = dae_type[t]
  BY DEF NeedData, Shape
<1>5. /\ current_param' \in [Stmts -> 0..N]
      /\ current_param'[s] = First(D) - 1
      /\ \A t \in Stmts \ {s} : current_param'[t] = current_param[t]
  BY <1>2 DEF NeedData, Shape
<1>6. /\ need' \in [Stmts -> {"no", "need", "asked", "put"}]
      /\ need'[s] = "need" /\ \A t \in Stmts \ {s} : need'[t] = need[t]
  BY DEF NeedData, Shape
<1>7. /\ started' \in [Stmts -> {"none"} \cup Ops]
      /\ started'[s] = op /\ \A t \in Stmts \ {s} : started'[t] = started[t]
  BY DEF NeedData, Shape
<1>8. /\ asked' \in [Stmts -> Seq(Params)] /\ asked'[s] = <<>>
      /\ \A t \in Stmts \ {s} : asked'[t] = asked[t]
  BY DEF NeedData, Shape
<1>9. /\ supplied' \in [Stmts -> [Params -> ValueT]]
      /\ \A p \in Params : supplied'[s][p] = Nothing
      /\ \A t \in Stmts \ {s} : supplied'[t] = supplied[t]
  BY <1>3 DEF NeedData, Shape
<1> QED
  BY <1>2, <1>4, <1>5, <1>6, <1>7, <1>8, <1>9 DEF NeedData

LEMMA LeaveEffect ==
    ASSUME Shape, NEW s \in Stmts, LeaveSequence(s)
    PROVE  /\ need' \in [Stmts -> {"no", "need", "asked", "put"}]
           /\ started' \in [Stmts -> {"none"} \cup Ops]
           /\ asked' \in [Stmts -> Seq(Params)]
           /\ supplied' \in [Stmts -> [Params -> ValueT]]
           /\ ardInd' \in [Stmts -> SUBSET Params]
           /\ moved' \in [Stmts -> BOOLEAN]
           /\ need'[s] = "no" /\ started'[s] = "none" /\ asked'[s] = <<>>
           /\ ~moved'[s]
           /\ \A p \in Params : supplied'[s][p] = Nothing
           /\ \A t \in Stmts \ {s} :
                 /\ need'[t] = need[t] /\ started'[t] = started[t]
                 /\ asked'[t] = asked[t] /\ supplied'[t] = supplied[t]
                 /\ ardInd'[t] = ardInd[t] /\ moved'[t] = moved[t]
<1>1. [p \in Params |-> Nothing] \in [Params -> ValueT]
  BY ValueTypes
<1>2. /\ need' \in [Stmts -> {"no", "need", "asked", "put"}]
      /\ need'[s] = "no" /\ \A t \in Stmts \ {s} : need'[t] = need[t]
  BY DEF LeaveSequence, Shape
<1>3. /\ started' \in [Stmts -> {"none"} \cup Ops]
      /\ started'[s] = "none"
      /\ \A t \in Stmts \ {s} : started'[t] = started[t]
  BY DEF LeaveSequence, Shape
<1>4. /\ asked' \in [Stmts -> Seq(Params)] /\ asked'[s] = <<>>
      /\ \A t \in Stmts \ {s} : asked'[t] = asked[t]
  BY DEF LeaveSequence, Shape
<1>5. /\ supplied' \in [Stmts -> [Params -> ValueT]]
      /\ \A p \in Params : supplied'[s][p] = Nothing
      /\ \A t \in Stmts \ {s} : supplied'[t] = supplied[t]
  BY <1>1 DEF LeaveSequence, Shape
<1>6. /\ ardInd' \in [Stmts -> SUBSET Params]
      /\ \A t \in Stmts \ {s} : ardInd'[t] = ardInd[t]
  BY DEF LeaveSequence, Shape
<1>7. /\ moved' \in [Stmts -> BOOLEAN] /\ ~moved'[s]
      /\ \A t \in Stmts \ {s} : moved'[t] = moved[t]
  BY DEF LeaveSequence, Shape
<1> QED
  BY <1>2, <1>3, <1>4, <1>5, <1>6, <1>7

(* The record of a parameter in the descriptor that is in use.             *)
LEMMA SetParEffect ==
    ASSUME Shape, NEW s \in Stmts, NEW p \in Params, NEW par \in ParT,
           dae_type[s] = "normal" \/ setpos_apd[s] # NoDesc,
           SetPar(s, p, par)
    PROVE  /\ apd' \in [Apds -> Copies]
           /\ setpos_apd' \in [Stmts -> {NoDesc} \cup Copies]
           /\ setpos_apd[s] = NoDesc <=> setpos_apd'[s] = NoDesc
           /\ \A t \in Stmts \ {s} : setpos_apd'[t] = setpos_apd[t]
           /\ \A a \in Apds \ {ApdOf[s]} : apd'[a] = apd[a]
           /\ dae_type[s] = "normal" =>
                 /\ apd'[ApdOf[s]][p] = par /\ setpos_apd' = setpos_apd
                 /\ \A q \in Params \ {p} :
                       apd'[ApdOf[s]][q] = apd[ApdOf[s]][q]
           /\ dae_type[s] # "normal" =>
                 /\ setpos_apd'[s][p] = par /\ apd' = apd
                 /\ \A q \in Params \ {p} :
                       setpos_apd'[s][q] = setpos_apd[s][q]
<1> DEFINE a0  == ApdOf[s]
           old == IF dae_type[s] = "normal" THEN apd[a0] ELSE setpos_apd[s]
           new == [old EXCEPT ![p] = par]
<1>1. /\ a0 \in Apds /\ apd \in [Apds -> Copies]
      /\ setpos_apd \in [Stmts -> {NoDesc} \cup Copies]
  BY ApdOfAssumption DEF Shape
<1>2. old \in Copies
  BY <1>1
<1> HIDE DEF a0, old
<1>3. new \in Copies /\ new[p] = par /\ \A q \in Params \ {p} : new[q] = old[q]
  BY <1>2 DEF Copies
<1> HIDE DEF new
<1>4. new # NoDesc
  BY <1>3, NoDescAssumption DEF Copies, ParT
<1>5. CASE dae_type[s] = "normal"
  <2>1. apd' = [apd EXCEPT ![a0] = new] /\ setpos_apd' = setpos_apd
    BY <1>5, Zenon DEF SetPar, a0, old, new
  <2>2. apd' \in [Apds -> Copies] /\ apd'[a0] = new
        /\ \A a \in Apds \ {a0} : apd'[a] = apd[a]
    BY <1>1, <1>3, <2>1
  <2>3. old = apd[a0]
    BY <1>5 DEF old
  <2> QED
    BY <1>1, <1>3, <1>5, <2>1, <2>2, <2>3 DEF a0
<1>6. CASE dae_type[s] # "normal"
  <2>1. setpos_apd' = [setpos_apd EXCEPT ![s] = new] /\ apd' = apd
    BY <1>6, Zenon DEF SetPar, a0, old, new
  <2>2. /\ setpos_apd' \in [Stmts -> {NoDesc} \cup Copies]
        /\ setpos_apd'[s] = new
        /\ \A t \in Stmts \ {s} : setpos_apd'[t] = setpos_apd[t]
    BY <1>1, <1>3, <2>1
  <2>3. old = setpos_apd[s] /\ setpos_apd[s] # NoDesc
    BY <1>6 DEF old
  <2> QED
    BY <1>1, <1>3, <1>4, <1>6, <2>1, <2>2, <2>3 DEF a0
<1> QED
  BY <1>5, <1>6

(* What is written to tempbuf is a sequence of values.                     *)
LEMMA ValuesAreSeq ==
    ASSUME NEW f \in [Params -> ValueT]
    PROVE  f \in Seq(ValueT) /\ Len(f) = N
BY NAssumption DEF Params

LEMMA Written ==
    ASSUME NEW text \in Seq(ValueT), NEW f \in [Params -> ValueT],
           NEW bad \in Params
    PROVE  /\ text \o SubSeq(f, 1, bad - 1) \in Seq(ValueT)
           /\ text \o f \in Seq(ValueT)
           /\ text = <<>> => text \o f = f
<1>1. f \in Seq(ValueT)
  BY ValuesAreSeq
<1>2. /\ 1 \in Int /\ bad - 1 \in Int
      /\ \A i \in 1..(bad - 1) : f[i] \in ValueT
  BY NAssumption DEF Params
<1>3. SubSeq(f, 1, bad - 1) \in Seq(ValueT)
  BY <1>2, SubSeqProperties
<1>4. text \o SubSeq(f, 1, bad - 1) \in Seq(ValueT)
      /\ text \o f \in Seq(ValueT)
  BY <1>1, <1>3, ConcatProperties
<1>5. text = <<>> => text \o f = f
  BY <1>1, ConcatEmptySeq
<1> QED
  BY <1>4, <1>5

LEMMA DaeType ==
    ASSUME NEW par \in ParT
    PROVE  DaeValue(par) \in ValueT /\ Data(par.data) \in ValueT
BY ValueTypes DEF DaeValue, ParT

LEMMA ColumnTypes ==
    ASSUME NEW s, NEW op, NEW D, NEW type,
           NEW pars \in {NoDesc} \cup Copies
    PROVE  ColumnValues(s, op, D, type, pars) \in [Params -> ValueT]
<1> SUFFICES ASSUME NEW p \in Params
             PROVE  (IF pars = NoDesc THEN Bound
                     ELSE IF op = "insert" THEN AddValue(s, D, type, pars, p)
                     ELSE SetValue(s, D, type, pars, p)) \in ValueT
  BY DEF ColumnValues
<1>1. Bound \in ValueT /\ Wrong \in ValueT
  BY ValueTypes
<1>2. CASE pars # NoDesc
  <2>1. DaeValue(pars[p]) \in ValueT /\ Data(pars[p].data) \in ValueT
    BY <1>2, DaeType DEF Copies
  <2> QED
    BY <1>1, <2>1 DEF AddValue, SetValue
<1> QED
  BY <1>1, <1>2

LEMMA ParamTypes ==
    ASSUME NEW s, NEW pars \in Copies
    PROVE  [p \in Params |-> ParamValue(s, pars, p)] \in [Params -> ValueT]
<1> SUFFICES ASSUME NEW p \in Params PROVE ParamValue(s, pars, p) \in ValueT
  OBVIOUS
<1>1. /\ Bound \in ValueT /\ Null \in ValueT /\ DaeValue(pars[p]) \in ValueT
  BY ValueTypes, DaeType DEF Copies
<1> QED
  BY <1>1 DEF ParamValue, OfServer

(* What TypeOK does not say of the query that was sent last.               *)
Sound == QueryAsStarted /\ AskedOnceInOrder

LEMMA NoneSent ==
    ASSUME sent' = NoQuery
    PROVE  Sound'
BY DEF Sound, QueryAsStarted, OneValuePerColumn, OperationAsStarted,
   AskedOnceInOrder

LEMMA QuerySent ==
    ASSUME NEW op, NEW first, NEW values, NEW D, NEW order, NEW supply,
           sent' = Query(op, first, values, D, order, supply),
           "failedAdd" \notin habits' => Len(values) = N,
           "bookmark" \notin habits' => op = first,
           {order[k] : k \in DOMAIN order} = D,
           \A j, k \in DOMAIN order : j < k => order[j] < order[k]
    PROVE  Sound'
<1>1. /\ sent'.op = op /\ sent'.started = first /\ sent'.values = values
      /\ sent'.asked = order /\ sent'.dae = D
  BY DEF Query
<1> QED
  BY <1>1 DEF Sound, QueryAsStarted, OneValuePerColumn, OperationAsStarted,
     AskedOnceInOrder

LEMMA CExecute ==
    ASSUME CInv, NEW s \in Stmts, Execute(s)
    PROVE  CInv' /\ Sound'
<1>1. Shape /\ Control(s) /\ need[s] = "no"
  BY DEF CInv, Execute
<1>2. /\ apd' \in [Apds -> Copies]
      /\ tempbuf' \in [Stmts -> Seq(ValueT)] /\ tempbuf'[s] = <<>>
      /\ \A t \in Stmts \ {s} : tempbuf'[t] = tempbuf[t]
  BY <1>1, FreeStmtEffect DEF Execute
<1>3. /\ dae_type' = [dae_type EXCEPT ![s] = "none"]
      /\ apdInd' = [apdInd EXCEPT ![ApdOf[s]] = {}]
      /\ \E open \in BOOLEAN : result' = [result EXCEPT ![s] = open]
      /\ \E prepared \in BOOLEAN : server' = [server EXCEPT ![s] = prepared]
      /\ UNCHANGED <<current_param, setpos_apd, ardInd, moved, need, started,
                     asked, supplied, habits>>
  BY DEF Execute, app
<1>4. Shape'
  BY <1>1, <1>2, <1>3 DEF Shape
<1>5. OthersLeft(s)
  <2>1. ASSUME NEW t \in Stmts \ {s} PROVE Mine(t)' = Mine(t)
    BY <1>1, <1>2, <1>3 DEF Mine, Shape
  <2>2. ASSUME NEW t \in Stmts \ {s}, started[t] = "execute"
        PROVE  apdInd[ApdOf[t]]' = apdInd[ApdOf[t]]
    <3>1. ApdOf[t] = ApdOf[s] => apdInd[ApdOf[s]] = {}
      BY <2>2 DEF Execute, MayBind
    <3>2. ApdOf[t] \in Apds /\ ApdOf[s] \in Apds
      BY ApdOfAssumption
    <3> QED
      BY <1>1, <1>3, <3>1, <3>2 DEF Shape
  <2> QED
    BY <1>3, <2>1, <2>2 DEF OthersLeft
<1>6. Control(s)'
  <2>1. dae_type'[s] = "none"
    BY <1>1, <1>3 DEF Shape
  <2> QED
    BY <1>1, <1>2, <1>3, <2>1 DEF Control, Idle, Kept, Progress, Text
<1>7. Sound'
  <2>1. sent' = Query("execute", "execute", [p \in Params |-> Bound],
                      {}, <<>>, supplied[s])
    BY DEF Execute
  <2>2. Len([p \in Params |-> Bound]) = N
    BY ValuesAreSeq, ValueTypes
  <2>3. {<<>>[k] : k \in DOMAIN <<>>} = {}
    OBVIOUS
  <2> QED
    BY <2>1, <2>2, <2>3, QuerySent
<1> QED
  BY <1>4, <1>5, <1>6, <1>7, CActor

LEMMA CExecuteNeedsData ==
    ASSUME CInv, NEW s \in Stmts, ExecuteNeedsData(s)
    PROVE  CInv' /\ Sound'
<1>1. Shape /\ Control(s) /\ need[s] = "no" /\ ApdOf[s] \in Apds
  BY ApdOfAssumption DEF CInv, ExecuteNeedsData
<1>2. /\ apd' \in [Apds -> Copies]
      /\ tempbuf' \in [Stmts -> Seq(ValueT)] /\ tempbuf'[s] = <<>>
      /\ \A t \in Stmts \ {s} : tempbuf'[t] = tempbuf[t]
  BY <1>1, FreeStmtEffect DEF ExecuteNeedsData
<1>3. PICK D \in (SUBSET Params) \ {{}} :
         /\ MayBind(s, D)
         /\ apdInd' = [apdInd EXCEPT ![ApdOf[s]] = D]
         /\ NeedData(s, "execute", "normal", D)
  BY DEF ExecuteNeedsData
<1>4. /\ result' = [result EXCEPT ![s] = FALSE]
      /\ \E prepared \in BOOLEAN : server' = [server EXCEPT ![s] = prepared]
      /\ UNCHANGED <<setpos_apd, ardInd, moved, habits>>
  BY DEF ExecuteNeedsData
<1>5. /\ dae_type' \in [Stmts -> {"none", "normal"} \cup Changes]
      /\ current_param' \in [Stmts -> 0..N]
      /\ need' \in [Stmts -> {"no", "need", "asked", "put"}]
      /\ started' \in [Stmts -> {"none"} \cup Ops]
      /\ asked' \in [Stmts -> Seq(Params)]
      /\ supplied' \in [Stmts -> [Params -> ValueT]]
      /\ dae_type'[s] = "normal" /\ need'[s] = "need"
      /\ started'[s] = "execute" /\ asked'[s] = <<>> /\ sent' = NoQuery
      /\ \A p \in D : p > current_param'[s]
      /\ \A t \in Stmts \ {s} :
            /\ dae_type'[t] = dae_type[t] /\ need'[t] = need[t]
            /\ current_param'[t] = current_param[t]
            /\ started'[t] = started[t] /\ asked'[t] = asked[t]
            /\ supplied'[t] = supplied[t]
  BY <1>1, <1>3, NeedDataEffect DEF Ops
<1>6. apdInd' \in [Apds -> SUBSET Params] /\ apdInd'[ApdOf[s]] = D
      /\ \A a \in Apds \ {ApdOf[s]} : apdInd'[a] = apdInd[a]
  BY <1>1, <1>3 DEF Shape
<1>7. Shape'
  <2>1. result' \in [Stmts -> BOOLEAN] /\ server' \in [Stmts -> BOOLEAN]
    BY <1>1, <1>4 DEF Shape
  <2>2. UNCHANGED <<setpos_apd, ardInd, moved>>
    BY <1>4
  <2> QED
    BY <1>1, <1>2, <1>5, <1>6, <2>1, <2>2 DEF Shape
<1>8. OthersLeft(s)
  <2>1. ASSUME NEW t \in Stmts \ {s} PROVE Mine(t)' = Mine(t)
    BY <1>1, <1>2, <1>4, <1>5 DEF Mine, Shape
  <2>2. ASSUME NEW t \in Stmts \ {s}, started[t] = "execute"
        PROVE  apdInd[ApdOf[t]]' = apdInd[ApdOf[t]]
    <3>1. ApdOf[t] = ApdOf[s] => apdInd[ApdOf[s]] = D
      BY <1>3, <2>2 DEF MayBind
    <3>2. ApdOf[t] \in Apds
      BY ApdOfAssumption
    <3> QED
      BY <1>6, <3>1, <3>2
  <2> QED
    BY <1>4, <2>1, <2>2 DEF OthersLeft
<1>9. Control(s)'
  <2>1. Idle(s)' /\ Text(s)'
    BY <1>2, <1>5 DEF Idle, Text
  <2>2. Kept(s)'
    <3>1. ~result'[s]
      BY <1>1, <1>4 DEF Shape
    <3> QED
      BY <1>1, <1>4, <1>5, <3>1 DEF Kept, Control, Idle, Changes
  <2>3. Declared(s)' = D
    BY <1>5, <1>6 DEF Declared
  <2>4. ~moved'[s]
    BY <1>1, <1>4 DEF Control, Idle
  <2>5. {p \in D : p <= current_param'[s]} = {}
    <3> SUFFICES ASSUME NEW p \in D PROVE ~(p <= current_param'[s])
      OBVIOUS
    <3>1. p \in Int /\ current_param'[s] \in Int
      BY <1>5, NAssumption DEF Params
    <3>2. p > current_param'[s]
      BY <1>5
    <3> QED
      BY <3>1, <3>2
  <2>6. Progress(s)'
    BY <1>5, <2>3, <2>4, <2>5 DEF Progress
  <2> QED
    BY <2>1, <2>2, <2>6 DEF Control
<1> QED
  BY <1>5, <1>7, <1>8, <1>9, CActor, NoneSent

LEMMA CClose ==
    ASSUME CInv, NEW s \in Stmts, Close(s)
    PROVE  CInv' /\ Sound'
<1>1. Shape
  BY DEF CInv
<1>2. /\ apd' \in [Apds -> Copies]
      /\ tempbuf' \in [Stmts -> Seq(ValueT)] /\ tempbuf'[s] = <<>>
      /\ \A t \in Stmts \ {s} : tempbuf'[t] = tempbuf[t]
  BY <1>1, FreeStmtEffect DEF Close
<1>3. /\ dae_type' = [dae_type EXCEPT ![s] = "none"]
      /\ setpos_apd' = [setpos_apd EXCEPT ![s] = NoDesc]
      /\ result' = [result EXCEPT ![s] = FALSE]
      /\ LeaveSequence(s) /\ sent' = NoQuery
      /\ UNCHANGED <<current_param, apdInd, server, habits>>
  BY DEF Close
<1>4. /\ need' \in [Stmts -> {"no", "need", "asked", "put"}]
      /\ started' \in [Stmts -> {"none"} \cup Ops]
      /\ asked' \in [Stmts -> Seq(Params)]
      /\ supplied' \in [Stmts -> [Params -> ValueT]]
      /\ ardInd' \in [Stmts -> SUBSET Params]
      /\ moved' \in [Stmts -> BOOLEAN]
      /\ need'[s] = "no" /\ started'[s] = "none" /\ asked'[s] = <<>>
      /\ ~moved'[s]
      /\ \A t \in Stmts \ {s} :
            /\ need'[t] = need[t] /\ started'[t] = started[t]
            /\ asked'[t] = asked[t] /\ supplied'[t] = supplied[t]
            /\ ardInd'[t] = ardInd[t] /\ moved'[t] = moved[t]
  BY <1>1, <1>3, LeaveEffect
<1>5. Shape'
  BY <1>1, <1>2, <1>3, <1>4 DEF Shape
<1>6. OthersLeft(s)
  <2>1. ASSUME NEW t \in Stmts \ {s} PROVE Mine(t)' = Mine(t)
    BY <1>1, <1>2, <1>3, <1>4 DEF Mine, Shape
  <2> QED
    BY <1>3, <2>1 DEF OthersLeft
<1>7. Control(s)'
  <2>1. dae_type'[s] = "none" /\ setpos_apd'[s] = NoDesc
    BY <1>1, <1>3 DEF Shape
  <2> QED
    BY <1>2, <1>4, <2>1 DEF Control, Idle, Kept, Progress, Text
<1> QED
  BY <1>3, <1>5, <1>6, <1>7, CActor, NoneSent

LEMMA CCancelBusy ==
    ASSUME CInv, NEW s \in Stmts, CancelBusy(s)
    PROVE  CInv' /\ Sound'
<1>1. Shape /\ Control(s)
  BY DEF CInv
<1>2. /\ LeaveSequence(s) /\ sent' = NoQuery
      /\ habits' = habits \cup {"busy"} /\ need[s] # "no"
      /\ UNCHANGED <<result, dae_type, current_param, setpos_apd, apd,
                     apdInd, server, tempbuf>>
  BY DEF CancelBusy, Exercise
<1>3. /\ need' \in [Stmts -> {"no", "need", "asked", "put"}]
      /\ started' \in [Stmts -> {"none"} \cup Ops]
      /\ asked' \in [Stmts -> Seq(Params)]
      /\ supplied' \in [Stmts -> [Params -> ValueT]]
      /\ ardInd' \in [Stmts -> SUBSET Params]
      /\ moved' \in [Stmts -> BOOLEAN]
      /\ need'[s] = "no" /\ started'[s] = "none" /\ asked'[s] = <<>>
      /\ ~moved'[s]
      /\ \A t \in Stmts \ {s} :
            /\ need'[t] = need[t] /\ started'[t] = started[t]
            /\ asked'[t] = asked[t] /\ supplied'[t] = supplied[t]
            /\ ardInd'[t] = ardInd[t] /\ moved'[t] = moved[t]
  BY <1>1, <1>2, LeaveEffect
<1>4. Shape'
  BY <1>1, <1>2, <1>3 DEF Shape
<1>5. OthersLeft(s)
  <2>1. ASSUME NEW t \in Stmts \ {s} PROVE Mine(t)' = Mine(t)
    BY <1>2, <1>3 DEF Mine
  <2> QED
    BY <1>2, <2>1 DEF OthersLeft
<1>6. Control(s)'
  BY <1>1, <1>2, <1>3 DEF Control, Idle, Kept, Progress, Text
<1> QED
  BY <1>2, <1>4, <1>5, <1>6, CActor, NoneSent

(* The text a change leaves behind when one of its columns does not convert. *)
FailedText(s, op, values) ==
    \E bad \in Params :
        IF op = "insert"
        THEN /\ tempbuf' = [tempbuf EXCEPT ![s] =
                               @ \o SubSeq(values, 1, bad - 1)]
             /\ habits' = habits \cup {"failedAdd"}
        ELSE /\ tempbuf' = [tempbuf EXCEPT ![s] =
                               IF bad = 1 THEN @ ELSE <<>>]
             /\ habits' = habits

LEMMA FailedTextEffect ==
    ASSUME NEW s \in Stmts, NEW op, NEW values \in [Params -> ValueT],
           tempbuf \in [Stmts -> Seq(ValueT)], FailedText(s, op, values)
    PROVE  /\ tempbuf' \in [Stmts -> Seq(ValueT)]
           /\ \A t \in Stmts \ {s} : tempbuf'[t] = tempbuf[t]
           /\ tempbuf[s] = <<>> /\ tempbuf'[s] # <<>> =>
                 "failedAdd" \in habits'
           /\ habits \subseteq habits'
<1>1. PICK bad \in Params :
         IF op = "insert"
         THEN /\ tempbuf' = [tempbuf EXCEPT ![s] =
                                @ \o SubSeq(values, 1, bad - 1)]
              /\ habits' = habits \cup {"failedAdd"}
         ELSE /\ tempbuf' = [tempbuf EXCEPT ![s] =
                                IF bad = 1 THEN @ ELSE <<>>]
              /\ habits' = habits
  BY DEF FailedText
<1> DEFINE longer == tempbuf[s] \o SubSeq(values, 1, bad - 1)
<1>2. longer \in Seq(ValueT)
  BY <1>1, Written
<1>3. CASE op = "insert"
  <2>1. tempbuf' = [tempbuf EXCEPT ![s] = longer]
    BY <1>1, <1>3
  <2> HIDE DEF longer
  <2> QED
    BY <1>1, <1>2, <1>3, <2>1
<1>4. CASE op # "insert"
  <2> DEFINE rest == IF bad = 1 THEN tempbuf[s] ELSE <<>>
  <2>1. /\ tempbuf' = [tempbuf EXCEPT ![s] = rest] /\ habits' = habits
    BY <1>1, <1>4
  <2>2. rest \in Seq(ValueT) /\ (tempbuf[s] = <<>> => rest = <<>>)
    OBVIOUS
  <2> HIDE DEF rest
  <2> QED
    BY <2>1, <2>2
<1> QED
  BY <1>3, <1>4

(* A change that needs no data sends its query at once, or fails.          *)
LEMMA CChange ==
    ASSUME CInv, NEW s \in Stmts, NEW op, Change(s, op)
    PROVE  CInv' /\ Sound'
<1> DEFINE values == ColumnValues(s, op, {}, dae_type[s], setpos_apd[s])
<1>1. Shape /\ Control(s) /\ need[s] = "no" /\ result[s]
  BY DEF CInv, Change
<1>2. tempbuf[s] \in Seq(ValueT) /\ values \in [Params -> ValueT]
  BY <1>1, ColumnTypes DEF Shape
<1>3. UNCHANGED <<result, dae_type, current_param, setpos_apd, apd, apdInd,
                  ardInd, moved, server, need, started, asked, supplied>>
  BY DEF Change, desc, app
<1>4. "failedAdd" \notin habits => tempbuf[s] = <<>>
  BY <1>1 DEF Control, Text
<1>5. ASSUME tempbuf' \in [Stmts -> Seq(ValueT)],
             \A t \in Stmts \ {s} : tempbuf'[t] = tempbuf[t],
             tempbuf'[s] # <<>> => "failedAdd" \in habits',
             habits \subseteq habits'
      PROVE  CInv'
  <2>1. Shape'
    BY <1>1, <1>3, <1>5 DEF Shape
  <2>2. OthersLeft(s)
    <3>1. ASSUME NEW t \in Stmts \ {s} PROVE Mine(t)' = Mine(t)
      BY <1>3, <1>5 DEF Mine
    <3> QED
      BY <1>3, <1>5, <3>1 DEF OthersLeft
  <2>3. Control(s)'
    BY <1>1, <1>3, <1>5 DEF Control, Idle, Kept, Progress, Text
  <2> QED
    BY <2>1, <2>2, <2>3, CActor
<1>6. tempbuf \in [Stmts -> Seq(ValueT)]
  BY <1>1 DEF Shape
<1>7. CASE SendChange(s, op, op, {}, dae_type[s], setpos_apd[s])
  <2>1. /\ sent' = Query(op, op, tempbuf[s] \o values, {}, asked[s],
                         supplied[s])
        /\ tempbuf' = [tempbuf EXCEPT ![s] = <<>>] /\ habits' = habits
    BY <1>7 DEF SendChange
  <2> HIDE DEF values
  <2>2. "failedAdd" \notin habits' => Len(tempbuf[s] \o values) = N
    <3>1. tempbuf[s] = <<>> => tempbuf[s] \o values = values
      BY <1>2, ValuesAreSeq, ConcatEmptySeq
    <3> QED
      BY <1>2, <1>4, <2>1, <3>1, ValuesAreSeq
  <2>3. asked[s] = <<>>
    BY <1>1 DEF Control, Idle
  <2>4. /\ {asked[s][k] : k \in DOMAIN asked[s]} = {}
        /\ \A j, k \in DOMAIN asked[s] : j < k => asked[s][j] < asked[s][k]
    BY <2>3
  <2>5. CInv'
    BY <1>5, <1>6, <2>1
  <2> QED
    BY <2>1, <2>2, <2>4, <2>5, QuerySent
<1>8. CASE FailChange(s, op, {}, dae_type[s], setpos_apd[s])
  <2>1. FailedText(s, op, values) /\ sent' = NoQuery
    BY <1>8 DEF FailChange, FailedText, Exercise
  <2> HIDE DEF values
  <2>2. /\ tempbuf' \in [Stmts -> Seq(ValueT)]
        /\ \A t \in Stmts \ {s} : tempbuf'[t] = tempbuf[t]
        /\ tempbuf[s] = <<>> /\ tempbuf'[s] # <<>> =>
              "failedAdd" \in habits'
        /\ habits \subseteq habits'
    BY <1>2, <1>6, <2>1, FailedTextEffect
  <2>3. CInv'
    BY <1>4, <1>5, <2>2
  <2> QED
    BY <2>1, <2>3, NoneSent
<1> QED
  BY <1>7, <1>8 DEF Change

LEMMA CNeedColumns ==
    ASSUME CInv, NEW s \in Stmts, NEW op \in Ops, NEW type \in Changes,
           NeedColumns(s, op, type), op # "execute",
           \/ op = type /\ habits' = habits
           \/ habits' = habits \cup {"bookmark"}
    PROVE  CInv' /\ Sound'
<1>1. Shape /\ Control(s) /\ need[s] = "no" /\ result[s]
  BY DEF CInv, NeedColumns
<1>2. PICK D \in (SUBSET Params) \ {{}} :
         /\ ardInd' = [ardInd EXCEPT ![s] = D]
         /\ NeedData(s, op, type, D)
  BY DEF NeedColumns
<1>3. /\ setpos_apd' = [setpos_apd EXCEPT ![s] = [p \in Params |-> FreshPar]]
      /\ UNCHANGED <<result, apd, apdInd, moved, server, tempbuf>>
  BY DEF NeedColumns
<1>4. /\ dae_type' \in [Stmts -> {"none", "normal"} \cup Changes]
      /\ current_param' \in [Stmts -> 0..N]
      /\ need' \in [Stmts -> {"no", "need", "asked", "put"}]
      /\ started' \in [Stmts -> {"none"} \cup Ops]
      /\ asked' \in [Stmts -> Seq(Params)]
      /\ supplied' \in [Stmts -> [Params -> ValueT]]
      /\ dae_type'[s] = type /\ need'[s] = "need"
      /\ started'[s] = op /\ asked'[s] = <<>> /\ sent' = NoQuery
      /\ \A p \in D : p > current_param'[s]
      /\ \A t \in Stmts \ {s} :
            /\ dae_type'[t] = dae_type[t] /\ need'[t] = need[t]
            /\ current_param'[t] = current_param[t]
            /\ started'[t] = started[t] /\ asked'[t] = asked[t]
            /\ supplied'[t] = supplied[t]
  BY <1>1, <1>2, NeedDataEffect
<1>5. /\ setpos_apd' \in [Stmts -> {NoDesc} \cup Copies]
      /\ setpos_apd'[s] # NoDesc
      /\ \A t \in Stmts \ {s} : setpos_apd'[t] = setpos_apd[t]
  BY <1>1, <1>3, FreshType DEF Shape
<1>6. /\ ardInd' \in [Stmts -> SUBSET Params] /\ ardInd'[s] = D
      /\ \A t \in Stmts \ {s} : ardInd'[t] = ardInd[t]
  BY <1>1, <1>2 DEF Shape
<1>7. Shape'
  BY <1>1, <1>3, <1>4, <1>5, <1>6 DEF Shape
<1>8. OthersLeft(s)
  <2>1. ASSUME NEW t \in Stmts \ {s} PROVE Mine(t)' = Mine(t)
    BY <1>3, <1>4, <1>5, <1>6 DEF Mine
  <2> QED
    BY <1>3, <2>1 DEF OthersLeft
<1>9. Control(s)'
  <2>1. Idle(s)' /\ Text(s)'
    BY <1>1, <1>3, <1>4 DEF Idle, Control, Text
  <2>2. Kept(s)'
    BY <1>4, <1>5 DEF Kept, Changes
  <2>3. Declared(s)' = D
    BY <1>4, <1>6 DEF Declared, Changes
  <2>4. ~moved'[s]
    BY <1>1, <1>3 DEF Control, Idle
  <2>5. {p \in D : p <= current_param'[s]} = {}
    <3> SUFFICES ASSUME NEW p \in D PROVE ~(p <= current_param'[s])
      OBVIOUS
    <3>1. p \in Int /\ current_param'[s] \in Int
      BY <1>4, NAssumption DEF Params
    <3>2. p > current_param'[s]
      BY <1>4
    <3> QED
      BY <3>1, <3>2
  <2>6. Progress(s)'
    BY <1>4, <2>3, <2>4, <2>5 DEF Progress
  <2> QED
    BY <2>1, <2>2, <2>6 DEF Control
<1> QED
  BY <1>4, <1>7, <1>8, <1>9, CActor, NoneSent

(* The records of the descriptor in use, while there is a sequence.        *)
LEMMA InUse ==
    ASSUME CInv, NEW s \in Stmts, need[s] # "no"
    PROVE  /\ dae_type[s] = "normal" \/ setpos_apd[s] # NoDesc
           /\ \A p \in Params : ParAt(s, p) \in ParT
<1>1. dae_type[s] = "normal" \/ setpos_apd[s] # NoDesc
  BY DEF CInv, Control, Kept, Shape
<1>2. apd[ApdOf[s]] \in Copies /\ setpos_apd[s] \in {NoDesc} \cup Copies
  BY ApdOfAssumption DEF CInv, Shape
<1> QED
  BY <1>1, <1>2 DEF ParAt, Copies

LEMMA OneMoreAsked ==
    ASSUME NEW order \in Seq(Params), NEW p \in Params,
           \A k \in DOMAIN order : order[k] < p,
           \A j, k \in DOMAIN order : j < k => order[j] < order[k]
    PROVE  LET longer == Append(order, p)
           IN  /\ longer \in Seq(Params)
               /\ {longer[k] : k \in DOMAIN longer}
                     = {order[k] : k \in DOMAIN order} \cup {p}
               /\ \A j, k \in DOMAIN longer : j < k => longer[j] < longer[k]
<1> DEFINE longer == Append(order, p)
<1>1. /\ longer \in Seq(Params) /\ Len(order) \in Nat
      /\ DOMAIN order = 1..Len(order) /\ DOMAIN longer = 1..(Len(order) + 1)
      /\ longer[Len(order) + 1] = p
      /\ \A k \in 1..Len(order) : longer[k] = order[k]
  OBVIOUS
<1> HIDE DEF longer
<1>2. DOMAIN longer = DOMAIN order \cup {Len(order) + 1}
  BY <1>1
<1>3. {longer[k] : k \in DOMAIN longer}
         = {order[k] : k \in DOMAIN order} \cup {p}
  BY <1>1, <1>2
<1>4. \A j, k \in DOMAIN longer : j < k => longer[j] < longer[k]
  <2> SUFFICES ASSUME NEW j \in DOMAIN longer, NEW k \in DOMAIN longer, j < k
               PROVE  longer[j] < longer[k]
    OBVIOUS
  <2>1. j \in 1..Len(order)
    BY <1>1
  <2>2. k \in 1..Len(order) \/ k = Len(order) + 1
    BY <1>1
  <2> QED
    BY <1>1, <2>1, <2>2
<1> QED
  BY <1>1, <1>3, <1>4 DEF longer

(* What SQLParamData does when there is a parameter left to ask for.       *)
AskedFor(s) ==
    \E p \in Params, par \in ParT :
        /\ p \in Declared(s) /\ p > current_param[s]
        /\ \A q \in Declared(s) : q > current_param[s] => p <= q
        /\ ~moved[s] /\ par.data = <<>> /\ par.is_dae
        /\ SetPar(s, p, par)
        /\ current_param' = [current_param EXCEPT ![s] = p]
        /\ asked' = [asked EXCEPT ![s] = Append(asked[s], p)]

LEMMA AskNextEffect ==
    ASSUME CInv, NEW s \in Stmts, AskNext(s)
    PROVE  AskedFor(s)
<1> DEFINE p   == First(Unasked(s))
           par == [Reset(ParAt(s, p)) EXCEPT !.is_dae = TRUE]
<1>1. /\ Shape /\ Control(s) /\ need[s] \in {"need", "put"}
      /\ Unasked(s) # {} /\ ApdOf[s] \in Apds
  BY ApdOfAssumption DEF CInv, AskNext
<1>2. DaeParams(s) \subseteq Declared(s) /\ Declared(s) \subseteq Params
  BY <1>1 DEF DaeParams, Declared, AtOffset, Shape
<1>3. p \in Unasked(s) /\ \A q \in Unasked(s) : p <= q
  <2>1. Unasked(s) \subseteq Params
    BY <1>2 DEF Unasked
  <2> QED
    BY <1>1, <2>1, LeastOf
<1>4. p \in Declared(s) /\ p \in Params /\ p > current_param[s]
  BY <1>2, <1>3 DEF Unasked
<1> HIDE DEF p
<1>5. current_param[s] \in Int /\ Params \subseteq Int
  BY <1>1, NAssumption DEF Shape, Params
<1>6. ~moved[s] /\ DaeParams(s) = Declared(s)
  <2>1. ~moved[s]
    <3>1. ~(p <= current_param[s])
      BY <1>4, <1>5
    <3> QED
      BY <1>1, <1>4, <3>1 DEF Control, Progress
  <2> QED
    BY <2>1 DEF DaeParams, Declared, AtOffset
<1>7. \A q \in Declared(s) : q > current_param[s] => p <= q
  BY <1>3, <1>6 DEF Unasked
<1>8. par \in ParT /\ par.data = <<>> /\ par.is_dae
  <2> DEFINE r == Reset(ParAt(s, p))
  <2>1. r \in ParT /\ r.data = <<>>
    BY <1>1, <1>4, InUse, ResetType
  <2> HIDE DEF r
  <2>2. /\ [r EXCEPT !.is_dae = TRUE] \in ParT
        /\ [r EXCEPT !.is_dae = TRUE].data = <<>>
        /\ [r EXCEPT !.is_dae = TRUE].is_dae
    BY <2>1 DEF ParT
  <2> QED
    BY <2>2 DEF r, par
<1>9. /\ current_param' = [current_param EXCEPT ![s] = p]
      /\ SetPar(s, p, par)
      /\ asked' = [asked EXCEPT ![s] = Append(asked[s], p)]
  BY DEF AskNext, p, par
<1> HIDE DEF par
<1> QED
  BY <1>4, <1>6, <1>7, <1>8, <1>9, Zenon DEF AskedFor

LEMMA CAskNext ==
    ASSUME CInv, NEW s \in Stmts, AskNext(s)
    PROVE  CInv' /\ Sound'
<1>1. /\ Shape /\ Control(s) /\ need[s] \in {"need", "put"}
  BY DEF CInv, AskNext
<1>2. Declared(s) \subseteq Params
  BY <1>1, ApdOfAssumption DEF Declared, Shape
<1>3. PICK p \in Params, par \in ParT :
         /\ p \in Declared(s) /\ p > current_param[s]
         /\ \A q \in Declared(s) : q > current_param[s] => p <= q
         /\ ~moved[s] /\ par.data = <<>> /\ par.is_dae
         /\ SetPar(s, p, par)
         /\ current_param' = [current_param EXCEPT ![s] = p]
         /\ asked' = [asked EXCEPT ![s] = Append(asked[s], p)]
  <2>1. AskedFor(s)
    BY AskNextEffect
  <2> QED
    BY <2>1, Zenon DEF AskedFor
<1>4. p \in Declared(s) /\ p \in Params /\ p > current_param[s]
  BY <1>3
<1>5. current_param[s] \in Int /\ Params \subseteq Int
  BY <1>1, NAssumption DEF Shape, Params
<1>6. ~moved[s]
  BY <1>3
<1>7. /\ current_param' = [current_param EXCEPT ![s] = p]
      /\ SetPar(s, p, par)
      /\ asked' = [asked EXCEPT ![s] = Append(asked[s], p)]
      /\ need' = [need EXCEPT ![s] = "asked"] /\ sent' = NoQuery
      /\ UNCHANGED <<result, dae_type, apdInd, ardInd, moved, server,
                     tempbuf, started, supplied, habits>>
  BY <1>3 DEF AskNext
<1>8. dae_type[s] = "normal" \/ setpos_apd[s] # NoDesc
  BY <1>1, InUse
<1>9. \A k \in DOMAIN asked[s] : asked[s][k] < p
  <2> SUFFICES ASSUME NEW k \in DOMAIN asked[s] PROVE asked[s][k] < p
    OBVIOUS
  <2>1. asked[s][k] \in {q \in Declared(s) : q <= current_param[s]}
    <3>1. {asked[s][i] : i \in DOMAIN asked[s]}
             = {q \in Declared(s) : q <= current_param[s]}
      BY <1>1 DEF Control, Progress
    <3> QED
      BY <3>1
  <2>2. /\ asked[s][k] \in Int /\ p \in Int /\ current_param[s] \in Int
        /\ asked[s][k] <= current_param[s] /\ current_param[s] < p
    BY <1>2, <1>4, <1>5, <2>1
  <2> QED
    BY <2>2
<1>10. asked[s] \in Seq(Params) /\ asked \in [Stmts -> Seq(Params)]
  BY <1>1 DEF Shape
<1> DEFINE longer == Append(asked[s], p)
<1>11. /\ longer \in Seq(Params)
       /\ {longer[k] : k \in DOMAIN longer}
             = {asked[s][k] : k \in DOMAIN asked[s]} \cup {p}
       /\ \A j, k \in DOMAIN longer : j < k => longer[j] < longer[k]
  <2>1. \A j, k \in DOMAIN asked[s] : j < k => asked[s][j] < asked[s][k]
    BY <1>1 DEF Control, Progress
  <2> QED
    BY <1>4, <1>9, <1>10, <2>1, OneMoreAsked
<1>12. /\ apd' \in [Apds -> Copies]
       /\ setpos_apd' \in [Stmts -> {NoDesc} \cup Copies]
       /\ setpos_apd[s] = NoDesc <=> setpos_apd'[s] = NoDesc
       /\ \A t \in Stmts \ {s} : setpos_apd'[t] = setpos_apd[t]
  BY <1>1, <1>4, <1>7, <1>8, SetParEffect
<1>13. /\ asked' \in [Stmts -> Seq(Params)]
       /\ asked'[s] = longer
       /\ \A t \in Stmts \ {s} : asked'[t] = asked[t]
  BY <1>7, <1>10, <1>11
<1> HIDE DEF longer
<1>14. /\ current_param' \in [Stmts -> 0..N] /\ current_param'[s] = p
       /\ \A t \in Stmts \ {s} : current_param'[t] = current_param[t]
  BY <1>1, <1>4, <1>7 DEF Shape, Params
<1>15. /\ need' \in [Stmts -> {"no", "need", "asked", "put"}]
       /\ need'[s] = "asked" /\ \A t \in Stmts \ {s} : need'[t] = need[t]
  BY <1>1, <1>7 DEF Shape
<1>16. Shape'
  BY <1>1, <1>7, <1>12, <1>13, <1>14, <1>15 DEF Shape
<1>17. OthersLeft(s)
  <2>1. ASSUME NEW t \in Stmts \ {s} PROVE Mine(t)' = Mine(t)
    BY <1>7, <1>12, <1>13, <1>14, <1>15 DEF Mine
  <2> QED
    BY <1>7, <2>1 DEF OthersLeft
<1>18. Control(s)'
  <2>1. Idle(s)' /\ Text(s)' /\ Kept(s)'
    BY <1>1, <1>7, <1>12, <1>15 DEF Control, Idle, Text, Kept
  <2>2. Declared(s)' = Declared(s)
    BY <1>7 DEF Declared
  <2>3. {q \in Declared(s) : q <= p}
           = {q \in Declared(s) : q <= current_param[s]} \cup {p}
    <3>1. ASSUME NEW q \in Declared(s)
          PROVE  q <= p <=> q <= current_param[s] \/ q = p
      <4>1. q \in Int /\ p \in Int
        BY <1>2, <1>4, <1>5
      <4>2. q > current_param[s] => p <= q
        BY <1>3
      <4> QED
        BY <1>4, <1>5, <4>1, <4>2
    <3> QED
      BY <1>4, <3>1
  <2>4. {asked[s][k] : k \in DOMAIN asked[s]}
           = {q \in Declared(s) : q <= current_param[s]}
    BY <1>1 DEF Control, Progress
  <2>5. {longer[k] : k \in DOMAIN longer} = {q \in Declared(s) : q <= p}
    BY <1>11, <2>3, <2>4
  <2>6. /\ {asked'[s][k] : k \in DOMAIN asked'[s]}
              = {q \in Declared(s)' : q <= current_param'[s]}
        /\ \A j, k \in DOMAIN asked'[s] :
              j < k => asked'[s][j] < asked'[s][k]
    BY <1>11, <1>13, <1>14, <2>2, <2>5
  <2>7. current_param'[s] \in Declared(s)' /\ ~moved'[s]
    BY <1>4, <1>6, <1>7, <1>14, <2>2
  <2>8. Progress(s)'
    BY <2>6, <2>7 DEF Progress
  <2> QED
    BY <2>1, <2>8 DEF Control
<1> QED
  BY <1>7, <1>16, <1>17, <1>18, CActor, NoneSent

(* SQLPutData in general: the record asked for last is written to.         *)
LEMMA CPut ==
    ASSUME CInv, NEW s \in Stmts, need[s] \in {"asked", "put"},
           apd' \in [Apds -> Copies],
           setpos_apd' \in [Stmts -> {NoDesc} \cup Copies],
           setpos_apd[s] = NoDesc <=> setpos_apd'[s] = NoDesc,
           \A t \in Stmts \ {s} : setpos_apd'[t] = setpos_apd[t],
           supplied' \in [Stmts -> [Params -> ValueT]],
           \A t \in Stmts \ {s} : supplied'[t] = supplied[t],
           need' = [need EXCEPT ![s] = "put"], sent' = NoQuery,
           habits \subseteq habits',
           UNCHANGED <<result, dae_type, current_param, apdInd, ardInd,
                       moved, server, tempbuf, started, asked>>
    PROVE  CInv' /\ Sound'
<1>1. Shape /\ Control(s)
  BY DEF CInv
<1>2. /\ need' \in [Stmts -> {"no", "need", "asked", "put"}]
      /\ need'[s] = "put" /\ \A t \in Stmts \ {s} : need'[t] = need[t]
  BY <1>1 DEF Shape
<1>3. Shape'
  BY <1>1, <1>2 DEF Shape
<1>4. OthersLeft(s)
  <2>1. ASSUME NEW t \in Stmts \ {s} PROVE Mine(t)' = Mine(t)
    BY <1>2 DEF Mine
  <2> QED
    BY <2>1 DEF OthersLeft
<1>5. Control(s)'
  <2>1. Idle(s)' /\ Text(s)' /\ Kept(s)'
    BY <1>1, <1>2 DEF Control, Idle, Text, Kept
  <2>2. Declared(s)' = Declared(s)
    BY DEF Declared
  <2>3. Progress(s)'
    BY <1>1, <1>2, <2>2 DEF Control, Progress
  <2> QED
    BY <2>1, <2>3 DEF Control
<1> QED
  BY <1>3, <1>4, <1>5, CActor, NoneSent

LEMMA SuppliedEffect ==
    ASSUME Shape, NEW s \in Stmts, NEW p \in Params, NEW v \in ValueT,
           supplied' = [supplied EXCEPT ![s][p] = v]
    PROVE  /\ supplied' \in [Stmts -> [Params -> ValueT]]
           /\ supplied'[s][p] = v
           /\ \A q \in Params \ {p} : supplied'[s][q] = supplied[s][q]
           /\ \A t \in Stmts \ {s} : supplied'[t] = supplied[t]
<1> DEFINE old == supplied[s]
           new == [old EXCEPT ![p] = v]
<1>1. supplied \in [Stmts -> [Params -> ValueT]]
  BY DEF Shape
<1>2. old \in [Params -> ValueT]
  BY <1>1
<1> HIDE DEF old
<1>3. /\ new \in [Params -> ValueT] /\ new[p] = v
      /\ \A q \in Params \ {p} : new[q] = old[q]
  BY <1>2
<1> HIDE DEF new
<1>4. supplied' = [supplied EXCEPT ![s] = new]
  BY Zenon DEF old, new
<1>5. /\ supplied' \in [Stmts -> [Params -> ValueT]] /\ supplied'[s] = new
      /\ \A t \in Stmts \ {s} : supplied'[t] = supplied[t]
  BY <1>1, <1>3, <1>4
<1> QED
  BY <1>3, <1>5 DEF old

(* The parameter that was asked for last.                                  *)
LEMMA Present ==
    ASSUME CInv, NEW s \in Stmts, need[s] \in {"asked", "put"}
    PROVE  current_param[s] \in Params
<1>1. Control(s) /\ need[s] # "no" /\ need[s] # "need"
  BY DEF CInv
<1>2. Declared(s) \subseteq Params
  BY ApdOfAssumption DEF CInv, Shape, Declared
<1> QED
  BY <1>1, <1>2 DEF Control, Progress

(* What a piece does to the record.                                        *)
LEMMA PieceType ==
    ASSUME NEW r \in ParT, NEW piece \in Pieces
    PROVE  LET par == [r EXCEPT !.data = Append(@, piece), !.alloc = TRUE]
           IN  /\ par \in ParT /\ par.alloc /\ par.is_dae = r.is_dae
               /\ par.data = Append(r.data, piece)
<1> DEFINE more == Append(r.data, piece)
           q    == [r EXCEPT !.data = more]
<1>1. more \in Seq(Pieces)
  BY DEF ParT
<1> HIDE DEF more
<1>2. q \in ParT /\ q.data = more /\ q.is_dae = r.is_dae
  BY <1>1 DEF ParT
<1>3. [r EXCEPT !.data = more, !.alloc = TRUE] = [q EXCEPT !.alloc = TRUE]
  BY Zenon
<1> HIDE DEF q
<1>4. /\ [q EXCEPT !.alloc = TRUE] \in ParT
      /\ [q EXCEPT !.alloc = TRUE].alloc
      /\ [q EXCEPT !.alloc = TRUE].data = q.data
      /\ [q EXCEPT !.alloc = TRUE].is_dae = q.is_dae
  BY <1>2 DEF ParT
<1> QED
  BY <1>2, <1>3, <1>4, Zenon DEF more

(* What SQLPutData does to the record, and to what has been supplied.      *)
PutPiece(s, piece) ==
    \E p \in Params, par \in ParT, v \in ValueT :
        /\ p = current_param[s]
        /\ SetPar(s, p, par) /\ supplied' = [supplied EXCEPT ![s][p] = v]
        /\ par.alloc /\ par.is_dae = ParAt(s, p).is_dae
        /\ par.data = Append(ParAt(s, p).data, piece)
        /\ v = Data(Append(supplied[s][p].pieces, piece))
        /\ ParAt(s, p) \in ParT /\ supplied[s][p].pieces \in Seq(Pieces)

LEMMA PutDataEffect ==
    ASSUME CInv, NEW s \in Stmts, NEW piece \in Pieces, PutData(s, piece)
    PROVE  PutPiece(s, piece)
<1> DEFINE p    == current_param[s]
           old  == ParAt(s, p)
           par  == [old EXCEPT !.data = Append(@, piece), !.alloc = TRUE]
           more == Append(supplied[s][p].pieces, piece)
           v    == Data(more)
<1>1. need[s] \in {"asked", "put"} /\ Shape
  BY DEF CInv, PutData
<1>2. p \in Params
  BY <1>1, Present
<1>3. old \in ParT
  BY <1>1, <1>2, InUse
<1>4. /\ par \in ParT /\ par.alloc /\ par.is_dae = old.is_dae
      /\ par.data = Append(old.data, piece)
  <2> HIDE DEF old
  <2> QED
    BY <1>3, PieceType
<1>5. SetPar(s, p, par) /\ supplied' = [supplied EXCEPT ![s][p] = v]
  BY Zenon DEF PutData
<1>6. supplied[s][p].pieces \in Seq(Pieces)
  BY <1>1, <1>2 DEF Shape, ValueT
<1>7. more \in Seq(Pieces)
  BY <1>6
<1>8. v \in ValueT
  <2> HIDE DEF more
  <2> QED
    BY <1>7, ValueTypes
<1>9. v = Data(Append(supplied[s][p].pieces, piece)) /\ old = ParAt(s, p)
      /\ p = current_param[s]
  OBVIOUS
<1> HIDE DEF p, old, par, more, v
<1> QED
  BY <1>2, <1>3, <1>4, <1>5, <1>6, <1>8, <1>9, Zenon DEF PutPiece

LEMMA CPutData ==
    ASSUME CInv, NEW s \in Stmts, NEW piece \in Pieces, PutData(s, piece)
    PROVE  CInv' /\ Sound'
<1>1. PICK p \in Params, par \in ParT, v \in ValueT :
         /\ p = current_param[s]
         /\ SetPar(s, p, par) /\ supplied' = [supplied EXCEPT ![s][p] = v]
         /\ par.alloc /\ par.is_dae = ParAt(s, p).is_dae
         /\ par.data = Append(ParAt(s, p).data, piece)
         /\ v = Data(Append(supplied[s][p].pieces, piece))
         /\ ParAt(s, p) \in ParT /\ supplied[s][p].pieces \in Seq(Pieces)
  <2>1. PutPiece(s, piece)
    BY PutDataEffect
  <2> QED
    BY <2>1, Zenon DEF PutPiece
<1>2. /\ Shape /\ need[s] \in {"asked", "put"} /\ sent' = NoQuery
      /\ need' = [need EXCEPT ![s] = "put"] /\ habits' = habits
      /\ UNCHANGED <<result, dae_type, current_param, apdInd, ardInd, moved,
                     server, tempbuf, started, asked>>
  BY DEF PutData, CInv
<1>3. dae_type[s] = "normal" \/ setpos_apd[s] # NoDesc
  BY <1>2, InUse
<1>4. /\ apd' \in [Apds -> Copies]
      /\ setpos_apd' \in [Stmts -> {NoDesc} \cup Copies]
      /\ setpos_apd[s] = NoDesc <=> setpos_apd'[s] = NoDesc
      /\ \A t \in Stmts \ {s} : setpos_apd'[t] = setpos_apd[t]
  BY <1>1, <1>2, <1>3, SetParEffect
<1>5. /\ supplied' \in [Stmts -> [Params -> ValueT]]
      /\ \A t \in Stmts \ {s} : supplied'[t] = supplied[t]
  BY <1>1, <1>2, SuppliedEffect
<1> QED
  BY <1>2, <1>4, <1>5, CPut

LEMMA CPutNull ==
    ASSUME CInv, NEW s \in Stmts, PutNull(s)
    PROVE  CInv' /\ Sound'
<1> DEFINE p   == current_param[s]
           par == Reset(ParAt(s, p))
<1>1. /\ Shape /\ need[s] \in {"asked", "put"} /\ sent' = NoQuery
      /\ need' = [need EXCEPT ![s] = "put"] /\ habits \subseteq habits'
      /\ SetPar(s, p, par) /\ supplied' = [supplied EXCEPT ![s][p] = Null]
      /\ UNCHANGED <<result, dae_type, current_param, apdInd, ardInd, moved,
                     server, tempbuf, started, asked>>
  BY DEF PutNull, CInv, Exercise
<1>2. /\ p \in Params /\ par \in ParT
      /\ dae_type[s] = "normal" \/ setpos_apd[s] # NoDesc
  BY <1>1, Present, InUse, ResetType
<1> HIDE DEF p, par
<1>3. /\ apd' \in [Apds -> Copies]
      /\ setpos_apd' \in [Stmts -> {NoDesc} \cup Copies]
      /\ setpos_apd[s] = NoDesc <=> setpos_apd'[s] = NoDesc
      /\ \A t \in Stmts \ {s} : setpos_apd'[t] = setpos_apd[t]
  BY <1>1, <1>2, SetParEffect
<1>4. /\ supplied' \in [Stmts -> [Params -> ValueT]]
      /\ \A t \in Stmts \ {s} : supplied'[t] = supplied[t]
  BY <1>1, <1>2, SuppliedEffect, ValueTypes
<1> QED
  BY <1>1, <1>3, <1>4, CPut

LEMMA CPutEmpty ==
    ASSUME CInv, NEW s \in Stmts, PutEmpty(s)
    PROVE  CInv' /\ Sound'
<1> DEFINE p == current_param[s]
<1>1. /\ Shape /\ need[s] \in {"asked", "put"} /\ sent' = NoQuery
      /\ need' = [need EXCEPT ![s] = "put"] /\ habits \subseteq habits'
      /\ UNCHANGED <<result, dae_type, current_param, apdInd, ardInd, moved,
                     server, tempbuf, started, asked>>
      /\ UNCHANGED <<apd, setpos_apd>>
  BY DEF PutEmpty, CInv, Exercise, desc
<1>2. p \in Params /\ Data(<<>>) \in ValueT
  <2>1. p \in Params
    BY <1>1, Present
  <2> QED
    BY <2>1 DEF Data, Value, ValueT, Kinds
<1>5. supplied' = [supplied EXCEPT ![s][p] = Data(<<>>)]
  BY Zenon DEF PutEmpty
<1> HIDE DEF p
<1>3. /\ supplied' \in [Stmts -> [Params -> ValueT]]
      /\ \A t \in Stmts \ {s} : supplied'[t] = supplied[t]
  BY <1>1, <1>2, <1>5, SuppliedEffect
<1>4. /\ apd' \in [Apds -> Copies]
      /\ setpos_apd' \in [Stmts -> {NoDesc} \cup Copies]
  BY <1>1 DEF Shape
<1> QED
  BY <1>1, <1>3, <1>4, CPut

(* Once everything has been asked for it is all that was declared.         *)
LEMMA AllAsked ==
    ASSUME CInv, NEW s \in Stmts, need[s] # "no", Unasked(s) = {}
    PROVE  /\ \A p \in Declared(s) : p <= current_param[s]
           /\ {asked[s][k] : k \in DOMAIN asked[s]} = Declared(s)
           /\ \A j, k \in DOMAIN asked[s] : j < k => asked[s][j] < asked[s][k]
<1>1. Control(s) /\ Shape
  BY DEF CInv
<1>2. current_param[s] \in Int /\ Declared(s) \subseteq Int
  BY <1>1, NAssumption, ApdOfAssumption DEF Shape, Declared, Params
<1>3. \A p \in Declared(s) : p <= current_param[s]
  <2>1. CASE moved[s]
    BY <1>1, <2>1 DEF Control, Progress
  <2>2. CASE ~moved[s]
    <3>1. DaeParams(s) = Declared(s)
      BY <2>2 DEF DaeParams, Declared, AtOffset
    <3> SUFFICES ASSUME NEW p \in Declared(s), ~(p <= current_param[s])
                 PROVE  FALSE
      OBVIOUS
    <3>2. p > current_param[s]
      BY <1>2
    <3> QED
      BY <3>1, <3>2 DEF Unasked
  <2> QED
    BY <2>1, <2>2
<1>4. {asked[s][k] : k \in DOMAIN asked[s]}
         = {p \in Declared(s) : p <= current_param[s]}
  BY <1>1 DEF Control, Progress
<1>5. \A j, k \in DOMAIN asked[s] : j < k => asked[s][j] < asked[s][k]
  BY <1>1 DEF Control, Progress
<1> QED
  BY <1>3, <1>4, <1>5

LEMMA CMoveOffset ==
    ASSUME CInv, NEW s \in Stmts, MoveOffset(s)
    PROVE  CInv' /\ Sound'
<1>1. /\ Shape /\ Control(s) /\ need[s] = "put" /\ Unasked(s) = {}
      /\ dae_type[s] \in Changes
      /\ moved' = [moved EXCEPT ![s] = TRUE] /\ sent' = NoQuery
      /\ habits \subseteq habits'
      /\ UNCHANGED <<result, dae_type, current_param, setpos_apd, apd,
                     apdInd, ardInd, server, tempbuf, need, started, asked,
                     supplied>>
  BY DEF CInv, MoveOffset, Exercise, app
<1>2. \A p \in Declared(s) : p <= current_param[s]
  BY <1>1, AllAsked
<1>3. moved' \in [Stmts -> BOOLEAN] /\ moved'[s]
      /\ \A t \in Stmts \ {s} : moved'[t] = moved[t]
  BY <1>1 DEF Shape
<1>4. Shape'
  BY <1>1, <1>3 DEF Shape
<1>5. OthersLeft(s)
  <2>1. ASSUME NEW t \in Stmts \ {s} PROVE Mine(t)' = Mine(t)
    BY <1>1, <1>3 DEF Mine
  <2> QED
    BY <1>1, <2>1 DEF OthersLeft
<1>6. Control(s)'
  <2>1. Idle(s)' /\ Text(s)' /\ Kept(s)'
    BY <1>1, <1>3 DEF Control, Idle, Text, Kept
  <2>2. Declared(s)' = Declared(s)
    BY <1>1 DEF Declared
  <2>3. Progress(s)'
    BY <1>1, <1>2, <2>2 DEF Control, Progress
  <2> QED
    BY <2>1, <2>3 DEF Control
<1> QED
  BY <1>1, <1>4, <1>5, <1>6, CActor, NoneSent

(* A sequence that is over leaves a statement idle.                        *)
LEMMA CFinish ==
    ASSUME CInv, NEW s \in Stmts, need[s] # "no", LeaveSequence(s),
           dae_type' = [dae_type EXCEPT ![s] = "none"],
           \/ setpos_apd' = [setpos_apd EXCEPT ![s] = NoDesc]
           \/ dae_type[s] = "normal" /\ setpos_apd' = setpos_apd,
           result' \in [Stmts -> BOOLEAN],
           \A t \in Stmts \ {s} : result'[t] = result[t],
           tempbuf' \in [Stmts -> Seq(ValueT)],
           \A t \in Stmts \ {s} : tempbuf'[t] = tempbuf[t],
           tempbuf'[s] # <<>> => \/ "failedAdd" \in habits'
                                 \/ ~result'[s],
           habits \subseteq habits',
           UNCHANGED <<current_param, apd, apdInd, server>>
    PROVE  CInv'
<1>1. Shape /\ Control(s)
  BY DEF CInv
<1>2. /\ need' \in [Stmts -> {"no", "need", "asked", "put"}]
      /\ started' \in [Stmts -> {"none"} \cup Ops]
      /\ asked' \in [Stmts -> Seq(Params)]
      /\ supplied' \in [Stmts -> [Params -> ValueT]]
      /\ ardInd' \in [Stmts -> SUBSET Params]
      /\ moved' \in [Stmts -> BOOLEAN]
      /\ need'[s] = "no" /\ started'[s] = "none" /\ asked'[s] = <<>>
      /\ ~moved'[s]
      /\ \A t \in Stmts \ {s} :
            /\ need'[t] = need[t] /\ started'[t] = started[t]
            /\ asked'[t] = asked[t] /\ supplied'[t] = supplied[t]
            /\ ardInd'[t] = ardInd[t] /\ moved'[t] = moved[t]
  BY <1>1, LeaveEffect
<1>3. /\ dae_type' \in [Stmts -> {"none", "normal"} \cup Changes]
      /\ dae_type'[s] = "none"
      /\ \A t \in Stmts \ {s} : dae_type'[t] = dae_type[t]
  BY <1>1 DEF Shape
<1>4. /\ setpos_apd' \in [Stmts -> {NoDesc} \cup Copies]
      /\ "busy" \notin habits => setpos_apd'[s] = NoDesc
      /\ \A t \in Stmts \ {s} : setpos_apd'[t] = setpos_apd[t]
  BY <1>1 DEF Shape, Control, Kept
<1>5. Shape'
  BY <1>1, <1>2, <1>3, <1>4 DEF Shape
<1>6. OthersLeft(s)
  <2>1. ASSUME NEW t \in Stmts \ {s} PROVE Mine(t)' = Mine(t)
    BY <1>2, <1>3, <1>4 DEF Mine
  <2> QED
    BY <2>1 DEF OthersLeft
<1>7. Control(s)'
  BY <1>2, <1>3, <1>4 DEF Control, Idle, Kept, Progress, Text
<1> QED
  BY <1>5, <1>6, <1>7, CActor

LEMMA CFinishExecute ==
    ASSUME CInv, NEW s \in Stmts, FinishExecute(s)
    PROVE  CInv' /\ Sound'
<1> DEFINE values == [p \in Params |-> ParamValue(s, apd[ApdOf[s]], p)]
<1>1. /\ Shape /\ Control(s) /\ need[s] # "no" /\ dae_type[s] = "normal"
      /\ Unasked(s) = {}
  BY DEF CInv, FinishExecute
<1>2. /\ tempbuf[s] \in Seq(ValueT) /\ tempbuf \in [Stmts -> Seq(ValueT)]
      /\ result \in [Stmts -> BOOLEAN] /\ values \in [Params -> ValueT]
  BY <1>1, ParamTypes, ApdOfAssumption DEF Shape
<1>3. /\ dae_type' = [dae_type EXCEPT ![s] = "none"]
      /\ LeaveSequence(s)
      /\ UNCHANGED <<current_param, setpos_apd, apd, apdInd, server, habits>>
  BY DEF FinishExecute
<1>4. "failedAdd" \notin habits => tempbuf[s] = <<>>
  BY <1>1 DEF Control, Text
<1>5. ASSUME sent' = Query("execute", started[s], tempbuf[s] \o values,
                           apdInd[ApdOf[s]], asked[s], supplied[s]),
             tempbuf' = [tempbuf EXCEPT ![s] = <<>>],
             NEW open \in BOOLEAN, result' = [result EXCEPT ![s] = open]
      PROVE  CInv' /\ Sound'
  <2> HIDE DEF values
  <2>1. /\ tempbuf' \in [Stmts -> Seq(ValueT)] /\ tempbuf'[s] = <<>>
        /\ \A t \in Stmts \ {s} : tempbuf'[t] = tempbuf[t]
    BY <1>2, <1>5
  <2>2. /\ result' \in [Stmts -> BOOLEAN]
        /\ \A t \in Stmts \ {s} : result'[t] = result[t]
    BY <1>2, <1>5
  <2>3. CInv'
    BY <1>1, <1>3, <2>1, <2>2, CFinish
  <2>4. started[s] = "execute" /\ Declared(s) = apdInd[ApdOf[s]]
    BY <1>1 DEF Control, Kept, Declared
  <2>5. /\ {asked[s][k] : k \in DOMAIN asked[s]} = apdInd[ApdOf[s]]
        /\ \A j, k \in DOMAIN asked[s] : j < k => asked[s][j] < asked[s][k]
    BY <1>1, <2>4, AllAsked
  <2>6. "failedAdd" \notin habits' => Len(tempbuf[s] \o values) = N
    <3>1. tempbuf[s] = <<>> => tempbuf[s] \o values = values
      BY <1>2, ValuesAreSeq, ConcatEmptySeq
    <3> QED
      BY <1>2, <1>3, <1>4, <3>1, ValuesAreSeq
  <2>7. Sound'
    BY <1>5, <2>4, <2>5, <2>6, QuerySent
  <2> QED
    BY <2>3, <2>7
<1>6. ASSUME NEW bad \in Params,
             tempbuf' = [tempbuf EXCEPT ![s] =
                 IF server[s] THEN @ ELSE @ \o SubSeq(values, 1, bad - 1)],
             sent' = NoQuery, result' = result
      PROVE  CInv' /\ Sound'
  <2> DEFINE text == IF server[s] THEN tempbuf[s]
                     ELSE tempbuf[s] \o SubSeq(values, 1, bad - 1)
  <2> HIDE DEF values
  <2>1. tempbuf[s] \o SubSeq(values, 1, bad - 1) \in Seq(ValueT)
    BY <1>2, Written
  <2>2. text \in Seq(ValueT) /\ tempbuf' = [tempbuf EXCEPT ![s] = text]
    BY <1>2, <1>6, <2>1
  <2> HIDE DEF text
  <2>3. /\ tempbuf' \in [Stmts -> Seq(ValueT)]
        /\ \A t \in Stmts \ {s} : tempbuf'[t] = tempbuf[t]
    BY <1>2, <2>2
  <2>4. ~result[s]
    BY <1>1 DEF Control, Kept
  <2>5. CInv'
    BY <1>1, <1>2, <1>3, <1>6, <2>3, <2>4, CFinish
  <2> QED
    BY <1>6, <2>5, NoneSent
<1> QED
  BY <1>5, <1>6 DEF FinishExecute

LEMMA CFinishSetPos ==
    ASSUME CInv, NEW s \in Stmts, FinishSetPos(s)
    PROVE  CInv' /\ Sound'
<1> DEFINE op     == dae_type[s]
           values == ColumnValues(s, op, ardInd[s], "done", setpos_apd[s])
<1>1. /\ Shape /\ Control(s) /\ need[s] # "no" /\ op \in Changes
      /\ Unasked(s) = {}
  BY DEF CInv, FinishSetPos
<1>2. /\ tempbuf[s] \in Seq(ValueT) /\ tempbuf \in [Stmts -> Seq(ValueT)]
      /\ result \in [Stmts -> BOOLEAN] /\ values \in [Params -> ValueT]
  BY <1>1, ColumnTypes DEF Shape
<1>3. /\ dae_type' = [dae_type EXCEPT ![s] = "none"]
      /\ setpos_apd' = [setpos_apd EXCEPT ![s] = NoDesc]
      /\ LeaveSequence(s)
      /\ UNCHANGED <<result, current_param, apd, apdInd, server>>
  BY DEF FinishSetPos
<1>4. "failedAdd" \notin habits => tempbuf[s] = <<>>
  BY <1>1 DEF Control, Text
<1>5. CASE SendChange(s, dae_type[s], started[s], ardInd[s], "done",
                      setpos_apd[s])
  <2>1. /\ sent' = Query(op, started[s], tempbuf[s] \o values, ardInd[s],
                         asked[s], supplied[s])
        /\ tempbuf' = [tempbuf EXCEPT ![s] = <<>>] /\ habits' = habits
    BY <1>5 DEF SendChange
  <2> HIDE DEF values
  <2>2. /\ tempbuf' \in [Stmts -> Seq(ValueT)] /\ tempbuf'[s] = <<>>
        /\ \A t \in Stmts \ {s} : tempbuf'[t] = tempbuf[t]
    BY <1>2, <2>1
  <2>3. CInv'
    BY <1>1, <1>2, <1>3, <2>1, <2>2, CFinish
  <2>4. Declared(s) = ardInd[s]
    BY <1>1 DEF Declared, Changes
  <2>5. "bookmark" \notin habits' => op = started[s]
    BY <1>1, <2>1 DEF Control, Kept
  <2>6. /\ {asked[s][k] : k \in DOMAIN asked[s]} = ardInd[s]
        /\ \A j, k \in DOMAIN asked[s] : j < k => asked[s][j] < asked[s][k]
    BY <1>1, <2>4, AllAsked
  <2>7. "failedAdd" \notin habits' => Len(tempbuf[s] \o values) = N
    <3>1. tempbuf[s] = <<>> => tempbuf[s] \o values = values
      BY <1>2, ValuesAreSeq, ConcatEmptySeq
    <3> QED
      BY <1>2, <1>4, <2>1, <3>1, ValuesAreSeq
  <2> HIDE DEF op
  <2>8. Sound'
    BY <2>1, <2>5, <2>6, <2>7, QuerySent
  <2> QED
    BY <2>3, <2>8
<1>6. CASE FailChange(s, dae_type[s], ardInd[s], "done", setpos_apd[s])
  <2>1. FailedText(s, op, values) /\ sent' = NoQuery
    BY <1>6 DEF FailChange, FailedText, Exercise
  <2> HIDE DEF values
  <2>2. /\ tempbuf' \in [Stmts -> Seq(ValueT)]
        /\ \A t \in Stmts \ {s} : tempbuf'[t] = tempbuf[t]
        /\ tempbuf[s] = <<>> /\ tempbuf'[s] # <<>> =>
              "failedAdd" \in habits'
        /\ habits \subseteq habits'
    BY <1>2, <2>1, FailedTextEffect
  <2>3. CInv'
    BY <1>1, <1>2, <1>3, <1>4, <2>2, CFinish
  <2> QED
    BY <2>1, <2>3, NoneSent
<1> QED
  BY <1>5, <1>6 DEF FinishSetPos

LEMMA CNext ==
    ASSUME CInv, Next
    PROVE  CInv' /\ Sound'
<1>1. PICK s \in Stmts :
        \/ Execute(s) \/ ExecuteNeedsData(s) \/ Close(s) \/ CancelBusy(s)
        \/ \E op \in Changes : SetPos(s, op)
        \/ UpdateByBookmark(s)
        \/ AskNext(s) \/ FinishExecute(s) \/ FinishSetPos(s)
        \/ \E piece \in Pieces : PutData(s, piece)
        \/ PutNull(s) \/ PutEmpty(s) \/ MoveOffset(s)
  BY DEF Next
<1>2. ASSUME NEW op \in Changes, SetPos(s, op) PROVE CInv' /\ Sound'
  <2>1. op \in Ops /\ op # "execute"
    BY DEF Ops, Changes
  <2> QED
    BY <1>2, <2>1, CChange, CNeedColumns DEF SetPos
<1>3. ASSUME UpdateByBookmark(s) PROVE CInv' /\ Sound'
  <2>1. "bookmark" \in Ops /\ "update" \in Changes
    BY DEF Ops, Changes
  <2> QED
    BY <1>3, <2>1, CChange, CNeedColumns DEF UpdateByBookmark, Exercise
<1> QED
  BY <1>1, <1>2, <1>3, CExecute, CExecuteNeedsData, CClose, CCancelBusy,
     CAskNext, CFinishExecute, CFinishSetPos, CPutData, CPutNull, CPutEmpty,
     CMoveOffset

LEMMA CKeeps ==
    ASSUME CInv, UNCHANGED vars
    PROVE  CInv'
<1>1. Shape'
  BY DEF vars, CInv, Shape
<1>2. ASSUME NEW s \in Stmts PROVE Control(s)'
  <2>1. Control(s)
    BY DEF CInv
  <2>2. Idle(s)' /\ Kept(s)' /\ Text(s)'
    BY <2>1 DEF vars, Control, Idle, Kept, Text
  <2>3. Declared(s)' = Declared(s)
    BY DEF vars, Declared
  <2>4. Progress(s)'
    BY <2>1, <2>3 DEF vars, Control, Progress
  <2> QED
    BY <2>2, <2>4 DEF Control
<1> QED
  BY <1>1, <1>2 DEF CInv

LEMMA CStep == CInv /\ Sound /\ [Next]_vars => CInv' /\ Sound'
<1> SUFFICES ASSUME CInv, Sound, [Next]_vars PROVE CInv' /\ Sound'
  OBVIOUS
<1>1. CASE UNCHANGED vars
  <2>1. CInv'
    BY <1>1, CKeeps
  <2>2. Sound'
    BY <1>1 DEF vars, Sound, QueryAsStarted, OneValuePerColumn,
       OperationAsStarted, AskedOnceInOrder
  <2> QED
    BY <2>1, <2>2
<1> QED
  BY <1>1, CNext

LEMMA SoundInit == Init => Sound
BY DEF Init, Sound, QueryAsStarted, OneValuePerColumn, OperationAsStarted,
   AskedOnceInOrder

(* The query that ends a sequence is that of the operation that began it,  *)
(* with one value for each column, whatever the statements of the          *)
(* connection did in between and whether or not they share descriptors.    *)
THEOREM QueriesAsStarted == Spec => []QueryAsStarted
<1>1. Sound => QueryAsStarted
  BY DEF Sound
<1> QED
  BY <1>1, CInit, CStep, SoundInit, PTL DEF Spec

(* SQLParamData has asked for every parameter declared data-at-exec, once  *)
(* and in order, before a query is sent.                                   *)
THEOREM EachAskedOnce == Spec => []AskedOnceInOrder
<1>1. Sound => AskedOnceInOrder
  BY DEF Sound
<1> QED
  BY <1>1, CInit, CStep, SoundInit, PTL DEF Spec

(* Nothing of a sequence outlives it in the driver, but for SQLCancel that *)
(* met a busy connection: a later operation finds no dae_type and no       *)
(* copied descriptor to take up.                                           *)
THEOREM NothingOutlivesSequence == Spec => []NothingLeftBehind
<1>1. CInv => NothingLeftBehind
  BY DEF CInv, Control, Idle, NothingLeftBehind
<1> QED
  BY <1>1, CInit, CStep, SoundInit, PTL DEF Spec

-----------------------------------------------------------------------------
(* Statements that have descriptors of their own.                          *)
Own   == \A s, t \in Stmts : ApdOf[s] = ApdOf[t] => s = t
Plain == habits \subseteq {"bookmark"}

(* The record of each parameter that has been dealt with holds what the    *)
(* application has supplied for it, the others nothing yet; the is_dae of  *)
(* a copied descriptor says which those are.                               *)
Held(s) ==
    Plain /\ need[s] # "no" =>
        /\ ~moved[s]
        /\ need[s] = "need" =>
              /\ Declared(s) # {}
              /\ \A p \in Declared(s) : p > current_param[s]
        /\ \A p \in Params :
              p > current_param[s] => supplied[s][p] = Nothing
        /\ \A p \in Declared(s) :
              p < current_param[s] \/ (p = current_param[s] /\ need[s] = "put")
                 => /\ ParAt(s, p).alloc
                    /\ supplied[s][p] = Data(ParAt(s, p).data)
        /\ need[s] \in {"asked", "put"} =>
              supplied[s][current_param[s]].pieces
                 = ParAt(s, current_param[s]).data
        /\ dae_type[s] # "normal" =>
              \A p \in Params :
                 ParAt(s, p).is_dae <=>
                    (p \in Declared(s) /\ p <= current_param[s])

(* What Held says of a statement, other statements leave alone.            *)
HeldOf(t) == <<dae_type[t], current_param[t], setpos_apd[t], ardInd[t],
               moved[t], need[t], supplied[t], apd[ApdOf[t]],
               apdInd[ApdOf[t]]>>

OthersHeld(s) ==
    /\ \A t \in Stmts \ {s} : HeldOf(t)' = HeldOf(t)
    /\ habits \subseteq habits'

LEMMA HeldKeeps ==
    ASSUME NEW t \in Stmts, Held(t), HeldOf(t)' = HeldOf(t),
           habits \subseteq habits'
    PROVE  Held(t)'
<1>1. /\ dae_type'[t] = dae_type[t] /\ current_param'[t] = current_param[t]
      /\ setpos_apd'[t] = setpos_apd[t] /\ ardInd'[t] = ardInd[t]
      /\ moved'[t] = moved[t] /\ need'[t] = need[t]
      /\ supplied'[t] = supplied[t] /\ apd'[ApdOf[t]] = apd[ApdOf[t]]
      /\ apdInd'[ApdOf[t]] = apdInd[ApdOf[t]]
  BY DEF HeldOf
<1>2. /\ Declared(t)' = Declared(t)
      /\ Plain' => Plain
      /\ \A p \in Params : ParAt(t, p)' = ParAt(t, p)
  BY <1>1 DEF Declared, Plain, ParAt
<1>3. SUFFICES ASSUME Plain', need'[t] # "no" PROVE Held(t)'
  BY DEF Held
<1>4. Plain /\ need[t] # "no"
  BY <1>1, <1>2, <1>3
<1>5. ParAt(t, current_param[t])' = ParAt(t, current_param[t])
  BY <1>1 DEF ParAt
<1>6. ~moved'[t]
  BY <1>1, <1>4 DEF Held
<1>7. need'[t] = "need" =>
         /\ Declared(t)' # {}
         /\ \A p \in Declared(t)' : p > current_param'[t]
  BY <1>1, <1>2, <1>4 DEF Held
<1>8. \A p \in Params : p > current_param'[t] => supplied'[t][p] = Nothing
  BY <1>1, <1>4 DEF Held
<1>9. ASSUME NEW p \in Declared(t)',
             p < current_param'[t] \/ (p = current_param'[t]
                                       /\ need'[t] = "put")
      PROVE  /\ ParAt(t, p)'.alloc
             /\ supplied'[t][p] = Data(ParAt(t, p)'.data)
  <2>1. ParAt(t, p)' = ParAt(t, p)
    BY <1>1 DEF ParAt
  <2> QED
    BY <1>1, <1>2, <1>4, <1>9, <2>1 DEF Held
<1>10. need'[t] \in {"asked", "put"} =>
          supplied'[t][current_param'[t]].pieces
             = ParAt(t, current_param[t])'.data
  BY <1>1, <1>4, <1>5 DEF Held
<1>11. dae_type'[t] # "normal" =>
          \A p \in Params :
             ParAt(t, p)'.is_dae <=>
                (p \in Declared(t)' /\ p <= current_param'[t])
  BY <1>1, <1>2, <1>4 DEF Held
<1> QED
  BY <1>1, <1>6, <1>7, <1>8, <1>9, <1>10, <1>11 DEF Held, ParAt

LEMMA HeldActor ==
    ASSUME \A t \in Stmts : Held(t), NEW s \in Stmts, OthersHeld(s), Held(s)'
    PROVE  \A t \in Stmts : Held(t)'
<1> SUFFICES ASSUME NEW t \in Stmts \ {s} PROVE Held(t)'
  OBVIOUS
<1>1. Held(t) /\ HeldOf(t)' = HeldOf(t) /\ habits \subseteq habits'
  BY DEF OthersHeld
<1> QED
  BY <1>1, HeldKeeps

(* A statement that is in no sequence afterwards, or has one that only     *)
(* other habits lead to, needs to hold nothing.                            *)
LEMMA HeldLeaves ==
    ASSUME NEW s \in Stmts, need'[s] = "no" \/ ~Plain'
    PROVE  Held(s)'
BY DEF Held

LEMMA OwnDescriptors ==
    ASSUME Own, NEW s \in Stmts, NEW t \in Stmts \ {s}
    PROVE  ApdOf[t] \in Apds \ {ApdOf[s]} /\ ApdOf[s] \in Apds
BY ApdOfAssumption DEF Own

(* The steps that begin no sequence and do not go on with one.             *)
LEMMA HExecute ==
    ASSUME Own, CInv, NEW s \in Stmts, Execute(s)
    PROVE  OthersHeld(s) /\ Held(s)'
<1>1. /\ Shape /\ need[s] = "no" /\ FreeStmt(s)
      /\ dae_type' = [dae_type EXCEPT ![s] = "none"]
      /\ apdInd' = [apdInd EXCEPT ![ApdOf[s]] = {}]
      /\ UNCHANGED <<current_param, setpos_apd, ardInd, moved, need, supplied,
                     habits>>
  BY DEF CInv, Execute, app
<1>2. \A a \in Apds \ {ApdOf[s]} : apd'[a] = apd[a]
  BY <1>1, FreeStmtEffect
<1>3. ASSUME NEW t \in Stmts \ {s} PROVE HeldOf(t)' = HeldOf(t)
  <2>1. ApdOf[t] \in Apds \ {ApdOf[s]}
    BY OwnDescriptors
  <2>2. apd'[ApdOf[t]] = apd[ApdOf[t]] /\ apdInd'[ApdOf[t]] = apdInd[ApdOf[t]]
        /\ dae_type'[t] = dae_type[t]
    BY <1>1, <1>2, <2>1 DEF Shape
  <2> QED
    BY <1>1, <2>2 DEF HeldOf
<1> QED
  BY <1>1, <1>3, HeldLeaves DEF OthersHeld

LEMMA HClose ==
    ASSUME Own, CInv, NEW s \in Stmts, Close(s) \/ CancelBusy(s)
    PROVE  OthersHeld(s) /\ Held(s)'
<1>1. /\ Shape /\ LeaveSequence(s)
      /\ UNCHANGED <<current_param, apdInd>>
      /\ habits \subseteq habits'
      /\ \A t \in Stmts \ {s} :
            dae_type'[t] = dae_type[t] /\ setpos_apd'[t] = setpos_apd[t]
  BY DEF CInv, Close, CancelBusy, Exercise, Shape
<1>2. \A a \in Apds \ {ApdOf[s]} : apd'[a] = apd[a]
  BY <1>1, FreeStmtEffect DEF Close, CancelBusy
<1>3. /\ need'[s] = "no"
      /\ \A t \in Stmts \ {s} :
            /\ need'[t] = need[t] /\ supplied'[t] = supplied[t]
            /\ ardInd'[t] = ardInd[t] /\ moved'[t] = moved[t]
  BY <1>1, LeaveEffect
<1>4. ASSUME NEW t \in Stmts \ {s} PROVE HeldOf(t)' = HeldOf(t)
  BY <1>1, <1>2, <1>3, OwnDescriptors DEF HeldOf
<1> QED
  BY <1>1, <1>3, <1>4, HeldLeaves DEF OthersHeld

LEMMA HChange ==
    ASSUME CInv, NEW s \in Stmts, NEW op, Change(s, op)
    PROVE  OthersHeld(s) /\ Held(s)'
<1>1. need'[s] = "no" /\ habits \subseteq habits'
  BY DEF Change, SendChange, FailChange, Exercise
<1>2. ASSUME NEW t \in Stmts \ {s} PROVE HeldOf(t)' = HeldOf(t)
  BY DEF Change, desc, app, HeldOf
<1> QED
  BY <1>1, <1>2, HeldLeaves DEF OthersHeld

LEMMA HFinish ==
    ASSUME CInv, NEW s \in Stmts, FinishExecute(s) \/ FinishSetPos(s)
    PROVE  OthersHeld(s) /\ Held(s)'
<1>1. /\ Shape /\ LeaveSequence(s)
      /\ dae_type' = [dae_type EXCEPT ![s] = "none"]
      /\ UNCHANGED <<current_param, apd, apdInd>>
  BY DEF CInv, FinishExecute, FinishSetPos
<1>2. /\ habits \subseteq habits'
      /\ \A t \in Stmts \ {s} :
            dae_type'[t] = dae_type[t] /\ setpos_apd'[t] = setpos_apd[t]
  BY <1>1 DEF FinishExecute, FinishSetPos, SendChange, FailChange, Exercise,
     Shape
<1>3. /\ need'[s] = "no"
      /\ \A t \in Stmts \ {s} :
            /\ need'[t] = need[t] /\ supplied'[t] = supplied[t]
            /\ ardInd'[t] = ardInd[t] /\ moved'[t] = moved[t]
  BY <1>1, LeaveEffect
<1>4. ASSUME NEW t \in Stmts \ {s} PROVE HeldOf(t)' = HeldOf(t)
  BY <1>1, <1>2, <1>3 DEF HeldOf
<1> QED
  BY <1>2, <1>3, <1>4, HeldLeaves DEF OthersHeld

LEMMA HPutNothing ==
    ASSUME Own, CInv, NEW s \in Stmts, PutNull(s) \/ PutEmpty(s)
    PROVE  OthersHeld(s) /\ Held(s)'
<1> DEFINE p   == current_param[s]
           par == Reset(ParAt(s, p))
<1>1. /\ Shape /\ need[s] \in {"asked", "put"}
      /\ need' = [need EXCEPT ![s] = "put"]
      /\ habits \subseteq habits' /\ "novalue" \in habits'
      /\ \/ SetPar(s, p, par) /\ supplied' = [supplied EXCEPT ![s][p] = Null]
         \/ /\ UNCHANGED <<apd, setpos_apd>>
            /\ supplied' = [supplied EXCEPT ![s][p] = Data(<<>>)]
      /\ UNCHANGED <<dae_type, current_param, apdInd, ardInd, moved>>
  BY DEF CInv, PutNull, PutEmpty, Exercise, desc
<1>2. /\ p \in Params /\ par \in ParT
      /\ dae_type[s] = "normal" \/ setpos_apd[s] # NoDesc
  BY <1>1, Present, InUse, ResetType
<1> HIDE DEF p, par
<1>3. /\ \A t \in Stmts \ {s} : setpos_apd'[t] = setpos_apd[t]
      /\ \A a \in Apds \ {ApdOf[s]} : apd'[a] = apd[a]
  <2>1. CASE SetPar(s, p, par)
    BY <1>1, <1>2, <2>1, SetParEffect
  <2> QED
    BY <1>1, <2>1
<1>4. \A t \in Stmts \ {s} : supplied'[t] = supplied[t]
  <2>1. Null \in ValueT /\ Data(<<>>) \in ValueT
    BY DEF Null, Data, Value, ValueT, Kinds
  <2> QED
    BY <1>1, <1>2, <2>1, SuppliedEffect
<1>5. ASSUME NEW t \in Stmts \ {s} PROVE HeldOf(t)' = HeldOf(t)
  <2>1. need'[t] = need[t]
    BY <1>1 DEF Shape
  <2> QED
    BY <1>1, <1>3, <1>4, <2>1, OwnDescriptors DEF HeldOf
<1>6. ~Plain'
  BY <1>1 DEF Plain
<1> QED
  BY <1>1, <1>5, <1>6, HeldLeaves DEF OthersHeld

LEMMA HMoveOffset ==
    ASSUME CInv, NEW s \in Stmts, MoveOffset(s)
    PROVE  OthersHeld(s) /\ Held(s)'
<1>1. /\ Shape /\ moved' = [moved EXCEPT ![s] = TRUE]
      /\ habits \subseteq habits' /\ "offset" \in habits'
      /\ UNCHANGED <<dae_type, current_param, setpos_apd, apd, apdInd, ardInd,
                     need, supplied>>
  BY DEF CInv, MoveOffset, Exercise, app
<1>2. ASSUME NEW t \in Stmts \ {s} PROVE HeldOf(t)' = HeldOf(t)
  BY <1>1 DEF HeldOf, Shape
<1>3. ~Plain'
  BY <1>1 DEF Plain
<1> QED
  BY <1>1, <1>2, <1>3, HeldLeaves DEF OthersHeld

(* The steps of a sequence.                                                *)
LEMMA HBegin ==
    ASSUME CInv, NEW s \in Stmts, need'[s] = "need", ~moved'[s],
           Declared(s)' # {}, \A p \in Declared(s)' : p > current_param'[s],
           current_param'[s] \in 0..N, Declared(s)' \subseteq Params,
           \A p \in Params : supplied'[s][p] = Nothing,
           \/ dae_type'[s] = "normal"
           \/ \A p \in Params : ~setpos_apd'[s][p].is_dae
    PROVE  Held(s)'
<1>1. ASSUME NEW p \in Declared(s)' PROVE ~(p <= current_param'[s])
  <2>1. p > current_param'[s] /\ p \in Int /\ current_param'[s] \in Int
    BY NAssumption DEF Params
  <2> QED
    BY <2>1
<1>2. ASSUME NEW p \in Declared(s)'
      PROVE  ~(p < current_param'[s] \/ p = current_param'[s])
  <2>1. p > current_param'[s] /\ p \in Int /\ current_param'[s] \in Int
    BY NAssumption DEF Params
  <2> QED
    BY <2>1
<1>3. dae_type'[s] # "normal" =>
         \A p \in Params : ~ParAt(s, p)'.is_dae
  BY DEF ParAt
<1> QED
  BY <1>1, <1>2, <1>3 DEF Held

LEMMA HExecuteNeedsData ==
    ASSUME Own, CInv, NEW s \in Stmts, ExecuteNeedsData(s)
    PROVE  OthersHeld(s) /\ Held(s)'
<1>1. /\ Shape /\ Control(s) /\ need[s] = "no" /\ ApdOf[s] \in Apds
      /\ FreeStmt(s) /\ UNCHANGED <<setpos_apd, ardInd, moved, habits>>
  BY ApdOfAssumption DEF CInv, ExecuteNeedsData
<1>2. PICK D \in (SUBSET Params) \ {{}} :
         /\ apdInd' = [apdInd EXCEPT ![ApdOf[s]] = D]
         /\ NeedData(s, "execute", "normal", D)
  BY DEF ExecuteNeedsData
<1>3. \A a \in Apds \ {ApdOf[s]} : apd'[a] = apd[a]
  BY <1>1, FreeStmtEffect
<1>4. /\ dae_type'[s] = "normal" /\ need'[s] = "need"
      /\ current_param' \in [Stmts -> 0..N]
      /\ \A p \in Params : supplied'[s][p] = Nothing
      /\ \A p \in D : p > current_param'[s]
      /\ \A t \in Stmts \ {s} :
            /\ dae_type'[t] = dae_type[t] /\ need'[t] = need[t]
            /\ current_param'[t] = current_param[t]
            /\ supplied'[t] = supplied[t]
  BY <1>1, <1>2, NeedDataEffect DEF Ops
<1>5. apdInd'[ApdOf[s]] = D
      /\ \A a \in Apds \ {ApdOf[s]} : apdInd'[a] = apdInd[a]
  BY <1>1, <1>2 DEF Shape
<1>6. ASSUME NEW t \in Stmts \ {s} PROVE HeldOf(t)' = HeldOf(t)
  BY <1>1, <1>3, <1>4, <1>5, OwnDescriptors DEF HeldOf
<1>7. Declared(s)' = D /\ D # {} /\ D \subseteq Params
  BY <1>4, <1>5 DEF Declared
<1>8. ~moved'[s] /\ current_param'[s] \in 0..N
  BY <1>1, <1>4 DEF Control, Idle
<1>9. Held(s)'
  BY <1>4, <1>7, <1>8, HBegin
<1> QED
  BY <1>1, <1>6, <1>9 DEF OthersHeld

LEMMA HNeedColumns ==
    ASSUME CInv, NEW s \in Stmts, NEW op \in Ops, NEW type \in Changes,
           NeedColumns(s, op, type), habits \subseteq habits'
    PROVE  OthersHeld(s) /\ Held(s)'
<1>1. /\ Shape /\ Control(s) /\ need[s] = "no"
      /\ setpos_apd' = [setpos_apd EXCEPT ![s] = [p \in Params |-> FreshPar]]
      /\ UNCHANGED <<apd, apdInd, moved>>
  BY DEF CInv, NeedColumns
<1>2. PICK D \in (SUBSET Params) \ {{}} :
         /\ ardInd' = [ardInd EXCEPT ![s] = D]
         /\ NeedData(s, op, type, D)
  BY DEF NeedColumns
<1>3. /\ dae_type'[s] = type /\ need'[s] = "need"
      /\ current_param' \in [Stmts -> 0..N]
      /\ \A p \in Params : supplied'[s][p] = Nothing
      /\ \A p \in D : p > current_param'[s]
      /\ \A t \in Stmts \ {s} :
            /\ dae_type'[t] = dae_type[t] /\ need'[t] = need[t]
            /\ current_param'[t] = current_param[t]
            /\ supplied'[t] = supplied[t]
  BY <1>1, <1>2, NeedDataEffect
<1>4. ardInd'[s] = D /\ \A t \in Stmts \ {s} : ardInd'[t] = ardInd[t]
  BY <1>1, <1>2 DEF Shape
<1>5. /\ \A t \in Stmts \ {s} : setpos_apd'[t] = setpos_apd[t]
      /\ \A p \in Params : ~setpos_apd'[s][p].is_dae
  BY <1>1, FreshType DEF Shape
<1>6. ASSUME NEW t \in Stmts \ {s} PROVE HeldOf(t)' = HeldOf(t)
  BY <1>1, <1>3, <1>4, <1>5 DEF HeldOf
<1>7. Declared(s)' = D /\ D # {} /\ D \subseteq Params
  BY <1>3, <1>4 DEF Declared, Changes
<1>8. ~moved'[s] /\ current_param'[s] \in 0..N
  BY <1>1, <1>3 DEF Control, Idle
<1>9. Held(s)'
  BY <1>3, <1>5, <1>7, <1>8, HBegin
<1> QED
  BY <1>6, <1>9 DEF OthersHeld

(* The records of a statement in a step that changes one of them.          *)
LEMMA OneRecord ==
    ASSUME CInv, NEW s \in Stmts, need[s] # "no", NEW p \in Params,
           NEW par \in ParT, SetPar(s, p, par), dae_type' = dae_type
    PROVE  /\ ParAt(s, p)' = par
           /\ \A q \in Params \ {p} : ParAt(s, q)' = ParAt(s, q)
           /\ \A t \in Stmts \ {s} : setpos_apd'[t] = setpos_apd[t]
           /\ \A a \in Apds \ {ApdOf[s]} : apd'[a] = apd[a]
<1>1. Shape /\ (dae_type[s] = "normal" \/ setpos_apd[s] # NoDesc)
  BY InUse DEF CInv
<1>2. /\ \A t \in Stmts \ {s} : setpos_apd'[t] = setpos_apd[t]
      /\ \A a \in Apds \ {ApdOf[s]} : apd'[a] = apd[a]
      /\ dae_type[s] = "normal" =>
            /\ apd'[ApdOf[s]][p] = par
            /\ \A q \in Params \ {p} :
                  apd'[ApdOf[s]][q] = apd[ApdOf[s]][q]
      /\ dae_type[s] # "normal" =>
            /\ setpos_apd'[s][p] = par
            /\ \A q \in Params \ {p} : setpos_apd'[s][q] = setpos_apd[s][q]
  BY <1>1, SetParEffect
<1>3. ParAt(s, p)' = par
  BY <1>2 DEF ParAt
<1>4. ASSUME NEW q \in Params \ {p} PROVE ParAt(s, q)' = ParAt(s, q)
  BY <1>2 DEF ParAt
<1> QED
  BY <1>2, <1>3, <1>4

LEMMA HAskNext ==
    ASSUME Own, CInv, NEW s \in Stmts, AskNext(s), Held(s)
    PROVE  OthersHeld(s) /\ Held(s)'
<1>1. /\ Shape /\ Control(s) /\ need[s] \in {"need", "put"}
      /\ need' = [need EXCEPT ![s] = "asked"]
      /\ UNCHANGED <<dae_type, apdInd, ardInd, moved, supplied, habits>>
  BY DEF CInv, AskNext
<1>2. PICK p \in Params, par \in ParT :
         /\ p \in Declared(s) /\ p > current_param[s]
         /\ \A q \in Declared(s) : q > current_param[s] => p <= q
         /\ ~moved[s] /\ par.data = <<>> /\ par.is_dae
         /\ SetPar(s, p, par)
         /\ current_param' = [current_param EXCEPT ![s] = p]
         /\ asked' = [asked EXCEPT ![s] = Append(asked[s], p)]
  <2>1. AskedFor(s)
    BY AskNextEffect
  <2> QED
    BY <2>1, Zenon DEF AskedFor
<1>3. /\ ParAt(s, p)' = par
      /\ \A q \in Params \ {p} : ParAt(s, q)' = ParAt(s, q)
      /\ \A t \in Stmts \ {s} : setpos_apd'[t] = setpos_apd[t]
      /\ \A a \in Apds \ {ApdOf[s]} : apd'[a] = apd[a]
  BY <1>1, <1>2, OneRecord
<1>4. /\ current_param'[s] = p /\ need'[s] = "asked"
      /\ \A t \in Stmts \ {s} : current_param'[t] = current_param[t]
                                /\ need'[t] = need[t]
  BY <1>1, <1>2 DEF Shape
<1>5. ASSUME NEW t \in Stmts \ {s} PROVE HeldOf(t)' = HeldOf(t)
  BY <1>1, <1>3, <1>4, OwnDescriptors DEF HeldOf
<1>6. /\ Declared(s)' = Declared(s) /\ Declared(s) \subseteq Params
      /\ Params \subseteq Int /\ current_param[s] \in Int
  <2>1. Declared(s)' = Declared(s)
    BY <1>1 DEF Declared
  <2>2. Declared(s) \subseteq Params
    BY <1>1, ApdOfAssumption DEF Declared, Shape
  <2>3. Params \subseteq Int /\ current_param[s] \in Int
    BY <1>1, NAssumption DEF Shape, Params
  <2> QED
    BY <2>1, <2>2, <2>3
<1>7. Held(s)'
  <2> SUFFICES ASSUME Plain' PROVE Held(s)'
    BY DEF Held
  <2>1. Plain /\ need[s] # "no"
    BY <1>1 DEF Plain
  <2>2. ASSUME NEW q \in Params, q > p PROVE supplied'[s][q] = Nothing
    <3>1. q > current_param[s]
      BY <1>2, <1>6, <2>2
    <3> QED
      BY <1>1, <2>1, <3>1 DEF Held
  <2>3. ASSUME NEW q \in Declared(s), q < p
        PROVE  /\ ParAt(s, q)'.alloc
               /\ supplied'[s][q] = Data(ParAt(s, q)'.data)
    <3>1. q <= current_param[s] /\ q # p /\ q \in Int
      BY <1>2, <1>6, <2>3
    <3>2. need[s] = "put"
      <4>1. ~(q > current_param[s])
        BY <1>6, <3>1
      <4> QED
        BY <1>1, <2>1, <4>1 DEF Held
    <3>3. q < current_param[s] \/ q = current_param[s]
      BY <1>6, <3>1
    <3>4. ParAt(s, q).alloc /\ supplied[s][q] = Data(ParAt(s, q).data)
      BY <2>1, <3>2, <3>3 DEF Held
    <3>5. ParAt(s, q)' = ParAt(s, q)
      BY <1>3, <1>6, <3>1
    <3> QED
      BY <1>1, <3>4, <3>5
  <2>4. supplied'[s][p].pieces = par.data
    <3>1. supplied[s][p] = Nothing
      BY <1>2, <2>1 DEF Held
    <3> QED
      BY <1>1, <1>2, <3>1 DEF Nothing, Value
  <2>5. ASSUME dae_type[s] # "normal", NEW q \in Params
        PROVE  ParAt(s, q)'.is_dae <=> (q \in Declared(s) /\ q <= p)
    <3>1. CASE q = p
      BY <1>2, <1>3, <1>6, <3>1
    <3>2. CASE q # p
      <4>1. ParAt(s, q)'.is_dae = ParAt(s, q).is_dae
        BY <1>3, <3>2
      <4>2. ParAt(s, q).is_dae <=>
               (q \in Declared(s) /\ q <= current_param[s])
        BY <2>1, <2>5 DEF Held
      <4>3. q \in Declared(s) => (q <= p <=> q <= current_param[s])
        BY <1>2, <1>6, <3>2
      <4> QED
        BY <4>1, <4>2, <4>3
    <3> QED
      BY <3>1, <3>2
  <2>6. ParAt(s, current_param[s])' = par
    BY <1>3, <1>4 DEF ParAt
  <2>7. ASSUME NEW q \in Declared(s)',
               q < current_param'[s] \/ (q = current_param'[s]
                                         /\ need'[s] = "put")
        PROVE  /\ ParAt(s, q)'.alloc
               /\ supplied'[s][q] = Data(ParAt(s, q)'.data)
    BY <1>4, <1>6, <2>3, <2>7
  <2>8. dae_type'[s] # "normal" =>
           \A q \in Params :
              ParAt(s, q)'.is_dae <=>
                 (q \in Declared(s)' /\ q <= current_param'[s])
    BY <1>1, <1>4, <1>6, <2>5
  <2> QED
    BY <1>1, <1>2, <1>4, <2>2, <2>4, <2>6, <2>7, <2>8 DEF Held
<1> QED
  BY <1>1, <1>5, <1>7 DEF OthersHeld

LEMMA HPutData ==
    ASSUME Own, CInv, NEW s \in Stmts, NEW piece \in Pieces,
           PutData(s, piece), Held(s)
    PROVE  OthersHeld(s) /\ Held(s)'
<1>1. PICK p \in Params, par \in ParT, v \in ValueT :
         /\ p = current_param[s]
         /\ SetPar(s, p, par) /\ supplied' = [supplied EXCEPT ![s][p] = v]
         /\ par.alloc /\ par.is_dae = ParAt(s, p).is_dae
         /\ par.data = Append(ParAt(s, p).data, piece)
         /\ v = Data(Append(supplied[s][p].pieces, piece))
         /\ ParAt(s, p) \in ParT /\ supplied[s][p].pieces \in Seq(Pieces)
  <2>1. PutPiece(s, piece)
    BY PutDataEffect
  <2> QED
    BY <2>1, Zenon DEF PutPiece
<1>2. /\ Shape /\ Control(s) /\ need[s] \in {"asked", "put"}
      /\ need' = [need EXCEPT ![s] = "put"] /\ habits' = habits
      /\ UNCHANGED <<dae_type, current_param, apdInd, ardInd, moved>>
  BY DEF PutData, CInv
<1>3. /\ ParAt(s, p)' = par
      /\ \A q \in Params \ {p} : ParAt(s, q)' = ParAt(s, q)
      /\ \A t \in Stmts \ {s} : setpos_apd'[t] = setpos_apd[t]
      /\ \A a \in Apds \ {ApdOf[s]} : apd'[a] = apd[a]
  BY <1>1, <1>2, OneRecord
<1>4. /\ supplied'[s][p] = v
      /\ \A q \in Params \ {p} : supplied'[s][q] = supplied[s][q]
      /\ \A t \in Stmts \ {s} : supplied'[t] = supplied[t]
  <2>1. Shape /\ supplied' = [supplied EXCEPT ![s][p] = v]
    BY <1>1, <1>2
  <2> QED
    BY <2>1, SuppliedEffect, ZenonT(30)
<1>5. need'[s] = "put" /\ \A t \in Stmts \ {s} : need'[t] = need[t]
  BY <1>2 DEF Shape
<1>6. ASSUME NEW t \in Stmts \ {s} PROVE HeldOf(t)' = HeldOf(t)
  BY <1>2, <1>3, <1>4, <1>5, OwnDescriptors DEF HeldOf
<1>7. /\ Declared(s)' = Declared(s) /\ Declared(s) \subseteq Params
      /\ Params \subseteq Int /\ current_param[s] \in Int
  <2>1. Declared(s)' = Declared(s)
    BY <1>2 DEF Declared
  <2>2. Declared(s) \subseteq Params
    BY <1>2, ApdOfAssumption DEF Declared, Shape
  <2>3. Params \subseteq Int /\ current_param[s] \in Int
    BY <1>2, NAssumption DEF Shape, Params
  <2> QED
    BY <2>1, <2>2, <2>3
<1>8. Held(s)'
  <2> SUFFICES ASSUME Plain' PROVE Held(s)'
    BY DEF Held
  <2>1. Plain /\ need[s] # "no"
    BY <1>2 DEF Plain
  <2>2. ASSUME NEW q \in Params, q > p PROVE supplied'[s][q] = Nothing
    <3>1. q > current_param[s] /\ q # p
      BY <1>1, <1>7, <2>2
    <3> QED
      BY <1>4, <2>1, <3>1 DEF Held
  <2>3. v = Data(par.data) /\ v.pieces = par.data
    <3>1. supplied[s][p].pieces = ParAt(s, p).data
      BY <1>1, <1>2, <2>1 DEF Held
    <3> QED
      BY <1>1, <3>1 DEF Data, Value
  <2>4. ASSUME NEW q \in Declared(s), q < p \/ q = p
        PROVE  /\ ParAt(s, q)'.alloc
               /\ supplied'[s][q] = Data(ParAt(s, q)'.data)
    <3>1. CASE q = p
      BY <1>1, <1>3, <1>4, <2>3, <3>1
    <3>2. CASE q # p
      <4>1. q < current_param[s]
        BY <1>1, <2>4, <3>2
      <4>2. ParAt(s, q).alloc /\ supplied[s][q] = Data(ParAt(s, q).data)
        BY <2>1, <4>1 DEF Held
      <4>3. /\ ParAt(s, q)' = ParAt(s, q)
            /\ supplied'[s][q] = supplied[s][q]
        BY <1>3, <1>4, <1>7, <3>2
      <4> QED
        BY <4>2, <4>3
    <3> QED
      BY <3>1, <3>2
  <2>5. ASSUME dae_type[s] # "normal", NEW q \in Params
        PROVE  ParAt(s, q)'.is_dae <=> (q \in Declared(s) /\ q <= p)
    <3>1. ParAt(s, q)'.is_dae = ParAt(s, q).is_dae
      BY <1>1, <1>3
    <3>2. ParAt(s, q).is_dae <=>
             (q \in Declared(s) /\ q <= current_param[s])
      BY <2>1, <2>5 DEF Held
    <3> QED
      BY <1>1, <3>1, <3>2
  <2>6. ParAt(s, current_param[s])' = par
    BY <1>1, <1>2, <1>3 DEF ParAt
  <2>7. ASSUME NEW q \in Declared(s)',
               q < current_param'[s] \/ (q = current_param'[s]
                                         /\ need'[s] = "put")
        PROVE  /\ ParAt(s, q)'.alloc
               /\ supplied'[s][q] = Data(ParAt(s, q)'.data)
    BY <1>1, <1>2, <1>7, <2>4, <2>7
  <2>8. dae_type'[s] # "normal" =>
           \A q \in Params :
              ParAt(s, q)'.is_dae <=>
                 (q \in Declared(s)' /\ q <= current_param'[s])
    BY <1>1, <1>2, <1>7, <2>5
  <2>9. ~moved[s]
    BY <2>1 DEF Held
  <2> QED
    BY <1>1, <1>2, <1>4, <1>5, <2>2, <2>3, <2>6, <2>7, <2>8, <2>9 DEF Held
<1> QED
  BY <1>2, <1>6, <1>8 DEF OthersHeld

(* The queries.                                                            *)
LEMMA NoValuesSent ==
    ASSUME sent' = NoQuery
    PROVE  ValuesAsSupplied'
BY DEF ValuesAsSupplied

LEMMA ValuesSent ==
    ASSUME NEW op, NEW first, NEW values, NEW D, NEW order, NEW supply,
           sent' = Query(op, first, values, D, order, supply),
           Plain' => \A p \in Params :
               values[p] = IF p \in D THEN supply[p] ELSE Bound
    PROVE  ValuesAsSupplied'
<1>1. sent'.values = values /\ sent'.wanted = Wanted(D, supply)
  BY DEF Query
<1>2. \A p \in Params :
         sent'.wanted[p] = IF p \in D THEN supply[p] ELSE Bound
  BY <1>1 DEF Wanted
<1> QED
  BY <1>1, <1>2 DEF ValuesAsSupplied, Plain

(* At the end of a sequence every declared parameter has been dealt with.  *)
LEMMA AllHeld ==
    ASSUME CInv, NEW s \in Stmts, Held(s), Plain, need[s] # "no",
           Unasked(s) = {}, need[s] # "asked"
    PROVE  /\ ~moved[s] /\ tempbuf[s] = <<>>
           /\ \A p \in Declared(s) :
                 /\ ParAt(s, p).alloc
                 /\ supplied[s][p] = Data(ParAt(s, p).data)
           /\ dae_type[s] # "normal" =>
                 \A p \in Params : ParAt(s, p).is_dae <=> p \in Declared(s)
<1>1. Control(s) /\ Shape /\ ~moved[s]
  BY DEF CInv, Held
<1>2. \A p \in Declared(s) : p <= current_param[s]
  BY AllAsked
<1>3. current_param[s] \in Int /\ Declared(s) \subseteq Int
  BY <1>1, NAssumption, ApdOfAssumption DEF Shape, Declared, Params
<1>4. need[s] = "put"
  <2> SUFFICES ASSUME need[s] = "need" PROVE FALSE
    BY <1>1 DEF Shape
  <2>1. PICK p \in Declared(s) : p > current_param[s]
    BY DEF Held
  <2>2. p <= current_param[s] /\ p \in Int
    BY <1>2, <1>3, <2>1
  <2> QED
    BY <1>3, <2>1, <2>2
<1>5. ASSUME NEW p \in Declared(s)
      PROVE  /\ ParAt(s, p).alloc
             /\ supplied[s][p] = Data(ParAt(s, p).data)
  <2>1. p < current_param[s] \/ p = current_param[s]
    BY <1>2, <1>3, <1>5
  <2> QED
    BY <1>4, <2>1 DEF Held
<1>6. dae_type[s] # "normal" =>
         \A p \in Params : ParAt(s, p).is_dae <=> p \in Declared(s)
  BY <1>2 DEF Held
<1>7. tempbuf[s] = <<>>
  BY <1>1 DEF Control, Text, Plain
<1> QED
  BY <1>1, <1>5, <1>6, <1>7

LEMMA VExecute ==
    ASSUME NEW s \in Stmts, Execute(s)
    PROVE  ValuesAsSupplied'
<1> DEFINE values == [p \in Params |-> Bound]
<1>1. sent' = Query("execute", "execute", values, {}, <<>>, supplied[s])
  BY DEF Execute
<1>2. \A p \in Params : values[p] = IF p \in {} THEN supplied[s][p] ELSE Bound
  OBVIOUS
<1> HIDE DEF values
<1> QED
  BY <1>1, <1>2, ValuesSent

LEMMA VChange ==
    ASSUME CInv, NEW s \in Stmts, NEW op, Change(s, op)
    PROVE  ValuesAsSupplied'
<1> DEFINE D      == {}
           values == ColumnValues(s, op, D, dae_type[s], setpos_apd[s])
<1>1. /\ Shape /\ Control(s) /\ need[s] = "no" /\ result[s]
  BY DEF CInv, Change
<1>2. values \in [Params -> ValueT]
  BY <1>1, ColumnTypes DEF Shape
<1>3. CASE SendChange(s, op, op, {}, dae_type[s], setpos_apd[s])
  <2>1. /\ sent' = Query(op, op, tempbuf[s] \o values, D, asked[s],
                         supplied[s])
        /\ habits' = habits
    BY <1>3 DEF SendChange
  <2>2. ASSUME Plain', NEW p \in Params
        PROVE  (tempbuf[s] \o values)[p]
                  = IF p \in D THEN supplied[s][p] ELSE Bound
    <3>1. setpos_apd[s] = NoDesc /\ tempbuf[s] = <<>>
      BY <1>1, <2>1, <2>2 DEF Control, Idle, Text, Plain
    <3>2. values[p] = Bound
      BY <3>1 DEF ColumnValues
    <3> HIDE DEF values
    <3>3. tempbuf[s] \o values = values
      BY <1>2, <3>1, ValuesAreSeq, ConcatEmptySeq
    <3> QED
      BY <3>2, <3>3
  <2> HIDE DEF values, D
  <2> QED
    BY <2>1, <2>2, ValuesSent
<1>4. CASE FailChange(s, op, {}, dae_type[s], setpos_apd[s])
  BY <1>4, NoValuesSent DEF FailChange
<1> QED
  BY <1>3, <1>4 DEF Change

LEMMA VFinishExecute ==
    ASSUME CInv, NEW s \in Stmts, Held(s), FinishExecute(s)
    PROVE  ValuesAsSupplied'
<1> DEFINE D      == apdInd[ApdOf[s]]
           values == [p \in Params |-> ParamValue(s, apd[ApdOf[s]], p)]
<1>1. /\ Shape /\ need[s] # "no" /\ need[s] # "asked"
      /\ dae_type[s] = "normal" /\ Unasked(s) = {} /\ habits' = habits
  BY DEF CInv, FinishExecute
<1>2. values \in [Params -> ValueT]
  BY <1>1, ParamTypes, ApdOfAssumption DEF Shape
<1>3. ASSUME sent' = Query("execute", started[s], tempbuf[s] \o values, D,
                           asked[s], supplied[s])
      PROVE  ValuesAsSupplied'
  <2>1. ASSUME Plain', NEW p \in Params
        PROVE  (tempbuf[s] \o values)[p]
                  = IF p \in D THEN supplied[s][p] ELSE Bound
    <3>1. /\ tempbuf[s] = <<>>
          /\ \A q \in Declared(s) :
                /\ ParAt(s, q).alloc
                /\ supplied[s][q] = Data(ParAt(s, q).data)
      BY <1>1, <2>1, AllHeld DEF Plain
    <3>2. values[p] = IF p \in D THEN supplied[s][p] ELSE Bound
      <4>1. CASE p \in D
        <5>1. /\ apd[ApdOf[s]][p].alloc
              /\ supplied[s][p] = Data(apd[ApdOf[s]][p].data)
          BY <1>1, <3>1, <4>1 DEF Declared, ParAt
        <5>2. Data(apd[ApdOf[s]][p].data) # Default
          BY DEF Data, Default, Value
        <5> QED
          BY <4>1, <5>1, <5>2 DEF ParamValue, DaeValue, OfServer
      <4>2. CASE p \notin D
        BY <4>2 DEF ParamValue
      <4> QED
        BY <4>1, <4>2
    <3> HIDE DEF values
    <3>3. tempbuf[s] \o values = values
      BY <1>2, <3>1, ValuesAreSeq, ConcatEmptySeq
    <3> QED
      BY <3>2, <3>3
  <2> HIDE DEF values, D
  <2> QED
    BY <1>3, <2>1, ValuesSent
<1>4. ASSUME sent' = NoQuery PROVE ValuesAsSupplied'
  BY <1>4, NoValuesSent
<1> QED
  BY <1>3, <1>4 DEF FinishExecute

LEMMA VFinishSetPos ==
    ASSUME CInv, NEW s \in Stmts, Held(s), FinishSetPos(s)
    PROVE  ValuesAsSupplied'
<1> DEFINE op     == dae_type[s]
           D      == ardInd[s]
           values == ColumnValues(s, op, D, "done", setpos_apd[s])
<1>1. /\ Shape /\ Control(s) /\ need[s] # "no" /\ need[s] # "asked"
      /\ op \in Changes /\ Unasked(s) = {}
  BY DEF CInv, FinishSetPos
<1>2. values \in [Params -> ValueT]
  BY <1>1, ColumnTypes DEF Shape
<1>3. CASE SendChange(s, dae_type[s], started[s], ardInd[s], "done",
                      setpos_apd[s])
  <2>1. /\ sent' = Query(op, started[s], tempbuf[s] \o values, D, asked[s],
                         supplied[s])
        /\ habits' = habits
    BY <1>3 DEF SendChange
  <2>2. ASSUME Plain', NEW p \in Params
        PROVE  (tempbuf[s] \o values)[p]
                  = IF p \in D THEN supplied[s][p] ELSE Bound
    <3>1. /\ ~moved[s] /\ tempbuf[s] = <<>>
          /\ \A q \in Declared(s) :
                /\ ParAt(s, q).alloc
                /\ supplied[s][q] = Data(ParAt(s, q).data)
          /\ dae_type[s] # "normal" =>
                \A q \in Params : ParAt(s, q).is_dae <=> q \in Declared(s)
      BY <1>1, <2>1, <2>2, AllHeld DEF Plain
    <3>2. /\ Declared(s) = D /\ dae_type[s] # "normal"
          /\ ParAt(s, p) = setpos_apd[s][p] /\ AtOffset(s, D) = D
      BY <1>1, <3>1 DEF Declared, Changes, ParAt, AtOffset
    <3>3. /\ setpos_apd[s][p].is_dae <=> p \in D
          /\ p \in D => /\ setpos_apd[s][p].alloc
                        /\ supplied[s][p] = Data(setpos_apd[s][p].data)
      BY <3>1, <3>2
    <3>4. setpos_apd[s] # NoDesc
      BY <1>1 DEF Control, Kept
    <3> HIDE DEF op, D
    <3>5. values[p] = IF op = "insert"
                      THEN AddValue(s, D, "done", setpos_apd[s], p)
                      ELSE SetValue(s, D, "done", setpos_apd[s], p)
      BY <3>4 DEF ColumnValues
    <3>6. /\ AddValue(s, D, "done", setpos_apd[s], p)
                = IF p \in D THEN supplied[s][p] ELSE Bound
          /\ SetValue(s, D, "done", setpos_apd[s], p)
                = IF p \in D THEN supplied[s][p] ELSE Bound
      BY <3>2, <3>3 DEF AddValue, SetValue, DaeValue
    <3> HIDE DEF values
    <3>7. tempbuf[s] \o values = values
      BY <1>2, <3>1, ValuesAreSeq, ConcatEmptySeq
    <3> QED
      BY <3>5, <3>6, <3>7
  <2> HIDE DEF values, op, D
  <2> QED
    BY <2>1, <2>2, ValuesSent
<1>4. CASE FailChange(s, dae_type[s], ardInd[s], "done", setpos_apd[s])
  BY <1>4, NoValuesSent DEF FailChange
<1> QED
  BY <1>3, <1>4 DEF FinishSetPos

HInv == \A s \in Stmts : Held(s)

LEMMA HNext ==
    ASSUME Own, CInv, HInv, Next
    PROVE  HInv' /\ ValuesAsSupplied'
<1>1. PICK s \in Stmts :
        \/ Execute(s) \/ ExecuteNeedsData(s) \/ Close(s) \/ CancelBusy(s)
        \/ \E op \in Changes : SetPos(s, op)
        \/ UpdateByBookmark(s)
        \/ AskNext(s) \/ FinishExecute(s) \/ FinishSetPos(s)
        \/ \E piece \in Pieces : PutData(s, piece)
        \/ PutNull(s) \/ PutEmpty(s) \/ MoveOffset(s)
  BY DEF Next
<1>2. Held(s) /\ \A t \in Stmts : Held(t)
  BY DEF HInv
<1>3. ASSUME OthersHeld(s), Held(s)' PROVE HInv'
  BY <1>2, <1>3, HeldActor DEF HInv
<1>4. ASSUME NEW op \in Ops, NEW type \in Changes, NeedColumns(s, op, type),
             habits \subseteq habits'
      PROVE  HInv' /\ ValuesAsSupplied'
  <2>1. sent' = NoQuery
    BY <1>4 DEF NeedColumns, NeedData
  <2> QED
    BY <1>3, <1>4, <2>1, HNeedColumns, NoValuesSent
<1>5. ASSUME NEW op, Change(s, op) PROVE HInv' /\ ValuesAsSupplied'
  BY <1>3, <1>5, HChange, VChange
<1>6. ASSUME NEW op \in Changes, SetPos(s, op)
      PROVE  HInv' /\ ValuesAsSupplied'
  <2>1. op \in Ops
    BY DEF Ops
  <2> QED
    BY <1>4, <1>5, <1>6, <2>1 DEF SetPos
<1>7. ASSUME UpdateByBookmark(s) PROVE HInv' /\ ValuesAsSupplied'
  <2>1. "bookmark" \in Ops /\ "update" \in Changes
    BY DEF Ops, Changes
  <2> QED
    BY <1>4, <1>5, <1>7, <2>1 DEF UpdateByBookmark, Exercise
<1>8. CASE Execute(s)
  BY <1>3, <1>8, HExecute, VExecute
<1>9. CASE ExecuteNeedsData(s)
  <2>1. sent' = NoQuery
    BY <1>9 DEF ExecuteNeedsData, NeedData
  <2> QED
    BY <1>3, <1>9, <2>1, HExecuteNeedsData, NoValuesSent
<1>10. CASE Close(s) \/ CancelBusy(s)
  <2>1. sent' = NoQuery
    BY <1>10 DEF Close, CancelBusy
  <2> QED
    BY <1>3, <1>10, <2>1, HClose, NoValuesSent
<1>11. CASE AskNext(s)
  <2>1. sent' = NoQuery
    BY <1>11 DEF AskNext
  <2> QED
    BY <1>2, <1>3, <1>11, <2>1, HAskNext, NoValuesSent
<1>12. CASE FinishExecute(s)
  BY <1>2, <1>3, <1>12, HFinish, VFinishExecute
<1>13. CASE FinishSetPos(s)
  BY <1>2, <1>3, <1>13, HFinish, VFinishSetPos
<1>14. ASSUME NEW piece \in Pieces, PutData(s, piece)
       PROVE  HInv' /\ ValuesAsSupplied'
  <2>1. sent' = NoQuery
    BY <1>14 DEF PutData
  <2> QED
    BY <1>2, <1>3, <1>14, <2>1, HPutData, NoValuesSent
<1>15. CASE PutNull(s) \/ PutEmpty(s)
  <2>1. sent' = NoQuery
    BY <1>15 DEF PutNull, PutEmpty
  <2> QED
    BY <1>3, <1>15, <2>1, HPutNothing, NoValuesSent
<1>16. CASE MoveOffset(s)
  <2>1. sent' = NoQuery
    BY <1>16 DEF MoveOffset
  <2> QED
    BY <1>3, <1>16, <2>1, HMoveOffset, NoValuesSent
<1> QED
  BY <1>1, <1>6, <1>7, <1>8, <1>9, <1>10, <1>11, <1>12, <1>13, <1>14, <1>15,
     <1>16

LEMMA HInit == Init => HInv /\ ValuesAsSupplied
BY DEF Init, HInv, Held, ValuesAsSupplied

LEMMA HStep ==
    ASSUME Own
    PROVE  CInv /\ HInv /\ ValuesAsSupplied /\ [Next]_vars
              => HInv' /\ ValuesAsSupplied'
<1> SUFFICES ASSUME CInv, HInv, ValuesAsSupplied, [Next]_vars
             PROVE  HInv' /\ ValuesAsSupplied'
  OBVIOUS
<1>1. CASE UNCHANGED vars
  <2>1. ASSUME NEW t \in Stmts PROVE Held(t)'
    <3>1. Held(t) /\ HeldOf(t)' = HeldOf(t) /\ habits' = habits
      BY <1>1 DEF HInv, HeldOf, vars
    <3> QED
      BY <3>1, HeldKeeps
  <2>2. ValuesAsSupplied'
    BY <1>1 DEF vars, ValuesAsSupplied
  <2> QED
    BY <2>1, <2>2 DEF HInv
<1> QED
  BY <1>1, HNext

(* The query at the end of a sequence has, for each parameter declared     *)
(* data-at-exec, all the pieces SQLPutData supplied for it and no others,  *)
(* as long as no two statements share an application descriptor.           *)
THEOREM SuppliedValuesAreSent ==
    ASSUME Own
    PROVE  Spec => []ValuesAsSupplied
<1>1. Init => CInv /\ HInv /\ ValuesAsSupplied
  BY CInit, HInit
<1>2. CInv /\ HInv /\ ValuesAsSupplied /\ [Next]_vars
         => CInv' /\ HInv' /\ ValuesAsSupplied'
  <2>1. CInv /\ [Next]_vars => CInv'
    <3> SUFFICES ASSUME CInv, [Next]_vars PROVE CInv'
      OBVIOUS
    <3>1. CASE UNCHANGED vars
      BY <3>1, CKeeps
    <3> QED
      BY <3>1, CNext
  <2> QED
    BY <2>1, HStep
<1> QED
  BY <1>1, <1>2, PTL DEF Spec

-----------------------------------------------------------------------------
(* No parameter has more pieces than are modelled, so that the buffers     *)
(* have the types of TypeOK.                                               *)
Few(pieces) == Len(pieces) <= MaxPieces
ShortT ==
    {v \in ValueT : Few(v.pieces) /\ (v.kind # "data" => v.pieces = <<>>)}

(* The record SQLPutData adds to holds as many pieces as the application   *)
(* has supplied, and the application has supplied none for what is still   *)
(* to be asked for: whatever was cancelled, left empty or set to NULL.     *)
Filled(s) ==
    /\ supplied[s] \in [Params -> ShortT]
    /\ tempbuf[s] \in Seq(ShortT)
    /\ setpos_apd[s] # NoDesc =>
          \A p \in Params : Few(setpos_apd[s][p].data)
    /\ need[s] # "no" =>
          \A p \in Params :
             p > current_param[s] => supplied[s][p].pieces = <<>>
    /\ need[s] = "asked" => supplied[s][current_param[s]].pieces = <<>>
    /\ need[s] \in {"asked", "put"} =>
          supplied[s][current_param[s]].pieces
             = ParAt(s, current_param[s]).data

FewIn(a) == \A p \in Params : Few(apd[a][p].data)

FInv ==
    /\ \A s \in Stmts : Filled(s)
    /\ \A a \in Apds : FewIn(a)

LEMMA ShortTypes ==
    /\ Bound \in ShortT /\ Null \in ShortT /\ Default \in ShortT
    /\ Wrong \in ShortT /\ Nothing \in ShortT
    /\ \A pieces \in Seq(Pieces) : Few(pieces) => Data(pieces) \in ShortT
    /\ Few(<<>>) /\ Nothing.pieces = <<>>
<1>1. Few(<<>>)
  BY MaxAssumption DEF Few
<1>2. /\ Bound.pieces = <<>> /\ Null.pieces = <<>> /\ Default.pieces = <<>>
      /\ Wrong.pieces = <<>> /\ Nothing.pieces = <<>>
  BY DEF Bound, Null, Default, Wrong, Nothing, Value
<1>3. ASSUME NEW pieces \in Seq(Pieces), Few(pieces)
      PROVE  Data(pieces) \in ShortT
  <2>1. Data(pieces).pieces = pieces /\ Data(pieces).kind = "data"
    BY DEF Data, Value
  <2>2. Data(pieces) \in ValueT
    BY ValueTypes
  <2> QED
    BY <1>3, <2>1, <2>2 DEF ShortT
<1> QED
  BY <1>1, <1>2, <1>3, ValueTypes DEF ShortT

LEMMA DaeShort ==
    ASSUME NEW par \in ParT, Few(par.data)
    PROVE  DaeValue(par) \in ShortT /\ Data(par.data) \in ShortT
BY ShortTypes DEF DaeValue, ParT

LEMMA ColumnsShort ==
    ASSUME NEW s, NEW op, NEW D, NEW type,
           NEW pars \in {NoDesc} \cup Copies,
           pars # NoDesc => \A p \in Params : Few(pars[p].data)
    PROVE  ColumnValues(s, op, D, type, pars) \in [Params -> ShortT]
<1> SUFFICES ASSUME NEW p \in Params
             PROVE  (IF pars = NoDesc THEN Bound
                     ELSE IF op = "insert" THEN AddValue(s, D, type, pars, p)
                     ELSE SetValue(s, D, type, pars, p)) \in ShortT
  BY DEF ColumnValues
<1>1. Bound \in ShortT /\ Wrong \in ShortT
  BY ShortTypes
<1>2. CASE pars # NoDesc
  <2>1. DaeValue(pars[p]) \in ShortT /\ Data(pars[p].data) \in ShortT
    BY <1>2, DaeShort DEF Copies
  <2> QED
    BY <1>1, <2>1 DEF AddValue, SetValue
<1> QED
  BY <1>1, <1>2

LEMMA ParamsShort ==
    ASSUME NEW s, NEW pars \in Copies, \A p \in Params : Few(pars[p].data)
    PROVE  [p \in Params |-> ParamValue(s, pars, p)] \in [Params -> ShortT]
<1> SUFFICES ASSUME NEW p \in Params PROVE ParamValue(s, pars, p) \in ShortT
  OBVIOUS
<1>1. /\ Bound \in ShortT /\ Null \in ShortT /\ DaeValue(pars[p]) \in ShortT
  BY ShortTypes, DaeShort DEF Copies
<1> QED
  BY <1>1 DEF ParamValue, OfServer

LEMMA WrittenShort ==
    ASSUME NEW text \in Seq(ShortT), NEW f \in [Params -> ShortT],
           NEW bad \in Params
    PROVE  text \o SubSeq(f, 1, bad - 1) \in Seq(ShortT)
<1>1. /\ 1 \in Int /\ bad - 1 \in Int
      /\ \A i \in 1..(bad - 1) : f[i] \in ShortT
  BY NAssumption DEF Params
<1>2. SubSeq(f, 1, bad - 1) \in Seq(ShortT)
  BY <1>1, SubSeqProperties
<1> QED
  BY <1>2, ConcatProperties

(* What a step of s does to the texts and descriptors of others.           *)
TextsLeft(s) ==
    /\ \A t \in Stmts \ {s} : tempbuf'[t] = tempbuf[t]
    /\ \A a \in Apds \ {ApdOf[s]} : apd'[a] = apd[a]

LEMMA FActor ==
    ASSUME FInv, NEW s \in Stmts, OthersHeld(s), TextsLeft(s), Filled(s)',
           FewIn(ApdOf[s])'
    PROVE  FInv'
<1>1. ASSUME NEW t \in Stmts \ {s} PROVE Filled(t)'
  <2>1. Filled(t) /\ HeldOf(t)' = HeldOf(t) /\ tempbuf'[t] = tempbuf[t]
    BY DEF FInv, OthersHeld, TextsLeft
  <2>2. /\ dae_type'[t] = dae_type[t] /\ current_param'[t] = current_param[t]
        /\ setpos_apd'[t] = setpos_apd[t] /\ need'[t] = need[t]
        /\ supplied'[t] = supplied[t] /\ apd'[ApdOf[t]] = apd[ApdOf[t]]
    BY <2>1 DEF HeldOf
  <2>3. ParAt(t, current_param[t])' = ParAt(t, current_param[t])
    BY <2>2 DEF ParAt
  <2> QED
    BY <2>1, <2>2, <2>3 DEF Filled
<1>2. ASSUME NEW a \in Apds \ {ApdOf[s]} PROVE FewIn(a)'
  <2>1. FewIn(a) /\ apd'[a] = apd[a]
    BY DEF FInv, TextsLeft
  <2> QED
    BY <2>1 DEF FewIn
<1> QED
  BY <1>1, <1>2 DEF FInv

(* Before anything is asked for there is nothing to compare.               *)
LEMMA FNotAsked ==
    ASSUME NEW s \in Stmts, need'[s] \in {"no", "need"},
           supplied'[s] \in [Params -> ShortT],
           need'[s] = "need" =>
              \A p \in Params : supplied'[s][p] = Nothing,
           tempbuf'[s] \in Seq(ShortT),
           setpos_apd'[s] # NoDesc =>
              \A p \in Params : Few(setpos_apd'[s][p].data)
    PROVE  Filled(s)'
<1>1. Nothing.pieces = <<>>
  BY ShortTypes
<1> QED
  BY <1>1 DEF Filled

LEMMA FFree ==
    ASSUME Shape, NEW s \in Stmts, FreeStmt(s)
    PROVE  TextsLeft(s) /\ FewIn(ApdOf[s])' /\ tempbuf'[s] \in Seq(ShortT)
<1>1. ApdOf[s] \in Apds /\ apd \in [Apds -> Copies]
  BY ApdOfAssumption DEF Shape
<1>2. ASSUME NEW p \in Params PROVE Few(apd'[ApdOf[s]][p].data)
  <2>1. apd[ApdOf[s]][p] \in ParT
    BY <1>1 DEF Copies
  <2>2. apd'[ApdOf[s]][p].data = <<>>
    BY <2>1, ResetType, FreeStmtEffect
  <2> QED
    BY <2>2, ShortTypes
<1> QED
  BY <1>2, FreeStmtEffect DEF TextsLeft, FewIn

LEMMA FExecute ==
    ASSUME CInv, FInv, NEW s \in Stmts, Execute(s)
    PROVE  TextsLeft(s) /\ FewIn(ApdOf[s])' /\ Filled(s)'
<1>1. /\ Shape /\ Filled(s) /\ need[s] = "no" /\ FreeStmt(s)
      /\ UNCHANGED <<setpos_apd, need, supplied>>
  BY DEF CInv, FInv, Execute, app
<1>2. TextsLeft(s) /\ FewIn(ApdOf[s])' /\ tempbuf'[s] \in Seq(ShortT)
  BY <1>1, FFree
<1>3. /\ supplied'[s] \in [Params -> ShortT]
      /\ setpos_apd'[s] # NoDesc =>
            \A p \in Params : Few(setpos_apd'[s][p].data)
  BY <1>1 DEF Filled
<1> QED
  BY <1>1, <1>2, <1>3, FNotAsked

LEMMA FExecuteNeedsData ==
    ASSUME CInv, FInv, NEW s \in Stmts, ExecuteNeedsData(s)
    PROVE  TextsLeft(s) /\ FewIn(ApdOf[s])' /\ Filled(s)'
<1>1. /\ Shape /\ Filled(s) /\ FreeStmt(s) /\ UNCHANGED setpos_apd
  BY DEF CInv, FInv, ExecuteNeedsData
<1>2. TextsLeft(s) /\ FewIn(ApdOf[s])' /\ tempbuf'[s] \in Seq(ShortT)
  BY <1>1, FFree
<1>3. PICK D \in (SUBSET Params) \ {{}} : NeedData(s, "execute", "normal", D)
  BY DEF ExecuteNeedsData
<1>4. /\ need'[s] = "need" /\ supplied' \in [Stmts -> [Params -> ValueT]]
      /\ \A p \in Params : supplied'[s][p] = Nothing
  BY <1>1, <1>3, NeedDataEffect DEF Ops
<1>5. supplied'[s] \in [Params -> ShortT]
  BY <1>4, ShortTypes
<1>6. setpos_apd'[s] # NoDesc =>
         \A p \in Params : Few(setpos_apd'[s][p].data)
  BY <1>1 DEF Filled
<1> QED
  BY <1>2, <1>4, <1>5, <1>6, FNotAsked

LEMMA FNeedColumns ==
    ASSUME CInv, FInv, NEW s \in Stmts, NEW op \in Ops, NEW type \in Changes,
           NeedColumns(s, op, type)
    PROVE  TextsLeft(s) /\ FewIn(ApdOf[s])' /\ Filled(s)'
<1>1. /\ Shape /\ Filled(s) /\ FewIn(ApdOf[s])
      /\ setpos_apd' = [setpos_apd EXCEPT ![s] = [p \in Params |-> FreshPar]]
      /\ UNCHANGED <<apd, tempbuf>>
  BY ApdOfAssumption DEF CInv, FInv, NeedColumns
<1>2. PICK D \in (SUBSET Params) \ {{}} : NeedData(s, op, type, D)
  BY DEF NeedColumns
<1>3. /\ need'[s] = "need" /\ supplied' \in [Stmts -> [Params -> ValueT]]
      /\ \A p \in Params : supplied'[s][p] = Nothing
  BY <1>1, <1>2, NeedDataEffect
<1>4. supplied'[s] \in [Params -> ShortT]
  BY <1>3, ShortTypes
<1>5. \A p \in Params : Few(setpos_apd'[s][p].data)
  BY <1>1, FreshType, ShortTypes DEF Shape
<1>6. tempbuf'[s] \in Seq(ShortT) /\ TextsLeft(s) /\ FewIn(ApdOf[s])'
  BY <1>1 DEF Filled, TextsLeft, FewIn
<1> QED
  BY <1>3, <1>4, <1>5, <1>6, FNotAsked

LEMMA FClose ==
    ASSUME CInv, FInv, NEW s \in Stmts, Close(s) \/ CancelBusy(s)
    PROVE  TextsLeft(s) /\ FewIn(ApdOf[s])' /\ Filled(s)'
<1>1. /\ Shape /\ Filled(s) /\ FewIn(ApdOf[s]) /\ LeaveSequence(s)
  BY ApdOfAssumption DEF CInv, FInv, Close, CancelBusy
<1>2. TextsLeft(s) /\ FewIn(ApdOf[s])' /\ tempbuf'[s] \in Seq(ShortT)
  <2>1. CASE Close(s)
    BY <1>1, <2>1, FFree DEF Close
  <2>2. CASE CancelBusy(s)
    BY <1>1, <2>2 DEF CancelBusy, Filled, TextsLeft, FewIn
  <2> QED
    BY <2>1, <2>2
<1>3. /\ need'[s] = "no" /\ supplied' \in [Stmts -> [Params -> ValueT]]
      /\ \A p \in Params : supplied'[s][p] = Nothing
  BY <1>1, LeaveEffect
<1>4. supplied'[s] \in [Params -> ShortT]
  BY <1>3, ShortTypes
<1>5. setpos_apd'[s] # NoDesc =>
         \A p \in Params : Few(setpos_apd'[s][p].data)
  BY <1>1 DEF Close, CancelBusy, Shape, Filled
<1> QED
  BY <1>2, <1>3, <1>4, <1>5, FNotAsked

(* A change of columns that is sent, or fails at one of them.              *)
LEMMA FChanged ==
    ASSUME Shape, NEW s \in Stmts, Filled(s), NEW op, NEW first, NEW D,
           NEW type,
           \/ SendChange(s, op, first, D, type, setpos_apd[s])
           \/ FailChange(s, op, D, type, setpos_apd[s])
    PROVE  /\ tempbuf'[s] \in Seq(ShortT)
           /\ \A t \in Stmts \ {s} : tempbuf'[t] = tempbuf[t]
<1> DEFINE f == ColumnValues(s, op, D, type, setpos_apd[s])
<1>1. setpos_apd[s] \in {NoDesc} \cup Copies
  BY DEF Shape
<1>2. f \in [Params -> ShortT]
  BY <1>1, ColumnsShort DEF Filled
<1>3. PICK text \in Seq(ShortT) : tempbuf' = [tempbuf EXCEPT ![s] = text]
  <2>1. tempbuf[s] \in Seq(ShortT) /\ <<>> \in Seq(ShortT)
    BY DEF Filled
  <2>2. CASE SendChange(s, op, first, D, type, setpos_apd[s])
    BY <2>1, <2>2 DEF SendChange
  <2>3. CASE FailChange(s, op, D, type, setpos_apd[s])
    <3>1. PICK bad \in Params :
             \/ tempbuf' = [tempbuf EXCEPT ![s] =
                               tempbuf[s] \o SubSeq(f, 1, bad - 1)]
             \/ tempbuf' = [tempbuf EXCEPT ![s] = tempbuf[s]]
             \/ tempbuf' = [tempbuf EXCEPT ![s] = <<>>]
      BY <2>3 DEF FailChange
    <3>2. tempbuf[s] \o SubSeq(f, 1, bad - 1) \in Seq(ShortT)
      BY <1>2, <2>1, WrittenShort
    <3> HIDE DEF f
    <3> QED
      BY <2>1, <3>1, <3>2
  <2> QED
    BY <2>2, <2>3
<1> QED
  BY <1>3 DEF Shape

LEMMA FChange ==
    ASSUME CInv, FInv, NEW s \in Stmts, NEW op, Change(s, op)
    PROVE  TextsLeft(s) /\ FewIn(ApdOf[s])' /\ Filled(s)'
<1>1. /\ Shape /\ Filled(s) /\ FewIn(ApdOf[s]) /\ need[s] = "no"
      /\ \/ SendChange(s, op, op, {}, dae_type[s], setpos_apd[s])
         \/ FailChange(s, op, {}, dae_type[s], setpos_apd[s])
      /\ UNCHANGED <<setpos_apd, apd, need, supplied>>
  BY ApdOfAssumption DEF CInv, FInv, Change, desc, app
<1>2. /\ tempbuf'[s] \in Seq(ShortT)
      /\ \A t \in Stmts \ {s} : tempbuf'[t] = tempbuf[t]
  BY <1>1, FChanged
<1>3. TextsLeft(s) /\ FewIn(ApdOf[s])'
  BY <1>1, <1>2 DEF TextsLeft, FewIn
<1>4. /\ supplied'[s] \in [Params -> ShortT]
      /\ setpos_apd'[s] # NoDesc =>
            \A p \in Params : Few(setpos_apd'[s][p].data)
  BY <1>1 DEF Filled
<1> QED
  BY <1>1, <1>2, <1>3, <1>4, FNotAsked

LEMMA FFinish ==
    ASSUME CInv, FInv, NEW s \in Stmts, FinishExecute(s) \/ FinishSetPos(s)
    PROVE  TextsLeft(s) /\ FewIn(ApdOf[s])' /\ Filled(s)'
<1>1. /\ Shape /\ Filled(s) /\ FewIn(ApdOf[s]) /\ ApdOf[s] \in Apds
      /\ LeaveSequence(s) /\ UNCHANGED apd
  BY ApdOfAssumption DEF CInv, FInv, FinishExecute, FinishSetPos
<1>2. /\ tempbuf'[s] \in Seq(ShortT)
      /\ \A t \in Stmts \ {s} : tempbuf'[t] = tempbuf[t]
  <2>1. CASE FinishSetPos(s)
    BY <1>1, <2>1, FChanged DEF FinishSetPos
  <2>2. CASE FinishExecute(s)
    <3> DEFINE f == [p \in Params |-> ParamValue(s, apd[ApdOf[s]], p)]
    <3>1. f \in [Params -> ShortT]
      BY <1>1, ParamsShort DEF Shape, FewIn
    <3>2. PICK bad \in Params :
             \/ tempbuf' = [tempbuf EXCEPT ![s] =
                               tempbuf[s] \o SubSeq(f, 1, bad - 1)]
             \/ tempbuf' = [tempbuf EXCEPT ![s] = tempbuf[s]]
             \/ tempbuf' = [tempbuf EXCEPT ![s] = <<>>]
      <4>1. 1 \in Params
        BY NAssumption DEF Params
      <4>2. \/ tempbuf' = [tempbuf EXCEPT ![s] = <<>>]
            \/ \E bad \in Params :
                  tempbuf' = [tempbuf EXCEPT ![s] =
                     IF server[s] THEN tempbuf[s]
                     ELSE tempbuf[s] \o SubSeq(f, 1, bad - 1)]
        BY <2>2, Zenon DEF FinishExecute
      <4> HIDE DEF f
      <4> QED
        BY <4>1, <4>2
    <3>3. /\ tempbuf[s] \in Seq(ShortT) /\ <<>> \in Seq(ShortT)
          /\ tempbuf[s] \o SubSeq(f, 1, bad - 1) \in Seq(ShortT)
      BY <1>1, <3>1, WrittenShort DEF Filled
    <3> HIDE DEF f
    <3> QED
      BY <1>1, <3>2, <3>3 DEF Shape
  <2> QED
    BY <2>1, <2>2
<1>3. /\ need'[s] = "no" /\ supplied' \in [Stmts -> [Params -> ValueT]]
      /\ \A p \in Params : supplied'[s][p] = Nothing
  BY <1>1, LeaveEffect
<1>4. supplied'[s] \in [Params -> ShortT]
  BY <1>3, ShortTypes
<1>5. setpos_apd'[s] # NoDesc =>
         \A p \in Params : Few(setpos_apd'[s][p].data)
  BY <1>1 DEF FinishExecute, FinishSetPos, Shape, Filled
<1>6. TextsLeft(s) /\ FewIn(ApdOf[s])'
  BY <1>1, <1>2 DEF TextsLeft, FewIn
<1> QED
  BY <1>2, <1>3, <1>4, <1>5, <1>6, FNotAsked

LEMMA FMoveOffset ==
    ASSUME CInv, FInv, NEW s \in Stmts, MoveOffset(s)
    PROVE  TextsLeft(s) /\ FewIn(ApdOf[s])' /\ Filled(s)'
<1>1. /\ Filled(s) /\ FewIn(ApdOf[s])
      /\ UNCHANGED <<dae_type, current_param, setpos_apd, apd, tempbuf, need,
                     supplied>>
  BY ApdOfAssumption DEF FInv, MoveOffset, app
<1>2. ParAt(s, current_param[s])' = ParAt(s, current_param[s])
  BY <1>1 DEF ParAt
<1> QED
  BY <1>1, <1>2 DEF Filled, FewIn, TextsLeft

(* One record of the descriptor in use is changed.                         *)
LEMMA FRecord ==
    ASSUME CInv, FInv, NEW s \in Stmts, need[s] # "no", NEW p \in Params,
           NEW par \in ParT, Few(par.data), SetPar(s, p, par),
           tempbuf' = tempbuf
    PROVE  /\ TextsLeft(s) /\ FewIn(ApdOf[s])' /\ tempbuf'[s] \in Seq(ShortT)
           /\ setpos_apd'[s] # NoDesc =>
                 \A q \in Params : Few(setpos_apd'[s][q].data)
<1>1. /\ Shape /\ Filled(s) /\ FewIn(ApdOf[s])
      /\ dae_type[s] = "normal" \/ setpos_apd[s] # NoDesc
  BY InUse, ApdOfAssumption DEF CInv, FInv
<1>2. /\ \A a \in Apds \ {ApdOf[s]} : apd'[a] = apd[a]
      /\ dae_type[s] = "normal" =>
            /\ apd'[ApdOf[s]][p] = par /\ setpos_apd' = setpos_apd
            /\ \A q \in Params \ {p} :
                  apd'[ApdOf[s]][q] = apd[ApdOf[s]][q]
      /\ dae_type[s] # "normal" =>
            /\ setpos_apd'[s][p] = par /\ apd' = apd
            /\ \A q \in Params \ {p} : setpos_apd'[s][q] = setpos_apd[s][q]
  BY <1>1, SetParEffect
<1>3. ASSUME NEW q \in Params PROVE Few(apd'[ApdOf[s]][q].data)
  BY <1>1, <1>2 DEF FewIn
<1>4. ASSUME setpos_apd'[s] # NoDesc, NEW q \in Params
      PROVE  Few(setpos_apd'[s][q].data)
  BY <1>1, <1>2, <1>4 DEF Filled
<1> QED
  BY <1>1, <1>2, <1>3, <1>4 DEF TextsLeft, FewIn, Filled

LEMMA FAskNext ==
    ASSUME CInv, FInv, NEW s \in Stmts, AskNext(s)
    PROVE  TextsLeft(s) /\ FewIn(ApdOf[s])' /\ Filled(s)'
<1>1. /\ Shape /\ Filled(s) /\ need[s] # "no"
      /\ need' = [need EXCEPT ![s] = "asked"]
      /\ UNCHANGED <<dae_type, tempbuf, supplied>>
  BY DEF CInv, FInv, AskNext
<1>2. PICK p \in Params, par \in ParT :
         /\ p > current_param[s] /\ par.data = <<>> /\ SetPar(s, p, par)
         /\ current_param' = [current_param EXCEPT ![s] = p]
  <2>1. AskedFor(s)
    BY AskNextEffect
  <2> QED
    BY <2>1, Zenon DEF AskedFor
<1>3. /\ TextsLeft(s) /\ FewIn(ApdOf[s])' /\ tempbuf'[s] \in Seq(ShortT)
      /\ setpos_apd'[s] # NoDesc =>
            \A q \in Params : Few(setpos_apd'[s][q].data)
  BY <1>1, <1>2, ShortTypes, FRecord
<1>4. current_param'[s] = p /\ need'[s] = "asked" /\ ParAt(s, p)' = par
  BY <1>1, <1>2, OneRecord DEF Shape
<1>5. ParAt(s, current_param[s])' = par
  BY <1>4 DEF ParAt
<1>6. ASSUME NEW q \in Params, q > p PROVE supplied'[s][q].pieces = <<>>
  <2>1. q > current_param[s]
    BY <1>1, <1>2, <1>6, NAssumption DEF Shape, Params
  <2> QED
    BY <1>1, <2>1 DEF Filled
<1>7. supplied'[s][p].pieces = <<>> /\ supplied'[s] \in [Params -> ShortT]
  BY <1>1, <1>2 DEF Filled
<1> QED
  BY <1>2, <1>3, <1>4, <1>5, <1>6, <1>7 DEF Filled

Supplies(s, p, v) ==
    /\ supplied' \in [Stmts -> [Params -> ValueT]]
    /\ supplied'[s][p] = v
    /\ \A q \in Params \ {p} : supplied'[s][q] = supplied[s][q]

LEMMA OneSupplied ==
    ASSUME Shape, NEW s \in Stmts, NEW p \in Params, NEW v \in ValueT,
           supplied' = [supplied EXCEPT ![s][p] = v]
    PROVE  Supplies(s, p, v)
<1>1. /\ supplied' \in [Stmts -> [Params -> ValueT]]
      /\ supplied'[s][p] = v
      /\ \A q \in Params \ {p} : supplied'[s][q] = supplied[s][q]
      /\ \A t \in Stmts \ {s} : supplied'[t] = supplied[t]
  BY SuppliedEffect, ZenonT(30)
<1> QED
  BY <1>1 DEF Supplies

(* One value is supplied, and the record has as many pieces afterwards.    *)
LEMMA FPut ==
    ASSUME CInv, FInv, NEW s \in Stmts, need[s] \in {"asked", "put"},
           need' = [need EXCEPT ![s] = "put"],
           current_param' = current_param, NEW p \in Params,
           p = current_param[s], NEW v \in ShortT,
           Supplies(s, p, v), ParAt(s, p)'.data = v.pieces,
           tempbuf'[s] \in Seq(ShortT),
           setpos_apd'[s] # NoDesc =>
              \A q \in Params : Few(setpos_apd'[s][q].data)
    PROVE  Filled(s)'
<1>1. Shape /\ Filled(s) /\ v \in ValueT
  BY DEF CInv, FInv, ShortT
<1>2. /\ supplied' \in [Stmts -> [Params -> ValueT]]
      /\ supplied'[s][p] = v
      /\ \A q \in Params \ {p} : supplied'[s][q] = supplied[s][q]
  BY DEF Supplies
<1>3. supplied'[s] \in [Params -> ShortT]
  <2>1. \A q \in Params : supplied'[s][q] \in ShortT
    BY <1>1, <1>2 DEF Filled
  <2> QED
    BY <1>2, <2>1
<1>4. ASSUME NEW q \in Params, q > p PROVE supplied'[s][q].pieces = <<>>
  <2>1. q # p
    BY <1>4, NAssumption DEF Params
  <2> QED
    BY <1>1, <1>2, <1>4, <2>1 DEF Filled
<1>5. need'[s] = "put" /\ current_param'[s] = p
  BY <1>1 DEF Shape
<1>6. ParAt(s, current_param[s])' = ParAt(s, p)'
  BY DEF ParAt
<1> QED
  BY <1>2, <1>3, <1>4, <1>5, <1>6 DEF Filled

LEMMA FPutNothing ==
    ASSUME CInv, FInv, NEW s \in Stmts, PutNull(s) \/ PutEmpty(s)
    PROVE  TextsLeft(s) /\ FewIn(ApdOf[s])' /\ Filled(s)'
<1>1. /\ Filled(s) /\ FewIn(ApdOf[s]) /\ need[s] = "asked"
      /\ need' = [need EXCEPT ![s] = "put"]
      /\ UNCHANGED <<dae_type, current_param, tempbuf>>
  BY ApdOfAssumption DEF FInv, PutNull, PutEmpty
<1>2. PICK p \in Params : p = current_param[s]
  BY <1>1, Present
<1>3. need[s] \in {"asked", "put"} /\ need[s] # "no"
  BY <1>1
<1>4. /\ Null \in ShortT /\ Data(<<>>) \in ShortT /\ Few(<<>>)
  <2>1. <<>> \in Seq(Pieces)
    OBVIOUS
  <2> QED
    BY <2>1, ShortTypes
<1>5. Null.pieces = <<>> /\ Data(<<>>).pieces = <<>>
  BY DEF Null, Data, Value
<1>6. CASE PutNull(s)
  <2>1. PICK par \in ParT : par = Reset(ParAt(s, p)) /\ par.data = <<>>
    BY <1>3, InUse, ResetType
  <2>2. SetPar(s, p, par) /\ supplied' = [supplied EXCEPT ![s][p] = Null]
    BY <1>2, <1>6, <2>1 DEF PutNull
  <2>3. ParAt(s, p)'.data = Null.pieces
    BY <1>1, <1>3, <1>5, <2>1, <2>2, OneRecord
  <2>4. /\ TextsLeft(s) /\ FewIn(ApdOf[s])' /\ tempbuf'[s] \in Seq(ShortT)
        /\ setpos_apd'[s] # NoDesc =>
              \A q \in Params : Few(setpos_apd'[s][q].data)
    BY <1>1, <1>3, <1>4, <2>1, <2>2, FRecord
  <2>5. Supplies(s, p, Null)
    BY <2>2, OneSupplied, ValueTypes DEF CInv
  <2>6. Filled(s)'
    BY <1>1, <1>2, <1>3, <1>4, <2>3, <2>4, <2>5, FPut
  <2> QED
    BY <2>4, <2>6
<1>7. CASE PutEmpty(s)
  <2>1. /\ UNCHANGED <<apd, setpos_apd>>
        /\ supplied' = [supplied EXCEPT ![s][p] = Data(<<>>)]
    BY <1>2, <1>7 DEF PutEmpty, desc
  <2>2. ParAt(s, p)'.data = Data(<<>>).pieces
    <3>1. ParAt(s, p).data = <<>>
      BY <1>1, <1>2 DEF Filled
    <3>2. ParAt(s, p)' = ParAt(s, p)
      BY <1>1, <2>1 DEF ParAt
    <3> QED
      BY <1>5, <3>1, <3>2
  <2>3. /\ TextsLeft(s) /\ FewIn(ApdOf[s])' /\ tempbuf'[s] \in Seq(ShortT)
        /\ setpos_apd'[s] # NoDesc =>
              \A q \in Params : Few(setpos_apd'[s][q].data)
    BY <1>1, <2>1 DEF TextsLeft, FewIn, Filled
  <2>4. Data(<<>>) \in ValueT
    BY <1>4 DEF ShortT
  <2>5. Supplies(s, p, Data(<<>>))
    BY <2>1, <2>4, OneSupplied DEF CInv
  <2>6. Filled(s)'
    BY <1>1, <1>2, <1>3, <1>4, <2>2, <2>3, <2>5, FPut
  <2> QED
    BY <2>3, <2>6
<1> QED
  BY <1>6, <1>7

LEMMA FPutData ==
    ASSUME CInv, FInv, NEW s \in Stmts, NEW piece \in Pieces,
           PutData(s, piece)
    PROVE  TextsLeft(s) /\ FewIn(ApdOf[s])' /\ Filled(s)'
<1>1. PICK p \in Params, par \in ParT, v \in ValueT :
         /\ p = current_param[s]
         /\ SetPar(s, p, par) /\ supplied' = [supplied EXCEPT ![s][p] = v]
         /\ par.data = Append(ParAt(s, p).data, piece)
         /\ v = Data(Append(supplied[s][p].pieces, piece))
         /\ supplied[s][p].pieces \in Seq(Pieces)
  <2>1. PutPiece(s, piece)
    BY PutDataEffect
  <2> QED
    BY <2>1, Zenon DEF PutPiece
<1>2. /\ Filled(s) /\ need[s] \in {"asked", "put"}
      /\ need' = [need EXCEPT ![s] = "put"]
      /\ Len(supplied[s][p].pieces) < MaxPieces
      /\ UNCHANGED <<dae_type, current_param, tempbuf>>
  BY <1>1 DEF FInv, PutData
<1>3. supplied[s][p].pieces = ParAt(s, p).data
  BY <1>1, <1>2 DEF Filled
<1>4. v.pieces = par.data /\ Few(par.data) /\ v \in ShortT
  <2>1. v = Data(par.data) /\ par.data \in Seq(Pieces)
    BY <1>1, <1>3 DEF ParT
  <2>2. Len(par.data) = Len(supplied[s][p].pieces) + 1
    BY <1>1, <1>3
  <2>3. Few(par.data)
    BY <1>1, <1>2, <2>2, MaxAssumption DEF Few
  <2> QED
    BY <2>1, <2>3, ShortTypes DEF Data, Value
<1>5. /\ TextsLeft(s) /\ FewIn(ApdOf[s])' /\ tempbuf'[s] \in Seq(ShortT)
      /\ setpos_apd'[s] # NoDesc =>
            \A q \in Params : Few(setpos_apd'[s][q].data)
  BY <1>1, <1>2, <1>4, FRecord
<1>6. ParAt(s, p)'.data = v.pieces
  BY <1>1, <1>2, <1>4, OneRecord
<1>7. Supplies(s, p, v)
  BY <1>1, OneSupplied DEF CInv
<1>8. Filled(s)'
  BY <1>1, <1>2, <1>4, <1>5, <1>6, <1>7, FPut
<1> QED
  BY <1>5, <1>8

(* A statement that shares its descriptor with no other.                   *)
LEMMA FNext ==
    ASSUME Own, CInv, HInv, FInv, Next
    PROVE  FInv'
<1>1. PICK s \in Stmts :
        \/ Execute(s) \/ ExecuteNeedsData(s) \/ Close(s) \/ CancelBusy(s)
        \/ \E op \in Changes : SetPos(s, op)
        \/ UpdateByBookmark(s)
        \/ AskNext(s) \/ FinishExecute(s) \/ FinishSetPos(s)
        \/ \E piece \in Pieces : PutData(s, piece)
        \/ PutNull(s) \/ PutEmpty(s) \/ MoveOffset(s)
  BY DEF Next
<1>2. Held(s)
  BY DEF HInv
<1>3. ASSUME OthersHeld(s), TextsLeft(s), Filled(s)', FewIn(ApdOf[s])'
      PROVE  FInv'
  BY <1>3, FActor
<1>4. ASSUME NEW op \in Ops, NEW type \in Changes, NeedColumns(s, op, type),
             habits \subseteq habits'
      PROVE  FInv'
  BY <1>3, <1>4, HNeedColumns, FNeedColumns
<1>5. ASSUME NEW op, Change(s, op) PROVE FInv'
  BY <1>3, <1>5, HChange, FChange
<1>6. ASSUME NEW op \in Changes, SetPos(s, op) PROVE FInv'
  <2>1. op \in Ops
    BY DEF Ops
  <2> QED
    BY <1>4, <1>5, <1>6, <2>1 DEF SetPos
<1>7. ASSUME UpdateByBookmark(s) PROVE FInv'
  <2>1. "bookmark" \in Ops /\ "update" \in Changes
    BY DEF Ops, Changes
  <2> QED
    BY <1>4, <1>5, <1>7, <2>1 DEF UpdateByBookmark, Exercise
<1>8. CASE Execute(s)
  BY <1>3, <1>8, HExecute, FExecute
<1>9. CASE ExecuteNeedsData(s)
  BY <1>3, <1>9, HExecuteNeedsData, FExecuteNeedsData
<1>10. CASE Close(s) \/ CancelBusy(s)
  BY <1>3, <1>10, HClose, FClose
<1>11. CASE AskNext(s)
  BY <1>2, <1>3, <1>11, HAskNext, FAskNext
<1>12. CASE FinishExecute(s) \/ FinishSetPos(s)
  BY <1>3, <1>12, HFinish, FFinish
<1>13. ASSUME NEW piece \in Pieces, PutData(s, piece) PROVE FInv'
  BY <1>2, <1>3, <1>13, HPutData, FPutData
<1>14. CASE PutNull(s) \/ PutEmpty(s)
  BY <1>3, <1>14, HPutNothing, FPutNothing
<1>15. CASE MoveOffset(s)
  BY <1>3, <1>15, HMoveOffset, FMoveOffset
<1> QED
  BY <1>1, <1>6, <1>7, <1>8, <1>9, <1>10, <1>11, <1>12, <1>13, <1>14, <1>15

LEMMA FInit == Init => FInv
<1> SUFFICES ASSUME Init PROVE FInv
  OBVIOUS
<1>1. ASSUME NEW s \in Stmts PROVE Filled(s)
  BY <1>1, ShortTypes DEF Init, Filled
<1>2. ASSUME NEW a \in Apds PROVE FewIn(a)
  BY <1>2, FreshType, ShortTypes DEF Init, FewIn
<1> QED
  BY <1>1, <1>2 DEF FInv

LEMMA FKeeps ==
    ASSUME FInv, UNCHANGED vars
    PROVE  FInv'
<1>1. UNCHANGED <<dae_type, current_param, setpos_apd, apd, tempbuf, need,
                  supplied>>
  BY DEF vars
<1>2. ASSUME NEW s \in Stmts PROVE Filled(s)'
  <2>1. ParAt(s, current_param[s])' = ParAt(s, current_param[s])
    BY <1>1 DEF ParAt
  <2> QED
    BY <1>1, <2>1 DEF FInv, Filled
<1>3. ASSUME NEW a \in Apds PROVE FewIn(a)'
  BY <1>1 DEF FInv, FewIn
<1> QED
  BY <1>2, <1>3 DEF FInv

(* A sequence of at most n values is one of the sequences of Short.        *)
LEMMA FewAreShort ==
    ASSUME NEW S, NEW n \in Nat, NEW x \in Seq(S), Len(x) <= n
    PROVE  x \in Short(S, n)
<1>1. Len(x) \in 0..n /\ x \in [1..Len(x) -> S]
  OBVIOUS
<1> QED
  BY <1>1 DEF Short

LEMMA TypesHold ==
    ASSUME CInv, FInv
    PROVE  TypeOK
<1>1. \A v \in ShortT : IsValue(v)
  <2> SUFFICES ASSUME NEW v \in ShortT PROVE IsValue(v)
    OBVIOUS
  <2>1. /\ v.kind \in Kinds /\ v.pieces \in Seq(Pieces)
        /\ v.kind # "data" => v.pieces = <<>>
        /\ Len(v.pieces) <= MaxPieces
    BY DEF ShortT, ValueT, Few
  <2>2. v.pieces \in Short(Pieces, MaxPieces)
    BY <2>1, FewAreShort, MaxAssumption
  <2> QED
    BY <2>1, <2>2 DEF IsValue
<1>2. ASSUME NEW par \in ParT, Few(par.data) PROVE par \in Pars
  <2>1. par.data \in Seq(Pieces) /\ Len(par.data) <= MaxPieces
    BY <1>2 DEF ParT, Few
  <2>2. par.data \in Short(Pieces, MaxPieces)
    BY <2>1, FewAreShort, MaxAssumption
  <2> QED
    BY <2>2 DEF ParT, Pars
<1>3. ASSUME NEW s \in Stmts
      PROVE  /\ result[s] \in BOOLEAN /\ server[s] \in BOOLEAN
             /\ moved[s] \in BOOLEAN
             /\ dae_type[s] \in {"none", "normal"} \cup Changes
             /\ current_param[s] \in 0..N
             /\ setpos_apd[s] = NoDesc \/ \A p \in Params :
                                              setpos_apd[s][p] \in Pars
             /\ ardInd[s] \subseteq Params
             /\ \A k \in DOMAIN tempbuf[s] : IsValue(tempbuf[s][k])
             /\ need[s] \in {"no", "need", "asked", "put"}
             /\ started[s] \in {"none", "execute", "bookmark"} \cup Changes
             /\ \A p \in Params : IsValue(supplied[s][p])
             /\ need[s] # "no" => dae_type[s] # "none"
  <2>1. Shape /\ Control(s) /\ Filled(s)
    BY DEF CInv, FInv
  <2>2. \A k \in DOMAIN tempbuf[s] : IsValue(tempbuf[s][k])
    BY <1>1, <2>1 DEF Filled
  <2>3. \A p \in Params : IsValue(supplied[s][p])
    BY <1>1, <2>1 DEF Filled
  <2>4. setpos_apd[s] = NoDesc \/ \A p \in Params : setpos_apd[s][p] \in Pars
    BY <1>2, <2>1 DEF Shape, Copies, Filled
  <2>5. need[s] # "no" => dae_type[s] # "none"
    BY <2>1 DEF Control, Kept
  <2> QED
    BY <2>1, <2>2, <2>3, <2>4, <2>5 DEF Shape, Ops
<1>4. ASSUME NEW a \in Apds
      PROVE  /\ apdInd[a] \subseteq Params
             /\ \A p \in Params : apd[a][p] \in Pars
  <2>1. Shape /\ FewIn(a)
    BY DEF CInv, FInv
  <2> QED
    BY <1>2, <2>1 DEF Shape, Copies, FewIn
<1> QED
  BY <1>3, <1>4 DEF TypeOK

(* SQLCancel: "If there's no query going on, just close the statement": a  *)
(* statement in no sequence keeps nothing of one; and no buffer of pieces  *)
(* is longer than what the application put into it, even after NULL and    *)
(* empty values, cancellations, moved offsets and failed changes, as long  *)
(* as no two statements share an application descriptor.                   *)
THEOREM SequencesEndCleanly ==
    ASSUME Own
    PROVE  Spec => []SequencesEnd
<1> DEFINE Inv == CInv /\ HInv /\ ValuesAsSupplied /\ FInv
<1>1. Init => Inv
  BY CInit, HInit, FInit
<1>2. Inv /\ [Next]_vars => Inv'
  <2>1. CInv /\ [Next]_vars => CInv'
    BY CNext, CKeeps
  <2>2. CInv /\ HInv /\ FInv /\ [Next]_vars => FInv'
    BY FNext, FKeeps
  <2> QED
    BY <2>1, <2>2, HStep
<1>3. Inv => TypeOK
  BY TypesHold
<1> HIDE DEF Inv
<1>4. Spec => []TypeOK
  BY <1>1, <1>2, <1>3, PTL DEF Spec
<1>5. SequencesEnd <=> TypeOK /\ NothingLeftBehind
  BY DEF SequencesEnd
<1> QED
  BY <1>4, <1>5, NothingOutlivesSequence, PTL
=============================================================================
