------------------------------ MODULE DataAtExec ------------------------------
(***************************************************************************)
(* Parameters and columns whose value is supplied after the call that needs *)
(* it: SQLExecute or SQLSetPos returns SQL_NEED_DATA, each SQLParamData     *)
(* asks for one parameter, SQLPutData supplies it in pieces, and the last   *)
(* SQLParamData runs the operation (execute.cc, cursor.cc, desc.cc).        *)
(*                                                                         *)
(* The pieces are kept in the records of a descriptor (DESCREC::par): the   *)
(* APD for SQLExecute, a copy of the ARD (STMT::setpos_apd) for SQLSetPos.  *)
(* The driver manager's part is modelled by `need`: between SQL_NEED_DATA   *)
(* and the end of the sequence it lets only SQLParamData, SQLPutData and    *)
(* SQLCancel pass.                                                          *)
(***************************************************************************)
EXTENDS Integers, FiniteSets, Sequences

CONSTANTS
    Stmts,       \* statement handles of one connection
    Apds,        \* application parameter descriptors
    ApdOf,       \* the APD each statement uses; two may use the same
    N,           \* parameters of the statement, columns of the result set
    Pieces,      \* what one SQLPutData can supply
    MaxPieces,   \* bound: pieces per parameter
    MaxText,     \* bound: values left over in STMT::tempbuf
    Habits,      \* what applications and their surroundings also do
    MaxHabits,   \* bound: how many of these occur in one behaviour
    NoDesc,      \* setpos_apd is empty
    NoQuery      \* the last step sent no query

ASSUME ApdOfAssumption == ApdOf \in [Stmts -> Apds]
ASSUME NAssumption == N \in Nat \ {0}
ASSUME MaxAssumption ==
    MaxPieces \in Nat \ {0} /\ MaxText \in Nat /\ MaxHabits \in Nat
ASSUME HabitsAssumption ==
    Habits \subseteq {"novalue", "offset", "busy", "bookmark", "failedAdd"}

VARIABLES
    result,         \* STMT::result: a result set with a current row is open
    dae_type,       \* STMT::dae_type
    current_param,  \* STMT::current_param
    setpos_apd,     \* STMT::setpos_apd
    apd,            \* the DESCREC::par of each APD
    apdInd,         \* parameters whose length buffer says data-at-exec
    ardInd,         \* columns whose length buffer says data-at-exec
    moved,          \* the ARD's bind offset was moved to other buffers
    server,         \* the statement is prepared by the server
    tempbuf,        \* STMT::tempbuf, as the values written to it
    need,           \* the driver manager's view of the sequence
    started,        \* the operation the application asked for
    asked,          \* the parameters SQLParamData has asked for, in order
    supplied,       \* what the application has supplied for each
    sent,           \* the query the last step sent, if it sent one
    habits          \* the Habits that have been exercised so far

vars == <<result, dae_type, current_param, setpos_apd, apd, apdInd, ardInd,
          moved, server, tempbuf, need, started, asked, supplied, sent,
          habits>>

desc == <<apd, apdInd, ardInd, moved>>
app  == <<started, asked, supplied>>

Params  == 1..N

(* No copy of a descriptor is taken for its absence.                        *)
ASSUME NoDescAssumption ==
    NoDesc \notin [Params -> [alloc : BOOLEAN, data : Seq(Pieces),
                              is_dae : BOOLEAN]]

Changes == {"insert", "update"}          \* SQL_ADD, SQL_UPDATE

(* A value as it gets into the text of a query.                            *)
Value(kind, pieces) == [kind |-> kind, pieces |-> pieces]
Data(pieces) == Value("data", pieces)
Bound   == Value("bound", <<>>)          \* the application's own buffer
Null    == Value("null", <<>>)
Default == Value("default", <<>>)
Wrong   == Value("wrong", <<>>)          \* one buffer cut at another's length
Nothing == Value("nothing", <<>>)        \* not supplied

(* DESCREC::par: tempBuf::reset() goes back to the start of the buffer but  *)
(* keeps it, so "has no buffer" and "has no data" are not the same.         *)
FreshPar == [alloc |-> FALSE, data |-> <<>>, is_dae |-> FALSE]
(* (Variant: the position stays.)                                          *)
ResetFlag(par) == [par EXCEPT !.is_dae = FALSE]
Reset(par) == [par EXCEPT !.data = <<>>, !.is_dae = FALSE]
FreeParamData(pars) == [p \in Params |-> Reset(pars[p])]

Init ==
    /\ result = [s \in Stmts |-> FALSE]
    /\ dae_type = [s \in Stmts |-> "none"]
    /\ current_param = [s \in Stmts |-> 0]
    /\ setpos_apd = [s \in Stmts |-> NoDesc]
    /\ apd = [a \in Apds |-> [p \in Params |-> FreshPar]]
    /\ apdInd = [a \in Apds |-> {}]
    /\ ardInd = [s \in Stmts |-> {}]
    /\ moved = [s \in Stmts |-> FALSE]
    /\ server = [s \in Stmts |-> FALSE]
    /\ tempbuf = [s \in Stmts |-> <<>>]
    /\ need = [s \in Stmts |-> "no"]
    /\ started = [s \in Stmts |-> "none"]
    /\ asked = [s \in Stmts |-> <<>>]
    /\ supplied = [s \in Stmts |-> [p \in Params |-> Nothing]]
    /\ sent = NoQuery
    /\ habits = {}

-----------------------------------------------------------------------------
(***************************************************************************)
(* Values                                                                  *)
(***************************************************************************)

(* insert_param for a parameter whose length says data-at-exec: val() is    *)
(* the buffer, val_length() how much of it is used.                         *)
DaeValue(par) == IF par.alloc THEN Data(par.data) ELSE Default

(* put_default_value: a parameter bound at the server can only be NULL.     *)
OfServer(s, v) == IF server[s] /\ v = Default THEN Null ELSE v

ParamValue(s, pars, p) ==
    IF p \in apdInd[ApdOf[s]] THEN OfServer(s, DaeValue(pars[p])) ELSE Bound

(* The columns that the length buffers at the present offset declare        *)
(* data-at-exec, for a statement whose columns D were declared so.          *)
AtOffset(s, D) == IF moved[s] THEN {} ELSE D

(* build_set_clause_std: the data comes from par if is_dae says so, its     *)
(* length from the length buffer at the present offset.                     *)
SetValue(s, D, type, pars, p) ==
    IF type # "none" /\ pars[p].is_dae
    THEN IF p \in AtOffset(s, D) THEN DaeValue(pars[p]) ELSE Wrong
    ELSE IF p \in AtOffset(s, D) THEN DaeValue(pars[p]) ELSE Bound

(* batch_insert_std: here the length comes from par as well.                *)
AddValue(s, D, type, pars, p) ==
    IF pars[p].is_dae
    THEN IF type # "none" THEN Data(pars[p].data) ELSE Wrong
    ELSE IF p \in AtOffset(s, D) THEN DaeValue(pars[p]) ELSE Bound

(* The columns' values in the order they are written; without a separate    *)
(* descriptor for data-at-exec every column is the application's own.       *)
ColumnValues(s, op, D, type, pars) ==
    [p \in Params |->
        IF pars = NoDesc THEN Bound
        ELSE IF op = "insert" THEN AddValue(s, D, type, pars, p)
        ELSE SetValue(s, D, type, pars, p)]

Wanted(D, supply) == [p \in Params |-> IF p \in D THEN supply[p] ELSE Bound]

Query(op, first, values, D, order, supply) ==
    [op |-> op, started |-> first, values |-> values,
     wanted |-> Wanted(D, supply), asked |-> order, dae |-> D]

-----------------------------------------------------------------------------
(***************************************************************************)
(* Beginning and ending a sequence                                         *)
(***************************************************************************)

First(D) == CHOOSE p \in D : \A q \in D : p <= q

(* The call returns SQL_NEED_DATA: the driver starts its search at the      *)
(* first parameter declared data-at-exec.                                   *)
NeedData(s, op, type, D) ==
    /\ dae_type' = [dae_type EXCEPT ![s] = type]
    /\ current_param' = [current_param EXCEPT ![s] = First(D) - 1]
    /\ need' = [need EXCEPT ![s] = "need"]
    /\ started' = [started EXCEPT ![s] = op]
    /\ asked' = [asked EXCEPT ![s] = <<>>]
    /\ supplied' = [supplied EXCEPT ![s] = [p \in Params |-> Nothing]]
    /\ sent' = NoQuery

(* The application is no longer in a sequence; its buffers are its own.     *)
LeaveSequence(s) ==
    /\ need' = [need EXCEPT ![s] = "no"]
    /\ started' = [started EXCEPT ![s] = "none"]
    /\ asked' = [asked EXCEPT ![s] = <<>>]
    /\ supplied' = [supplied EXCEPT ![s] = [p \in Params |-> Nothing]]
    /\ ardInd' = [ardInd EXCEPT ![s] = {}]
    /\ moved' = [moved EXCEPT ![s] = FALSE]

-----------------------------------------------------------------------------
(***************************************************************************)
(* SQLExecute and SQLFreeStmt                                              *)
(***************************************************************************)

(* What my_SQLFreeStmtExtended does for every caller.  The pieces it drops  *)
(* are those of the descriptor, whoever put them there; setpos_apd stays    *)
(* unless the statement is closed.                                          *)
(* (Variant: tempbuf is not emptied.)                                      *)
FreeStmtKeepsText(s) ==
    /\ apd' = [apd EXCEPT ![ApdOf[s]] = FreeParamData(@)]
    /\ UNCHANGED tempbuf
FreeStmt(s) ==
    /\ apd' = [apd EXCEPT ![ApdOf[s]] = FreeParamData(@)]
    /\ tempbuf' = [tempbuf EXCEPT ![s] = <<>>]

(* Statements that share a descriptor share its length buffers too.         *)
MayBind(s, D) ==
    \A t \in Stmts \ {s} :
        (ApdOf[t] = ApdOf[s] /\ started[t] = "execute")
            => D = apdInd[ApdOf[s]]

(* SQLExecute of a statement without data-at-exec parameters; if it returns *)
(* rows, the application fetches one.  (Module ParamSets has the failures.) *)
Execute(s) ==
    /\ need[s] = "no"
    /\ MayBind(s, {})
    /\ FreeStmt(s)
    /\ apdInd' = [apdInd EXCEPT ![ApdOf[s]] = {}]
    /\ dae_type' = [dae_type EXCEPT ![s] = "none"]
    /\ sent' = Query("execute", "execute", [p \in Params |-> Bound],
                     {}, <<>>, supplied[s])
    /\ \E open, prepared \in BOOLEAN :
           /\ result' = [result EXCEPT ![s] = open]
           /\ server' = [server EXCEPT ![s] = prepared]
    /\ UNCHANGED <<current_param, setpos_apd, ardInd, moved, need, app,
                   habits>>

(* my_SQLExecute finds a data-at-exec parameter (desc_find_dae_rec).        *)
ExecuteNeedsData(s) ==
    /\ need[s] = "no"
    /\ \E D \in (SUBSET Params) \ {{}} :
           /\ MayBind(s, D)
           /\ apdInd' = [apdInd EXCEPT ![ApdOf[s]] = D]
           /\ NeedData(s, "execute", "normal", D)
    /\ FreeStmt(s)
    /\ result' = [result EXCEPT ![s] = FALSE]
    /\ \E prepared \in BOOLEAN : server' = [server EXCEPT ![s] = prepared]
    /\ UNCHANGED <<setpos_apd, ardInd, moved, habits>>

(* SQLFreeStmt(SQL_CLOSE), and SQLCancel when nobody holds DBC::lock: the   *)
(* statement is closed and a sequence it was in is over.                    *)
(* (Variant: the copied descriptor is kept, as for RESET_BUFFERS.)         *)
CloseKeepsCopy(s) ==
    /\ FreeStmt(s)
    /\ dae_type' = [dae_type EXCEPT ![s] = "none"]
    /\ result' = [result EXCEPT ![s] = FALSE]
    /\ LeaveSequence(s)
    /\ sent' = NoQuery
    /\ UNCHANGED <<current_param, setpos_apd, apdInd, server, habits>>
Close(s) ==
    /\ FreeStmt(s)
    /\ dae_type' = [dae_type EXCEPT ![s] = "none"]
    /\ setpos_apd' = [setpos_apd EXCEPT ![s] = NoDesc]
    /\ result' = [result EXCEPT ![s] = FALSE]
    /\ LeaveSequence(s)
    /\ sent' = NoQuery
    /\ UNCHANGED <<current_param, apdInd, server, habits>>

(* The application, or its surroundings, does one of Habits.                *)
Exercise(habit) ==
    /\ habit \in Habits
    /\ Cardinality(habits \cup {habit}) <= MaxHabits
    /\ habits' = habits \cup {habit}

(* SQLCancel while another thread runs a query on the connection: that      *)
(* query is killed and this statement is left as it is, while the driver    *)
(* manager takes the sequence for cancelled.                                *)
CancelBusy(s) ==
    /\ Exercise("busy")
    /\ need[s] # "no"
    /\ LeaveSequence(s)
    /\ sent' = NoQuery
    /\ UNCHANGED <<result, dae_type, current_param, setpos_apd, apd, apdInd,
                   server, tempbuf>>

-----------------------------------------------------------------------------
(***************************************************************************)
(* SQLSetPos and SQLBulkOperations                                         *)
(***************************************************************************)

(* my_SQLSetPos and batch_insert_std or build_set_clause_std build a query  *)
(* from the columns and send it, which empties tempbuf.  What was in it     *)
(* before is in front of the values.                                        *)
SendChange(s, op, first, D, type, pars) ==
    /\ sent' = Query(op, first,
                     tempbuf[s] \o ColumnValues(s, op, D, type, pars),
                     D, asked[s], supplied[s])
    /\ tempbuf' = [tempbuf EXCEPT ![s] = <<>>]
    /\ UNCHANGED habits

(* A column does not convert and the call fails.  SQL_ADD collects its      *)
(* columns in tempbuf and leaves those before the bad one there; an update  *)
(* empties it after each column.                                            *)
FailChange(s, op, D, type, pars) ==
    /\ sent' = NoQuery
    /\ \E bad \in Params :
          IF op = "insert"
          THEN LET before == SubSeq(ColumnValues(s, op, D, type, pars),
                                    1, bad - 1)
               IN  /\ Exercise("failedAdd")
                   /\ Len(tempbuf[s]) + bad - 1 <= MaxText
                   /\ tempbuf' = [tempbuf EXCEPT ![s] = @ \o before]
          ELSE /\ tempbuf' = [tempbuf EXCEPT ![s] =
                                 IF bad = 1 THEN @ ELSE <<>>]
               /\ UNCHANGED habits

(* No column is data-at-exec: the operation runs at once, with setpos_apd   *)
(* if one is there.                                                         *)
Change(s, op) ==
    /\ need[s] = "no"
    /\ result[s]
    /\ \/ SendChange(s, op, op, {}, dae_type[s], setpos_apd[s])
       \/ FailChange(s, op, {}, dae_type[s], setpos_apd[s])
    /\ UNCHANGED <<result, dae_type, current_param, setpos_apd, desc, server,
                   need, app>>

(* setpos_dae_check_and_init: copies the ARD and returns SQL_NEED_DATA.  It *)
(* refuses to do so for more than one row.                                  *)
NeedColumns(s, first, type) ==
    /\ need[s] = "no"
    /\ result[s]
    /\ setpos_apd' = [setpos_apd EXCEPT ![s] = [p \in Params |-> FreshPar]]
    /\ \E D \in (SUBSET Params) \ {{}} :
           /\ ardInd' = [ardInd EXCEPT ![s] = D]
           /\ NeedData(s, first, type, D)
    /\ UNCHANGED <<result, apd, apdInd, moved, server, tempbuf>>

SetPos(s, op) ==
    \/ Change(s, op)
    \/ NeedColumns(s, op, op) /\ UNCHANGED habits

(* SQLBulkOperations(SQL_UPDATE_BY_BOOKMARK).  Of a data-at-exec sequence   *)
(* only the type DAE_SETPOS_UPDATE is remembered.                           *)
UpdateByBookmark(s) ==
    /\ "bookmark" \in Habits
    /\ \/ Change(s, "bookmark")
       \/ NeedColumns(s, "bookmark", "update") /\ Exercise("bookmark")

-----------------------------------------------------------------------------
(***************************************************************************)
(* SQLParamData and SQLPutData                                             *)
(***************************************************************************)

DaeParams(s) == IF dae_type[s] = "normal" THEN apdInd[ApdOf[s]]
                                          ELSE AtOffset(s, ardInd[s])

(* What find_next_dae_param has still to ask for.                           *)
(* (Variant: one is passed over.)                                          *)
UnaskedButOne(s) == {p \in DaeParams(s) : p > current_param[s] + 1}
Unasked(s) == {p \in DaeParams(s) : p > current_param[s]}

(* The record SQLPutData adds to, with its new contents.                    *)
SetPar(s, p, par) ==
    IF dae_type[s] = "normal"
    THEN /\ apd' = [apd EXCEPT ![ApdOf[s]][p] = par]
         /\ UNCHANGED setpos_apd
    ELSE /\ setpos_apd' = [setpos_apd EXCEPT ![s][p] = par]
         /\ UNCHANGED apd

ParAt(s, p) == IF dae_type[s] = "normal" THEN apd[ApdOf[s]][p]
                                         ELSE setpos_apd[s][p]

(* SQLParamData asks for the next parameter; before the application has put *)
(* something for one the driver manager does not let it ask for another.    *)
AskNext(s) ==
    /\ need[s] \in {"need", "put"}
    /\ Unasked(s) # {}
    /\ LET p == First(Unasked(s)) IN
           /\ current_param' = [current_param EXCEPT ![s] = p]
           /\ SetPar(s, p, [Reset(ParAt(s, p)) EXCEPT !.is_dae = TRUE])
           /\ asked' = [asked EXCEPT ![s] = Append(@, p)]
    /\ need' = [need EXCEPT ![s] = "asked"]
    /\ sent' = NoQuery
    /\ UNCHANGED <<result, dae_type, apdInd, ardInd, moved, server, tempbuf,
                   started, supplied, habits>>

(* SQLPutData with a piece of the value.                                    *)
PutData(s, piece) ==
    LET p == current_param[s] IN
    /\ need[s] \in {"asked", "put"}
    /\ supplied[s][p] # Null
    /\ Len(supplied[s][p].pieces) < MaxPieces
    /\ SetPar(s, p, [ParAt(s, p) EXCEPT !.data = Append(@, piece),
                                        !.alloc = TRUE])
    /\ supplied' = [supplied EXCEPT ![s][p] = Data(Append(@.pieces, piece))]
    /\ need' = [need EXCEPT ![s] = "put"]
    /\ sent' = NoQuery
    /\ UNCHANGED <<result, dae_type, current_param, apdInd, ardInd, moved,
                   server, tempbuf, started, asked, habits>>

(* SQLPutData(SQL_NULL_DATA) as the only call for a parameter.              *)
PutNull(s) ==
    LET p == current_param[s] IN
    /\ Exercise("novalue")
    /\ need[s] = "asked"
    /\ SetPar(s, p, Reset(ParAt(s, p)))
    /\ supplied' = [supplied EXCEPT ![s][p] = Null]
    /\ need' = [need EXCEPT ![s] = "put"]
    /\ sent' = NoQuery
    /\ UNCHANGED <<result, dae_type, current_param, apdInd, ardInd, moved,
                   server, tempbuf, started, asked>>

(* SQLPutData of no bytes: an empty value.  Appending nothing to a buffer   *)
(* that does not exist does not make one.                                   *)
PutEmpty(s) ==
    LET p == current_param[s] IN
    /\ Exercise("novalue")
    /\ need[s] = "asked"
    /\ supplied' = [supplied EXCEPT ![s][p] = Data(<<>>)]
    /\ need' = [need EXCEPT ![s] = "put"]
    /\ sent' = NoQuery
    /\ UNCHANGED <<result, dae_type, current_param, setpos_apd, desc, server,
                   tempbuf, started, asked>>

(* The application has put the last column and moves the ARD's bind offset  *)
(* before the last SQLParamData, as ADO does.                               *)
MoveOffset(s) ==
    /\ Exercise("offset")
    /\ need[s] = "put"
    /\ dae_type[s] \in Changes
    /\ Unasked(s) = {}
    /\ moved' = [moved EXCEPT ![s] = TRUE]
    /\ sent' = NoQuery
    /\ UNCHANGED <<result, dae_type, current_param, setpos_apd, apd, apdInd,
                   ardInd, server, tempbuf, need, app>>

(* The last SQLParamData of an SQLExecute: execute_dae inserts the          *)
(* parameters and sends the statement, or stops at one that does not        *)
(* convert.                                                                 *)
FinishExecute(s) ==
    LET values == [p \in Params |->
                      ParamValue(s, apd[ApdOf[s]], p)] IN
    /\ need[s] \in {"need", "put"}
    /\ dae_type[s] = "normal"
    /\ Unasked(s) = {}
    /\ \/ /\ sent' = Query("execute", started[s], tempbuf[s] \o values,
                           apdInd[ApdOf[s]], asked[s], supplied[s])
          /\ tempbuf' = [tempbuf EXCEPT ![s] = <<>>]
          /\ \E open \in BOOLEAN : result' = [result EXCEPT ![s] = open]
       \/ /\ \E bad \in Params :
                tempbuf' = [tempbuf EXCEPT ![s] =
                    IF server[s] THEN @ ELSE @ \o SubSeq(values, 1, bad - 1)]
          /\ sent' = NoQuery
          /\ UNCHANGED result
    /\ dae_type' = [dae_type EXCEPT ![s] = "none"]
    /\ LeaveSequence(s)
    /\ UNCHANGED <<current_param, setpos_apd, apd, apdInd, server, habits>>

(* The last SQLParamData of a change: execute_dae calls my_SQLSetPos again  *)
(* and drops the copied descriptor, whether it succeeds or not.             *)
FinishSetPos(s) ==
    /\ need[s] \in {"need", "put"}
    /\ dae_type[s] \in Changes
    /\ Unasked(s) = {}
    /\ \/ SendChange(s, dae_type[s], started[s], ardInd[s], "done",
                     setpos_apd[s])
       \/ FailChange(s, dae_type[s], ardInd[s], "done", setpos_apd[s])
    /\ setpos_apd' = [setpos_apd EXCEPT ![s] = NoDesc]
    /\ dae_type' = [dae_type EXCEPT ![s] = "none"]
    /\ LeaveSequence(s)
    /\ UNCHANGED <<result, current_param, apd, apdInd, server>>

Next ==
    \E s \in Stmts :
        \/ Execute(s) \/ ExecuteNeedsData(s) \/ Close(s) \/ CancelBusy(s)
        \/ \E op \in Changes : SetPos(s, op)
        \/ UpdateByBookmark(s)
        \/ AskNext(s) \/ FinishExecute(s) \/ FinishSetPos(s)
        \/ \E piece \in Pieces : PutData(s, piece)
        \/ PutNull(s) \/ PutEmpty(s) \/ MoveOffset(s)

Spec == Init /\ [][Next]_vars

-----------------------------------------------------------------------------
(***************************************************************************)
(* Properties                                                              *)
(***************************************************************************)

Kinds  == {"bound", "null", "default", "wrong", "nothing", "data"}
Short(S, n) == UNION {[1..k -> S] : k \in 0..n}
IsValue(v) ==
    /\ v.kind \in Kinds
    /\ v.pieces \in Short(Pieces, MaxPieces)
    /\ v.kind # "data" => v.pieces = <<>>
Pars == [alloc : BOOLEAN, data : Short(Pieces, MaxPieces), is_dae : BOOLEAN]

(* The variables have the types the driver declares for them, and the       *)
(* driver manager believes in a sequence only if the driver is in one.      *)
TypeOK ==
    /\ \A s \in Stmts :
           /\ result[s] \in BOOLEAN /\ server[s] \in BOOLEAN
           /\ moved[s] \in BOOLEAN
           /\ dae_type[s] \in {"none", "normal"} \cup Changes
           /\ current_param[s] \in 0..N
           /\ setpos_apd[s] = NoDesc \/ \A p \in Params :
                                            setpos_apd[s][p] \in Pars
           /\ ardInd[s] \subseteq Params
           /\ \A k \in DOMAIN tempbuf[s] : IsValue(tempbuf[s][k])
           /\ need[s] \in {"no", "need", "asked", "put"}
           /\ started[s] \in {"none", "execute", "bookmark"} \cup Changes
           /\ \A p \in Params : IsValue(supplied[s][p])
           /\ need[s] # "no" => dae_type[s] # "none"
    /\ \A a \in Apds : /\ apdInd[a] \subseteq Params
                       /\ \A p \in Params : apd[a][p] \in Pars

(* SQLPutData "allows an application to send data for a parameter or column *)
(* to the driver at statement execution time" (execute.cc): the query the   *)
(* driver sends has for each data-at-exec parameter all the pieces put for  *)
(* it in this sequence and no others, and for each other parameter the      *)
(* application's buffer.  Not after a NULL or empty value, a moved bind     *)
(* offset, a cancellation on a busy connection or a failed SQL_ADD.         *)
ValuesAsSupplied ==
    (sent # NoQuery /\ habits \subseteq {"bookmark"}) =>
        \A p \in Params : sent.values[p] = sent.wanted[p]

(* An INSERT or a SET clause has one value for each column, however earlier *)
(* operations on the statement ended, but for a failed SQL_ADD.             *)
OneValuePerColumn ==
    (sent # NoQuery /\ "failedAdd" \notin habits) => Len(sent.values) = N

(* The operation that the last SQLParamData runs is the one that returned   *)
(* SQL_NEED_DATA, except a bulk operation by bookmark.                      *)
OperationAsStarted ==
    (sent # NoQuery /\ "bookmark" \notin habits) => sent.op = sent.started

(* The query that is sent in the end is that of the operation which asked   *)
(* for data, whatever came between, and is well formed.                     *)
QueryAsStarted == OneValuePerColumn /\ OperationAsStarted

(* Before the query is sent, SQLParamData has asked for every data-at-exec  *)
(* parameter, for each once and from the first to the last.                 *)
AskedOnceInOrder ==
    sent # NoQuery =>
        LET order == sent.asked IN
        /\ {order[k] : k \in DOMAIN order} = sent.dae
        /\ \A j, k \in DOMAIN order : j < k => order[j] < order[k]

(* "If there's no query going on, just close the statement" (SQLCancel): a  *)
(* statement that is in no sequence has no data-at-exec state left that a   *)
(* later operation could take up, unless SQLCancel met a busy connection.   *)
NothingLeftBehind ==
    "busy" \notin habits => \A s \in Stmts :
        need[s] = "no" => dae_type[s] = "none" /\ setpos_apd[s] = NoDesc

(* The driver manager and the driver agree on when a sequence begins and    *)
(* ends, and nothing of it outlives it.                                     *)
SequencesEnd == TypeOK /\ NothingLeftBehind
=============================================================================
