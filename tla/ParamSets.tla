----------------------------- MODULE ParamSets -----------------------------
(***************************************************************************)
(* SQLExecute with an array of parameter sets: my_SQLExecute, insert_params*)
(* and do_query of execute.cc.  The driver runs the statement once for each*)
(* set, or, if it is a SELECT, once for all of them joined by UNION ALL,   *)
(* goes on after a set that failed, and reports by one return code, one    *)
(* status for each set and one diagnostic record.                          *)
(*                                                                         *)
(* The text to send is put together in STMT::tempbuf.  Nothing but the code*)
(* that sends a text empties it, so what a failed set leaves in it is still*)
(* there for the next.  The application has a status array; parameters that*)
(* stream output are left out.                                             *)
(***************************************************************************)
EXTENDS Integers, Sequences

CONSTANTS
    MaxSets,         \* bound on SQL_ATTR_PARAMSET_SIZE
    Conversions,     \* what insert_params may come to: "SUCCESS",
                     \* "SUCCESS_WITH_INFO" (01S07), "ERROR" with a
                     \* diagnostic, or "ERROR_UNDIAGNOSED" (22003)
    LimitFails,      \* may SET SQL_SELECT_LIMIT fail on a live connection?
    Ignores          \* may the application mark sets SQL_PARAM_IGNORE?

ASSUME ParamSetsAssumption ==
    /\ MaxSets \in Nat \ {0}
    /\ Conversions \subseteq {"SUCCESS", "SUCCESS_WITH_INFO", "ERROR",
                              "ERROR_UNDIAGNOSED"}
    /\ LimitFails \in BOOLEAN /\ Ignores \in BOOLEAN

VARIABLES
    pc,              \* "idle", or within SQLExecute "set", "query", "end"
    size,            \* apd->array_size
    select,          \* is the statement a SELECT?
    ssps,            \* is it prepared on the server?
    params,          \* has it parameter markers?
    ignored,         \* the sets marked SQL_PARAM_IGNORE
    dae,             \* is some parameter data-at-execution?
    row,             \* the set being processed
    tempbuf,         \* the text put together so far
    rc,              \* the return code, of the step and in the end the call
    one_of_params_not_succeeded, all_parameters_failed, connection_failure,
    lastError,       \* the set that lastError points at, 0 for none
    status,          \* SQL_ATTR_PARAM_STATUS_PTR
    diag,            \* the set that stmt->error is about, 0 for none
    sent,            \* the texts sent to the server in this call
    done,            \* the sets the server reported executed
    failed           \* the sets that failed

statement == <<size, select, ssps, params, ignored, dae>>

flags == <<one_of_params_not_succeeded, all_parameters_failed,
           connection_failure, lastError>>

vars == <<pc, size, select, ssps, params, ignored, dae, row, tempbuf, rc,
          one_of_params_not_succeeded, all_parameters_failed,
          connection_failure, lastError, status, diag, sent, done, failed>>

(* The pieces of a text: the whole statement with set i in place of its    *)
(* markers, the beginning of it that was written when set i failed, and the*)
(* words that join two SELECTs.                                            *)
Whole(i) == <<"whole", i>>
Part(i)  == <<"part", i>>
UnionAll == <<"union", 0>>

Sets == 1..MaxSets

Init ==
    /\ pc = "idle"
    /\ size = 1 /\ select = FALSE /\ ssps = FALSE /\ params = FALSE
    /\ ignored = {} /\ dae = FALSE
    /\ row = 1 /\ tempbuf = <<>> /\ rc = "NONE"
    /\ one_of_params_not_succeeded = FALSE
    /\ all_parameters_failed = FALSE /\ connection_failure = FALSE
    /\ lastError = 0
    /\ status = [i \in Sets |-> "NONE"] /\ diag = 0
    /\ sent = <<>> /\ done = {} /\ failed = {}

(* The application cleared the status array before the call.  A SELECT with*)
(* an array of parameters gives up its server-side statement.              *)
SQLExecute ==
    /\ pc = "idle"
    /\ pc' = "set"
    /\ size' \in Sets
    /\ select' \in BOOLEAN /\ params' \in BOOLEAN /\ dae' \in BOOLEAN
    /\ dae' => params'
    /\ ssps' \in BOOLEAN
    /\ ssps' => params' /\ ~(select' /\ size' > 1)
    /\ ignored' \in SUBSET (1..size')
    /\ ignored' # {} => Ignores /\ params'
    /\ row' = 1 /\ tempbuf' = <<>> /\ rc' = "SUCCESS"
    /\ one_of_params_not_succeeded' = FALSE
    /\ all_parameters_failed' = (size' > 1)
    /\ connection_failure' = FALSE /\ lastError' = 0
    /\ status' = [i \in Sets |-> "NONE"] /\ diag' = 0
    /\ sent' = <<>> /\ done' = {} /\ failed' = {}

(* The loop goes on with the next set.                                     *)
NextSet == /\ row' = row + 1
           /\ pc' = IF row = size THEN "end" ELSE "set"

IgnoreSet ==
    /\ pc = "set" /\ row \in ignored
    /\ status' = [status EXCEPT ![row] = "UNUSED"]
    /\ NextSet
    /\ UNCHANGED <<statement, tempbuf, rc, flags, diag, sent, done, failed>>

(* Data-at-execution parameters cannot be combined with an array ...       *)
DaeInArray ==
    /\ pc = "set" /\ row \notin ignored
    /\ dae /\ size > 1
    /\ rc' = "ERROR" /\ diag' = row /\ failed' = failed \cup {row}
    /\ lastError' = row /\ one_of_params_not_succeeded' = TRUE
    /\ pc' = "end"
    /\ UNCHANGED <<statement, row, tempbuf, all_parameters_failed,
                   connection_failure, status, sent, done>>

(* ... and with a single set suspend the execution (module DataAtExec).    *)
NeedData ==
    /\ pc = "set" /\ row \notin ignored
    /\ dae /\ size = 1
    /\ rc' = "NEED_DATA" /\ pc' = "idle"
    /\ UNCHANGED <<statement, row, tempbuf, flags, status, diag, sent, done,
                   failed>>

(* map_error_to_param_status.                                              *)
StatusOf(code) == IF code = "ERROR" THEN "DIAG_UNAVAILABLE" ELSE code

(* Does this set wait for the last one before the query is sent?           *)
Joined == select /\ row < size

(* insert_params cannot convert some parameter of the set: the text up to  *)
(* it stays in the buffer (there is none if the first is not bound).  One  *)
(* failure, a number too large for the parameter, sets no diagnostic.      *)
InsertParamsFails(conversion) ==
    /\ pc = "set" /\ row \notin ignored /\ params /\ ~dae
    /\ conversion \in {"ERROR", "ERROR_UNDIAGNOSED"}
    /\ tempbuf' \in {tempbuf} \cup
                    (IF ssps THEN {} ELSE {Append(tempbuf, Part(row))})
    /\ rc' = "ERROR"
    /\ diag' = IF conversion = "ERROR" THEN row ELSE diag
    /\ failed' = failed \cup {row}
    /\ status' = [status EXCEPT ![row] = StatusOf("ERROR")]
    /\ lastError' = row /\ one_of_params_not_succeeded' = TRUE
    /\ NextSet
    /\ UNCHANGED <<statement, all_parameters_failed, connection_failure,
                   sent, done>>

(* The text for the set is complete; a SELECT that has more sets to come   *)
(* is not sent yet.                                                        *)
InsertParams(conversion) ==
    /\ pc = "set" /\ row \notin ignored /\ params /\ ~dae
    /\ conversion \in {"SUCCESS", "SUCCESS_WITH_INFO"}
    /\ tempbuf' = IF ssps THEN tempbuf
                  ELSE tempbuf \o (IF Joined THEN <<Whole(row), UnionAll>>
                                             ELSE <<Whole(row)>>)
    /\ rc' = conversion
    /\ diag' = IF conversion = "SUCCESS_WITH_INFO" THEN row ELSE diag
    /\ status' = [status EXCEPT ![row] = StatusOf(conversion)]
    /\ one_of_params_not_succeeded' = (one_of_params_not_succeeded
                                        \/ conversion # "SUCCESS")
    /\ IF Joined THEN NextSet ELSE pc' = "query" /\ row' = row
    /\ UNCHANGED <<statement, all_parameters_failed, connection_failure,
                   lastError, sent, done, failed>>

(* A statement without markers is run once for each set, a SELECT once.    *)
NoParams ==
    /\ pc = "set" /\ row \notin ignored /\ ~params
    /\ IF Joined THEN NextSet ELSE pc' = "query" /\ row' = row
    /\ UNCHANGED <<statement, tempbuf, rc, flags, status, diag, sent, done,
                   failed>>

-----------------------------------------------------------------------------
(* do_query.  What the code makes of its return code; the status array is  *)
(* only known when there are parameters.                                   *)
StatusOfQuery(code) == StatusOf(code)

QueryStatus(code) ==
    status' = IF params THEN [status EXCEPT ![row] = StatusOfQuery(code)]
              ELSE status

(* (Variant of the next: the first error instead of the last.)             *)
FirstError == IF params /\ lastError = 0 THEN row ELSE lastError

LatestError == IF params THEN row ELSE lastError

QueryFails(lost) ==
    /\ rc' = "ERROR" /\ diag' = row
    /\ failed' = failed \cup {row}
    /\ connection_failure' = lost
    /\ lastError' = LatestError
    /\ one_of_params_not_succeeded' = TRUE
    /\ QueryStatus("ERROR")
    /\ NextSet
    /\ UNCHANGED <<statement, all_parameters_failed, done>>

(* Once the connection is lost, nothing more is sent.                      *)
QueryAfterLoss ==
    /\ pc = "query" /\ connection_failure
    /\ QueryFails(TRUE)
    /\ UNCHANGED <<tempbuf, sent>>

(* The row limit cannot be set, or the connection is found dead: do_query  *)
(* returns before the buffer is emptied.                                   *)
QueryNotSent ==
    /\ pc = "query" /\ ~connection_failure
    /\ \E lost \in BOOLEAN : (~lost => LimitFails) /\ QueryFails(lost)
    /\ UNCHANGED <<tempbuf, sent>>

Text == IF ssps \/ ~params THEN <<Whole(row)>> ELSE tempbuf

(* What the server can make of a text: one statement, or SELECTs joined.   *)
WellFormed(text) ==
    IF select
    THEN /\ Len(text) % 2 = 1
         /\ \A k \in 1..Len(text) : IF k % 2 = 1 THEN text[k][1] = "whole"
                                                 ELSE text[k] = UnionAll
    ELSE Len(text) = 1 /\ text[1][1] = "whole"

(* (Variant of the next: it is never emptied.)                             *)
BufferKept(buf) == buf

(* ssps_close, on the way to sending a text.                               *)
BufferSent(buf) == IF ssps THEN buf ELSE <<>>

(* The query attributes cannot be bound, the server refuses the text, or   *)
(* the connection is lost, before or after the server ran it.              *)
QueryRefused ==
    /\ pc = "query" /\ ~connection_failure
    /\ tempbuf' = BufferSent(tempbuf)
    /\ sent' \in {sent, Append(sent, Text)}
    /\ \E lost \in BOOLEAN : QueryFails(lost)

(* (Variant of the next: a success leaves the flag alone.)                 *)
StillAllFailed == all_parameters_failed

NotAllFailed == FALSE

QueryRuns ==
    /\ pc = "query" /\ ~connection_failure
    /\ WellFormed(Text)
    /\ tempbuf' = BufferSent(tempbuf)
    /\ sent' = Append(sent, Text)
    /\ done' = done \cup {Text[k][2] : k \in {j \in 1..Len(Text) :
                                              Text[j][1] = "whole"}}
    /\ rc' = "SUCCESS"
    /\ all_parameters_failed' = NotAllFailed
    /\ QueryStatus("SUCCESS")
    /\ NextSet
    /\ UNCHANGED <<statement, one_of_params_not_succeeded,
                   connection_failure, lastError, diag, failed>>

-----------------------------------------------------------------------------
(* After the loop: the last error is the one with a diagnostic, the sets   *)
(* not reached are unused.                                                 *)
FinalStatus(s, i) ==
    IF i = lastError THEN "ERROR"
    ELSE IF params /\ i > row /\ i <= size THEN "UNUSED" ELSE s[i]

(* (Variant of the next: the two flags are looked at in the other order.)   *)
MixedFirst ==
    IF size = 1 THEN rc
    ELSE IF one_of_params_not_succeeded THEN "SUCCESS_WITH_INFO"
    ELSE IF all_parameters_failed THEN "ERROR"
    ELSE rc

ReturnCode ==
    IF size = 1 THEN rc
    ELSE IF all_parameters_failed THEN "ERROR"
    ELSE IF one_of_params_not_succeeded THEN "SUCCESS_WITH_INFO"
    ELSE rc

Return ==
    /\ pc = "end"
    /\ pc' = "idle"
    /\ status' = [i \in Sets |-> FinalStatus(status, i)]
    /\ rc' = ReturnCode
    /\ UNCHANGED <<statement, row, tempbuf, flags, diag, sent, done, failed>>

Next ==
    \/ SQLExecute \/ IgnoreSet \/ DaeInArray \/ NeedData \/ NoParams
    \/ \E conversion \in Conversions :
          InsertParams(conversion) \/ InsertParamsFails(conversion)
    \/ QueryAfterLoss \/ QueryNotSent \/ QueryRefused \/ QueryRuns
    \/ Return

Spec == Init /\ [][Next]_vars

-----------------------------------------------------------------------------
Codes == {"SUCCESS", "SUCCESS_WITH_INFO", "ERROR"}

(* The types of the variables.                                             *)
TypeOK ==
    /\ pc \in {"idle", "set", "query", "end"}
    /\ size \in Sets /\ row \in 1..size + 1
    /\ select \in BOOLEAN /\ ssps \in BOOLEAN /\ params \in BOOLEAN
    /\ dae \in BOOLEAN /\ ignored \subseteq 1..size
    /\ pc \in {"set", "query"} => row <= size
    /\ rc \in Codes \cup {"NEED_DATA", "NONE"}
    /\ one_of_params_not_succeeded \in BOOLEAN
    /\ all_parameters_failed \in BOOLEAN /\ connection_failure \in BOOLEAN
    /\ lastError \in 0..size /\ diag \in 0..size
    /\ status \in [Sets -> Codes \cup {"NONE", "UNUSED", "DIAG_UNAVAILABLE"}]
    /\ done \subseteq 1..size /\ failed \subseteq 1..size

(* When the call returns, a status of success means that the server ran the*)
(* statement with that set, and a status of unused that it did not.        *)
StatusTruthful ==
    pc = "idle" /\ ~select =>
        \A i \in 1..size :
            /\ status[i] \in {"SUCCESS", "SUCCESS_WITH_INFO"} => i \in done
            /\ status[i] = "UNUSED" => i \notin done \cup failed

(* SQL_SUCCESS means that every set the application did not ask to ignore  *)
(* was executed, SQL_ERROR that none was: "with broken connection we always*)
(* return error for all next queries", "we return SQL_SUCCESS_WITH_INFO" if*)
(* some but not all failed (execute.cc).                                   *)
ReturnTruthful ==
    pc = "idle" /\ ~select =>
        /\ rc = "SUCCESS" => failed = {} /\ done = 1..size \ ignored
        /\ rc = "ERROR" => done = {}

(* "all errors but last have SQL_PARAM_DIAG_UNAVAILABLE", "Last error - we *)
(* are supposed to get SQL_PARAM_ERROR for it" (test/my_param.c).          *)
OneErrorDiagnosed ==
    pc = "idle" /\ params =>
        \A i \in failed :
            status[i] = IF \A j \in failed : j <= i THEN "ERROR"
                        ELSE "DIAG_UNAVAILABLE"

(* What the application finds in its status array when the call returns:    *)
(* which sets were run, which were not, and which error it can ask about.   *)
SetsReported == TypeOK /\ StatusTruthful /\ OneErrorDiagnosed

(* The sets of a SELECT are one query, built up while sets are ignored and  *)
(* others fail: it is run for all sets that are left or for none, and the   *)
(* one return code, kept in two flags of which only an executed query clears*)
(* the first, says which: SQL_ERROR that no set was run, SQL_SUCCESS that   *)
(* none is missing but the ignored ones.                                   *)
SelectTruthful ==
    pc = "idle" /\ select /\ params =>
        /\ done \in {{}, 1..size \ (ignored \cup failed)}
        /\ rc = "SUCCESS" => failed = {} /\ done = 1..size \ ignored
        /\ rc = "SUCCESS_WITH_INFO" => done # {}
        /\ rc = "ERROR" => done = {}

(* The status of each set of a SELECT is the outcome of its conversion: a   *)
(* set said to have succeeded was run.                                     *)
SelectStatuses ==
    pc = "idle" /\ select /\ params =>
        \A i \in 1..size :
            status[i] \in {"SUCCESS", "SUCCESS_WITH_INFO"} => i \in done

(* SQLExecute "executes a prepared statement, using the current values of  *)
(* the parameter marker variables" (execute.cc): every text sent is the    *)
(* statement with one set in place, or SELECTs joined by UNION ALL.        *)
TextsAreStatements == \A k \in 1..Len(sent) : WellFormed(sent[k])

(* A text that is sent while no set has failed yet is such a statement.    *)
TextsUntilFailure ==
    [][failed = {} /\ Len(sent') > Len(sent) =>
           WellFormed(sent'[Len(sent')])]_vars

(* The set with status SQL_PARAM_ERROR is the one the diagnostic record is *)
(* about: the status is set "for last erroneous paramset so we have        *)
(* diagnostics for it" (execute.cc).                                       *)
ErrorHasItsDiagnostic ==
    pc = "idle" => \A i \in 1..size : status[i] = "ERROR" => diag = i

(* all_parameters_failed is "a flag indicating if all parameters failed"   *)
(* (execute.cc): SQLExecute does not report an error when no set failed.   *)
ErrorMeansFailure == pc = "idle" /\ rc = "ERROR" => failed # {}
=============================================================================
