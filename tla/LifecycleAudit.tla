---------------------------- MODULE LifecycleAudit --------------------------
(* validate_execution_lifecycle of cydra/execution_lifecycle.py, the        *)
(* independent validator of the durable execution history, run against the  *)
(* histories that Gateway writes.  The history is appended by the durable   *)
(* store behind the gateway's callbacks, which is not part of the           *)
(* repository: a callback that takes effect appends the one event it is     *)
(* named after.  The validator folds the events of each request in order;   *)
(* its fold is kept up to date here event by event.                         *)
EXTENDS Gateway

\* The validator moves to PERSISTED on the persistence event itself, so the
\* store it audits does too.
ASSUME AuditAssumption == DurableState /\ PersistMarksState

VARIABLES
    audit,      \* the validator's fold over the history of every request
    reconciled  \* history: requests whose receipt reconcile_result stored

auditVars == <<vars, audit, reconciled>>

Problems == {"persisted_late", "result_outside_running", "duplicate_receipt",
             "previous_state_mismatch", "illegal_transition",
             "recorded_without_receipt", "completed_without_receipt",
             "completion_not_completed", "completion_without_receipt",
             "completion_not_anchored"}

AuditTypeOK ==
    /\ TypeOK
    /\ audit \in [Requests -> [state : States, sawResult : BOOLEAN,
                               sawTerminal : BOOLEAN, errors : SUBSET Problems]]
    /\ reconciled \subseteq Requests

AuditInit ==
    /\ Init
    /\ audit = [r \in Requests |-> [state |-> "ABSENT", sawResult |-> FALSE,
                                    sawTerminal |-> FALSE, errors |-> {}]]
    /\ reconciled = {}

-----------------------------------------------------------------------------
(* The fold: what one event does to the validator's view a of its request *)

\* The problems of a list <<found, problem>> that were found.
Found(checks) == {c[2] : c \in {d \in checks : d[1]}}

\* Slip: the event's name is taken for the state.
SeePersisted_EventName(a) == [a EXCEPT !.state = "REQUEST_PERSISTED"]

\* EXECUTION_REQUEST_PERSISTED
SeePersisted(a) ==
    [a EXCEPT !.state = "PERSISTED",
              !.errors = @ \cup Found({
                <<a.state \notin {"ABSENT", "PERSISTED"}, "persisted_late">>})]

\* EXECUTION_RESULT_RECORDED
SeeResult(a) ==
    [a EXCEPT !.sawResult = TRUE,
              !.errors = @ \cup Found({
                <<a.state # "RUNNING", "result_outside_running">>,
                <<a.sawResult, "duplicate_receipt">>})]

\* Slip: the fold does not follow the last transition of a request.
SeeStateChanged_SkipsTerminal(a, previous, new) ==
    [a EXCEPT !.state = IF new \in Terminal THEN a.state ELSE new,
              !.sawTerminal = @ \/ new \in Terminal,
              !.errors = @ \cup Found({
                <<previous # a.state, "previous_state_mismatch">>,
                <<~Legal(a.state, new), "illegal_transition">>})]

\* EXECUTION_STATE_CHANGED
SeeStateChanged(a, previous, new) ==
    [a EXCEPT !.state = new,
              !.sawTerminal = @ \/ new \in Terminal,
              !.errors = @ \cup Found({
                <<previous # a.state, "previous_state_mismatch">>,
                <<~Legal(a.state, new), "illegal_transition">>,
                <<new = "RESULT_RECORDED" /\ ~a.sawResult,
                  "recorded_without_receipt">>,
                <<new = "COMPLETED" /\ ~a.sawResult,
                  "completed_without_receipt">>})]

\* EXTERNAL_EXECUTION_COMPLETED
SeeCompletion(a) ==
    [a EXCEPT !.errors = @ \cup Found({
                <<a.state # "COMPLETED", "completion_not_completed">>,
                <<~a.sawResult, "completion_without_receipt">>,
                <<~a.sawTerminal, "completion_not_anchored">>})]

\* The validator accepts request r: no problem in its history, and the state
\* the history reconstructs is the canonical one.
Accepts(r) == audit[r].errors = {} /\ audit[r].state = state[r]

-----------------------------------------------------------------------------
(* Gateway steps with the events they append *)

LogPersistRequest(f) ==
    /\ PersistRequest(f)
    /\ audit' = IF f = "lost" THEN audit ELSE [audit EXCEPT ![req] = SeePersisted(@)]
    /\ UNCHANGED reconciled

LogPersistResult(f) ==
    /\ PersistResult(f)
    /\ audit' = IF f = "lost" THEN audit ELSE [audit EXCEPT ![req] = SeeResult(@)]
    /\ UNCHANGED reconciled

LogReconcilePersist(f) ==
    /\ ReconcilePersist(f)
    /\ audit' = IF f = "lost" THEN audit ELSE [audit EXCEPT ![req] = SeeResult(@)]
    /\ reconciled' = IF f = "lost" THEN reconciled ELSE reconciled \cup {req}

\* A step that writes no receipt or request; it logs its transition, if any.
LogTransition ==
    /\ \E f \in StateReplies : \/ Start(f) \/ MarkFailure(f)
                               \/ MarkUnrecorded(f) \/ Record(f)
                               \/ Complete(f) \/ ReconcileState(f)
    /\ audit' = IF state' = state THEN audit
                ELSE [audit EXCEPT ![req] =
                        SeeStateChanged(@, state[req], state'[req])]
    /\ UNCHANGED reconciled

\* The caller of an execute that returned announces the completion.
LogCompletion(r) ==
    /\ r \in executed
    /\ local[r] = "COMPLETED"
    /\ audit' = [audit EXCEPT ![r] = SeeCompletion(@)]
    /\ UNCHANGED <<vars, reconciled>>

LogNothing ==
    /\ \/ \E n \in Adapters : Register(n)
       \/ \E r \in Requests : Execute(r)
       \/ AdapterMissing
       \/ \E o \in Outcomes : AdapterReturns(o)
       \/ AdapterRaises
       \/ AdapterMismatches
       \/ \E r \in Requests, o \in Outcomes, t \in ReconcileTargets :
              Reconcile(r, o, t)
       \/ Crash
    /\ UNCHANGED <<audit, reconciled>>

AuditNext ==
    \/ \E f \in Replies : \/ LogPersistRequest(f)
                          \/ LogPersistResult(f)
                          \/ LogReconcilePersist(f)
    \/ LogTransition
    \/ \E r \in Requests : LogCompletion(r)
    \/ LogNothing

AuditSpec == AuditInit /\ [][AuditNext]_auditVars

-----------------------------------------------------------------------------
(* Properties *)

\* Whatever crashes and store faults execute meets, the history it leaves is
\* one the independent validator accepts; and it rejects exactly the requests
\* whose receipt was stored by reconcile_result.
RejectedIffReconciled ==
    \A r \in Requests : Accepts(r) <=> r \notin reconciled

\* The lifecycle table of both files lets an uncertain outcome be completed or
\* failed later; the validator accepts such a history.
ReconciliationAccepted == \A r \in Requests : Accepts(r)
=============================================================================
