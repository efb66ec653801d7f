------------------------------- MODULE Gateway ------------------------------
(* ExternalExecutionGateway of cydra/external_execution.py: one live        *)
(* process that owns the gateway, the durable store behind its callbacks,   *)
(* and crashes after which a fresh process builds a fresh gateway over the  *)
(* same store.                                                              *)
(*                                                                          *)
(* execute and reconcile_result are sequences of durable callbacks; each    *)
(* callback is one action, so that a crash or a raising callback can fall   *)
(* between any two.  A read of the state is part of the action it guards:   *)
(* a single process is the only writer.  A callback answers "done", or      *)
(* raises before its effect ("lost"; a raising get_execution_state inside   *)
(* _state looks the same) or after it ("late").                             *)
EXTENDS LifecycleTable, Naturals

CONSTANTS
    Requests,          \* digests of authorized, canonical execution requests
    Outcomes,          \* outcomes of results bound to their request
    Adapters,          \* adapter names
    AdapterOf,         \* the adapter each request names
    NoRequest,         \* no call in flight
    NoReceipt,         \* no result at hand, no durable receipt
    Faults,            \* how a durable callback may misbehave
    CanCrash,          \* the process may die between two steps
    DurableState,      \* set_execution_state and get_execution_state are given
    PersistMarksState, \* persist_request itself records PERSISTED
    ReconcileTargets   \* terminal_state arguments the operator uses

ASSUME GatewayAssumption ==
    /\ AdapterOf \in [Requests -> Adapters]
    /\ NoRequest \notin Requests
    /\ NoReceipt \notin Outcomes
    /\ Faults \subseteq {"lost", "late"}
    /\ CanCrash \in BOOLEAN
    /\ DurableState \in BOOLEAN
    /\ PersistMarksState \in BOOLEAN
    /\ PersistMarksState => DurableState
    /\ ReconcileTargets \subseteq Terminal

VARIABLES
    \* durable
    stored,      \* requests whose canonical form was persisted
    state,       \* lifecycle state in the store
    receipt,     \* receipt in the store
    \* memory of the live process
    local,       \* _local_states
    executed,    \* _executed_digests
    registered,  \* names in _adapters
    pc,          \* step of the call in flight
    req,         \* its request
    result,      \* its result
    target,      \* the terminal state it aims at
    \* history
    runs         \* times the adapter ran the request, counted up to 2

durable == <<stored, state, receipt>>
memory == <<local, executed, registered>>
call == <<pc, req, result, target>>
vars == <<durable, memory, call, runs>>

ExecuteSteps == {"persist_request", "mark_persisted", "start", "call_adapter",
                 "mark_failure", "mark_unrecorded", "persist_result",
                 "record", "complete"}
ReconcileSteps == {"reconcile_persist", "reconcile_state"}

Replies == {"done"} \cup Faults
StateReplies == IF DurableState THEN Replies ELSE {"done"}

TypeOK ==
    /\ stored \subseteq Requests
    /\ state \in [Requests -> States]
    /\ receipt \in [Requests -> Outcomes \cup {NoReceipt}]
    /\ local \in [Requests -> States]
    /\ executed \subseteq Requests
    /\ registered \subseteq Adapters
    /\ pc \in {"idle"} \cup ExecuteSteps \cup ReconcileSteps
    /\ req \in IF pc = "idle" THEN {NoRequest} ELSE Requests
    /\ result \in IF pc \in {"persist_result"} \cup ReconcileSteps
                  THEN Outcomes ELSE Outcomes \cup {NoReceipt}
    /\ target \in Terminal
    /\ runs \in [Requests -> 0..2]

Init ==
    /\ stored = {}
    /\ state = [r \in Requests |-> "ABSENT"]
    /\ receipt = [r \in Requests |-> NoReceipt]
    /\ local = [r \in Requests |-> "ABSENT"]
    /\ executed = {}
    /\ registered = {}
    /\ pc = "idle"
    /\ req = NoRequest
    /\ result = NoReceipt
    /\ target = "COMPLETED"
    /\ runs = [r \in Requests |-> 0]

-----------------------------------------------------------------------------
(* Reading and writing the lifecycle state *)

\* _current_state: the durable state wins over the memory of this process.
Current(r) == IF state[r] # "ABSENT" THEN state[r] ELSE local[r]

\* A write of the store and of the memory.
WriteState(s, inStore, inMemory) ==
    /\ state' = IF inStore THEN [state EXCEPT ![req] = s] ELSE state
    /\ local' = IF inMemory THEN [local EXCEPT ![req] = s] ELSE local

\* The write of the store took effect.
Written(s, f) == Legal(Current(req), s) /\ DurableState /\ f # "lost"

\* _state returned instead of raising.
Returns(s, f) == Legal(Current(req), s) /\ f = "done"

\* Slip: the memory is written before the store.
SetState_MemoryFirst(s, f) ==
    WriteState(s, Written(s, f), Legal(Current(req), s))

\* _state: the table is checked, then the store written, then the memory.
SetState(s, f) == WriteState(s, Written(s, f), Returns(s, f))

\* _mark_failure and _mark_unrecorded: when _state raises, memory alone says so.
SetStateOrMemory(s, f) == WriteState(s, Written(s, f), TRUE)

Continue(step) == pc' = step /\ UNCHANGED <<req, result, target>>

\* Slip: a finished call leaves its request behind.
Finish_KeepsRequest == /\ pc' = "idle"
                       /\ result' = NoReceipt
                       /\ target' = "COMPLETED"
                       /\ UNCHANGED req

\* The call returned to, or raised at, its caller.
Finish == /\ pc' = "idle"
          /\ req' = NoRequest
          /\ result' = NoReceipt
          /\ target' = "COMPLETED"

ContinueOrFinish(ok, step) == IF ok THEN Continue(step) ELSE Finish

-----------------------------------------------------------------------------
(* register and execute *)

Register(n) ==
    /\ pc = "idle"
    /\ n \notin registered
    /\ registered' = registered \cup {n}
    /\ UNCHANGED <<durable, local, executed, call, runs>>

\* execute up to its first effect.
Execute(r) ==
    /\ pc = "idle"
    /\ r \notin executed
    /\ Current(r) \in {"ABSENT", "PERSISTED"}
    /\ pc' = "persist_request"
    /\ req' = r
    /\ UNCHANGED <<durable, memory, result, target, runs>>

PersistThen(f, proceeds) ==
    /\ pc = "persist_request"
    /\ stored' = IF f = "lost" THEN stored ELSE stored \cup {req}
    /\ state' = IF PersistMarksState /\ f # "lost"
                THEN [state EXCEPT ![req] = "PERSISTED"] ELSE state
    /\ LET fresh == ~PersistMarksState /\ Current(req) = "ABSENT" IN
       ContinueOrFinish(proceeds, IF fresh THEN "mark_persisted" ELSE "start")
    /\ UNCHANGED <<receipt, memory, runs>>

\* Slip: a failing persist_request is logged and execution goes on.
PersistRequest_Swallowed(f) == PersistThen(f, TRUE)

PersistRequest(f) == PersistThen(f, f = "done")

MarkPersisted(f) ==
    /\ pc = "mark_persisted"
    /\ SetState("PERSISTED", f)
    /\ ContinueOrFinish(Returns("PERSISTED", f), "start")
    /\ UNCHANGED <<stored, receipt, executed, registered, runs>>

StartThen(f, proceeds) ==
    /\ pc = "start"
    /\ SetState("RUNNING", f)
    /\ ContinueOrFinish(proceeds, "call_adapter")
    /\ UNCHANGED <<stored, receipt, executed, registered, runs>>

\* Slip: the adapter is called even when RUNNING could not be recorded.
Start_Swallowed(f) == StartThen(f, TRUE)

Start(f) == StartThen(f, Returns("RUNNING", f))

\* The adapter is looked up only now: the KeyError leaves RUNNING behind.
AdapterMissing ==
    /\ pc = "call_adapter"
    /\ AdapterOf[req] \notin registered
    /\ Finish
    /\ UNCHANGED <<durable, memory, runs>>

Ran == /\ pc = "call_adapter"
       /\ AdapterOf[req] \in registered
       /\ runs' = [runs EXCEPT ![req] = IF @ = 0 THEN 1 ELSE 2]
       /\ UNCHANGED <<durable, memory>>

\* The adapter returned a result that validate_result_binding accepts.
AdapterReturns(o) ==
    /\ Ran
    /\ pc' = "persist_result"
    /\ result' = o
    /\ UNCHANGED <<req, target>>

AdapterRaises == Ran /\ Continue("mark_failure")

\* The adapter returned a result bound to something else, or malformed.
AdapterMismatches == Ran /\ Continue("mark_unrecorded")

MarkFailure(f) ==
    /\ pc = "mark_failure"
    /\ SetStateOrMemory("FAILED", f)
    /\ Finish
    /\ UNCHANGED <<stored, receipt, executed, registered, runs>>

MarkUnrecorded(f) ==
    /\ pc = "mark_unrecorded"
    /\ SetStateOrMemory("OUTCOME_UNRECORDED", f)
    /\ Finish
    /\ UNCHANGED <<stored, receipt, executed, registered, runs>>

StoreResult(f, step) ==
    /\ pc = "persist_result"
    /\ receipt' = IF f = "lost" THEN receipt
                  ELSE [receipt EXCEPT ![req] = result]
    /\ Continue(step)
    /\ UNCHANGED <<stored, state, memory, runs>>

\* Slip: a failing persist_result does not stop the completion.
PersistResult_Swallowed(f) == StoreResult(f, "record")

PersistResult(f) ==
    StoreResult(f, IF f = "done" THEN "record" ELSE "mark_unrecorded")

Record(f) ==
    /\ pc = "record"
    /\ SetState("RESULT_RECORDED", f)
    /\ Continue(IF Returns("RESULT_RECORDED", f)
                THEN "complete" ELSE "mark_unrecorded")
    /\ UNCHANGED <<stored, receipt, executed, registered, runs>>

CompleteWith(f, barrier) ==
    /\ pc = "complete"
    /\ SetState("COMPLETED", f)
    /\ executed' = IF barrier THEN executed \cup {req} ELSE executed
    /\ IF Returns("COMPLETED", f) THEN Finish ELSE Continue("mark_unrecorded")
    /\ UNCHANGED <<stored, receipt, registered, runs>>

\* Slip: the replay barrier is raised before the completion is recorded.
Complete_EarlyBarrier(f) == CompleteWith(f, TRUE)

Complete(f) == CompleteWith(f, Returns("COMPLETED", f))

-----------------------------------------------------------------------------
(* reconcile_result *)

ReconcileFrom(open, r, o, t) ==
    /\ pc = "idle"
    /\ Current(r) \in open
    /\ pc' = "reconcile_persist"
    /\ req' = r
    /\ result' = o
    /\ target' = t
    /\ UNCHANGED <<durable, memory, runs>>

\* Slip: a settled request may be reconciled again.
Reconcile_Settled(r, o, t) == ReconcileFrom(Unsettled \cup Terminal, r, o, t)

\* Slip: only OUTCOME_UNRECORDED can be reconciled.
Reconcile_UnrecordedOnly(r, o, t) ==
    ReconcileFrom({"OUTCOME_UNRECORDED"}, r, o, t)

\* The operator brings a bound result for a request whose outcome is open.
Reconcile(r, o, t) == ReconcileFrom(Unsettled, r, o, t)

ReconcilePersist(f) ==
    /\ pc = "reconcile_persist"
    /\ receipt' = IF f = "lost" THEN receipt
                  ELSE [receipt EXCEPT ![req] = result]
    /\ ContinueOrFinish(f = "done", "reconcile_state")
    /\ UNCHANGED <<stored, state, memory, runs>>

ReconcileState(f) ==
    /\ pc = "reconcile_state"
    /\ SetState(target, f)
    /\ executed' = IF Returns(target, f) THEN executed \cup {req} ELSE executed
    /\ Finish
    /\ UNCHANGED <<stored, receipt, registered, runs>>

-----------------------------------------------------------------------------

\* The process dies; a fresh one starts over the same store.
Crash ==
    /\ CanCrash
    /\ local' = [r \in Requests |-> "ABSENT"]
    /\ executed' = {}
    /\ registered' = {}
    /\ Finish
    /\ UNCHANGED <<durable, runs>>

ExecuteStep ==
    \/ \E f \in Replies : PersistRequest(f) \/ PersistResult(f)
    \/ \E f \in StateReplies : \/ MarkPersisted(f) \/ Start(f)
                               \/ MarkFailure(f) \/ MarkUnrecorded(f)
                               \/ Record(f) \/ Complete(f)
    \/ AdapterMissing
    \/ \E o \in Outcomes : AdapterReturns(o)
    \/ AdapterRaises
    \/ AdapterMismatches

ReconcileStep ==
    \/ \E f \in Replies : ReconcilePersist(f)
    \/ \E f \in StateReplies : ReconcileState(f)

Next ==
    \/ \E n \in Adapters : Register(n)
    \/ \E r \in Requests : Execute(r)
    \/ ExecuteStep
    \/ \E r \in Requests, o \in Outcomes, t \in ReconcileTargets :
           Reconcile(r, o, t)
    \/ ReconcileStep
    \/ Crash

Spec == Init /\ [][Next]_vars

-----------------------------------------------------------------------------
(* Fairness.  A call in flight runs on: Python leaves no step half-way but  *)
(* by dying.  The operator keeps bringing the result of a request whose     *)
(* outcome is open, and the store does not fail every attempt.              *)

OperatorRetries(r) ==
    /\ SF_vars(\E o \in Outcomes : Reconcile(r, o, "COMPLETED"))
    /\ SF_vars(req = r /\ target = "COMPLETED" /\ ReconcilePersist("done"))
    /\ SF_vars(req = r /\ target = "COMPLETED" /\ ReconcileState("done"))

Fairness == /\ WF_vars(ExecuteStep)
            /\ WF_vars(ReconcileStep)
            /\ \A r \in Requests : OperatorRetries(r)

FairSpec == Spec /\ Fairness

-----------------------------------------------------------------------------
(* Properties *)

\* The store is enough to tell, after any crash, what must not run again:
\* either the state is durable or the process that remembers it lives.
Remembered == DurableState \/ ~CanCrash

\* Replay barrier of execute: whatever fails or crashes between two of its
\* callbacks, the adapter runs a request at most once, over all processes.
AtMostOnce == Remembered => \A r \in Requests : runs[r] <= 1

\* persist_result comes before RESULT_RECORDED and COMPLETED on every path of
\* execute and reconcile_result: a completed request has its durable receipt.
CompletionHasReceipt ==
    \A r \in Requests :
        Current(r) \in {"RESULT_RECORDED", "COMPLETED"} => receipt[r] # NoReceipt

\* Durable evidence has a lineage: a receipt is of a request that ran, and a
\* request ran only after its canonical form was durable and execute had moved
\* it past PERSISTED, so no reader of the store takes it for a mere plan.
EvidenceLineage ==
    Remembered =>
        \A r \in Requests :
            /\ receipt[r] # NoReceipt => runs[r] > 0
            /\ runs[r] > 0 => /\ r \in stored
                              /\ Current(r) \notin {"ABSENT", "PERSISTED"}

\* _executed_digests never blocks a request whose outcome is still open: the
\* memory-only barrier agrees with the lifecycle state execute also consults.
ExecutedAreTerminal == \A r \in executed : Current(r) \in Terminal

\* The memory of the process never claims a completion that the store, which
\* the next process will read, does not have (_state writes the store first).
MemoryNeverOverclaims ==
    DurableState => \A r \in Requests :
                        local[r] = "COMPLETED" => state[r] = "COMPLETED"

\* Readers of the store see the promised lifecycle, and settled evidence that
\* never changes: execute and reconcile_result implement Lifecycle.
Abstract == INSTANCE Lifecycle WITH state <- state, receipt <- receipt
ImplementsLifecycle == Abstract!Spec

\* A request whose outcome is open is settled in the end when the operator
\* keeps reconciling it (reconcile_result), through crashes and store faults.
OpenOutcomesSettle ==
    \A r \in Requests : state[r] \in Unsettled ~> state[r] \in Terminal

\* execute's own words for RUNNING are "in-flight": with no call in flight, no
\* crash and no fault, no request is left RUNNING.
NothingLeftRunning ==
    pc = "idle" => \A r \in Requests : Current(r) # "RUNNING"

\* reconcile_result whose guards passed and whose callbacks succeed has stored
\* the operator's receipt and leaves the request in the state it was asked for,
\* but for one case: a recorded result cannot be failed, which only the table
\* says, and says after the receipt was replaced.
OnlyRecordedFailureRefused ==
    [][ReconcileState("done") =>
        /\ receipt[req] = result
        /\ state'[req] = target
           <=> ~(Current(req) = "RESULT_RECORDED" /\ target = "FAILED")]_vars
=============================================================================
