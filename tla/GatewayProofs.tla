---------------------------- MODULE GatewayProofs ---------------------------
(* Theorems about Gateway, for every set of requests, outcomes and          *)
(* adapters, every combination of faults, with and without crashes, and     *)
(* with and without durable state callbacks.                                *)
EXTENDS Gateway, TLAPS

-----------------------------------------------------------------------------
(* The inductive invariant *)

\* Without durable state callbacks the store stays silent; with them the
\* memory never speaks for a request the store does not know.
StoreLeads ==
    \A r \in Requests :
        /\ ~DurableState => state[r] = "ABSENT"
        /\ DurableState /\ state[r] = "ABSENT" => local[r] = "ABSENT"

\* What each step of a call knows of the request in flight.
CallShape ==
    /\ pc = "persist_request" => Current(req) \in {"ABSENT", "PERSISTED"}
    /\ pc = "mark_persisted" => Current(req) = "ABSENT"
    /\ pc = "start" => Current(req) = "PERSISTED"
    /\ pc \in {"call_adapter", "mark_failure", "persist_result", "record"}
          => Current(req) = "RUNNING"
    /\ pc = "complete" => Current(req) = "RESULT_RECORDED"
    /\ pc = "mark_unrecorded" =>
          \/ Current(req) \in {"RUNNING", "RESULT_RECORDED"}
          \/ DurableState /\ Current(req) = "COMPLETED"
    /\ pc \in ReconcileSteps => Current(req) \in Unsettled
    /\ pc \in {"record", "complete", "reconcile_state"} => receipt[req] # NoReceipt
    /\ pc = "reconcile_state" => receipt[req] = result

\* Before the adapter is called the request has not run; after, it has.
CallRuns ==
    /\ pc \in {"persist_request", "mark_persisted", "start", "call_adapter"}
          => runs[req] = 0
    /\ pc \in {"mark_failure", "mark_unrecorded", "persist_result",
               "record", "complete"} => runs[req] = 1
    /\ pc \in {"mark_persisted", "start", "call_adapter"} => req \in stored

\* A request that is past RUNNING has run.
SettledRan ==
    \A r \in Requests :
        Current(r) \notin {"ABSENT", "PERSISTED", "RUNNING"} => runs[r] > 0

IInv == /\ TypeOK
        /\ StoreLeads
        /\ CallShape
        /\ CompletionHasReceipt
        /\ ExecutedAreTerminal
        /\ MemoryNeverOverclaims
        /\ Remembered => CallRuns /\ SettledRan
        /\ AtMostOnce
        /\ EvidenceLineage

-----------------------------------------------------------------------------
(* Facts about the table and about the current state *)

LEMMA LegalCases ==
    ASSUME NEW s, NEW t
    PROVE  Legal(s, t) <=>
              \/ s = "ABSENT" /\ t = "PERSISTED"
              \/ s = "PERSISTED" /\ t = "RUNNING"
              \/ s = "RUNNING" /\ t \in {"RESULT_RECORDED", "FAILED",
                                         "OUTCOME_UNRECORDED"}
              \/ s = "RESULT_RECORDED" /\ t \in {"COMPLETED",
                                                 "OUTCOME_UNRECORDED"}
              \/ s = "OUTCOME_UNRECORDED" /\ t \in {"COMPLETED", "FAILED"}
BY DEF Legal, Allowed

-----------------------------------------------------------------------------
(* Type correctness *)

LEMMA TypeInit == Init => TypeOK
BY GatewayAssumption
   DEF Init, TypeOK, States, Terminal, ExecuteSteps, ReconcileSteps

LEMMA TypeStep == TypeOK /\ [Next]_vars => TypeOK'
<1> SUFFICES ASSUME TypeOK, [Next]_vars PROVE TypeOK'
    OBVIOUS
<1> USE GatewayAssumption DEF TypeOK, States, Terminal, ExecuteSteps, ReconcileSteps
<1>1. ASSUME NEW n \in Adapters, Register(n) PROVE TypeOK'
    BY <1>1 DEF Register, durable, call
<1>2. ASSUME NEW r \in Requests, Execute(r) PROVE TypeOK'
    BY <1>2 DEF Execute, durable, memory
<1>3. ASSUME NEW f, PersistRequest(f) PROVE TypeOK'
    BY <1>3 DEF PersistRequest, PersistThen, memory, ContinueOrFinish,
                Continue, Finish
<1>4. ASSUME NEW f, MarkPersisted(f) PROVE TypeOK'
    BY <1>4 DEF MarkPersisted, SetState, WriteState, Written, Returns,
                ContinueOrFinish, Continue, Finish
<1>5. ASSUME NEW f, Start(f) PROVE TypeOK'
    BY <1>5 DEF Start, StartThen, SetState, WriteState, Written, Returns,
                ContinueOrFinish, Continue, Finish
<1>6. CASE AdapterMissing
    BY <1>6 DEF AdapterMissing, durable, memory, Finish
<1>7. ASSUME NEW o \in Outcomes, AdapterReturns(o) PROVE TypeOK'
    BY <1>7 DEF AdapterReturns, Ran, durable, memory
<1>8. CASE AdapterRaises
    BY <1>8 DEF AdapterRaises, Ran, durable, memory, Continue
<1>9. CASE AdapterMismatches
    BY <1>9 DEF AdapterMismatches, Ran, durable, memory, Continue
<1>10. ASSUME NEW f, MarkFailure(f) PROVE TypeOK'
    BY <1>10 DEF MarkFailure, SetStateOrMemory, WriteState, Written, Finish
<1>11. ASSUME NEW f, MarkUnrecorded(f) PROVE TypeOK'
    BY <1>11 DEF MarkUnrecorded, SetStateOrMemory, WriteState, Written, Finish
<1>12. ASSUME NEW f, PersistResult(f) PROVE TypeOK'
    BY <1>12 DEF PersistResult, StoreResult, memory, Continue
<1>13. ASSUME NEW f, Record(f) PROVE TypeOK'
    BY <1>13 DEF Record, SetState, WriteState, Written, Returns, Continue
<1>14. ASSUME NEW f, Complete(f) PROVE TypeOK'
    BY <1>14 DEF Complete, CompleteWith, SetState, WriteState, Written,
                 Returns, Continue, Finish
<1>15. ASSUME NEW r \in Requests, NEW o \in Outcomes, NEW t \in ReconcileTargets,
              Reconcile(r, o, t)
       PROVE  TypeOK'
    BY <1>15 DEF Reconcile, ReconcileFrom, durable, memory
<1>16. ASSUME NEW f, ReconcilePersist(f) PROVE TypeOK'
    BY <1>16 DEF ReconcilePersist, memory, ContinueOrFinish, Continue, Finish
<1>17. ASSUME NEW f, ReconcileState(f) PROVE TypeOK'
    BY <1>17 DEF ReconcileState, SetState, WriteState, Written, Returns, Finish
<1>18. CASE Crash
    BY <1>18 DEF Crash, durable, Finish
<1>19. CASE UNCHANGED vars
    BY <1>19 DEF vars, durable, memory, call
<1> HIDE DEF TypeOK
<1>20. QED
    BY <1>1, <1>2, <1>3, <1>4, <1>5, <1>6, <1>7, <1>8, <1>9, <1>10, <1>11,
       <1>12, <1>13, <1>14, <1>15, <1>16, <1>17, <1>18, <1>19
       DEF Next, ExecuteStep, ReconcileStep

\* TypeOK, for every value of the constants.
THEOREM TypeCorrect == Spec => []TypeOK
BY TypeInit, TypeStep, PTL DEF Spec

-----------------------------------------------------------------------------
(* The inductive invariant *)

LEMMA InvInit == Init => IInv
BY TypeInit, GatewayAssumption
   DEF Init, IInv, StoreLeads, CallShape, CallRuns, SettledRan, Current,
       CompletionHasReceipt, ExecutedAreTerminal, MemoryNeverOverclaims,
       AtMostOnce, EvidenceLineage, ReconcileSteps

LEMMA InvStep == IInv /\ [Next]_vars => IInv'
<1> SUFFICES ASSUME IInv, [Next]_vars PROVE IInv'
    OBVIOUS
<1>0. TypeOK /\ TypeOK'
    BY TypeStep DEF IInv
<1> USE <1>0, GatewayAssumption
    DEF IInv, StoreLeads, CallShape, CallRuns, SettledRan, Current, TypeOK,
        States, Terminal, Unsettled, ExecuteSteps, ReconcileSteps, Remembered,
        CompletionHasReceipt, ExecutedAreTerminal, MemoryNeverOverclaims,
        AtMostOnce, EvidenceLineage, StateReplies
<1>1. ASSUME NEW n \in Adapters, Register(n) PROVE IInv'
    BY <1>1 DEF Register, durable, call
<1>2. ASSUME NEW r \in Requests, Execute(r) PROVE IInv'
    BY <1>2 DEF Execute, durable, memory
<1>3. ASSUME NEW f, PersistRequest(f) PROVE IInv'
    BY <1>3 DEF PersistRequest, PersistThen, memory,
                            ContinueOrFinish, Continue,
                            Finish
<1>4. ASSUME NEW f \in StateReplies, MarkPersisted(f) PROVE IInv'
    BY <1>4, LegalCases DEF MarkPersisted, SetState, WriteState, Written,
                            Returns, ContinueOrFinish,
                            Continue, Finish
<1>5. ASSUME NEW f \in StateReplies, Start(f) PROVE IInv'
    BY <1>5, LegalCases DEF Start, StartThen, SetState, WriteState, Written,
                            Returns, ContinueOrFinish,
                            Continue, Finish
<1>6. CASE AdapterMissing
    BY <1>6 DEF AdapterMissing, durable, memory, Finish
<1>7. ASSUME NEW o \in Outcomes, AdapterReturns(o) PROVE IInv'
    BY <1>7 DEF AdapterReturns, Ran, durable, memory
<1>8. CASE AdapterRaises
    BY <1>8 DEF AdapterRaises, Ran, durable, memory, Continue
<1>9. CASE AdapterMismatches
    BY <1>9 DEF AdapterMismatches, Ran, durable, memory, Continue
<1>10. ASSUME NEW f \in StateReplies, MarkFailure(f) PROVE IInv'
    BY <1>10, LegalCases DEF MarkFailure, SetStateOrMemory, WriteState,
                             Written, Finish
<1>11. ASSUME NEW f \in StateReplies, MarkUnrecorded(f) PROVE IInv'
    BY <1>11, LegalCases DEF MarkUnrecorded, SetStateOrMemory, WriteState,
                             Written, Finish
<1>12. ASSUME NEW f, PersistResult(f) PROVE IInv'
    BY <1>12 DEF PersistResult, StoreResult, memory, Continue
<1>13. ASSUME NEW f \in StateReplies, Record(f) PROVE IInv'
    BY <1>13, LegalCases DEF Record, SetState, WriteState, Written, Returns,
                             Continue
<1>14. ASSUME NEW f \in StateReplies, Complete(f) PROVE IInv'
    BY <1>14, LegalCases DEF Complete, CompleteWith, SetState, WriteState,
                             Written, Returns,
                             Continue, Finish
<1>15. ASSUME NEW r \in Requests, NEW o \in Outcomes, NEW t \in ReconcileTargets,
              Reconcile(r, o, t) PROVE IInv'
    BY <1>15 DEF Reconcile, ReconcileFrom, durable, memory
<1>16. ASSUME NEW f, ReconcilePersist(f) PROVE IInv'
    BY <1>16 DEF ReconcilePersist, memory, ContinueOrFinish, Continue, Finish
<1>17. ASSUME NEW f \in StateReplies, ReconcileState(f) PROVE IInv'
    BY <1>17, LegalCases DEF ReconcileState, SetState, WriteState, Written,
                             Returns, Finish
<1>18. CASE Crash
    BY <1>18 DEF Crash, durable, Finish
<1>19. CASE UNCHANGED vars
    BY <1>19 DEF vars, durable, memory, call
<1> HIDE DEF IInv, StoreLeads, CallShape, CallRuns, SettledRan, Current, TypeOK,
        Remembered, CompletionHasReceipt, ExecutedAreTerminal,
        MemoryNeverOverclaims, AtMostOnce, EvidenceLineage, StateReplies
<1>20. QED
    BY <1>1, <1>2, <1>3, <1>4, <1>5, <1>6, <1>7, <1>8, <1>9, <1>10, <1>11,
       <1>12, <1>13, <1>14, <1>15, <1>16, <1>17, <1>18, <1>19
       DEF Next, ExecuteStep, ReconcileStep

THEOREM InvariantHolds == Spec => []IInv
BY InvInit, InvStep, PTL DEF Spec

\* The adapter runs a request at most once over all processes, as long as the
\* state callbacks are durable or no process dies.
THEOREM ReplayBarrier == Spec => []AtMostOnce
<1>1. IInv => AtMostOnce
    BY DEF IInv
<1>2. QED
    BY <1>1, InvariantHolds, PTL

\* A recorded or completed request has its durable receipt.
THEOREM CompletionNeedsReceipt == Spec => []CompletionHasReceipt
<1>1. IInv => CompletionHasReceipt
    BY DEF IInv
<1>2. QED
    BY <1>1, InvariantHolds, PTL

\* Receipts are of requests that ran, and what ran is durable and no mere plan.
THEOREM LineageHolds == Spec => []EvidenceLineage
<1>1. IInv => EvidenceLineage
    BY DEF IInv
<1>2. QED
    BY <1>1, InvariantHolds, PTL

\* The replay barrier of a process names settled requests only.
THEOREM BarrierIsTerminal == Spec => []ExecutedAreTerminal
<1>1. IInv => ExecutedAreTerminal
    BY DEF IInv
<1>2. QED
    BY <1>1, InvariantHolds, PTL

\* A process claims no completion that the processes after it will not read.
THEOREM MemoryFollowsStore == Spec => []MemoryNeverOverclaims
<1>1. IInv => MemoryNeverOverclaims
    BY DEF IInv
<1>2. QED
    BY <1>1, InvariantHolds, PTL

\* reconcile_result takes effect but for a recorded result that is to fail.
THEOREM ReconcileEndsAsAsked ==
    ASSUME DurableState
    PROVE  Spec => OnlyRecordedFailureRefused
<1> DEFINE Ends == /\ receipt[req] = result
                   /\ state'[req] = target
                      <=> ~(Current(req) = "RESULT_RECORDED" /\ target = "FAILED")
<1>1. ASSUME IInv, ReconcileState("done")
      PROVE  Ends
  <2>1. /\ pc = "reconcile_state"
        /\ WriteState(target, Written(target, "done"), Returns(target, "done"))
      BY <1>1 DEF ReconcileState, SetState
  <2>2. /\ Current(req) \in Unsettled /\ receipt[req] = result
        /\ req \in Requests /\ target \in Terminal
        /\ state \in [Requests -> States]
      BY <1>1, <2>1 DEF IInv, TypeOK, CallShape, ReconcileSteps
  <2>3. Written(target, "done") <=>
            ~(Current(req) = "RESULT_RECORDED" /\ target = "FAILED")
      BY <2>2, LegalCases DEF Written, Terminal, Unsettled
  <2>4. CASE Written(target, "done")
      BY <2>1, <2>2, <2>3, <2>4 DEF WriteState
  <2>5. CASE ~Written(target, "done")
    <3>1. state' = state
        BY <2>1, <2>5 DEF WriteState
    <3>2. state[req] \notin Terminal
        BY <2>2 DEF Current, Unsettled, Terminal
    <3>3. QED
        BY <2>2, <2>3, <2>5, <3>1, <3>2
  <2>6. QED
      BY <2>4, <2>5
<1>2. IInv => [ReconcileState("done") => Ends]_vars
    BY <1>1
<1>3. QED
    BY <1>2, InvariantHolds, PTL DEF OnlyRecordedFailureRefused

-----------------------------------------------------------------------------
(* The gateway implements the lifecycle it promises *)

LEMMA AbstractInit == Init => Abstract!Init
BY DEF Init, Abstract!Init

\* A durable write of the lifecycle state, on a legal transition whose receipt
\* is there when it must be, is an abstract Advance.
LEMMA WriteIsAdvance ==
    ASSUME TypeOK, NEW r \in Requests, NEW s \in States, Legal(state[r], s),
           s \in {"RESULT_RECORDED", "COMPLETED"} => receipt[r] # NoReceipt,
           state' = [state EXCEPT ![r] = s], receipt' = receipt
    PROVE  Abstract!Next
BY DEF Abstract!Next, Abstract!Advance, Abstract!Legal, Abstract!Allowed,
       Abstract!States, Legal, Allowed, States

\* A durable write of a receipt whose outcome is open is an abstract
\* StoreReceipt.
LEMMA WriteIsStore ==
    ASSUME TypeOK, NEW r \in Requests, NEW o \in Outcomes,
           state[r] \in {"RUNNING"} \cup Unsettled,
           receipt' = [receipt EXCEPT ![r] = o], state' = state
    PROVE  Abstract!Next
BY DEF Abstract!Next, Abstract!StoreReceipt, Abstract!Unsettled, Unsettled

LEMMA AbstractStep ==
    ASSUME DurableState, IInv, [Next]_vars
    PROVE  [Abstract!Next]_(Abstract!vars)
<1> DEFINE Quiet == state' = state /\ receipt' = receipt
<1>a. TypeOK /\ \A r \in Requests : Current(r) = state[r]
    BY DEF IInv, StoreLeads, Current
<1>q. ASSUME Quiet PROVE [Abstract!Next]_(Abstract!vars)
    BY <1>q DEF Abstract!vars
<1>s. ASSUME NEW s \in States \ {"ABSENT"}, NEW f, pc # "idle",
             \/ SetState(s, f)
             \/ SetStateOrMemory(s, f),
             s \in {"RESULT_RECORDED", "COMPLETED"} => receipt[req] # NoReceipt,
             receipt' = receipt
      PROVE  [Abstract!Next]_(Abstract!vars)
  <2>1. req \in Requests /\ Current(req) = state[req]
      BY <1>a, <1>s DEF TypeOK
  <2>2. CASE Legal(state[req], s) /\ state' = [state EXCEPT ![req] = s]
      BY <1>a, <1>s, <2>1, <2>2, WriteIsAdvance
  <2>3. CASE state' = state
      BY <1>q, <1>s, <2>3
  <2>4. QED
      BY <1>s, <2>1, <2>2, <2>3 DEF SetState, WriteState, Written, Returns,
                                    SetStateOrMemory
<1>r. ASSUME pc \in {"persist_result", "reconcile_persist"},
             \/ receipt' = receipt
             \/ receipt' = [receipt EXCEPT ![req] = result],
             state' = state
      PROVE  [Abstract!Next]_(Abstract!vars)
  <2>1. /\ req \in Requests
        /\ result \in Outcomes
        /\ state[req] \in {"RUNNING"} \cup Unsettled
      BY <1>a, <1>r DEF IInv, TypeOK, CallShape, ReconcileSteps
  <2>2. QED
      BY <1>a, <1>q, <1>r, <2>1, WriteIsStore
<1>1. ASSUME NEW n \in Adapters, Register(n) PROVE Quiet
    BY <1>1 DEF Register, durable
<1>2. ASSUME NEW r \in Requests, Execute(r) PROVE Quiet
    BY <1>2 DEF Execute, durable
<1>3. ASSUME NEW f, PersistRequest(f) PROVE [Abstract!Next]_(Abstract!vars)
  <2>1. /\ req \in Requests
        /\ state[req] \in {"ABSENT", "PERSISTED"}
        /\ receipt' = receipt
        /\ state' = state \/ state' = [state EXCEPT ![req] = "PERSISTED"]
      BY <1>3, <1>a DEF PersistRequest, PersistThen, IInv, TypeOK, CallShape
  <2>2. CASE state[req] = "ABSENT" /\ state' = [state EXCEPT ![req] = "PERSISTED"]
      BY <1>a, <2>1, <2>2, LegalCases, WriteIsAdvance DEF States
  <2>3. CASE state[req] = "PERSISTED" \/ state' = state
      BY <1>a, <1>q, <2>1, <2>3 DEF TypeOK
  <2>4. QED
      BY <2>1, <2>2, <2>3
<1>4. ASSUME NEW f, MarkPersisted(f) PROVE [Abstract!Next]_(Abstract!vars)
    BY <1>4, <1>s DEF MarkPersisted, States
<1>5. ASSUME NEW f, Start(f) PROVE [Abstract!Next]_(Abstract!vars)
    BY <1>5, <1>s DEF Start, StartThen, States
<1>6. CASE AdapterMissing
    BY <1>6, <1>q DEF AdapterMissing, durable
<1>7. ASSUME NEW o \in Outcomes, AdapterReturns(o) PROVE Quiet
    BY <1>7 DEF AdapterReturns, Ran, durable
<1>8. CASE AdapterRaises
    BY <1>8, <1>q DEF AdapterRaises, Ran, durable
<1>9. CASE AdapterMismatches
    BY <1>9, <1>q DEF AdapterMismatches, Ran, durable
<1>10. ASSUME NEW f, MarkFailure(f) PROVE [Abstract!Next]_(Abstract!vars)
    BY <1>10, <1>s DEF MarkFailure, States
<1>11. ASSUME NEW f, MarkUnrecorded(f) PROVE [Abstract!Next]_(Abstract!vars)
    BY <1>11, <1>s DEF MarkUnrecorded, States
<1>12. ASSUME NEW f, PersistResult(f) PROVE [Abstract!Next]_(Abstract!vars)
    BY <1>12, <1>r DEF PersistResult, StoreResult
<1>13. ASSUME NEW f, Record(f) PROVE [Abstract!Next]_(Abstract!vars)
    BY <1>13, <1>s DEF Record, States, IInv, CallShape
<1>14. ASSUME NEW f, Complete(f) PROVE [Abstract!Next]_(Abstract!vars)
    BY <1>14, <1>s DEF Complete, CompleteWith, States, IInv, CallShape
<1>15. ASSUME NEW r \in Requests, NEW o \in Outcomes, NEW t \in ReconcileTargets,
              Reconcile(r, o, t)
       PROVE  Quiet
    BY <1>15 DEF Reconcile, ReconcileFrom, durable
<1>16. ASSUME NEW f, ReconcilePersist(f) PROVE [Abstract!Next]_(Abstract!vars)
    BY <1>16, <1>r DEF ReconcilePersist
<1>17. ASSUME NEW f, ReconcileState(f) PROVE [Abstract!Next]_(Abstract!vars)
  <2>1. target \in States \ {"ABSENT"} /\ receipt[req] # NoReceipt
      BY <1>17, <1>a DEF ReconcileState, TypeOK, Terminal, States, IInv, CallShape
  <2>2. QED
      BY <1>17, <1>s, <2>1 DEF ReconcileState
<1>18. CASE Crash
    BY <1>18, <1>q DEF Crash, durable
<1>19. CASE UNCHANGED vars
    BY <1>19, <1>q DEF vars, durable
<1>20. QED
    BY <1>q, <1>1, <1>2, <1>3, <1>4, <1>5, <1>6, <1>7, <1>8, <1>9, <1>10, <1>11,
       <1>12, <1>13, <1>14, <1>15, <1>16, <1>17, <1>18, <1>19
       DEF Next, ExecuteStep, ReconcileStep

\* Settled evidence is frozen: no step of the gateway changes the state or the
\* receipt of a request in a terminal state.
LEMMA SettledIsFrozen ==
    ASSUME DurableState, IInv, [Next]_vars, NEW r \in Requests,
           state[r] \in Terminal
    PROVE  state'[r] = state[r] /\ receipt'[r] = receipt[r]
<1>1. [Abstract!Next]_(Abstract!vars) /\ TypeOK
    BY AbstractStep DEF IInv
<1>2. ASSUME NEW q \in Requests, NEW s, Abstract!Advance(q, s)
      PROVE  q # r /\ state' = [state EXCEPT ![q] = s] /\ receipt' = receipt
    BY <1>2 DEF Abstract!Advance, Abstract!Legal, Abstract!Allowed, Terminal
<1>3. ASSUME NEW q \in Requests, NEW o, Abstract!StoreReceipt(q, o)
      PROVE  q # r /\ receipt' = [receipt EXCEPT ![q] = o] /\ state' = state
    BY <1>3 DEF Abstract!StoreReceipt, Abstract!Unsettled, Terminal
<1>4. QED
    BY <1>1, <1>2, <1>3 DEF Abstract!Next, Abstract!vars, TypeOK

\* With durable state callbacks the gateway implements Lifecycle: its store
\* advances along the table only, and settled evidence never changes.
THEOREM Refinement ==
    ASSUME DurableState
    PROVE  Spec => ImplementsLifecycle
<1>1. IInv /\ [Next]_vars => [Abstract!Next]_(Abstract!vars)
    BY AbstractStep
<1>2. QED
    BY <1>1, AbstractInit, InvariantHolds, PTL
       DEF Spec, ImplementsLifecycle, Abstract!Spec
=============================================================================
