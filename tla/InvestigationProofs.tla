------------------------ MODULE InvestigationProofs -------------------------
(* Authority composed with the gateway: the composition is a gateway, so    *)
(* its theorems carry over; what runs checked was granted; a lease that is  *)
(* lost stops all but the execution in flight.                              *)
EXTENDS Investigation, GatewayProofs

\* Tokens and bindings go back to what was issued, and a call in flight is of a
\* request that the process knows.
Traced ==
    /\ tokens \subseteq granted
    /\ \A r \in Known : r.binding \in granted \cup {Unbound}
    /\ pc # "idle" => req \in Known
    /\ \A r \in Requests : under[r] \in granted \cup {Unbound}

\* What a request was checked against is what it carries.
Own == \A r \in Requests : under[r] \in {Unbound, r.binding}

\* Steps of execute before the adapter runs.
Early == {"persist_request", "mark_persisted", "start", "call_adapter"}

\* Once a stale run was made, none is on its way.
OneLate == late <= 1 /\ (late = 1 /\ pc \in Early => ~Stale(req))

AuthInv == AuthTypeOK /\ Traced /\ Own /\ OneLate

-----------------------------------------------------------------------------
(* The composition is a gateway *)

\* Every step of the composition is a step of the gateway or leaves it alone.
LEMMA GatewayStepOrStutter ==
    ASSUME AuthTypeOK, [AuthNext]_authVars
    PROVE  [Next]_vars
<1>0. Known \subseteq Requests
    BY DEF AuthTypeOK, TypeOK, Known
<1>1. CASE ControllerChanges
    BY <1>1 DEF ControllerChanges
<1>2. CASE AuthorizeStep
    BY <1>2 DEF AuthorizeStep, Observe, Issue, IssueFor, Bind, Reissue, Rebuild
<1>3. ASSUME NEW r \in Known, NEW t \in tokens, ExecuteBound(r, t)
      PROVE  Next
    BY <1>0, <1>3 DEF ExecuteBound, ExecuteWith, Begin, Next
<1>4. ASSUME NEW r \in Known, ExecuteUnchecked(r)
      PROVE  Next
    BY <1>0, <1>4 DEF ExecuteUnchecked, Begin, Next
<1>5. CASE GatewayStep
    BY <1>0, <1>5 DEF GatewayStep, Next
<1>6. CASE Restart
    BY <1>6 DEF Restart, Next
<1>7. CASE UNCHANGED authVars
    BY <1>7 DEF authVars
<1>8. QED
    BY <1>1, <1>2, <1>3, <1>4, <1>5, <1>6, <1>7 DEF AuthNext

\* What a step inside a call does to the call and to the store.
LEMMA WithinCall ==
    ASSUME TypeOK, ExecuteStep \/ ReconcileStep
    PROVE  /\ pc # "idle"
           /\ stored \subseteq stored' /\ stored' \subseteq stored \cup {req}
           /\ pc' # "idle" => req' = req
           /\ pc' \in Early => pc \in Early \ {"call_adapter"}
           /\ runs' # runs => pc = "call_adapter"
<1> USE DEF Early, TypeOK, ExecuteSteps, ReconcileSteps, ContinueOrFinish,
            Continue, Finish, durable, memory
<1>1. ASSUME NEW f, PersistRequest(f) \/ MarkPersisted(f) \/ Start(f)
      PROVE  /\ pc # "idle"
             /\ stored \subseteq stored' /\ stored' \subseteq stored \cup {req}
             /\ pc' # "idle" => req' = req
             /\ pc' \in Early => pc \in Early \ {"call_adapter"}
             /\ UNCHANGED runs
    BY <1>1 DEF PersistRequest, PersistThen, MarkPersisted, Start, StartThen
<1>2. ASSUME NEW f, \/ PersistResult(f) \/ MarkFailure(f) \/ MarkUnrecorded(f)
                    \/ Record(f) \/ Complete(f)
                    \/ ReconcilePersist(f) \/ ReconcileState(f)
      PROVE  pc # "idle" /\ (pc' # "idle" => req' = req) /\ pc' \notin Early
             /\ UNCHANGED <<stored, runs>>
    BY <1>2 DEF PersistResult, StoreResult, MarkFailure, MarkUnrecorded, Record,
                Complete, CompleteWith, ReconcilePersist, ReconcileState
<1>3. ASSUME \/ AdapterMissing \/ AdapterRaises \/ AdapterMismatches
             \/ \E o \in Outcomes : AdapterReturns(o)
      PROVE  pc = "call_adapter" /\ (pc' # "idle" => req' = req)
             /\ pc' \notin Early /\ UNCHANGED stored
    BY <1>3 DEF AdapterMissing, AdapterRaises, AdapterMismatches,
                AdapterReturns, Ran
<1>4. QED
    BY <1>1, <1>2, <1>3 DEF ExecuteStep, ReconcileStep

-----------------------------------------------------------------------------
(* The invariant *)

LEMMA AuthInvInit == AuthInit => AuthInv
<1> SUFFICES ASSUME AuthInit PROVE AuthInv
    OBVIOUS
<1>1. AuthTypeOK
    BY TypeInit DEF AuthInit, AuthTypeOK
<1>2. Traced /\ Own /\ OneLate
    BY DEF AuthInit, Init, Traced, Own, OneLate, Known, Early
<1>3. QED
    BY <1>1, <1>2 DEF AuthInv

\* Steps that leave the gateway alone: the controller, tokens and bindings.
LEMMA AuthorizePreserves ==
    ASSUME AuthInv, TypeOK', ControllerChanges \/ AuthorizeStep
    PROVE  AuthInv'
<1> USE DEF AuthInv, AuthTypeOK, Traced, Own, OneLate, Known, Stale,
            authHistory, session, vars, durable, call
<1>1. CASE ControllerChanges
    BY <1>1 DEF ControllerChanges
<1>2. ASSUME NEW c \in Contents, Observe(c) PROVE AuthInv'
  <2>1. [content |-> c, binding |-> Unbound] \in Requests
      BY InvestigationAssumption
  <2>2. QED
      BY <1>2, <2>1 DEF Observe, Hold
<1>3. ASSUME NEW i \in ExecutionIds, NEW n \in Names, NEW z \in Authorizations,
             Issue(i, n, z)
      PROVE  AuthInv'
  <2>1. [authority |-> live, id |-> i, name |-> n, authorization |-> z] \in Tokens
      BY <1>3 DEF Issue, Tokens
  <2>2. QED
      BY <1>3, <2>1 DEF Issue, IssueFor
<1>4. ASSUME NEW r \in Known, NEW t \in tokens, Bind(r, t) PROVE AuthInv'
  <2>1. [r EXCEPT !.binding = t] \in Requests
        /\ [r EXCEPT !.binding = t].binding = t
      BY InvestigationAssumption DEF TypeOK
  <2>2. QED
      BY <1>4, <2>1 DEF Bind, Hold
<1>5. ASSUME NEW r \in Known, Reissue(r) PROVE AuthInv'
  <2>1. r.binding \in Tokens /\ r.binding \in granted
      BY <1>5, InvestigationAssumption DEF Reissue, TypeOK
  <2>2. QED
      BY <1>5, <2>1 DEF Reissue, Rebuild
<1>6. QED
    BY <1>1, <1>2, <1>3, <1>4, <1>5 DEF AuthorizeStep

\* Executions that begin, checked or not.
LEMMA BeginPreserves ==
    ASSUME AuthInv, TypeOK', NEW r \in Known, Execute(r),
           UNCHANGED <<live, session, granted, late>>,
           \/ under' = [under EXCEPT ![r] = Unbound]
           \/ /\ r.binding \in tokens
              /\ r.binding.authority = live
              /\ under' = [under EXCEPT ![r] = r.binding]
    PROVE  AuthInv'
<1> USE DEF AuthInv, AuthTypeOK, Traced, Own, OneLate, Known, Stale, session,
            Execute, durable
<1>1. r \in Requests
    BY DEF TypeOK
<1>2. QED
    BY <1>1

LEMMA AuthInvStep == AuthInv /\ [AuthNext]_authVars => AuthInv'
<1> SUFFICES ASSUME AuthInv, [AuthNext]_authVars PROVE AuthInv'
    OBVIOUS
<1>0. TypeOK /\ TypeOK' /\ AuthTypeOK
    BY GatewayStepOrStutter, TypeStep DEF AuthInv, AuthTypeOK
<1>1. CASE ControllerChanges \/ AuthorizeStep
    BY <1>0, <1>1, AuthorizePreserves
<1>2. ASSUME NEW r \in Known, NEW t \in tokens, ExecuteBound(r, t)
      PROVE  AuthInv'
    BY <1>0, <1>2, BeginPreserves
       DEF ExecuteBound, ExecuteWith, Begin, IsLive
<1>3. ASSUME NEW r \in Known, ExecuteUnchecked(r)
      PROVE  AuthInv'
    BY <1>0, <1>3, BeginPreserves DEF ExecuteUnchecked, Begin
<1>4. CASE GatewayStep
  <2> USE DEF AuthInv, AuthTypeOK, Traced, Own, OneLate, Known, Stale, session
  <2>1. UNCHANGED <<live, tokens, held, granted, under>>
        /\ late' = IF runs' # runs /\ Stale(req)
                   THEN IF late = 0 THEN 1 ELSE 2 ELSE late
      BY <1>4 DEF GatewayStep
  <2>2. CASE ExecuteStep \/ ReconcileStep
    <3>1. /\ pc # "idle"
          /\ stored \subseteq stored' /\ stored' \subseteq stored \cup {req}
          /\ pc' # "idle" => req' = req
          /\ pc' \in Early => pc \in Early \ {"call_adapter"}
          /\ runs' # runs => pc = "call_adapter"
        BY <1>0, <2>2, WithinCall
    <3>2. Traced'
        BY <2>1, <3>1
    <3>3. OneLate'
        BY <2>1, <3>1 DEF Early
    <3>4. QED
        BY <1>0, <2>1, <3>2, <3>3
  <2>3. ASSUME NEW n \in Adapters, Register(n) PROVE AuthInv'
      BY <1>0, <2>1, <2>3 DEF Register, durable, call
  <2>4. ASSUME NEW r \in Known, NEW o \in Outcomes, NEW t \in ReconcileTargets,
               Reconcile(r, o, t)
        PROVE  AuthInv'
      BY <1>0, <2>1, <2>4 DEF Reconcile, ReconcileFrom, durable, Early
  <2>5. QED
      BY <1>4, <2>2, <2>3, <2>4 DEF GatewayStep
<1>5. CASE Restart
    BY <1>0, <1>5 DEF Restart, Crash, Finish, durable, authHistory, AuthInv,
       AuthTypeOK, Traced, Own, OneLate, Known, Early
<1>6. CASE UNCHANGED authVars
    BY <1>0, <1>6 DEF authVars, authHistory, session, vars, durable, call, AuthInv,
       AuthTypeOK, Traced, Own, OneLate, Known, Early, Stale
<1>7. QED
    BY <1>1, <1>2, <1>3, <1>4, <1>5, <1>6 DEF AuthNext

-----------------------------------------------------------------------------
(* Theorems *)

\* Tokens, bindings and the controller's lease keep their types.
THEOREM AuthTyped == AuthSpec => []AuthTypeOK
<1>1. AuthInv => AuthTypeOK
    BY DEF AuthInv
<1>2. QED
    BY <1>1, AuthInvInit, AuthInvStep, PTL DEF AuthSpec

\* What ran checked ran under a token that was issued to it: bindings are
\* copies of issued tokens, in memory and in the store, and a token that is
\* rebuilt is a copy of a binding.
THEOREM CheckedIsGranted == AuthSpec => []CheckedRunsWereGranted
<1>1. AuthInv => CheckedRunsWereGranted
    BY DEF AuthInv, Traced, CheckedRunsWereGranted
<1>2. QED
    BY <1>1, AuthInvInit, AuthInvStep, PTL DEF AuthSpec

\* Whatever controllers do, a loss or a renewal lets one execution finish.
THEOREM OneStaleRun == AuthSpec => []LossStopsAllButOne
<1>1. AuthInv => LossStopsAllButOne
    BY DEF AuthInv, OneLate, LossStopsAllButOne
<1>2. QED
    BY <1>1, AuthInvInit, AuthInvStep, PTL DEF AuthSpec

\* The composition with the controller is a gateway: every theorem about Spec
\* holds of it.
THEOREM Composition == AuthSpec => Spec
<1>1. AuthInit => Init
    BY DEF AuthInit
<1>2. AuthInv /\ [AuthNext]_authVars => [Next]_vars
    BY GatewayStepOrStutter DEF AuthInv
<1>3. QED
    BY <1>1, <1>2, AuthInvInit, AuthInvStep, PTL DEF AuthSpec, Spec

\* Under one token what a request says has at most one checked run: two requests
\* with one content checked against the same token carry the same binding, so
\* they are one request, and the replay barrier holds for it.
THEOREM OneRunPerToken == AuthSpec => []OncePerToken
<1>1. AuthInv /\ AtMostOnce => OncePerToken
  <2> SUFFICES ASSUME AuthInv, AtMostOnce, Remembered,
                      NEW r \in Requests, NEW q \in Requests,
                      r.content = q.content,
                      under[r] = under[q], under[r] # Unbound,
                      runs[r] > 0, runs[q] > 0
               PROVE  r = q /\ runs[r] = 1
      BY DEF OncePerToken
  <2>1. r.binding = q.binding
      BY DEF AuthInv, Own
  <2>2. r = q
      BY <2>1, InvestigationAssumption
  <2>3. runs[r] = 1
      BY DEF AtMostOnce, AuthInv, AuthTypeOK, TypeOK
  <2>4. QED
      BY <2>2, <2>3
<1>2. QED
    BY <1>1, Composition, ReplayBarrier, AuthInvInit, AuthInvStep, PTL
    DEF AuthSpec
=============================================================================
