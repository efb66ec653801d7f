---------------------------- MODULE ReadersProofs ---------------------------
(* Readers for every set of requests and outcomes: the validator's fold     *)
(* follows the store, so it rejects exactly the reconciled requests, and    *)
(* what recovery hands out as a completion it has seen completed.           *)
EXTENDS Readers, GatewayProofs

-----------------------------------------------------------------------------
(* Recovery composed with the gateway it runs beside: what recover returns  *)
(* as a completion is final.  Rests on SettledIsFrozen of GatewayProofs.    *)

\* A recovery past its first check read a recoverable state; one that read
\* COMPLETED works on a settled request, and the receipt it then read is the
\* one still in the store.
ReadsSettled ==
    /\ rpc \in {"read_receipt", "rehydrate"} /\ rstate = "COMPLETED"
          => state[rreq] = "COMPLETED"
    /\ rpc \in {"read_receipt", "rehydrate"} => rstate \in Recoverable
    /\ rpc = "rehydrate" /\ rstate = "COMPLETED" => rpayload = receipt[rreq]

RInv == /\ IInv
        /\ RecoveryTypeOK
        /\ ReadsSettled
        /\ RecoveredCompletionIsFinal

LEMMA RInvInit == RecoveryInit => RInv
BY InvInit, TypeInit, RecoveryAssumption
   DEF RecoveryInit, RInv, RecoveryTypeOK, ReadsSettled,
       RecoveredCompletionIsFinal, Init

\* A step of the live process.
LEMMA LiveStep ==
    ASSUME RInv, [Next]_vars, UNCHANGED <<recovery, delivered>>
    PROVE  RInv'
<1>1. IInv' /\ TypeOK'
    BY InvStep, TypeStep DEF RInv, IInv
<1>2. RecoveryTypeOK'
    BY <1>1 DEF RInv, RecoveryTypeOK, recovery
<1>3. \A r \in Requests : state[r] = "COMPLETED" =>
            state'[r] = "COMPLETED" /\ receipt'[r] = receipt[r]
    BY SettledIsFrozen, RecoveryAssumption DEF RInv, Terminal
<1>4. ReadsSettled'
    BY <1>3 DEF RInv, ReadsSettled, RecoveryTypeOK, recovery
<1>5. RecoveredCompletionIsFinal'
    BY <1>3 DEF RInv, RecoveredCompletionIsFinal, RecoveryTypeOK
<1>6. QED
    BY <1>1, <1>2, <1>4, <1>5 DEF RInv

\* A step of the recovering process.
LEMMA RecoveringStep == RInv /\ RecoverStep => RInv'
<1> SUFFICES ASSUME RInv, RecoverStep PROVE RInv'
    OBVIOUS
<1>0. UNCHANGED vars
    BY DEF RecoverStep, Recover, ReadState, ReadStateIn, ReadReceipt,
           Rehydrate, RehydrateAs
<1>1. IInv' /\ TypeOK'
    BY <1>0, InvStep, TypeStep DEF RInv, IInv
<1>2. state' = state /\ receipt' = receipt
    BY <1>0 DEF vars, durable
<1> USE RecoveryAssumption
    DEF RInv, RecoveryTypeOK, ReadsSettled, RecoveredCompletionIsFinal, Leave,
        Recoverable, Unsettled
<1>3. ASSUME NEW r \in Requests, Recover(r) PROVE RInv'
    BY <1>1, <1>2, <1>3 DEF Recover
<1>4. CASE ReadState
    BY <1>1, <1>2, <1>4 DEF ReadState, ReadStateIn
<1>5. CASE ReadReceipt
    BY <1>1, <1>2, <1>5 DEF ReadReceipt, IInv, TypeOK
<1>6. ASSUME NEW o \in Outcomes, Rehydrate(o) PROVE RInv'
  <2> DEFINE d == [request |-> rreq, outcome |-> o, state |-> rstate]
  <2>1. CASE delivered' = delivered
      BY <1>1, <1>2, <1>6, <2>1 DEF Rehydrate, RehydrateAs
  <2>2. CASE delivered' = delivered \cup {d} /\ o = rpayload /\ rpc = "rehydrate"
                /\ state[rreq] \in Recoverable
    <3>1. rreq \in Requests /\ rstate \in Recoverable
        BY <2>2
    <3>2. d \in [request : Requests, outcome : Outcomes, state : Recoverable]
        BY <3>1
    <3>3. d.state = "COMPLETED" =>
             state[d.request] = "COMPLETED" /\ receipt[d.request] = d.outcome
        BY <2>2
    <3>4. QED
        BY <1>1, <1>2, <1>6, <2>2, <3>2, <3>3 DEF Rehydrate, RehydrateAs
  <2>3. QED
      BY <1>6, <2>1, <2>2 DEF Rehydrate, RehydrateAs
<1>7. QED
    BY <1>3, <1>4, <1>5, <1>6 DEF RecoverStep

LEMMA RInvStep == RInv /\ [RecoveryNext]_allVars => RInv'
<1> SUFFICES ASSUME RInv, [RecoveryNext]_allVars PROVE RInv'
    OBVIOUS
<1>1. CASE Next /\ UNCHANGED <<recovery, delivered>>
    BY <1>1, LiveStep
<1>2. CASE RecoverStep
    BY <1>2, RecoveringStep
<1>3. CASE UNCHANGED allVars
    BY <1>3, LiveStep DEF allVars
<1>4. QED
    BY <1>1, <1>2, <1>3 DEF RecoveryNext

\* A recovered completion is the final outcome of its request, whatever the
\* live process does between and after the four reads of recover.
THEOREM RecoveryIsFinal == RecoverySpec => []RecoveredCompletionIsFinal
<1>1. RInv => RecoveredCompletionIsFinal
    BY DEF RInv
<1>2. QED
    BY <1>1, RInvInit, RInvStep, PTL DEF RecoverySpec

\* What recover holds between its reads, and all it ever delivers, has its type.
THEOREM RecoveryTyped == RecoverySpec => []RecoveryTypeOK
<1>1. RInv => RecoveryTypeOK
    BY DEF RInv
<1>2. QED
    BY <1>1, RInvInit, RInvStep, PTL DEF RecoverySpec

-----------------------------------------------------------------------------
(* What one event does to the fold of a request *)

Folds == [state : States, sawResult : BOOLEAN, sawTerminal : BOOLEAN,
          errors : SUBSET Problems]

LEMMA FoundProblems ==
    ASSUME NEW checks, \A c \in checks : c[2] \in Problems
    PROVE  Found(checks) \in SUBSET Problems
BY DEF Found

LEMMA FoundNone ==
    ASSUME NEW checks, \A c \in checks : ~c[1]
    PROVE  Found(checks) = {}
BY DEF Found

LEMMA FoundSome ==
    ASSUME NEW checks, NEW c \in checks, c[1]
    PROVE  Found(checks) # {}
BY DEF Found

LEMMA PersistedFold ==
    ASSUME NEW a \in Folds
    PROVE  /\ SeePersisted(a) \in Folds
           /\ SeePersisted(a).state = "PERSISTED"
           /\ SeePersisted(a).sawResult = a.sawResult
           /\ SeePersisted(a).sawTerminal = a.sawTerminal
           /\ a.errors \subseteq SeePersisted(a).errors
           /\ a.state \in {"ABSENT", "PERSISTED"}
                => SeePersisted(a).errors = a.errors
<1> DEFINE found(late) == Found({<<late, "persisted_late">>})
           new == found(a.state \notin {"ABSENT", "PERSISTED"})
<1>1. new \in SUBSET Problems
    BY FoundProblems DEF Problems
<1>2. ASSUME a.state \in {"ABSENT", "PERSISTED"} PROVE new = {}
  <2>1. ASSUME NEW late, ~late PROVE found(late) = {}
      BY <2>1, FoundNone
  <2> HIDE DEF found
  <2>2. QED
      BY <1>2, <2>1
<1>3. SeePersisted(a) = [a EXCEPT !.state = "PERSISTED",
                                  !.errors = @ \cup new]
    BY DEF SeePersisted
<1> HIDE DEF new
<1>4. QED
    BY <1>1, <1>2, <1>3 DEF Folds, States

LEMMA ResultFold ==
    ASSUME NEW a \in Folds
    PROVE  /\ SeeResult(a) \in Folds
           /\ SeeResult(a).state = a.state
           /\ SeeResult(a).sawResult
           /\ SeeResult(a).sawTerminal = a.sawTerminal
           /\ a.errors \subseteq SeeResult(a).errors
           /\ a.state = "RUNNING" /\ ~a.sawResult
                => SeeResult(a).errors = a.errors
           /\ a.state # "RUNNING" => SeeResult(a).errors # {}
<1> DEFINE found(outside, again) ==
               Found({<<outside, "result_outside_running">>,
                      <<again, "duplicate_receipt">>})
           new == found(a.state # "RUNNING", a.sawResult)
<1>1. new \in SUBSET Problems
    BY FoundProblems DEF Problems
<1>2. ASSUME a.state = "RUNNING", ~a.sawResult PROVE new = {}
  <2>1. ASSUME NEW outside, NEW again, ~outside, ~again
        PROVE  found(outside, again) = {}
    <3> DEFINE checks == {<<outside, "result_outside_running">>,
                          <<again, "duplicate_receipt">>}
    <3>1. \A c \in checks : ~c[1]
        BY <2>1
    <3>2. QED
        BY <3>1, FoundNone
  <2> HIDE DEF found
  <2>2. QED
      BY <1>2, <2>1
<1>3. ASSUME a.state # "RUNNING" PROVE new # {}
  <2> DEFINE c == <<a.state # "RUNNING", "result_outside_running">>
  <2>1. c[1]
      BY <1>3
  <2>2. QED
      BY <2>1, FoundSome
<1>4. SeeResult(a) = [a EXCEPT !.sawResult = TRUE, !.errors = @ \cup new]
    BY DEF SeeResult
<1> HIDE DEF new
<1>5. QED
    BY <1>1, <1>2, <1>3, <1>4 DEF Folds

LEMMA TransitionFold ==
    ASSUME NEW a \in Folds, NEW s, NEW t \in States
    PROVE  LET b == SeeStateChanged(a, s, t) IN
           /\ b \in Folds
           /\ b.state = t
           /\ b.sawResult = a.sawResult
           /\ b.sawTerminal <=> a.sawTerminal \/ t \in Terminal
           /\ a.errors \subseteq b.errors
           /\ /\ s = a.state
              /\ Legal(s, t)
              /\ t \in {"RESULT_RECORDED", "COMPLETED"} => a.sawResult
              => b.errors = a.errors
<1> DEFINE found(torn, illegal, early, empty) ==
               Found({<<torn, "previous_state_mismatch">>,
                      <<illegal, "illegal_transition">>,
                      <<early, "recorded_without_receipt">>,
                      <<empty, "completed_without_receipt">>})
           new == found(s # a.state, ~Legal(a.state, t),
                        t = "RESULT_RECORDED" /\ ~a.sawResult,
                        t = "COMPLETED" /\ ~a.sawResult)
           b == SeeStateChanged(a, s, t)
<1>1. new \in SUBSET Problems
    BY FoundProblems DEF Problems
<1>2. ASSUME s = a.state, Legal(s, t),
             t \in {"RESULT_RECORDED", "COMPLETED"} => a.sawResult
      PROVE  new = {}
  <2>1. ASSUME NEW torn, NEW illegal, NEW early, NEW empty,
               ~torn, ~illegal, ~early, ~empty
        PROVE  found(torn, illegal, early, empty) = {}
    <3> DEFINE checks == {<<torn, "previous_state_mismatch">>,
                          <<illegal, "illegal_transition">>,
                          <<early, "recorded_without_receipt">>,
                          <<empty, "completed_without_receipt">>}
    <3>1. \A c \in checks : ~c[1]
        BY <2>1
    <3>2. QED
        BY <3>1, FoundNone
  <2> HIDE DEF found
  <2>2. QED
      BY <1>2, <2>1
<1>3. b = [a EXCEPT !.state = t, !.sawTerminal = @ \/ t \in Terminal,
                    !.errors = @ \cup new]
    BY DEF SeeStateChanged
<1> HIDE DEF new, b
<1>4. /\ b \in Folds
      /\ b.state = t
      /\ b.sawResult = a.sawResult
      /\ b.sawTerminal <=> a.sawTerminal \/ t \in Terminal
      /\ b.errors = a.errors \cup new
    BY <1>1, <1>3 DEF Folds
<1>5. QED
    BY <1>2, <1>4 DEF b

LEMMA CompletionFold ==
    ASSUME NEW a \in Folds, a.state = "COMPLETED", a.sawResult, a.sawTerminal
    PROVE  SeeCompletion(a) = a
<1> DEFINE found(open, empty, loose) ==
               Found({<<open, "completion_not_completed">>,
                      <<empty, "completion_without_receipt">>,
                      <<loose, "completion_not_anchored">>})
           new == found(a.state # "COMPLETED", ~a.sawResult, ~a.sawTerminal)
<1>1. new = {}
  <2>1. ASSUME NEW open, NEW empty, NEW loose, ~open, ~empty, ~loose
        PROVE  found(open, empty, loose) = {}
    <3> DEFINE checks == {<<open, "completion_not_completed">>,
                          <<empty, "completion_without_receipt">>,
                          <<loose, "completion_not_anchored">>}
    <3>1. \A c \in checks : ~c[1]
        BY <2>1
    <3>2. QED
        BY <3>1, FoundNone
  <2> HIDE DEF found
  <2>2. QED
      BY <2>1
<1>2. SeeCompletion(a) = [a EXCEPT !.errors = @ \cup new]
    BY DEF SeeCompletion
<1> HIDE DEF new
<1>3. QED
    BY <1>1, <1>2 DEF Folds

-----------------------------------------------------------------------------
(* The inductive invariant of the audit *)

\* The fold of every request is in the state of the store, and has seen what
\* the store holds.
FoldFollows ==
    \A r \in Requests :
        /\ audit[r].state = state[r]
        /\ audit[r].sawResult <=> receipt[r] # NoReceipt
        /\ state[r] \in Terminal => audit[r].sawTerminal
        /\ audit[r].errors = {} <=> r \notin reconciled

\* execute stores the first receipt of its request.
FirstReceipt == pc = "persist_result" => receipt[req] = NoReceipt

AInv == /\ IInv
        /\ AuditTypeOK
        /\ FoldFollows
        /\ FirstReceipt

LEMMA CurrentIsStored == IInv => \A r \in Requests : Current(r) = state[r]
BY AuditAssumption DEF IInv, StoreLeads, Current

LEMMA AInvInit == AuditInit => AInv
BY InvInit, TypeInit
   DEF AuditInit, Init, AInv, AuditTypeOK, FoldFollows, FirstReceipt, States,
       Problems, Terminal

LEMMA AuditStepIsGateway == AuditNext => [Next]_vars
BY DEF AuditNext, LogPersistRequest, LogPersistResult, LogReconcilePersist,
       LogTransition, LogCompletion, LogNothing, Next, ExecuteStep, ReconcileStep

\* The transition of a step that writes no receipt is legal, and has the
\* receipt it needs.
LEMMA TransitionIsLegal ==
    ASSUME AInv, LogTransition
    PROVE  /\ req \in Requests
           /\ receipt' = receipt
           /\ pc' # "persist_result"
           /\ \/ state' = state
              \/ \E s \in States :
                    /\ state' = [state EXCEPT ![req] = s]
                    /\ Legal(state[req], s)
                    /\ s \in {"RESULT_RECORDED", "COMPLETED"}
                         => receipt[req] # NoReceipt
<1> DEFINE Goal ==
              /\ req \in Requests
              /\ receipt' = receipt
              /\ pc' # "persist_result"
              /\ \/ state' = state
                 \/ \E s \in States :
                       /\ state' = [state EXCEPT ![req] = s]
                       /\ Legal(state[req], s)
                       /\ s \in {"RESULT_RECORDED", "COMPLETED"}
                            => receipt[req] # NoReceipt
<1>1. ASSUME NEW s \in States, NEW f, pc # "idle",
             SetState(s, f) \/ SetStateOrMemory(s, f),
             s \in {"RESULT_RECORDED", "COMPLETED"} => receipt[req] # NoReceipt,
             receipt' = receipt, pc' # "persist_result"
      PROVE  Goal
  <2>1. req \in Requests /\ Current(req) = state[req]
      BY <1>1, CurrentIsStored DEF AInv, IInv, TypeOK
  <2>2. QED
      BY <1>1, <2>1 DEF SetState, SetStateOrMemory, WriteState, Written, Returns
<1> HIDE DEF Goal
<1> USE DEF AInv, IInv, CallShape, States
<1>2. ASSUME NEW f, Start(f) PROVE Goal
    BY <1>1, <1>2 DEF Start, StartThen, ContinueOrFinish, Continue, Finish
<1>3. ASSUME NEW f, MarkFailure(f) PROVE Goal
    BY <1>1, <1>3 DEF MarkFailure, Finish
<1>4. ASSUME NEW f, MarkUnrecorded(f) PROVE Goal
    BY <1>1, <1>4 DEF MarkUnrecorded, Finish
<1>5. ASSUME NEW f, Record(f) PROVE Goal
    BY <1>1, <1>5 DEF Record, Continue
<1>6. ASSUME NEW f, Complete(f) PROVE Goal
    BY <1>1, <1>6 DEF Complete, CompleteWith, Continue, Finish
<1>7. ASSUME NEW f, ReconcileState(f) PROVE Goal
  <2>1. target \in States
      BY DEF TypeOK, Terminal
  <2>2. QED
      BY <1>1, <1>7, <2>1 DEF ReconcileState, Finish
<1>8. Goal
    BY <1>2, <1>3, <1>4, <1>5, <1>6, <1>7 DEF LogTransition
<1>9. QED
    BY <1>8 DEF Goal

\* A step that changes the fold of one request only, and keeps it typed.
LEMMA OneFold ==
    ASSUME AInv, NEW r \in Requests, NEW a \in Folds,
           audit' = [audit EXCEPT ![r] = a], IInv',
           reconciled' \in {reconciled, reconciled \cup {r}}
    PROVE  /\ AuditTypeOK'
           /\ audit'[r] = a
           /\ \A q \in Requests \ {r} : audit'[q] = audit[q]
BY DEF AInv, AuditTypeOK, Folds, IInv

LEMMA AInvStep == AInv /\ [AuditNext]_auditVars => AInv'
<1> SUFFICES ASSUME AInv, [AuditNext]_auditVars PROVE AInv'
    OBVIOUS
<1>0. IInv' /\ TypeOK /\ TypeOK'
    BY AuditStepIsGateway, InvStep DEF auditVars, AInv, IInv, vars
<1>a. \A r \in Requests : audit[r] \in Folds /\ Current(r) = state[r]
    BY CurrentIsStored DEF AInv, AuditTypeOK, Folds
<1>t. /\ state \in [Requests -> States]
      /\ receipt \in [Requests -> Outcomes \cup {NoReceipt}]
      /\ audit \in [Requests -> Folds]
    BY <1>0 DEF TypeOK, AInv, AuditTypeOK, Folds
<1>s. ASSUME UNCHANGED <<audit, reconciled, state, receipt>>, FirstReceipt'
      PROVE  AInv'
    BY <1>0, <1>s DEF AInv, AuditTypeOK, FoldFollows
<1>1. ASSUME NEW f, LogPersistRequest(f) PROVE AInv'
  <2>1. /\ req \in Requests
        /\ state[req] \in {"ABSENT", "PERSISTED"}
        /\ receipt' = receipt
        /\ pc' # "persist_result"
      BY <1>0, <1>1, <1>a
         DEF LogPersistRequest, PersistRequest, PersistThen, AInv, IInv, TypeOK,
             CallShape, ContinueOrFinish, Continue, Finish
  <2>2. CASE f = "lost"
      BY <1>1, <1>s, <2>1, <2>2
         DEF LogPersistRequest, PersistRequest, PersistThen, FirstReceipt
  <2>3. CASE f # "lost"
    <3>1. /\ state' = [state EXCEPT ![req] = "PERSISTED"]
          /\ audit' = [audit EXCEPT ![req] = SeePersisted(audit[req])]
          /\ reconciled' = reconciled
        BY <1>1, <2>3, AuditAssumption
           DEF LogPersistRequest, PersistRequest, PersistThen
    <3>2. AuditTypeOK' /\ audit'[req] = SeePersisted(audit[req])
          /\ \A q \in Requests \ {req} : audit'[q] = audit[q]
        BY <1>0, <1>a, <2>1, <3>1, OneFold, PersistedFold
    <3>3. FoldFollows'
        BY <1>t, <1>a, <2>1, <3>1, <3>2, PersistedFold
           DEF AInv, FoldFollows, Terminal
    <3>4. QED
        BY <1>0, <2>1, <3>2, <3>3 DEF AInv, FirstReceipt
  <2>4. QED
      BY <2>2, <2>3
<1>2. ASSUME NEW f, LogPersistResult(f) PROVE AInv'
  <2>1. /\ req \in Requests
        /\ state[req] = "RUNNING"
        /\ receipt[req] = NoReceipt
        /\ result \in Outcomes
        /\ state' = state
        /\ pc' # "persist_result"
      BY <1>0, <1>2, <1>a
         DEF LogPersistResult, PersistResult, StoreResult, AInv, IInv, TypeOK,
             CallShape, FirstReceipt, Continue
  <2>2. CASE f = "lost"
      BY <1>2, <1>s, <2>1, <2>2
         DEF LogPersistResult, PersistResult, StoreResult, FirstReceipt
  <2>3. CASE f # "lost"
    <3>1. /\ receipt' = [receipt EXCEPT ![req] = result]
          /\ audit' = [audit EXCEPT ![req] = SeeResult(audit[req])]
          /\ reconciled' = reconciled
        BY <1>2, <2>3 DEF LogPersistResult, PersistResult, StoreResult
    <3>2. AuditTypeOK' /\ audit'[req] = SeeResult(audit[req])
          /\ \A q \in Requests \ {req} : audit'[q] = audit[q]
        BY <1>0, <1>a, <2>1, <3>1, OneFold, ResultFold
    <3>3. FoldFollows'
        BY <1>t, <1>a, <2>1, <3>1, <3>2, ResultFold, GatewayAssumption
           DEF AInv, FoldFollows, Terminal
    <3>4. QED
        BY <1>0, <2>1, <3>2, <3>3 DEF AInv, FirstReceipt
  <2>4. QED
      BY <2>2, <2>3
<1>3. ASSUME NEW f, LogReconcilePersist(f) PROVE AInv'
  <2>1. /\ req \in Requests
        /\ state[req] \in Unsettled
        /\ result \in Outcomes
        /\ state' = state
        /\ pc' # "persist_result"
      BY <1>0, <1>3, <1>a
         DEF LogReconcilePersist, ReconcilePersist, AInv, IInv, TypeOK,
             CallShape, ReconcileSteps, ContinueOrFinish, Continue, Finish
  <2>2. CASE f = "lost"
      BY <1>3, <1>s, <2>1, <2>2
         DEF LogReconcilePersist, ReconcilePersist, FirstReceipt
  <2>3. CASE f # "lost"
    <3>1. /\ receipt' = [receipt EXCEPT ![req] = result]
          /\ audit' = [audit EXCEPT ![req] = SeeResult(audit[req])]
          /\ reconciled' = reconciled \cup {req}
        BY <1>3, <2>3 DEF LogReconcilePersist, ReconcilePersist
    <3>2. AuditTypeOK' /\ audit'[req] = SeeResult(audit[req])
          /\ \A q \in Requests \ {req} : audit'[q] = audit[q]
        BY <1>0, <1>a, <2>1, <3>1, OneFold, ResultFold
    <3>3. audit[req].state # "RUNNING" /\ state[req] \notin Terminal
        BY <2>1 DEF AInv, FoldFollows, Unsettled, Terminal
    <3>4. FoldFollows'
        BY <1>t, <1>a, <2>1, <3>1, <3>2, <3>3, ResultFold, GatewayAssumption
           DEF AInv, FoldFollows
    <3>5. QED
        BY <1>0, <2>1, <3>2, <3>4 DEF AInv, FirstReceipt
  <2>4. QED
      BY <2>2, <2>3
<1>4. CASE LogTransition
  <2>1. /\ req \in Requests
        /\ receipt' = receipt
        /\ pc' # "persist_result"
        /\ reconciled' = reconciled
      BY <1>4, TransitionIsLegal DEF LogTransition
  <2>2. CASE state' = state
      BY <1>4, <1>s, <2>1, <2>2 DEF LogTransition, FirstReceipt
  <2>3. ASSUME NEW s \in States, state' # state,
               state' = [state EXCEPT ![req] = s], Legal(state[req], s),
               s \in {"RESULT_RECORDED", "COMPLETED"} => receipt[req] # NoReceipt
        PROVE  AInv'
    <3> DEFINE a == SeeStateChanged(audit[req], state[req], s)
    <3>1. audit' = [audit EXCEPT ![req] = a]
        BY <1>4, <1>t, <2>1, <2>3 DEF LogTransition
    <3>2. /\ a \in Folds
          /\ a.state = s
          /\ a.sawResult = audit[req].sawResult
          /\ a.sawTerminal <=> audit[req].sawTerminal \/ s \in Terminal
          /\ a.errors = audit[req].errors
        BY <1>a, <2>1, <2>3, TransitionFold DEF AInv, FoldFollows
    <3> HIDE DEF a
    <3>3. AuditTypeOK' /\ audit'[req] = a
          /\ \A q \in Requests \ {req} : audit'[q] = audit[q]
        BY <1>0, <2>1, <3>1, <3>2, OneFold
    <3>4. FoldFollows'
        BY <1>t, <2>1, <2>3, <3>2, <3>3 DEF AInv, FoldFollows
    <3>5. QED
        BY <1>0, <2>1, <3>3, <3>4 DEF AInv, FirstReceipt
  <2>4. QED
      BY <1>4, <2>2, <2>3, TransitionIsLegal
<1>5. ASSUME NEW r \in Requests, LogCompletion(r) PROVE AInv'
  <2>1. state[r] = "COMPLETED" /\ receipt[r] # NoReceipt
      BY <1>5, <1>a, AuditAssumption
         DEF LogCompletion, AInv, IInv, MemoryNeverOverclaims,
             CompletionHasReceipt
  <2>2. SeeCompletion(audit[r]) = audit[r]
      BY <1>a, <2>1, CompletionFold DEF AInv, FoldFollows, Terminal
  <2>3. audit' = audit
      BY <1>5, <1>t, <2>2 DEF LogCompletion
  <2>4. QED
      BY <1>5, <1>s, <2>3 DEF LogCompletion, AInv, FirstReceipt, vars, durable, call
<1>6. CASE LogNothing
  <2>1. UNCHANGED <<state, receipt>>
      BY <1>6 DEF LogNothing, Register, Execute, AdapterMissing, AdapterReturns,
                  AdapterRaises, AdapterMismatches, Ran, Reconcile,
                  ReconcileFrom, Crash, durable
  <2>2. FirstReceipt'
    <3>1. ASSUME NEW o \in Outcomes, AdapterReturns(o) PROVE FirstReceipt'
        BY <1>0, <3>1, <2>1, AuditAssumption
           DEF AdapterReturns, Ran, FirstReceipt, AInv, IInv, CallRuns,
               EvidenceLineage, Remembered, TypeOK, ExecuteSteps, ReconcileSteps
    <3>2. ASSUME pc' \notin {pc, "persist_result"} PROVE FirstReceipt'
        BY <3>2 DEF FirstReceipt
    <3>3. ASSUME UNCHANGED call PROVE FirstReceipt'
        BY <2>1, <3>3 DEF FirstReceipt, call, AInv
    <3>4. QED
        BY <1>6, <3>1, <3>2, <3>3
           DEF LogNothing, Register, Execute, AdapterMissing, AdapterRaises,
               AdapterMismatches, Ran, Reconcile, ReconcileFrom, Crash,
               Continue, Finish, FirstReceipt
  <2>3. QED
      BY <1>6, <1>s, <2>1, <2>2 DEF LogNothing
<1>7. CASE UNCHANGED auditVars
    BY <1>7, <1>s DEF auditVars, vars, durable, call, AInv, FirstReceipt
<1>8. QED
    BY <1>1, <1>2, <1>3, <1>4, <1>5, <1>6, <1>7 DEF AuditNext

-----------------------------------------------------------------------------
(* Both readers together *)

\* A step of both readers is a step of the audit, and one of the recovery.
LEMMA ReadersStep ==
    [ReadersNext]_readerVars => [AuditNext]_auditVars /\ [RecoveryNext]_allVars
<1> SUFFICES ASSUME [ReadersNext]_readerVars
             PROVE  [AuditNext]_auditVars /\ [RecoveryNext]_allVars
    OBVIOUS
<1>1. CASE AuditNext /\ UNCHANGED <<recovery, delivered>>
    BY <1>1, AuditStepIsGateway DEF RecoveryNext, allVars
<1>2. CASE RecoverStep /\ UNCHANGED <<audit, reconciled>>
  <2>1. UNCHANGED vars
      BY <1>2 DEF RecoverStep, Recover, ReadState, ReadStateIn, ReadReceipt,
                  Rehydrate, RehydrateAs
  <2>2. QED
      BY <1>2, <2>1 DEF RecoveryNext, auditVars
<1>3. CASE UNCHANGED readerVars
    BY <1>3 DEF readerVars, auditVars, allVars
<1>4. QED
    BY <1>1, <1>2, <1>3 DEF ReadersNext

LEMMA ReadersInvariant == ReadersSpec => [](AInv /\ RInv)
<1>1. ReadersInit => AInv /\ RInv
    BY AInvInit, RInvInit DEF ReadersInit
<1>2. AInv /\ RInv /\ [ReadersNext]_readerVars => AInv' /\ RInv'
    BY ReadersStep, AInvStep, RInvStep
<1>3. QED
    BY <1>1, <1>2, PTL DEF ReadersSpec

\* The fold of the validator has its type whatever the gateway does and
\* whichever process recovers beside it.
THEOREM AuditTyped == ReadersSpec => []AuditTypeOK
<1>1. AInv => AuditTypeOK
    BY DEF AInv
<1>2. QED
    BY <1>1, ReadersInvariant, PTL

\* For any number of requests and outcomes, crashes and raising callbacks, the
\* validator accepts the history of every request that execute alone wrote, and
\* rejects every one that reconcile_result touched.
THEOREM RejectsReconciledOnly == ReadersSpec => []RejectedIffReconciled
<1>1. AInv => RejectedIffReconciled
    BY DEF AInv, FoldFollows, RejectedIffReconciled, Accepts
<1>2. QED
    BY <1>1, ReadersInvariant, PTL

\* What recovery hands out as a completion the validator has seen completed.
THEOREM ReadersAgree == ReadersSpec => []RecoveredCompletionIsAudited
<1>1. AInv /\ RInv => RecoveredCompletionIsAudited
    BY DEF AInv, RInv, FoldFollows, RecoveredCompletionIsFinal, RecoveryTypeOK,
           RecoveredCompletionIsAudited, Accepts
<1>2. QED
    BY <1>1, ReadersInvariant, PTL
=============================================================================
