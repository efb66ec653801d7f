----------------------------- MODULE SharedStore ----------------------------
(* Several gateways of cydra/external_execution.py alive at once over one   *)
(* durable store, and one request that all of them may execute and          *)
(* reconcile.  Here _state is what the code makes of it: a read, which the  *)
(* table judges, and a write some time later.  The adapter is an object     *)
(* that gateways register; it holds the capability of the last one and      *)
(* refuses to run for another.                                              *)
EXTENDS LifecycleTable, Naturals

CONSTANTS
    Gateways,
    Adapters,   \* adapter objects registered under the request's adapter name
    NoAdapter,  \* nothing registered under that name
    NoGateway,  \* the adapter holds no capability
    Outcomes, NoReceipt,
    Faults      \* a callback raises before ("lost") or after its effect ("late")

ASSUME SharedAssumption ==
    /\ NoAdapter \notin Adapters
    /\ NoGateway \notin Gateways
    /\ NoReceipt \notin Outcomes
    /\ Faults \subseteq {"lost", "late"}

VARIABLES
    stored, state, receipt,  \* the store
    local,       \* _local_states of each gateway
    executed,    \* gateways with the request in _executed_digests
    has,         \* the adapter in _adapters of each gateway
    capability,  \* the gateway whose capability each adapter holds
    at,          \* what each gateway is about to do
    call,        \* in which call
    goal,        \* the state it is to write
    result,      \* the result it is to store
    \* history
    runs,        \* times an adapter ran the request, counted up to 2
    raced,       \* two gateways were between the check of execute and RUNNING
    overlapped   \* two calls were in flight

store == <<stored, state, receipt>>
memory == <<local, executed, has, capability>>
control == <<at, call, goal, result>>
history == <<runs, raced, overlapped>>
vars == <<store, memory, control, history>>

Init ==
    /\ stored = FALSE
    /\ state = "ABSENT"
    /\ receipt = NoReceipt
    /\ local = [g \in Gateways |-> "ABSENT"]
    /\ executed = {}
    /\ has = [g \in Gateways |-> NoAdapter]
    /\ capability = [a \in Adapters |-> NoGateway]
    /\ at = [g \in Gateways |-> "idle"]
    /\ call = [g \in Gateways |-> "none"]
    /\ goal = [g \in Gateways |-> "ABSENT"]
    /\ result = [g \in Gateways |-> NoReceipt]
    /\ runs = 0
    /\ raced = FALSE
    /\ overlapped = FALSE

Replies == {"done"} \cup Faults

\* Slip: the memory of the gateway wins.
Current_MemoryFirst(g) == IF local[g] # "ABSENT" THEN local[g] ELSE state

\* _current_state
Current(g) == IF state # "ABSENT" THEN state ELSE local[g]

\* Gateway g goes on: to a step of a call with a state to write.
Go(g, step, kind, next) ==
    /\ at' = [at EXCEPT ![g] = step]
    /\ call' = [call EXCEPT ![g] = kind]
    /\ goal' = [goal EXCEPT ![g] = next]

\* Slip: a call that ended is still the call of its gateway.
Return_KeepsCall(g) == Go(g, "idle", call[g], "ABSENT")

Return(g) == Go(g, "idle", "none", "ABSENT")

\* Between the check of execute and its RUNNING: the adapter may still be called
\* because of a state that was read earlier.
Planning(g) ==
    /\ call[g] = "execute"
    /\ at[g] \in {"persist_request", "look", "read", "write"}
    /\ goal[g] \in {"ABSENT", "PERSISTED", "RUNNING"}

Others(g) == Gateways \ {g}

-----------------------------------------------------------------------------
(* register, and a gateway that is dropped *)

\* _adapter_gateways belongs to gateway g: that another gateway has registered
\* the adapter is not seen, and that one's capability is replaced.
Register(g, a) ==
    /\ at[g] = "idle"
    /\ has[g] = NoAdapter
    /\ has' = [has EXCEPT ![g] = a]
    /\ capability' = [capability EXCEPT ![a] = g]
    /\ UNCHANGED <<store, local, executed, control, history>>

\* The call in flight dies, and a fresh gateway takes the place of this one.
Restart(g) ==
    /\ local' = [local EXCEPT ![g] = "ABSENT"]
    /\ executed' = executed \ {g}
    /\ has' = [has EXCEPT ![g] = NoAdapter]
    /\ result' = [result EXCEPT ![g] = NoReceipt]
    /\ Return(g)
    /\ UNCHANGED <<store, capability, history>>

-----------------------------------------------------------------------------
(* execute and reconcile_result up to their first effect *)

Begins(g) ==
    /\ at[g] = "idle"
    /\ overlapped' = (overlapped \/ \E h \in Others(g) : at[h] # "idle")
    /\ UNCHANGED <<store, memory, runs>>

Execute(g) ==
    /\ Begins(g)
    /\ g \notin executed
    /\ Current(g) \in {"ABSENT", "PERSISTED"}
    /\ raced' = (raced \/ \E h \in Others(g) : Planning(h))
    /\ Go(g, "persist_request", "execute", "ABSENT")
    /\ UNCHANGED result

ReconcileFrom(open, g, o, t) ==
    /\ Begins(g)
    /\ Current(g) \in open
    /\ result' = [result EXCEPT ![g] = o]
    /\ Go(g, "persist_result", "reconcile", t)
    /\ UNCHANGED raced

\* Slip: what failed may be reconciled, too.
Reconcile_Failed(g, o, t) == ReconcileFrom(Unsettled \cup {"FAILED"}, g, o, t)

Reconcile(g, o, t) == ReconcileFrom(Unsettled, g, o, t)

-----------------------------------------------------------------------------
(* Callbacks *)

PersistRequest(g, f) ==
    /\ at[g] = "persist_request"
    /\ stored' = (stored \/ f # "lost")
    /\ IF f = "done" THEN Go(g, "look", "execute", "ABSENT") ELSE Return(g)
    /\ UNCHANGED <<state, receipt, memory, result, history>>

\* The request has no state yet, or one that somebody wrote meanwhile.
Look(g) ==
    /\ at[g] = "look"
    /\ Go(g, "read", "execute",
          IF Current(g) = "ABSENT" THEN "PERSISTED" ELSE "RUNNING")
    /\ UNCHANGED <<store, memory, result, history>>

\* Slip: a RUNNING that was refused is taken for an outcome that was lost.
RaiseFrom_AllUnrecorded(g) ==
    IF call[g] = "execute" THEN Go(g, "read", "mark", "OUTCOME_UNRECORDED")
                           ELSE Return(g)

\* _state raised: execute marks the outcome as unrecorded once the adapter ran.
RaiseFrom(g) ==
    IF call[g] = "execute" /\ goal[g] \in {"RESULT_RECORDED", "COMPLETED"}
    THEN Go(g, "read", "mark", "OUTCOME_UNRECORDED")
    ELSE Return(g)

\* _mark_failure and _mark_unrecorded do not raise: memory alone says so.
LocalAfterRaise(g) ==
    local' = IF call[g] = "mark" THEN [local EXCEPT ![g] = goal[g]] ELSE local

\* _state reads, and asks the table.
ReadState(g) ==
    /\ at[g] = "read"
    /\ IF Legal(Current(g), goal[g])
       THEN Go(g, "write", call[g], goal[g]) /\ UNCHANGED local
       ELSE RaiseFrom(g) /\ LocalAfterRaise(g)
    /\ UNCHANGED <<store, executed, has, capability, result, history>>

\* What follows a state that was written.
Proceed(g) ==
    CASE goal[g] = "PERSISTED" -> Go(g, "read", "execute", "RUNNING")
      [] goal[g] = "RUNNING" -> Go(g, "adapter", "execute", "ABSENT")
      [] goal[g] = "RESULT_RECORDED" -> Go(g, "read", "execute", "COMPLETED")
      [] OTHER -> Return(g)

\* ... and writes: the request may be in another state by now.
WriteState(g, f) ==
    /\ at[g] = "write"
    /\ state' = IF f = "lost" THEN state ELSE goal[g]
    /\ IF f = "done"
       THEN /\ local' = [local EXCEPT ![g] = goal[g]]
            /\ executed' = IF call[g] # "mark" /\ goal[g] \in Terminal
                           THEN executed \cup {g} ELSE executed
            /\ Proceed(g)
       ELSE RaiseFrom(g) /\ LocalAfterRaise(g) /\ UNCHANGED executed
    /\ UNCHANGED <<stored, receipt, has, capability, result, history>>

StoreResult(g, f, proceeds) ==
    /\ at[g] = "persist_result"
    /\ receipt' = IF f = "lost" THEN receipt ELSE result[g]
    /\ result' = [result EXCEPT ![g] = NoReceipt]
    /\ IF proceeds THEN Go(g, "read", call[g], goal[g]) ELSE RaiseFrom(g)
    /\ UNCHANGED <<stored, state, memory, history>>

\* Slip: a result that could not be stored is recorded all the same.
PersistResult_Swallowed(g, f) == StoreResult(g, f, TRUE)

\* persist_result, of the adapter's result or of the operator's.
PersistResult(g, f) == StoreResult(g, f, f = "done")

-----------------------------------------------------------------------------
(* The adapter *)

\* Nothing is registered: KeyError.
AdapterMissing(g) ==
    /\ at[g] = "adapter"
    /\ has[g] = NoAdapter
    /\ Return(g)
    /\ UNCHANGED <<store, memory, result, history>>

\* The adapter holds the capability of another gateway, and raises.
AdapterRefuses(g) ==
    /\ at[g] = "adapter"
    /\ has[g] # NoAdapter
    /\ capability[has[g]] # g
    /\ Go(g, "read", "mark", "FAILED")
    /\ UNCHANGED <<store, memory, result, history>>

Ran(g) ==
    /\ at[g] = "adapter"
    /\ has[g] # NoAdapter
    /\ capability[has[g]] = g
    /\ runs' = IF runs = 0 THEN 1 ELSE 2
    /\ UNCHANGED <<store, memory, raced, overlapped>>

AdapterReturns(g, o) ==
    /\ Ran(g)
    /\ result' = [result EXCEPT ![g] = o]
    /\ Go(g, "persist_result", "execute", "RESULT_RECORDED")

\* The adapter raised, or its result is bound to something else.
AdapterFails(g) ==
    /\ Ran(g)
    /\ \E outcome \in {"FAILED", "OUTCOME_UNRECORDED"} :
           Go(g, "read", "mark", outcome)
    /\ UNCHANGED result

-----------------------------------------------------------------------------

Step(g) ==
    \/ \E a \in Adapters : Register(g, a)
    \/ Restart(g)
    \/ Execute(g)
    \/ \E o \in Outcomes, t \in Terminal : Reconcile(g, o, t)
    \/ \E f \in Replies : \/ PersistRequest(g, f)
                          \/ PersistResult(g, f)
                          \/ WriteState(g, f)
    \/ Look(g) \/ ReadState(g)
    \/ AdapterMissing(g) \/ AdapterRefuses(g) \/ AdapterFails(g)
    \/ \E o \in Outcomes : AdapterReturns(g, o)

Next == \E g \in Gateways : Step(g)

Spec == Init /\ [][Next]_vars

-----------------------------------------------------------------------------
(* Properties *)

SharedTypeOK ==
    /\ stored \in BOOLEAN
    /\ state \in States
    /\ receipt \in Outcomes \cup {NoReceipt}
    /\ local \in [Gateways -> States]
    /\ executed \subseteq Gateways
    /\ has \in [Gateways -> Adapters \cup {NoAdapter}]
    /\ capability \in [Adapters -> Gateways \cup {NoGateway}]
    /\ at \in [Gateways -> {"idle", "persist_request", "look", "read", "write",
                            "adapter", "persist_result"}]
    /\ call \in [Gateways -> {"none", "execute", "mark", "reconcile"}]
    /\ goal \in [Gateways -> States]
    /\ result \in [Gateways -> Outcomes \cup {NoReceipt}]
    /\ runs \in 0..2
    /\ raced \in BOOLEAN
    /\ overlapped \in BOOLEAN
    /\ \A g \in Gateways : at[g] = "idle" <=> call[g] = "none"

\* The replay barrier between gateways: the request runs a second time only if
\* two of them were between the check of execute and RUNNING together.  Memory
\* that is stale, restarts, reconciliations and store faults never cause it.
RunsAgainOnlyWhenRaced == runs > 1 => raced

\* However calls interleave and whatever stale state they write, a request is
\* recorded or completed only with a receipt in the store.
CompletedHasReceipt ==
    state \in {"RESULT_RECORDED", "COMPLETED"} => receipt # NoReceipt

\* An outcome in the store that claims a run, recorded, completed or lost, means
\* that the adapter ran, whoever wrote it and from whatever stale state.  FAILED
\* claims none: an adapter that refuses the capability is recorded as FAILED.
OutcomeHasRun == state \in Unsettled \cup {"COMPLETED"} => runs > 0

\* "One external adapter instance cannot be rebound to a second gateway": an
\* adapter that a gateway has registered holds that gateway's capability.
AdapterKeepsGateway ==
    \A g \in Gateways : has[g] # NoAdapter => capability[has[g]] = g

\* Gateways that take turns, however stale their memories, keep the promise of
\* a single one: the store moves along the table and settled evidence is frozen.
TurnsFollowLifecycle ==
    [][~overlapped =>
        /\ state' # state => Legal(state, state')
        /\ receipt' # receipt => state \in {"RUNNING"} \cup Unsettled]_vars
=============================================================================
