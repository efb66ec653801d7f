------------------------------- MODULE Recovery -----------------------------
(* ExecutionRecoveryService of cydra/execution_recovery.py, run by a fresh  *)
(* process over the durable store that the live process of Gateway keeps    *)
(* writing.  recover makes four reads (request, state, receipt, and the     *)
(* state again inside ExternalExecutionGateway.rehydrate_result); each is   *)
(* an action, so that steps of execute and reconcile_result, and crashes of *)
(* the live process, fall between them.                                     *)
EXTENDS Gateway

CONSTANTS
    RecoveryAdapters,   \* names registered at the recovering gateway
    PayloadNamesAdapter \* receipts carry the key "adapter"

ASSUME RecoveryAssumption ==
    /\ DurableState
    /\ RecoveryAdapters \subseteq Adapters
    /\ PayloadNamesAdapter \in BOOLEAN

VARIABLES
    rpc,       \* step of recover
    rreq,      \* the request being recovered
    rstate,    \* the state it read
    rpayload,  \* the receipt it read
    delivered  \* every RecoveredExecution returned so far

recovery == <<rpc, rreq, rstate, rpayload>>
allVars == <<vars, recovery, delivered>>

Recoverable == Unsettled \cup {"COMPLETED"}

RecoveryTypeOK ==
    /\ TypeOK
    /\ rpc \in {"idle", "read_state", "read_receipt", "rehydrate"}
    /\ rreq \in IF rpc = "idle" THEN {NoRequest} ELSE Requests
    /\ rstate \in {"ABSENT"} \cup Recoverable
    /\ rpayload \in Outcomes \cup {NoReceipt}
    /\ delivered \subseteq [request : Requests, outcome : Outcomes,
                            state : Recoverable]

RecoveryInit ==
    /\ Init
    /\ rpc = "idle"
    /\ rreq = NoRequest
    /\ rstate = "ABSENT"
    /\ rpayload = NoReceipt
    /\ delivered = {}

\* recover returned or raised.
Leave == /\ rpc' = "idle"
         /\ rreq' = NoRequest
         /\ rstate' = "ABSENT"
         /\ rpayload' = NoReceipt

Recover(r) ==
    /\ rpc = "idle"
    /\ r \in stored
    /\ rpc' = "read_state"
    /\ rreq' = r
    /\ UNCHANGED <<vars, rstate, rpayload, delivered>>

ReadStateIn(accepted) ==
    /\ rpc = "read_state"
    /\ IF state[rreq] \in accepted
       THEN /\ rpc' = "read_receipt"
            /\ rstate' = state[rreq]
            /\ UNCHANGED <<rreq, rpayload>>
       ELSE Leave
    /\ UNCHANGED <<vars, delivered>>

\* Slip: any state that is not ABSENT is recoverable.
ReadState_AnyState == ReadStateIn(States \ {"ABSENT"})

ReadState == ReadStateIn(Recoverable)

ReadReceipt ==
    /\ rpc = "read_receipt"
    /\ IF receipt[rreq] # NoReceipt /\ PayloadNamesAdapter
       THEN /\ rpc' = "rehydrate"
            /\ rpayload' = receipt[rreq]
            /\ UNCHANGED <<rreq, rstate>>
       ELSE Leave
    /\ UNCHANGED <<vars, delivered>>

RehydrateAs(o, label) ==
    /\ rpc = "rehydrate"
    /\ LET accepted == /\ state[rreq] \in Recoverable
                       /\ AdapterOf[rreq] \in RecoveryAdapters
                       /\ o = rpayload
       IN delivered' = IF accepted
                       THEN delivered \cup {[request |-> rreq, outcome |-> o,
                                             state |-> label]}
                       ELSE delivered
    /\ Leave
    /\ UNCHANGED vars

\* Slip: the returned state is the one read last.
Rehydrate_FreshState(o) == RehydrateAs(o, state[rreq])

\* Slip: a request that has its receipt is complete.
Rehydrate_ClaimsCompletion(o) == RehydrateAs(o, "COMPLETED")

\* rehydrate_result: the state is read again, the adapter rebuilds a result
\* bound to the request, and its payload must equal the receipt exactly.
Rehydrate(o) == RehydrateAs(o, rstate)

RecoverStep == \/ \E r \in Requests : Recover(r)
               \/ ReadState
               \/ ReadReceipt
               \/ \E o \in Outcomes : Rehydrate(o)

RecoveryNext == \/ Next /\ UNCHANGED <<recovery, delivered>>
                \/ RecoverStep

RecoverySpec == RecoveryInit /\ [][RecoveryNext]_allVars

-----------------------------------------------------------------------------
(* Properties *)

\* What recover returns as COMPLETED is, and stays, the completion's one
\* receipt, although recover reads state and receipt at different moments while
\* the live process may be reconciling the same request.
RecoveredCompletionIsFinal ==
    \A d \in delivered : d.state = "COMPLETED" =>
        state[d.request] = "COMPLETED" /\ receipt[d.request] = d.outcome
=============================================================================
