------------------------------ MODULE Lifecycle -----------------------------
(* What the execution gateway promises to whoever reads its durable store:  *)
(* a request advances only along the lifecycle table, never reaches a       *)
(* recorded or completed state without a durable receipt, and its receipt   *)
(* is written only while its outcome is open, so the evidence of a settled  *)
(* request never changes.                                                   *)
EXTENDS LifecycleTable

CONSTANTS Requests,   \* digests of execution requests
          Outcomes,   \* outcomes a bound result can carry
          NoReceipt   \* no durable receipt

VARIABLES state,      \* durable lifecycle state of every request
          receipt     \* durable receipt of every request

vars == <<state, receipt>>

TypeOK == /\ state \in [Requests -> States]
          /\ receipt \in [Requests -> Outcomes \cup {NoReceipt}]

Init == /\ state = [r \in Requests |-> "ABSENT"]
        /\ receipt = [r \in Requests |-> NoReceipt]

\* One durable lifecycle transition.
Advance(r, s) ==
    /\ Legal(state[r], s)
    /\ s \in {"RESULT_RECORDED", "COMPLETED"} => receipt[r] # NoReceipt
    /\ state' = [state EXCEPT ![r] = s]
    /\ UNCHANGED receipt

\* One durable receipt, first or replacing an earlier one.
StoreReceipt(r, o) ==
    /\ state[r] \in {"RUNNING"} \cup Unsettled
    /\ receipt' = [receipt EXCEPT ![r] = o]
    /\ UNCHANGED state

Next == \E r \in Requests :
            \/ \E s \in States : Advance(r, s)
            \/ \E o \in Outcomes : StoreReceipt(r, o)

Spec == Init /\ [][Next]_vars
=============================================================================
