-------------------------------- MODULE Readers ------------------------------
(* The two readers of the durable store together, both beside a live        *)
(* gateway that may die: the recovery service of Recovery and the lifecycle *)
(* validator of LifecycleAudit.  Readers write nothing, so neither sees the *)
(* other; both see every step of the gateway.                               *)
EXTENDS Recovery, LifecycleAudit

readerVars == <<vars, recovery, delivered, audit, reconciled>>

ReadersInit == RecoveryInit /\ AuditInit

ReadersNext == \/ AuditNext /\ UNCHANGED <<recovery, delivered>>
               \/ RecoverStep /\ UNCHANGED <<audit, reconciled>>

ReadersSpec == ReadersInit /\ [][ReadersNext]_readerVars

-----------------------------------------------------------------------------
(* Properties *)

\* What the recovery service hands out as a completion, the validator finds
\* COMPLETED in the history, and rejects only for receipts that reconcile_result
\* stored: the two readers agree on what is final.
RecoveredCompletionIsAudited ==
    \A d \in delivered : d.state = "COMPLETED" =>
        /\ audit[d.request].state = "COMPLETED"
        /\ d.request \notin reconciled => Accepts(d.request)
=============================================================================
