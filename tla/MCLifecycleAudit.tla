-------------------------- MODULE MCLifecycleAudit --------------------------
(* Two requests, their histories audited after every event.                 *)
EXTENDS LifecycleAudit, TLC

CONSTANTS r1, r2, o1, a1, a2

MCAdapterOf == (r1 :> a1) @@ (r2 :> a2)
=============================================================================
