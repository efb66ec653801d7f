------------------------------ MODULE MCGateway -----------------------------
(* Small instances of Gateway for TLC.                                      *)
EXTENDS Gateway, TLC

CONSTANTS r1, r2, o1, o2, a1, a2

\* Two requests for different adapters.
MCAdapterOf == (r1 :> a1) @@ (r2 :> a2)
=============================================================================
