------------------------------ MODULE MCReaders -----------------------------
(* Two requests with one adapter, one of them being recovered at a time     *)
(* while the live process still works on either.                            *)
EXTENDS Readers, TLC

CONSTANTS r1, r2, o1, o2, a1

MCAdapterOf == [r \in Requests |-> a1]

\* Requests have the same adapter and outcomes are only compared; the run has no
\* liveness property.
MCSymmetry == Permutations(Requests) \cup Permutations(Outcomes)
=============================================================================
