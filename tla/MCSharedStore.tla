---------------------------- MODULE MCSharedStore ---------------------------
(* Two gateways, and two adapter objects that each of them may register.    *)
EXTENDS SharedStore, TLC

\* Gateways and adapters are only compared, and no property is about liveness.
MCSymmetry == Permutations(Gateways) \cup Permutations(Adapters)
                \cup Permutations(Outcomes)
=============================================================================
