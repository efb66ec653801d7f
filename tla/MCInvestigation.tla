-------------------------- MODULE MCInvestigation ---------------------------
(* One execution id, two requests that say different things under it, and   *)
(* every token that the controller can come to issue for it.                *)
EXTENDS Investigation, TLC

CONSTANTS a1, x1, z1, l1, l2

MCIdOf == [c \in Contents |-> x1]
MCAuthorizationOf == [c \in Contents |-> z1]

\* The lease is lost and found again, and renewed once.
MCRenewals == {<<l1, NoAuthority>>, <<NoAuthority, l1>>,
               <<l1, l2>>, <<NoAuthority, l2>>}

MCRequests == [content : Contents, binding : Tokens \cup {Unbound}]
MCAdapterOf == [r \in MCRequests |-> a1]

\* Contents are only compared, and no property is about liveness.
MCSymmetry == Permutations(Contents)
=============================================================================
