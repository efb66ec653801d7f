---------------------------- MODULE Investigation ---------------------------
(* Investigation authority (cydra/investigation_execution.py) in front of   *)
(* the gateway.  A controller outside this code holds a lease and an        *)
(* authority fingerprint that may change at any moment; a token is a        *)
(* snapshot of them; a request is bound by writing the token's payload into *)
(* its parameters, which makes it another request with another digest and   *)
(* the same execution_id.  Tokens and request objects die with the process; *)
(* a fresh one rebuilds them from the persisted request.                    *)
EXTENDS Gateway, FiniteSets

CONSTANTS
    ExecutionIds,
    Authorizations,  \* authorization ids
    Contents,        \* what requests say but for their binding
    IdOf,            \* the execution id in each content
    AuthorizationOf, \* and its authorization id
    Names,           \* observation names
    Authorities,     \* investigation_id, authority_fingerprint and lease
                     \* generation that the controller may hold
    NoAuthority,     \* require_active of the controller raises
    Renewals,        \* pairs of what it holds and what may come next
    MaxKnown,        \* bound on requests in the process and the store together
    MaxStored,       \* bound on requests that are executed
    Unbound          \* no authority binding among the parameters

\* A token is its canonical_payload, which is what a bound request carries.
Tokens == [authority : Authorities, id : ExecutionIds, name : Names,
           authorization : Authorizations]

ASSUME InvestigationAssumption ==
    /\ MaxKnown \in Nat /\ MaxStored \in Nat
    /\ IdOf \in [Contents -> ExecutionIds]
    /\ AuthorizationOf \in [Contents -> Authorizations]
    /\ NoAuthority \notin Authorities
    /\ Unbound \notin Tokens
    /\ Requests = [content : Contents, binding : Tokens \cup {Unbound}]

VARIABLES
    live,     \* the authority the controller holds
    tokens,   \* authorizations held by the process
    held,     \* request objects held by the process
    \* history
    granted,  \* tokens that issue_execution_authorization ever returned
    under,    \* token that each request's last execution was checked against
    late      \* checked runs under another authority than the controller holds,
              \* since it last changed, counted up to 2

session == <<tokens, held>>
authHistory == <<granted, under, late>>
authVars == <<vars, live, session, authHistory>>

AuthTypeOK ==
    /\ TypeOK
    /\ live \in Authorities \cup {NoAuthority}
    /\ tokens \subseteq Tokens
    /\ held \subseteq Requests
    /\ granted \subseteq Tokens
    /\ under \in [Requests -> Tokens \cup {Unbound}]
    /\ late \in 0..2

AuthInit ==
    /\ Init
    /\ live \in Authorities
    /\ tokens = {}
    /\ held = {}
    /\ granted = {}
    /\ under = [r \in Requests |-> Unbound]
    /\ late = 0

-----------------------------------------------------------------------------
(* The controller *)

\* The lease is renewed, lost or found again; the authority may change with it.
ControllerChanges ==
    /\ live' \in Authorities \cup {NoAuthority}
    /\ <<live, live'>> \in Renewals
    /\ late' = 0
    /\ UNCHANGED <<vars, session, granted, under>>

\* Slip: validate_live asks no more than require_active.
IsLive_AnyAuthority(a) == live # NoAuthority

\* validate_live of a token for authority a.
IsLive(a) == a = live

-----------------------------------------------------------------------------
(* Authorizing and binding *)

\* Requests in memory, and those that can be read back.
Known == held \cup stored

\* The process comes to hold one more request.
Hold(r) ==
    /\ Cardinality(Known \cup {r}) <= MaxKnown
    /\ held' = held \cup {r}

\* An observation is planned with its canonical request, not yet bound.
Observe(c) ==
    /\ pc = "idle"
    /\ Hold([content |-> c, binding |-> Unbound])
    /\ UNCHANGED <<vars, live, tokens, authHistory>>

IssueFor(i, n, z) ==
    /\ pc = "idle"
    /\ \E r \in Known : IdOf[r.content] = i
    /\ LET t == [authority |-> live, id |-> i, name |-> n, authorization |-> z]
       IN tokens' = tokens \cup {t} /\ granted' = granted \cup {t}
    /\ UNCHANGED <<vars, live, held, under, late>>

\* Slip: an inactive controller's missing authority goes into the token.
Issue_Inactive(i, n, z) == IssueFor(i, n, z)

\* issue_execution_authorization for observation n of execution id i, with an
\* authorization that nothing compares with the request's.
Issue(i, n, z) == live # NoAuthority /\ IssueFor(i, n, z)

\* bind_execution_request compares the execution id and nothing else of what the
\* request says; a binding is never replaced by a different one.
Bind(r, t) ==
    /\ pc = "idle"
    /\ r \in Known /\ t \in tokens
    /\ IsLive(t.authority)
    /\ IdOf[r.content] = t.id
    /\ r.binding \in {Unbound, t}
    /\ Hold([r EXCEPT !.binding = t])
    /\ UNCHANGED <<vars, live, tokens, authHistory>>

Rebuild(r, t) ==
    /\ pc = "idle"
    /\ r \in Known
    /\ tokens' = tokens \cup {t}
    /\ UNCHANGED <<vars, live, held, authHistory>>

\* Slip: the live controller's authority goes into the token, not the bound one.
Reissue_Renewed(r) ==
    /\ r.binding # Unbound
    /\ live # NoAuthority
    /\ Rebuild(r, [r.binding EXCEPT !.authority = live])

\* reissue_execution_authorization over a request read back from the store: the
\* token is the binding, and the caller's authorization must be the one it names.
Reissue(r) ==
    /\ r.binding # Unbound
    /\ IsLive(r.binding.authority)
    /\ Rebuild(r, r.binding)

-----------------------------------------------------------------------------
(* Executing *)

Begin(r) ==
    /\ Cardinality(stored \cup {r}) <= MaxStored
    /\ Execute(r)

ExecuteWith(r, t) ==
    /\ r \in Known /\ t \in tokens
    /\ IsLive(t.authority)
    /\ IdOf[r.content] = t.id
    /\ AuthorizationOf[r.content] = t.authorization
    /\ Begin(r)
    /\ under' = [under EXCEPT ![r] = t]
    /\ UNCHANGED <<live, session, granted, late>>

\* Slip: the binding in the request is not compared with the token.
ExecuteBound_AnyBinding(r, t) == r.binding # Unbound /\ ExecuteWith(r, t)

\* execute with investigation_authorization: validate_execution_binding.
ExecuteBound(r, t) == r.binding = t /\ ExecuteWith(r, t)

\* execute without it: nothing looks at a binding the request may carry.
ExecuteUnchecked(r) ==
    /\ r \in Known
    /\ Begin(r)
    /\ under' = [under EXCEPT ![r] = Unbound]
    /\ UNCHANGED <<live, session, granted, late>>

\* A fresh process has neither tokens nor request objects.
Restart ==
    /\ Crash
    /\ tokens' = {}
    /\ held' = {}
    /\ UNCHANGED <<live, authHistory>>

\* What r was checked against is not what the controller holds.
Stale(r) == under[r] # Unbound /\ under[r].authority # live

GatewayStep ==
    /\ \/ \E n \in Adapters : Register(n)
       \/ ExecuteStep
       \/ \E r \in Known, o \in Outcomes, t \in ReconcileTargets :
              Reconcile(r, o, t)
       \/ ReconcileStep
    /\ late' = IF runs' # runs /\ Stale(req) THEN IF late = 0 THEN 1 ELSE 2
                                            ELSE late
    /\ UNCHANGED <<live, session, granted, under>>

AuthorizeStep ==
    \/ \E c \in Contents : Observe(c)
    \/ \E i \in ExecutionIds, n \in Names, z \in Authorizations : Issue(i, n, z)
    \/ \E r \in Known, t \in tokens : Bind(r, t)
    \/ \E r \in Known : Reissue(r)

AuthNext ==
    \/ ControllerChanges
    \/ AuthorizeStep
    \/ \E r \in Known, t \in tokens : ExecuteBound(r, t)
    \/ \E r \in Known : ExecuteUnchecked(r)
    \/ GatewayStep
    \/ Restart

AuthSpec == AuthInit /\ [][AuthNext]_authVars

-----------------------------------------------------------------------------
(* Properties *)

\* A request that ran in a checked execution ran under a token some controller
\* did issue, for that very authority, execution id, observation and
\* authorization, however often the lease changed, the request was bound again,
\* or a fresh process rebuilt the token from what was persisted.
CheckedRunsWereGranted ==
    \A r \in Requests :
        runs[r] > 0 /\ under[r] # Unbound => under[r] \in granted

\* A lease that is lost or renewed stops everything but the execution in flight:
\* until the controller changes again, at most one checked run is made under an
\* authority that it no longer holds.
LossStopsAllButOne == late <= 1

\* One token runs what one request says at most once: binding it again, issuing
\* or rebuilding the token again, and restarts yield no second checked run.  It
\* is the content that is limited, not the execution id: two requests of one
\* execution id that say different things may both be bound to one token.
OncePerToken ==
    Remembered =>
        \A r, q \in Requests :
            /\ r.content = q.content
            /\ under[r] = under[q] /\ under[r] # Unbound
            /\ runs[r] > 0 /\ runs[q] > 0
            => r = q /\ runs[r] = 1

\* "Execution requires a live controller whose ... lease still match the
\* snapshot": a request that carries an authority binding runs only in an
\* execution that was checked against a live controller.
BoundRunsAreChecked ==
    \A r \in Requests : r.binding # Unbound /\ runs[r] > 0 => under[r] # Unbound
=============================================================================
