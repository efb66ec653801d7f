# A TLA+ model of CYDRA

CYDRA acquires the context of a bounty program, builds a model of the target's
source, plans observations and executes them through one gateway that must
leave durable, unambiguous evidence. This directory holds TLA+ modules
translated from the Python code under `cydra/`, the TLC configurations that
check them, and TLAPS proofs of the results that matter most. `PROJECT.json`
maps every definition to the lines it models.

File names below are relative to `src/`, line numbers to the commit checked in there.

## 1. The system

### Components

| component | source | state | operations | in the model |
|---|---|---|---|---|
| external execution gateway | `cydra/external_execution.py` | durable requests, lifecycle states and receipts behind four callbacks; `_local_states`, `_executed_digests`, `_adapters` in memory | `register`, `execute`, `rehydrate_result`, `reconcile_result` | `Gateway`; several over one store in `SharedStore` |
| lifecycle table | same, and its copy in `cydra/execution_lifecycle.py` | none | legal transitions | `LifecycleTable`, `Lifecycle` |
| execution recovery | `cydra/execution_recovery.py` | none of its own | `recover` | `Recovery`, `Readers` |
| lifecycle history validator | `cydra/execution_lifecycle.py` | none: a fold over a history | `validate_execution_lifecycle` | `LifecycleAudit`, `Readers` |
| investigation authority | `cydra/investigation_execution.py` | tokens and bound requests in memory; the controller is elsewhere | issue, bind, validate, reissue | `Investigation` |
| program intake and resource graph | `cydra/program_intake.py` | contract, resources, contents | acquire pages, build contract, expand references | `ProgramIntake` |
| live contest acquisition | `cydra/live_contest.py` | the acquisition and its receipt | `acquire_live_contest` | `ProgramIntake` |
| system model graph | `cydra/system_model.py` | nodes, edges | add, update, connect, validate, save, load | `SystemGraph` |
| recon and projections | `cydra/recon.py`, `cydra/system_model_ingestion.py`, `cydra/repository_graph.py`, `cydra/repository_model.py` | a snapshot | scan, project | `Projection` |
| hypotheses and planner | `cydra/hypothesis.py`, `cydra/planner.py` | beliefs, plans | update a belief, choose an observation | `Beliefs` |
| invariants and their hypotheses | `cydra/invariants.py`, `cydra/invariant_hypothesis_bridge.py` | candidates, verification states | generate, verify, persist as hypotheses | `Candidates`, `Bridge` |
| scope policy | `cydra/scope.py` | rules | decide | `Projection` |
| execution request identity | `cydra/execution_request.py` | none: an immutable value | digest, reload | a request is its digest |
| page fetcher, project build, AST extraction, ENS binding | `cydra/immunefi_live.py`, `cydra/project_build.py`, `cydra/ast_dataflow.py`, `cydra/ens_target.py` | none | I/O, syntax walks, fixed data | not modelled |

### How they interact

An observation planned by the planner carries a canonical execution request.
`issue_execution_authorization` takes a snapshot of a live controller's
authority, and `bind_execution_request` writes the snapshot into the request's
parameters, which gives it a new digest. `execute` checks the binding if it is
handed the token, and then makes durable callbacks around one adapter call:
`persist_request`, `PERSISTED`, `RUNNING`, the adapter, `persist_result`,
`RESULT_RECORDED`, `COMPLETED`. Every callback can raise, before or after it
took effect, and the process can die between any two. A fresh process has only
the store: `recover` reads it and rebuilds a result without running anything,
`reconcile_result` lets an operator settle an open outcome, the validator
replays the history, and `reissue_execution_authorization` rebuilds a token
from a persisted request. Program intake feeds the system model, from which
invariants, hypotheses and then observations are derived; those stages are
pure data transformations over one graph.

### What is hard, and what makes each component correct

- **Gateway**: partial failure at each callback, crashes, retries, and memory
  that may disagree with the store. Correct when an external effect happens at
  most once per request, when what the store says has its evidence, and when
  every reader of the store sees only the promised lifecycle.
- **Gateways over one store**: the state is checked in one callback and written
  in another, each gateway remembers states of its own, and an adapter object
  serves the last gateway that registered it. Correct when a second run takes a
  real race and when no interleaving records what did not happen.
- **Recovery and validator**: several reads of a store that another process
  writes; an independent copy of the table. Correct when a recovered completion
  is the final one, when the validator accepts what `execute` legitimately
  writes, and when the two readers agree.
- **Authority**: snapshots that go stale, and two requests of one execution id
  under one snapshot. Correct when a checked run is under a token that was
  issued, when a lost lease stops all but the run in flight, and when a token
  does not run the same request twice.
- **Intake**: a bounded breadth-first expansion over a link structure that has
  cycles and paths of different lengths, and two fetches of each page. Correct
  when the graph is exactly the bounded closure and is fail-closed when a
  resource is unresolved.
- **System model and projections**: scans repeated under changing scope and
  sources over nodes that exist already, a projection that stops half-way at a
  conflict, records changed in place, and a file that is read back into other
  Python shapes. Correct when edges stay sound, when what was saved loads, when
  no scan brings in anything of an excluded file, and when a path has one scope.
- **Candidates and bridge**: names made from what was found so far; invariants
  collected at one moment and persisted at another. Correct when no candidate
  is lost and when a hypothesis is informed by one invariant, supported then.
- **Beliefs and planner**: evidence counted again, rounding, and a planner that
  is silent when the beliefs it weighs are all zero. Correct when belief moves
  only with a polarity, is not certain early, and one refuted hypothesis does
  not end the question.

`PROJECT.json` lists each hazard at its line.

## 2. The modules

```
LifecycleTable ── Lifecycle            the promise
    │ │               ▲ refinement mapping: state, receipt
    │ └──── Gateway ──┘                execute, reconcile_result, crashes
    │         │ ├── Recovery ────────┐ recover beside a live gateway
    │         │ ├── LifecycleAudit ──┴── Readers   the validator, and both
    │         │ └── Investigation      authority in front of the gateway
    └── SharedStore                    several gateways, one store
ProgramIntake                          intake and live contest
SystemGraph ─┬─ Projection             scans and the rest of what writes the model
             └─ Candidates             what the model's edges give rise to
Beliefs ── Bridge                      hypotheses, planner, verified invariants
*Proofs                                theorems about the module of that name
                                       (ReadersProofs: Recovery and the audit
                                       too; GraphProofs: Projection,
                                       SystemGraph, Candidates)
SetInduction                           induction and recursion over numbers,
                                       for the proofs
MC*                                    values of the constants for TLC
```

### Gateway

`pc` is the step of the call in flight and `req`, `result`, `target` its
arguments; `pc = "idle"` means that no call is running. One action stands for
one durable callback together with the memory writes that follow it before the
next callback:

| action | code (`cydra/external_execution.py`) |
|---|---|
| `Register` | 43-48 |
| `Execute` | 67-78, the checks before the first effect |
| `PersistRequest`, `MarkPersisted`, `Start` | 79, 80, 81 |
| `AdapterMissing`, `AdapterReturns`, `AdapterRaises`, `AdapterMismatches` | 82-88 |
| `MarkFailure`, `MarkUnrecorded` | 61-66 |
| `PersistResult`, `Record`, `Complete` | 89-93 |
| `Reconcile`, `ReconcilePersist`, `ReconcileState` | 100-105 |
| `Crash` | a fresh object, 41-42 |

A callback answers `"done"`, `"lost"` (raised before its effect) or `"late"`
(raised after it). `SetState` is `_state`: table, store, then memory.
`SetStateOrMemory` is `_mark_failure` and `_mark_unrecorded`, which fall back on
memory when `_state` raises. The read inside `_current_state` is part of the
action it guards; one that raises has the same outcome as `"lost"`. `runs` is a
history variable that counts adapter runs over all processes, up to 2.

Assumptions of the module:

- one live process owns the gateway at a time, so nothing else writes the store
  between a read and the write it guards (`SharedStore` drops this);
- `Execute` stands for a call whose authorization arguments match (68-71) and
  whose gateway has both persistence callbacks (75); other calls change nothing;
- `DurableState = FALSE` is a gateway without state callbacks, and
  `PersistMarksState` a store that records `PERSISTED` together with the
  request. Both are constants, so the proofs cover every combination.

`Lifecycle` is the abstract specification: the durable state moves along the
table, a completion needs a receipt, and a receipt can be stored only while its
outcome is open. So settled evidence never changes.

### Recovery

The four reads of `recover` (request, state, receipt, and the state again inside
`rehydrate_result`) are four actions interleaved with the whole gateway.
The recovering process has its own gateway object with an empty memory, so it
sees only the durable state. `delivered` collects what `recover` returned.
`PayloadNamesAdapter` says whether receipts carry the key `adapter`.

### LifecycleAudit

The validator folds a history event by event; the fold of every request is
the variable `audit`, updated as the gateway's callbacks take effect. The writer
of the history is outside the repository: a callback that takes effect appends
the event it is named after (`persist_request`, `persist_result`,
`set_execution_state`), and the caller of an `execute` that returned appends the
completion event.

### Readers

`Readers` runs `Recovery` and `LifecycleAudit` beside one gateway: a step is a
step of the gateway with the events it appends, or a read of `recover`. The
validator's premise that `persist_request` records `PERSISTED` makes
`PersistMarksState` true here; the run's two requests have one adapter,
so they are symmetric.

### SharedStore

Several gateway objects, in one process or in many, over one store, and the one
request that all of them may execute and reconcile. A second request would share
nothing with it but the adapter objects, whose rebinding is possible with one.
Because another gateway can write between any two callbacks, `_state` is two
actions here, `ReadState` (which the table judges) and `WriteState`, and the
choice between `PERSISTED` and `RUNNING` after `persist_request` is a third,
`Look`. `at`, `call`, `goal` and `result` are per gateway: the callback it is
about to make, the call it belongs to, the state to be written, the result to
be stored. `call = "mark"` is `_mark_failure` or `_mark_unrecorded`, inside an
`execute` that is about to raise. A read that raises has the effect of a write
that is lost.

An adapter object holds the capability of the gateway that registered it last,
and refuses to run for another, as the adapters under `tests/` do.
`_adapter_gateways`, which is to refuse a second gateway, belongs to one
gateway and so never does. `Restart` drops one gateway and its call. The
history variables `raced` and `overlapped` say whether two gateways were between
the check of `execute` and `RUNNING` together, and whether two calls were in
flight; two properties say what holds without them. That an adapter was rebound
is exempted from none: `OutcomeHasRun` holds all the same, since the adapter
refuses before it runs and `FAILED` is what gets recorded, and
`AdapterKeepsGateway`, the promise itself, is violated (section 5).

### Investigation

A request is a record of its content, which is everything it says but for the
binding, and of its binding: the assumption on `Requests` says exactly that,
since both are digested. `IdOf` and `AuthorizationOf` give the two fields of a
content that the code compares; two contents may agree in both and differ in
target or command. A token is its canonical payload, so a binding is a token or
`Unbound`. `Bind` compares the execution id, the existing binding and the live
controller and nothing else, `ExecuteBound` the whole binding, the execution id
and the authorization id: so requests of different content and one execution id
can be bound with one token, and all of them run checked.

The controller is outside the repository. An authority stands for
`investigation_id`, `authority_fingerprint` and lease generation together, since
the code compares all three for equality wherever it compares one, and
`NoAuthority` for a controller whose `require_active` raises. `Renewals` says
which authority may follow which; the change comes at any moment, between two
callbacks too. `Issue`, `Bind`, `Reissue` and `ExecuteBound` are the functions of
`investigation_execution.py`; `ExecuteUnchecked` is `execute` without the
optional argument. `Restart` is the gateway's crash, with the loss of tokens and
request objects. `validate_live` is one atomic look at the controller: it
compares every attribute last, so a change during it has the effect of a change
before or after it.

`late` counts the adapter runs, recorded when the adapter runs and not when the
binding was checked, of requests whose token names another authority than the
controller holds at that moment; it starts again whenever the controller
changes. `granted` is what `issue_execution_authorization` ever returned, so a
token that `Reissue` makes up is not in it.

### ProgramIntake

A locator stands for its resource and a content for the set of references it
links and, for the information page, the words "known issues". `acquire_live_contest`
fetches the three pages, fetches them again through `acquire_contract`
(the publisher may edit one in between), builds the contract and expands the
references with an explicit frontier. A fetch that raises ends the call
(`FetchFails`). A fetcher answers at the locator it was asked for:
`PublicHttpFetcher` refuses redirects, and locators are
canonical. Locator syntax, link classification and serialisation are abstracted.
That the worklist empties is stated without fairness, as a measure that every
step of the expansion lowers (`Remaining`, `ExpansionEnds`).

### SystemGraph

`graph` is the model in memory: nodes by identity, each with a kind, a label and
attributes, and a set of edges. A call that raises changes nothing and is left
out; `CanAdd` and `CanConnect` are the conditions under which `add_node` and
`add_edge` do not raise. `file` is the one saved copy: `save` empties it
(`SaveOpens`) and then writes it (`SaveWrites`), and a crash in between leaves
it `Torn`. `Json` is export followed by `from_dict`: a tuple comes back as a
list, so sequence-valued attributes are pairs of shape and content. `Problems`
is `validate`; of the ten sorts of reference lists of a finding one is kept, and
of the rules that compare fields one of each kind. `touched` says whether a
caller added or changed a record node in this process. `CallerAssumption` says
that callers pass attributes that survive the file, as every caller in the
repository does by turning its tuples into lists; `BaseAssumption` that a process
starts from a model that would load.

### Projection

`Scan` gives the nodes and edges of one path after another, under the scope that
`Decide` finds: the last rule that matches wins. Walking directories and parsing
Python are abstracted to `Sources`, what each file declares, in order.
`ToCanonical` adds the nodes up to the first that `add_node` refuses, and keeps
them. `ProjectRecon` keeps what is there. `ProjectRepository` and
`AddAstEvidence` write contracts and compiler evidence; a contract's nodes carry
the file it was declared in, in their identity and in the attribute `file`, and
no scope is asked for it. A node's `scope` is the attribute `scope_state` of
`to_canonical` and `scope` of `project_recon_model`. `Next` interleaves them
with callers' nodes, edges, updates, saves, crashes and loads. `opened` and
`passive` are histories of paths: those some scan did not find out of scope, and
those `project_recon_model` has met. `ProjectionAssumption` says that the kinds
the code writes as literals are node kinds, that callers give nodes neither a
`path` nor a `file`, and that updates write none of `path`, `scope`, `file` and
`source_kind`: in the repository nobody else does.

### Candidates

State functions of the graph: the identities that `candidates_from_system_model`
gives to what the edges say, with the edges they rest on. The function is pure
and appends nothing, so it has no action of its own; its property speaks of any
two successive graphs.

### Beliefs and Bridge

A belief is a number of steps between 0 and `One = 2^Precision`, and a
confidence a number of halves, so that `update_hypothesis` rounds (half to
even, like a float near 1.0) where a float of `Precision` bits would. Of
`information_gain` the model keeps when it is a number at all, which is what
`choose_next_observation` needs to propose anything; how much is gained is a sum
of logarithms.

`Bridge` adds invariants with their verification and evidence edges.
`Collect` is `hypotheses_from_verified_invariants` or its planner variant, and
`Persist` starts `persist_invariant_hypotheses` on what was collected, any number
of calls later; it writes one item at a time and the first refused item ends it.
Who verifies invariants, and which names the planner gives, is up to the caller,
so both are chosen freely.

## 3. Runs

| run | what it asks | distinct states |
|---|---|---|
| `gateway` | two requests, two outcomes, all faults, crashes at every step: `TypeOK`, `AtMostOnce`, `CompletionHasReceipt`, `EvidenceLineage`, `ExecutedAreTerminal`, `MemoryNeverOverclaims`, `OnlyRecordedFailureRefused`, the refinement `ImplementsLifecycle`, and the liveness property `OpenOutcomesSettle` | 18 476 |
| `gateway_unregistered` | violation of `NothingLeftRunning` | |
| `shared` | two gateways, two adapter objects, two outcomes, faults and restarts: `RunsAgainOnlyWhenRaced`, `CompletedHasReceipt`, `OutcomeHasRun`, `TurnsFollowLifecycle` | 153 177 |
| `shared_rebound` | violation of `AdapterKeepsGateway` | |
| `readers` | two requests, recovery and validator beside a live process that crashes: `RecoveredCompletionIsFinal`, `RejectedIffReconciled`, `RecoveredCompletionIsAudited` | 2 661 687 |
| `audit_reconciled` | violation of `ReconciliationAccepted` | |
| `investigation` | two contents of one execution id under two authorities, lost, found again and renewed between any two callbacks, restarts: `CheckedRunsWereGranted`, `LossStopsAllButOne`, `OncePerToken` | 2 047 357 |
| `investigation_unchecked` | violation of `BoundRunsAreChecked` | |
| `intake` | three references, every link structure, depth 2: `GraphIsBoundedClosure`, `FetchedOnce`, `ExpansionEnds` | 677 958 |
| `intake_ready` | violation of `UnresolvedNotReady` | |
| `graph` | four calls in every order over one model, with saves, crashes and loads anywhere: `StructureSound`, `OnlyRecordsInvalidate`, `RoundTrip`, `ScansHonourScope`, `OneScopePerPath`, `CandidatesPersist` | 292 922 |
| `beliefs` | six calls over two hypotheses and two invariants: `NoEarlyCertainty`, `BeliefMovesWithState`, `QuestionStaysOpen`, `InformedWhenSupported`, `OneQuestionPerHypothesis` | 343 445 |

Each passing run also checks the type invariant of its module. Operators whose
comment begins with "Slip" are plausible mistakes in the code; they are used by
no specification, and substituting one for the definition next to it breaks the
property named in `PROJECT.json`.

### Bounds

- *Requests.* Requests share only the call in flight and the set of registered
  adapters; two requests with different adapters show every interference there
  can be. The proofs drop this bound.
- *Outcomes.* Two, so that a replaced receipt differs from the one before.
- *Faults.* At every callback, any number of times; crashes too.
- *`runs`.* Saturates at 2: the properties ask for "at most once" and "some".
- *Gateways.* Two, since a race, a rebinding and a stale memory each take two;
  the theorems hold for any number. Gateways, adapters and outcomes are
  symmetric. A second run, a stale `PERSISTED` written over `RUNNING`, and a
  `FAILED` without a run are all reachable.
- *System model.* `MaxCalls = 4` calls that change the graph: enough to scan a
  path under one policy, again under another or in another version, project it
  the other way, and bind a request or add evidence in between. One path has
  three policies and two versions whose nodes conflict; the second one is
  scanned before it, so that a projection stops half-way. Loads, saves and
  crashes are not counted.
- *Beliefs.* `Precision = 3`: certainty takes three updates of one hypothesis and
  six calls reach it for both. The last of the outcomes of `MCBridge` is one
  that `CandidateVerification` refuses.
- *Investigation.* Two contents of one execution id, so that one token can be
  written into both; two authorities, of which the first can be lost and found
  again and the second replaces it for good, so that a token is current, stale
  and current again. `MaxKnown = 3` requests in the process and the store
  together, and `MaxStored = 2` executed ones: a request unbound and bound, or
  bound under both authorities, or two contents under one, with one beside
  them. Store faults are left to the `gateway` run, since the composition is a
  gateway (theorem `Composition`). The theorems drop all of these bounds.
- *Intake.* Three references and depth 2 give a reference reachable at depth 1
  and 2, cycles, a self-link, and one beyond the bound. Two of the three
  pages link references; the third differs only in its place in the frontier.
  `CHECK_DEADLOCK FALSE` there, because an acquisition ends, and in `beliefs`,
  because callers may stop and their calls are bounded.

### Fairness

Only `gateway` checks liveness. Weak fairness of `ExecuteStep` and
`ReconcileStep`: a Python call that does not die runs on. For each request
strong fairness of the operator's attempt to reconcile it to `COMPLETED`, and
of the two callbacks of that attempt succeeding: someone keeps bringing the
result, and neither crashes nor the store spoil every attempt at the same
point. Nothing in the code retries by itself, so nothing weaker settles an open
outcome; attempts at `FAILED` do not count, because they cannot settle a request
in `RESULT_RECORDED` (section 5).

## 4. Proofs

Eight modules hold theorems. Those about the gateway and what is composed with
it hold for every set of requests, outcomes, adapters, tokens and authorities,
every set of faults, with and without crashes; those about the other modules for
every value of their constants too: every precision, depth, link structure,
repository, scope policy, contract and caller. The only assumptions are those
named in the modules, and that references are finitely many in
`ExpansionTerminates`.

`TypeOK` is inductive by itself. The safety properties are not: that a request
about to run has not run before depends on what the call in flight knows of it.
The inductive invariant `IInv` adds

- `StoreLeads`: without state callbacks the store is silent, with them the
  memory knows no request the store does not know;
- `CallShape`: the current state of `req` at each step of a call; the delicate
  case is `mark_unrecorded`, which a `"late"` answer to `COMPLETED` reaches with
  the store already completed;
- `CallRuns` and `SettledRan`: `runs` is 0 up to the adapter call and 1 after
  it, and a request past `RUNNING` has run. These two need the store to be
  durable or the process not to die (`Remembered`), and so does `AtMostOnce`:
  without state callbacks a restart forgets everything.

TLC checked `IInv` inductive on one request for all configurations first.

| theorem | says |
|---|---|
| `TypeCorrect`, `InvariantHolds` | `Spec => []TypeOK`, `Spec => []IInv` |
| `ReplayBarrier` | at most one adapter run per request |
| `CompletionNeedsReceipt`, `LineageHolds`, `BarrierIsTerminal`, `MemoryFollowsStore` | the other invariants of the `gateway` run |
| `ReconcileEndsAsAsked` | a reconciliation whose callbacks succeed ends as asked, but for failing a recorded result |
| `Refinement` | with durable state callbacks, `Gateway` implements `Lifecycle` |
| `RecoveryTyped`, `RecoveryIsFinal` | recovery is typed; a recovered completion is final |
| `AuditTyped`, `RejectsReconciledOnly`, `ReadersAgree` | the three properties of the audit in the `readers` run |
| `Composition`, `AuthTyped` | `Investigation` is a gateway, so all of the above hold of it; it is typed |
| `CheckedIsGranted`, `OneStaleRun`, `OneRunPerToken` | the three properties of the `investigation` run |
| `SharedTyped`, `SecondRunNeedsRace`, `RacesKeepReceipts`, `RacesInventNoOutcome`, `TurnsKeepLifecycle` | the properties of the `shared` run, for any number of gateways |
| `IntakeTyped`, `NoSecondFetch` | the intake is typed; a reference is fetched at most once, at every depth |
| `ExpansionIsClosure` | the finished graph is exactly what lies within `MaxDepth` links of the pages |
| `ExpansionTerminates`, `RemainingIsNatural` | every step of the worklist lowers a natural number |
| `GraphTyped`, `StructureAlwaysSound` | the model is typed; its edges are sound in memory and in the file |
| `SavedReadsBack`, `OnlyCallersInvalidate` | what is in the model reads back unchanged; only callers' records can make it fail `validate` |
| `DiscoveryKeepsCandidates` | no invariant candidate is lost by discovering more |
| `ScansKeepScope`, `PathKeepsOneScope` | no scan brings in anything of an excluded file; a path has one scope |
| `BeliefTyped`, `BeliefMovesOnlyWithState` | beliefs stay in range at every precision, and move only with a polarity |
| `CertaintyTakesUpdates`, `PlannerKeepsAsking` | certainty takes `Precision` updates; until then the planner can propose an observation |
| `OneQuestion`, `InformsOnlySupported` | the two properties of the bridge |

`Refinement` shows each step to be an `Advance`, a `StoreReceipt` or a stutter
(`WriteIsAdvance`, `WriteIsStore`, `AbstractStep`). Its corollary
`SettledIsFrozen` is what `RecoveryIsFinal` rests on: once recovery has read
`COMPLETED`, neither state nor receipt can change. `OneRunPerToken` combines
`Own` below with the replay barrier: two requests of one content that were
checked against one token carry it as their binding, so they are one request.

The other invariants, and why they are needed:

- `ReadersProofs`, `AInv`: `FoldFollows` says that the fold of each request is in
  the state of the store and has seen its receipt, and `FirstReceipt` that a
  request about to store its result has no receipt yet. The second follows from
  `IInv`: a receipt is of a request that ran, and before the adapter call this one
  has not. A lemma per event says what it does to a fold; a legal transition
  with its receipt adds no problem, a receipt outside `RUNNING` always adds one.
- `InvestigationProofs`, `AuthInv`: `Traced` follows every token, every binding of a
  request the process can get hold of and every check back to what was issued,
  `Own` says that a check was against the request's own binding, and `OneLate`
  that after one stale run none is on its way: until the controller changes
  again, a call begins only after comparing its token with it. Each step but
  those of the authority is a step of the gateway, so `Composition` hands over
  `IInv` and the replay barrier.
- `SharedStoreProofs`, `SInv`: what each callback of a gateway knows does *not*
  include the state of the store, which another may have written since. What it
  keeps: `CallShape` relates step, call and goal; `ReceiptFirst` and `RunFirst`
  say that a goal past the receipt, or past the run, has it. `OneWindow` says
  that without a race at most one gateway is between the check and `RUNNING`,
  that the request has not run and the state is not past `PERSISTED` while one
  is, and that the state is past it once a gateway is beyond; `Alone` says that
  without overlapping calls a goal that was judged legal still is.
- `IntakeProofs`, `EInv`: what waits in the frontier has its content
  (`FrontierAcquired`), references are planned only below the bound, and a fetched
  reference is in the graph, which is why it is not fetched again.
- `IntakeProofs`, `RankedBy`: the closure needs to know at which depth each
  resource was entered, which no variable records. The invariant says that *some*
  rank of the resources exists such that pages have rank 0 and every other
  resource is linked from one of the rank before; the frontier is sorted by rank
  and no rank is beyond `depth + 1`; and whatever a resource already
  expanded below the bound links is in the graph, at most one rank later, or in
  `plan`. Each action preserves it with the same rank or with one more entry. At
  the end nothing is left in the frontier or the plan, and an induction over the
  levels gives both inclusions. With the newest entry taken first (the slip
  `Visit_Newest`) the frontier is not sorted and the property is false.
- `IntakeProofs`, termination: an entry of the frontier or a reference not yet
  known weighs more than all that one resource can link, so taking an entry pays
  for its plan, and adding a resource is paid for by its becoming known.
- `GraphProofs`, `IInv`: the graph in memory and the saved one are `Kept`, that
  is `Sound` (`StructureProblems = {}` in the form the provers use) and `Plain`
  (typed, and unchanged by the file); until a caller touches a record the graph
  is `Valid` as well, and a save in progress has emptied the file. One lemma per
  projection and call says what it adds. Those about a scan rest on facts about
  `FlattenSeq` (`FlattenSeqMadeOf`): an element of a flattened sequence comes
  from one of its parts, so every item of a scan is of one path, under the scope
  that `Decide` found for it, and every link is between items of one path.
- `GraphProofs`, `ScopeInv`: `Unread` says that a node of a path never opened is
  its file node, `FileRules` that the nodes of a path which
  `project_recon_model` has not met have the scope of its file node. Both are
  kept of the saved file too, because a load brings its graph back. `ToCanonical`
  is the delicate case: it stops at the first conflict, and a path whose scope
  changed conflicts at its file node, which comes first.
- `GraphProofs`, `LabelInv`: a node that names the file it was declared in has
  the mark of `project_repository_model`, in the graph and in the saved file.
  `ScansKeepScope` joins it with `Unread`: of a path never opened there is the
  file node and what that projection wrote.
- `BridgeProofs`: an `informs` edge leads to a node that is there, so a new node
  has none yet. `BeliefTyped` rests on bounds of `Move` and `Quarter`, for every
  `One` that is even. `CertaintyTakesUpdates` rests on `MarginLeft`: an update
  leaves at least half of what a belief had to either end, rounding included, so
  after `u` updates `2^(Precision - 1 - u)` is left. `PlannerKeepsAsking` follows:
  a belief with anything left makes the total of the beliefs positive.

Induction. A theorem whose parameter is an operator cannot be instantiated, so
`SetInduction` states induction for a set (`NatBySuccessor`: a set of naturals
with 0 and all successors is all of them) and recursion for a function of step
functions (`Recursion`), both from the library's well-foundedness of `<` on the
naturals. `Pow2` in `Beliefs`, `FlattenSeq` and the levels of `WithinHops`
are recursive functions, and their facts are proved by applying these to the set
of numbers for which the fact holds.

Proving changed the model in one place: a union of several `UNION`s in `Problems`
was read by the two tools in different ways, and is now written without the
ambiguity. The scope theorems needed `ProjectionAssumption` to be said out loud.

Only model-checked: the liveness property `OpenOutcomesSettle`, which the prover
does not handle under fairness. Every other property of the passing runs is the
conclusion of a theorem.

## 5. Where code and documents disagree

1. `gateway_unregistered`: `execute` looks the adapter up after recording
   `RUNNING` (line 82), outside its `try` blocks. An unregistered name leaves the
   request `RUNNING` for ever; line 74 calls that "already terminal or in-flight".
2. `shared_rebound`: `_adapter_gateways` is kept per gateway (line 42), so the
   check of line 47 never sees another gateway's registration, and a second
   gateway takes the adapter over. `UPDATE_LOG.md:87` says that it cannot, and
   `tests/test_external_execution.py:68-71` expects the registration to raise.
3. `audit_reconciled`: the validator rejects every reconciled history, although
   its table allows the transitions.
4. `investigation_unchecked`: a request bound to an authority runs unchecked
   when the optional argument is left out; the module's docstring says that
   execution requires a live controller.
5. `intake_ready`: `ready_for_active_testing` ignores unresolved references,
   which the docstring calls fail-closed and `tests/test_live_contest.py` expects
   to block.

Behaviour that no document promises otherwise, or that no run of its own shows:

- A crash while `RUNNING` leaves a state that no operation accepts.
- `reconcile_result` accepts `FAILED` for a request in `RESULT_RECORDED`, replaces
  its receipt, and is then refused by the table (`OnlyRecordedFailureRefused`
  says that this is the only such case).
- Two gateways over one store that race do run a request twice; the property
  says that it takes a race.
- `recover` wants `payload["adapter"]` (line 77), which `validate_result_binding`
  does not ask for; the receipt of `tests/test_execution_recovery.py:46-78` lacks
  it and is expected to be recovered. `PayloadNamesAdapter` is this guard; one
  call with one payload shows the disagreement, so no run is spent on it.
- Two requests of one execution id that say different things can be bound with
  one token and both run checked, since `bind_execution_request` (line 58) and
  `validate_execution_binding` (lines 71-72) compare identities and not digests;
  the docstring of `investigation_execution.py` calls the authorization "bound to
  an exact execution request". `OncePerToken` is stated per content for this
  reason.
- The check of a binding precedes two durable callbacks, so a run can be under an
  authority that was lost meanwhile. `LossStopsAllButOne` says that it is one.
- `project_repository_model` takes no scope, so contracts of an excluded file
  enter the model if they are handed to it. `ScansHonourScope` says that nothing
  else of such a file does, its file node apart.
- `save` empties the only copy before it writes it: a crash in between loses the
  saved model. `StructureSound` says only that nothing torn is taken for one.
- The name of a cross-function candidate lists the functions that update a state,
  so one more renames it; `CandidatesPersist` claims less of those.
- `project_recon_model` keeps the old scope of nodes that are there already, so
  `OneScopePerPath` leaves out the paths it met.
- `competing_hypotheses_from_candidates` builds `Hypothesis` objects with fields
  the class does not have (`tests/test_invariant_hypothesis_bridge.py:44`): it
  raises `TypeError`, changes no state, and is not modelled.

## 6. Plan

Done, in order of importance: lifecycle and gateway; recovery; validator; intake;
investigation authority; system model with projections; candidates; beliefs and
bridge; both readers together; several gateways over one store; and the theorems
of section 4. Left:

1. Request identity (`execution_request.py`): freezing and thawing of parameters,
   and that a reloaded request has the digest it was stored under.
2. Intake: `known_issue_applies`, and `contract_to_system_model` into
   `SystemGraph`.
3. Conditions of scope rules, `require_active_testing`.
4. Theorems: that every call of the gateway ends, by a measure like that of the
   intake's worklist; and that gateways whose calls do not overlap implement
   `Lifecycle`, of which `TurnsFollowLifecycle` is the step.

## 7. Not modelled

Network, file-system and subprocess work (`immunefi_live.py`,
`project_build.py`), syntax extraction (`ast_dataflow.py`, the walking of
`recon.py`), fixed target data (`ens_target.py`), JSON serialisation and command
lines. The content of the adapter's work is outside the repository; what the
model keeps of it is whether it refused, returned, raised, or returned a result
bound to something else. Of `execution_request.py` a request is its digest. The
invariant registry is a dictionary that refuses duplicates, and the amount of
information an observation gains a sum of logarithms: both are left out.
