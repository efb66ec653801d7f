---------------------------- MODULE ProgramIntake ---------------------------
(* Acquisition of a bounty program: acquire_live_contest of                 *)
(* cydra/live_contest.py over the intake primitives of                      *)
(* cydra/program_intake.py.  The three program pages are fetched twice,     *)
(* once for the receipt and the resource graph and once for the contract,   *)
(* and the publisher may edit a page in between.  Then the graph of         *)
(* referenced resources is expanded breadth first to a bounded depth.       *)
(*                                                                          *)
(* A locator stands for the resource it names; a content is the set of      *)
(* texts that matter in it: the references it links and KnownIssues, the    *)
(* words that extract_known_issues looks for.  Equal contents have equal    *)
(* digests.                                                                 *)
EXTENDS Naturals, SequencesExt

CONSTANTS
    Refs,         \* repositories, documents, audits...: what a plan may follow
    KnownIssues,  \* the text "known issues"
    PageContents, \* contents each program page may have when first fetched
    PageEdits,    \* texts the publisher may add to a page later
    RefContents,  \* contents a referenced resource may have
    MaxDepth      \* max_depth

Pages == {"information", "scope", "resources"}
PageOrder == <<"information", "scope", "resources">>

ASSUME IntakeAssumption ==
    /\ KnownIssues \notin Refs
    /\ Refs \cap Pages = {}
    /\ PageContents \in [Pages -> SUBSET SUBSET (Refs \cup {KnownIssues})]
    /\ PageEdits \in [Pages -> SUBSET (Refs \cup {KnownIssues})]
    /\ RefContents \subseteq SUBSET Refs
    /\ MaxDepth \in Nat

VARIABLES
    fetcher,    \* expand_resource_dependency_graph got a fetcher
    phase,      \* what the call is doing
    fetched,    \* number of page fetches made
    pages,      \* contents of the first fetch of each page
    contract,   \* contents of the second: those of the contract's resources
    resources,  \* the graph
    contents,   \* contents known to the expansion, by resource
    frontier,   \* <<resource, depth>> pairs to expand, oldest first
    plan,       \* references of the resource being expanded, not yet handled
    depth,      \* its depth
    refFetches  \* history: fetches of each reference

expansion == <<resources, contents, frontier, plan, depth, refFetches>>
vars == <<fetcher, phase, fetched, pages, contract, expansion>>

Resources == Pages \cup Refs
Contents == SUBSET (Refs \cup {KnownIssues})

TypeOK ==
    /\ fetcher \in BOOLEAN
    /\ phase \in {"pages", "contract", "expand", "done", "failed"}
    /\ fetched \in 0..6
    /\ pages \in [Pages -> Contents]
    /\ contract \in [Pages -> Contents]
    /\ resources \subseteq Resources
    /\ DOMAIN contents \subseteq resources
    /\ \A r \in DOMAIN contents : contents[r] \in Contents
    /\ frontier \in Seq(Resources \X (0..MaxDepth))
    /\ plan \subseteq Refs
    /\ depth \in 0..MaxDepth
    /\ refFetches \in [Refs -> 0..2]

Init ==
    /\ fetcher \in BOOLEAN
    /\ phase = "pages"
    /\ fetched = 0
    /\ pages = [p \in Pages |-> {}]
    /\ contract = [p \in Pages |-> {}]
    /\ resources = {}
    /\ contents = [r \in {} |-> {}]
    /\ frontier = <<>>
    /\ plan = {}
    /\ depth = 0
    /\ refFetches = [r \in Refs |-> 0]

-----------------------------------------------------------------------------
(* Program pages *)

\* acquire_program_pages of acquire_live_contest.
FetchPage(c) ==
    LET page == PageOrder[fetched + 1] IN
    /\ phase = "pages"
    /\ fetched < 3
    /\ c \in PageContents[page]
    /\ pages' = [pages EXCEPT ![page] = c]
    /\ fetched' = fetched + 1
    /\ UNCHANGED <<fetcher, phase, contract, expansion>>

\* acquire_program_pages once more, inside acquire_contract.
FetchPageAgain(edit) ==
    LET page == PageOrder[fetched - 2] IN
    /\ phase = "pages"
    /\ fetched \in 3..5
    /\ edit \subseteq PageEdits[page]
    /\ contract' = [contract EXCEPT ![page] = pages[page] \cup edit]
    /\ fetched' = fetched + 1
    /\ phase' = IF fetched' = 6 THEN "contract" ELSE "pages"
    /\ UNCHANGED <<fetcher, pages, expansion>>

\* parse_immunefi_program.  A known issue names a KNOWN_ISSUES resource that is
\* not among the contract's resources, and ProgramContract refuses it.
BuildContract ==
    /\ phase = "contract"
    /\ IF KnownIssues \in contract["information"]
       THEN phase' = "failed" /\ UNCHANGED expansion
       ELSE /\ phase' = "expand"
            /\ resources' = Pages
            /\ contents' = pages
            /\ frontier' = [i \in 1..3 |-> <<PageOrder[i], 0>>]
            /\ UNCHANGED <<plan, depth, refFetches>>
    /\ UNCHANGED <<fetcher, fetched, pages, contract>>

-----------------------------------------------------------------------------
(* expand_resource_dependency_graph *)

ExpandEntry(entry, rest) ==
    /\ phase = "expand"
    /\ plan = {}
    /\ depth' = entry[2]
    /\ plan' = IF entry[2] < MaxDepth THEN contents[entry[1]] \cap Refs ELSE {}
    /\ frontier' = rest
    /\ UNCHANGED <<fetcher, phase, fetched, pages, contract,
                   resources, contents, refFetches>>

\* Slip: the newest entry of the frontier is taken first.
Visit_Newest ==
    frontier # <<>> /\ ExpandEntry(Last(frontier), Front(frontier))

\* Slip: the oldest entry is looked at and stays in the frontier.
Visit_Kept == frontier # <<>> /\ ExpandEntry(Head(frontier), frontier)

\* Take the oldest entry and plan the references it links.
Visit == frontier # <<>> /\ ExpandEntry(Head(frontier), Tail(frontier))

SkipKnown(d) ==
    /\ phase = "expand"
    /\ d \in plan \cap resources
    /\ plan' = plan \ {d}
    /\ UNCHANGED <<fetcher, phase, fetched, pages, contract,
                   resources, contents, frontier, depth, refFetches>>

AddUnresolved(d) ==
    /\ phase = "expand"
    /\ ~fetcher
    /\ d \in plan \ resources
    /\ plan' = plan \ {d}
    /\ resources' = resources \cup {d}
    /\ UNCHANGED <<fetcher, phase, fetched, pages, contract,
                   contents, frontier, depth, refFetches>>

\* Reference d, not among the resources known, is fetched and queued.
Fetch(d, c, known, entered) ==
    /\ phase = "expand"
    /\ fetcher
    /\ d \in plan \ known
    /\ plan' = plan \ {d}
    /\ resources' = resources \cup entered
    /\ contents' = [r \in DOMAIN contents \cup {d} |->
                        IF r = d THEN c ELSE contents[r]]
    /\ frontier' = Append(frontier, <<d, depth + 1>>)
    /\ refFetches' = [refFetches EXCEPT ![d] = IF @ = 0 THEN 1 ELSE 2]
    /\ UNCHANGED <<fetcher, phase, fetched, pages, contract, depth>>

\* Slip: a reference is fetched again when another page links it too.
AddFetched_Again(d, c) == Fetch(d, c, {}, {d})

\* Slip: a fetched reference is queued but not entered in the graph.
AddFetched_NotEntered(d, c) == Fetch(d, c, resources, {})

AddFetched(d, c) == Fetch(d, c, resources, {d})

\* The graph is complete; the receipt is written.
Finish ==
    /\ phase = "expand"
    /\ plan = {}
    /\ frontier = <<>>
    /\ phase' = "done"
    /\ UNCHANGED <<fetcher, fetched, pages, contract, expansion>>

\* A fetch raises: the call raises, and nothing it gathered is written.
FetchFails ==
    /\ \/ phase = "pages"
       \/ phase = "expand" /\ fetcher /\ plan \ resources # {}
    /\ phase' = "failed"
    /\ UNCHANGED <<fetcher, fetched, pages, contract, expansion>>

Next ==
    \/ \E c \in Contents : FetchPage(c)
    \/ \E edit \in Contents : FetchPageAgain(edit)
    \/ BuildContract
    \/ Visit
    \/ \E d \in Refs : SkipKnown(d) \/ AddUnresolved(d)
    \/ \E d \in Refs, c \in RefContents : AddFetched(d, c)
    \/ Finish
    \/ FetchFails

Spec == Init /\ [][Next]_vars

-----------------------------------------------------------------------------
(* Properties *)

\* Resources at most n links away from a program page.
WithinHops ==
    LET within[n \in 0..MaxDepth] ==
            IF n = 0 THEN Pages
            ELSE within[n - 1] \cup
                 UNION {contents[r] \cap Refs :
                           r \in within[n - 1] \cap DOMAIN contents}
    IN within[MaxDepth]

\* The expansion finds exactly the resources within max_depth links of the
\* program pages, also when a deep path reaches a resource that a short one
\* reaches too, and through cycles.
GraphIsBoundedClosure == phase = "done" => resources = WithinHops

\* What is left to do: an entry to expand, or a reference not yet known, counts
\* for more than all that one resource can link.
Remaining ==
    (Cardinality(Refs) + 1) * (Len(frontier) + Cardinality(Refs \ resources))
    + Cardinality(plan)

\* The expansion ends of itself, not only at a bound on its rounds: whatever is
\* linked, in cycles too, every step of it leaves less to do.
ExpansionEnds ==
    [][phase = "expand" /\ phase' = "expand" => Remaining' < Remaining]_vars

\* Each reference is fetched at most once, however many pages link it.
FetchedOnce == \A r \in Refs : refFetches[r] <= 1

Acquired(r) == r \in DOMAIN contents
Required(r) == r \in Pages

\* ready_for_active_testing of the acquisition.
Ready == \A r \in resources : Acquired(r) \/ ~Required(r)

\* Unresolved resources are fail-closed: an acquisition that discovered a
\* resource it did not resolve is not ready for active testing.
UnresolvedNotReady ==
    phase = "done" /\ Ready => \A r \in resources : Acquired(r)
=============================================================================
