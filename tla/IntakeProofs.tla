---------------------------- MODULE IntakeProofs ----------------------------
(* Theorems about ProgramIntake, for every set of references, every depth,  *)
(* and whatever the publisher puts on the pages.                            *)
EXTENDS ProgramIntake, SetInduction, FiniteSetTheorems

-----------------------------------------------------------------------------
(* The inductive invariant *)

\* Before the contract is built the expansion has not begun.
NotBegun ==
    phase \in {"pages", "contract"} =>
        /\ plan = {}
        /\ depth = 0
        /\ refFetches = [r \in Refs |-> 0]

\* What waits to be expanded has its content, so that its links can be read.
FrontierAcquired ==
    \A i \in 1..Len(frontier) : frontier[i][1] \in DOMAIN contents

\* References are followed only below the bound.
PlannedWithinBound == plan # {} => depth < MaxDepth

\* A reference that was fetched is in the graph.
FetchedAreKnown == \A r \in Refs : refFetches[r] > 0 => r \in resources

EInv == /\ TypeOK
        /\ NotBegun
        /\ FrontierAcquired
        /\ PlannedWithinBound
        /\ FetchedAreKnown
        /\ FetchedOnce

-----------------------------------------------------------------------------
(* Sequences and functions *)

LEMMA PagesInOrder == \A i \in 1..3 : PageOrder[i] \in Pages
BY DEF PageOrder, Pages

\* What a queue holds after its oldest entry is taken.
LEMMA TakeOldest ==
    ASSUME NEW S, NEW q \in Seq(S), q # <<>>
    PROVE  /\ Head(q) \in S
           /\ Head(q) = q[1]
           /\ 1 \in 1..Len(q)
           /\ Tail(q) \in Seq(S)
           /\ \A i \in 1..Len(Tail(q)) : i + 1 \in 1..Len(q)
                                         /\ Tail(q)[i] = q[i + 1]
OBVIOUS

\* What a queue holds after an entry is appended.
LEMMA AppendNewest ==
    ASSUME NEW S, NEW q \in Seq(S), NEW e \in S
    PROVE  /\ Append(q, e) \in Seq(S)
           /\ \A i \in 1..Len(Append(q, e)) :
                 \/ Append(q, e)[i] = e
                 \/ i \in 1..Len(q) /\ Append(q, e)[i] = q[i]
OBVIOUS

-----------------------------------------------------------------------------

LEMMA EInvInit == Init => EInv
BY IntakeAssumption
   DEF Init, EInv, TypeOK, NotBegun, FrontierAcquired, PlannedWithinBound,
       FetchedAreKnown, FetchedOnce, Contents, Resources

LEMMA EInvStep == EInv /\ [Next]_vars => EInv'
<1> SUFFICES ASSUME EInv, [Next]_vars PROVE EInv'
    OBVIOUS
<1> USE IntakeAssumption
<1>0. TypeOK
    BY DEF EInv
<1>u. ASSUME UNCHANGED expansion, TypeOK',
             phase' \in {"pages", "contract"} => phase \in {"pages", "contract"}
      PROVE  EInv'
    BY <1>u DEF EInv, NotBegun, FrontierAcquired, PlannedWithinBound,
                FetchedAreKnown, FetchedOnce, expansion
<1>1. ASSUME NEW c \in Contents, FetchPage(c) PROVE EInv'
  <2>1. fetched + 1 \in 1..3 /\ PageOrder[fetched + 1] \in Pages
      BY <1>0, <1>1, PagesInOrder DEF FetchPage, TypeOK
  <2>2. TypeOK'
      BY <1>0, <1>1, <2>1 DEF FetchPage, TypeOK, expansion
  <2>3. QED
      BY <1>1, <1>u, <2>2 DEF FetchPage
<1>2. ASSUME NEW edit \in Contents, FetchPageAgain(edit) PROVE EInv'
  <2>1. fetched - 2 \in 1..3 /\ PageOrder[fetched - 2] \in Pages
      BY <1>0, <1>2, PagesInOrder DEF FetchPageAgain, TypeOK
  <2>2. TypeOK'
      BY <1>0, <1>2, <2>1 DEF FetchPageAgain, TypeOK, expansion, Contents
  <2>3. QED
      BY <1>2, <1>u, <2>2 DEF FetchPageAgain
<1>3. CASE BuildContract
  <2>1. CASE KnownIssues \in contract["information"]
    <3>1. phase' = "failed" /\ UNCHANGED <<expansion, fetcher, fetched, pages, contract>>
        BY <1>3, <2>1 DEF BuildContract
    <3>2. TypeOK'
        BY <1>0, <3>1 DEF TypeOK, expansion
    <3>3. QED
        BY <1>u, <3>1, <3>2
  <2>2. CASE KnownIssues \notin contract["information"]
    <3>1. /\ phase = "contract" /\ phase' = "expand"
          /\ resources' = Pages /\ contents' = pages
          /\ frontier' = [i \in 1..3 |-> <<PageOrder[i], 0>>]
          /\ UNCHANGED <<plan, depth, refFetches, fetcher, fetched, pages, contract>>
        BY <1>3, <2>2 DEF BuildContract
    <3>2. frontier' \in Seq(Resources \X (0..MaxDepth)) /\ Len(frontier') = 3
        BY <3>1, PagesInOrder DEF Resources
    <3>3. TypeOK'
        BY <1>0, <3>1, <3>2 DEF TypeOK, Resources
    <3>4. DOMAIN contents' = Pages
        BY <1>0, <3>1 DEF TypeOK
    <3>5. FrontierAcquired'
        BY <3>1, <3>2, <3>4, PagesInOrder DEF FrontierAcquired
    <3>6. NotBegun' /\ PlannedWithinBound' /\ FetchedAreKnown' /\ FetchedOnce'
        BY <3>1 DEF EInv, NotBegun, PlannedWithinBound, FetchedAreKnown, FetchedOnce
    <3>7. QED
        BY <3>3, <3>5, <3>6 DEF EInv
  <2>3. QED
      BY <2>1, <2>2
<1>4. CASE Visit
  <2> DEFINE entry == Head(frontier)
  <2>1. /\ entry \in Resources \X (0..MaxDepth)
        /\ frontier' = Tail(frontier)
        /\ frontier' \in Seq(Resources \X (0..MaxDepth))
        /\ entry[1] \in DOMAIN contents
      BY <1>0, <1>4, TakeOldest DEF Visit, ExpandEntry, TypeOK, EInv, FrontierAcquired
  <2>2. /\ phase = "expand"
        /\ depth' = entry[2]
        /\ plan' = IF entry[2] < MaxDepth THEN contents[entry[1]] \cap Refs ELSE {}
        /\ UNCHANGED <<fetcher, phase, fetched, pages, contract,
                       resources, contents, refFetches>>
      BY <1>4 DEF Visit, ExpandEntry
  <2>3. TypeOK'
      BY <1>0, <2>1, <2>2 DEF TypeOK
  <2>4. FrontierAcquired'
      BY <1>0, <1>4, <2>1, <2>2, TakeOldest
         DEF Visit, TypeOK, EInv, FrontierAcquired
  <2>5. PlannedWithinBound' /\ NotBegun' /\ FetchedAreKnown' /\ FetchedOnce'
      BY <2>2 DEF EInv, PlannedWithinBound, NotBegun, FetchedAreKnown, FetchedOnce
  <2>6. QED
      BY <2>3, <2>4, <2>5 DEF EInv
<1>5. ASSUME NEW d \in Refs, SkipKnown(d) PROVE EInv'
    BY <1>5 DEF SkipKnown, EInv, TypeOK, NotBegun, FrontierAcquired,
                PlannedWithinBound, FetchedAreKnown, FetchedOnce
<1>6. ASSUME NEW d \in Refs, AddUnresolved(d) PROVE EInv'
    BY <1>6 DEF AddUnresolved, EInv, TypeOK, NotBegun, FrontierAcquired,
                PlannedWithinBound, FetchedAreKnown, FetchedOnce, Resources
<1>7. ASSUME NEW d \in Refs, NEW c \in RefContents, AddFetched(d, c) PROVE EInv'
  <2> DEFINE entry == <<d, depth + 1>>
  <2>1. /\ phase = "expand" /\ d \in plan \ resources
        /\ plan' = plan \ {d} /\ resources' = resources \cup {d}
        /\ contents' = [r \in DOMAIN contents \cup {d} |->
                            IF r = d THEN c ELSE contents[r]]
        /\ frontier' = Append(frontier, entry)
        /\ refFetches' = [refFetches EXCEPT ![d] = IF @ = 0 THEN 1 ELSE 2]
        /\ UNCHANGED <<fetcher, phase, fetched, pages, contract, depth>>
      BY <1>7 DEF AddFetched, Fetch
  <2>2. depth < MaxDepth /\ c \in Contents
      BY <2>1 DEF EInv, PlannedWithinBound, Contents
  <2>3. entry \in Resources \X (0..MaxDepth)
      BY <1>0, <2>2 DEF TypeOK, Resources
  <2>4. frontier' \in Seq(Resources \X (0..MaxDepth))
      BY <1>0, <2>1, <2>3, AppendNewest DEF TypeOK
  <2>5. /\ DOMAIN contents' = DOMAIN contents \cup {d}
        /\ DOMAIN contents' \subseteq resources'
        /\ \A r \in DOMAIN contents' : contents'[r] \in Contents
    <3>1. DOMAIN contents' = DOMAIN contents \cup {d}
        BY <2>1
    <3>2. \A r \in DOMAIN contents' : contents'[r] = IF r = d THEN c
                                                     ELSE contents[r]
        BY <2>1
    <3>3. QED
        BY <1>0, <2>1, <2>2, <3>1, <3>2 DEF TypeOK
  <2>6. refFetches[d] = 0
      BY <1>0, <2>1 DEF TypeOK, EInv, FetchedAreKnown
  <2>7. TypeOK'
    <3>1. /\ resources' \subseteq Resources
          /\ plan' \subseteq Refs
          /\ refFetches' \in [Refs -> 0..2]
        BY <1>0, <2>1, <2>6 DEF TypeOK, Resources
    <3>2. UNCHANGED <<fetcher, phase, fetched, pages, contract, depth>>
        BY <2>1
    <3>3. QED
        BY <1>0, <2>4, <2>5, <3>1, <3>2 DEF TypeOK
  <2>8. FrontierAcquired'
    <3>1. DOMAIN contents' = DOMAIN contents \cup {d}
        BY <2>5
    <3>2. \A i \in 1..Len(frontier') :
             \/ frontier'[i] = entry
             \/ i \in 1..Len(frontier) /\ frontier'[i] = frontier[i]
        BY <1>0, <2>1, <2>3, AppendNewest DEF TypeOK
    <3>3. QED
        BY <3>1, <3>2 DEF EInv, FrontierAcquired
  <2>9. NotBegun' /\ PlannedWithinBound' /\ FetchedAreKnown' /\ FetchedOnce'
      BY <1>0, <2>1, <2>6 DEF TypeOK, EInv, NotBegun, PlannedWithinBound,
                              FetchedAreKnown, FetchedOnce
  <2>10. QED
      BY <2>7, <2>8, <2>9 DEF EInv
<1>8. CASE Finish
    BY <1>0, <1>8, <1>u DEF Finish, TypeOK, expansion
<1>9. CASE FetchFails
    BY <1>0, <1>9, <1>u DEF FetchFails, TypeOK, expansion
<1>10. CASE UNCHANGED vars
    BY <1>0, <1>10, <1>u DEF vars, TypeOK, expansion
<1>11. QED
    BY <1>1, <1>2, <1>3, <1>4, <1>5, <1>6, <1>7, <1>8, <1>9, <1>10 DEF Next

\* TypeOK, for every value of the constants: nothing is planned beyond the
\* bound, and a queued resource has the content its links are read from.
THEOREM IntakeTyped == Spec => []TypeOK
<1>1. EInv => TypeOK
    BY DEF EInv
<1>2. QED
    BY <1>1, EInvInit, EInvStep, PTL DEF Spec

\* A reference is fetched at most once, through cycles and however many
\* resources link it, at every depth.
THEOREM NoSecondFetch == Spec => []FetchedOnce
<1>1. EInv => FetchedOnce
    BY DEF EInv
<1>2. QED
    BY <1>1, EInvInit, EInvStep, PTL DEF Spec

-----------------------------------------------------------------------------
(* How the breadth-first expansion reaches resources *)

Queued(r) == \E i \in 1..Len(frontier) : frontier[i][1] = r

\* The queue holds resources in the order of their ranks, none of them smaller
\* than the depth being expanded.
QueueInOrder(rank) ==
    \A i \in 1..Len(frontier) :
        /\ frontier[i][1] \in DOMAIN contents
        /\ frontier[i][2] = rank[frontier[i][1]]
        /\ depth <= frontier[i][2]
        /\ \A j \in 1..i : frontier[j][2] <= frontier[i][2]

\* What a resource that left the queue links is in the graph, or planned, and
\* at most one hop further.
Expanded(rank) ==
    \A r \in DOMAIN contents : ~Queued(r) /\ rank[r] < MaxDepth =>
        /\ contents[r] \cap Refs \subseteq
               resources \cup (IF rank[r] = depth THEN plan ELSE {})
        /\ \A x \in contents[r] \cap Refs :
              x \in DOMAIN contents => rank[x] <= rank[r] + 1

\* A resource is linked by another, one hop nearer.
LinkedBy(rank, r, x) ==
    /\ rank[r] < MaxDepth
    /\ x \in contents[r] \cap Refs
    /\ x \in DOMAIN contents => rank[x] = rank[r] + 1

Reached(rank) ==
    \A x \in resources \ Pages : \E r \in DOMAIN contents : LinkedBy(rank, r, x)

Planned(rank) ==
    plan # {} => \E r \in DOMAIN contents : /\ rank[r] = depth
                                            /\ depth < MaxDepth
                                            /\ plan \subseteq contents[r] \cap Refs

\* rank is the number of links from the pages to each acquired resource.
RankedBy(rank) ==
    /\ rank \in [DOMAIN contents -> 0..MaxDepth]
    /\ Pages \subseteq DOMAIN contents
    /\ \A p \in Pages : rank[p] = 0
    /\ \A r \in DOMAIN contents : rank[r] <= depth + 1
    /\ QueueInOrder(rank)
    /\ Expanded(rank)
    /\ Reached(rank)
    /\ Planned(rank)

Ranked == phase = "expand" \/ phase = "done" => \E rank : RankedBy(rank)

\* A graph that is complete has nothing left to expand.
DoneIsDone == phase = "done" => plan = {} /\ frontier = <<>>

\* Before the graph is complete, nothing but the expansion is said of it.
RInv == Ranked /\ DoneIsDone

\* A step that leaves the expansion alone leaves its ranks alone.
LEMMA SameRanks ==
    ASSUME NEW rank, RankedBy(rank), UNCHANGED expansion
    PROVE  RankedBy(rank)'
BY DEF expansion, RankedBy, Queued, QueueInOrder, Expanded, LinkedBy, Reached,
       Planned

LEMMA BuildRanked ==
    ASSUME EInv, BuildContract, phase' = "expand"
    PROVE  \E rank : RankedBy(rank)'
<1>1. PICK rank : rank = [p \in Pages |-> 0]
    OBVIOUS
<1>2. /\ phase = "contract"
      /\ resources' = Pages /\ contents' = pages
      /\ frontier' = [i \in 1..3 |-> <<PageOrder[i], 0>>]
      /\ UNCHANGED <<plan, depth, refFetches>>
    BY DEF BuildContract
<1>3. plan' = {} /\ depth' = 0
    BY <1>2 DEF EInv, NotBegun
<1>4. DOMAIN contents' = Pages /\ MaxDepth \in Nat
    BY <1>2, IntakeAssumption DEF EInv, TypeOK
<1>5. /\ Len(frontier') = 3
      /\ \A i \in 1..3 : frontier'[i] = <<PageOrder[i], 0>>
  <2>1. Len(frontier') = 3
      BY <1>2
  <2>2. QED
      BY <1>2, <2>1
<1>6. \A p \in Pages : \E i \in 1..3 : PageOrder[i] = p
    BY DEF PageOrder, Pages
<1>7. \A r \in DOMAIN contents' : Queued(r)'
    BY <1>4, <1>5, <1>6 DEF Queued
<1>8. QueueInOrder(rank)'
    BY <1>1, <1>3, <1>4, <1>5, PagesInOrder DEF QueueInOrder
<1>9. Expanded(rank)' /\ Reached(rank)' /\ Planned(rank)'
    BY <1>2, <1>3, <1>7 DEF Expanded, Reached, Planned
<1>10. /\ rank \in [DOMAIN contents' -> 0..MaxDepth]
       /\ \A p \in Pages : rank[p] = 0
       /\ \A r \in DOMAIN contents' : rank[r] <= depth' + 1
    BY <1>1, <1>3, <1>4
<1>11. RankedBy(rank)'
    BY <1>4, <1>8, <1>9, <1>10 DEF RankedBy
<1>12. QED
    BY <1>11

LEMMA VisitRanked ==
    ASSUME EInv, NEW rank, RankedBy(rank), Visit
    PROVE  RankedBy(rank)'
<1> DEFINE entry == Head(frontier)
<1>1. /\ plan = {} /\ depth' = entry[2] /\ frontier' = Tail(frontier)
      /\ plan' = IF entry[2] < MaxDepth THEN contents[entry[1]] \cap Refs ELSE {}
      /\ resources' = resources /\ contents' = contents
      /\ frontier # <<>>
    BY DEF Visit, ExpandEntry
<1>2. /\ depth \in Nat /\ MaxDepth \in Nat
      /\ frontier \in Seq(Resources \X (0..MaxDepth))
    BY IntakeAssumption DEF EInv, TypeOK
<1>3. /\ entry = frontier[1] /\ 1 \in 1..Len(frontier)
      /\ \A i \in 1..Len(frontier') : /\ i + 1 \in 1..Len(frontier)
                                      /\ frontier'[i] = frontier[i + 1]
    BY <1>1, <1>2, TakeOldest
<1>4. /\ entry[1] \in DOMAIN contents /\ entry[2] = rank[entry[1]]
      /\ depth <= entry[2]
    BY <1>3 DEF RankedBy, QueueInOrder
<1>5. \A r \in DOMAIN contents : rank[r] \in Nat /\ rank[r] <= depth + 1
    BY DEF RankedBy
<1>6. entry[2] \in Nat /\ depth' \in Nat /\ \A r \in DOMAIN contents : rank[r] <= depth' + 1
    BY <1>1, <1>2, <1>4, <1>5
<1> HIDE DEF entry
<1>7. QueueInOrder(rank)'
  <2> SUFFICES ASSUME NEW i \in 1..Len(frontier')
               PROVE  /\ frontier'[i][1] \in DOMAIN contents
                      /\ frontier'[i][2] = rank[frontier'[i][1]]
                      /\ depth' <= frontier'[i][2]
                      /\ \A j \in 1..i : frontier'[j][2] <= frontier'[i][2]
      BY <1>1 DEF QueueInOrder
  <2>1. i + 1 \in 1..Len(frontier) /\ frontier'[i] = frontier[i + 1] /\ i \in Nat
      BY <1>3
  <2>2. /\ frontier[i + 1][1] \in DOMAIN contents
        /\ frontier[i + 1][2] = rank[frontier[i + 1][1]]
        /\ \A j \in 1..(i + 1) : frontier[j][2] <= frontier[i + 1][2]
      BY <2>1 DEF RankedBy, QueueInOrder
  <2>3. depth' <= frontier[i + 1][2]
    <3>1. 1 \in 1..(i + 1)
        BY <2>1
    <3>2. QED
        BY <1>1, <1>3, <2>2, <3>1
  <2>4. ASSUME NEW j \in 1..i PROVE frontier'[j][2] <= frontier'[i][2]
    <3>1. /\ j + 1 \in 1..(i + 1) /\ j \in 1..Len(frontier')
        BY <2>1
    <3>2. frontier'[j] = frontier[j + 1]
        BY <1>3, <3>1
    <3>3. QED
        BY <2>1, <2>2, <3>1, <3>2
  <2>5. QED
      BY <2>1, <2>2, <2>3, <2>4
<1>8. Expanded(rank)'
  <2> SUFFICES ASSUME NEW r \in DOMAIN contents, ~Queued(r)', rank[r] < MaxDepth
               PROVE  /\ contents[r] \cap Refs \subseteq
                             resources \cup (IF rank[r] = depth' THEN plan' ELSE {})
                      /\ \A x \in contents[r] \cap Refs :
                            x \in DOMAIN contents => rank[x] <= rank[r] + 1
      BY <1>1 DEF Expanded
  <2>1. CASE ~Queued(r)
    <3>1. /\ contents[r] \cap Refs \subseteq
                 resources \cup (IF rank[r] = depth THEN plan ELSE {})
          /\ \A x \in contents[r] \cap Refs :
                x \in DOMAIN contents => rank[x] <= rank[r] + 1
        BY <2>1 DEF RankedBy, Expanded
    <3>2. contents[r] \cap Refs \subseteq resources
        BY <1>1, <3>1
    <3>3. QED
        BY <3>1, <3>2
  <2>2. CASE Queued(r)
    <3>1. PICK i \in 1..Len(frontier) : frontier[i][1] = r
        BY <2>2 DEF Queued
    <3>2. i = 1
      <4> SUFFICES ASSUME i # 1 PROVE FALSE
          OBVIOUS
      <4>1. /\ Len(frontier') = Len(frontier) - 1
            /\ Len(frontier) \in Nat
          BY <1>1, <1>2
      <4>2. i - 1 \in 1..Len(frontier') /\ (i - 1) + 1 = i
          BY <4>1
      <4>3. frontier'[i - 1] = frontier[i]
          BY <1>3, <4>2
      <4>4. QED
          BY <3>1, <4>2, <4>3 DEF Queued
    <3>3. r = entry[1] /\ rank[r] = depth'
        BY <1>1, <1>3, <1>4, <3>1, <3>2
    <3>4. plan' = contents[r] \cap Refs
        BY <1>1, <3>3
    <3>5. QED
        BY <1>6, <3>3, <3>4
  <2>3. QED
      BY <2>1, <2>2
<1>9. Reached(rank)'
    BY <1>1 DEF RankedBy, Reached, LinkedBy
<1>10. Planned(rank)'
    BY <1>1, <1>4 DEF Planned
<1>11. /\ rank \in [DOMAIN contents' -> 0..MaxDepth]
       /\ Pages \subseteq DOMAIN contents'
       /\ \A p \in Pages : rank[p] = 0
       /\ \A r \in DOMAIN contents' : rank[r] <= depth' + 1
    BY <1>1, <1>6 DEF RankedBy
<1>12. QED
    BY <1>7, <1>8, <1>9, <1>10, <1>11 DEF RankedBy

\* A planned reference that is known, or that nobody fetches.
LEMMA PlanShrinks ==
    ASSUME EInv, NEW rank, RankedBy(rank), NEW d \in plan,
           plan' = plan \ {d}, resources' = resources \cup {d},
           d \in resources \/ d \notin DOMAIN contents,
           UNCHANGED <<contents, frontier, depth>>
    PROVE  RankedBy(rank)'
<1>1. Expanded(rank)' /\ QueueInOrder(rank)'
    BY DEF RankedBy, Expanded, QueueInOrder, Queued
<1>2. Reached(rank)'
  <2>1. PICK r \in DOMAIN contents : /\ rank[r] = depth /\ depth < MaxDepth
                                     /\ plan \subseteq contents[r] \cap Refs
      BY DEF RankedBy, Planned
  <2>2. d \notin resources => LinkedBy(rank, r, d)
      BY <2>1 DEF LinkedBy
  <2>3. \A x \in (resources \cup {d}) \ Pages :
            \E q \in DOMAIN contents : LinkedBy(rank, q, x)
      BY <2>2 DEF RankedBy, Reached
  <2>4. QED
      BY <2>3 DEF Reached, LinkedBy
<1>3. Planned(rank)'
    BY DEF RankedBy, Planned
<1>4. QED
    BY <1>1, <1>2, <1>3 DEF RankedBy

LEMMA FetchRanked ==
    ASSUME EInv, NEW rank, RankedBy(rank), NEW d \in Refs, NEW c \in RefContents,
           AddFetched(d, c)
    PROVE  \E new : RankedBy(new)'
<1>1. PICK new : new = [r \in DOMAIN contents \cup {d} |->
                            IF r = d THEN depth + 1 ELSE rank[r]]
    OBVIOUS
<1> DEFINE entry == <<d, depth + 1>>
<1>2. /\ d \in plan /\ d \notin resources
      /\ plan' = plan \ {d} /\ resources' = resources \cup {d}
      /\ contents' = [r \in DOMAIN contents \cup {d} |->
                          IF r = d THEN c ELSE contents[r]]
      /\ frontier' = Append(frontier, entry)
      /\ depth' = depth
    BY DEF AddFetched, Fetch
<1>3. /\ depth \in Nat /\ MaxDepth \in Nat /\ depth < MaxDepth
      /\ frontier \in Seq(Resources \X (0..MaxDepth))
      /\ d \notin DOMAIN contents /\ d \notin Pages
      /\ entry \in Resources \X (0..MaxDepth)
    BY <1>2, IntakeAssumption DEF EInv, TypeOK, PlannedWithinBound, Resources
<1>4. /\ DOMAIN contents' = DOMAIN contents \cup {d}
      /\ \A r \in DOMAIN contents : r # d /\ contents'[r] = contents[r]
      /\ \A r \in DOMAIN contents : new[r] = rank[r] /\ rank[r] \in Nat
                                    /\ rank[r] <= depth + 1
      /\ new[d] = depth + 1
    BY <1>1, <1>2, <1>3 DEF RankedBy
<1>5. /\ Len(frontier) \in Nat /\ Len(frontier') = Len(frontier) + 1
      /\ frontier'[Len(frontier) + 1] = entry
      /\ \A i \in 1..Len(frontier) : frontier'[i] = frontier[i]
    BY <1>2, <1>3
<1> HIDE DEF entry
<1>6. QueueInOrder(new)'
  <2> SUFFICES ASSUME NEW i \in 1..Len(frontier')
               PROVE  /\ frontier'[i][1] \in DOMAIN contents'
                      /\ frontier'[i][2] = new[frontier'[i][1]]
                      /\ depth <= frontier'[i][2]
                      /\ \A j \in 1..i : frontier'[j][2] <= frontier'[i][2]
      BY <1>2 DEF QueueInOrder
  <2>1. ASSUME NEW k \in 1..Len(frontier)
        PROVE  /\ frontier[k][1] \in DOMAIN contents
               /\ frontier[k][2] = rank[frontier[k][1]]
               /\ depth <= frontier[k][2] /\ frontier[k][2] <= depth + 1
               /\ \A j \in 1..k : frontier[j][2] <= frontier[k][2]
      BY <1>4 DEF RankedBy, QueueInOrder
  <2>2. CASE i <= Len(frontier)
    <3>1. i \in 1..Len(frontier) /\ \A j \in 1..i : j \in 1..Len(frontier)
        BY <1>5, <2>2
    <3>2. QED
        BY <1>4, <1>5, <2>1, <3>1
  <2>3. CASE i = Len(frontier) + 1
    <3>1. frontier'[i] = entry /\ entry[1] = d /\ entry[2] = depth + 1
        BY <1>5, <2>3 DEF entry
    <3>2. ASSUME NEW j \in 1..i PROVE frontier'[j][2] <= depth + 1
      <4>1. CASE j = i
          BY <1>3, <3>1, <4>1
      <4>2. CASE j # i
        <5>1. j \in 1..Len(frontier)
            BY <1>5, <2>3, <4>2
        <5>2. QED
            BY <1>5, <2>1, <5>1
      <4>3. QED
          BY <4>1, <4>2
    <3>3. QED
        BY <1>3, <1>4, <3>1, <3>2
  <2>4. QED
      BY <1>5, <2>2, <2>3
<1>7. Expanded(new)'
  <2> SUFFICES ASSUME NEW r \in DOMAIN contents', ~Queued(r)', new[r] < MaxDepth
               PROVE  /\ contents'[r] \cap Refs \subseteq
                             resources' \cup (IF new[r] = depth' THEN plan' ELSE {})
                      /\ \A x \in contents'[r] \cap Refs :
                            x \in DOMAIN contents' => new[x] <= new[r] + 1
      BY DEF Expanded
  <2>1. r # d
    <3>1. Len(frontier) + 1 \in 1..Len(frontier') /\ frontier'[Len(frontier) + 1][1] = d
        BY <1>5 DEF entry
    <3>2. QED
        BY <3>1 DEF Queued
  <2>2. r \in DOMAIN contents /\ contents'[r] = contents[r] /\ new[r] = rank[r]
      BY <1>4, <2>1
  <2>3. ~Queued(r)
    <3>1. \A i \in 1..Len(frontier) : i \in 1..Len(frontier')
        BY <1>5
    <3>2. QED
        BY <1>5, <3>1 DEF Queued
  <2>4. /\ contents[r] \cap Refs \subseteq
               resources \cup (IF rank[r] = depth THEN plan ELSE {})
        /\ \A x \in contents[r] \cap Refs :
              x \in DOMAIN contents => rank[x] <= rank[r] + 1
      BY <2>2, <2>3 DEF RankedBy, Expanded
  <2>5. contents[r] \cap Refs \subseteq
            resources' \cup (IF rank[r] = depth THEN plan' ELSE {})
      BY <1>2, <2>4
  <2>6. ASSUME NEW x \in contents[r] \cap Refs, x \in DOMAIN contents'
        PROVE  new[x] <= rank[r] + 1
    <3>1. CASE x = d
      <4>1. rank[r] = depth
          BY <1>2, <2>4, <3>1
      <4>2. QED
          BY <1>3, <1>4, <3>1, <4>1
    <3>2. CASE x # d
        BY <1>4, <2>4, <2>6, <3>2
    <3>3. QED
        BY <3>1, <3>2
  <2>7. QED
      BY <1>2, <2>2, <2>5, <2>6
<1>8. ASSUME NEW r \in DOMAIN contents, NEW x, LinkedBy(rank, r, x), x # d
      PROVE  LinkedBy(new, r, x)'
    BY <1>4, <1>8 DEF LinkedBy
<1>9. PICK r \in DOMAIN contents : /\ rank[r] = depth
                                   /\ plan \subseteq contents[r] \cap Refs
    BY <1>2 DEF RankedBy, Planned
<1>10. LinkedBy(new, r, d)'
    BY <1>2, <1>3, <1>4, <1>9 DEF LinkedBy
<1>11. Reached(new)'
  <2>1. ASSUME NEW x \in resources' \ Pages
        PROVE  \E q \in DOMAIN contents' : LinkedBy(new, q, x)'
    <3>1. CASE x = d
        BY <1>4, <1>10, <3>1
    <3>2. CASE x # d
      <4>1. PICK q \in DOMAIN contents : LinkedBy(rank, q, x)
          BY <1>2, <2>1, <3>2 DEF RankedBy, Reached
      <4>2. QED
          BY <1>4, <1>8, <3>2, <4>1
    <3>3. QED
        BY <3>1, <3>2
  <2>2. QED
      BY <2>1 DEF Reached
<1>12. Planned(new)'
    BY <1>2, <1>3, <1>4, <1>9 DEF Planned
<1>13. /\ new \in [DOMAIN contents' -> 0..MaxDepth]
       /\ Pages \subseteq DOMAIN contents'
       /\ \A p \in Pages : new[p] = 0
       /\ \A q \in DOMAIN contents' : new[q] <= depth' + 1
  <2>1. rank \in [DOMAIN contents -> 0..MaxDepth] /\ depth + 1 \in 0..MaxDepth
      BY <1>3 DEF RankedBy
  <2>2. QED
      BY <1>1, <1>2, <1>3, <1>4, <2>1 DEF RankedBy
<1>14. RankedBy(new)'
    BY <1>6, <1>7, <1>11, <1>12, <1>13 DEF RankedBy
<1>15. QED
    BY <1>14

LEMMA RInvInit == Init => RInv
BY DEF Init, RInv, Ranked, DoneIsDone

LEMMA RInvStep == EInv /\ RInv /\ [Next]_vars => RInv'
<1> SUFFICES ASSUME EInv, RInv, [Next]_vars PROVE RInv'
    OBVIOUS
\* Steps that do not expand.
<1>u. ASSUME UNCHANGED expansion,
             phase' \in {"expand", "done"} => phase \in {"expand", "done"},
             phase' = "done" => phase = "done" \/ (plan = {} /\ frontier = <<>>)
      PROVE  RInv'
  <2>1. Ranked'
    <3> SUFFICES ASSUME phase' \in {"expand", "done"} PROVE \E rank : RankedBy(rank)'
        BY DEF Ranked
    <3>1. PICK rank : RankedBy(rank)
        BY <1>u DEF RInv, Ranked
    <3>2. RankedBy(rank)'
        BY <1>u, <3>1, SameRanks
    <3>3. QED
        BY <3>2
  <2>2. DoneIsDone'
      BY <1>u DEF RInv, DoneIsDone, expansion
  <2>3. QED
      BY <2>1, <2>2 DEF RInv
\* Steps that do.
<1>e. ASSUME phase' = "expand", NEW rank, RankedBy(rank)' PROVE RInv'
    BY <1>e DEF RInv, Ranked, DoneIsDone
<1>1. ASSUME NEW c \in Contents, FetchPage(c) PROVE RInv'
    BY <1>1, <1>u DEF FetchPage
<1>2. ASSUME NEW edit \in Contents, FetchPageAgain(edit) PROVE RInv'
    BY <1>2, <1>u DEF FetchPageAgain
<1>3. CASE BuildContract
  <2>1. CASE phase' = "expand"
      BY <1>3, <1>e, <2>1, BuildRanked
  <2>2. CASE phase' # "expand"
      BY <1>3, <1>u, <2>2 DEF BuildContract
  <2>3. QED
      BY <2>1, <2>2
<1>4. ASSUME phase = "expand" PROVE \E rank : RankedBy(rank)
    BY <1>4 DEF RInv, Ranked
<1>5. CASE Visit
  <2>1. phase = "expand" /\ phase' = "expand"
      BY <1>5 DEF Visit, ExpandEntry
  <2>2. PICK rank : RankedBy(rank)
      BY <1>4, <2>1
  <2>3. QED
      BY <1>5, <1>e, <2>1, <2>2, VisitRanked
<1>6. ASSUME NEW d \in Refs, SkipKnown(d) \/ AddUnresolved(d) PROVE RInv'
  <2>1. phase = "expand" /\ phase' = "expand"
      BY <1>6 DEF SkipKnown, AddUnresolved
  <2>2. PICK rank : RankedBy(rank)
      BY <1>4, <2>1
  <2>3. /\ d \in plan /\ plan' = plan \ {d} /\ resources' = resources \cup {d}
        /\ UNCHANGED <<contents, frontier, depth>>
      BY <1>6 DEF SkipKnown, AddUnresolved
  <2>4. d \in resources \/ d \notin DOMAIN contents
      BY DEF EInv, TypeOK
  <2>5. RankedBy(rank)'
      BY <2>2, <2>3, <2>4, PlanShrinks
  <2>6. QED
      BY <1>e, <2>1, <2>5
<1>7. ASSUME NEW d \in Refs, NEW c \in RefContents, AddFetched(d, c) PROVE RInv'
  <2>1. phase = "expand" /\ phase' = "expand"
      BY <1>7 DEF AddFetched, Fetch
  <2>2. PICK rank : RankedBy(rank)
      BY <1>4, <2>1
  <2>3. QED
      BY <1>7, <1>e, <2>1, <2>2, FetchRanked
<1>8. CASE Finish
    BY <1>8, <1>u DEF Finish
<1>9. CASE FetchFails
    BY <1>9, <1>u DEF FetchFails
<1>10. CASE UNCHANGED vars
    BY <1>10, <1>u DEF vars, RInv, DoneIsDone
<1>11. QED
    BY <1>1, <1>2, <1>3, <1>5, <1>6, <1>7, <1>8, <1>9, <1>10 DEF Next

-----------------------------------------------------------------------------
(* What lies within a number of links, computed level by level *)

Linked(X) == UNION {contents[r] \cap Refs : r \in X \cap DOMAIN contents}

\* within holds the levels, up to the bound.
Levels(within) ==
    within = [n \in 0..MaxDepth |-> IF n = 0 THEN Pages
                                    ELSE within[n - 1] \cup Linked(within[n - 1])]

LEMMA LevelsExist == \E within : Levels(within)
<1> DEFINE A == SUBSET Resources
           step == [n \in Nat |-> [X \in A |-> X \cup Linked(X)]]
<1>1. step \in [Nat -> [A -> A]]
    BY DEF Linked, Resources
<1>2. Pages \in A
    BY DEF Resources
<1>3. \A n \in Nat : \A X \in A : step[n][X] = X \cup Linked(X)
    OBVIOUS
<1>4. PICK g : Iterated(g, A, Pages, step)
  <2> HIDE DEF step, A
  <2>1. QED
      BY <1>1, <1>2, Recursion
<1> DEFINE within == [n \in 0..MaxDepth |-> g[n]]
<1>5. ASSUME NEW n \in 0..MaxDepth
      PROVE  within[n] = IF n = 0 THEN Pages
                         ELSE within[n - 1] \cup Linked(within[n - 1])
  <2>1. CASE n = 0
      BY <1>4, <2>1 DEF Iterated
  <2>2. CASE n # 0
    <3>1. n - 1 \in Nat /\ (n - 1) + 1 = n /\ n - 1 \in 0..MaxDepth
        BY <2>2, IntakeAssumption
    <3>2. g[(n - 1) + 1] = step[n - 1][g[n - 1]] /\ g[n - 1] \in A
        BY <1>4, <3>1 DEF Iterated
    <3> HIDE DEF step, A
    <3>3. g[n] = g[n - 1] \cup Linked(g[n - 1])
        BY <1>3, <3>1, <3>2
    <3>4. QED
        BY <2>2, <3>1, <3>3
  <2>3. QED
      BY <2>1, <2>2
<1> HIDE DEF within
<1>6. Levels(within)
    BY <1>5 DEF Levels, within
<1>7. QED
    BY <1>6

LEMMA WithinHopsIs == \E within : Levels(within) /\ WithinHops = within[MaxDepth]
<1>1. WithinHops = (CHOOSE within : Levels(within))[MaxDepth]
    BY DEF WithinHops, Levels, Linked
<1>2. Levels(CHOOSE within : Levels(within))
    BY LevelsExist
<1>3. QED
    BY <1>1, <1>2

\* With nothing left to expand, the ranks are the levels.
LEMMA DoneIsClosure ==
    ASSUME EInv, NEW rank, RankedBy(rank), plan = {}, frontier = <<>>
    PROVE  resources = WithinHops
<1>1. PICK within : Levels(within) /\ WithinHops = within[MaxDepth]
    BY WithinHopsIs
<1>2. MaxDepth \in Nat
    BY IntakeAssumption
<1>3. /\ within[0] = Pages
      /\ \A n \in Nat : n + 1 <= MaxDepth =>
            within[n + 1] = within[n] \cup Linked(within[n])
  <2>1. \A n \in 0..MaxDepth : within[n] = IF n = 0 THEN Pages
                                  ELSE within[n - 1] \cup Linked(within[n - 1])
      BY <1>1 DEF Levels
  <2>2. ASSUME NEW n \in Nat, n + 1 <= MaxDepth
        PROVE  within[n + 1] = within[n] \cup Linked(within[n])
    <3>1. n + 1 \in 0..MaxDepth /\ n + 1 # 0 /\ (n + 1) - 1 = n
        BY <1>2, <2>2
    <3>2. QED
        BY <2>1, <3>1
  <2>3. 0 \in 0..MaxDepth
      BY <1>2
  <2>4. QED
      BY <2>1, <2>2, <2>3
<1>4. /\ \A r \in DOMAIN contents : rank[r] \in Nat /\ rank[r] <= MaxDepth
      /\ Pages \subseteq DOMAIN contents /\ \A p \in Pages : rank[p] = 0
      /\ DOMAIN contents \subseteq resources
    BY DEF RankedBy, EInv, TypeOK
<1>5. \A r : ~Queued(r)
    BY DEF Queued
<1>6. \A r \in DOMAIN contents : rank[r] < MaxDepth =>
          \A x \in contents[r] \cap Refs :
              /\ x \in resources
              /\ x \in DOMAIN contents => rank[x] <= rank[r] + 1
    BY <1>5 DEF RankedBy, Expanded
\* Levels hold nothing that is not in the graph.
<1>7. within[MaxDepth] \subseteq resources
  <2> DEFINE S == {n \in Nat : n <= MaxDepth =>
                      /\ within[n] \subseteq resources
                      /\ \A r \in within[n] \cap DOMAIN contents : rank[r] <= n}
  <2>1. 0 \in S
      BY <1>3, <1>4
  <2>2. ASSUME NEW n \in Nat, n \in S PROVE n + 1 \in S
    <3> SUFFICES ASSUME n + 1 <= MaxDepth
                 PROVE  /\ within[n + 1] \subseteq resources
                        /\ \A r \in within[n + 1] \cap DOMAIN contents :
                              rank[r] <= n + 1
        OBVIOUS
    <3>1. /\ within[n] \subseteq resources
          /\ \A r \in within[n] \cap DOMAIN contents : rank[r] <= n
          /\ n < MaxDepth
        BY <1>2, <2>2
    <3>2. within[n + 1] = within[n] \cup Linked(within[n])
        BY <1>3
    <3>3. ASSUME NEW x \in Linked(within[n])
          PROVE  x \in resources /\ (x \in DOMAIN contents => rank[x] <= n + 1)
      <4>1. PICK r \in within[n] \cap DOMAIN contents : x \in contents[r] \cap Refs
          BY DEF Linked
      <4>2. rank[r] <= n /\ rank[r] < MaxDepth /\ rank[r] \in Nat
          BY <1>2, <1>4, <3>1, <4>1
      <4>3. x \in resources /\ (x \in DOMAIN contents => rank[x] <= rank[r] + 1)
          BY <1>6, <4>1, <4>2
      <4>4. QED
          BY <1>4, <4>2, <4>3
    <3>4. \A r \in within[n] \cap DOMAIN contents : rank[r] <= n + 1
        BY <1>4, <3>1
    <3>5. QED
        BY <3>1, <3>2, <3>3, <3>4
  <2> HIDE DEF S
  <2>3. MaxDepth \in S
      BY <1>2, <2>1, <2>2, NatBySuccessor
  <2>4. QED
      BY <1>2, <2>3 DEF S
\* An acquired resource is in the level of its rank, and in those after it.
<1>8. \A r \in DOMAIN contents : \A n \in Nat :
          rank[r] <= n /\ n <= MaxDepth => r \in within[n]
  <2> DEFINE S == {n \in Nat : n <= MaxDepth =>
                      \A r \in DOMAIN contents : rank[r] <= n => r \in within[n]}
  <2>0. ASSUME NEW r \in DOMAIN contents, r \notin Pages
        PROVE  \E q \in DOMAIN contents : /\ rank[r] = rank[q] + 1
                                          /\ r \in contents[q] \cap Refs
    <3>1. PICK q \in DOMAIN contents : LinkedBy(rank, q, r)
        BY <1>4, <2>0 DEF RankedBy, Reached
    <3>2. QED
        BY <3>1 DEF LinkedBy
  <2>1. 0 \in S
    <3> SUFFICES ASSUME NEW r \in DOMAIN contents, rank[r] <= 0, r \notin Pages
                 PROVE  FALSE
        BY <1>3
    <3>1. PICK q \in DOMAIN contents : rank[r] = rank[q] + 1
        BY <2>0
    <3>2. QED
        BY <1>4, <3>1
  <2>2. ASSUME NEW n \in Nat, n \in S PROVE n + 1 \in S
    <3> SUFFICES ASSUME n + 1 <= MaxDepth, NEW r \in DOMAIN contents,
                        rank[r] <= n + 1
                 PROVE  r \in within[n + 1]
        OBVIOUS
    <3>1. within[n + 1] = within[n] \cup Linked(within[n]) /\ n <= MaxDepth
        BY <1>2, <1>3
    <3>2. \A q \in DOMAIN contents : rank[q] <= n => q \in within[n]
        BY <2>2, <3>1
    <3>3. CASE r \in Pages
      <4>1. rank[r] <= n
          BY <1>4, <3>3
      <4>2. QED
          BY <3>1, <3>2, <4>1
    <3>4. CASE r \notin Pages
      <4>1. PICK q \in DOMAIN contents : /\ rank[r] = rank[q] + 1
                                         /\ r \in contents[q] \cap Refs
          BY <2>0, <3>4
      <4>2. rank[q] <= n
          BY <1>4, <4>1
      <4>3. r \in Linked(within[n])
          BY <3>2, <4>1, <4>2 DEF Linked
      <4>4. QED
          BY <3>1, <4>3
    <3>5. QED
        BY <3>3, <3>4
  <2> HIDE DEF S
  <2>3. \A n \in Nat : n \in S
      BY <2>1, <2>2, NatBySuccessor
  <2>4. QED
      BY <2>3 DEF S
<1>9. resources \subseteq within[MaxDepth]
  <2> SUFFICES ASSUME NEW x \in resources PROVE x \in within[MaxDepth]
      OBVIOUS
  <2>1. CASE x \in DOMAIN contents
      BY <1>2, <1>4, <1>8, <2>1
  <2>2. CASE x \notin DOMAIN contents
    <3>1. PICK q \in DOMAIN contents : LinkedBy(rank, q, x)
        BY <1>4, <2>2 DEF RankedBy, Reached
    <3>2. rank[q] < MaxDepth /\ rank[q] \in Nat /\ x \in contents[q] \cap Refs
        BY <1>4, <3>1 DEF LinkedBy
    <3>3. MaxDepth - 1 \in Nat /\ (MaxDepth - 1) + 1 = MaxDepth
          /\ rank[q] <= MaxDepth - 1 /\ MaxDepth - 1 <= MaxDepth
        BY <1>2, <3>2
    <3>4. q \in within[MaxDepth - 1]
        BY <1>8, <3>3
    <3>5. within[MaxDepth] = within[MaxDepth - 1] \cup Linked(within[MaxDepth - 1])
        BY <1>2, <1>3, <3>3
    <3>6. QED
        BY <3>2, <3>4, <3>5 DEF Linked
  <2>3. QED
      BY <2>1, <2>2
<1>10. QED
    BY <1>1, <1>7, <1>9

\* When the expansion ends, the graph holds exactly the resources that lie
\* within max_depth links of the program pages, for every link structure and
\* every depth: breadth-first order never enters a resource at a depth at which
\* its own links would wrongly be cut off.
THEOREM ExpansionIsClosure == Spec => []GraphIsBoundedClosure
<1>1. EInv /\ RInv => GraphIsBoundedClosure
    BY DoneIsClosure DEF RInv, Ranked, DoneIsDone, GraphIsBoundedClosure
<1>2. QED
    BY <1>1, EInvInit, EInvStep, RInvInit, RInvStep, PTL DEF Spec

-----------------------------------------------------------------------------
(* Termination *)

\* The arithmetic of the measure: a unit of the first factor outweighs all that
\* one resource can link.
LEMMA Outweighs ==
    ASSUME NEW n \in Nat, NEW w \in Nat, NEW v \in Nat, NEW p \in Nat,
           NEW q \in Nat, v + 1 = w, q <= n
    PROVE  (n + 1) * v + q < (n + 1) * w + p
<1>1. (n + 1) * w = (n + 1) * v + (n + 1)
  <2>1. \A a, b \in Nat : a * (b + 1) = a * b + a
      BY SMT
  <2>2. QED
      BY <2>1
<1>2. (n + 1) * v \in Nat
  <2>1. \A a, b \in Nat : a * b \in Nat
      BY SMT
  <2>2. QED
      BY <2>1
<1>3. \A x \in Nat : x + q < x + (n + 1) + p
    OBVIOUS
<1>4. QED
    BY <1>1, <1>2, <1>3

LEMMA OneLess ==
    ASSUME NEW n \in Nat, NEW w \in Nat, NEW p \in Nat, NEW q \in Nat, q + 1 = p
    PROVE  (n + 1) * w + q < (n + 1) * w + p
<1>1. (n + 1) * w \in Nat
  <2>1. \A a, b \in Nat : a * b \in Nat
      BY SMT
  <2>2. QED
      BY <2>1
<1>2. \A x \in Nat : x + q < x + p
    OBVIOUS
<1>3. QED
    BY <1>1, <1>2

\* The sizes the measure is made of.
LEMMA Sizes ==
    ASSUME IsFiniteSet(Refs), TypeOK
    PROVE  /\ Cardinality(Refs) \in Nat
           /\ Len(frontier) \in Nat
           /\ Cardinality(Refs \ resources) \in Nat
           /\ IsFiniteSet(plan) /\ Cardinality(plan) \in Nat
           /\ Cardinality(plan) <= Cardinality(Refs)
<1>1. IsFiniteSet(Refs \ resources) /\ IsFiniteSet(plan)
      /\ Cardinality(plan) <= Cardinality(Refs)
    BY FS_Subset DEF TypeOK
<1>2. QED
    BY <1>1, FS_CardinalityType DEF TypeOK

\* A reference handled is one fewer to handle.
LEMMA OneFewer ==
    ASSUME NEW S, IsFiniteSet(S), NEW d \in S
    PROVE  /\ Cardinality(S) \in Nat /\ Cardinality(S \ {d}) \in Nat
           /\ Cardinality(S \ {d}) + 1 = Cardinality(S)
<1>1. Cardinality(S \ {d}) = Cardinality(S) - 1 /\ IsFiniteSet(S \ {d})
    BY FS_RemoveElement
<1>2. QED
    BY <1>1, FS_CardinalityType

LEMMA LessRemains ==
    ASSUME IsFiniteSet(Refs), EInv, Next, phase = "expand", phase' = "expand"
    PROVE  Remaining' < Remaining
<1> DEFINE N == Cardinality(Refs)
           W == Len(frontier) + Cardinality(Refs \ resources)
           P == Cardinality(plan)
<1>0. TypeOK /\ EInv'
    BY EInvStep DEF EInv
<1>1. TypeOK'
    BY <1>0 DEF EInv
<1>2. N \in Nat /\ W \in Nat /\ P \in Nat /\ P <= N /\ IsFiniteSet(plan)
    BY <1>0, Sizes
<1>3. IsFiniteSet(plan') /\ P' \in Nat /\ P' <= N
  <2>1. plan' \subseteq Refs
      BY <1>1 DEF TypeOK
  <2>2. QED
      BY <2>1, FS_Subset, FS_CardinalityType
<1>4. IsFiniteSet(Refs \ resources)
    BY FS_Subset
<1>5. Remaining = (N + 1) * W + P /\ Remaining' = (N + 1) * W' + P'
    BY DEF Remaining
<1>6. ASSUME W' \in Nat, W' + 1 = W PROVE Remaining' < Remaining
  <2> HIDE DEF N, W, P
  <2>1. QED
      BY <1>2, <1>3, <1>5, <1>6, Outweighs
<1>7. ASSUME W' = W, P' + 1 = P PROVE Remaining' < Remaining
  <2> HIDE DEF N, W, P
  <2>1. QED
      BY <1>2, <1>3, <1>5, <1>7, OneLess
<1>8. CASE Visit
  <2>1. frontier # <<>> /\ frontier' = Tail(frontier) /\ resources' = resources
      BY <1>8 DEF Visit, ExpandEntry
  <2>2. Len(frontier) \in Nat /\ Len(frontier') \in Nat /\ Len(frontier') + 1 = Len(frontier)
      BY <1>0, <2>1 DEF TypeOK
  <2>3. Cardinality(Refs \ resources) \in Nat
      BY <1>4, FS_CardinalityType
  <2>4. W' \in Nat /\ W' + 1 = W
      BY <2>1, <2>2, <2>3
  <2>5. QED
      BY <1>6, <2>4
<1>9. ASSUME NEW d \in Refs, SkipKnown(d) PROVE Remaining' < Remaining
  <2>1. d \in plan /\ plan' = plan \ {d} /\ UNCHANGED <<resources, frontier>>
      BY <1>9 DEF SkipKnown
  <2>2. W' = W
      BY <2>1
  <2>3. P' + 1 = P
      BY <1>2, <2>1, OneFewer
  <2>4. QED
      BY <1>7, <2>2, <2>3
<1>10. ASSUME NEW d \in Refs, AddUnresolved(d) PROVE Remaining' < Remaining
  <2>1. d \in Refs \ resources /\ resources' = resources \cup {d} /\ frontier' = frontier
      BY <1>10 DEF AddUnresolved
  <2>2. Refs \ resources' = (Refs \ resources) \ {d}
      BY <2>1
  <2>3. /\ Cardinality(Refs \ resources) \in Nat /\ Cardinality(Refs \ resources') \in Nat
        /\ Cardinality(Refs \ resources') + 1 = Cardinality(Refs \ resources)
      BY <1>4, <2>1, <2>2, OneFewer
  <2>4. Len(frontier) \in Nat
      BY <1>0 DEF TypeOK
  <2>5. W' \in Nat /\ W' + 1 = W
      BY <2>1, <2>3, <2>4
  <2>6. QED
      BY <1>6, <2>5
<1>11. ASSUME NEW d \in Refs, NEW c \in RefContents, AddFetched(d, c)
       PROVE  Remaining' < Remaining
  <2>1. /\ d \in plan /\ d \in Refs \ resources /\ plan' = plan \ {d}
        /\ resources' = resources \cup {d}
        /\ frontier' = Append(frontier, <<d, depth + 1>>)
      BY <1>11 DEF AddFetched, Fetch
  <2>2. Refs \ resources' = (Refs \ resources) \ {d}
      BY <2>1
  <2>3. /\ Cardinality(Refs \ resources) \in Nat /\ Cardinality(Refs \ resources') \in Nat
        /\ Cardinality(Refs \ resources') + 1 = Cardinality(Refs \ resources)
      BY <1>4, <2>1, <2>2, OneFewer
  <2>4. Len(frontier) \in Nat /\ Len(frontier') = Len(frontier) + 1
      BY <1>0, <2>1 DEF TypeOK
  <2>5. W' = W
      BY <2>3, <2>4
  <2>6. P' + 1 = P
      BY <1>2, <2>1, OneFewer
  <2>7. QED
      BY <1>7, <2>5, <2>6
<1>12. QED
  <2>1. ~ Finish /\ ~ FetchFails /\ ~ BuildContract
      BY DEF Finish, FetchFails, BuildContract
  <2>2. ASSUME NEW c \in Contents, FetchPage(c) \/ FetchPageAgain(c) PROVE FALSE
      BY <2>2 DEF FetchPage, FetchPageAgain
  <2>3. QED
      BY <1>8, <1>9, <1>10, <1>11, <2>1, <2>2 DEF Next

\* Whatever the pages and the resources link, in cycles too, the expansion runs
\* out of work: there are finitely many references, and every step of the
\* worklist lowers a natural number.
THEOREM ExpansionTerminates == ASSUME IsFiniteSet(Refs) PROVE Spec => ExpansionEnds
<1>1. EInv /\ [Next]_vars => [phase = "expand" /\ phase' = "expand"
                                  => Remaining' < Remaining]_vars
    BY LessRemains
<1>2. QED
    BY <1>1, EInvInit, EInvStep, PTL DEF Spec, ExpansionEnds

\* ... and that number is natural, so that it cannot fall for ever.
THEOREM RemainingIsNatural ==
    ASSUME IsFiniteSet(Refs) PROVE Spec => [](Remaining \in Nat)
<1>1. ASSUME EInv PROVE Remaining \in Nat
  <2>1. TypeOK
      BY <1>1 DEF EInv
  <2>2. \A a, b, c \in Nat : a * b + c \in Nat
      BY SMT
  <2>3. /\ Cardinality(Refs) + 1 \in Nat /\ Cardinality(plan) \in Nat
        /\ Len(frontier) + Cardinality(Refs \ resources) \in Nat
      BY <2>1, Sizes
  <2>4. QED
      BY <2>2, <2>3 DEF Remaining
<1>2. QED
    BY <1>1, EInvInit, EInvStep, PTL DEF Spec

=============================================================================
