-------------------------- MODULE SharedStoreProofs -------------------------
(* Gateways over one store, for any number of them: what holds however      *)
(* their calls interleave, and what holds unless two of them race.          *)
EXTENDS SharedStore, TLAPS

Low == state \in {"ABSENT", "PERSISTED"}

\* A call of g whose request may have left PERSISTED.
Beyond(g) == at[g] # "idle" /\ ~Planning(g)

\* Which states a call writes, at each of its steps.
CallShape ==
    \A g \in Gateways :
        /\ call[g] = "execute" =>
              \/ Planning(g)
              \/ at[g] = "adapter"
              \/ at[g] = "persist_result" /\ goal[g] = "RESULT_RECORDED"
              \/ /\ at[g] \in {"read", "write"}
                 /\ goal[g] \in {"RESULT_RECORDED", "COMPLETED"}
        /\ at[g] \in {"persist_request", "look"} => goal[g] = "ABSENT"
        /\ at[g] \in {"read", "write"} => goal[g] # "ABSENT"
        /\ call[g] = "mark" => /\ at[g] \in {"read", "write"}
                               /\ goal[g] \in {"FAILED", "OUTCOME_UNRECORDED"}
        /\ call[g] = "reconcile" => /\ at[g] \in {"persist_result", "read", "write"}
                                    /\ goal[g] \in Terminal
        /\ at[g] = "persist_result" => result[g] \in Outcomes

\* A receipt precedes what is written because of it.
ReceiptFirst ==
    /\ CompletedHasReceipt
    /\ \A g \in Gateways :
          at[g] \in {"read", "write"}
          /\ goal[g] \in {"RESULT_RECORDED", "COMPLETED"} => receipt # NoReceipt

\* A run precedes what is written because of it, in memory too.
Claims == Unsettled \cup {"COMPLETED"}

RunFirst ==
    /\ OutcomeHasRun
    /\ \A g \in Gateways :
          /\ local[g] \in Claims => runs > 0
          /\ at[g] # "idle" /\ goal[g] \in Claims => runs > 0
          /\ at[g] = "persist_result" => runs > 0

\* Without a race, one call at most leads to the adapter, and only while the
\* request has not run.
OneWindow ==
    ~raced =>
        /\ \A g \in Gateways :
              /\ Planning(g) => Low /\ runs = 0
              /\ Beyond(g) => ~Low
              /\ at[g] = "adapter" => runs = 0
              /\ \A h \in Others(g) :
                    /\ ~(Planning(g) /\ Planning(h))
                    /\ ~(at[g] = "adapter" /\ at[h] = "adapter")
        /\ runs > 0 => ~Low
        /\ runs <= 1

\* Without overlap, what a call has read is still so when it writes.
Alone ==
    /\ state = "ABSENT" => \A g \in Gateways : /\ local[g] = "ABSENT"
                                               /\ ~Beyond(g)
    /\ ~overlapped =>
        \A g \in Gateways :
            /\ \A h \in Others(g) : at[g] = "idle" \/ at[h] = "idle"
            /\ at[g] = "write" => Legal(state, goal[g])
            /\ at[g] = "adapter" => state = "RUNNING"
            /\ at[g] = "persist_result" => state \in {"RUNNING"} \cup Unsettled

SInv == /\ SharedTypeOK
        /\ CallShape
        /\ ReceiptFirst
        /\ RunFirst
        /\ OneWindow
        /\ Alone

-----------------------------------------------------------------------------
(* Type correctness *)

LEMMA TypeInit == Init => SharedTypeOK
<1> SUFFICES ASSUME Init PROVE SharedTypeOK
    OBVIOUS
<1> USE DEF Init, States
<1>1. /\ has \in [Gateways -> Adapters \cup {NoAdapter}]
      /\ capability \in [Adapters -> Gateways \cup {NoGateway}]
      /\ result \in [Gateways -> Outcomes \cup {NoReceipt}]
    OBVIOUS
<1>2. /\ at \in [Gateways -> {"idle", "persist_request", "look", "read",
                             "write", "adapter", "persist_result"}]
      /\ call \in [Gateways -> {"none", "execute", "mark", "reconcile"}]
      /\ \A g \in Gateways : at[g] = "idle" <=> call[g] = "none"
    OBVIOUS
<1>3. local \in [Gateways -> States] /\ goal \in [Gateways -> States]
    OBVIOUS
<1>4. /\ stored \in BOOLEAN /\ raced \in BOOLEAN
      /\ overlapped \in BOOLEAN
    OBVIOUS
<1>5. /\ state \in States /\ receipt \in Outcomes \cup {NoReceipt}
      /\ executed \subseteq Gateways /\ runs \in 0..2
    OBVIOUS
<1> HIDE DEF Init, States
<1>6. QED
    BY <1>1, <1>2, <1>3, <1>4, <1>5 DEF SharedTypeOK

LEMMA TypeStep == SharedTypeOK /\ [Next]_vars => SharedTypeOK'
<1> SUFFICES ASSUME SharedTypeOK, [Next]_vars PROVE SharedTypeOK'
    OBVIOUS
<1> USE DEF SharedTypeOK
<1>1. ASSUME NEW g \in Gateways, NEW a \in Adapters, Register(g, a)
      PROVE  SharedTypeOK'
    BY <1>1 DEF Register, store, control, history
<1>2. ASSUME NEW g \in Gateways, Restart(g) PROVE SharedTypeOK'
    BY <1>2 DEF Restart, Return, Go, store, history, States
<1>3. ASSUME NEW g \in Gateways, Execute(g) PROVE SharedTypeOK'
    BY <1>3 DEF Execute, Begins, Go, store, memory, States
<1>4. ASSUME NEW g \in Gateways, NEW o \in Outcomes, NEW t \in Terminal,
             Reconcile(g, o, t)
      PROVE  SharedTypeOK'
    BY <1>4 DEF Reconcile, ReconcileFrom, Begins, Go, store, memory, States,
                Terminal
<1>5. ASSUME NEW g \in Gateways, NEW f, PersistRequest(g, f)
      PROVE  SharedTypeOK'
    BY <1>5 DEF PersistRequest, Return, Go, memory, history, States
<1>6. ASSUME NEW g \in Gateways, NEW f, PersistResult(g, f)
      PROVE  SharedTypeOK'
    BY <1>6 DEF PersistResult, StoreResult, RaiseFrom, Return, Go, memory,
                history, States
<1>7. ASSUME NEW g \in Gateways, NEW f, WriteState(g, f) PROVE SharedTypeOK'
    BY <1>7 DEF WriteState, LocalAfterRaise, Proceed, RaiseFrom, Return, Go,
                history, States
<1>8. ASSUME NEW g \in Gateways, Look(g) PROVE SharedTypeOK'
    BY <1>8 DEF Look, Go, store, memory, history, States
<1>9. ASSUME NEW g \in Gateways, ReadState(g) PROVE SharedTypeOK'
    BY <1>9 DEF ReadState, LocalAfterRaise, RaiseFrom, Return, Go, store,
                history, States
<1>10. ASSUME NEW g \in Gateways, AdapterMissing(g) \/ AdapterRefuses(g)
       PROVE  SharedTypeOK'
    BY <1>10 DEF AdapterMissing, AdapterRefuses, Return, Go, store, memory,
                 history, States
<1>11. ASSUME NEW g \in Gateways, AdapterFails(g) PROVE SharedTypeOK'
    BY <1>11 DEF AdapterFails, Ran, Go, store, memory, States
<1>12. ASSUME NEW g \in Gateways, NEW o \in Outcomes, AdapterReturns(g, o)
       PROVE  SharedTypeOK'
    BY <1>12 DEF AdapterReturns, Ran, Go, store, memory, States
<1>13. CASE UNCHANGED vars
    BY <1>13 DEF vars, store, memory, control, history
<1>14. QED
    BY <1>1, <1>2, <1>3, <1>4, <1>5, <1>6, <1>7, <1>8, <1>9, <1>10, <1>11,
       <1>12, <1>13 DEF Next, Step

\* The types of what the store and the gateways hold, whatever happens.
THEOREM SharedTyped == Spec => []SharedTypeOK
BY TypeInit, TypeStep, PTL DEF Spec

-----------------------------------------------------------------------------
(* The parts of the invariant, each preserved by every step *)

\* Calls go through their steps.
LEMMA CallShapeStep == SInv /\ [Next]_vars => CallShape'
<1> SUFFICES ASSUME SInv, [Next]_vars PROVE CallShape'
    OBVIOUS
<1> USE DEF SInv, CallShape, SharedTypeOK, Planning, States, Terminal
<1>1. ASSUME NEW g \in Gateways, NEW a \in Adapters, Register(g, a)
      PROVE  CallShape'
    BY <1>1 DEF Register, store, control, history
<1>2. ASSUME NEW g \in Gateways, Restart(g)
      PROVE  CallShape'
    BY <1>2 DEF Restart, Return, Go, store, history
<1>3. ASSUME NEW g \in Gateways, Execute(g)
      PROVE  CallShape'
    BY <1>3 DEF Execute, Begins, Go, store, memory
<1>4. ASSUME NEW g \in Gateways, NEW o \in Outcomes, NEW t \in Terminal,
             Reconcile(g, o, t)
      PROVE  CallShape'
    BY <1>4 DEF Reconcile, ReconcileFrom, Begins, Go, store, memory
<1>5. ASSUME NEW g \in Gateways, NEW f, PersistRequest(g, f)
      PROVE  CallShape'
    BY <1>5 DEF PersistRequest, Return, Go, memory, history
<1>6. ASSUME NEW g \in Gateways, NEW f, PersistResult(g, f)
      PROVE  CallShape'
    BY <1>6 DEF PersistResult, StoreResult, RaiseFrom, Return, Go, memory,
                history
<1>7. ASSUME NEW g \in Gateways, NEW f, WriteState(g, f)
      PROVE  CallShape'
    BY <1>7 DEF WriteState, LocalAfterRaise, Proceed, RaiseFrom, Return, Go,
                history
<1>8. ASSUME NEW g \in Gateways, Look(g)
      PROVE  CallShape'
    BY <1>8 DEF Look, Go, store, memory, history
<1>9. ASSUME NEW g \in Gateways, ReadState(g)
      PROVE  CallShape'
    BY <1>9 DEF ReadState, LocalAfterRaise, RaiseFrom, Return, Go, store,
                history
<1>10. ASSUME NEW g \in Gateways, AdapterMissing(g)
      PROVE  CallShape'
    BY <1>10 DEF AdapterMissing, Return, Go, store, memory, history
<1>11. ASSUME NEW g \in Gateways, AdapterRefuses(g)
      PROVE  CallShape'
    BY <1>11 DEF AdapterRefuses, Go, store, memory, history
<1>12. ASSUME NEW g \in Gateways, AdapterFails(g)
      PROVE  CallShape'
    BY <1>12 DEF AdapterFails, Ran, Go, store, memory
<1>13. ASSUME NEW g \in Gateways, NEW o \in Outcomes, AdapterReturns(g, o)
      PROVE  CallShape'
    BY <1>13 DEF AdapterReturns, Ran, Go, store, memory
<1>14. CASE UNCHANGED vars
    BY <1>14 DEF vars, store, memory, control, history
<1>15. QED
    BY <1>1, <1>2, <1>3, <1>4, <1>5, <1>6, <1>7, <1>8, <1>9, <1>10, <1>11,
       <1>12, <1>13, <1>14 DEF Next, Step

\* Receipts are replaced, never removed.
LEMMA ReceiptFirstStep == SInv /\ [Next]_vars => ReceiptFirst'
<1> SUFFICES ASSUME SInv, [Next]_vars PROVE ReceiptFirst'
    OBVIOUS
<1> USE DEF SInv, ReceiptFirst, CompletedHasReceipt, CallShape, SharedTypeOK, Planning, Terminal
<1>1. ASSUME NEW g \in Gateways, NEW a \in Adapters, Register(g, a)
      PROVE  ReceiptFirst'
    BY <1>1 DEF Register, store, control, history
<1>2. ASSUME NEW g \in Gateways, Restart(g)
      PROVE  ReceiptFirst'
    BY <1>2 DEF Restart, Return, Go, store, history
<1>3. ASSUME NEW g \in Gateways, Execute(g)
      PROVE  ReceiptFirst'
    BY <1>3 DEF Execute, Begins, Go, store, memory
<1>4. ASSUME NEW g \in Gateways, NEW o \in Outcomes, NEW t \in Terminal,
             Reconcile(g, o, t)
      PROVE  ReceiptFirst'
    BY <1>4 DEF Reconcile, ReconcileFrom, Begins, Go, store, memory
<1>5. ASSUME NEW g \in Gateways, NEW f, PersistRequest(g, f)
      PROVE  ReceiptFirst'
    BY <1>5 DEF PersistRequest, Return, Go, memory, history
<1>6. ASSUME NEW g \in Gateways, NEW f, PersistResult(g, f)
      PROVE  ReceiptFirst'
    BY <1>6, SharedAssumption DEF PersistResult, StoreResult, RaiseFrom, Return, Go, memory,
                history
<1>7. ASSUME NEW g \in Gateways, NEW f, WriteState(g, f)
      PROVE  ReceiptFirst'
    BY <1>7 DEF WriteState, LocalAfterRaise, Proceed, RaiseFrom, Return, Go,
                history
<1>8. ASSUME NEW g \in Gateways, Look(g)
      PROVE  ReceiptFirst'
    BY <1>8 DEF Look, Go, store, memory, history
<1>9. ASSUME NEW g \in Gateways, ReadState(g)
      PROVE  ReceiptFirst'
    BY <1>9 DEF ReadState, LocalAfterRaise, RaiseFrom, Return, Go, store,
                history
<1>10. ASSUME NEW g \in Gateways, AdapterMissing(g)
      PROVE  ReceiptFirst'
    BY <1>10 DEF AdapterMissing, Return, Go, store, memory, history
<1>11. ASSUME NEW g \in Gateways, AdapterRefuses(g)
      PROVE  ReceiptFirst'
    BY <1>11 DEF AdapterRefuses, Go, store, memory, history
<1>12. ASSUME NEW g \in Gateways, AdapterFails(g)
      PROVE  ReceiptFirst'
    BY <1>12 DEF AdapterFails, Ran, Go, store, memory
<1>13. ASSUME NEW g \in Gateways, NEW o \in Outcomes, AdapterReturns(g, o)
      PROVE  ReceiptFirst'
    BY <1>13 DEF AdapterReturns, Ran, Go, store, memory
<1>14. CASE UNCHANGED vars
    BY <1>14 DEF vars, store, memory, control, history
<1>15. QED
    BY <1>1, <1>2, <1>3, <1>4, <1>5, <1>6, <1>7, <1>8, <1>9, <1>10, <1>11,
       <1>12, <1>13, <1>14 DEF Next, Step

\* So are runs.
LEMMA RunFirstStep == SInv /\ [Next]_vars => RunFirst'
<1> SUFFICES ASSUME SInv, [Next]_vars PROVE RunFirst'
    OBVIOUS
<1> USE DEF SInv, RunFirst, OutcomeHasRun, CallShape, SharedTypeOK, Planning, Claims, Current, Unsettled, Terminal
<1>1. ASSUME NEW g \in Gateways, NEW a \in Adapters, Register(g, a)
      PROVE  RunFirst'
    BY <1>1 DEF Register, store, control, history
<1>2. ASSUME NEW g \in Gateways, Restart(g)
      PROVE  RunFirst'
    BY <1>2 DEF Restart, Return, Go, store, history
<1>3. ASSUME NEW g \in Gateways, Execute(g)
      PROVE  RunFirst'
    BY <1>3 DEF Execute, Begins, Go, store, memory
<1>4. ASSUME NEW g \in Gateways, NEW o \in Outcomes, NEW t \in Terminal,
             Reconcile(g, o, t)
      PROVE  RunFirst'
    BY <1>4 DEF Reconcile, ReconcileFrom, Begins, Go, store, memory
<1>5. ASSUME NEW g \in Gateways, NEW f, PersistRequest(g, f)
      PROVE  RunFirst'
    BY <1>5 DEF PersistRequest, Return, Go, memory, history
<1>6. ASSUME NEW g \in Gateways, NEW f, PersistResult(g, f)
      PROVE  RunFirst'
    BY <1>6 DEF PersistResult, StoreResult, RaiseFrom, Return, Go, memory,
                history
<1>7. ASSUME NEW g \in Gateways, NEW f, WriteState(g, f)
      PROVE  RunFirst'
    BY <1>7 DEF WriteState, LocalAfterRaise, Proceed, RaiseFrom, Return, Go,
                history
<1>8. ASSUME NEW g \in Gateways, Look(g)
      PROVE  RunFirst'
    BY <1>8 DEF Look, Go, store, memory, history
<1>9. ASSUME NEW g \in Gateways, ReadState(g)
      PROVE  RunFirst'
    BY <1>9 DEF ReadState, LocalAfterRaise, RaiseFrom, Return, Go, store,
                history
<1>10. ASSUME NEW g \in Gateways, AdapterMissing(g)
      PROVE  RunFirst'
    BY <1>10 DEF AdapterMissing, Return, Go, store, memory, history
<1>11. ASSUME NEW g \in Gateways, AdapterRefuses(g)
      PROVE  RunFirst'
    BY <1>11 DEF AdapterRefuses, Go, store, memory, history
<1>12. ASSUME NEW g \in Gateways, AdapterFails(g)
      PROVE  RunFirst'
    BY <1>12 DEF AdapterFails, Ran, Go, store, memory
<1>13. ASSUME NEW g \in Gateways, NEW o \in Outcomes, AdapterReturns(g, o)
      PROVE  RunFirst'
    BY <1>13 DEF AdapterReturns, Ran, Go, store, memory
<1>14. CASE UNCHANGED vars
    BY <1>14 DEF vars, store, memory, control, history
<1>15. QED
    BY <1>1, <1>2, <1>3, <1>4, <1>5, <1>6, <1>7, <1>8, <1>9, <1>10, <1>11,
       <1>12, <1>13, <1>14 DEF Next, Step

\* Memory never matters while the store answers.
LEMMA CurrentIsStore ==
    ASSUME SInv, NEW g \in Gateways
    PROVE  Current(g) = state
BY DEF SInv, Alone, Current

\* What Go does to the control state.
LEMMA GoTo ==
    ASSUME SharedTypeOK, NEW g \in Gateways, NEW step, NEW kind, NEW next,
           Go(g, step, kind, next)
    PROVE  /\ at'[g] = step /\ call'[g] = kind /\ goal'[g] = next
           /\ \A h \in Others(g) : /\ at'[h] = at[h]
                                  /\ call'[h] = call[h]
                                  /\ goal'[h] = goal[h]
BY DEF Go, SharedTypeOK, Others

\* Who begins in the window of another, is seen.
LEMMA RaceIsSeen ==
    ASSUME NEW g \in Gateways, Execute(g), ~raced'
    PROVE  ~raced /\ \A h \in Others(g) : ~Planning(h)
BY Zenon DEF Execute

\* Two gateways in the window have raced.
LEMMA OneWindowStep == SInv /\ [Next]_vars => OneWindow'
<1> SUFFICES ASSUME SInv, [Next]_vars PROVE OneWindow'
    OBVIOUS
<1> USE DEF SInv, CallShape, SharedTypeOK, Planning, Beyond, Low, Current, Others, Unsettled, Terminal, OneWindow
<1>1. ASSUME NEW g \in Gateways, NEW a \in Adapters, Register(g, a)
      PROVE  OneWindow'
    BY <1>1 DEF Register, store, control, history
<1>2. ASSUME NEW g \in Gateways, Restart(g)
      PROVE  OneWindow'
    BY <1>2 DEF Restart, Return, Go, store, history
<1>3. ASSUME NEW g \in Gateways, Execute(g)
      PROVE  OneWindow'
  <2>1. state \in {"ABSENT", "PERSISTED"} /\ UNCHANGED <<state, runs>>
      BY <1>3, CurrentIsStore DEF Execute, Begins, store
  <2>2. /\ at'[g] = "persist_request" /\ call'[g] = "execute"
        /\ goal'[g] = "ABSENT"
        /\ \A h \in Others(g) : /\ at'[h] = at[h]
                               /\ call'[h] = call[h]
                               /\ goal'[h] = goal[h]
      BY <1>3, GoTo DEF Execute
  <2>3. ~raced' => ~raced /\ \A h \in Others(g) : ~Planning(h)
      BY <1>3, RaceIsSeen
  <2>4. QED
      BY <2>1, <2>2, <2>3
<1>4. ASSUME NEW g \in Gateways, NEW o \in Outcomes, NEW t \in Terminal,
             Reconcile(g, o, t)
      PROVE  OneWindow'
  <2>1. state \in Unsettled /\ UNCHANGED <<state, runs, raced>>
      BY <1>4, CurrentIsStore DEF Reconcile, ReconcileFrom, Begins, store
  <2>2. /\ at'[g] = "persist_result" /\ call'[g] = "reconcile"
        /\ \A h \in Others(g) : /\ at'[h] = at[h]
                               /\ call'[h] = call[h]
                               /\ goal'[h] = goal[h]
      BY <1>4, GoTo DEF Reconcile, ReconcileFrom
  <2>3. QED
      BY <2>1, <2>2
<1>5. ASSUME NEW g \in Gateways, NEW f, PersistRequest(g, f)
      PROVE  OneWindow'
    BY <1>5 DEF PersistRequest, Return, Go, memory, history
<1>6. ASSUME NEW g \in Gateways, NEW f, PersistResult(g, f)
      PROVE  OneWindow'
    BY <1>6 DEF PersistResult, StoreResult, RaiseFrom, Return, Go, memory,
                history
<1>7. ASSUME NEW g \in Gateways, NEW f, WriteState(g, f)
      PROVE  OneWindow'
    BY <1>7 DEF WriteState, LocalAfterRaise, Proceed, RaiseFrom, Return, Go,
                history
<1>8. ASSUME NEW g \in Gateways, Look(g)
      PROVE  OneWindow'
    BY <1>8 DEF Look, Go, store, memory, history
<1>9. ASSUME NEW g \in Gateways, ReadState(g)
      PROVE  OneWindow'
    BY <1>9 DEF ReadState, LocalAfterRaise, RaiseFrom, Return, Go, store,
                history
<1>10. ASSUME NEW g \in Gateways, AdapterMissing(g)
      PROVE  OneWindow'
    BY <1>10 DEF AdapterMissing, Return, Go, store, memory, history
<1>11. ASSUME NEW g \in Gateways, AdapterRefuses(g)
      PROVE  OneWindow'
    BY <1>11 DEF AdapterRefuses, Go, store, memory, history
<1>12. ASSUME NEW g \in Gateways, AdapterFails(g)
      PROVE  OneWindow'
    BY <1>12 DEF AdapterFails, Ran, Go, store, memory
<1>13. ASSUME NEW g \in Gateways, NEW o \in Outcomes, AdapterReturns(g, o)
      PROVE  OneWindow'
    BY <1>13 DEF AdapterReturns, Ran, Go, store, memory
<1>14. CASE UNCHANGED vars
    BY <1>14 DEF vars, store, memory, control, history
<1>15. QED
    BY <1>1, <1>2, <1>3, <1>4, <1>5, <1>6, <1>7, <1>8, <1>9, <1>10, <1>11,
       <1>12, <1>13, <1>14 DEF Next, Step

\* Two calls in flight overlap.
LEMMA AloneStep == SInv /\ [Next]_vars => Alone'
<1> SUFFICES ASSUME SInv, [Next]_vars PROVE Alone'
    OBVIOUS
<1> USE DEF SInv, CallShape, SharedTypeOK, Planning, Beyond, Low, Current, Others, Unsettled, Terminal, Alone, Legal, Allowed
<1>1. ASSUME NEW g \in Gateways, NEW a \in Adapters, Register(g, a)
      PROVE  Alone'
    BY <1>1 DEF Register, store, control, history
<1>2. ASSUME NEW g \in Gateways, Restart(g)
      PROVE  Alone'
    BY <1>2 DEF Restart, Return, Go, store, history
<1>3. ASSUME NEW g \in Gateways, Execute(g)
      PROVE  Alone'
  <2>1. UNCHANGED <<state, local>>
      BY <1>3 DEF Execute, Begins, store, memory
  <2>2. /\ at'[g] = "persist_request" /\ call'[g] = "execute"
        /\ goal'[g] = "ABSENT"
        /\ \A h \in Others(g) : /\ at'[h] = at[h]
                               /\ call'[h] = call[h]
                               /\ goal'[h] = goal[h]
      BY <1>3, GoTo DEF Execute
  <2>3. ~overlapped' => ~overlapped /\ \A h \in Others(g) : at[h] = "idle"
      BY <1>3, Zenon DEF Execute, Begins
  <2>4. QED
      BY <2>1, <2>2, <2>3
<1>4. ASSUME NEW g \in Gateways, NEW o \in Outcomes, NEW t \in Terminal,
             Reconcile(g, o, t)
      PROVE  Alone'
  <2>1. state \in Unsettled /\ UNCHANGED <<state, local>>
      BY <1>4, CurrentIsStore DEF Reconcile, ReconcileFrom, Begins, store, memory
  <2>2. /\ at'[g] = "persist_result" /\ call'[g] = "reconcile"
        /\ \A h \in Others(g) : /\ at'[h] = at[h]
                               /\ call'[h] = call[h]
                               /\ goal'[h] = goal[h]
      BY <1>4, GoTo DEF Reconcile, ReconcileFrom
  <2>3. ~overlapped' => ~overlapped /\ \A h \in Others(g) : at[h] = "idle"
      BY <1>4, Zenon DEF Reconcile, ReconcileFrom, Begins
  <2>4. QED
      BY <2>1, <2>2, <2>3
<1>5. ASSUME NEW g \in Gateways, NEW f, PersistRequest(g, f)
      PROVE  Alone'
    BY <1>5 DEF PersistRequest, Return, Go, memory, history
<1>6. ASSUME NEW g \in Gateways, NEW f, PersistResult(g, f)
      PROVE  Alone'
    BY <1>6 DEF PersistResult, StoreResult, RaiseFrom, Return, Go, memory,
                history
<1>7. ASSUME NEW g \in Gateways, NEW f, WriteState(g, f)
      PROVE  Alone'
    BY <1>7 DEF WriteState, LocalAfterRaise, Proceed, RaiseFrom, Return, Go,
                history
<1>8. ASSUME NEW g \in Gateways, Look(g)
      PROVE  Alone'
    BY <1>8 DEF Look, Go, store, memory, history
<1>9. ASSUME NEW g \in Gateways, ReadState(g)
      PROVE  Alone'
    BY <1>9 DEF ReadState, LocalAfterRaise, RaiseFrom, Return, Go, store,
                history
<1>10. ASSUME NEW g \in Gateways, AdapterMissing(g)
      PROVE  Alone'
    BY <1>10 DEF AdapterMissing, Return, Go, store, memory, history
<1>11. ASSUME NEW g \in Gateways, AdapterRefuses(g)
      PROVE  Alone'
    BY <1>11 DEF AdapterRefuses, Go, store, memory, history
<1>12. ASSUME NEW g \in Gateways, AdapterFails(g)
      PROVE  Alone'
    BY <1>12 DEF AdapterFails, Ran, Go, store, memory
<1>13. ASSUME NEW g \in Gateways, NEW o \in Outcomes, AdapterReturns(g, o)
      PROVE  Alone'
    BY <1>13 DEF AdapterReturns, Ran, Go, store, memory
<1>14. CASE UNCHANGED vars
    BY <1>14 DEF vars, store, memory, control, history
<1>15. QED
    BY <1>1, <1>2, <1>3, <1>4, <1>5, <1>6, <1>7, <1>8, <1>9, <1>10, <1>11,
       <1>12, <1>13, <1>14 DEF Next, Step

-----------------------------------------------------------------------------
(* Theorems *)

LEMMA SInvInit == Init => SInv
<1> SUFFICES ASSUME Init PROVE SInv
    OBVIOUS
<1>1. SharedTypeOK
    BY TypeInit
<1>2. CallShape
    BY DEF Init, CallShape
<1>3. ReceiptFirst
    BY DEF Init, ReceiptFirst, CompletedHasReceipt
<1>4. RunFirst
    BY DEF Init, RunFirst, OutcomeHasRun, Claims, Unsettled
<1>5. OneWindow
    BY DEF Init, OneWindow, Planning, Beyond, Low
<1>6. Alone
    BY DEF Init, Alone, Beyond, Others
<1>7. QED
    BY <1>1, <1>2, <1>3, <1>4, <1>5, <1>6 DEF SInv

LEMMA SInvStep == SInv /\ [Next]_vars => SInv'
<1>1. SInv => SharedTypeOK
    BY DEF SInv
<1>2. QED
    BY <1>1, TypeStep, CallShapeStep, ReceiptFirstStep, RunFirstStep,
       OneWindowStep, AloneStep DEF SInv

LEMMA SInvHolds == Spec => []SInv
BY SInvInit, SInvStep, PTL DEF Spec

\* The replay barrier between any number of gateways: a second run takes two of
\* them between the check of execute and RUNNING together.
THEOREM SecondRunNeedsRace == Spec => []RunsAgainOnlyWhenRaced
<1>1. SInv => RunsAgainOnlyWhenRaced
    BY DEF SInv, SharedTypeOK, OneWindow, RunsAgainOnlyWhenRaced
<1>2. QED
    BY SInvHolds, <1>1, PTL

\* A recorded result has its receipt in the store, races or not.
THEOREM RacesKeepReceipts == Spec => []CompletedHasReceipt
<1>1. SInv => CompletedHasReceipt
    BY DEF SInv, ReceiptFirst
<1>2. QED
    BY SInvHolds, <1>1, PTL

\* No interleaving, stale state, restart or rebound adapter invents an outcome
\* of a request that did not run.
THEOREM RacesInventNoOutcome == Spec => []OutcomeHasRun
<1>1. SInv => OutcomeHasRun
    BY DEF SInv, RunFirst
<1>2. QED
    BY SInvHolds, <1>1, PTL

\* Gateways whose calls do not overlap are as good as one: the store follows the
\* lifecycle and settled evidence is frozen.
THEOREM TurnsKeepLifecycle == Spec => TurnsFollowLifecycle
<1> DEFINE Follows == ~overlapped =>
               /\ state' # state => Legal(state, state')
               /\ receipt' # receipt => state \in {"RUNNING"} \cup Unsettled
<1>1. ASSUME SInv, [Next]_vars PROVE Follows
  <2>1. ASSUME NEW g \in Gateways, NEW f, WriteState(g, f) PROVE Follows
      BY <1>1, <2>1 DEF WriteState, SInv, Alone
  <2>2. ASSUME NEW g \in Gateways, NEW f, PersistResult(g, f) PROVE Follows
      BY <1>1, <2>2 DEF PersistResult, StoreResult, SInv, Alone
  <2>3. CASE UNCHANGED <<state, receipt>>
      BY <2>3
  <2>4. QED
      BY <1>1, <2>1, <2>2, <2>3
         DEF Next, Step, vars, store, Register, Restart, Execute, Reconcile,
             ReconcileFrom, Begins, PersistRequest, Look, ReadState,
             AdapterMissing, AdapterRefuses, AdapterFails, AdapterReturns, Ran
<1>2. QED
    BY SInvHolds, <1>1, PTL DEF Spec, TurnsFollowLifecycle
=============================================================================
