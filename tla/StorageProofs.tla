---------------------------- MODULE StorageProofs ----------------------------
(***************************************************************************)
(* Theorems about StorageSeries, for any number of callers, signals, sizes *)
(* and any limits: who folds and into what, and that each bounded part of  *)
(* the contract, which every run derives from the one before, is what the  *)
(* whole history makes of it.                                              *)
(***************************************************************************)
EXTENDS StorageSeries, FiniteSetTheorems, WellFoundedInduction, TLAPS

\* a run is a record with three fields
Shape ==
  /\ DOMAIN runs = Jobs
  /\ \A j \in Jobs : DOMAIN runs[j] = {"pc", "id", "doc"}

\* whoever is past flock holds the lock
Holds == \A j \in Jobs : ~At(j, "idle") => lock = j

\* the two input files and the contract under way are the run's own
Owned ==
  \A j \in Jobs :
    /\ At(j, "plan") \/ At(j, "read") => inventory.run = runs[j].id
    /\ At(j, "read") => plan = runs[j].id
    /\ At(j, "publish") => runs[j].doc.plan = runs[j].doc.current.run

IInv == Shape /\ Holds /\ Owned /\ OneRun

\* The fold takes both inputs as it finds them.
LEMMA CollectedInputs ==
  ASSUME NEW doc \in Collected
  PROVE  doc.current = inventory /\ doc.plan = plan
BY DEF Collected

\* what a contract that folds into the one published now says
FoldOf(doc) ==
  /\ doc.alertState = doc.current.states
  /\ doc.notifications \in
       Retained(artifact.notifications
                  \cup Transitions(artifact.alertState, doc.current.states, doc.current.at))

\* The fold trims what was kept together with what the inventory brings.
LEMMA FoldedInputs ==
  ASSUME NEW doc \in Collected
  PROVE  doc.current = inventory /\ FoldOf(doc)
<1> DEFINE told == artifact.notifications
                     \cup Transitions(artifact.alertState, inventory.states, inventory.at)
<1>1. /\ doc.current = inventory /\ doc.alertState = inventory.states
      /\ doc.notifications \in Retained(told)
  <2> HIDE DEF told
  <2> QED BY DEF Collected, told
<1> QED BY <1>1 DEF FoldOf

\* One caller at a time is past flock.
LEMMA Alone ==
  ASSUME Holds, NEW j \in Jobs, ~At(j, "idle"), NEW k \in Jobs, k # j
  PROVE  At(k, "idle")
BY DEF Holds

\* The invariant holds from the start.
LEMMA InitIInv == Init => IInv
BY DEF Init, IInv, Shape, Holds, Owned, OneRun, Published, EmptyContract, Idle, At

\* A run that ends, whatever its reason, leaves the others as they are.
LEMMA ExitKeeps ==
  ASSUME StorageAssumption, Shape, Holds, NEW j \in Jobs, ~At(j, "idle"), Exit(j)
  PROVE  /\ Shape' /\ Holds'
         /\ \A k \in Jobs : runs'[k].pc = "idle"
<1>1. \A k \in Jobs : runs'[k] = IF k = j THEN Idle ELSE runs[k]
  BY DEF Shape, Exit
<1>2. Shape'
  BY <1>1 DEF Shape, Exit, Idle
<1>3. \A k \in Jobs : runs'[k].pc = "idle"
  BY <1>1, Alone DEF Idle, At
<1>4. Holds'
  BY <1>3 DEF Holds, At
<1> QED BY <1>2, <1>3, <1>4

\* Every step keeps the invariant.
LEMMA StepIInv ==
  ASSUME StorageAssumption, IInv, [Next]_vars
  PROVE  IInv'
<1> USE DEF IInv
<1>1. ASSUME NEW j \in Jobs, Lock(j) PROVE IInv'
  <2>1. \A k \in Jobs : runs'[k] = IF k = j THEN [Idle EXCEPT !.pc = "inventory", !.id = started + 1]
                                   ELSE runs[k]
    BY <1>1 DEF Lock, Shape
  <2>2. Shape'
    BY <1>1, <2>1 DEF Lock, Shape, Idle
  <2>3. \A k \in Jobs : At(k, "idle")
    BY <1>1 DEF Lock, Holds, StorageAssumption
  <2>4. Holds'
    BY <1>1, <2>1, <2>3 DEF Lock, Holds, At, Idle
  <2>5. Owned'
    BY <1>1, <2>1, <2>3 DEF Lock, Owned, At, Idle
  <2>6. OneRun'
    BY <1>1 DEF Lock, OneRun, Published
  <2> QED BY <2>2, <2>4, <2>5, <2>6
<1>2. ASSUME NEW j \in Jobs, Inventory(j) PROVE IInv'
  <2>1. \A k \in Jobs : runs'[k] = IF k = j THEN [runs[j] EXCEPT !.pc = "plan"] ELSE runs[k]
    BY <1>2 DEF Inventory, Goto, Shape
  <2>2. Shape'
    BY <1>2, <2>1 DEF Inventory, Goto, Shape
  <2>3. Holds'
    BY <1>2, <2>1 DEF Inventory, Holds, At
  <2>4. \A k \in Jobs : k # j => At(k, "idle")
    BY <1>2, Alone DEF Inventory, At
  <2>5. Owned'
    <3>1. runs'[j].pc = "plan" /\ runs'[j].id = runs[j].id
      BY <2>1 DEF Shape
    <3>2. inventory'.run = runs[j].id
      BY <1>2 DEF Inventory
    <3>3. \A k \in Jobs : k # j => runs'[k].pc = "idle"
      BY <2>1, <2>4 DEF At
    <3> QED BY <3>1, <3>2, <3>3 DEF Owned, At
  <2>6. OneRun'
    BY <1>2 DEF Inventory, OneRun, Published
  <2> QED BY <2>2, <2>3, <2>5, <2>6
<1>3. ASSUME NEW j \in Jobs, Plan(j) PROVE IInv'
  <2>1. \A k \in Jobs : runs'[k] = IF k = j THEN [runs[j] EXCEPT !.pc = "read"] ELSE runs[k]
    BY <1>3 DEF Plan, Goto, Shape
  <2>2. Shape'
    BY <1>3, <2>1 DEF Plan, Goto, Shape
  <2>3. Holds'
    BY <1>3, <2>1 DEF Plan, Holds, At
  <2>4. \A k \in Jobs : k # j => At(k, "idle")
    BY <1>3, Alone DEF Plan, At
  <2>5. Owned'
    <3>1. runs'[j].pc = "read" /\ runs'[j].id = runs[j].id
      BY <2>1 DEF Shape
    <3>2. inventory'.run = runs[j].id /\ plan' = runs[j].id
      BY <1>3 DEF Plan, Owned
    <3>3. \A k \in Jobs : k # j => runs'[k].pc = "idle"
      BY <2>1, <2>4 DEF At
    <3> QED BY <3>1, <3>2, <3>3 DEF Owned, At
  <2>6. OneRun'
    BY <1>3 DEF Plan, OneRun, Published
  <2> QED BY <2>2, <2>3, <2>5, <2>6
<1>4. ASSUME NEW j \in Jobs, Read(j) PROVE IInv'
  <2>1. OneRun'
    BY <1>4 DEF Read, OneRun, Published
  <2>2. ~At(j, "idle")
    BY <1>4 DEF Read, At
  <2>3. CASE Exit(j)
    <3>1. Shape' /\ Holds' /\ \A k \in Jobs : runs'[k].pc = "idle"
      BY <2>2, <2>3, ExitKeeps
    <3> QED BY <2>1, <3>1 DEF Owned, At
  <2>4. CASE ~Exit(j)
    <3>1. PICK doc \in Collected :
            runs' = [runs EXCEPT ![j].pc = "publish", ![j].doc = doc]
      BY <1>4, <2>4 DEF Read
    <3>2. lock' = lock
      BY <1>4, <2>4 DEF Read
    <3>3. \A k \in Jobs :
            runs'[k] = IF k = j THEN [runs[j] EXCEPT !.pc = "publish", !.doc = doc] ELSE runs[k]
      BY <3>1 DEF Shape
    <3>4. Shape'
      BY <3>1, <3>3 DEF Shape
    <3>5. \A k \in Jobs : k # j => runs'[k].pc = "idle"
      BY <2>2, <3>3, Alone DEF At
    <3>6. Holds'
      BY <2>2, <3>2, <3>5 DEF Holds, At
    <3>7. runs'[j].pc = "publish" /\ runs'[j].doc = doc
      BY <3>3 DEF Shape
    <3>8. doc.plan = doc.current.run
      BY <1>4, CollectedInputs DEF Read, Owned
    <3>9. Owned'
      BY <3>5, <3>7, <3>8 DEF Owned, At
    <3> QED BY <2>1, <3>4, <3>6, <3>9
  <2> QED BY <2>3, <2>4
<1>5. ASSUME NEW j \in Jobs, Publish(j) PROVE IInv'
  <2>1. ~At(j, "idle")
    BY <1>5 DEF Publish, At
  <2>2. Shape' /\ Holds' /\ \A k \in Jobs : runs'[k].pc = "idle"
    BY <1>5, <2>1, ExitKeeps DEF Publish
  <2>3. OneRun'
    BY <1>5 DEF Publish, Owned, OneRun
  <2> QED BY <2>2, <2>3 DEF Owned, At
<1>6. ASSUME NEW j \in Jobs, Fail(j) PROVE IInv'
  <2>1. Shape' /\ Holds' /\ \A k \in Jobs : runs'[k].pc = "idle"
    BY <1>6, ExitKeeps DEF Fail
  <2>2. OneRun'
    BY <1>6 DEF Fail, OneRun, Published
  <2> QED BY <2>1, <2>2 DEF Owned, At
<1>7. CASE UNCHANGED vars
  BY <1>7 DEF vars, Shape, Holds, Owned, OneRun, Published, At
<1>8. CASE Rest
  BY <1>8 DEF Rest, vars, Shape, Holds, Owned, OneRun, Published, At
<1> QED
  BY <1>1, <1>2, <1>3, <1>4, <1>5, <1>6, <1>7, <1>8 DEF Next, Step

\* In every reachable state the inductive invariant holds.
THEOREM Invariance == Spec => []IInv
<1>1. Init => IInv
  BY InitIInv
<1>2. IInv /\ [Next]_vars => IInv'
  BY StepIInv, StorageAssumption
<1> QED BY <1>1, <1>2, PTL DEF Spec

\* The published contract never joins two runs' evidence.
THEOREM JoinsOneRun == Spec => []OneRun
<1>1. IInv => OneRun
  BY DEF IInv
<1> QED BY <1>1, Invariance, PTL

\* No two callers are past flock, so nobody folds into a contract that is
\* replaced before the fold is published.
THEOREM CollectsAlone ==
  Spec => [](\A j, k \in Jobs : ~At(j, "idle") /\ ~At(k, "idle") => j = k)
<1>1. IInv => \A j, k \in Jobs : ~At(j, "idle") /\ ~At(k, "idle") => j = k
  BY DEF IInv, Holds
<1> QED BY <1>1, Invariance, PTL
-----------------------------------------------------------------------------
(***************************************************************************)
(* The bounded notifications are the newest of all there ever were.        *)
(***************************************************************************)
\* what the properties' side records is typed
Typed ==
  /\ history \in Seq(Observation)
  /\ started \in 0..MaxRuns
  /\ \A j \in Jobs :
       /\ ~At(j, "idle") => runs[j].id \in 1..MaxRuns
       /\ At(j, "plan") \/ At(j, "read") => inventory \in Observation
       /\ At(j, "publish") => runs[j].doc.current \in Observation

\* the states of the last observation published
LastStates == IF history = <<>> THEN [s \in Signals |-> Unknown]
              ELSE history[Len(history)].states

Remembered == artifact.alertState = LastStates

\* a contract under way folds into the one published now
Folded == \A j \in Jobs : At(j, "publish") => FoldOf(runs[j].doc)

\* kept is the newest of all, NotificationMax at most
IsNewest(kept, all) ==
  /\ IsFiniteSet(kept) /\ Cardinality(kept) <= NotificationMax
  /\ kept \subseteq all
  /\ kept = all \/ Cardinality(kept) = NotificationMax
  /\ \A n \in kept, m \in all \ kept : m.at <= n.at

NInv == Typed /\ Remembered /\ Folded /\ IsNewest(artifact.notifications, Told)

\* A run tells finitely many transitions.
LEMMA TransitionsFinite ==
  ASSUME IsFiniteSet(Signals), NEW previous, NEW states, NEW at
  PROVE  IsFiniteSet(Transitions(previous, states, at))
<1> DEFINE crossing == {s \in Signals : Crosses(previous[s], states[s])}
           tell == [s \in crossing |->
                      [signal |-> s, from |-> previous[s], to |-> states[s], at |-> at]]
<1>1. IsFiniteSet(crossing)
  BY FS_Subset
<1>2. tell \in Surjection(crossing, Transitions(previous, states, at))
  BY DEF Surjection, Transitions
<1> QED BY <1>1, <1>2, FS_Surjection

\* Of two sets of one size, an element of one that is not in the other leaves
\* room for one the other way round.
LEMMA Displaced ==
  ASSUME NEW S, NEW T, IsFiniteSet(S), IsFiniteSet(T), Cardinality(S) = Cardinality(T),
         NEW x \in T \ S
  PROVE  \E y \in S : y \notin T
<1> SUFFICES ASSUME S \subseteq T PROVE FALSE
  OBVIOUS
<1>1. S = T
  BY FS_Subset
<1> QED BY <1>1

\* Trimming what was kept together with what is new keeps the newest of all.
LEMMA TrimKeepsNewest ==
  ASSUME NotificationMax \in Nat, NEW old, NEW new, NEW all, NEW kept,
         IsNewest(old, all), IsFiniteSet(new),
         \A n \in all \cup new : n.at \in Nat,
         kept \in Retained(old \cup new)
  PROVE  IsNewest(kept, all \cup new)
<1> DEFINE told == old \cup new
<1>1. IsFiniteSet(told)
  BY FS_Union DEF IsNewest
<1>2. kept \subseteq told /\ IsFiniteSet(kept) /\ Cardinality(kept) <= Cardinality(told)
  BY <1>1, FS_Subset DEF Retained
<1>3. Cardinality(told) \in Nat /\ Cardinality(kept) \in Nat /\ Cardinality(old) \in Nat
  BY <1>1, <1>2, FS_CardinalityType DEF IsNewest
<1>4. kept \subseteq all \cup new
  BY <1>2 DEF IsNewest
<1>5. \A n \in kept, m \in told \ kept : m.at <= n.at
  BY DEF Retained
<1>6. CASE Cardinality(told) <= NotificationMax
  <2>1. kept = told
    BY <1>6 DEF Retained
  <2>2. Cardinality(kept) <= NotificationMax
    BY <1>6, <2>1
  <2>3. CASE old = all
    BY <1>2, <1>4, <1>5, <2>1, <2>2, <2>3 DEF IsNewest
  <2>4. CASE old # all
    <3>1. Cardinality(old) = NotificationMax
      BY <2>4 DEF IsNewest
    <3>2. Cardinality(old) <= Cardinality(told)
      BY <1>1, FS_Subset
    <3>3. Cardinality(old) = Cardinality(told)
      BY <1>3, <1>6, <3>1, <3>2 DEF IsNewest
    <3>4. old = told
      BY <1>1, <3>3, FS_Subset
    <3>5. Cardinality(kept) = NotificationMax
      BY <2>1, <3>1, <3>4
    <3>6. \A n \in kept, m \in (all \cup new) \ kept : m.at <= n.at
      BY <2>1, <3>4 DEF IsNewest
    <3> QED BY <1>2, <1>4, <2>2, <3>5, <3>6 DEF IsNewest
  <2> QED BY <2>3, <2>4
<1>7. CASE ~(Cardinality(told) <= NotificationMax)
  <2>1. Cardinality(kept) = NotificationMax
    BY <1>7 DEF Retained
  <2>2. ASSUME NEW n \in kept, NEW m \in (all \cup new) \ kept PROVE m.at <= n.at
    <3>1. CASE m \in told
      BY <1>5, <3>1
    <3>2. CASE m \notin told
      <4>1. m \in all \ old /\ old # all
        BY <3>2
      <4>2. Cardinality(old) = NotificationMax
        BY <4>1 DEF IsNewest
      <4>3. CASE n \in old
        BY <4>1, <4>3 DEF IsNewest
      <4>4. CASE n \notin old
        <5>1. PICK o \in old : o \notin kept
          BY <1>2, <2>1, <4>2, <4>4, Displaced DEF IsNewest
        <5>2. o.at <= n.at
          BY <1>5, <5>1
        <5>3. m.at <= o.at
          BY <4>1 DEF IsNewest
        <5>4. m.at \in Nat /\ o.at \in Nat /\ n.at \in Nat
          BY <1>4, <4>1 DEF IsNewest
        <5> QED BY <5>2, <5>3, <5>4
      <4> QED BY <4>3, <4>4
    <3> QED BY <3>1, <3>2
  <2>3. Cardinality(kept) <= NotificationMax
    BY <2>1
  <2> QED BY <1>2, <1>4, <2>1, <2>2, <2>3 DEF IsNewest
<1> QED BY <1>6, <1>7

\* Publishing an observation adds the transitions it brings, and no other.
LEMMA ToldGrows ==
  ASSUME history \in Seq(Observation), NEW obs \in Observation,
         history' = Append(history, obs)
  PROVE  Told' = Told \cup Transitions(LastStates, obs.states, obs.at)
<1> DEFINE n == Len(history)
           Record(h, i, s) == [signal |-> s, at |-> h[i].at, to |-> h[i].states[s],
                               from |-> IF i = 1 THEN Unknown ELSE h[i - 1].states[s]]
<1>1. n \in Nat /\ DOMAIN history = 1..n /\ DOMAIN history' = 1..(n + 1)
  OBVIOUS
<1>2. history'[n + 1] = obs /\ \A i \in 1..n : history'[i] = history[i]
  OBVIOUS
<1>3. \A i \in 1..n, s \in Signals : Record(history', i, s) = Record(history, i, s)
  BY <1>1, <1>2
<1>4. \A s \in Signals :
        Record(history', n + 1, s)
          = [signal |-> s, from |-> LastStates[s], to |-> obs.states[s], at |-> obs.at]
  <2>1. CASE history = <<>>
    BY <1>2, <2>1 DEF LastStates
  <2>2. CASE history # <<>>
    <3>1. n \in 1..n /\ n + 1 # 1 /\ n + 1 - 1 = n
      BY <1>1, <2>2
    <3> QED BY <1>2, <2>2, <3>1 DEF LastStates
  <2> QED BY <2>1, <2>2
<1>5. AllTransitions = {Record(history, i, s) : i \in 1..n, s \in Signals}
  BY <1>1 DEF AllTransitions
<1>6. AllTransitions' = {Record(history', i, s) : i \in 1..(n + 1), s \in Signals}
  BY <1>1 DEF AllTransitions
<1> HIDE DEF Record
<1>7. AllTransitions' = AllTransitions \cup {Record(history', n + 1, s) : s \in Signals}
  BY <1>1, <1>3, <1>5, <1>6
<1>8. Transitions(LastStates, obs.states, obs.at) =
        {t \in {Record(history', n + 1, s) : s \in Signals} : Crosses(t.from, t.to)}
  <2> DEFINE tell(s) == [signal |-> s, from |-> LastStates[s], to |-> obs.states[s], at |-> obs.at]
  <2>1. \A s \in Signals : tell(s).from = LastStates[s] /\ tell(s).to = obs.states[s]
    OBVIOUS
  <2>2. Transitions(LastStates, obs.states, obs.at) =
          {tell(s) : s \in {s \in Signals : Crosses(LastStates[s], obs.states[s])}}
    BY DEF Transitions
  <2>3. {Record(history', n + 1, s) : s \in Signals} = {tell(s) : s \in Signals}
    BY <1>4
  <2> HIDE DEF tell
  <2> QED BY <2>1, <2>2, <2>3
<1>9. Told = {t \in AllTransitions : Crosses(t.from, t.to)}
  BY DEF Told, Crosses
<1>10. Told' = {t \in AllTransitions' : Crosses(t.from, t.to)}
  BY DEF Told, Crosses
<1> QED BY <1>7, <1>8, <1>9, <1>10

\* Every notification that could be told carries a time.
LEMMA ToldTimes ==
  ASSUME StorageAssumption, history \in Seq(Observation)
  PROVE  \A n \in Told : n.at \in Nat
<1> SUFFICES ASSUME NEW i \in DOMAIN history PROVE history[i].at \in Nat
  BY DEF Told, AllTransitions
<1>1. history[i] \in Observation
  OBVIOUS
<1> QED BY <1>1 DEF Observation, Times, StorageAssumption

\* Nothing is published, nothing told.
LEMMA InitNInv ==
  ASSUME Init, StorageAssumption
  PROVE  NInv
<1>1. Typed
  BY DEF Init, Typed, Idle, At, StorageAssumption
<1>2. Remembered /\ Folded
  BY DEF Init, Remembered, LastStates, Folded, EmptyContract, Idle, At
<1>3. Told = {} /\ artifact.notifications = {}
  BY DEF Init, Told, AllTransitions, EmptyContract
<1>4. IsNewest(artifact.notifications, Told)
  BY <1>3, FS_EmptySet DEF IsNewest, StorageAssumption
<1> QED BY <1>1, <1>2, <1>4 DEF NInv

\* As long as nothing is published, what was told stays.
LEMMA QuietKeeps ==
  ASSUME NInv, UNCHANGED <<artifact, history>>
  PROVE  Remembered' /\ IsNewest(artifact.notifications, Told)'
BY DEF NInv, Remembered, LastStates, IsNewest, Told, AllTransitions

\* Every step keeps the newest notifications.
LEMMA StepNInv ==
  ASSUME StorageAssumption, IInv, NInv, [Next]_vars
  PROVE  NInv'
<1> USE DEF NInv
<1>1. ASSUME NEW j \in Jobs, Lock(j) PROVE NInv'
  <2>1. \A k \in Jobs : At(k, "idle")
    BY <1>1 DEF Lock, IInv, Holds, StorageAssumption
  <2>2. \A k \in Jobs : runs'[k] = IF k = j THEN [Idle EXCEPT !.pc = "inventory", !.id = started + 1]
                                   ELSE runs[k]
    BY <1>1 DEF Lock, IInv, Shape
  <2>3. Typed'
    BY <1>1, <2>1, <2>2 DEF Lock, Typed, Idle, At, StorageAssumption
  <2>4. Folded'
    BY <2>1, <2>2 DEF Folded, Idle, At
  <2> QED BY <1>1, <2>3, <2>4, QuietKeeps DEF Lock
<1>2. ASSUME NEW j \in Jobs, Inventory(j) PROVE NInv'
  <2>1. \A k \in Jobs : runs'[k] = IF k = j THEN [runs[j] EXCEPT !.pc = "plan"] ELSE runs[k]
    BY <1>2 DEF Inventory, Goto, IInv, Shape
  <2>2. \A k \in Jobs : k # j => runs'[k].pc = "idle"
    BY <1>2, <2>1, Alone DEF Inventory, At, IInv
  <2>3. runs'[j].pc = "plan" /\ runs'[j].id = runs[j].id /\ runs[j].id \in 1..MaxRuns
    BY <1>2, <2>1 DEF IInv, Shape, Inventory, At, Typed
  <2>4. inventory' \in Observation
    BY <1>2, <2>3 DEF Inventory, Observation
  <2>5. Typed'
    BY <1>2, <2>2, <2>3, <2>4 DEF Inventory, Typed, At
  <2>6. Folded'
    BY <2>2, <2>3 DEF Folded, At
  <2> QED BY <1>2, <2>5, <2>6, QuietKeeps DEF Inventory
<1>3. ASSUME NEW j \in Jobs, Plan(j) PROVE NInv'
  <2>1. \A k \in Jobs : runs'[k] = IF k = j THEN [runs[j] EXCEPT !.pc = "read"] ELSE runs[k]
    BY <1>3 DEF Plan, Goto, IInv, Shape
  <2>2. \A k \in Jobs : k # j => runs'[k].pc = "idle"
    BY <1>3, <2>1, Alone DEF Plan, At, IInv
  <2>3. runs'[j].pc = "read" /\ runs'[j].id = runs[j].id
    BY <1>3, <2>1 DEF IInv, Shape
  <2>4. Typed'
    BY <1>3, <2>2, <2>3 DEF Plan, Typed, At
  <2>5. Folded'
    BY <2>2, <2>3 DEF Folded, At
  <2> QED BY <1>3, <2>4, <2>5, QuietKeeps DEF Plan
<1>4. ASSUME NEW j \in Jobs, Read(j) PROVE NInv'
  <2>1. ~At(j, "idle")
    BY <1>4 DEF Read, At
  <2>2. CASE Exit(j)
    <3>1. \A k \in Jobs : runs'[k].pc = "idle"
      BY <2>1, <2>2, ExitKeeps DEF IInv
    <3>2. Typed' /\ Folded'
      BY <1>4, <3>1 DEF Read, Typed, Folded, At
    <3> QED BY <1>4, <3>2, QuietKeeps DEF Read
  <2>3. CASE ~Exit(j)
    <3>1. PICK doc \in Collected :
            runs' = [runs EXCEPT ![j].pc = "publish", ![j].doc = doc]
      BY <1>4, <2>3 DEF Read
    <3>2. \A k \in Jobs :
            runs'[k] = IF k = j THEN [runs[j] EXCEPT !.pc = "publish", !.doc = doc] ELSE runs[k]
      BY <3>1 DEF IInv, Shape
    <3>3. \A k \in Jobs : k # j => runs'[k].pc = "idle"
      BY <2>1, <3>2, Alone DEF At, IInv
    <3>4. runs'[j].pc = "publish" /\ runs'[j].doc = doc /\ runs'[j].id = runs[j].id
      BY <3>2 DEF IInv, Shape
    <3>5. doc.current = inventory /\ FoldOf(doc)
      BY FoldedInputs
    <3>6. runs[j].id \in 1..MaxRuns /\ inventory \in Observation
      BY <1>4 DEF Read, Typed, At
    <3>7. Typed'
      BY <1>4, <3>3, <3>4, <3>5, <3>6 DEF Read, Typed, At
    <3>8. Folded'
      BY <1>4, <3>3, <3>4, <3>5 DEF Read, Folded, FoldOf, At
    <3> QED BY <1>4, <3>7, <3>8, QuietKeeps DEF Read
  <2> QED BY <2>2, <2>3
<1>5. ASSUME NEW j \in Jobs, Publish(j) PROVE NInv'
  <2> DEFINE doc == runs[j].doc
  <2>1. \A k \in Jobs : runs'[k].pc = "idle"
    BY <1>5, ExitKeeps DEF Publish, At, IInv
  <2>2. doc.current \in Observation /\ FoldOf(doc)
    BY <1>5 DEF Publish, Typed, Folded
  <2>3. Typed' /\ Folded'
    BY <1>5, <2>1, <2>2 DEF Publish, Typed, Folded, At
  <2>4. Remembered'
    <3>1. history' = Append(history, doc.current) /\ artifact' = doc
      BY <1>5 DEF Publish
    <3>2. history' # <<>> /\ history'[Len(history')] = doc.current
      BY <2>2, <3>1 DEF Typed
    <3> QED BY <2>2, <3>1, <3>2 DEF Remembered, LastStates, FoldOf
  <2>5. IsNewest(artifact.notifications, Told)'
    <3> DEFINE new == Transitions(LastStates, doc.current.states, doc.current.at)
    <3>1. Told' = Told \cup new
      BY <1>5, <2>2, ToldGrows DEF Publish, Typed
    <3>2. doc.notifications \in Retained(artifact.notifications \cup new)
      BY <2>2 DEF FoldOf, Remembered
    <3>3. IsFiniteSet(new)
      BY TransitionsFinite DEF StorageAssumption
    <3>4. \A n \in Told \cup new : n.at \in Nat
      <4>1. \A n \in Told : n.at \in Nat
        BY ToldTimes DEF Typed
      <4>2. \A n \in new : n.at = doc.current.at
        BY DEF Transitions
      <4>3. doc.current.at \in Nat
        BY <2>2 DEF Observation, Times, StorageAssumption
      <4> QED BY <4>1, <4>2, <4>3
    <3>5. NotificationMax \in Nat
      BY DEF StorageAssumption
    <3> HIDE DEF new
    <3>6. IsNewest(doc.notifications, Told \cup new)
      BY <3>2, <3>3, <3>4, <3>5, TrimKeepsNewest
    <3>7. artifact'.notifications = doc.notifications
      BY <1>5 DEF Publish
    <3> QED BY <3>1, <3>6, <3>7 DEF IsNewest
  <2> QED BY <2>3, <2>4, <2>5
<1>6. ASSUME NEW j \in Jobs, Fail(j) PROVE NInv'
  <2>1. \A k \in Jobs : runs'[k].pc = "idle"
    BY <1>6, ExitKeeps DEF Fail, IInv
  <2>2. Typed' /\ Folded'
    BY <1>6, <2>1 DEF Fail, Typed, Folded, At
  <2> QED BY <1>6, <2>2, QuietKeeps DEF Fail
<1>7. CASE UNCHANGED vars
  <2>1. Typed' /\ Folded'
    BY <1>7 DEF vars, Typed, Folded, FoldOf, At
  <2> QED BY <1>7, <2>1, QuietKeeps DEF vars
<1>8. CASE Rest
  <2>1. Typed' /\ Folded'
    BY <1>8 DEF Rest, vars, Typed, Folded, FoldOf, At
  <2> QED BY <1>8, <2>1, QuietKeeps DEF Rest, vars
<1> QED
  BY <1>1, <1>2, <1>3, <1>4, <1>5, <1>6, <1>7, <1>8 DEF Next, Step

\* For any limit and any history: the notifications published are the newest
\* transitions of everything ever published.
THEOREM NotificationsKept == Spec => []NotificationsMatchHistory
<1>1. Init => NInv
  BY InitNInv, StorageAssumption
<1>2. IInv /\ NInv /\ [Next]_vars => NInv'
  BY StepNInv, StorageAssumption
<1>3. NInv => NotificationsMatchHistory
  BY DEF NInv, IsNewest, NotificationsMatchHistory
<1> QED BY <1>1, <1>2, <1>3, Invariance, PTL DEF Spec
-----------------------------------------------------------------------------
(***************************************************************************)
(* Ordered sequences, and the newest of a set of numbers.                  *)
(***************************************************************************)
\* A set of numbers that is not empty has a least one.
LEMMA LeastNumber ==
  ASSUME NEW S \in SUBSET Nat, S # {}
  PROVE  \E x \in S : \A y \in S : x <= y
<1>1. IsWellFoundedOn(OpToRel(<, Nat), Nat)
  BY NatLessThanWellFounded
<1>2. PICK x \in S : \A y \in S : ~ (<<y, x>> \in OpToRel(<, Nat))
  BY <1>1, WFMin
<1>3. \A y \in S : ~ (y < x)
  BY <1>2 DEF OpToRel
<1> QED BY <1>3

\* A finite one has a greatest one.
LEMMA GreatestNumber ==
  ASSUME NEW S \in SUBSET Nat, IsFiniteSet(S), S # {}
  PROVE  \E x \in S : \A y \in S : y <= x
<1> DEFINE Above(x) == {y \in S : y > x}
           sizes == {Cardinality(Above(x)) : x \in S}
<1>1. \A x \in S : IsFiniteSet(Above(x)) /\ Cardinality(Above(x)) \in Nat
  BY FS_Subset, FS_CardinalityType
<1>2. sizes \in SUBSET Nat /\ sizes # {}
  BY <1>1
<1>3. PICK x \in S : \A y \in S : Cardinality(Above(x)) <= Cardinality(Above(y))
  <2>1. PICK least \in sizes : \A size \in sizes : least <= size
    BY <1>2, LeastNumber
  <2> HIDE DEF Above
  <2> QED BY <2>1
<1>4. ASSUME NEW y \in S, y > x PROVE FALSE
  <2>1. Above(y) \subseteq Above(x) /\ y \in Above(x) /\ y \notin Above(y)
    <3>1. x \in Nat /\ y \in Nat /\ \A z \in S : z \in Nat
      OBVIOUS
    <3>2. \A z \in S : z > y => z > x
      BY <1>4, <3>1
    <3>3. ~ (y > y)
      BY <3>1
    <3> QED BY <1>4, <3>2, <3>3
  <2>2. Cardinality(Above(y)) <= Cardinality(Above(x)) /\ Cardinality(Above(y)) # Cardinality(Above(x))
    BY <1>1, <2>1, FS_Subset
  <2> QED BY <1>1, <1>3, <1>4, <2>2
<1> QED BY <1>4

\* the keys of entries
Keys(entries, key) == {e[key] : e \in entries}

\* Entries of which finitely many are told apart by their key.
Keyed(entries, key) ==
  /\ IsFiniteSet(entries)
  /\ \A e \in entries : e[key] \in Nat
  /\ \A d, e \in entries : d[key] = e[key] => d = e

\* The position of an entry in the order is the number of those before it.
LEMMA InOrderSorts ==
  ASSUME NEW entries, NEW key, Keyed(entries, key)
  PROVE  LET s == InOrder(entries, key)
             n == Cardinality(entries)
         IN /\ n \in Nat /\ s \in [1..n -> entries] /\ s \in Seq(entries) /\ Len(s) = n
            /\ \A e \in entries : \E i \in 1..n : s[i] = e
            /\ \A i, k \in 1..n : i < k => s[i][key] < s[k][key]
<1> DEFINE n == Cardinality(entries)
           s == InOrder(entries, key)
           Below(e) == {d \in entries : d[key] < e[key]}
           rank == [e \in entries |-> Cardinality(Below(e))]
<1>1. n \in Nat
  BY FS_CardinalityType DEF Keyed
<1>2. \A e \in entries : IsFiniteSet(Below(e)) /\ Cardinality(Below(e)) \in Nat
  BY FS_Subset, FS_CardinalityType DEF Keyed
<1>3. ASSUME NEW d \in entries, NEW e \in entries, d[key] < e[key]
      PROVE  Cardinality(Below(d)) < Cardinality(Below(e))
  <2>1. Below(d) \subseteq Below(e) /\ d \in Below(e) /\ d \notin Below(d)
    BY <1>3 DEF Keyed
  <2>2. Cardinality(Below(d)) <= Cardinality(Below(e)) /\ Cardinality(Below(d)) # Cardinality(Below(e))
    BY <1>2, <2>1, FS_Subset
  <2> QED BY <1>2, <2>2
<1>4. \A e \in entries : Cardinality(Below(e)) \in 0..(n - 1)
  <2> SUFFICES ASSUME NEW e \in entries PROVE Cardinality(Below(e)) \in 0..(n - 1)
    OBVIOUS
  <2>1. Below(e) \subseteq entries /\ e \notin Below(e)
    BY DEF Keyed
  <2>2. Cardinality(Below(e)) <= n /\ Cardinality(Below(e)) # n
    BY <2>1, FS_Subset DEF Keyed
  <2> QED BY <1>1, <1>2, <2>2
<1>5. rank \in Injection(entries, 0..(n - 1))
  <2>1. rank \in [entries -> 0..(n - 1)]
    BY <1>4
  <2>2. ASSUME NEW d \in entries, NEW e \in entries, rank[d] = rank[e] PROVE d = e
    <3>1. Cardinality(Below(d)) = Cardinality(Below(e))
      BY <2>2
    <3> HIDE DEF Below
    <3>2. ~ (d[key] < e[key]) /\ ~ (e[key] < d[key])
      BY <1>2, <1>3, <3>1
    <3> QED BY <3>2 DEF Keyed
  <2> QED BY <2>1, <2>2 DEF Injection, IsInjective
<1>6. rank \in Surjection(entries, 0..(n - 1))
  <2>1. IsFiniteSet(0..(n - 1)) /\ Cardinality(0..(n - 1)) = n
    BY <1>1, FS_Interval
  <2> QED BY <1>5, <2>1, FS_Injection
<1>7. \A i \in 1..n : s[i] \in entries /\ Cardinality(Below(s[i])) = i - 1
  <2> SUFFICES ASSUME NEW i \in 1..n PROVE s[i] \in entries /\ Cardinality(Below(s[i])) = i - 1
    OBVIOUS
  <2>1. i - 1 \in 0..(n - 1)
    BY <1>1
  <2>2. \E e \in entries : Cardinality(Below(e)) = i - 1
    BY <1>6, <2>1 DEF Surjection
  <2>3. s[i] = CHOOSE e \in entries : Cardinality(Below(e)) = i - 1
    BY DEF InOrder
  <2> HIDE DEF s, Below
  <2> QED BY <2>2, <2>3
<1>8. s \in [1..n -> entries]
  BY <1>7 DEF InOrder
<1>9. s \in Seq(entries) /\ Len(s) = n
  BY <1>1, <1>8
<1>10. \A e \in entries : \E i \in 1..n : s[i] = e
  <2> SUFFICES ASSUME NEW e \in entries PROVE \E i \in 1..n : s[i] = e
    OBVIOUS
  <2> DEFINE i == Cardinality(Below(e)) + 1
  <2>1. i \in 1..n /\ i - 1 = Cardinality(Below(e))
    BY <1>1, <1>4
  <2>2. s[i] \in entries /\ Cardinality(Below(s[i])) = Cardinality(Below(e))
    BY <1>7, <2>1
  <2>3. rank[s[i]] = rank[e]
    BY <2>2
  <2>4. s[i] = e
    BY <1>5, <2>2, <2>3 DEF Injection, IsInjective
  <2> QED BY <2>1, <2>4
<1>11. \A i, k \in 1..n : i < k => s[i][key] < s[k][key]
  <2> SUFFICES ASSUME NEW i \in 1..n, NEW k \in 1..n, i < k PROVE s[i][key] < s[k][key]
    OBVIOUS
  <2>1. s[i] \in entries /\ s[k] \in entries
    BY <1>7
  <2>2. Cardinality(Below(s[i])) = i - 1 /\ Cardinality(Below(s[k])) = k - 1
    BY <1>7
  <2>3. s[i][key] \in Nat /\ s[k][key] \in Nat
    BY <2>1 DEF Keyed
  <2>4. CASE s[k][key] < s[i][key]
    <3>1. Cardinality(Below(s[k])) < Cardinality(Below(s[i]))
      BY <1>3, <2>1, <2>4
    <3> QED BY <2>2, <3>1
  <2>5. CASE s[k][key] = s[i][key]
    <3>1. s[k] = s[i]
      BY <2>1, <2>5 DEF Keyed
    <3> QED BY <2>2, <3>1
  <2> QED BY <2>3, <2>4, <2>5
<1> QED BY <1>1, <1>8, <1>9, <1>10, <1>11

\* slice(-maximum) keeps the last entries, in their order.
LEMMA NewestIsTail ==
  ASSUME NEW S, NEW s \in Seq(S), NEW maximum \in Nat
  PROVE  LET w == Newest(s, maximum)
             drop == IF Len(s) > maximum THEN Len(s) - maximum ELSE 0
         IN /\ w \in Seq(S) /\ drop \in Nat /\ Len(w) = Len(s) - drop
            /\ Len(w) \in Nat /\ Len(w) <= maximum /\ DOMAIN w = 1..Len(w)
            /\ \A i \in 1..Len(w) : w[i] = s[i + drop] /\ i + drop \in 1..Len(s)
<1> DEFINE drop == IF Len(s) > maximum THEN Len(s) - maximum ELSE 0
           w == Newest(s, maximum)
<1>1. Len(s) \in Nat /\ drop \in Nat /\ drop <= Len(s)
  OBVIOUS
<1>2. w = SubSeq(s, 1 + drop, Len(s))
  BY DEF Newest
<1>3. \A i \in (1 + drop)..Len(s) : s[i] \in S
  BY <1>1
<1> HIDE DEF drop
<1>4. w = [i \in 1..(Len(s) - drop) |-> s[i + drop]]
  BY <1>1, <1>2
<1>5. \A i \in 1..(Len(s) - drop) : i + drop \in (1 + drop)..Len(s)
  BY <1>1
<1>6. w \in Seq(S) /\ Len(w) = Len(s) - drop
  BY <1>1, <1>3, <1>4, <1>5
<1>7. Len(s) - drop <= maximum
  BY <1>1 DEF drop
<1>8. \A i \in 1..Len(w) : w[i] = s[i + drop] /\ i + drop \in 1..Len(s)
  BY <1>1, <1>4, <1>5, <1>6
<1> QED BY <1>1, <1>6, <1>7, <1>8 DEF drop
\* a sequence of entries in the order of their keys
Ordered(items, key) ==
  /\ items \in Seq(ToSet(items))
  /\ StrictlyIncreasing(items, key)
  /\ \A e \in ToSet(items) : e[key] \in Nat

\* Such entries are told apart by their key, and finitely many.
LEMMA OrderedKeyed ==
  ASSUME NEW items, NEW key, Ordered(items, key)
  PROVE  Keyed(ToSet(items), key)
<1> USE DEF Ordered
<1>1. items \in Surjection(1..Len(items), ToSet(items))
  BY DEF Surjection, ToSet
<1>2. IsFiniteSet(ToSet(items))
  <2>1. IsFiniteSet(1..Len(items))
    BY FS_Interval
  <2> QED BY <1>1, <2>1, FS_Surjection
<1>3. ASSUME NEW i \in DOMAIN items, NEW k \in DOMAIN items, items[i][key] = items[k][key]
      PROVE  i = k
  <2>1. items[i][key] \in Nat /\ items[k][key] \in Nat
    BY DEF ToSet
  <2>2. i \in Nat /\ k \in Nat
    OBVIOUS
  <2>3. ~ (i < k) /\ ~ (k < i)
    BY <1>3, <2>1 DEF StrictlyIncreasing
  <2> QED BY <2>2, <2>3
<1> QED BY <1>2, <1>3 DEF Keyed, ToSet

\* The last entries in the order are those with fewest keys above them.
LEMMA NewestInOrder ==
  ASSUME NEW entries, NEW key, Keyed(entries, key), NEW maximum \in Nat
  PROVE  LET w == Newest(InOrder(entries, key), maximum)
         IN /\ w \in Seq(entries) /\ Len(w) \in Nat /\ Len(w) <= maximum
            /\ StrictlyIncreasing(w, key)
            /\ Keys(ToSet(w), key) = NewestOf(Keys(entries, key), maximum)
<1> DEFINE s == InOrder(entries, key)
           n == Cardinality(entries)
           w == Newest(s, maximum)
           drop == IF Len(s) > maximum THEN Len(s) - maximum ELSE 0
           keys == Keys(entries, key)
           Above(x) == {y \in keys : y > x}
<1>1. /\ n \in Nat /\ s \in [1..n -> entries] /\ s \in Seq(entries) /\ Len(s) = n
      /\ \A e \in entries : \E i \in 1..n : s[i] = e
      /\ \A i, k \in 1..n : i < k => s[i][key] < s[k][key]
  BY InOrderSorts
<1>2. /\ w \in Seq(entries) /\ drop \in Nat /\ Len(w) = Len(s) - drop
      /\ Len(w) \in Nat /\ Len(w) <= maximum /\ DOMAIN w = 1..Len(w)
      /\ \A i \in 1..Len(w) : w[i] = s[i + drop] /\ i + drop \in 1..Len(s)
  BY <1>1, NewestIsTail
<1>9. \A i \in 1..n : drop < i <=> n - i < maximum
  BY <1>1
<1> HIDE DEF s, w, drop
<1>3. \A i \in 1..n : s[i] \in entries /\ s[i][key] \in Nat
  BY <1>1 DEF Keyed
<1>4. \A i, k \in 1..n : s[i][key] < s[k][key] => i < k
  BY <1>1, <1>3
<1>5. StrictlyIncreasing(w, key)
  BY <1>1, <1>2 DEF StrictlyIncreasing
<1>6. \A i \in 1..n : Cardinality(Above(s[i][key])) = n - i
  <2> SUFFICES ASSUME NEW i \in 1..n PROVE Cardinality(Above(s[i][key])) = n - i
    OBVIOUS
  <2> DEFINE f == [k \in (i + 1)..n |-> s[k][key]]
  <2>1. \A k \in (i + 1)..n : k \in 1..n /\ i < k
    BY <1>1
  <2>2. \A k \in (i + 1)..n : s[k][key] \in Above(s[i][key])
    BY <1>1, <1>3, <2>1 DEF Keys
  <2>3. \A y \in Above(s[i][key]) : \E k \in (i + 1)..n : s[k][key] = y
    <3> SUFFICES ASSUME NEW y \in Above(s[i][key]) PROVE \E k \in (i + 1)..n : s[k][key] = y
      OBVIOUS
    <3>1. PICK k \in 1..n : s[k][key] = y
      BY <1>1 DEF Keys
    <3>2. i < k
      BY <1>4, <3>1
    <3> QED BY <1>1, <3>1, <3>2
  <2>4. f \in Bijection((i + 1)..n, Above(s[i][key]))
    <3>1. f \in [(i + 1)..n -> Above(s[i][key])]
      BY <2>2
    <3>2. \A k, l \in (i + 1)..n : f[k] = f[l] => k = l
      <4>1. \A k, l \in 1..n : s[k][key] = s[l][key] => k = l
        BY <1>1, <1>3
      <4> QED BY <2>1, <4>1
    <3>3. \A y \in Above(s[i][key]) : \E k \in (i + 1)..n : f[k] = y
      BY <2>3
    <3> HIDE DEF f, Above
    <3> QED BY <3>1, <3>2, <3>3 DEF Bijection, Injection, IsInjective, Surjection
  <2>5. IsFiniteSet((i + 1)..n) /\ Cardinality((i + 1)..n) = n - i
    <3>1. i + 1 \in Int /\ n \in Int /\ n - (i + 1) + 1 = n - i /\ (i + 1 > n => n - i = 0)
      BY <1>1
    <3> QED BY <3>1, FS_Interval
  <2> HIDE DEF f, Above
  <2> QED BY <2>4, <2>5, FS_Bijection DEF ExistsBijection
<1>7. \A x : x \in Keys(ToSet(w), key) <=> \E i \in 1..n : x = s[i][key] /\ drop < i
  <2>1. ASSUME NEW i \in 1..n, drop < i PROVE i - drop \in 1..Len(w) /\ w[i - drop] = s[i]
    BY <1>1, <1>2, <2>1
  <2>2. \A i \in 1..Len(w) : w[i] = s[i + drop] /\ i + drop \in 1..n /\ drop < i + drop
    BY <1>1, <1>2
  <2>3. \A x : x \in Keys(ToSet(w), key) <=> \E i \in 1..Len(w) : x = w[i][key]
    BY <1>2 DEF ToSet, Keys
  <2> QED BY <2>1, <2>2, <2>3
<1>8. \A x : x \in keys <=> \E i \in 1..n : x = s[i][key]
  BY <1>1, <1>3 DEF Keys
<1>10. \A x : x \in NewestOf(keys, maximum) <=> x \in keys /\ Cardinality(Above(x)) < maximum
  BY DEF NewestOf
<1>11. Keys(ToSet(w), key) = NewestOf(keys, maximum)
  <2> HIDE DEF keys, Above, drop
  <2>1. \A x : x \in Keys(ToSet(w), key) <=> x \in NewestOf(keys, maximum)
    BY <1>6, <1>7, <1>8, <1>9, <1>10
  <2> QED BY <2>1
<1> QED BY <1>2, <1>5, <1>11 DEF s, w

\* What is among the newest of all is among the newest of the newest and what is new.
LEMMA NewestAgain ==
  ASSUME NEW B \in SUBSET Nat, IsFiniteSet(B), NEW b \in Nat, NEW maximum \in Nat
  PROVE  NewestOf(NewestOf(B, maximum) \cup {b}, maximum) = NewestOf(B \cup {b}, maximum)
<1> DEFINE Above(S, x) == {y \in S : y > x}
           W == NewestOf(B, maximum)
           V == W \cup {b}
           C == B \cup {b}
<1>1. \A S, x : x \in NewestOf(S, maximum) <=> x \in S /\ Cardinality(Above(S, x)) < maximum
  BY DEF NewestOf
<1>2. W \subseteq B /\ V \subseteq C /\ C \subseteq Nat /\ IsFiniteSet(C)
  BY FS_AddElement DEF NewestOf
<1>3. \A S \in SUBSET C : \A x : IsFiniteSet(Above(S, x)) /\ Cardinality(Above(S, x)) \in Nat
  BY <1>2, FS_Subset, FS_CardinalityType
<1>4. ASSUME NEW S \in SUBSET C, NEW T \in SUBSET S, NEW x
      PROVE  Cardinality(Above(T, x)) <= Cardinality(Above(S, x))
  <2>1. Above(T, x) \subseteq Above(S, x)
    OBVIOUS
  <2>2. IsFiniteSet(Above(S, x))
    BY <1>3
  <2> HIDE DEF Above
  <2> QED BY <2>1, <2>2, FS_Subset
<1> HIDE DEF W
<1>5. ASSUME NEW x \in NewestOf(C, maximum) PROVE x \in NewestOf(V, maximum)
  <2>1. x \in C /\ Cardinality(Above(C, x)) < maximum
    BY <1>1
  <2>2. Cardinality(Above(B, x)) < maximum /\ Cardinality(Above(V, x)) < maximum
    <3>1. B \in SUBSET C /\ V \in SUBSET C /\ C \in SUBSET C
      BY <1>2
    <3>2. /\ Cardinality(Above(B, x)) <= Cardinality(Above(C, x))
          /\ Cardinality(Above(V, x)) <= Cardinality(Above(C, x))
      BY <1>4, <3>1
    <3>3. /\ Cardinality(Above(B, x)) \in Nat /\ Cardinality(Above(V, x)) \in Nat
          /\ Cardinality(Above(C, x)) \in Nat
      BY <1>3, <3>1
    <3> HIDE DEF Above
    <3> QED BY <2>1, <3>2, <3>3
  <2>3. x \in V
    BY <1>1, <2>1, <2>2 DEF W
  <2> QED BY <1>1, <2>2, <2>3
<1>6. ASSUME NEW x \in NewestOf(V, maximum) PROVE x \in NewestOf(C, maximum)
  <2>1. x \in V /\ Cardinality(Above(V, x)) < maximum
    BY <1>1
  <2>2. CASE Above(C, x) \subseteq V
    <3>1. Above(C, x) = Above(V, x)
      BY <1>2, <2>2
    <3> QED BY <1>1, <1>2, <2>1, <3>1
  <2>3. CASE ~ (Above(C, x) \subseteq V)
    <3> DEFINE missing == B \ W
    <3>1. missing # {} /\ missing \in SUBSET Nat /\ IsFiniteSet(missing)
      BY <2>3, FS_Subset
    <3>2. PICK y \in missing : \A z \in missing : z <= y
      BY <3>1, GreatestNumber
    <3>3. y > x
      <4>1. PICK z \in C : z > x /\ z \notin V
        BY <2>3
      <4>2. z \in missing /\ x \in Nat /\ y \in Nat /\ z \in Nat
        BY <1>2, <2>1, <4>1
      <4> QED BY <3>2, <4>1, <4>2
    <3>4. Above(B, y) \subseteq Above(V, x)
      <4> SUFFICES ASSUME NEW z \in B, z > y PROVE z \in V /\ z > x
        OBVIOUS
      <4>1. x \in Nat /\ y \in Nat /\ z \in Nat
        BY <1>2, <2>1
      <4>2. ~ (z <= y)
        BY <4>1
      <4> QED BY <3>2, <3>3, <4>1, <4>2
    <3>5. Cardinality(Above(B, y)) <= Cardinality(Above(V, x))
      BY <1>2, <1>3, <3>4, FS_Subset
    <3>6. ~ (Cardinality(Above(B, y)) < maximum)
      BY <1>1 DEF W
    <3>7. Cardinality(Above(B, y)) \in Nat /\ Cardinality(Above(V, x)) \in Nat
      BY <1>2, <1>3
    <3> HIDE DEF Above
    <3> QED BY <2>1, <3>5, <3>6, <3>7
  <2> QED BY <2>2, <2>3
<1> QED BY <1>5, <1>6 DEF W
-----------------------------------------------------------------------------
(***************************************************************************)
(* Folding an entry into a series.                                         *)
(***************************************************************************)
\* what a sequence is into which an entry has been folded
IsFold(w, items, key, entry, maximum) ==
  /\ w \in Seq(ToSet(items) \cup {entry}) /\ Len(w) \in Nat /\ Len(w) <= maximum
  /\ Ordered(w, key)
  /\ \A e \in ToSet(w) : e = entry \/ (e \in ToSet(items) /\ e[key] # entry[key])
  /\ Keys(ToSet(w), key) = NewestOf(Keys(ToSet(items), key) \cup {entry[key]}, maximum)

\* Replacing a bucket gives the newest of the keys there were and the new one;
\* all entries but the new one were there.
LEMMA ReplaceIsFold ==
  ASSUME NEW items, NEW key, Ordered(items, key), NEW entry, entry[key] \in Nat, NEW maximum \in Nat
  PROVE  IsFold(ReplaceBucket(items, key, entry, maximum), items, key, entry, maximum)
<1> DEFINE kept == {item \in ToSet(items) : item[key] # entry[key]}
           entries == kept \cup {entry}
           w == ReplaceBucket(items, key, entry, maximum)
<1>1. Keyed(ToSet(items), key)
  BY OrderedKeyed
<1>2. Keyed(entries, key)
  <2>1. IsFiniteSet(kept)
    BY <1>1, FS_Subset DEF Keyed
  <2>2. IsFiniteSet(entries)
    BY <2>1, FS_AddElement
  <2> QED BY <1>1, <2>2 DEF Keyed
<1>3. w = Newest(InOrder(entries, key), maximum)
  BY DEF ReplaceBucket
<1>4. Keys(entries, key) = Keys(ToSet(items), key) \cup {entry[key]}
  BY DEF Keys
<1> HIDE DEF w
<1>5. /\ w \in Seq(entries) /\ Len(w) \in Nat /\ Len(w) <= maximum
      /\ StrictlyIncreasing(w, key)
      /\ Keys(ToSet(w), key) = NewestOf(Keys(entries, key), maximum)
  <2> HIDE DEF entries
  <2> QED BY <1>2, <1>3, NewestInOrder
<1>6. \A e \in ToSet(w) : e \in entries
  BY <1>5 DEF ToSet
<1>7. w \in Seq(ToSet(items) \cup {entry})
  BY <1>5
<1>8. Ordered(w, key)
  <2>1. w \in Seq(ToSet(w))
    BY <1>5 DEF ToSet
  <2> QED BY <1>2, <1>5, <1>6, <2>1 DEF Ordered, Keyed
<1> QED BY <1>4, <1>5, <1>6, <1>7, <1>8 DEF w, IsFold

\* The same where the keys there were are the newest of more.
LEMMA FoldKeepsNewest ==
  ASSUME NEW w, NEW items, NEW key, NEW entry, NEW maximum \in Nat,
         IsFold(w, items, key, entry, maximum), entry[key] \in Nat,
         NEW B \in SUBSET Nat, IsFiniteSet(B), Keys(ToSet(items), key) = NewestOf(B, maximum)
  PROVE  Keys(ToSet(w), key) = NewestOf(B \cup {entry[key]}, maximum)
<1>1. Keys(ToSet(w), key) = NewestOf(Keys(ToSet(items), key) \cup {entry[key]}, maximum)
  BY DEF IsFold
<1>2. NewestOf(Keys(ToSet(items), key) \cup {entry[key]}, maximum)
        = NewestOf(B \cup {entry[key]}, maximum)
  BY NewestAgain
<1> QED BY <1>1, <1>2

\* the positions in the history of one bucket's observations
Positions(width, b) == {i \in DOMAIN history : history[i].at \div width = b}

\* The last observation of a bucket that has one.
LEMMA LastIndex ==
  ASSUME history \in Seq(Observation), NEW width, NEW b \in Buckets(width)
  PROVE  \E l \in Positions(width, b) :
           (\A k \in Positions(width, b) : k <= l) /\ LastIn(width, b) = history[l]
<1>1. Positions(width, b) # {}
  BY DEF Positions, Buckets, ToSet
<1>2. Positions(width, b) \in SUBSET Nat /\ IsFiniteSet(Positions(width, b))
  <2>1. Positions(width, b) \subseteq 1..Len(history) /\ Len(history) \in Nat
    BY DEF Positions
  <2>2. IsFiniteSet(1..Len(history))
    BY <2>1, FS_Interval
  <2> QED BY <2>1, <2>2, FS_Subset
<1>3. \E l \in Positions(width, b) : \A k \in Positions(width, b) : k <= l
  BY <1>1, <1>2, GreatestNumber
<1>4. LastIn(width, b)
        = history[CHOOSE i \in Positions(width, b) : \A k \in Positions(width, b) : k <= i]
  BY DEF LastIn, Positions
<1> QED BY <1>3, <1>4

\* An observation published is the last one of its bucket, and of no other.
LEMMA LastGrows ==
  ASSUME history \in Seq(Observation), NEW obs \in Observation,
         history' = Append(history, obs), NEW width
  PROVE  /\ Buckets(width)' = Buckets(width) \cup {obs.at \div width}
         /\ LastIn(width, obs.at \div width)' = obs
         /\ \A b \in Buckets(width) :
              b # obs.at \div width => LastIn(width, b)' = LastIn(width, b)
<1> DEFINE n == Len(history)
           now == obs.at \div width
<1>1. /\ n \in Nat /\ DOMAIN history = 1..n /\ DOMAIN history' = 1..(n + 1)
      /\ history'[n + 1] = obs /\ \A i \in 1..n : history'[i] = history[i]
      /\ history' \in Seq(Observation)
  OBVIOUS
<1>2. Buckets(width)' = Buckets(width) \cup {now}
  <2>1. ToSet(history') = ToSet(history) \cup {obs}
    BY <1>1 DEF ToSet
  <2> QED BY <2>1 DEF Buckets
<1>3. \A b : Positions(width, b)' = Positions(width, b) \cup (IF b = now THEN {n + 1} ELSE {})
  BY <1>1 DEF Positions
<1>4. \A b : LastIn(width, b)' = history'[CHOOSE i \in Positions(width, b)' : \A k \in Positions(width, b)' : k <= i]
  BY DEF LastIn, Positions
<1>5. LastIn(width, now)' = obs
  <2>1. n + 1 \in Positions(width, now)'
    BY <1>3
  <2>2. \A k \in Positions(width, now)' : k \in Nat /\ k <= n + 1
    BY <1>1 DEF Positions
  <2>3. (CHOOSE i \in Positions(width, now)' : \A k \in Positions(width, now)' : k <= i) = n + 1
    <3>1. \A i \in Positions(width, now)' : (\A k \in Positions(width, now)' : k <= i) => i = n + 1
      BY <1>1, <2>1, <2>2
    <3> QED BY <2>1, <2>2, <3>1
  <2> QED BY <1>1, <1>4, <2>3
<1>6. ASSUME NEW b \in Buckets(width), b # now PROVE LastIn(width, b)' = LastIn(width, b)
  <2>1. PICK l \in Positions(width, b) :
          (\A k \in Positions(width, b) : k <= l) /\ LastIn(width, b) = history[l]
    BY LastIndex
  <2>2. Positions(width, b)' = Positions(width, b)
    BY <1>3, <1>6
  <2>3. \A k \in Positions(width, b) : k \in 1..n
    BY <1>1 DEF Positions
  <2>4. (CHOOSE i \in Positions(width, b) : \A k \in Positions(width, b) : k <= i) = l
    <3>1. \A i \in Positions(width, b) : (\A k \in Positions(width, b) : k <= i) => i = l
      BY <1>1, <2>1, <2>3
    <3> QED BY <2>1, <3>1
  <2>5. LastIn(width, b)' = history'[l]
    BY <1>4, <2>2, <2>4
  <2> QED BY <1>1, <2>1, <2>3, <2>5
<1> QED BY <1>2, <1>5, <1>6

\* The bucket of a time is a number.
LEMMA BucketType ==
  ASSUME NEW at \in Nat, NEW width \in Nat \ {0}
  PROVE  at \div width \in Nat
OBVIOUS

\* What an observation is made of.
LEMMA ObservationType ==
  ASSUME StorageAssumption, NEW o \in Observation
  PROVE  o.at \in Times /\ o.at \in Nat /\ o.used \in Used /\ o.used \in Nat /\ o.states \in States
<1>1. o.at \in Times /\ o.used \in Used /\ o.states \in States
  BY DEF Observation
<1>2. Times \subseteq Nat /\ Used \subseteq Nat
  BY DEF Times, StorageAssumption
<1> QED BY <1>1, <1>2

\* Buckets are numbers, and finitely many.
LEMMA BucketsFinite ==
  ASSUME StorageAssumption, history \in Seq(Observation), NEW width \in Nat \ {0}
  PROVE  Buckets(width) \in SUBSET Nat /\ IsFiniteSet(Buckets(width))
<1>1. \A i \in 1..Len(history) : history[i].at \in Nat
  <2> SUFFICES ASSUME NEW i \in 1..Len(history) PROVE history[i].at \in Nat
    OBVIOUS
  <2>1. history[i] \in Observation
    OBVIOUS
  <2> QED BY <2>1, ObservationType
<1>2. Buckets(width) = {history[i].at \div width : i \in 1..Len(history)}
  BY DEF Buckets, ToSet
<1> DEFINE f == [i \in 1..Len(history) |-> history[i].at \div width]
<1>3. f \in Surjection(1..Len(history), Buckets(width))
  BY <1>2 DEF Surjection
<1>4. IsFiniteSet(1..Len(history))
  BY FS_Interval
<1> HIDE DEF f
<1>5. IsFiniteSet(Buckets(width))
  BY <1>3, <1>4, FS_Surjection
<1>6. \A i \in 1..Len(history) : history[i].at \div width \in Nat
  <2>1. \A a \in Nat : a \div width \in Nat
    OBVIOUS
  <2> QED BY <1>1, <2>1
<1> QED BY <1>2, <1>5, <1>6

\* Folding an observation into a window of the newest buckets gives the window
\* of the newest buckets with it, and of the other buckets none has a new last
\* observation.
LEMMA WindowGrows ==
  ASSUME StorageAssumption, history \in Seq(Observation), NEW obs \in Observation,
         history' = Append(history, obs),
         NEW width \in Nat \ {0}, NEW maximum \in Nat \ {0},
         NEW w, NEW items, NEW key, NEW entry, IsFold(w, items, key, entry, maximum),
         Keys(ToSet(items), key) = NewestOf(Buckets(width), maximum),
         entry[key] = obs.at \div width
  PROVE  /\ Keys(ToSet(w), key) = NewestOf(Buckets(width)', maximum)
         /\ \A e \in ToSet(w) :
              \/ e = entry /\ LastIn(width, e[key])' = obs
              \/ e \in ToSet(items) /\ LastIn(width, e[key])' = LastIn(width, e[key])
<1>1. entry[key] \in Nat
  BY ObservationType, BucketType
<1>2. Buckets(width) \in SUBSET Nat /\ IsFiniteSet(Buckets(width)) /\ maximum \in Nat
  BY BucketsFinite
<1>3. Keys(ToSet(w), key) = NewestOf(Buckets(width) \cup {entry[key]}, maximum)
  BY <1>1, <1>2, FoldKeepsNewest
<1>4. /\ Buckets(width)' = Buckets(width) \cup {entry[key]}
      /\ LastIn(width, entry[key])' = obs
      /\ \A b \in Buckets(width) : b # entry[key] => LastIn(width, b)' = LastIn(width, b)
  BY LastGrows
<1>5. \A e \in ToSet(items) : e[key] \in Buckets(width)
  BY DEF Keys, NewestOf
<1>6. \A e \in ToSet(w) : e = entry \/ (e \in ToSet(items) /\ e[key] # entry[key])
  BY DEF IsFold
<1> QED BY <1>3, <1>4, <1>5, <1>6

\* the entries an observation adds
HourOf(o) == [bucket |-> HourBucket(o.at), at |-> o.at, used |-> o.used]
DayOf(o) == [date |-> DayBucket(o.at), at |-> o.at, states |-> o.states]

\* The hourly window has the size of each hour's last observation, too.
IsHourly(items) ==
  /\ IsWindow(items, "bucket", HourTicks, HourlyMax)
  /\ \A e \in ToSet(items) : e.used = LastIn(HourTicks, e.bucket).used

\* Publishing a fold of an observation keeps the hourly window that of the history.
LEMMA HourlyGrows ==
  ASSUME StorageAssumption, history \in Seq(Observation), NEW obs \in Observation,
         history' = Append(history, obs),
         NEW w, NEW items, IsHourly(items), IsFold(w, items, "bucket", HourOf(obs), HourlyMax)
  PROVE  IsHourly(w)'
<1>1. HourTicks \in Nat \ {0} /\ HourlyMax \in Nat \ {0}
  BY DEF StorageAssumption
<1>2. Keys(ToSet(items), "bucket") = NewestOf(Buckets(HourTicks), HourlyMax)
  BY DEF IsHourly, IsWindow, Keys
<1>3. HourOf(obs)["bucket"] = obs.at \div HourTicks
  BY DEF HourOf, HourBucket
<1>4. /\ Keys(ToSet(w), "bucket") = NewestOf(Buckets(HourTicks)', HourlyMax)
      /\ \A e \in ToSet(w) :
           \/ e = HourOf(obs) /\ LastIn(HourTicks, e["bucket"])' = obs
           \/ e \in ToSet(items) /\ LastIn(HourTicks, e["bucket"])' = LastIn(HourTicks, e["bucket"])
  BY <1>1, <1>2, <1>3, WindowGrows
<1>5. \A e \in ToSet(w) : /\ e.at = LastIn(HourTicks, e["bucket"])'.at
                         /\ e.used = LastIn(HourTicks, e.bucket)'.used
  BY <1>4 DEF HourOf, IsHourly, IsWindow
<1>6. StrictlyIncreasing(w, "bucket")
  BY DEF IsFold, Ordered
<1> QED BY <1>4, <1>5, <1>6 DEF IsHourly, IsWindow, Keys, NewestOf

\* Days are as many hours.
LEMMA DayWidth ==
  ASSUME StorageAssumption, NEW at \in Nat
  PROVE  DayBucket(at) = at \div (HourTicks * DayHours)
<1>1. \A n \in Nat, a, b \in Nat \ {0} : (n \div a) \div b = n \div (a * b)
  OBVIOUS
<1>2. HourTicks \in Nat \ {0} /\ DayHours \in Nat \ {0}
  BY DEF StorageAssumption
<1> QED BY <1>1, <1>2 DEF DayBucket, HourBucket

\* The daily window.
IsDaily(items) == IsWindow(items, "date", HourTicks * DayHours, DailyMax)

\* Publishing a fold of an observation keeps the daily window that of the history.
LEMMA DailyGrows ==
  ASSUME StorageAssumption, history \in Seq(Observation), NEW obs \in Observation,
         history' = Append(history, obs),
         NEW w, NEW items, IsDaily(items), IsFold(w, items, "date", DayOf(obs), DailyMax)
  PROVE  IsDaily(w)'
<1> DEFINE width == HourTicks * DayHours
<1>1. width \in Nat \ {0} /\ DailyMax \in Nat \ {0}
  BY DEF StorageAssumption
<1>2. Keys(ToSet(items), "date") = NewestOf(Buckets(width), DailyMax)
  BY DEF IsDaily, IsWindow, Keys
<1>3. DayOf(obs)["date"] = obs.at \div width
  BY ObservationType, DayWidth DEF DayOf
<1> HIDE DEF width
<1>4. /\ Keys(ToSet(w), "date") = NewestOf(Buckets(width)', DailyMax)
      /\ \A e \in ToSet(w) :
           \/ e = DayOf(obs) /\ LastIn(width, e["date"])' = obs
           \/ e \in ToSet(items) /\ LastIn(width, e["date"])' = LastIn(width, e["date"])
  BY <1>1, <1>2, <1>3, WindowGrows
<1>5. \A e \in ToSet(items) : e.at = LastIn(width, e["date"]).at
  BY DEF IsDaily, IsWindow, width
<1>6. \A e \in ToSet(w) : e.at = LastIn(width, e["date"])'.at
  BY <1>4, <1>5 DEF DayOf
<1>7. StrictlyIncreasing(w, "date")
  BY DEF IsFold, Ordered
<1> QED BY <1>4, <1>6, <1>7 DEF IsDaily, IsWindow, Keys, NewestOf, width
-----------------------------------------------------------------------------
(***************************************************************************)
(* Types, and the growth over a day.                                       *)
(***************************************************************************)
\* Buckets of times are the hours and days there are.
LEMMA BucketsOfTimes ==
  ASSUME StorageAssumption, NEW at \in Times
  PROVE  HourBucket(at) \in Hours /\ DayBucket(at) \in Days
<1>1. \A n, m \in Nat, d \in Nat \ {0} : n <= m => n \div d \in 0..(m \div d)
  OBVIOUS
<1>2. HourTicks \in Nat \ {0} /\ HourTicks * DayHours \in Nat \ {0}
  BY DEF StorageAssumption
<1>3. at \in Nat /\ MaxTime \in Nat /\ at <= MaxTime
  BY DEF StorageAssumption, Times
<1>4. at \div HourTicks \in Hours
  BY <1>1, <1>2, <1>3 DEF Hours
<1>5. at \div (HourTicks * DayHours) \in Days
  BY <1>1, <1>2, <1>3 DEF Days
<1>6. DayBucket(at) = at \div (HourTicks * DayHours)
  BY <1>3, DayWidth
<1> QED BY <1>4, <1>5, <1>6 DEF HourBucket

\* Hours and days are numbers.
LEMMA BucketSets ==
  ASSUME StorageAssumption
  PROVE  Hours \subseteq Nat /\ Days \subseteq Nat
BY DEF Hours, Days

\* The entries an observation adds are entries of the series.
LEMMA EntryTypes ==
  ASSUME StorageAssumption, NEW o \in Observation
  PROVE  HourOf(o) \in HourEntry /\ DayOf(o) \in DayEntry
<1>1. o.at \in Times /\ o.used \in Used /\ o.states \in States
  BY ObservationType
<1>2. HourBucket(o.at) \in Hours /\ DayBucket(o.at) \in Days
  BY <1>1, BucketsOfTimes
<1> QED BY <1>1, <1>2 DEF HourOf, DayOf, HourEntry, DayEntry

\* The series of a valid contract are in order.
LEMMA SeriesOrdered ==
  ASSUME StorageAssumption, NEW hourly \in Seq(HourEntry), NEW daily \in Seq(DayEntry),
         StrictlyIncreasing(hourly, "bucket"), StrictlyIncreasing(daily, "date")
  PROVE  Ordered(hourly, "bucket") /\ Ordered(daily, "date")
<1>1. \A e \in ToSet(hourly) : e \in HourEntry
  BY DEF ToSet
<1>2. \A e \in ToSet(daily) : e \in DayEntry
  BY DEF ToSet
<1>3. \A e \in ToSet(hourly) : e["bucket"] \in Nat
  BY <1>1, BucketSets DEF HourEntry
<1>4. \A e \in ToSet(daily) : e["date"] \in Nat
  BY <1>2, BucketSets DEF DayEntry
<1>5. hourly \in Seq(ToSet(hourly)) /\ daily \in Seq(ToSet(daily))
  BY DEF ToSet
<1> QED BY <1>3, <1>4, <1>5 DEF Ordered

\* Of finitely many positions one is nearest, and the first of those as near.
LEMMA NearestExists ==
  ASSUME NEW S \in SUBSET Nat, S # {}, NEW off \in [S -> Nat]
  PROVE  \E i \in S : \A k \in S : off[i] < off[k] \/ (off[i] = off[k] /\ i <= k)
<1>1. PICK d \in {off[i] : i \in S} : \A x \in {off[i] : i \in S} : d <= x
  <2>1. {off[i] : i \in S} \in SUBSET Nat /\ {off[i] : i \in S} # {}
    OBVIOUS
  <2> QED BY <2>1, LeastNumber
<1>2. PICK i \in {i \in S : off[i] = d} : \A k \in {k \in S : off[k] = d} : i <= k
  <2>1. {i \in S : off[i] = d} \in SUBSET Nat /\ {i \in S : off[i] = d} # {}
    BY <1>1
  <2> QED BY <2>1, LeastNumber
<1>3. \A k \in S : off[k] \in Nat /\ d <= off[k]
  BY <1>1
<1>4. d \in Nat
  BY <1>1
<1> QED BY <1>2, <1>3, <1>4

\* hours other than the current one that are near to a day ago
NearOf(hourly, now) ==
  {b \in Keys(ToSet(hourly), "bucket") \ {now} : Distance(now - b, DayHours) <= Near}

\* a growth against the entry that is nearest to a day ago
IsGrowthOver(growth, e, hourly, current) ==
  /\ e.bucket \in NearOf(hourly, current.bucket)
  /\ \A b \in NearOf(hourly, current.bucket) :
       Distance(current.bucket - e.bucket, DayHours) <= Distance(current.bucket - b, DayHours)
  /\ growth = [truth |-> IF e.bucket = current.bucket - DayHours THEN "observed" ELSE "estimated",
               base |-> e.bucket, bytes |-> current.used - e.used, percent |-> e.used > 0]

\* The growth is that over the nearest other hour, if one is near enough.
LEMMA GrowthIsNearest ==
  ASSUME StorageAssumption, NEW hourly \in Seq(HourEntry), NEW current \in HourEntry
  PROVE  IF NearOf(hourly, current.bucket) = {}
         THEN BuildGrowth(hourly, current) = Unavailable
         ELSE \E e \in ToSet(hourly) : IsGrowthOver(BuildGrowth(hourly, current), e, hourly, current)
<1> DEFINE target == current.bucket - DayHours
           Off(i) == Distance(hourly[i].bucket, target)
           candidates == {i \in DOMAIN hourly : hourly[i].bucket # current.bucket /\ Off(i) <= Near}
           best == CHOOSE i \in candidates :
                     \A k \in candidates : Off(i) < Off(k) \/ (Off(i) = Off(k) /\ i <= k)
           growth == [truth |-> IF Off(best) = 0 THEN "observed" ELSE "estimated",
                      base |-> hourly[best].bucket,
                      bytes |-> current.used - hourly[best].used,
                      percent |-> hourly[best].used > 0]
<1>1. BuildGrowth(hourly, current) = IF candidates = {} THEN Unavailable ELSE growth
  BY DEF BuildGrowth
<1>2. /\ current.bucket \in Nat /\ DayHours \in Nat /\ Near \in Nat /\ target \in Int
      /\ \A i \in DOMAIN hourly : hourly[i] \in HourEntry /\ hourly[i].bucket \in Nat
  <2>1. \A e \in HourEntry : e.bucket \in Nat
    BY BucketSets DEF HourEntry
  <2>2. \A i \in DOMAIN hourly : hourly[i] \in HourEntry
    OBVIOUS
  <2>3. DayHours \in Nat /\ Near \in Nat
    BY DEF StorageAssumption
  <2> QED BY <2>1, <2>2, <2>3
<1>3. \A i \in DOMAIN hourly :
        /\ Off(i) \in Nat
        /\ Off(i) = Distance(current.bucket - hourly[i].bucket, DayHours)
        /\ Off(i) = 0 <=> hourly[i].bucket = current.bucket - DayHours
  <2> SUFFICES ASSUME NEW i \in DOMAIN hourly
               PROVE  /\ Off(i) \in Nat
                      /\ Off(i) = Distance(current.bucket - hourly[i].bucket, DayHours)
                      /\ Off(i) = 0 <=> hourly[i].bucket = current.bucket - DayHours
    OBVIOUS
  <2> DEFINE b == hourly[i].bucket
             now == current.bucket
  <2>1. b \in Nat /\ now \in Nat /\ DayHours \in Nat
    BY <1>2
  <2>2. Off(i) = Distance(b, now - DayHours)
    OBVIOUS
  <2> HIDE DEF b, now, Off
  <2>3. /\ Distance(b, now - DayHours) \in Nat
        /\ Distance(b, now - DayHours) = Distance(now - b, DayHours)
        /\ Distance(b, now - DayHours) = 0 <=> b = now - DayHours
    BY <2>1 DEF Distance
  <2> QED BY <2>2, <2>3 DEF b, now
<1>4. \A i \in candidates : hourly[i] \in ToSet(hourly) /\ hourly[i].bucket \in NearOf(hourly, current.bucket)
  BY <1>3 DEF NearOf, Keys, ToSet
<1>5. \A b \in NearOf(hourly, current.bucket) : \E i \in candidates : hourly[i].bucket = b
  BY <1>3 DEF NearOf, Keys, ToSet
<1>6. CASE candidates = {}
  BY <1>1, <1>5, <1>6
<1>7. CASE candidates # {}
  <2>1. best \in candidates /\ \A k \in candidates : Off(best) < Off(k) \/ (Off(best) = Off(k) /\ best <= k)
    <3> DEFINE off == [i \in candidates |-> Off(i)]
    <3>1. candidates \in SUBSET Nat /\ off \in [candidates -> Nat]
      BY <1>3
    <3>2. \E i \in candidates : \A k \in candidates : off[i] < off[k] \/ (off[i] = off[k] /\ i <= k)
      <4> HIDE DEF off, candidates
      <4> QED BY <1>7, <3>1, NearestExists
    <3>3. \E i \in candidates : \A k \in candidates : Off(i) < Off(k) \/ (Off(i) = Off(k) /\ i <= k)
      <4>1. \A i \in candidates : off[i] = Off(i)
        OBVIOUS
      <4> HIDE DEF off, candidates, Off
      <4> QED BY <3>2, <4>1
    <3> HIDE DEF candidates, Off
    <3> QED BY <3>3
  <2> HIDE DEF best
  <2> DEFINE e == hourly[best]
  <2>2. best \in DOMAIN hourly /\ e \in ToSet(hourly) /\ e.bucket \in NearOf(hourly, current.bucket)
    BY <1>4, <2>1
  <2>3. \A k \in candidates : Off(best) <= Off(k)
    BY <1>3, <2>1
  <2>4. \A b \in NearOf(hourly, current.bucket) :
          Distance(current.bucket - e.bucket, DayHours) <= Distance(current.bucket - b, DayHours)
    <3>1. \A k \in candidates : k \in DOMAIN hourly
      OBVIOUS
    <3> HIDE DEF candidates, Off
    <3> QED BY <1>3, <1>5, <2>2, <2>3, <3>1
  <2>5. Off(best) = 0 <=> e.bucket = current.bucket - DayHours
    BY <1>3, <2>2
  <2>6. BuildGrowth(hourly, current) = growth
    BY <1>1, <1>7
  <2>7. growth = [truth |-> IF e.bucket = current.bucket - DayHours THEN "observed" ELSE "estimated",
                  base |-> e.bucket, bytes |-> current.used - e.used, percent |-> e.used > 0]
    <3> HIDE DEF Off
    <3> QED BY <2>5
  <2>8. IsGrowthOver(BuildGrowth(hourly, current), e, hourly, current)
    <3> HIDE DEF e, growth
    <3> QED BY <2>2, <2>4, <2>6, <2>7 DEF IsGrowthOver
  <2>9. NearOf(hourly, current.bucket) # {}
    BY <2>2
  <2> QED BY <2>2, <2>8, <2>9
<1> QED BY <1>6, <1>7

\* The growth has the fields of one.
LEMMA GrowthType ==
  ASSUME StorageAssumption, NEW hourly \in Seq(HourEntry), NEW current \in HourEntry
  PROVE  BuildGrowth(hourly, current) \in Growth
<1>1. CASE NearOf(hourly, current.bucket) = {}
  <2>1. Unavailable \in Growth
    BY DEF Growth, Unavailable
  <2> QED BY <1>1, <2>1, GrowthIsNearest
<1>2. CASE NearOf(hourly, current.bucket) # {}
  <2>1. PICK e \in ToSet(hourly) : IsGrowthOver(BuildGrowth(hourly, current), e, hourly, current)
    BY <1>2, GrowthIsNearest
  <2>2. e \in HourEntry
    BY DEF ToSet
  <2>3. e.bucket \in Hours /\ current.used - e.used \in Int
    <3>1. \A x \in HourEntry : x.bucket \in Hours /\ x.used \in Nat
      BY DEF HourEntry, StorageAssumption
    <3> QED BY <2>2, <3>1
  <2>4. BuildGrowth(hourly, current)
          = [truth |-> IF e.bucket = current.bucket - DayHours THEN "observed" ELSE "estimated",
             base |-> e.bucket, bytes |-> current.used - e.used, percent |-> e.used > 0]
    BY <2>1 DEF IsGrowthOver
  <2> QED BY <2>3, <2>4 DEF Growth
<1> QED BY <1>1, <1>2
-----------------------------------------------------------------------------
(***************************************************************************)
(* The published contract against the whole history.                       *)
(***************************************************************************)
\* How a contract under way was folded from the one published now.
SeriesFoldOf(doc) ==
  /\ DOMAIN doc = {"current", "plan", "hourly", "daily", "growth", "notifications", "alertState"}
  /\ doc.hourly = ReplaceBucket(artifact.hourly, "bucket", HourOf(doc.current), HourlyMax)
  /\ doc.daily = ReplaceBucket(artifact.daily, "date", DayOf(doc.current), DailyMax)
  /\ doc.growth = BuildGrowth(doc.hourly, HourOf(doc.current))

SeriesFolded == \A j \in Jobs : At(j, "publish") => SeriesFoldOf(runs[j].doc)

\* The contract published now is typed and valid, its windows are those of the
\* history, its growth that of its hours.
Series ==
  /\ IsContract(artifact) /\ Valid(artifact)
  /\ IsHourly(artifact.hourly) /\ IsDaily(artifact.daily)
  /\ Published => artifact.growth = BuildGrowth(artifact.hourly, HourOf(artifact.current))

\* the types of the rest
Plain ==
  /\ inventory \in Observation \cup {None} /\ plan \in 0..MaxRuns
  /\ lock \in Jobs \cup {None}
  /\ \A j \in Jobs : /\ runs[j].pc \in {"idle", "inventory", "plan", "read", "publish"}
                     /\ runs[j].id \in 0..MaxRuns

\* The inductive invariant of the series.
SInv == Plain /\ Series /\ SeriesFolded /\ refused = FALSE

\* The fold takes the series and the growth from the contract published now.
LEMMA CollectedSeries ==
  ASSUME NEW doc \in Collected
  PROVE  SeriesFoldOf(doc)
<1> DEFINE hourly == ReplaceBucket(artifact.hourly, "bucket", HourOf(inventory), HourlyMax)
           daily == ReplaceBucket(artifact.daily, "date", DayOf(inventory), DailyMax)
           told == artifact.notifications
                     \cup Transitions(artifact.alertState, inventory.states, inventory.at)
           growth == BuildGrowth(hourly, HourOf(inventory))
<1>1. PICK kept \in Retained(told) :
        doc = [current |-> inventory, plan |-> plan, hourly |-> hourly, daily |-> daily,
               growth |-> growth, notifications |-> kept, alertState |-> inventory.states]
  BY DEF Collected, HourOf, DayOf
<1> HIDE DEF hourly, daily, told, growth
<1>2. /\ DOMAIN doc = {"current", "plan", "hourly", "daily", "growth", "notifications", "alertState"}
      /\ doc.current = inventory /\ doc.hourly = hourly /\ doc.daily = daily /\ doc.growth = growth
  BY <1>1
<1> QED BY <1>2 DEF SeriesFoldOf, hourly, daily, growth

\* Transitions between states are notifications.
LEMMA TransitionsType ==
  ASSUME NEW previous \in States, NEW states \in States, NEW at \in Times
  PROVE  Transitions(previous, states, at) \subseteq Notification
BY DEF Transitions, States, Notification

\* A contract under way is typed and valid if the one published now is.
LEMMA FoldedContract ==
  ASSUME StorageAssumption, Series, NEW doc, SeriesFoldOf(doc), FoldOf(doc),
         doc.current \in Observation, doc.plan \in 0..MaxRuns
  PROVE  /\ IsContract(doc) /\ Valid(doc)
         /\ IsFold(doc.hourly, artifact.hourly, "bucket", HourOf(doc.current), HourlyMax)
         /\ IsFold(doc.daily, artifact.daily, "date", DayOf(doc.current), DailyMax)
<1> DEFINE hour == HourOf(doc.current)
           day == DayOf(doc.current)
<1>1. hour \in HourEntry /\ day \in DayEntry
  BY EntryTypes
<1>2. hour["bucket"] \in Nat /\ day["date"] \in Nat
  BY <1>1, BucketSets DEF HourEntry, DayEntry
<1>3. /\ artifact.hourly \in Seq(HourEntry) /\ artifact.daily \in Seq(DayEntry)
      /\ Ordered(artifact.hourly, "bucket") /\ Ordered(artifact.daily, "date")
  BY SeriesOrdered DEF Series, IsContract, Valid
<1>4. HourlyMax \in Nat /\ DailyMax \in Nat
  BY DEF StorageAssumption
<1>5. IsFold(doc.hourly, artifact.hourly, "bucket", hour, HourlyMax)
  <2> HIDE DEF hour
  <2>1. IsFold(ReplaceBucket(artifact.hourly, "bucket", hour, HourlyMax),
              artifact.hourly, "bucket", hour, HourlyMax)
    BY <1>2, <1>3, <1>4, ReplaceIsFold
  <2> QED BY <2>1 DEF SeriesFoldOf, hour
<1>6. IsFold(doc.daily, artifact.daily, "date", day, DailyMax)
  <2> HIDE DEF day
  <2>1. IsFold(ReplaceBucket(artifact.daily, "date", day, DailyMax),
              artifact.daily, "date", day, DailyMax)
    BY <1>2, <1>3, <1>4, ReplaceIsFold
  <2> QED BY <2>1 DEF SeriesFoldOf, day
<1>7. doc.hourly \in Seq(HourEntry) /\ doc.daily \in Seq(DayEntry)
  <2>1. ToSet(artifact.hourly) \cup {hour} \subseteq HourEntry
    BY <1>1, <1>3 DEF ToSet
  <2>2. ToSet(artifact.daily) \cup {day} \subseteq DayEntry
    BY <1>1, <1>3 DEF ToSet
  <2>3. doc.hourly \in Seq(ToSet(artifact.hourly) \cup {hour})
    BY <1>5 DEF IsFold
  <2>4. doc.daily \in Seq(ToSet(artifact.daily) \cup {day})
    BY <1>6 DEF IsFold
  <2> HIDE DEF hour, day
  <2> QED BY <2>1, <2>2, <2>3, <2>4
<1>8. doc.growth \in Growth
  BY <1>1, <1>7, GrowthType DEF SeriesFoldOf
<1>9. doc.alertState \in States
  BY ObservationType DEF FoldOf
<1>10. doc.notifications \subseteq Notification /\ Cardinality(doc.notifications) <= NotificationMax
  <2> DEFINE told == artifact.notifications
                       \cup Transitions(artifact.alertState, doc.current.states, doc.current.at)
  <2>1. doc.notifications \in Retained(told)
    BY DEF FoldOf
  <2>2. doc.current.states \in States /\ doc.current.at \in Times
    BY ObservationType
  <2>3. artifact.notifications \subseteq Notification /\ artifact.alertState \in States
    BY DEF Series, IsContract
  <2>4. told \subseteq Notification
    BY <2>2, <2>3, TransitionsType
  <2>5. NotificationMax \in Nat
    BY DEF StorageAssumption
  <2> HIDE DEF told
  <2> QED BY <2>1, <2>4, <2>5 DEF Retained
<1>11. IsContract(doc)
  BY <1>7, <1>8, <1>9, <1>10 DEF IsContract, SeriesFoldOf
<1>12. Valid(doc)
  BY <1>5, <1>6, <1>10 DEF Valid, IsFold, Ordered
<1> QED BY <1>5, <1>6, <1>11, <1>12

\* Nothing is published, nothing kept.
LEMMA InitSInv ==
  ASSUME Init, StorageAssumption
  PROVE  SInv
<1>1. Plain /\ SeriesFolded /\ refused = FALSE
  BY DEF Init, Plain, SeriesFolded, Idle, At, StorageAssumption
<1>2. IsContract(artifact) /\ Valid(artifact)
  <2>1. artifact = EmptyContract
    BY DEF Init
  <2>2. EmptyContract.growth \in Growth
    BY DEF EmptyContract, Growth, Unavailable
  <2>3. EmptyContract.alertState \in States
    BY DEF EmptyContract, States, Statuses
  <2>4. Cardinality(EmptyContract.notifications) = 0
    BY FS_EmptySet DEF EmptyContract
  <2> QED BY <2>1, <2>2, <2>3, <2>4
          DEF EmptyContract, IsContract, Valid, StrictlyIncreasing, StorageAssumption
<1>3. ~ Published
  BY DEF Init, Published, EmptyContract
<1>4. \A width : Buckets(width) = {}
  BY DEF Init, Buckets, ToSet
<1>5. ToSet(artifact.hourly) = {} /\ ToSet(artifact.daily) = {}
  BY DEF Init, EmptyContract, ToSet
<1>6. IsHourly(artifact.hourly) /\ IsDaily(artifact.daily)
  BY <1>2, <1>4, <1>5 DEF IsHourly, IsDaily, IsWindow, NewestOf, Valid
<1> QED BY <1>1, <1>2, <1>3, <1>6 DEF SInv, Series

\* As long as nothing is published, the contract stays that of the history.
LEMMA QuietSeries ==
  ASSUME SInv, UNCHANGED <<artifact, history>>
  PROVE  Series'
<1>1. /\ \A width : Buckets(width)' = Buckets(width)
      /\ \A width, b : LastIn(width, b)' = LastIn(width, b)
  BY DEF Buckets, LastIn
<1>2. IsHourly(artifact.hourly) /\ IsDaily(artifact.daily)
  BY DEF SInv, Series
<1>3. IsHourly(artifact.hourly)'
  BY <1>1, <1>2 DEF IsHourly, IsWindow
<1>4. IsDaily(artifact.daily)'
  BY <1>1, <1>2 DEF IsDaily, IsWindow
<1> QED BY <1>3, <1>4 DEF SInv, Series, IsContract, Valid, Published

\* What is published is the contract of the history with its observation.
LEMMA PublishSeries ==
  ASSUME StorageAssumption, IInv, NInv, SInv, NEW j \in Jobs, Publish(j)
  PROVE  Series'
<1> SUFFICES ASSUME NEW doc, doc = runs[j].doc PROVE Series'
  OBVIOUS
<1> DEFINE obs == doc.current
<1>1. artifact' = doc /\ history' = Append(history, obs)
  BY DEF Publish
<1>2. At(j, "publish")
  BY DEF Publish
<1>3. SeriesFoldOf(doc) /\ FoldOf(doc) /\ obs \in Observation
  BY <1>2 DEF SInv, SeriesFolded, NInv, Folded, Typed
<1>4. doc.plan \in 0..MaxRuns
  <2>1. doc.plan = obs.run
    BY <1>2 DEF IInv, Owned
  <2>2. obs.run \in 1..MaxRuns
    BY <1>3 DEF Observation
  <2> QED BY <2>1, <2>2 DEF StorageAssumption
<1>5. /\ IsContract(doc) /\ Valid(doc)
      /\ IsFold(doc.hourly, artifact.hourly, "bucket", HourOf(obs), HourlyMax)
      /\ IsFold(doc.daily, artifact.daily, "date", DayOf(obs), DailyMax)
  BY <1>3, <1>4, FoldedContract DEF SInv
<1>6. history \in Seq(Observation)
  BY DEF NInv, Typed
<1>7. IsHourly(doc.hourly)'
  BY <1>1, <1>3, <1>5, <1>6, HourlyGrows DEF SInv, Series
<1>8. IsDaily(doc.daily)'
  BY <1>1, <1>3, <1>5, <1>6, DailyGrows DEF SInv, Series
<1>9. doc.growth = BuildGrowth(doc.hourly, HourOf(doc.current))
  BY <1>3 DEF SeriesFoldOf
<1>10. IsHourly(artifact.hourly)' /\ IsDaily(artifact.daily)'
  BY <1>1, <1>7, <1>8 DEF IsHourly, IsDaily, IsWindow, LastIn, Buckets
<1> QED BY <1>1, <1>5, <1>9, <1>10 DEF Series, IsContract, Valid

\* A run that ends leaves no contract under way.
LEMMA ExitSInv ==
  ASSUME StorageAssumption, IInv, SInv, NEW j \in Jobs, ~At(j, "idle"), Exit(j),
         UNCHANGED <<inventory, plan, refused>>, Series'
  PROVE  SInv'
<1>1. \A k \in Jobs : runs'[k] = IF k = j THEN Idle ELSE runs[k]
  BY DEF IInv, Shape, Exit
<1>2. \A k \in Jobs : runs'[k].pc = "idle"
  BY ExitKeeps DEF IInv
<1>3. Plain'
  BY <1>1 DEF SInv, Plain, Exit, Idle, StorageAssumption
<1>4. SeriesFolded'
  BY <1>2 DEF SeriesFolded, At
<1> QED BY <1>3, <1>4 DEF SInv

\* Every step keeps the published contract that of the history, and none
\* refuses it.
LEMMA StepSInv ==
  ASSUME StorageAssumption, IInv, NInv, SInv, [Next]_vars
  PROVE  SInv'
<1>1. ASSUME NEW j \in Jobs, Lock(j) PROVE SInv'
  <2>1. \A k \in Jobs : runs'[k] = IF k = j THEN [Idle EXCEPT !.pc = "inventory", !.id = started + 1]
                                   ELSE runs[k]
    BY <1>1 DEF Lock, IInv, Shape
  <2>2. \A k \in Jobs : At(k, "idle")
    BY <1>1 DEF Lock, IInv, Holds, StorageAssumption
  <2>3. Plain'
    BY <1>1, <2>1 DEF Lock, SInv, Plain, NInv, Typed, Idle, StorageAssumption
  <2>4. SeriesFolded'
    BY <2>1, <2>2 DEF SeriesFolded, Idle, At
  <2> QED BY <1>1, <2>3, <2>4, QuietSeries DEF Lock, SInv
<1>2. ASSUME NEW j \in Jobs, Inventory(j) PROVE SInv'
  <2>1. \A k \in Jobs : runs'[k] = IF k = j THEN [runs[j] EXCEPT !.pc = "plan"] ELSE runs[k]
    BY <1>2 DEF Inventory, Goto, IInv, Shape
  <2>2. \A k \in Jobs : k # j => runs'[k].pc = "idle"
    BY <1>2, <2>1, Alone DEF Inventory, At, IInv
  <2>3. runs'[j].pc = "plan" /\ runs'[j].id = runs[j].id /\ runs[j].id \in 1..MaxRuns
    BY <1>2, <2>1 DEF IInv, Shape, Inventory, At, NInv, Typed
  <2>4. inventory' \in Observation
    BY <1>2, <2>3 DEF Inventory, Observation
  <2>5. Plain'
    BY <1>2, <2>1, <2>3, <2>4 DEF Inventory, SInv, Plain
  <2>6. SeriesFolded'
    BY <2>2, <2>3 DEF SeriesFolded, At
  <2> QED BY <1>2, <2>5, <2>6, QuietSeries DEF Inventory, SInv
<1>3. ASSUME NEW j \in Jobs, Plan(j) PROVE SInv'
  <2>1. \A k \in Jobs : runs'[k] = IF k = j THEN [runs[j] EXCEPT !.pc = "read"] ELSE runs[k]
    BY <1>3 DEF Plan, Goto, IInv, Shape
  <2>2. \A k \in Jobs : k # j => runs'[k].pc = "idle"
    BY <1>3, <2>1, Alone DEF Plan, At, IInv
  <2>3. runs'[j].pc = "read" /\ runs'[j].id = runs[j].id
    BY <1>3, <2>1 DEF IInv, Shape
  <2>4. Plain'
    BY <1>3, <2>1, <2>3 DEF Plan, SInv, Plain
  <2>5. SeriesFolded'
    BY <2>2, <2>3 DEF SeriesFolded, At
  <2> QED BY <1>3, <2>4, <2>5, QuietSeries DEF Plan, SInv
<1>4. ASSUME NEW j \in Jobs, Read(j) PROVE SInv'
  <2>1. ~At(j, "idle")
    BY <1>4 DEF Read, At
  <2>2. inventory \in Observation /\ plan \in 0..MaxRuns
    BY <1>4 DEF Read, NInv, Typed, SInv, Plain
  <2>3. Valid(artifact) /\ \A doc \in Collected : Valid(doc)
    <3>1. \A doc \in Collected :
            /\ SeriesFoldOf(doc) /\ FoldOf(doc)
            /\ doc.current \in Observation /\ doc.plan \in 0..MaxRuns
      BY <2>2, CollectedSeries, FoldedInputs, CollectedInputs
    <3>2. \A doc \in Collected : Valid(doc)
      BY <3>1, FoldedContract DEF SInv
    <3> QED BY <3>2 DEF SInv, Series
  <2>4. PICK doc \in Collected : runs' = [runs EXCEPT ![j].pc = "publish", ![j].doc = doc]
    BY <1>4, <2>3 DEF Read
  <2>5. UNCHANGED <<inventory, plan, artifact, lock, started, refused, history>>
    BY <1>4, <2>3 DEF Read
  <2>6. \A k \in Jobs :
          runs'[k] = IF k = j THEN [runs[j] EXCEPT !.pc = "publish", !.doc = doc] ELSE runs[k]
    BY <2>4 DEF IInv, Shape
  <2>7. \A k \in Jobs : k # j => runs'[k].pc = "idle"
    BY <2>1, <2>6, Alone DEF At, IInv
  <2>8. runs'[j].pc = "publish" /\ runs'[j].doc = doc /\ runs'[j].id = runs[j].id
    BY <2>6 DEF IInv, Shape
  <2>9. Plain'
    BY <2>5, <2>6, <2>8 DEF SInv, Plain
  <2>10. SeriesFolded'
    <3>1. SeriesFoldOf(doc)
      BY CollectedSeries
    <3> QED BY <2>5, <2>7, <2>8, <3>1 DEF SeriesFolded, SeriesFoldOf, At
  <2> QED BY <2>5, <2>9, <2>10, QuietSeries DEF SInv
<1>5. ASSUME NEW j \in Jobs, Publish(j) PROVE SInv'
  <2>1. ~At(j, "idle")
    BY <1>5 DEF Publish, At
  <2> QED BY <1>5, <2>1, PublishSeries, ExitSInv DEF Publish
<1>6. ASSUME NEW j \in Jobs, Fail(j) PROVE SInv'
  BY <1>6, QuietSeries, ExitSInv DEF Fail
<1>7. CASE UNCHANGED vars
  <2>1. Plain' /\ SeriesFolded'
    BY <1>7 DEF vars, SInv, Plain, SeriesFolded, SeriesFoldOf, At
  <2> QED BY <1>7, <2>1, QuietSeries DEF vars, SInv
<1>8. CASE Rest
  BY <1>7, <1>8 DEF Rest
<1> QED
  BY <1>1, <1>2, <1>3, <1>4, <1>5, <1>6, <1>7, <1>8 DEF Next, Step

\* The three inductive invariants hold together.
THEOREM SeriesInvariance == Spec => [](IInv /\ NInv /\ SInv)
<1>1. Init => NInv /\ SInv
  BY InitNInv, InitSInv, StorageAssumption
<1>2. IInv /\ NInv /\ SInv /\ [Next]_vars => NInv' /\ SInv'
  BY StepNInv, StepSInv, StorageAssumption
<1> QED BY <1>1, <1>2, Invariance, PTL DEF Spec

\* For any widths and limits and any clock: the hourly and the daily window are
\* the newest buckets of everything ever published, each with its last
\* observation (replaceBucket in scripts/storage-health-snapshot.mjs).
THEOREM SeriesKept == Spec => []SeriesMatchHistory
<1>1. SInv => SeriesMatchHistory
  BY DEF SInv, Series, IsHourly, IsDaily, SeriesMatchHistory
<1> QED BY <1>1, SeriesInvariance, PTL

\* No run ever refuses the contract it finds or the one it has folded
\* (validateExistingContract).
THEOREM Accepted == Spec => []NeverRefused
<1>1. SInv => NeverRefused
  BY DEF SInv, NeverRefused
<1> QED BY <1>1, SeriesInvariance, PTL

\* The contract, and all a run reads, keep the types the code declares.
THEOREM TypeCorrect == Spec => []TypeOK
<1>1. ASSUME IInv, NInv, SInv PROVE TypeOK
  <2>1. ASSUME NEW j \in Jobs PROVE IsRun(runs[j])
    <3>1. DOMAIN runs[j] = {"pc", "id", "doc"}
      BY <1>1 DEF IInv, Shape
    <3>2. runs[j].pc \in {"idle", "inventory", "plan", "read", "publish"} /\ runs[j].id \in 0..MaxRuns
      BY <1>1 DEF SInv, Plain
    <3>3. ASSUME runs[j].pc = "publish" PROVE IsContract(runs[j].doc)
      <4> DEFINE doc == runs[j].doc
      <4>1. SeriesFoldOf(doc) /\ FoldOf(doc) /\ doc.current \in Observation
        BY <1>1, <3>3 DEF SInv, SeriesFolded, NInv, Folded, Typed, At
      <4>2. doc.plan = doc.current.run
        BY <1>1, <3>3 DEF IInv, Owned, At
      <4>3. doc.plan \in 0..MaxRuns
        BY <4>1, <4>2 DEF Observation
      <4> HIDE DEF doc
      <4>4. IsContract(doc)
        BY <1>1, <4>1, <4>3, FoldedContract, StorageAssumption DEF SInv
      <4> QED BY <4>4 DEF doc
    <3> QED BY <3>1, <3>2, <3>3 DEF IsRun
  <2>2. inventory \in Observation \cup {None} /\ plan \in 0..MaxRuns /\ lock \in Jobs \cup {None}
    BY <1>1 DEF SInv, Plain
  <2>3. started \in 0..MaxRuns /\ history \in Seq(Observation)
    BY <1>1 DEF NInv, Typed
  <2>4. IsContract(artifact) /\ refused \in BOOLEAN
    BY <1>1 DEF SInv, Series
  <2> QED BY <2>1, <2>2, <2>3, <2>4 DEF TypeOK
<1> QED BY <1>1, SeriesInvariance, PTL

\* The growth shown is the one over the hour nearest to a day ago among the
\* hours the whole history leaves (buildGrowth).
THEOREM GrowthKept == Spec => []GrowthMatchesHistory
<1>1. ASSUME SInv, Published PROVE GrowthMatchesHistory
  <2> DEFINE current == HourOf(artifact.current)
             now == artifact.current.at \div HourTicks
             kept == NewestOf(Buckets(HourTicks), HourlyMax) \ {now}
             near == {b \in kept : Distance(now - b, DayHours) <= Near}
             growth == artifact.growth
  <2>1. artifact.current \in Observation /\ artifact.hourly \in Seq(HourEntry)
    BY <1>1 DEF SInv, Series, IsContract, Published
  <2>2. current \in HourEntry /\ current.bucket = now /\ current.used = artifact.current.used
    BY <2>1, EntryTypes, StorageAssumption DEF HourOf, HourBucket
  <2>3. growth = BuildGrowth(artifact.hourly, current)
    BY <1>1 DEF SInv, Series
  <2>4. near = NearOf(artifact.hourly, now)
    BY <1>1 DEF SInv, Series, IsHourly, IsWindow, NearOf, Keys
  <2>5. CASE near = {}
    <3>1. growth = Unavailable
      BY <2>1, <2>2, <2>3, <2>4, <2>5, GrowthIsNearest, StorageAssumption
    <3> QED BY <2>5, <3>1 DEF GrowthMatchesHistory, Unavailable
  <2>6. CASE near # {}
    <3>1. PICK e \in ToSet(artifact.hourly) : IsGrowthOver(growth, e, artifact.hourly, current)
      BY <2>1, <2>2, <2>3, <2>4, <2>6, GrowthIsNearest, StorageAssumption
    <3>2. e.used = LastIn(HourTicks, e.bucket).used
      BY <1>1 DEF SInv, Series, IsHourly
    <3>3. e.used \in Nat
      <4>1. e \in HourEntry
        BY <2>1 DEF ToSet
      <4> QED BY <4>1, StorageAssumption DEF HourEntry, StorageAssumption
    <3>4. /\ e.bucket \in near
          /\ \A b \in near : Distance(now - e.bucket, DayHours) <= Distance(now - b, DayHours)
          /\ growth = [truth |-> IF e.bucket = now - DayHours THEN "observed" ELSE "estimated",
                       base |-> e.bucket, bytes |-> artifact.current.used - e.used,
                       percent |-> e.used > 0]
      BY <2>2, <2>4, <3>1 DEF IsGrowthOver
    <3>5. /\ growth.base = e.bucket
          /\ growth.truth = IF e.bucket = now - DayHours THEN "observed" ELSE "estimated"
          /\ growth.bytes = artifact.current.used - e.used
          /\ growth.percent <=> e.used # 0
      <4>1. growth.percent = (e.used > 0)
        BY <3>4
      <4>2. (e.used > 0) <=> e.used # 0
        BY <3>3
      <4>3. growth.percent <=> e.used # 0
        <5> HIDE DEF growth
        <5> QED BY <4>1, <4>2
      <4> QED BY <3>4, <4>3
    <3> QED BY <2>6, <3>2, <3>4, <3>5 DEF GrowthMatchesHistory
  <2> QED BY <2>5, <2>6
<1>2. SInv => GrowthMatchesHistory
  BY <1>1 DEF GrowthMatchesHistory
<1> QED BY <1>2, SeriesInvariance, PTL
=============================================================================
