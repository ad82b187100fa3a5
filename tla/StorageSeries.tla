---------------------------- MODULE StorageSeries ----------------------------
(***************************************************************************)
(* The bounded storage health contract, artifacts/storage-health.json.     *)
(*                                                                         *)
(* A run of scripts/collect-storage-health-runtime takes the collector's   *)
(* lock, has Heim-PC's scripts write an inventory and a maintenance plan,  *)
(* and starts scripts/storage-health-snapshot.mjs, which folds both into   *)
(* the contract already published: hour and day buckets, the growth over   *)
(* a day and the notifications of crossed thresholds.  Runs fail or are    *)
(* killed anywhere.  Nothing but the inventory's own time orders runs, and *)
(* a clock that is set back makes that time go back.                       *)
(*                                                                         *)
(* Sizes, producers and signals are abstracted to one used size and the    *)
(* status of every signal.  The history of what was published is kept on   *)
(* the side, for the properties.                                           *)
(***************************************************************************)
EXTENDS Integers, FiniteSets, SequencesExt

CONSTANTS
  Jobs,       \* whoever starts the collector: its timer, the operator
  Signals,    \* filesystem, temporary-storage and producer:<id>
  Alerts,     \* ALERT_STATUSES
  Safe,       \* SAFE_STATUS
  Unknown,    \* what a missing status, or a missing producer, counts as
  Used,       \* sizes the filesystem may have
  MaxTime,    \* bound: inventories are generated at 0..MaxTime
  HourTicks,  \* ticks of an hour
  DayHours,   \* hours of a day
  Near,       \* hours a baseline may be off
  HourlyMax, DailyMax, NotificationMax,
  MaxRuns,    \* bound: runs started
  None        \* absent

Times == 0..MaxTime
Statuses == Alerts \cup {Safe, Unknown}
States == [Signals -> Statuses]
Observation == [run : 1..MaxRuns, at : Times, used : Used, states : States]

ASSUME StorageAssumption ==
  /\ IsFiniteSet(Signals) /\ Used \subseteq Nat /\ MaxTime \in Nat
  /\ {HourTicks, DayHours, HourlyMax, DailyMax, NotificationMax} \subseteq Nat \ {0}
  /\ Near \in Nat /\ Near < DayHours
  /\ MaxRuns \in Nat
  /\ Safe # Unknown /\ {Safe, Unknown} \cap Alerts = {}
  /\ None \notin Jobs /\ None \notin Observation

VARIABLES
  inventory,  \* storage-inventory.json
  plan,       \* the run whose maintenance plan is in cache-maintenance-plan.json
  artifact,   \* storage-health.json; while there is none, what stands for it
  lock,       \* who holds collector.lock
  runs,       \* per job, the run under way
  started,    \* runs started so far
  refused,    \* a run found the published contract, or its own, invalid
  history     \* every observation published, in the order of publication

vars == <<inventory, plan, artifact, lock, runs, started, refused, history>>

\* seeded fault: minutes are not cleared
HourUnrounded(at) == at
\* hourBucket and dayBucket: the hour's and the day's beginning
HourBucket(at) == at \div HourTicks
DayBucket(at) == HourBucket(at) \div DayHours

Hours == 0..(MaxTime \div HourTicks)
Days == 0..(MaxTime \div (HourTicks * DayHours))
HourEntry == [bucket : Hours, at : Times, used : Used]
DayEntry == [date : Days, at : Times, states : States]
Notification == [signal : Signals, from : Statuses, to : Statuses, at : Times]
Growth == [truth : {"observed", "estimated", "unavailable"}, base : Hours \cup {None},
           bytes : Int \cup {None}, percent : BOOLEAN]

\* notifications are kept sorted by time and carry their time: a set
IsContract(doc) ==
  /\ DOMAIN doc = {"current", "plan", "hourly", "daily", "growth", "notifications", "alertState"}
  /\ doc.current \in Observation \cup {None} /\ doc.plan \in 0..MaxRuns
  /\ doc.alertState \in States
  /\ doc.hourly \in Seq(HourEntry) /\ doc.daily \in Seq(DayEntry)
  /\ doc.growth \in Growth
  /\ doc.notifications \subseteq Notification

IsRun(run) ==
  /\ DOMAIN run = {"pc", "id", "doc"}
  /\ run.pc \in {"idle", "inventory", "plan", "read", "publish"}
  /\ run.id \in 0..MaxRuns
  /\ run.pc = "publish" => IsContract(run.doc)

\* what readers and the next run may find, in the types the code declares
TypeOK ==
  /\ inventory \in Observation \cup {None}
  /\ plan \in 0..MaxRuns
  /\ IsContract(artifact)
  /\ lock \in Jobs \cup {None}
  /\ \A j \in Jobs : IsRun(runs[j])
  /\ started \in 0..MaxRuns
  /\ refused \in BOOLEAN
  /\ history \in Seq(Observation)

Unavailable == [truth |-> "unavailable", base |-> None, bytes |-> None, percent |-> FALSE]

\* what a run folds into while there is no file; a signal without a state
\* counts as unknown
EmptyContract ==
  [current |-> None, plan |-> 0, hourly |-> <<>>, daily |-> <<>>, growth |-> Unavailable,
   notifications |-> {}, alertState |-> [s \in Signals |-> Unknown]]

Published == artifact.current # None

Idle == [pc |-> "idle", id |-> 0, doc |-> None]

Init ==
  /\ inventory = None /\ plan = 0 /\ artifact = EmptyContract
  /\ lock = None
  /\ runs = [j \in Jobs |-> Idle]
  /\ started = 0 /\ refused = FALSE
  /\ history = <<>>
-----------------------------------------------------------------------------
(***************************************************************************)
(* The fold                                                                *)
(***************************************************************************)
\* seeded fault: slice(0, maximum)
Oldest(items, maximum) ==
  SubSeq(items, 1, IF Len(items) > maximum THEN maximum ELSE Len(items))
\* slice(-maximum)
Newest(items, maximum) ==
  SubSeq(items, 1 + (IF Len(items) > maximum THEN Len(items) - maximum ELSE 0), Len(items))

\* seeded fault: the bucket's earlier entry stays
AddBucket(items, key, entry, maximum) ==
  Newest(SortSeq(Append(items, entry), LAMBDA l, r : l[key] < r[key]), maximum)

\* sort: the entries by key; no two of them share one
InOrder(entries, key) ==
  [i \in 1..Cardinality(entries) |->
     CHOOSE e \in entries : Cardinality({d \in entries : d[key] < e[key]}) = i - 1]

\* one entry per key, sorted by key, the newest ones
ReplaceBucket(items, key, entry, maximum) ==
  LET kept == {item \in ToSet(items) : item[key] # entry[key]}
  IN Newest(InOrder(kept \cup {entry}, key), maximum)

Distance(a, b) == IF a < b THEN b - a ELSE a - b

\* seeded fault: the first candidate, not the nearest one
FirstGrowth(hourly, current) ==
  LET near == SelectSeq(hourly, LAMBDA e : /\ e.bucket # current.bucket
                                           /\ Distance(e.bucket, current.bucket - DayHours) <= Near)
  IN IF near = <<>>
     THEN Unavailable
     ELSE [truth |-> IF near[1].bucket = current.bucket - DayHours THEN "observed" ELSE "estimated",
           base |-> near[1].bucket, bytes |-> current.used - near[1].used,
           percent |-> near[1].used > 0]

\* against the other bucket nearest to a day ago, the earlier one of two as near
BuildGrowth(hourly, current) ==
  LET target == current.bucket - DayHours
      Off(i) == Distance(hourly[i].bucket, target)
      candidates == {i \in DOMAIN hourly : hourly[i].bucket # current.bucket /\ Off(i) <= Near}
      best == CHOOSE i \in candidates :
                \A k \in candidates : Off(i) < Off(k) \/ (Off(i) = Off(k) /\ i <= k)
  IN IF candidates = {}
     THEN Unavailable
     ELSE [truth |-> IF Off(best) = 0 THEN "observed" ELSE "estimated",
           base |-> hourly[best].bucket,
           bytes |-> current.used - hourly[best].used,
           percent |-> hourly[best].used > 0]

\* seeded fault: an alert is told as long as it lasts
CrossesAgain(from, to) == to \in Alerts \/ (from \in Alerts /\ to = Safe)
Crosses(from, to) == from # to /\ (to \in Alerts \/ (from \in Alerts /\ to = Safe))

\* the transitions of one run; what the previous run did not say is Unknown
Transitions(previous, states, at) ==
  {[signal |-> s, from |-> previous[s], to |-> states[s], at |-> at] :
     s \in {s \in Signals : Crosses(previous[s], states[s])}}

\* the newest ones stay; digests decide among those of one time
Retained(notifications) ==
  {kept \in SUBSET notifications :
     /\ IF Cardinality(notifications) <= NotificationMax
        THEN kept = notifications
        ELSE Cardinality(kept) = NotificationMax
     /\ \A n \in kept, m \in notifications \ kept : m.at <= n.at}

StrictlyIncreasing(items, key) ==
  \A i, k \in DOMAIN items : i < k => items[i][key] < items[k][key]

\* validateExistingContract, on a contract read and on the one to be written: what
\* it asks of the series.  That they are arrays, the contract's kind and version
\* and the limits on what one entry lists are as every earlier run wrote them.
Valid(doc) ==
  /\ Len(doc.hourly) <= HourlyMax /\ Len(doc.daily) <= DailyMax
  /\ Cardinality(doc.notifications) <= NotificationMax
  /\ StrictlyIncreasing(doc.hourly, "bucket") /\ StrictlyIncreasing(doc.daily, "date")

\* collectStorageHealth: the contracts it may return
Collected ==
  LET hour == [bucket |-> HourBucket(inventory.at), at |-> inventory.at, used |-> inventory.used]
      day == [date |-> DayBucket(inventory.at), at |-> inventory.at, states |-> inventory.states]
      hourly == ReplaceBucket(artifact.hourly, "bucket", hour, HourlyMax)
      told == artifact.notifications
                \cup Transitions(artifact.alertState, inventory.states, inventory.at)
  IN {[current |-> inventory, plan |-> plan, hourly |-> hourly,
       daily |-> ReplaceBucket(artifact.daily, "date", day, DailyMax),
       growth |-> BuildGrowth(hourly, hour),
       notifications |-> kept, alertState |-> inventory.states] : kept \in Retained(told)}
-----------------------------------------------------------------------------
(***************************************************************************)
(* A run                                                                   *)
(***************************************************************************)
At(j, step) == runs[j].pc = step
Goto(j, step) == runs' = [runs EXCEPT ![j].pc = step]

\* flock on a descriptor: the kernel drops it with the process
Exit(j) ==
  /\ runs' = [runs EXCEPT ![j] = Idle]
  /\ lock' = IF lock = j THEN None ELSE lock

\* seeded fault: nobody looks at the lock
LockIgnored(j) ==
  /\ At(j, "idle")
  /\ started < MaxRuns
  /\ lock' = j /\ started' = started + 1
  /\ runs' = [runs EXCEPT ![j] = [Idle EXCEPT !.pc = "inventory", !.id = started + 1]]
  /\ UNCHANGED <<inventory, plan, artifact, refused, history>>

\* flock -n: who finds it held exits with 75 and has changed nothing
Lock(j) ==
  /\ At(j, "idle") /\ lock = None
  /\ started < MaxRuns
  /\ lock' = j /\ started' = started + 1
  /\ runs' = [runs EXCEPT ![j] = [Idle EXCEPT !.pc = "inventory", !.id = started + 1]]
  /\ UNCHANGED <<inventory, plan, artifact, refused, history>>
\* storage_inventory.py: what the host looks like, by the host's clock
Inventory(j) ==
  /\ At(j, "inventory")
  /\ \E at \in Times, used \in Used, states \in States :
       inventory' = [run |-> runs[j].id, at |-> at, used |-> used, states |-> states]
  /\ Goto(j, "plan")
  /\ UNCHANGED <<plan, artifact, lock, started, refused, history>>

\* cache_maintenance.py into a private file, then mv
Plan(j) ==
  /\ At(j, "plan")
  /\ plan' = runs[j].id
  /\ Goto(j, "read")
  /\ UNCHANGED <<inventory, artifact, lock, started, refused, history>>

\* main reads its three files and folds them, or stops at an invalid contract
Read(j) ==
  /\ At(j, "read")
  /\ \/ /\ Valid(artifact)
        /\ \E doc \in {d \in Collected : Valid(d)} :
             runs' = [runs EXCEPT ![j].pc = "publish", ![j].doc = doc]
        /\ UNCHANGED <<lock, refused>>
     \/ /\ ~Valid(artifact) \/ \E doc \in Collected : ~Valid(doc)
        /\ refused' = TRUE
        /\ Exit(j)
  /\ UNCHANGED <<inventory, plan, artifact, started, history>>

\* atomicWriteJson: the temporary's name is the process's own, rename publishes
Publish(j) ==
  /\ At(j, "publish")
  /\ artifact' = runs[j].doc
  /\ history' = Append(history, runs[j].doc.current)
  /\ Exit(j)
  /\ UNCHANGED <<inventory, plan, started, refused>>

\* set -e, a throw, a kill: temporary files are nobody's input
Fail(j) ==
  /\ ~At(j, "idle")
  /\ Exit(j)
  /\ UNCHANGED <<inventory, plan, artifact, started, refused, history>>

\* the bound on runs is reached
Rest ==
  /\ started = MaxRuns /\ \A j \in Jobs : At(j, "idle")
  /\ UNCHANGED vars

Step(j) == Lock(j) \/ Inventory(j) \/ Plan(j) \/ Read(j) \/ Publish(j) \/ Fail(j)
Next == (\E j \in Jobs : Step(j)) \/ Rest

Spec == Init /\ [][Next]_vars
-----------------------------------------------------------------------------
(***************************************************************************)
(* Properties: the contract, whatever runs it came from, is a function of  *)
(* the whole history of published observations.                            *)
(***************************************************************************)
NewestOf(S, n) == {x \in S : Cardinality({y \in S : y > x}) < n}

\* the last observation published among those of one bucket of that width
LastIn(width, b) ==
  LET of == {i \in DOMAIN history : history[i].at \div width = b}
  IN history[CHOOSE i \in of : \A k \in of : k <= i]
Buckets(width) == {o.at \div width : o \in ToSet(history)}

IsWindow(items, key, width, maximum) ==
  /\ {e[key] : e \in ToSet(items)} = NewestOf(Buckets(width), maximum)
  /\ StrictlyIncreasing(items, key)
  /\ \A e \in ToSet(items) : e.at = LastIn(width, e[key]).at

\* The hourly and the daily window are the newest buckets of everything ever
\* published, each with its last observation, in order and without holes,
\* although every run sees only the window before it and clocks go back
\* (replaceBucket in scripts/storage-health-snapshot.mjs, and the lock that
\* keeps two runs from folding into the same contract).
SeriesMatchHistory ==
  Published =>
    /\ IsWindow(artifact.hourly, "bucket", HourTicks, HourlyMax)
    /\ IsWindow(artifact.daily, "date", HourTicks * DayHours, DailyMax)
    /\ \A e \in ToSet(artifact.hourly) : e.used = LastIn(HourTicks, e.bucket).used

\* every change into an alert, and every return from one, between two
\* observations published one after the other
AllTransitions ==
  {[signal |-> s, at |-> history[i].at, to |-> history[i].states[s],
    from |-> IF i = 1 THEN Unknown ELSE history[i - 1].states[s]] :
      i \in DOMAIN history, s \in Signals}
Told == {n \in AllTransitions :
           /\ n.from # n.to
           /\ n.to \in Alerts \/ (n.to = Safe /\ n.from \in Alerts)}

\* The notifications are the newest transitions of the whole history, none
\* twice, none invented and none lost but the oldest ones beyond the limit: a
\* run that failed after its inventory has not used a transition up
\* (buildNotifications, alertState and the rename that publishes both).
NotificationsMatchHistory ==
  Published =>
    /\ artifact.notifications \subseteq Told
    /\ \/ artifact.notifications = Told
       \/ Cardinality(artifact.notifications) = NotificationMax
    /\ \A n \in artifact.notifications, m \in Told \ artifact.notifications : m.at <= n.at

\* The growth shown is the difference to an hour the history really has among
\* the hours kept, no kept hour is nearer to a day ago, it is called observed
\* exactly if that hour is a day ago, and it is withheld only if no kept hour
\* is near enough (buildGrowth).
GrowthMatchesHistory ==
  Published =>
    LET now == artifact.current.at \div HourTicks
        kept == NewestOf(Buckets(HourTicks), HourlyMax) \ {now}
        Off(b) == Distance(now - b, DayHours)
        near == {b \in kept : Off(b) <= Near}
        growth == artifact.growth
    IN IF near = {}
       THEN growth.truth = "unavailable" /\ growth.bytes = None
       ELSE /\ growth.base \in near /\ \A b \in near : Off(growth.base) <= Off(b)
            /\ growth.truth = IF growth.base = now - DayHours THEN "observed" ELSE "estimated"
            /\ LET before == LastIn(HourTicks, growth.base).used
               IN /\ growth.bytes = artifact.current.used - before
                  /\ growth.percent <=> before # 0

\* A contract never joins the inventory of one run with the maintenance plan
\* of another, whatever runs were cut off between the two files
\* (scripts/collect-storage-health-runtime).
OneRun == Published => artifact.plan = artifact.current.run

\* The collector never locks itself out: no run refuses what an earlier one
\* published or what it is about to publish (validateExistingContract).
NeverRefused == ~refused

\* docs/operations/storage-health.md: the last state of every signal is kept,
\* and a signal that alerted before and returns to ok is told once.  So beside
\* the crossing of a signal that is ok again stands a recovery.
RecoveryTold ==
  Published =>
    \A n \in artifact.notifications :
      n.to \in Alerts /\ artifact.alertState[n.signal] = Safe =>
        \E m \in artifact.notifications : m.signal = n.signal /\ m.to = Safe
=============================================================================
