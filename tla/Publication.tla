------------------------------ MODULE Publication ------------------------------
(***************************************************************************)
(* How the five operator snapshots reach /health and the boards.           *)
(*                                                                         *)
(* A run of scripts/leitstand-export-operator-snapshots verifies Bureau's  *)
(* registry, collects, hands the raw documents to the bridge               *)
(* scripts/export-operator-snapshots.mjs, which publishes three files one  *)
(* after the other through the temporary name `<file>.tmp`, and then       *)
(* publishes two more itself.  The timer starts a run every Period ticks;  *)
(* the operator may start one by hand.  Sources fail and recover, Bureau   *)
(* is redeployed, runs are killed or fail at any point.                    *)
(*                                                                         *)
(* Time passes in ticks.  Nothing here depends on a date, only on how old  *)
(* something is, so evidence carries its age, which stops growing just     *)
(* past Limit.                                                             *)
(***************************************************************************)
EXTENDS Naturals

CONSTANTS
  Jobs,       \* whoever runs the exporter
  Timer,      \* the one systemd starts, never twice at a time
  MaxCommit,  \* bound: Bureau commits, in the order they are deployed
  None,       \* absent
  Torn,       \* the content of a file that is not a whole JSON document
  Fragile,    \* the sources that may fail
  Period,     \* OnCalendar: ticks between two firings of the timer
  Limit,      \* OPERATIONAL_SNAPSHOT_STALE_AFTER_MS in ticks
  RunBound,   \* bound: ticks a run may last (the unit sets no limit itself)
  MaxFaults   \* bound: sources that fail, runs killed or failing on their own

\* what a run reads: Bureau's registry snapshot, Grabowski's checkouts, Bureau's
\* command, Grabowski's current work, Systemkatalog's remote, RepoGround's files
Sources == {"registry", "inventory", "bureau", "convergence", "remote", "catalog"}

ASSUME PublicationAssumption ==
  /\ Timer \in Jobs /\ Fragile \subseteq Sources
  /\ Period \in Nat \ {0} /\ Limit \in Nat /\ RunBound \in Nat /\ MaxFaults \in Nat
  /\ RunBound < Period
  /\ MaxCommit \in Nat \ {0}
  /\ None \notin 1..MaxCommit /\ None # Torn

VARIABLES
  artifacts,  \* the published files
  temporary,  \* the bridge's `<file>.tmp`
  runs,       \* per job, the run under way
  bureau,     \* the Bureau commit deployed and running
  down,       \* the sources that cannot be read
  phase,      \* ticks since the timer's last mark
  due,        \* the timer has fired and its run has not started yet
  missed,     \* the last run to end did not finish
  faults

files == <<artifacts, temporary>>
sources == <<bureau, down>>
clock == <<phase, due>>
vars == <<files, runs, sources, clock, missed, faults>>

BridgeFiles == {"tasks", "checkout", "decision"}
Files == BridgeFiles \cup {"head", "repoground"}

Commits == 1..MaxCommit

Age == 0..(Limit + 1)
\* seeded fault: ages go on growing
OlderForever(age) == age + 1

Older(age) == IF age <= Limit THEN age + 1 ELSE age

\* sections of the decision axis by where they come from: now, blocked and
\* later from Bureau's status projection, focus from its live register
Sections == {"status", "focus", "convergence"}
Evidence == [age : Age, commit : Commits \cup {None}]
NoSections == [s \in Sections |-> None]
SectionSet == [Sections -> Evidence \cup {None}]

\* a published document: generatedAt, whether its source was available, the
\* Bureau commit its content was read from, its sections
Document == [stamp : Age, available : BOOLEAN, commit : Commits \cup {None},
             sections : SectionSet]
Content == Document \cup {None, Torn}

ASSUME DocumentAssumption ==
  None \notin Document /\ Torn \notin Document /\ None \notin Evidence

Steps == {"idle", "verify", "collect", "status", "focus", "convergence", "stamp",
          "open", "write", "rename", "probe", "head", "repoground"}
Handles == {"temporary", "final", "gone"}
Run == [pc : Steps, elapsed : 0..RunBound, source : Commits \cup {None},
        observed : Age, stamp : Age, sections : SectionSet,
        file : BridgeFiles, handle : Handles, remote : BOOLEAN, catalog : BOOLEAN]
Idle == [pc |-> "idle", elapsed |-> 0, source |-> None, observed |-> 0, stamp |-> 0,
         sections |-> NoSections, file |-> "tasks", handle |-> "temporary",
         remote |-> FALSE, catalog |-> FALSE]

TypeOK ==
  /\ artifacts \in [Files -> Content]
  /\ temporary \in [BridgeFiles -> Content]
  /\ runs \in [Jobs -> Run]
  /\ bureau \in Commits
  /\ down \in SUBSET Fragile
  /\ phase \in 0..(Period - 1) /\ due \in BOOLEAN
  /\ missed \in BOOLEAN
  /\ faults \in 0..MaxFaults

Init ==
  /\ artifacts = [f \in Files |-> None]
  /\ temporary = [f \in BridgeFiles |-> None]
  /\ runs = [j \in Jobs |-> Idle]
  /\ bureau = 1
  /\ down = {}
  /\ phase = 0 /\ due = TRUE
  /\ missed = FALSE
  /\ faults = 0
-----------------------------------------------------------------------------
(***************************************************************************)
(* A run                                                                   *)
(***************************************************************************)
At(j, step) == runs[j].pc = step
Running(j) == ~At(j, "idle")
Available(source) == source \notin down

Become(j, run) == runs' = [runs EXCEPT ![j] = run]
Goto(j, step) == Become(j, [runs[j] EXCEPT !.pc = step])

\* the run raises: nothing is cleaned up, least of all the bridge's temporary
Abort(j) ==
  /\ Become(j, Idle)
  /\ missed' = TRUE

\* systemd ignores a firing while the unit is still activating
Start(j) ==
  /\ At(j, "idle")
  /\ j = Timer => due
  /\ due' = (due /\ j # Timer)
  /\ Goto(j, "verify")
  /\ UNCHANGED <<files, sources, phase, missed, faults>>

\* manifest, inventory and the whole registry tree are read and compared
Verify(j) ==
  /\ At(j, "verify")
  /\ \/ /\ Available("registry")
        /\ Become(j, [runs[j] EXCEPT !.pc = "collect", !.source = bureau])
        /\ UNCHANGED missed
     \/ ~Available("registry") /\ Abort(j)
  /\ UNCHANGED <<files, sources, clock, faults>>

\* the checkout inventory, then observed_at
Collect(j) ==
  /\ At(j, "collect")
  /\ \/ /\ Available("inventory")
        /\ Become(j, [runs[j] EXCEPT !.pc = "status", !.observed = 0])
        /\ UNCHANGED missed
     \/ ~Available("inventory") /\ Abort(j)
  /\ UNCHANGED <<files, sources, clock, faults>>

\* seeded fault: any answer counts
AnyAnswer(j) == Available("bureau") /\ runs[j].source # None

\* bureau_read: an answer counts only from the commit that was verified
BureauAnswers(j) == Available("bureau") /\ bureau = runs[j].source

ReadStatus(j) ==
  /\ At(j, "status")
  /\ Become(j, [runs[j] EXCEPT !.pc = "focus", !.sections["status"] =
       IF BureauAnswers(j) THEN [age |-> 0, commit |-> bureau] ELSE None])
  /\ UNCHANGED <<files, sources, clock, missed, faults>>

ReadFocus(j) ==
  /\ At(j, "focus")
  /\ Become(j, [runs[j] EXCEPT !.pc = "convergence", !.sections["focus"] =
       IF BureauAnswers(j) THEN [age |-> runs[j].observed, commit |-> bureau] ELSE None])
  /\ UNCHANGED <<files, sources, clock, missed, faults>>

ReadConvergence(j) ==
  /\ At(j, "convergence")
  /\ Become(j, [runs[j] EXCEPT !.pc = "stamp", !.sections["convergence"] =
       IF Available("convergence") THEN [age |-> 0, commit |-> None] ELSE None])
  /\ UNCHANGED <<files, sources, clock, missed, faults>>
-----------------------------------------------------------------------------
(***************************************************************************)
(* The bridge                                                              *)
(***************************************************************************)

\* generatedAt of all three files is the moment the bridge starts
Stamp(j) ==
  /\ At(j, "stamp")
  /\ Become(j, [runs[j] EXCEPT !.pc = "open", !.stamp = 0, !.file = "tasks"])
  /\ UNCHANGED <<files, sources, clock, missed, faults>>

\* seeded fault: the bridge writes to the published name itself
OpenInPlace(j) ==
  LET f == runs[j].file IN
  /\ At(j, "open")
  /\ artifacts' = [artifacts EXCEPT ![f] = Torn]
  /\ Become(j, [runs[j] EXCEPT !.pc = "write", !.handle = "final"])
  /\ UNCHANGED <<temporary, sources, clock, missed, faults>>

\* seeded fault: the published file is removed to make room for the new one
OpenRemoving(j) ==
  LET f == runs[j].file IN
  /\ At(j, "open")
  /\ artifacts' = [artifacts EXCEPT ![f] = None]
  /\ temporary' = [temporary EXCEPT ![f] = Torn]
  /\ Become(j, [runs[j] EXCEPT !.pc = "write", !.handle = "temporary"])
  /\ UNCHANGED <<sources, clock, missed, faults>>

\* seeded fault: the temporary is created exclusively
OpenExclusive(j) ==
  LET f == runs[j].file IN
  /\ At(j, "open")
  /\ \/ /\ temporary[f] = None
        /\ temporary' = [temporary EXCEPT ![f] = Torn]
        /\ Become(j, [runs[j] EXCEPT !.pc = "write", !.handle = "temporary"])
        /\ UNCHANGED missed
     \/ temporary[f] # None /\ Abort(j) /\ UNCHANGED temporary
  /\ UNCHANGED <<artifacts, sources, clock, faults>>

\* writeFile opens the temporary with O_TRUNC, whoever else has it open
Open(j) ==
  LET f == runs[j].file IN
  /\ At(j, "open")
  /\ temporary' = [temporary EXCEPT ![f] = Torn]
  /\ Become(j, [runs[j] EXCEPT !.pc = "write", !.handle = "temporary"])
  /\ UNCHANGED <<artifacts, sources, clock, missed, faults>>

Rendered(j) ==
  [stamp |-> runs[j].stamp, available |-> TRUE,
   commit |-> IF runs[j].file = "tasks" THEN runs[j].source ELSE None,
   sections |-> IF runs[j].file = "decision" THEN runs[j].sections ELSE NoSections]

\* the document goes to the file the handle was opened on, whatever it is
\* called by now; over a longer document of another run its tail remains.  What
\* was written stays written: without fsync that holds of a killed process, not
\* of a host that loses its power.
Write(j) ==
  LET f == runs[j].file
      Results(old) == {Rendered(j)} \cup (IF old = Torn THEN {} ELSE {Torn})
  IN
  /\ At(j, "write")
  /\ CASE runs[j].handle = "temporary" ->
            /\ \E c \in Results(temporary[f]) : temporary' = [temporary EXCEPT ![f] = c]
            /\ UNCHANGED artifacts
       [] runs[j].handle = "final" ->
            /\ \E c \in Results(artifacts[f]) : artifacts' = [artifacts EXCEPT ![f] = c]
            /\ UNCHANGED temporary
       [] runs[j].handle = "gone" -> UNCHANGED files
  /\ Goto(j, "rename")
  /\ UNCHANGED <<sources, clock, missed, faults>>

\* tasks, checkout, decision; then the bridge is done
Following(run) ==
  CASE run.file = "tasks" -> [run EXCEPT !.pc = "open", !.file = "checkout"]
    [] run.file = "checkout" -> [run EXCEPT !.pc = "open", !.file = "decision"]
    [] run.file = "decision" -> [run EXCEPT !.pc = "probe"]

\* an open handle follows its file through a rename
Renamed(run, f) ==
  IF run.pc = "write" /\ run.file = f
  THEN [run EXCEPT !.handle = IF @ = "temporary" THEN "final" ELSE "gone"]
  ELSE run

Rename(j) ==
  LET f == runs[j].file IN
  /\ At(j, "rename")
  /\ \/ /\ temporary[f] # None
        /\ artifacts' = [artifacts EXCEPT ![f] = temporary[f]]
        /\ temporary' = [temporary EXCEPT ![f] = None]
        /\ runs' = [r \in Jobs |-> IF r = j THEN Following(runs[j]) ELSE Renamed(runs[r], f)]
        /\ UNCHANGED missed
     \/ /\ temporary[f] = None
        /\ Abort(j)
        /\ UNCHANGED files
  /\ UNCHANGED <<sources, clock, faults>>
-----------------------------------------------------------------------------
(***************************************************************************)
(* The two files the run publishes itself                                  *)
(***************************************************************************)

\* git ls-remote, then the index of RepoGround's publications; a source that
\* cannot be read is published as unavailable
Probe(j) ==
  /\ At(j, "probe")
  /\ Become(j, [runs[j] EXCEPT !.pc = "head", !.remote = Available("remote"),
                               !.catalog = Available("catalog")])
  /\ UNCHANGED <<files, sources, clock, missed, faults>>

\* atomic_json_write goes through a temporary of its own
Direct(j, available) ==
  [stamp |-> runs[j].observed, available |-> available, commit |-> None,
   sections |-> NoSections]

WriteHead(j) ==
  /\ At(j, "head")
  /\ artifacts' = [artifacts EXCEPT !["head"] = Direct(j, runs[j].remote)]
  /\ Goto(j, "repoground")
  /\ UNCHANGED <<temporary, sources, clock, missed, faults>>

WriteRepoground(j) ==
  /\ At(j, "repoground")
  /\ artifacts' = [artifacts EXCEPT !["repoground"] = Direct(j, runs[j].catalog)]
  /\ Become(j, Idle)
  /\ missed' = FALSE
  /\ UNCHANGED <<temporary, sources, clock, faults>>

\* a kill, a full disk, a document that cannot be read back
Interrupt(j) ==
  /\ Running(j)
  /\ faults < MaxFaults
  /\ faults' = faults + 1
  /\ Abort(j)
  /\ UNCHANGED <<files, sources, clock>>

Step(j) ==
  \/ Start(j) \/ Verify(j) \/ Collect(j)
  \/ ReadStatus(j) \/ ReadFocus(j) \/ ReadConvergence(j)
  \/ Stamp(j) \/ Open(j) \/ Write(j) \/ Rename(j)
  \/ Probe(j) \/ WriteHead(j) \/ WriteRepoground(j)
-----------------------------------------------------------------------------
(***************************************************************************)
(* Around the runs                                                         *)
(***************************************************************************)
DeployBureau ==
  /\ bureau < MaxCommit
  /\ bureau' = bureau + 1
  /\ UNCHANGED <<files, runs, down, clock, missed, faults>>

Break(s) ==
  /\ s \notin down
  /\ faults < MaxFaults
  /\ faults' = faults + 1
  /\ down' = down \cup {s}
  /\ UNCHANGED <<files, runs, bureau, clock, missed>>

Repair(s) ==
  /\ s \in down
  /\ down' = down \ {s}
  /\ UNCHANGED <<files, runs, bureau, clock, missed, faults>>

AgedSections(sections) ==
  [s \in Sections |-> IF sections[s] = None THEN None
                      ELSE [sections[s] EXCEPT !.age = Older(@)]]
AgedContent(c) ==
  IF c \in {None, Torn} THEN c
  ELSE [c EXCEPT !.stamp = Older(@), !.sections = AgedSections(@)]
AgedRun(run) ==
  IF run.pc = "idle" THEN run
  ELSE [run EXCEPT !.elapsed = @ + 1, !.observed = Older(@), !.stamp = Older(@),
                   !.sections = AgedSections(@)]

\* AccuracySec is below a tick: a run that is due starts before time passes
Tick ==
  /\ ~due
  /\ \A j \in Jobs : Running(j) => runs[j].elapsed < RunBound
  /\ phase' = (phase + 1) % Period
  /\ due' = (phase' = 0 /\ ~Running(Timer))
  /\ artifacts' = [f \in Files |-> AgedContent(artifacts[f])]
  /\ temporary' = [f \in BridgeFiles |-> AgedContent(temporary[f])]
  /\ runs' = [j \in Jobs |-> AgedRun(runs[j])]
  /\ UNCHANGED <<sources, missed, faults>>

Next ==
  \/ \E j \in Jobs : Step(j) \/ Interrupt(j)
  \/ DeployBureau
  \/ \E s \in Fragile : Break(s) \/ Repair(s)
  \/ Tick

Spec == Init /\ [][Next]_vars

\* systemd starts the timer's run, a run that is not killed goes on, and time
\* passes; the operator owes nothing
Fairness == WF_vars(Step(Timer)) /\ WF_vars(Tick)
FairSpec == Spec /\ Fairness
-----------------------------------------------------------------------------
(***************************************************************************)
(* Readers                                                                 *)
(***************************************************************************)
Whole(f) == artifacts[f] \notin {None, Torn}

\* seeded fault: stale after one missed cadence instead of two
VerdictImpatient(f) ==
  IF ~Whole(f) \/ ~artifacts[f].available THEN "fail"
  ELSE IF artifacts[f].stamp <= Period THEN "ok" ELSE "warn"

\* readSnapshotHealth
Verdict(f) ==
  CASE ~Whole(f) -> "fail"
    [] Whole(f) /\ ~artifacts[f].available -> "fail"
    [] Whole(f) /\ artifacts[f].available ->
         IF artifacts[f].stamp <= Limit THEN "ok" ELSE "warn"
-----------------------------------------------------------------------------
(***************************************************************************)
(* Properties                                                              *)
(***************************************************************************)

\* Whatever was interrupted and whatever temporaries it left, a published name
\* never shows a torn document (writeJsonAtomic, atomic_json_write).
NoTornSnapshot == \A f \in Files : artifacts[f] # Torn

\* While systemd alone starts runs, one at a time: a published snapshot is never
\* lost, and never replaced by one that was generated before it (writeJsonAtomic,
\* atomic_json_write).  Of two overlapping runs the slower replaces the newer
\* snapshot of the other.
Replaced(f) == Whole(f) /\ artifacts'[f] \notin {artifacts[f], AgedContent(artifacts[f])}
Newer(f) ==
  /\ artifacts'[f] \notin {None, Torn}
  /\ artifacts'[f].stamp <= artifacts[f].stamp
NeverOlder == [][\A f \in Files : Replaced(f) => Newer(f)]_vars

\* When the decision axis is published, everything in it that Bureau said was
\* said by the commit whose tasks are on the task board, however often Bureau
\* was redeployed during the run (source verification and bureau_read).
Published(f) ==
  artifacts'[f] \notin {None, Torn, artifacts[f], AgedContent(artifacts[f])}
FromSource(s) ==
  artifacts'["decision"].sections[s] # None =>
    artifacts'["decision"].sections[s].commit = artifacts'["tasks"].commit
OneSource ==
  [][Published("decision") => \A s \in {"status", "focus"} : FromSource(s)]_vars

\* /health calls a snapshot stale only when a run has been missed: cadence, run
\* time and limit fit together (the timer, freshnessPolicy.ts, which counts on
\* two missed runs; that one was missed is all that is claimed).
StaleMeansMissed == \A f \in Files : Verdict(f) = "warn" => missed

\* Once the sources stay readable and runs are left alone, every snapshot is
\* and stays fresh in /health: nothing an interrupted run left behind stands in
\* the way (the launcher, the bridge, readSnapshotHealth).
Recovers == <>[](down = {}) => <>[](\A f \in Files : Verdict(f) = "ok")
=============================================================================
