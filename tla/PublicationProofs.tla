-------------------------- MODULE PublicationProofs --------------------------
(***************************************************************************)
(* What holds of the published snapshots for any cadence, limit, number of *)
(* Bureau commits and faults: type correctness for any runs, and, while    *)
(* only the timer runs the exporter, that no reader meets a torn document, *)
(* that snapshots only get newer, that the decision axis and the task      *)
(* board come from one Bureau commit, and that staleness means a missed    *)
(* run.                                                                    *)
(***************************************************************************)
EXTENDS Publication, TLAPS

USE DEF At, Running, Available, Become, Goto, clock, files, sources

(***************************************************************************)
(* Ages                                                                    *)
(***************************************************************************)
LEMMA OlderType ==
  ASSUME NEW a \in Age
  PROVE  Older(a) \in Age
  BY PublicationAssumption DEF Age, Older

\* Passing time does not change which of two things is the older one.
LEMMA OlderMonotone ==
  ASSUME NEW a \in Age, NEW b \in Age, a <= b
  PROVE  Older(a) <= Older(b)
  BY PublicationAssumption DEF Age, Older

LEMMA ZeroAge == 0 \in Age /\ \A a \in Age : 0 <= a
  BY PublicationAssumption DEF Age

LEMMA AgedSectionsType ==
  ASSUME NEW sections \in SectionSet
  PROVE  AgedSections(sections) \in SectionSet
<1>1. ASSUME NEW s \in Sections, sections[s] # None
      PROVE  [sections[s] EXCEPT !.age = Older(@)] \in Evidence
  <2>1. sections[s] \in Evidence
    BY <1>1 DEF SectionSet
  <2>2. Older(sections[s].age) \in Age
    BY <2>1, OlderType DEF Evidence
  <2>3. QED
    BY <2>1, <2>2 DEF Evidence
<1>2. QED
  BY <1>1 DEF AgedSections, SectionSet

LEMMA AgedContentType ==
  ASSUME NEW c \in Content
  PROVE  /\ AgedContent(c) \in Content
         /\ c \in Document => AgedContent(c) \in Document
<1>1. CASE c \in {None, Torn}
  BY <1>1, DocumentAssumption DEF AgedContent, Content
<1>2. CASE c \in Document
  <2>1. Older(c.stamp) \in Age
    BY <1>2, OlderType DEF Document
  <2>2. AgedSections(c.sections) \in SectionSet
    BY <1>2, AgedSectionsType DEF Document
  <2>3. AgedContent(c) = [c EXCEPT !.stamp = Older(@), !.sections = AgedSections(@)]
    BY <1>2, DocumentAssumption DEF AgedContent
  <2>4. AgedContent(c) \in Document
    BY <1>2, <2>1, <2>2, <2>3 DEF Document
  <2>5. QED
    BY <2>4 DEF Content
<1>3. QED
  BY <1>1, <1>2 DEF Content

LEMMA AgedRunType ==
  ASSUME NEW run \in Run, run.pc # "idle" => run.elapsed < RunBound
  PROVE  AgedRun(run) \in Run
<1>1. CASE run.pc = "idle"
  BY <1>1 DEF AgedRun
<1>2. CASE run.pc # "idle"
  <2>1. Older(run.observed) \in Age /\ Older(run.stamp) \in Age
    BY OlderType DEF Run
  <2>2. AgedSections(run.sections) \in SectionSet
    BY AgedSectionsType DEF Run
  <2>3. run.elapsed + 1 \in 0..RunBound
    BY <1>2, PublicationAssumption DEF Run
  <2>4. AgedRun(run) = [run EXCEPT !.elapsed = @ + 1, !.observed = Older(@),
                          !.stamp = Older(@), !.sections = AgedSections(@)]
    BY <1>2 DEF AgedRun
  <2>5. QED
    BY <2>1, <2>2, <2>3, <2>4 DEF Run
<1>3. QED
  BY <1>1, <1>2

(***************************************************************************)
(* Type correctness                                                        *)
(***************************************************************************)
LEMMA IdleType == Idle \in Run
  BY PublicationAssumption, ZeroAge
  DEF Idle, Run, Steps, SectionSet, NoSections, BridgeFiles, Handles

LEMMA RenderedType ==
  ASSUME TypeOK, NEW j \in Jobs
  PROVE  Rendered(j) \in Document
<1>1. runs[j] \in Run
  BY DEF TypeOK
<1>2. NoSections \in SectionSet
  BY DEF NoSections, SectionSet
<1>3. QED
  BY <1>1, <1>2 DEF Rendered, Document, Run

LEMMA DirectType ==
  ASSUME TypeOK, NEW j \in Jobs, NEW b \in BOOLEAN
  PROVE  Direct(j, b) \in Document
<1>1. runs[j] \in Run
  BY DEF TypeOK
<1>2. NoSections \in SectionSet
  BY DEF NoSections, SectionSet
<1>3. QED
  BY <1>1, <1>2 DEF Direct, Document, Run

LEMMA AnswerType ==
  ASSUME TypeOK, NEW j \in Jobs, NEW s \in Sections,
         NEW e \in Evidence \cup {None}
  PROVE  [runs[j].sections EXCEPT ![s] = e] \in SectionSet
<1>1. runs[j].sections \in SectionSet
  BY DEF TypeOK, Run
<1>2. QED
  BY <1>1 DEF SectionSet

LEMMA TypeInit == Init => TypeOK
<1> SUFFICES ASSUME Init
             PROVE  TypeOK
  OBVIOUS
<1>1. artifacts \in [Files -> Content] /\ temporary \in [BridgeFiles -> Content]
  BY DEF Init, Content
<1>2. runs \in [Jobs -> Run]
  BY IdleType DEF Init
<1>3. bureau \in Commits /\ phase \in 0..(Period - 1) /\ faults \in 0..MaxFaults
  BY PublicationAssumption DEF Init, Commits
<1>4. QED
  BY <1>1, <1>2, <1>3 DEF Init, TypeOK

LEMMA TypeStep == TypeOK /\ [Next]_vars => TypeOK'
<1> SUFFICES ASSUME TypeOK, [Next]_vars
             PROVE  TypeOK'
  OBVIOUS
<1> USE DEF TypeOK
<1>1. ASSUME NEW j \in Jobs, Step(j)
      PROVE  TypeOK'
  <2>0. runs[j] \in Run /\ Idle \in Run
    BY IdleType
  <2>1. CASE Start(j)
    BY <2>0, <2>1 DEF Start, Run, Steps
  <2>2. CASE Verify(j)
    <3>1. [runs[j] EXCEPT !.pc = "collect", !.source = bureau] \in Run
      BY <2>0 DEF Run, Steps
    <3>2. QED
      BY <2>0, <2>2, <3>1 DEF Verify, Abort
  <2>3. CASE Collect(j)
    <3>1. [runs[j] EXCEPT !.pc = "status", !.observed = 0] \in Run
      BY <2>0, ZeroAge DEF Run, Steps
    <3>2. QED
      BY <2>0, <2>3, <3>1 DEF Collect, Abort
  <2>4. CASE ReadStatus(j)
    <3> DEFINE e == IF BureauAnswers(j) THEN [age |-> 0, commit |-> bureau] ELSE None
    <3>1. e \in Evidence \cup {None}
      BY ZeroAge DEF Evidence
    <3>2. [runs[j].sections EXCEPT !["status"] = e] \in SectionSet
      BY <3>1, AnswerType DEF Sections
    <3>3. [runs[j] EXCEPT !.pc = "focus", !.sections["status"] = e] \in Run
      BY <2>0, <3>2 DEF Run, Steps
    <3>4. QED
      BY <2>4, <3>3 DEF ReadStatus
  <2>5. CASE ReadFocus(j)
    <3> DEFINE e == IF BureauAnswers(j)
                    THEN [age |-> runs[j].observed, commit |-> bureau] ELSE None
    <3>1. e \in Evidence \cup {None}
      BY <2>0 DEF Evidence, Run
    <3>2. [runs[j].sections EXCEPT !["focus"] = e] \in SectionSet
      BY <3>1, AnswerType DEF Sections
    <3>3. [runs[j] EXCEPT !.pc = "convergence", !.sections["focus"] = e] \in Run
      BY <2>0, <3>2 DEF Run, Steps
    <3>4. QED
      BY <2>5, <3>3 DEF ReadFocus
  <2>6. CASE ReadConvergence(j)
    <3> DEFINE e == IF Available("convergence") THEN [age |-> 0, commit |-> None] ELSE None
    <3>1. e \in Evidence \cup {None}
      BY ZeroAge DEF Evidence
    <3>2. [runs[j].sections EXCEPT !["convergence"] = e] \in SectionSet
      BY <3>1, AnswerType DEF Sections
    <3>3. [runs[j] EXCEPT !.pc = "stamp", !.sections["convergence"] = e] \in Run
      BY <2>0, <3>2 DEF Run, Steps
    <3>4. QED
      BY <2>6, <3>3 DEF ReadConvergence
  <2>7. CASE Stamp(j)
    <3>1. [runs[j] EXCEPT !.pc = "open", !.stamp = 0, !.file = "tasks"] \in Run
      BY <2>0, ZeroAge DEF Run, Steps, BridgeFiles
    <3>2. QED
      BY <2>7, <3>1 DEF Stamp
  <2>8. CASE Open(j)
    <3>1. [runs[j] EXCEPT !.pc = "write", !.handle = "temporary"] \in Run
      BY <2>0 DEF Run, Steps, Handles
    <3>2. QED
      BY <2>8, <3>1 DEF Open, Content
  <2>9. CASE Write(j)
    <3>1. Rendered(j) \in Content /\ Torn \in Content /\ runs[j].file \in BridgeFiles
      BY <2>0, RenderedType DEF Content, Run
    <3>2. temporary' \in [BridgeFiles -> Content] /\ artifacts' \in [Files -> Content]
      <4>1. CASE runs[j].handle = "temporary"
        BY <2>9, <3>1, <4>1 DEF Write
      <4>2. CASE runs[j].handle = "final"
        BY <2>9, <3>1, <4>2 DEF Write, Files
      <4>3. CASE runs[j].handle = "gone"
        BY <2>9, <4>3 DEF Write
      <4>4. QED
        BY <2>0, <4>1, <4>2, <4>3 DEF Run, Handles
    <3>3. [runs[j] EXCEPT !.pc = "rename"] \in Run
      BY <2>0 DEF Run, Steps
    <3>4. QED
      BY <2>9, <3>2, <3>3 DEF Write
  <2>10. CASE Rename(j)
    <3>1. runs[j].file \in BridgeFiles /\ BridgeFiles \subseteq Files
      BY <2>0 DEF Run, Files
    <3>2. temporary' \in [BridgeFiles -> Content] /\ artifacts' \in [Files -> Content]
      BY <2>10, <3>1 DEF Rename, Content
    <3>3. Following(runs[j]) \in Run
      BY <2>0 DEF Following, Run, Steps, BridgeFiles
    <3>4. \A r \in Jobs : Renamed(runs[r], runs[j].file) \in Run
      BY DEF Renamed, Run, Handles
    <3>5. runs' \in [Jobs -> Run] /\ missed' \in BOOLEAN
      <4>1. CASE temporary[runs[j].file] # None
        <5>1. runs' = [r \in Jobs |-> IF r = j THEN Following(runs[j])
                                      ELSE Renamed(runs[r], runs[j].file)]
          BY <2>10, <4>1 DEF Rename
        <5>2. missed' = missed
          BY <2>10, <4>1 DEF Rename
        <5>3. QED
          BY <3>3, <3>4, <5>1, <5>2
      <4>2. CASE temporary[runs[j].file] = None
        BY <2>0, <2>10, <4>2 DEF Rename, Abort
      <4>3. QED
        BY <4>1, <4>2
    <3>6. QED
      BY <2>10, <3>2, <3>5 DEF Rename
  <2>11. CASE Probe(j)
    <3>1. [runs[j] EXCEPT !.pc = "head", !.remote = Available("remote"),
                          !.catalog = Available("catalog")] \in Run
      BY <2>0 DEF Run, Steps
    <3>2. QED
      BY <2>11, <3>1 DEF Probe
  <2>12. CASE WriteHead(j)
    <3>1. Direct(j, runs[j].remote) \in Content
      BY <2>0, DirectType DEF Content, Run
    <3>2. [runs[j] EXCEPT !.pc = "repoground"] \in Run
      BY <2>0 DEF Run, Steps
    <3>3. QED
      BY <2>12, <3>1, <3>2 DEF WriteHead
  <2>13. CASE WriteRepoground(j)
    <3>1. Direct(j, runs[j].catalog) \in Content
      BY <2>0, DirectType DEF Content, Run
    <3>2. QED
      BY <2>0, <2>13, <3>1 DEF WriteRepoground
  <2>14. QED
    BY <1>1, <2>1, <2>2, <2>3, <2>4, <2>5, <2>6, <2>7, <2>8, <2>9, <2>10, <2>11,
       <2>12, <2>13 DEF Step
<1>2. ASSUME NEW j \in Jobs, Interrupt(j)
      PROVE  TypeOK'
  BY <1>2, IdleType, PublicationAssumption DEF Interrupt, Abort
<1>3. CASE DeployBureau
  BY <1>3, PublicationAssumption DEF DeployBureau, Commits
<1>4. ASSUME NEW s \in Fragile, Break(s)
      PROVE  TypeOK'
  BY <1>4, PublicationAssumption DEF Break
<1>5. ASSUME NEW s \in Fragile, Repair(s)
      PROVE  TypeOK'
  BY <1>5 DEF Repair
<1>6. CASE Tick
  <2>1. phase' \in 0..(Period - 1) /\ due' \in BOOLEAN
    BY <1>6, PublicationAssumption DEF Tick
  <2>2. artifacts' \in [Files -> Content] /\ temporary' \in [BridgeFiles -> Content]
    BY <1>6, AgedContentType DEF Tick
  <2>3. runs' \in [Jobs -> Run]
    BY <1>6, AgedRunType DEF Tick
  <2>4. QED
    BY <1>6, <2>1, <2>2, <2>3 DEF Tick
<1>7. CASE UNCHANGED vars
  BY <1>7 DEF vars
<1>8. QED
  BY <1>1, <1>2, <1>3, <1>4, <1>5, <1>6, <1>7, PublicationAssumption DEF Next

\* Every state is well typed (the whole of the exporter and its readers).
THEOREM TypeCorrect == Spec => []TypeOK
  BY TypeInit, TypeStep, PTL DEF Spec

(***************************************************************************)
(* One run at a time                                                       *)
(*                                                                         *)
(* None of the three properties is inductive.  What a rename publishes is  *)
(* what the same run put into the temporary: since no other run opens it,  *)
(* it is torn while it is being written and whole afterwards (Handling).   *)
(* It carries the run's stamp, which is younger than everything published  *)
(* because that was stamped by earlier runs (Younger), and the run's       *)
(* sections, which Bureau answered from the commit the run verified and    *)
(* whose tasks it has published by then (Answers).                         *)
(***************************************************************************)
Alone == Jobs = {Timer}

export == runs[Timer]
Bureau == {"status", "focus"}

Handling ==
  /\ export.pc = "write" => export.handle = "temporary" /\ temporary[export.file] = Torn
  /\ export.pc = "rename" =>
       /\ temporary[export.file] \in Document
       /\ temporary[export.file].stamp = export.stamp
       /\ export.file = "tasks" => temporary["tasks"].commit = export.source
       /\ export.file = "decision" =>
            \A s \in Bureau : temporary["decision"].sections[s] # None =>
              temporary["decision"].sections[s].commit = export.source

Younger ==
  /\ \A f \in BridgeFiles : Whole(f) => export.stamp <= artifacts[f].stamp
  /\ \A f \in {"head", "repoground"} : Whole(f) => export.observed <= artifacts[f].stamp

Answers ==
  /\ \A s \in Bureau : export.sections[s] # None => export.sections[s].commit = export.source
  /\ export.pc \in {"idle", "verify"} => export.sections = NoSections
  /\ export.pc \in {"open", "write", "rename"} /\ export.file # "tasks" =>
       Whole("tasks") /\ artifacts["tasks"].commit = export.source

PubInv == TypeOK /\ NoTornSnapshot /\ Handling /\ Younger /\ Answers

LEMMA AgedStamp ==
  ASSUME NEW c \in Document
  PROVE  /\ AgedContent(c).stamp = Older(c.stamp)
         /\ AgedContent(c).commit = c.commit
         /\ AgedContent(c).sections = AgedSections(c.sections)
<1>1. AgedContent(c) = [c EXCEPT !.stamp = Older(@), !.sections = AgedSections(@)]
  BY DocumentAssumption DEF AgedContent
<1>2. QED
  BY <1>1 DEF Document

\* Time changes neither which sections there are nor whose word they are.
LEMMA AgedAnswers ==
  ASSUME NEW sections \in SectionSet, NEW s \in Sections
  PROVE  /\ AgedSections(sections)[s] # None => sections[s] # None
         /\ AgedSections(sections)[s] # None =>
              AgedSections(sections)[s].commit = sections[s].commit
<1>1. AgedSections(sections)[s] = IF sections[s] = None THEN None
                                  ELSE [sections[s] EXCEPT !.age = Older(@)]
  BY DEF AgedSections
<1>2. CASE sections[s] # None
  <2>1. sections[s] \in Evidence
    BY <1>2 DEF SectionSet
  <2>2. QED
    BY <1>1, <1>2, <2>1 DEF Evidence
<1>3. QED
  BY <1>1, <1>2

\* The steps of the run that neither publish nor end it.
LEMMA QuietStep ==
  ASSUME PubInv, TypeOK', UNCHANGED artifacts,
         export'.stamp \in {export.stamp, 0},
         export'.observed \in {export.observed, 0}
  PROVE  NoTornSnapshot' /\ Younger'
<1> USE DEF PubInv
<1>1. NoTornSnapshot'
  BY DEF NoTornSnapshot
<1>2. Younger'
  <2>1. \A f \in Files : Whole(f) => artifacts[f] \in Document
    BY DEF TypeOK, Whole, Content
  <2>2. \A f \in Files : Whole(f) => 0 <= artifacts[f].stamp
    BY <2>1, ZeroAge DEF Document
  <2>3. QED
    BY <2>2 DEF Younger, Whole, Files, BridgeFiles
<1>3. QED
  BY <1>1, <1>2

LEMMA AbortStep ==
  ASSUME Alone, PubInv, TypeOK', Abort(Timer), UNCHANGED artifacts
  PROVE  PubInv'
<1> USE DEF PubInv
<1>1. export' = Idle
  BY DEF export, Abort, TypeOK, Alone
<1>2. NoTornSnapshot' /\ Younger'
  BY <1>1, QuietStep DEF Idle
<1>3. Handling' /\ Answers'
  BY <1>1 DEF Idle, Handling, Answers, NoSections, Sections, Bureau
<1>4. QED
  BY <1>2, <1>3

\* A step of the run that only reads.
LEMMA ReadingStep ==
  ASSUME Alone, PubInv, TypeOK', UNCHANGED files,
         export'.pc \in {"verify", "collect", "status", "focus", "convergence",
                         "stamp", "probe", "head"},
         export'.stamp = export.stamp,
         export'.observed \in {export.observed, 0},
         \A s \in Bureau : export'.sections[s] # None =>
           export'.sections[s].commit = export'.source,
         export'.pc = "verify" => export'.sections = NoSections
  PROVE  PubInv'
<1>1. NoTornSnapshot' /\ Younger'
  BY QuietStep
<1>2. Handling' /\ Answers'
  BY DEF Handling, Answers
<1>3. QED
  BY <1>1, <1>2 DEF PubInv

LEMMA CollectingSteps ==
  ASSUME Alone, PubInv, TypeOK',
         \/ Start(Timer) \/ Verify(Timer) \/ Collect(Timer) \/ ReadStatus(Timer)
         \/ ReadFocus(Timer) \/ ReadConvergence(Timer) \/ Probe(Timer)
  PROVE  PubInv'
<1> USE DEF PubInv
<1>0. export \in Run /\ runs \in [Jobs -> Run] /\ Timer \in Jobs
  BY PublicationAssumption DEF TypeOK, export
<1>1. \A s \in Bureau : NoSections[s] = None
  BY DEF NoSections, Bureau, Sections
<1>2. CASE Start(Timer)
  <2>1. export' = [export EXCEPT !.pc = "verify"]
    BY <1>0, <1>2 DEF Start, export
  <2>2. export'.sections = NoSections
    BY <1>0, <1>2, <2>1 DEF Start, Answers, export, Run
  <2>3. QED
    BY <1>0, <1>1, <1>2, <2>1, <2>2, ReadingStep DEF Start, Run
<1>3. CASE Verify(Timer)
  <2>1. CASE Abort(Timer)
    BY <1>3, <2>1, AbortStep DEF Verify
  <2>2. CASE export' = [export EXCEPT !.pc = "collect", !.source = bureau]
    <3>1. export'.sections = NoSections
      BY <1>0, <1>3, <2>2 DEF Verify, Answers, export, Run
    <3>2. QED
      BY <1>0, <1>1, <1>3, <2>2, <3>1, ReadingStep DEF Verify, Run
  <2>3. QED
    BY <1>0, <1>3, <2>1, <2>2 DEF Verify, export
<1>4. CASE Collect(Timer)
  <2>1. CASE Abort(Timer)
    BY <1>4, <2>1, AbortStep DEF Collect
  <2>2. CASE export' = [export EXCEPT !.pc = "status", !.observed = 0]
    BY <1>0, <1>4, <2>2, ReadingStep DEF Collect, Answers, Run
  <2>3. QED
    BY <1>0, <1>4, <2>1, <2>2 DEF Collect, export
<1>5. CASE ReadStatus(Timer)
  <2> DEFINE e == IF BureauAnswers(Timer) THEN [age |-> 0, commit |-> bureau] ELSE None
  <2>1. export' = [export EXCEPT !.pc = "focus", !.sections["status"] = e]
    BY <1>0, <1>5 DEF ReadStatus, export
  <2>2. e # None => e.commit = export.source
    BY DEF BureauAnswers, export
  <2>3. QED
    BY <1>0, <1>5, <2>1, <2>2, ReadingStep
    DEF ReadStatus, Answers, Run, SectionSet, Bureau, Sections
<1>6. CASE ReadFocus(Timer)
  <2> DEFINE e == IF BureauAnswers(Timer)
                  THEN [age |-> export.observed, commit |-> bureau] ELSE None
  <2>1. export' = [export EXCEPT !.pc = "convergence", !.sections["focus"] = e]
    BY <1>0, <1>6 DEF ReadFocus, export
  <2>2. e # None => e.commit = export.source
    BY DEF BureauAnswers, export
  <2>3. QED
    BY <1>0, <1>6, <2>1, <2>2, ReadingStep
    DEF ReadFocus, Answers, Run, SectionSet, Bureau, Sections
<1>7. CASE ReadConvergence(Timer)
  <2> DEFINE e == IF Available("convergence") THEN [age |-> 0, commit |-> None] ELSE None
  <2>1. export' = [export EXCEPT !.pc = "stamp", !.sections["convergence"] = e]
    BY <1>0, <1>7 DEF ReadConvergence, export
  <2>2. QED
    BY <1>0, <1>7, <2>1, ReadingStep
    DEF ReadConvergence, Answers, Run, SectionSet, Bureau, Sections
<1>8. CASE Probe(Timer)
  <2>1. export' = [export EXCEPT !.pc = "head", !.remote = Available("remote"),
                                 !.catalog = Available("catalog")]
    BY <1>0, <1>8 DEF Probe, export
  <2>2. QED
    BY <1>0, <1>8, <2>1, ReadingStep DEF Probe, Answers, Run
<1>9. QED
  BY <1>2, <1>3, <1>4, <1>5, <1>6, <1>7, <1>8

\* The bridge: what the temporary holds follows the run's own steps.
LEMMA BridgeSteps ==
  ASSUME Alone, PubInv, TypeOK',
         Stamp(Timer) \/ Open(Timer) \/ Write(Timer)
  PROVE  PubInv' /\ UNCHANGED artifacts
<1> USE DEF PubInv
<1>0. export \in Run /\ runs \in [Jobs -> Run] /\ Timer \in Jobs
  BY PublicationAssumption DEF TypeOK, export
<1>1. CASE Stamp(Timer)
  <2>1. export' = [export EXCEPT !.pc = "open", !.stamp = 0, !.file = "tasks"]
    BY <1>0, <1>1 DEF Stamp, export
  <2>2. NoTornSnapshot' /\ Younger'
    BY <1>0, <1>1, <2>1, QuietStep DEF Stamp, Run
  <2>3. Handling' /\ Answers'
    BY <1>0, <1>1, <2>1 DEF Stamp, Handling, Answers, Run
  <2>4. QED
    BY <1>1, <2>2, <2>3 DEF Stamp
<1>2. CASE Open(Timer)
  <2>1. export' = [export EXCEPT !.pc = "write", !.handle = "temporary"]
    BY <1>0, <1>2 DEF Open, export
  <2>2. NoTornSnapshot' /\ Younger'
    BY <1>0, <1>2, <2>1, QuietStep DEF Open, Run
  <2>3. temporary'[export'.file] = Torn
    BY <1>0, <1>2, <2>1 DEF Open, export, Run, TypeOK
  <2>4. Handling'
    BY <1>0, <2>1, <2>3 DEF Handling, Run
  <2>5. Answers'
    BY <1>0, <1>2, <2>1 DEF Open, Answers, Run, Whole, export
  <2>6. QED
    BY <1>2, <2>2, <2>4, <2>5 DEF Open
<1>3. CASE Write(Timer)
  <2>1. export' = [export EXCEPT !.pc = "rename"] /\ export.pc = "write"
    BY <1>0, <1>3 DEF Write, export
  <2>2. export.handle = "temporary" /\ temporary[export.file] = Torn
    BY <2>1 DEF Handling
  <2>3. /\ temporary' = [temporary EXCEPT ![export.file] = Rendered(Timer)]
        /\ UNCHANGED artifacts
    BY <1>3, <2>2 DEF Write, export
  <2>4. temporary'[export.file] = Rendered(Timer) /\ Rendered(Timer) \in Document
    BY <1>0, <2>3, RenderedType DEF TypeOK, Run
  <2>5. NoTornSnapshot' /\ Younger'
    BY <1>0, <2>1, <2>3, QuietStep DEF Run
  <2>6. /\ Rendered(Timer).stamp = export.stamp
        /\ export.file = "tasks" => Rendered(Timer).commit = export.source
        /\ export.file = "decision" => Rendered(Timer).sections = export.sections
    BY DEF Rendered, export
  <2>7. Handling'
    BY <1>0, <2>1, <2>4, <2>6 DEF Handling, Answers, Run
  <2>8. Answers'
    BY <1>0, <2>1, <2>3 DEF Answers, Run, Whole
  <2>9. QED
    BY <2>3, <2>5, <2>7, <2>8
<1>4. QED
  BY <1>1, <1>2, <1>3

(***************************************************************************)
(* The steps that publish                                                  *)
(***************************************************************************)
LEMMA RenameStep ==
  ASSUME Alone, PubInv, TypeOK', Rename(Timer)
  PROVE  /\ PubInv'
         /\ \A f \in Files : Replaced(f) => Newer(f)
         /\ Published("decision") => \A s \in Bureau : FromSource(s)
<1> USE DEF PubInv
<1>0. export \in Run /\ runs \in [Jobs -> Run] /\ Timer \in Jobs
  BY PublicationAssumption DEF TypeOK, export
<1> DEFINE f == export.file
           new == temporary[f]
<1>1. /\ export.pc = "rename"
      /\ f \in BridgeFiles /\ f \in Files
      /\ new \in Document /\ new # None /\ new # Torn
      /\ new.stamp = export.stamp
  BY <1>0, DocumentAssumption DEF Rename, export, Handling, Run, Files
<1>2. /\ artifacts' = [artifacts EXCEPT ![f] = new]
      /\ temporary' = [temporary EXCEPT ![f] = None]
      /\ export' = Following(export)
  BY <1>0, <1>1 DEF Rename, export
<1>3. artifacts'[f] = new /\ \A g \in Files \ {f} : artifacts'[g] = artifacts[g]
  BY <1>1, <1>2 DEF TypeOK
<1>4. /\ export'.pc \in {"open", "probe"}
      /\ export'.stamp = export.stamp /\ export'.observed = export.observed
      /\ export'.source = export.source /\ export'.sections = export.sections
  BY <1>0, <1>2 DEF Following, Run, BridgeFiles
<1>5. NoTornSnapshot'
  BY <1>1, <1>3 DEF NoTornSnapshot
<1>6. Handling'
  BY <1>4 DEF Handling
<1>7. Younger'
  <2>1. export.stamp \in Age
    BY <1>0 DEF Run
  <2>2. export.stamp <= export.stamp
    BY <2>1 DEF Age
  <2>3. \A g \in BridgeFiles : Whole(g)' => export'.stamp <= artifacts'[g].stamp
    BY <1>1, <1>3, <1>4, <2>2 DEF Younger, Whole, Files
  <2>4. \A g \in {"head", "repoground"} :
          Whole(g)' => export'.observed <= artifacts'[g].stamp
    BY <1>1, <1>3, <1>4 DEF Younger, Whole, Files, BridgeFiles
  <2>5. QED
    BY <2>3, <2>4 DEF Younger
<1>8. Answers'
  <2>1. CASE f = "tasks"
    BY <1>0, <1>1, <1>2, <1>3, <1>4, <2>1 DEF Answers, Handling, Whole
  <2>2. CASE f # "tasks"
    BY <1>0, <1>1, <1>3, <1>4, <2>2 DEF Answers, Whole, Files, BridgeFiles
  <2>3. QED
    BY <2>1, <2>2
<1>9. \A g \in Files : Replaced(g) => Newer(g)
  BY <1>1, <1>3 DEF Replaced, Newer, Younger
<1>10. ASSUME Published("decision"), NEW s \in Bureau
       PROVE  FromSource(s)
  <2>1. f = "decision"
    BY <1>3, <1>10 DEF Published, Files, BridgeFiles
  <2>2. artifacts'["tasks"].commit = export.source
    BY <1>1, <1>3, <2>1 DEF Answers, Files, BridgeFiles
  <2>3. QED
    BY <1>1, <1>3, <2>1, <2>2 DEF Handling, FromSource
<1>11. QED
  BY <1>5, <1>6, <1>7, <1>8, <1>9, <1>10

LEMMA DirectSteps ==
  ASSUME Alone, PubInv, TypeOK', WriteHead(Timer) \/ WriteRepoground(Timer)
  PROVE  /\ PubInv'
         /\ \A f \in Files : Replaced(f) => Newer(f)
         /\ ~Published("decision")
<1> USE DEF PubInv
<1>0. export \in Run /\ runs \in [Jobs -> Run] /\ Timer \in Jobs
  BY PublicationAssumption DEF TypeOK, export
<1>1. PICK f \in {"head", "repoground"}, b \in BOOLEAN :
        /\ artifacts' = [artifacts EXCEPT ![f] = Direct(Timer, b)]
        /\ export' \in {Idle, [export EXCEPT !.pc = "repoground"]}
  BY <1>0 DEF WriteHead, WriteRepoground, export, Run
<1> DEFINE new == Direct(Timer, b)
<1>2. /\ new \in Document /\ new # None /\ new # Torn
      /\ new.stamp = export.observed
  BY <1>0, DirectType, DocumentAssumption DEF Direct, export
<1>3. artifacts'[f] = new /\ \A g \in Files \ {f} : artifacts'[g] = artifacts[g]
  BY <1>1 DEF TypeOK, Files
<1>4. /\ export'.pc \in {"idle", "repoground"}
      /\ export'.stamp \in {0, export.stamp} /\ export'.observed \in {0, export.observed}
      /\ \A s \in Bureau : export'.sections[s] # None =>
           export.sections[s] # None /\ export'.sections[s] = export.sections[s]
             /\ export'.source = export.source
      /\ export'.pc = "idle" => export'.sections = NoSections
  BY <1>0, <1>1 DEF Idle, Run, NoSections, Bureau, Sections
<1>5. NoTornSnapshot'
  BY <1>2, <1>3 DEF NoTornSnapshot
<1>6. Handling' /\ Answers'
  BY <1>4 DEF Handling, Answers
<1>7. \A g \in Files : Whole(g)' => artifacts'[g].stamp \in Age
  BY DEF TypeOK, Whole, Content, Document
<1>8. Younger'
  <2>1. \A g \in BridgeFiles : Whole(g)' => export'.stamp <= artifacts'[g].stamp
    BY <1>3, <1>4, <1>7, ZeroAge DEF Younger, Whole, Files, BridgeFiles
  <2>2. export.observed \in Age /\ export.observed <= export.observed
    BY <1>0 DEF Run, Age
  <2>3. \A g \in {"head", "repoground"} :
          Whole(g)' => export'.observed <= artifacts'[g].stamp
    BY <1>2, <1>3, <1>4, <1>7, <2>2, ZeroAge DEF Younger, Whole, Files
  <2>4. QED
    BY <2>1, <2>3 DEF Younger
<1>9. \A g \in Files : Replaced(g) => Newer(g)
  BY <1>2, <1>3 DEF Replaced, Newer, Younger
<1>10. ~Published("decision")
  BY <1>3 DEF Published, Files, BridgeFiles
<1>11. QED
  BY <1>5, <1>6, <1>8, <1>9, <1>10

(***************************************************************************)
(* Time                                                                    *)
(***************************************************************************)
LEMMA TickStep ==
  ASSUME Alone, PubInv, TypeOK', Tick
  PROVE  PubInv'
<1> USE DEF PubInv
<1>0. export \in Run /\ runs \in [Jobs -> Run] /\ Timer \in Jobs
  BY PublicationAssumption DEF TypeOK, export
<1>1. export' = AgedRun(export)
  BY <1>0 DEF Tick, export
<1>2. \A f \in Files : artifacts'[f] = AgedContent(artifacts[f])
  BY DEF Tick
<1>3. \A f \in BridgeFiles : temporary'[f] = AgedContent(temporary[f])
  BY DEF Tick
<1>4. ASSUME NEW f \in Files
      PROVE  /\ Whole(f)' => Whole(f) /\ artifacts[f] \in Document
             /\ Whole(f) => Whole(f)'
             /\ artifacts[f] # Torn => artifacts'[f] # Torn
  <2>1. artifacts[f] \in Content /\ artifacts'[f] = AgedContent(artifacts[f])
    BY <1>2 DEF TypeOK
  <2>2. CASE artifacts[f] \in {None, Torn}
    <3>1. artifacts'[f] = artifacts[f]
      BY <2>1, <2>2 DEF AgedContent
    <3>2. QED
      BY <2>2, <3>1 DEF Whole
  <2>3. CASE artifacts[f] \in Document
    <3>1. artifacts'[f] \in Document
      BY <2>1, <2>3, AgedContentType
    <3>2. QED
      BY <2>3, <3>1, DocumentAssumption DEF Whole
  <2>4. QED
    BY <2>1, <2>2, <2>3 DEF Content
<1>5. /\ export'.pc = export.pc /\ export'.file = export.file
      /\ export'.handle = export.handle /\ export'.source = export.source
      /\ export'.stamp \in {export.stamp, Older(export.stamp)}
      /\ export'.observed \in {export.observed, Older(export.observed)}
      /\ export.pc # "idle" => /\ export'.stamp = Older(export.stamp)
                               /\ export'.sections = AgedSections(export.sections)
      /\ export.pc = "idle" => export' = export
  BY <1>0, <1>1 DEF AgedRun, Run
<1>6. NoTornSnapshot'
  BY <1>4 DEF NoTornSnapshot
<1>7. ASSUME NEW a \in Age, NEW b \in Age, a <= b
      PROVE  a <= Older(b) /\ Older(a) <= Older(b)
  BY <1>7, PublicationAssumption DEF Age, Older
<1>8. Younger'
  <2>1. export.stamp \in Age /\ export.observed \in Age
    BY <1>0 DEF Run
  <2>2. \A f \in Files : Whole(f)' =>
          artifacts[f].stamp \in Age /\ artifacts'[f].stamp = Older(artifacts[f].stamp)
    BY <1>2, <1>4, AgedStamp DEF Document
  <2>3. \A f \in BridgeFiles : Whole(f)' => export'.stamp <= artifacts'[f].stamp
    BY <1>4, <1>5, <1>7, <2>1, <2>2 DEF Younger, Files
  <2>4. \A f \in {"head", "repoground"} :
          Whole(f)' => export'.observed <= artifacts'[f].stamp
    BY <1>4, <1>5, <1>7, <2>1, <2>2 DEF Younger, Files
  <2>5. QED
    BY <2>3, <2>4 DEF Younger
<1>9. ASSUME NEW sections \in SectionSet, NEW s \in Bureau,
             AgedSections(sections)[s] # None
      PROVE  sections[s] # None /\ AgedSections(sections)[s].commit = sections[s].commit
  BY <1>9, AgedAnswers DEF Bureau, Sections
<1>10. Handling'
  <2>1. CASE export.pc = "write"
    BY <1>0, <1>3, <1>5, <2>1 DEF Handling, AgedContent, Run
  <2>2. CASE export.pc = "rename"
    <3>1. export.file \in BridgeFiles /\ temporary[export.file] \in Document
      BY <1>0, <2>2 DEF Handling, Run
    <3>2. /\ temporary'[export.file] \in Document
          /\ temporary'[export.file].stamp = Older(temporary[export.file].stamp)
          /\ temporary'[export.file].commit = temporary[export.file].commit
          /\ temporary'[export.file].sections =
               AgedSections(temporary[export.file].sections)
      BY <1>3, <3>1, AgedContentType, AgedStamp DEF Content
    <3>3. temporary[export.file].sections \in SectionSet
      BY <3>1 DEF Document
    <3>4. QED
      BY <1>5, <1>9, <2>2, <3>1, <3>2, <3>3 DEF Handling
  <2>3. QED
    BY <1>5, <2>1, <2>2 DEF Handling
<1>11. Answers'
  <2>1. export.sections \in SectionSet
    BY <1>0 DEF Run
  <2>2. \A s \in Bureau : export'.sections[s] # None =>
          export'.sections[s].commit = export'.source
    BY <1>5, <1>9, <2>1 DEF Answers
  <2>3. AgedSections(NoSections) = NoSections
    BY DEF AgedSections, NoSections
  <2>4. export'.pc \in {"idle", "verify"} => export'.sections = NoSections
    BY <1>5, <2>3 DEF Answers
  <2>5. ASSUME export'.pc \in {"open", "write", "rename"}, export'.file # "tasks"
        PROVE  Whole("tasks")' /\ artifacts'["tasks"].commit = export'.source
    <3>1. Whole("tasks") /\ artifacts["tasks"].commit = export.source
      BY <1>5, <2>5 DEF Answers
    <3>2. artifacts["tasks"] \in Document /\ Whole("tasks")'
      BY <1>4, <3>1 DEF Files, BridgeFiles
    <3>3. QED
      BY <1>2, <1>5, <3>1, <3>2, AgedStamp DEF Files, BridgeFiles
  <2>6. QED
    BY <2>2, <2>4, <2>5 DEF Answers
<1>12. QED
  BY <1>6, <1>8, <1>10, <1>11

(***************************************************************************)
(* The theorems                                                            *)
(***************************************************************************)
Good ==
  /\ \A f \in Files : Replaced(f) => Newer(f)
  /\ Published("decision") => \A s \in {"status", "focus"} : FromSource(s)

LEMMA Unpublished ==
  ASSUME artifacts' = artifacts \/ \A f \in Files : artifacts'[f] = AgedContent(artifacts[f])
  PROVE  Good
  BY DEF Good, Replaced, Published, Files, BridgeFiles

LEMMA PubInit ==
  ASSUME Alone, Init
  PROVE  PubInv
<1>1. TypeOK
  BY TypeInit
<1>2. export = Idle
  BY PublicationAssumption DEF Init, export
<1>3. QED
  BY <1>1, <1>2, DocumentAssumption, PublicationAssumption
  DEF Init, PubInv, NoTornSnapshot, Handling, Younger, Answers, Idle, Whole,
      NoSections, Bureau, Sections, Files, BridgeFiles

LEMMA PubStep ==
  ASSUME Alone, PubInv, [Next]_vars
  PROVE  PubInv' /\ Good
<1>0. TypeOK'
  BY TypeStep DEF PubInv
<1>1. CASE Step(Timer)
  <2>1. CASE \/ Start(Timer) \/ Verify(Timer) \/ Collect(Timer) \/ ReadStatus(Timer)
             \/ ReadFocus(Timer) \/ ReadConvergence(Timer) \/ Probe(Timer)
    <3>1. UNCHANGED artifacts
      BY <2>1 DEF Start, Verify, Collect, ReadStatus, ReadFocus, ReadConvergence, Probe
    <3>2. QED
      BY <1>0, <2>1, <3>1, CollectingSteps, Unpublished
  <2>2. CASE Stamp(Timer) \/ Open(Timer) \/ Write(Timer)
    BY <1>0, <2>2, BridgeSteps, Unpublished
  <2>3. CASE Rename(Timer)
    BY <1>0, <2>3, RenameStep DEF Good, Bureau
  <2>4. CASE WriteHead(Timer) \/ WriteRepoground(Timer)
    BY <1>0, <2>4, DirectSteps DEF Good
  <2>5. QED
    BY <1>1, <2>1, <2>2, <2>3, <2>4 DEF Step
<1>2. CASE Interrupt(Timer)
  BY <1>0, <1>2, AbortStep, Unpublished DEF Interrupt
<1>3. CASE UNCHANGED <<files, runs>>
  <2>1. UNCHANGED <<artifacts, temporary, export>>
    BY <1>3 DEF export
  <2>2. NoTornSnapshot' /\ Handling' /\ Younger' /\ Answers'
    BY <2>1 DEF PubInv, NoTornSnapshot, Handling, Younger, Answers, Whole
  <2>3. QED
    BY <1>0, <2>1, <2>2, Unpublished DEF PubInv
<1>4. CASE Tick
  <2>1. \A f \in Files : artifacts'[f] = AgedContent(artifacts[f])
    BY <1>4 DEF Tick
  <2>2. QED
    BY <1>0, <1>4, <2>1, TickStep, Unpublished
<1>5. QED
  BY <1>1, <1>2, <1>3, <1>4 DEF Next, Alone, vars, DeployBureau, Break, Repair

\* While one run at a time publishes, no reader of a published name meets a torn
\* document, whatever was killed before (writeJsonAtomic, atomic_json_write).
THEOREM NeverTorn == ASSUME Alone PROVE Spec => []NoTornSnapshot
<1>1. Init => PubInv
  BY PubInit
<1>2. PubInv /\ [Next]_vars => PubInv'
  BY PubStep
<1>3. PubInv => NoTornSnapshot
  BY DEF PubInv
<1>4. QED
  BY <1>1, <1>2, <1>3, PTL DEF Spec

\* While one run at a time publishes, snapshots are replaced only by ones that
\* were generated later (the two writers and the order of a run's steps).
THEOREM OnlyNewer == ASSUME Alone PROVE Spec => NeverOlder
<1>1. Init => PubInv
  BY PubInit
<1>2. PubInv /\ [Next]_vars => PubInv'
  BY PubStep
<1>3. PubInv /\ [Next]_vars => [\A f \in Files : Replaced(f) => Newer(f)]_vars
  BY PubStep DEF Good
<1>4. QED
  BY <1>1, <1>2, <1>3, PTL DEF Spec, NeverOlder

\* While one run at a time publishes, a decision axis carries Bureau's word only
\* from the commit whose tasks are on the task board (bureau_read, and tasks
\* being published first).
THEOREM OneCommit == ASSUME Alone PROVE Spec => OneSource
<1>1. Init => PubInv
  BY PubInit
<1>2. PubInv /\ [Next]_vars => PubInv'
  BY PubStep
<1>3. PubInv /\ [Next]_vars =>
        [Published("decision") => \A s \in {"status", "focus"} : FromSource(s)]_vars
  BY PubStep DEF Good
<1>4. QED
  BY <1>1, <1>2, <1>3, PTL DEF Spec, OneSource

(***************************************************************************)
(* What is stale                                                           *)
(*                                                                         *)
(* The timer's run starts at phase 0 and is over within RunBound, before   *)
(* the next firing; so its own clock is the phase (Clock), and what it     *)
(* stamps is no older than the run (Stamped).  A file is therefore no      *)
(* older than the phase once the current run has published it, and one     *)
(* period older before that, if the run before finished (Recent).          *)
(***************************************************************************)

\* What freshnessPolicy.ts relies on: a snapshot of the previous run is not
\* stale before the current run has had its time.  It asks for two cadences,
\* and a run is shorter than one.
Cadence == Period + RunBound <= Limit

\* the files the run has published so far
Done ==
  CASE export.pc \in {"open", "write", "rename"} ->
         (CASE export.file = "tasks" -> {}
            [] export.file = "checkout" -> {"tasks"}
            [] export.file = "decision" -> {"tasks", "checkout"})
    [] export.pc \in {"probe", "head"} -> BridgeFiles
    [] export.pc = "repoground" -> BridgeFiles \cup {"head"}
    [] OTHER -> {}

Clock ==
  /\ due => phase = 0 /\ export.pc = "idle"
  /\ export.pc = "idle" => export.elapsed = 0
  /\ export.pc # "idle" => export.elapsed = phase

Stamped ==
  /\ export.pc \notin {"idle", "verify", "collect"} => export.observed <= export.elapsed
  /\ export.pc \in {"open", "write", "rename"} => export.stamp <= export.elapsed

Allowance == IF export.pc # "idle" \/ due THEN phase + Period ELSE phase

Recent ==
  /\ \A f \in Done : Whole(f) => artifacts[f].stamp <= phase
  /\ ~missed => \A f \in Files : Whole(f) => artifacts[f].stamp <= Allowance

TimeInv == Clock /\ Stamped /\ Recent

LEMMA StampType ==
  ASSUME TypeOK, NEW f \in Files, Whole(f)
  PROVE  artifacts[f] \in Document /\ artifacts[f].stamp \in Age /\ artifacts[f].stamp \in Nat
  BY PublicationAssumption DEF TypeOK, Whole, Content, Document, Age

LEMMA ExportType ==
  ASSUME TypeOK
  PROVE  /\ export \in Run /\ runs \in [Jobs -> Run] /\ Timer \in Jobs
         /\ export.elapsed \in Nat /\ export.elapsed <= RunBound
         /\ export.observed \in Nat /\ export.stamp \in Nat
         /\ phase \in Nat /\ phase < Period /\ Period \in Nat \ {0} /\ RunBound < Period
  BY PublicationAssumption DEF TypeOK, export, Run, Age

\* A step of the run that publishes nothing and leaves the clock alone.
LEMMA QuietTime ==
  ASSUME TypeOK, TimeInv, UNCHANGED <<artifacts, phase, missed>>,
         export'.pc # "idle", ~due', export.pc = "idle" => due,
         export'.elapsed = export.elapsed, Done' \subseteq Done, Stamped'
  PROVE  TimeInv'
<1>1. Clock'
  BY DEF TimeInv, Clock
<1>2. Allowance' = Allowance
  BY DEF Allowance
<1>3. Recent'
  BY <1>2 DEF TimeInv, Recent, Whole
<1>4. QED
  BY <1>1, <1>3 DEF TimeInv

LEMMA CollectingTime ==
  ASSUME Alone, TypeOK, TimeInv,
         \/ Start(Timer) \/ Verify(Timer) \/ Collect(Timer) \/ ReadStatus(Timer)
         \/ ReadFocus(Timer) \/ ReadConvergence(Timer) \/ Probe(Timer),
         ~Abort(Timer)
  PROVE  TimeInv'
<1>0. export \in Run /\ runs \in [Jobs -> Run] /\ Timer \in Jobs
  BY ExportType
<1>1. CASE Start(Timer)
  <2>1. export' = [export EXCEPT !.pc = "verify"] /\ export.pc = "idle" /\ due /\ ~due'
        /\ UNCHANGED <<artifacts, phase, missed>>
    BY <1>0, <1>1 DEF Start, export
  <2>2. Done' \subseteq Done /\ Stamped'
    BY <1>0, <2>1 DEF Done, Stamped, Run
  <2>3. QED
    BY <1>0, <2>1, <2>2, QuietTime DEF Run
<1>2. CASE Verify(Timer) \/ Collect(Timer)
  <2>1. /\ export' \in {[export EXCEPT !.pc = "collect", !.source = bureau],
                        [export EXCEPT !.pc = "status", !.observed = 0]}
        /\ export.pc # "idle" /\ UNCHANGED <<artifacts, phase, due, missed>>
    BY <1>0, <1>2 DEF Verify, Collect, export
  <2>2. /\ export'.elapsed = export.elapsed
        /\ \/ export'.pc = "collect"
           \/ export'.pc = "status" /\ export'.observed = 0
    <3>1. CASE export' = [export EXCEPT !.pc = "collect", !.source = bureau]
      BY <1>0, <3>1 DEF Run
    <3>2. CASE export' = [export EXCEPT !.pc = "status", !.observed = 0]
      BY <1>0, <3>2 DEF Run
    <3>3. QED
      BY <2>1, <3>1, <3>2
  <2>3. Done' \subseteq Done /\ Stamped'
    BY <2>2, ExportType DEF Done, Stamped
  <2>4. QED
    BY <2>1, <2>2, <2>3, QuietTime DEF TimeInv, Clock
<1>3. CASE ReadStatus(Timer) \/ ReadFocus(Timer) \/ ReadConvergence(Timer)
  <2>1. PICK s \in Sections, e \in Evidence \cup {None}, step \in {"focus", "convergence", "stamp"} :
          export' = [export EXCEPT !.pc = step, !.sections[s] = e]
    <3>1. export.observed \in Age /\ bureau \in Commits
      BY <1>0 DEF Run, TypeOK
    <3>2. CASE ReadStatus(Timer)
      <4> DEFINE e == IF BureauAnswers(Timer) THEN [age |-> 0, commit |-> bureau] ELSE None
      <4>1. e \in Evidence \cup {None}
        BY <3>1, ZeroAge DEF Evidence
      <4>2. export' = [export EXCEPT !.pc = "focus", !.sections["status"] = e]
        BY <1>0, <3>2 DEF ReadStatus, export
      <4>3. QED
        BY <4>1, <4>2 DEF Sections
    <3>3. CASE ReadFocus(Timer)
      <4> DEFINE e == IF BureauAnswers(Timer)
                      THEN [age |-> export.observed, commit |-> bureau] ELSE None
      <4>1. e \in Evidence \cup {None}
        BY <3>1 DEF Evidence
      <4>2. export' = [export EXCEPT !.pc = "convergence", !.sections["focus"] = e]
        BY <1>0, <3>3 DEF ReadFocus, export
      <4>3. QED
        BY <4>1, <4>2 DEF Sections
    <3>4. CASE ReadConvergence(Timer)
      <4> DEFINE e == IF Available("convergence") THEN [age |-> 0, commit |-> None] ELSE None
      <4>1. e \in Evidence \cup {None}
        BY ZeroAge DEF Evidence
      <4>2. export' = [export EXCEPT !.pc = "stamp", !.sections["convergence"] = e]
        BY <1>0, <3>4 DEF ReadConvergence, export
      <4>3. QED
        BY <4>1, <4>2 DEF Sections
    <3>5. QED
      BY <1>3, <3>2, <3>3, <3>4
  <2>2. /\ export.pc \in {"status", "focus", "convergence"}
        /\ UNCHANGED <<artifacts, phase, due, missed>>
    BY <1>3 DEF ReadStatus, ReadFocus, ReadConvergence, export
  <2>3. /\ export'.pc = step /\ export'.observed = export.observed
        /\ export'.elapsed = export.elapsed
    BY <1>0, <2>1 DEF Run
  <2>4. Done' \subseteq Done /\ Stamped'
    BY <2>2, <2>3 DEF TimeInv, Done, Stamped
  <2>5. QED
    BY <2>2, <2>3, <2>4, QuietTime DEF TimeInv, Clock
<1>4. CASE Probe(Timer)
  <2>1. /\ export' = [export EXCEPT !.pc = "head", !.remote = Available("remote"),
                                    !.catalog = Available("catalog")]
        /\ export.pc = "probe" /\ UNCHANGED <<artifacts, phase, due, missed>>
    BY <1>0, <1>4 DEF Probe, export
  <2>2. /\ export'.pc = "head" /\ export'.observed = export.observed
        /\ export'.elapsed = export.elapsed
    BY <1>0, <2>1 DEF Run
  <2>3. Done' \subseteq Done /\ Stamped'
    BY <2>1, <2>2 DEF TimeInv, Done, Stamped
  <2>4. QED
    BY <2>1, <2>2, <2>3, QuietTime DEF TimeInv, Clock
<1>5. QED
  BY <1>1, <1>2, <1>3, <1>4

LEMMA BridgeTime ==
  ASSUME Alone, PubInv, TimeInv, Stamp(Timer) \/ Open(Timer) \/ Write(Timer)
  PROVE  TimeInv'
<1> USE DEF PubInv
<1>0. export \in Run /\ runs \in [Jobs -> Run] /\ Timer \in Jobs
  BY ExportType
<1>1. UNCHANGED <<artifacts, phase, due, missed>>
  BY DEF Stamp, Open, Write, Handling, export
<1>2. CASE Stamp(Timer)
  <2>1. export' = [export EXCEPT !.pc = "open", !.stamp = 0, !.file = "tasks"]
        /\ export.pc = "stamp"
    BY <1>0, <1>2 DEF Stamp, export
  <2>2. /\ export'.pc = "open" /\ export'.observed = export.observed /\ export'.stamp = 0
        /\ export'.file = "tasks" /\ export'.elapsed = export.elapsed
    BY <1>0, <2>1 DEF Run
  <2>3. Done' \subseteq Done /\ Stamped'
    BY <2>1, <2>2, ExportType DEF TimeInv, Done, Stamped
  <2>4. QED
    BY <1>1, <2>1, <2>2, <2>3, QuietTime DEF TimeInv, Clock
<1>3. CASE Open(Timer) \/ Write(Timer)
  <2>1. /\ export' \in {[export EXCEPT !.pc = "write", !.handle = "temporary"],
                        [export EXCEPT !.pc = "rename"]}
        /\ export.pc \in {"open", "write"}
    BY <1>0, <1>3 DEF Open, Write, export
  <2>2. /\ export'.pc \in {"write", "rename"} /\ export'.observed = export.observed
        /\ export'.stamp = export.stamp /\ export'.file = export.file
        /\ export'.elapsed = export.elapsed
    BY <1>0, <2>1 DEF Run
  <2>3. Done' \subseteq Done /\ Stamped'
    BY <2>1, <2>2 DEF TimeInv, Done, Stamped
  <2>4. QED
    BY <1>1, <2>1, <2>2, <2>3, QuietTime DEF TimeInv, Clock
<1>4. QED
  BY <1>2, <1>3

\* An interrupted run has been missed, and the clock waits for the next one.
LEMMA AbortTime ==
  ASSUME Alone, TypeOK, TimeInv, Abort(Timer), export.pc # "idle", UNCHANGED <<artifacts, clock>>
  PROVE  TimeInv'
<1>1. export' = Idle /\ missed'
  BY ExportType DEF Abort, export
<1>2. export'.pc = "idle" /\ export'.elapsed = 0 /\ Done' = {}
  BY <1>1 DEF Idle, Done
<1>3. ~due'
  BY DEF TimeInv, Clock
<1>4. QED
  BY <1>1, <1>2, <1>3 DEF TimeInv, Clock, Stamped, Recent

LEMMA RenameTime ==
  ASSUME Alone, PubInv, TimeInv, Rename(Timer)
  PROVE  TimeInv'
<1> USE DEF PubInv
<1>0. export \in Run /\ runs \in [Jobs -> Run] /\ Timer \in Jobs
  BY ExportType
<1> DEFINE f == export.file
           new == temporary[f]
<1>1. /\ export.pc = "rename" /\ f \in BridgeFiles /\ f \in Files
      /\ new \in Document /\ new # None /\ new.stamp = export.stamp
  BY <1>0, DocumentAssumption DEF Rename, export, Handling, Run, Files
<1>2. /\ artifacts' = [artifacts EXCEPT ![f] = new] /\ export' = Following(export)
      /\ UNCHANGED <<phase, due, missed>>
  BY <1>0, <1>1 DEF Rename, export
<1>3. artifacts'[f] = new /\ \A g \in Files \ {f} : artifacts'[g] = artifacts[g]
  BY <1>1, <1>2 DEF TypeOK
<1>4. /\ export'.observed = export.observed /\ export'.elapsed = export.elapsed
      /\ export'.stamp = export.stamp
      /\ CASE f = "tasks" -> export'.pc = "open" /\ export'.file = "checkout"
           [] f = "checkout" -> export'.pc = "open" /\ export'.file = "decision"
           [] f = "decision" -> export'.pc = "probe"
  BY <1>0, <1>1, <1>2 DEF Following, Run, BridgeFiles
<1>5. Done' \subseteq Done \cup {f}
  BY <1>1, <1>4 DEF Done, BridgeFiles
<1>6. new.stamp <= phase
  BY <1>1 DEF TimeInv, Clock, Stamped
<1>7. /\ ~due' /\ export.pc # "idle" /\ export'.pc \in {"open", "probe"} /\ phase' = phase
  BY <1>1, <1>2, <1>4 DEF BridgeFiles, TimeInv, Clock
<1>8. Clock' /\ Stamped'
  BY <1>1, <1>4, <1>7 DEF TimeInv, Clock, Stamped
<1>9. Recent'
  <2>1. \A g \in Done' : Whole(g)' => artifacts'[g].stamp <= phase'
    <3>1. Done \subseteq Files
      BY <1>0 DEF Done, Files, BridgeFiles, Run
    <3>2. QED
      BY <1>3, <1>5, <1>6, <1>7, <3>1 DEF TimeInv, Recent, Whole
  <2>2. Allowance' = Allowance /\ phase <= Allowance /\ new.stamp <= Allowance
    BY <1>1, <1>6, <1>7, ExportType DEF Allowance
  <2>3. \A g \in Files : ~missed' /\ Whole(g)' => artifacts'[g].stamp <= Allowance'
    BY <1>2, <1>3, <2>2 DEF TimeInv, Recent, Whole
  <2>4. QED
    BY <2>1, <2>3 DEF Recent
<1>10. QED
  BY <1>8, <1>9 DEF TimeInv

LEMMA DirectTime ==
  ASSUME Alone, TypeOK, TimeInv, WriteHead(Timer) \/ WriteRepoground(Timer)
  PROVE  TimeInv'
<1>0. export \in Run /\ runs \in [Jobs -> Run] /\ Timer \in Jobs
  BY ExportType
<1>1. PICK f \in {"head", "repoground"}, b \in BOOLEAN :
        /\ artifacts' = [artifacts EXCEPT ![f] = Direct(Timer, b)]
        /\ export.pc = f
  BY <1>0 DEF WriteHead, WriteRepoground, export, Run
<1> DEFINE new == Direct(Timer, b)
<1>2. artifacts'[f] = new /\ \A g \in Files \ {f} : artifacts'[g] = artifacts[g]
  BY <1>1 DEF TypeOK, Files
<1>3. new.stamp <= phase /\ ~due /\ UNCHANGED <<phase, due>>
  BY <1>1 DEF Direct, export, TimeInv, Clock, Stamped, WriteHead, WriteRepoground
<1>4. CASE f = "head"
  <2>1. WriteHead(Timer)
    BY <1>1, <1>4 DEF WriteRepoground, export
  <2>2. export' = [export EXCEPT !.pc = "repoground"] /\ missed' = missed
    BY <1>0, <2>1 DEF WriteHead, export
  <2>3. /\ export'.pc = "repoground" /\ export'.observed = export.observed
        /\ export'.elapsed = export.elapsed
    BY <1>0, <2>2 DEF Run
  <2>4. Clock' /\ Stamped'
    BY <1>1, <1>3, <1>4, <2>3 DEF TimeInv, Clock, Stamped
  <2>5. \A g \in Done' : Whole(g)' => artifacts'[g].stamp <= phase'
    BY <1>1, <1>2, <1>3, <1>4, <2>3 DEF TimeInv, Recent, Whole, Done, Files, BridgeFiles
  <2>6. Allowance' = Allowance /\ new.stamp <= Allowance
    <3>1. new.stamp \in Nat
      BY ExportType DEF Direct, export
    <3>2. QED
      BY <1>1, <1>3, <1>4, <2>3, <3>1, ExportType DEF Allowance
  <2>7. \A g \in Files : ~missed' /\ Whole(g)' => artifacts'[g].stamp <= Allowance'
    BY <1>2, <2>2, <2>6 DEF TimeInv, Recent, Whole
  <2>8. QED
    BY <2>4, <2>5, <2>7 DEF TimeInv, Recent
<1>5. CASE f = "repoground"
  <2>1. WriteRepoground(Timer)
    BY <1>1, <1>5 DEF WriteHead, export
  <2>2. export' = Idle
    BY <1>0, <2>1 DEF WriteRepoground, export
  <2>3. export'.pc = "idle" /\ export'.elapsed = 0
    BY <2>2 DEF Idle
  <2>4. Clock' /\ Stamped' /\ Done' = {} /\ Allowance' = phase
    BY <1>3, <2>3 DEF Clock, Stamped, Done, Allowance
  <2>5. Done = Files \ {"repoground"}
    BY <1>1, <1>5 DEF Done, Files, BridgeFiles
  <2>6. \A g \in Files : Whole(g)' => artifacts'[g].stamp <= phase
    BY <1>2, <1>3, <1>5, <2>5 DEF TimeInv, Recent, Whole
  <2>7. QED
    BY <2>4, <2>6 DEF TimeInv, Recent
<1>6. QED
  BY <1>4, <1>5

\* Time passes: a run under way stays below its period, and the firing that ends
\* a period finds everything one period older.
LEMMA TickTime ==
  ASSUME Alone, TypeOK, TimeInv, Tick
  PROVE  TimeInv'
<1>0. export \in Run /\ runs \in [Jobs -> Run] /\ Timer \in Jobs
  BY ExportType
<1>1. export' = AgedRun(export)
  BY <1>0 DEF Tick, export
<1>2. ASSUME NEW f \in Files, Whole(f)'
      PROVE  /\ Whole(f) /\ artifacts[f].stamp \in Nat /\ artifacts'[f].stamp \in Nat
             /\ artifacts'[f].stamp <= artifacts[f].stamp + 1
  <2>1. artifacts'[f] = AgedContent(artifacts[f])
    BY DEF Tick
  <2>2. Whole(f)
    BY <1>2, <2>1 DEF Whole, AgedContent
  <2>3. artifacts[f] \in Document /\ artifacts[f].stamp \in Nat
    BY <2>2, StampType
  <2>4. artifacts'[f].stamp = Older(artifacts[f].stamp)
    BY <2>1, <2>3, AgedStamp
  <2>5. QED
    BY <2>2, <2>3, <2>4, PublicationAssumption DEF Older
<1>3. phase' = IF phase + 1 = Period THEN 0 ELSE phase + 1
  <2>1. phase' = (phase + 1) % Period
    BY DEF Tick
  <2>2. CASE phase + 1 = Period
    BY <2>1, <2>2, ExportType
  <2>3. CASE phase + 1 # Period
    <3>1. phase + 1 \in 0..(Period - 1)
      BY <2>3, ExportType
    <3>2. QED
      BY <2>1, <2>3, <3>1, ExportType
  <2>4. QED
    BY <2>2, <2>3
<1>4. CASE export.pc = "idle"
  <2>1. export' = export /\ Done = {} /\ Done' = {}
    BY <1>1, <1>4 DEF AgedRun, Done
  <2>2. ~due /\ (due' <=> phase' = 0)
    BY <1>4 DEF Tick, export
  <2>3. Clock' /\ Stamped'
    BY <1>4, <2>1, <2>2 DEF TimeInv, Clock, Stamped
  <2>4. Allowance = phase /\ Allowance' = phase + 1
    BY <1>3, <1>4, <2>1, <2>2, ExportType DEF Allowance
  <2>5. missed' = missed
    BY DEF Tick
  <2>6. ASSUME ~missed', NEW f \in Files, Whole(f)'
        PROVE  artifacts'[f].stamp <= Allowance'
    <3>1. artifacts[f].stamp <= phase
      BY <1>2, <2>4, <2>5, <2>6 DEF TimeInv, Recent
    <3>2. QED
      BY <1>2, <2>4, <2>6, <3>1, ExportType
  <2>7. QED
    BY <2>1, <2>3, <2>6 DEF TimeInv, Recent
<1>5. CASE export.pc # "idle"
  <2>1. export.elapsed = phase /\ phase < RunBound
    BY <1>5, ExportType DEF TimeInv, Clock, Tick, export
  <2>2. phase' = phase + 1 /\ ~due' /\ missed' = missed
    <3>1. phase + 1 # Period
      BY <2>1, ExportType, PublicationAssumption
    <3>2. ~due' /\ missed' = missed
      BY <1>5 DEF Tick, export
    <3>3. QED
      BY <1>3, <3>1, <3>2
  <2>3. /\ export'.pc = export.pc /\ export'.file = export.file
        /\ export'.elapsed = export.elapsed + 1
        /\ export'.observed = Older(export.observed) /\ export'.stamp = Older(export.stamp)
    BY <1>0, <1>1, <1>5 DEF AgedRun, Run
  <2>4. /\ Older(export.observed) <= export.observed + 1
        /\ Older(export.stamp) <= export.stamp + 1
        /\ Older(export.observed) \in Nat /\ Older(export.stamp) \in Nat
    BY ExportType, PublicationAssumption DEF Older
  <2>5. Clock'
    BY <1>5, <2>1, <2>2, <2>3 DEF Clock
  <2>6. Stamped'
    BY <2>3, <2>4, ExportType DEF TimeInv, Stamped
  <2>7. Done' = Done /\ Done \subseteq Files
    BY <1>0, <2>3 DEF Done, Files, BridgeFiles, Run
  <2>8. Allowance = phase + Period /\ Allowance' = phase + 1 + Period
    BY <1>5, <2>2, <2>3 DEF Allowance
  <2>9. ASSUME NEW f \in Done', Whole(f)'
        PROVE  artifacts'[f].stamp <= phase'
    <3>1. Whole(f) /\ f \in Done /\ f \in Files /\ artifacts[f].stamp <= phase
      BY <1>2, <2>7, <2>9 DEF TimeInv, Recent
    <3>2. QED
      BY <1>2, <2>2, <2>9, <3>1, ExportType
  <2>10. ASSUME ~missed', NEW f \in Files, Whole(f)'
         PROVE  artifacts'[f].stamp <= Allowance'
    <3>1. artifacts[f].stamp <= phase + Period
      BY <1>2, <2>2, <2>8, <2>10 DEF TimeInv, Recent
    <3>2. QED
      BY <1>2, <2>8, <2>10, <3>1, ExportType
  <2>11. QED
    BY <2>5, <2>6, <2>9, <2>10 DEF TimeInv, Recent
<1>6. QED
  BY <1>4, <1>5

LEMMA TimeInit ==
  ASSUME Alone, Init
  PROVE  TimeInv
<1>1. export = Idle
  BY PublicationAssumption DEF Init, export
<1>2. QED
  BY <1>1 DEF Init, Idle, TimeInv, Clock, Stamped, Recent, Done, Whole, Files

LEMMA TimeStep ==
  ASSUME Alone, PubInv, TimeInv, [Next]_vars
  PROVE  TimeInv'
<1>0. TypeOK
  BY DEF PubInv
<1>1. CASE Step(Timer)
  <2>1. CASE \/ Start(Timer) \/ Verify(Timer) \/ Collect(Timer) \/ ReadStatus(Timer)
             \/ ReadFocus(Timer) \/ ReadConvergence(Timer) \/ Probe(Timer)
    <3>1. CASE Abort(Timer)
      <4>1. Verify(Timer) \/ Collect(Timer)
        <5>1. export'.pc = "idle"
          BY <3>1, ExportType DEF Abort, Idle, export, PubInv
        <5>2. ~Start(Timer) /\ ~Probe(Timer)
          <6>1. export \in Run /\ runs \in [Jobs -> Run] /\ Timer \in Jobs
            BY <1>0, ExportType
          <6>2. ASSUME Start(Timer) PROVE FALSE
            <7>1. export' = [export EXCEPT !.pc = "verify"]
              BY <6>1, <6>2 DEF Start, export
            <7>2. QED
              BY <5>1, <6>1, <7>1 DEF Run
          <6>3. ASSUME Probe(Timer) PROVE FALSE
            <7>1. export' = [export EXCEPT !.pc = "head", !.remote = Available("remote"),
                                           !.catalog = Available("catalog")]
              BY <6>1, <6>3 DEF Probe, export
            <7>2. QED
              BY <5>1, <6>1, <7>1 DEF Run
          <6>4. QED
            BY <6>2, <6>3
        <5>3. ~ReadStatus(Timer) /\ ~ReadFocus(Timer) /\ ~ReadConvergence(Timer)
          BY <1>0, <5>1, ExportType DEF ReadStatus, ReadFocus, ReadConvergence, export, Run
        <5>4. QED
          BY <2>1, <5>2, <5>3
      <4>2. export.pc # "idle" /\ UNCHANGED <<artifacts, clock>>
        BY <4>1 DEF Verify, Collect, export
      <4>3. QED
        BY <1>0, <3>1, <4>2, AbortTime
    <3>2. QED
      BY <1>0, <2>1, <3>1, CollectingTime
  <2>2. CASE Stamp(Timer) \/ Open(Timer) \/ Write(Timer)
    BY <2>2, BridgeTime
  <2>3. CASE Rename(Timer)
    BY <2>3, RenameTime
  <2>4. CASE WriteHead(Timer) \/ WriteRepoground(Timer)
    BY <1>0, <2>4, DirectTime
  <2>5. QED
    BY <1>1, <2>1, <2>2, <2>3, <2>4 DEF Step
<1>2. CASE Interrupt(Timer)
  BY <1>0, <1>2, AbortTime DEF Interrupt, export
<1>3. CASE UNCHANGED <<artifacts, runs, clock, missed>>
  BY <1>3 DEF TimeInv, Clock, Stamped, Recent, Done, Allowance, Whole, export
<1>4. CASE Tick
  BY <1>0, <1>4, TickTime
<1>5. QED
  BY <1>1, <1>2, <1>3, <1>4 DEF Next, Alone, vars, DeployBureau, Break, Repair

\* A snapshot that is stale although the last run finished is not stale at all.
LEMMA TimeImplies ==
  ASSUME Cadence, TypeOK, TimeInv
  PROVE  StaleMeansMissed
<1>1. Limit \in Nat /\ RunBound \in Nat
  BY PublicationAssumption
<1>2. Allowance <= Limit /\ Allowance \in Nat
  BY <1>1, ExportType DEF Allowance, TimeInv, Clock, Cadence
<1>3. ASSUME NEW f \in Files, Verdict(f) = "warn", ~missed
      PROVE  FALSE
  <2>1. Whole(f) /\ ~(artifacts[f].stamp <= Limit)
    BY <1>3, StampType DEF Verdict, Document
  <2>2. artifacts[f].stamp \in Nat /\ artifacts[f].stamp <= Allowance
    BY <1>3, <2>1, StampType DEF TimeInv, Recent
  <2>3. QED
    BY <1>1, <1>2, <2>1, <2>2
<1>4. QED
  BY <1>3 DEF StaleMeansMissed

\* While only the timer runs the exporter and a run has its time before the
\* previous one's snapshots expire, /health calls a snapshot stale only after a
\* run that did not finish (the timer, readSnapshotHealth, freshnessPolicy.ts).
THEOREM StaleIsMissed == ASSUME Alone, Cadence PROVE Spec => []StaleMeansMissed
<1>1. Init => PubInv /\ TimeInv
  BY PubInit, TimeInit
<1>2. PubInv /\ TimeInv /\ [Next]_vars => (PubInv /\ TimeInv)'
  BY PubStep, TimeStep
<1>3. PubInv /\ TimeInv => StaleMeansMissed
  BY TimeImplies DEF PubInv
<1>4. QED
  BY <1>1, <1>2, <1>3, PTL DEF Spec
=============================================================================
