----------------------------- MODULE MapProofs ------------------------------
(***************************************************************************)
(* What the map page shows for any history of Systemkatalog, any artifacts *)
(* and any changes while it is being assembled: type correctness, that a   *)
(* map shown as fresh is that of a published head, that its links lead to  *)
(* the lines of their nodes, and that agreement raises no alarm.           *)
(***************************************************************************)
EXTENDS MapPage, WellFoundedInduction, TLAPS

USE DEF At, Elsewhere, Calm, Git, Goto, Answer, Matches, world

\* What a request has established when it reaches a step.
ReqInv ==
  req # None =>
    /\ req.step = "manifest" => \A a \in Artifacts : ~ Matches(req.view[a])
    /\ \A a \in Artifacts : Matches(req.view[a]) => req.view[a] = req.manifest.digest[a]
    /\ req.canonical # None => req.canonical \in published
    /\ req.step \in {"show", "ancestry", "diff"} =>
         /\ req.head # None /\ req.head = req.canonical
         /\ \A a \in Artifacts : Matches(req.view[a])
    /\ req.step \in {"ancestry", "diff"} => Tree[req.manifest.commit] = req.manifest.digest
    /\ req.step = "diff" => req.manifest.commit \in Ancestors[req.head]

\* The exporter's file names a head that was published.
HeadInv == headFile \in HeadFiles /\ headFile.head # None => headFile.head \in published

Inv == TypeOK /\ HeadInv /\ ReqInv /\ FreshIsCanonical

\* The answer to a request whose map was not found aligned claims nothing.
LEMMA NotAligned ==
  ASSUME NEW alignment \in {"drifted", "unverifiable"}, NEW head
  PROVE  Page(alignment, head).freshness # "fresh"
  BY DEF Page, Freshness

\* Every answer of a request has the fields of a page.
LEMMA PageType ==
  ASSUME TypeOK, req # None, req.step # "manifest", NEW head,
         NEW alignment \in {"exact", "compatible", "drifted", "unverifiable"}
  PROVE  LET p == Page(alignment, head)
         IN /\ p.kind \in {"artifact", "missing", "corrupt"}
            /\ p.alignment \in {"exact", "compatible", "drifted", "unverifiable"}
            /\ p.freshness \in {"fresh", "stale", "unknown"}
            /\ p.head = head /\ p.commit = req.manifest.commit
            /\ p.map = req.view[MapRole]
  BY DEF Page, Freshness

LEMMA InitInv == Init => Inv
<1> SUFFICES ASSUME Init PROVE Inv
  OBVIOUS
<1>1. repoHead \in Commits \cup {None} /\ disk \in [Artifacts -> Entries]
  BY GraphAssumption DEF Init, Entries
<1>2. manifest \in Manifests \cup Nothing
  <2>1. CASE manifest \in Nothing
    BY <2>1
  <2>2. ASSUME NEW c \in Commits, manifest = [commit |-> c, digest |-> Tree[c], old |-> FALSE]
        PROVE  manifest \in Manifests
    <3>1. Tree[c] \in [Artifacts -> Contents]
      BY GraphAssumption
    <3>2. QED
      BY <2>2, <3>1 DEF Manifests
  <2>3. QED
    BY <2>1, <2>2 DEF Init, Nothing
<1>3. headFile \in HeadFiles \cup Nothing /\ main \in Commits /\ HeadInv
      /\ published \in SUBSET Commits
  <2>1. CASE headFile \in Nothing /\ published = {}
    <3>1. headFile \notin HeadFiles
      BY <2>1, GraphAssumption DEF Nothing, HeadFiles
    <3>2. QED
      BY <2>1, <3>1 DEF Init, HeadInv
  <2>2. CASE headFile = [head |-> main, old |-> FALSE] /\ published = {main}
    BY <2>2 DEF Init, HeadFiles, HeadInv
  <2>3. QED
    BY <2>1, <2>2 DEF Init, Nothing
<1>4. QED
  BY <1>1, <1>2, <1>3, GraphAssumption DEF Init, Inv, TypeOK, ReqInv, FreshIsCanonical

\* Changes of the world leave requests and pages alone; heads once published
\* stay published.
LEMMA WorldStep == Inv /\ World => Inv'
<1> SUFFICES ASSUME Inv, World PROVE Inv'
  OBVIOUS
<1>1. UNCHANGED <<req, page>> /\ changes' \in 0..MaxChanges /\ undisturbed' \in BOOLEAN
  <2>1. Change
    BY DEF World, WriteArtifact, MoveHead, WriteManifest, MainAdvances, ExportHead, Expire
  <2>2. changes \in 0..MaxChanges /\ MaxChanges \in Nat
    BY GraphAssumption DEF Inv, TypeOK
  <2>3. changes' \in 0..MaxChanges
    BY <2>1, <2>2 DEF Change
  <2>4. UNCHANGED <<req, page>> /\ undisturbed' \in BOOLEAN
    BY <2>1 DEF Change
  <2>5. QED
    BY <2>3, <2>4
<1>2. published \subseteq published'
  BY DEF World, WriteArtifact, MoveHead, WriteManifest, MainAdvances, ExportHead, Expire
<1>3. /\ disk' \in [Artifacts -> Entries] /\ repoHead' \in Commits \cup {None}
      /\ main' \in Commits
  BY DEF World, WriteArtifact, MoveHead, WriteManifest, MainAdvances, ExportHead, Expire,
     Inv, TypeOK
<1>4. manifest' \in Manifests \cup Nothing
  <2>1. CASE WriteManifest
    BY <2>1 DEF WriteManifest, Manifests, Inv, TypeOK
  <2>2. CASE Expire
    BY <2>2 DEF Expire, Manifests, Inv, TypeOK
  <2>3. CASE UNCHANGED manifest
    BY <2>3 DEF Inv, TypeOK
  <2>4. QED
    BY <2>1, <2>2, <2>3 DEF World, WriteArtifact, MoveHead, MainAdvances, ExportHead
<1>5. headFile' \in HeadFiles \cup Nothing /\ HeadInv' /\ published' \in SUBSET Commits
  <2>1. CASE ExportHead
    <3>1. main \in Commits /\ published \in SUBSET Commits
      BY DEF Inv, TypeOK
    <3>2. CASE headFile' = [head |-> main, old |-> FALSE] /\ published' = published \cup {main}
      BY <3>1, <3>2 DEF HeadFiles, HeadInv
    <3>3. CASE headFile' = [head |-> None, old |-> FALSE] /\ UNCHANGED published
      BY <3>1, <3>3 DEF HeadFiles, HeadInv
    <3>4. QED
      BY <2>1, <3>2, <3>3 DEF ExportHead
  <2>2. CASE Expire
    BY <2>2 DEF Expire, HeadFiles, HeadInv, Inv, TypeOK
  <2>3. CASE UNCHANGED <<headFile, published>>
    BY <2>3 DEF HeadInv, Inv, TypeOK
  <2>4. QED
    BY <2>1, <2>2, <2>3 DEF World, WriteArtifact, MoveHead, WriteManifest, MainAdvances
<1>6. ReqInv'
  BY <1>1, <1>2 DEF Inv, ReqInv
<1>7. FreshIsCanonical'
  BY <1>1, <1>2 DEF Inv, FreshIsCanonical
<1>8. QED
  BY <1>1, <1>3, <1>4, <1>5, <1>6, <1>7 DEF Inv, TypeOK

\* What the steps of a request leave alone.
LEMMA StepFrame ==
  ASSUME RequestStep
  PROVE  UNCHANGED <<manifest, disk, repoHead, headFile, main, published, changes>>
  BY DEF RequestStep, ReadManifest, ReadCanonicalHead, ReadGitHead, ShowCommit,
     CheckAncestry, CompareHead, StatArtifact, ReadArtifact, Found

\* A step that answers keeps the invariant if what it answers is a page, and
\* shows as fresh only a published head with the bytes of the map.
LEMMA Answering ==
  ASSUME Inv, Elsewhere, undisturbed' \in BOOLEAN, req # None, req.step # "manifest",
         NEW alignment \in {"exact", "compatible", "drifted", "unverifiable"}, NEW head,
         Answer(Page(alignment, head)),
         alignment \in {"exact", "compatible"} =>
           /\ head \in published /\ req.manifest.commit \in Ancestors[head]
           /\ req.view[MapRole] = Tree[head][MapRole]
  PROVE  Inv'
<1>1. TypeOK'
  BY PageType DEF Inv, TypeOK
<1>2. HeadInv' /\ ReqInv'
  BY DEF Inv, HeadInv, ReqInv
<1>3. FreshIsCanonical'
  BY PageType, NotAligned DEF Inv, FreshIsCanonical
<1>4. QED
  BY <1>1, <1>2, <1>3 DEF Inv

\* A step that goes on keeps the invariant if the request stays one.
LEMMA GoingOn ==
  ASSUME Inv, Elsewhere, undisturbed' \in BOOLEAN, req' \in Requests, ReqInv',
         req'.step # "manifest" => req'.manifest \in Manifests,
         page' = page \/ page' = None
  PROVE  Inv'
<1>1. TypeOK'
  BY DEF Inv, TypeOK
<1>2. FreshIsCanonical' /\ HeadInv'
  BY DEF Inv, FreshIsCanonical, HeadInv
<1>3. QED
  BY <1>1, <1>2 DEF Inv

LEMMA RequestInv == Inv /\ Request => Inv'
<1> SUFFICES ASSUME Inv, Request PROVE Inv'
  OBVIOUS
<1>1. PICK file \in LinkFiles :
        req' = [step |-> "manifest", links |-> CrossLinks(file), manifest |-> None,
                view |-> [a \in Artifacts |-> "unread"], canonical |-> None, head |-> None]
  BY DEF Request
<1>2. req' \in Requests /\ req'.step = "manifest"
  BY <1>1 DEF Requests, CrossLinks, Findings, Unmatched
<1>3. ReqInv'
  BY <1>1, GraphAssumption DEF ReqInv, Unmatched
<1>4. QED
  BY <1>2, <1>3, GoingOn DEF Request

LEMMA ManifestInv == Inv /\ ReadManifest => Inv'
<1> SUFFICES ASSUME Inv, ReadManifest PROVE Inv'
  OBVIOUS
<1>0. req \in Requests /\ req # None /\ req.step = "manifest" /\ ReqInv
  BY DEF ReadManifest, Inv, TypeOK
<1>1. CASE manifest \in Manifests
  <2>1. req' = [req EXCEPT !.manifest = manifest, !.step = "inspect"]
    BY <1>1 DEF ReadManifest
  <2>2. req' \in Requests /\ req'.manifest \in Manifests
    BY <1>0, <1>1, <2>1 DEF Requests
  <2>3. ReqInv'
    BY <1>0, <2>1 DEF ReqInv, Requests, ReadManifest
  <2>4. QED
    BY <1>1, <2>2, <2>3, GoingOn DEF ReadManifest, Inv, TypeOK
<1>2. CASE manifest \notin Manifests
  <2>1. page' = EmptyPage(IF manifest = Absent THEN "missing" ELSE "corrupt") /\ req' = None
    BY <1>2 DEF ReadManifest
  <2>2. TypeOK' /\ FreshIsCanonical'
    BY <2>1 DEF EmptyPage, ReadManifest, Inv, TypeOK, FreshIsCanonical
  <2>3. QED
    BY <2>1, <2>2 DEF ReadManifest, Inv, HeadInv, ReqInv
<1>3. QED
  BY <1>1, <1>2

LEMMA FoundInv ==
  ASSUME Inv, req # None, NEW a \in Artifacts, NEW finding, Found(a, finding),
         req.step = "inspect", finding \in Unmatched \/ finding = req.manifest.digest[a]
  PROVE  Inv'
<1>0. req \in Requests /\ ReqInv /\ req.manifest \in Manifests
  BY DEF Inv, TypeOK
<1>1. finding \in Findings /\ (Matches(finding) => finding = req.manifest.digest[a])
  BY <1>0, GraphAssumption DEF Manifests, Findings
<1>2. req' = [req EXCEPT !.view[a] = finding]
  BY DEF Found
<1>3. req' \in Requests
  BY <1>0, <1>1, <1>2 DEF Requests
<1>4. ReqInv'
  BY <1>0, <1>1, <1>2 DEF ReqInv, Requests, Found
<1>5. req'.manifest \in Manifests
  BY <1>0, <1>2 DEF Requests
<1>6. QED
  BY <1>3, <1>4, <1>5, GoingOn DEF Found, Inv, TypeOK

LEMMA ArtifactInv ==
  ASSUME Inv, NEW a \in Artifacts, StatArtifact(a) \/ ReadArtifact(a)
  PROVE  Inv'
<1>1. CASE StatArtifact(a)
  BY <1>1, FoundInv DEF StatArtifact, Unmatched
<1>2. CASE ReadArtifact(a)
  <2>1. PICK bytes : Found(a, CASE bytes = Absent -> "artifact_missing"
                                [] bytes = req.manifest.digest[a] -> bytes
                                [] OTHER -> "artifact_integrity_mismatch")
    BY <1>2 DEF ReadArtifact
  <2>2. QED
    BY <1>2, <2>1, FoundInv DEF ReadArtifact, Unmatched
<1>3. QED
  BY <1>1, <1>2

LEMMA CanonicalHeadInv == Inv /\ ReadCanonicalHead => Inv'
<1> SUFFICES ASSUME Inv, ReadCanonicalHead PROVE Inv'
  OBVIOUS
<1>0. req \in Requests /\ req # None /\ ReqInv /\ HeadInv /\ req.manifest \in Manifests
  BY DEF ReadCanonicalHead, Inv, TypeOK
<1>1. PICK head \in Commits \cup {None} :
        /\ req' = [req EXCEPT !.step = "head", !.canonical = head]
        /\ head # None => head \in published
  BY <1>0 DEF ReadCanonicalHead, HeadInv, HeadFiles
<1>2. req' \in Requests /\ req'.manifest \in Manifests
  BY <1>0, <1>1 DEF Requests
<1>3. ReqInv'
  BY <1>0, <1>1 DEF ReqInv, Requests, ReadCanonicalHead
<1>4. QED
  BY <1>2, <1>3, GoingOn DEF ReadCanonicalHead, Inv, TypeOK

LEMMA GitHeadInv == Inv /\ ReadGitHead => Inv'
<1> SUFFICES ASSUME Inv, ReadGitHead PROVE Inv'
  OBVIOUS
<1>0. /\ req \in Requests /\ req # None /\ req.step = "head"
      /\ ReqInv /\ req.manifest \in Manifests /\ undisturbed \in BOOLEAN
  BY DEF ReadGitHead, Inv, TypeOK
<1>1. PICK ok \in BOOLEAN, head \in Commits \cup {None} :
        /\ Git(ok)
        /\ \/ Answer(Page("drifted", head))
           \/ Answer(Page("unverifiable", None))
           \/ Answer(Page("drifted", req.canonical))
           \/ /\ \A a \in Artifacts : Matches(req.view[a])
              /\ None \notin {head, req.canonical} /\ req.canonical = head
              /\ req' = [req EXCEPT !.head = head, !.step = "show"] /\ UNCHANGED page
  BY DEF ReadGitHead, Inv, TypeOK
<1>2. Elsewhere /\ undisturbed' \in BOOLEAN
  BY <1>0, <1>1 DEF ReadGitHead
<1>3. CASE \/ Answer(Page("drifted", head))
           \/ Answer(Page("unverifiable", None))
           \/ Answer(Page("drifted", req.canonical))
  BY <1>0, <1>2, <1>3, Answering
<1>4. CASE /\ \A a \in Artifacts : Matches(req.view[a])
           /\ None \notin {head, req.canonical} /\ req.canonical = head
           /\ req' = [req EXCEPT !.head = head, !.step = "show"] /\ UNCHANGED page
  <2>1. req' \in Requests /\ req'.manifest \in Manifests
    BY <1>0, <1>4 DEF Requests
  <2>2. ReqInv'
    BY <1>0, <1>2, <1>4 DEF ReqInv, Requests
  <2>3. QED
    BY <1>2, <1>4, <2>1, <2>2, GoingOn
<1>5. QED
  BY <1>1, <1>3, <1>4

LEMMA ShowInv == Inv /\ ShowCommit => Inv'
<1> SUFFICES ASSUME Inv, ShowCommit PROVE Inv'
  OBVIOUS
<1>0. /\ req \in Requests /\ req # None /\ req.step = "show"
      /\ ReqInv /\ req.manifest \in Manifests /\ undisturbed \in BOOLEAN
  BY DEF ShowCommit, Inv, TypeOK
<1>1. Elsewhere /\ undisturbed' \in BOOLEAN
  BY <1>0 DEF ShowCommit
<1>2. CASE Answer(Page("drifted", req.head))
  BY <1>0, <1>1, <1>2, Answering
<1>3. CASE Tree[req.manifest.commit] = req.manifest.digest /\ Goto("ancestry")
  <2>1. req' \in Requests /\ req'.manifest \in Manifests
    BY <1>0, <1>3 DEF Requests
  <2>2. ReqInv'
    BY <1>0, <1>1, <1>3 DEF ReqInv, Requests
  <2>3. QED
    BY <1>1, <1>3, <2>1, <2>2, GoingOn
<1>4. QED
  BY <1>2, <1>3 DEF ShowCommit

\* Once the manifest's commit is known to hold what the manifest says, the map
\* of the request is the map of that commit.
LEMMA MapOfCommit ==
  ASSUME Inv, req # None, req.step \in {"ancestry", "diff"}
  PROVE  /\ req.view[MapRole] = Tree[req.manifest.commit][MapRole]
         /\ req.head \in published
  BY GraphAssumption DEF Inv, ReqInv

LEMMA AncestryInv == Inv /\ CheckAncestry => Inv'
<1> SUFFICES ASSUME Inv, CheckAncestry PROVE Inv'
  OBVIOUS
<1>0. /\ req \in Requests /\ req # None /\ req.step = "ancestry"
      /\ ReqInv /\ req.manifest \in Manifests /\ undisturbed \in BOOLEAN
  BY DEF CheckAncestry, Inv, TypeOK
<1>1. Elsewhere /\ undisturbed' \in BOOLEAN
  BY <1>0 DEF CheckAncestry
<1>2. CASE Answer(Page("drifted", req.head)) \/ Answer(Page("unverifiable", req.head))
  BY <1>0, <1>1, <1>2, Answering
<1>3. CASE /\ req.manifest.commit \in Ancestors[req.head] /\ req.head = req.manifest.commit
           /\ Answer(Page("exact", req.head))
  BY <1>0, <1>1, <1>3, MapOfCommit, Answering
<1>4. CASE req.manifest.commit \in Ancestors[req.head] /\ Goto("diff")
  <2>1. req' \in Requests /\ req'.manifest \in Manifests
    BY <1>0, <1>4 DEF Requests
  <2>2. ReqInv'
    BY <1>0, <1>1, <1>4 DEF ReqInv, Requests
  <2>3. QED
    BY <1>1, <1>4, <2>1, <2>2, GoingOn
<1>5. QED
  BY <1>2, <1>3, <1>4 DEF CheckAncestry

LEMMA CompareInv == Inv /\ CompareHead => Inv'
<1> SUFFICES ASSUME Inv, CompareHead PROVE Inv'
  OBVIOUS
<1>0. /\ req \in Requests /\ req # None /\ req.step = "diff"
      /\ ReqInv /\ req.manifest \in Manifests /\ undisturbed \in BOOLEAN
  BY DEF CompareHead, Inv, TypeOK
<1>1. Elsewhere /\ undisturbed' \in BOOLEAN
  BY <1>0 DEF CompareHead
<1>2. CASE Answer(Page("drifted", req.head)) \/ Answer(Page("unverifiable", req.head))
  BY <1>0, <1>1, <1>2, Answering
<1>3. CASE Tree[req.manifest.commit] = Tree[req.head] /\ Answer(Page("compatible", req.head))
  <2>1. req.manifest.commit \in Ancestors[req.head]
    BY <1>0 DEF ReqInv
  <2>2. QED
    BY <1>0, <1>1, <1>3, <2>1, MapOfCommit, Answering
<1>4. QED
  BY <1>2, <1>3 DEF CompareHead

LEMMA StepInv == Inv /\ [Next]_vars => Inv'
<1> SUFFICES ASSUME Inv, [Next]_vars PROVE Inv'
  OBVIOUS
<1>1. CASE RequestStep
  BY <1>1, ManifestInv, CanonicalHeadInv, GitHeadInv, ShowInv, AncestryInv, CompareInv,
     ArtifactInv DEF RequestStep
<1>2. CASE UNCHANGED vars
  BY <1>2 DEF vars, Inv, TypeOK, HeadInv, ReqInv, FreshIsCanonical
<1>3. QED
  BY <1>1, <1>2, RequestInv, WorldStep DEF Next

\* Every request and every page has the form the code gives it, for any history
\* of Systemkatalog and any changes while it is read (getEcosystemMapData).
THEOREM TypeCorrect == Spec => []TypeOK
<1>1. Inv => TypeOK
  BY DEF Inv
<1>2. QED
  BY <1>1, InitInv, StepInv, PTL DEF Spec

\* A map shown as fresh is the map of a published head of Systemkatalog's main,
\* for any history, artifacts and changes (inspectAlignment, combineFreshness).
THEOREM FreshIsTrue == Spec => []FreshIsCanonical
<1>1. Inv => FreshIsCanonical
  BY DEF Inv
<1>2. QED
  BY <1>1, InitInv, StepInv, PTL DEF Spec

(***************************************************************************)
(* An undisturbed request                                                  *)
(***************************************************************************)

\* What a request that nothing disturbed has found where everything agrees.
Undoubted ==
  req # None =>
    /\ \A a \in Artifacts : req.view[a] \in {"unread", "sized"} \/ Matches(req.view[a])
    /\ req.step # "manifest" => req.manifest = manifest
    /\ req.step \notin {"manifest", "inspect"} =>
         /\ req.canonical = repoHead
         /\ \A a \in Artifacts : Matches(req.view[a])
    /\ req.step \in {"show", "ancestry", "diff"} => req.head = repoHead

Shown == page # None => page.kind = "artifact" /\ page.freshness = "fresh"

CalmInv == undisturbed /\ Agreeing => Undoubted /\ Shown

\* Where everything agrees the source root holds what the manifest names.
LEMMA AgreeingFacts ==
  ASSUME TypeOK, Agreeing
  PROVE  /\ repoHead \in Commits /\ manifest \in Manifests
         /\ headFile \in HeadFiles /\ ~ headFile.old /\ headFile.head = repoHead
         /\ \A a \in Artifacts : /\ disk[a] \in Contents /\ disk[a] \notin {Absent, "symlink"}
                                 /\ manifest.digest[a] = disk[a]
<1>1. repoHead \in Commits
  BY DEF TypeOK, Agreeing
<1>2. disk \in [Artifacts -> Contents]
  BY <1>1, GraphAssumption DEF Agreeing
<1>3. QED
  BY <1>1, <1>2, GraphAssumption DEF Agreeing, HeadFiles, Nothing

\* An aligned page of an agreeing world shows the map, and as fresh.
LEMMA AlignedPage ==
  ASSUME req # None, Matches(req.view[MapRole]), ~ req.manifest.old, NEW head,
         NEW alignment \in {"exact", "compatible"}, Answer(Page(alignment, head))
  PROVE  Undoubted' /\ Shown'
<1>1. Page(alignment, head).kind = "artifact" /\ Page(alignment, head).freshness = "fresh"
  BY DEF Page, Freshness
<1>2. QED
  BY <1>1 DEF Undoubted, Shown

LEMMA CalmFound ==
  ASSUME TypeOK, Agreeing, Undoubted, NEW a \in Artifacts, StatArtifact(a) \/ ReadArtifact(a)
  PROVE  Undoubted'
<1>0. req \in Requests /\ req # None /\ req.step = "inspect" /\ req.manifest = manifest
  BY DEF StatArtifact, ReadArtifact, TypeOK, Undoubted
<1>1. /\ disk[a] \in Contents /\ disk[a] \notin {Absent, "symlink"}
      /\ req.manifest.digest[a] = disk[a]
  BY <1>0, AgreeingFacts
<1>2. Found(a, "sized") \/ Found(a, disk[a])
  BY <1>1 DEF StatArtifact, ReadArtifact
<1>3. PICK finding \in {"sized", disk[a]} : req' = [req EXCEPT !.view[a] = finding]
  BY <1>2 DEF Found
<1>4. /\ req'.step = "inspect" /\ req'.manifest = req.manifest
      /\ req'.view = [req.view EXCEPT ![a] = finding] /\ req.view \in [Artifacts -> Findings]
  BY <1>0, <1>3 DEF Requests
<1>5. manifest' = manifest
  BY <1>2 DEF Found
<1>6. QED
  BY <1>0, <1>1, <1>4, <1>5 DEF Undoubted

LEMMA CalmStep == Inv /\ CalmInv /\ RequestStep => CalmInv'
<1> SUFFICES ASSUME Inv, CalmInv, RequestStep, undisturbed', Agreeing'
    PROVE  Undoubted' /\ Shown'
  BY DEF CalmInv
<1>0. /\ UNCHANGED <<manifest, disk, repoHead, headFile>> /\ Agreeing /\ TypeOK
      /\ undisturbed /\ Undoubted /\ Shown /\ req # None /\ req \in Requests
  <2>1. UNCHANGED <<manifest, disk, repoHead, headFile>>
    BY StepFrame
  <2>2. Agreeing
    BY <2>1 DEF Agreeing
  <2>3. undisturbed
    BY DEF RequestStep, ReadManifest, ReadCanonicalHead, ReadGitHead, ShowCommit, CheckAncestry,
       CompareHead, StatArtifact, ReadArtifact, Found, Inv, TypeOK
  <2>4. req # None
    BY DEF RequestStep, ReadManifest, ReadCanonicalHead, ReadGitHead, ShowCommit, CheckAncestry,
       CompareHead, StatArtifact, ReadArtifact
  <2>5. QED
    BY <2>1, <2>2, <2>3, <2>4 DEF CalmInv, Inv, TypeOK
<1>1. CASE ReadManifest
  <2>1. req' = [req EXCEPT !.manifest = manifest, !.step = "inspect"] /\ UNCHANGED page
    BY <1>0, <1>1 DEF ReadManifest, Agreeing
  <2>2. req'.manifest = manifest /\ req'.step = "inspect" /\ req'.view = req.view
    BY <1>0, <2>1 DEF Requests
  <2>3. QED
    BY <1>0, <2>1, <2>2 DEF Undoubted, Shown
<1>2. CASE \E a \in Artifacts : StatArtifact(a) \/ ReadArtifact(a)
  <2>1. Undoubted'
    BY <1>0, <1>2, CalmFound
  <2>2. page' = page
    BY <1>2 DEF StatArtifact, ReadArtifact, Found
  <2>3. QED
    BY <1>0, <2>1, <2>2 DEF Shown
<1>3. CASE ReadCanonicalHead
  <2>1. headFile \in HeadFiles /\ ~ headFile.old /\ headFile.head = repoHead
    BY <1>0, AgreeingFacts
  <2>2. req' = [req EXCEPT !.step = "head", !.canonical = repoHead] /\ UNCHANGED page
    BY <1>3, <2>1 DEF ReadCanonicalHead
  <2>3. /\ req'.step = "head" /\ req'.canonical = repoHead /\ req'.view = req.view
        /\ req'.manifest = req.manifest
    BY <1>0, <2>2 DEF Requests
  <2>4. \A a \in Artifacts : Matches(req.view[a])
    BY <1>0, <1>3 DEF ReadCanonicalHead, Undoubted
  <2>5. req.step = "inspect"
    BY <1>3 DEF ReadCanonicalHead
  <2>6. QED
    BY <1>0, <2>2, <2>3, <2>4, <2>5 DEF Undoubted, Shown
<1>4. CASE ReadGitHead
  <2>1. /\ req.step = "head" /\ req.canonical = repoHead /\ req.manifest = manifest
        /\ \A a \in Artifacts : Matches(req.view[a])
    BY <1>0, <1>4 DEF ReadGitHead, Undoubted
  <2>2. repoHead # None
    BY <1>0 DEF Agreeing
  <2>3. req' = [req EXCEPT !.head = repoHead, !.step = "show"] /\ UNCHANGED page
    BY <1>4, <2>1, <2>2 DEF ReadGitHead
  <2>4. /\ req'.step = "show" /\ req'.head = repoHead /\ req'.canonical = req.canonical
        /\ req'.view = req.view /\ req'.manifest = req.manifest
    BY <1>0, <2>3 DEF Requests
  <2>5. QED
    BY <1>0, <2>1, <2>3, <2>4 DEF Undoubted, Shown
<1>5. CASE ShowCommit
  <2>1. req.step = "show" /\ req.manifest = manifest
    BY <1>0, <1>5 DEF ShowCommit, Undoubted
  <2>2. Goto("ancestry")
    BY <1>0, <1>5, <2>1 DEF ShowCommit, Agreeing
  <2>3. /\ req'.step = "ancestry" /\ req'.head = req.head /\ req'.canonical = req.canonical
        /\ req'.view = req.view /\ req'.manifest = req.manifest
    BY <1>0, <2>2 DEF Requests
  <2>4. QED
    BY <1>0, <2>1, <2>2, <2>3 DEF Undoubted, Shown
<1>6. CASE CheckAncestry
  <2>1. /\ req.step = "ancestry" /\ req.manifest = manifest /\ req.head = repoHead
        /\ Matches(req.view[MapRole]) /\ ~ req.manifest.old
        /\ manifest.commit \in Ancestors[repoHead]
    BY <1>0, <1>6, GraphAssumption DEF CheckAncestry, Undoubted, Agreeing
  <2>2. Answer(Page("exact", req.head)) \/ Goto("diff")
    BY <1>6, <2>1 DEF CheckAncestry
  <2>3. CASE Answer(Page("exact", req.head))
    BY <1>0, <2>1, <2>3, AlignedPage
  <2>4. CASE Goto("diff")
    <3>1. /\ req'.step = "diff" /\ req'.head = req.head /\ req'.canonical = req.canonical
          /\ req'.view = req.view /\ req'.manifest = req.manifest
      BY <1>0, <2>4 DEF Requests
    <3>2. QED
      BY <1>0, <2>1, <2>4, <3>1 DEF Undoubted, Shown
  <2>5. QED
    BY <2>2, <2>3, <2>4
<1>7. CASE CompareHead
  <2>1. /\ req.step = "diff" /\ req.manifest = manifest /\ req.head = repoHead
        /\ Matches(req.view[MapRole]) /\ ~ req.manifest.old
        /\ Tree[req.manifest.commit] = Tree[req.head]
    BY <1>0, <1>7, GraphAssumption DEF CompareHead, Undoubted, Agreeing
  <2>2. Answer(Page("compatible", req.head))
    BY <1>7, <2>1 DEF CompareHead
  <2>3. QED
    BY <1>0, <2>1, <2>2, AlignedPage
<1>8. QED
  BY <1>1, <1>2, <1>3, <1>4, <1>5, <1>6, <1>7 DEF RequestStep

\* Where manifest, files, checkout and exported head agree, a request that
\* nothing disturbs shows the map, and as fresh (inspectAlignment).
THEOREM CalmIsFresh == Spec => []NoFalseAlarm
<1>1. Init => CalmInv
  BY DEF Init, CalmInv, Undoubted, Shown
<1>2. Inv /\ CalmInv /\ [Next]_vars => CalmInv'
  <2> SUFFICES ASSUME Inv, CalmInv, [Next]_vars PROVE CalmInv'
    OBVIOUS
  <2>1. CASE Request
    BY <2>1 DEF Request, CalmInv, Undoubted, Shown
  <2>2. CASE World
    BY <2>2 DEF World, WriteArtifact, MoveHead, WriteManifest, MainAdvances, ExportHead, Expire,
       Change, CalmInv
  <2>3. CASE UNCHANGED vars
    BY <2>3 DEF vars, CalmInv, Undoubted, Shown, Agreeing
  <2>4. QED
    BY <2>1, <2>2, <2>3, CalmStep DEF Next
<1>3. CalmInv => NoFalseAlarm
  BY DEF CalmInv, Shown, NoFalseAlarm
<1>4. QED
  BY <1>1, <1>2, <1>3, InitInv, StepInv, PTL DEF Spec

(***************************************************************************)
(* The nodes of a map                                                      *)
(*                                                                         *)
(* Taken is a recursive function over the lines.  That it exists, and what *)
(* it returns, is proved for the least number of lines of which it fails.  *)
(***************************************************************************)

LEMMA LeastNumber ==
  ASSUME NEW S \in SUBSET Nat, S # {}
  PROVE  \E n \in S : \A m \in S : n <= m
<1> DEFINE R == OpToRel(<, Nat)
<1>1. IsWellFoundedOn(R, Nat)
  BY NatLessThanWellFounded
<1>2. \E n \in S : \A m \in S : ~ (<<m, n>> \in R)
  <2> HIDE DEF R
  <2> QED
    BY <1>1, WFMin
<1>3. PICK n \in S : \A m \in S : ~ (<<m, n>> \in R)
  BY <1>2
<1>4. \A m \in S : ~ (m < n)
  BY <1>3 DEF OpToRel
<1>5. QED
  BY <1>4

\* What the loop of extractMermaidNodeIdentities does with line i.
Takes(lines, taken, i) ==
  /\ lines[i].node # None
  /\ \A k \in taken : lines[k].mermaid # lines[i].mermaid /\ lines[k].node # lines[i].node
TakeLine(lines, taken, i) == IF Takes(lines, taken, i) THEN taken \cup {i} ELSE taken

\* taken, as a function of the first n lines
IsTaken(taken, lines, n) ==
  taken = [i \in 0..n |-> IF i = 0 THEN {} ELSE TakeLine(lines, taken[i - 1], i)]

LEMMA TakenExists ==
  ASSUME NEW lines, NEW n \in Nat
  PROVE  \E taken : IsTaken(taken, lines, n)
<1> DEFINE Bad == {m \in Nat : ~ \E taken : IsTaken(taken, lines, m)}
<1>1. SUFFICES ASSUME Bad # {} PROVE FALSE
  OBVIOUS
<1>2. PICK m \in Bad : \A k \in Bad : m <= k
  <2> HIDE DEF Bad
  <2>1. Bad \subseteq Nat
    BY DEF Bad
  <2>2. QED
    BY <1>1, <2>1, LeastNumber
<1>3. m \in Nat /\ ~ \E taken : IsTaken(taken, lines, m)
  BY <1>2
<1>4. CASE m = 0
  <2> DEFINE f == [i \in 0..0 |-> {}]
  <2>1. f = [i \in 0..0 |-> IF i = 0 THEN {} ELSE TakeLine(lines, f[i - 1], i)]
    OBVIOUS
  <2>2. QED
    BY <1>3, <1>4, <2>1 DEF IsTaken
<1>5. CASE m # 0
  <2>1. m - 1 \in Nat /\ m - 1 \notin Bad
    BY <1>2, <1>3, <1>5
  <2>2. PICK f : IsTaken(f, lines, m - 1)
    BY <2>1
  <2> DEFINE g == [i \in 0..m |-> IF i = m THEN TakeLine(lines, f[m - 1], m) ELSE f[i]]
  <2>3. ASSUME NEW i \in 0..m
        PROVE  g[i] = IF i = 0 THEN {} ELSE TakeLine(lines, g[i - 1], i)
    <3>1. CASE i = m
      <4>1. g[i] = TakeLine(lines, f[m - 1], m) /\ g[i - 1] = f[m - 1]
        BY <1>3, <1>5, <3>1
      <4>2. QED
        BY <1>5, <3>1, <4>1
    <3>2. CASE i # m
      <4>1. i \in 0..(m - 1) /\ g[i] = f[i]
        BY <1>3, <3>2
      <4>2. f[i] = IF i = 0 THEN {} ELSE TakeLine(lines, f[i - 1], i)
        BY <2>2, <4>1 DEF IsTaken
      <4>3. i # 0 => g[i - 1] = f[i - 1]
        BY <1>3, <4>1
      <4>4. QED
        BY <4>1, <4>2, <4>3
    <3>3. QED
      BY <3>1, <3>2
  <2>4. IsTaken(g, lines, m)
    <3> HIDE DEF g
    <3>1. g = [i \in 0..m |-> g[i]]
      BY DEF g
    <3>2. QED
      BY <2>3, <3>1 DEF IsTaken
  <2>5. QED
    BY <1>3, <2>4
<1>6. QED
  BY <1>4, <1>5

LEMMA TakenIs ==
  ASSUME NEW lines, Len(lines) \in Nat
  PROVE  \E taken : IsTaken(taken, lines, Len(lines)) /\ Taken(lines) = taken[Len(lines)]
<1> DEFINE taken == CHOOSE f : IsTaken(f, lines, Len(lines))
<1>1. IsTaken(taken, lines, Len(lines))
  BY TakenExists
<1>2. Taken(lines) = taken[Len(lines)]
  BY DEF Taken, IsTaken, TakeLine, Takes
<1>3. QED
  BY <1>1, <1>2

\* Only lines that name a node are taken, and no Mermaid or node id twice.
Distinct(lines, S) ==
  \A i, k \in S : lines[i].mermaid = lines[k].mermaid \/ lines[i].node = lines[k].node => i = k

LEMMA TakenFacts ==
  ASSUME NEW lines, Len(lines) \in Nat
  PROVE  Taken(lines) \subseteq 1..Len(lines) /\ Distinct(lines, Taken(lines))
<1>1. PICK taken : IsTaken(taken, lines, Len(lines)) /\ Taken(lines) = taken[Len(lines)]
  BY TakenIs
<1> DEFINE Good(m) == taken[m] \subseteq 1..m /\ Distinct(lines, taken[m])
           Bad == {m \in 0..Len(lines) : ~ Good(m)}
<1>2. SUFFICES ASSUME Bad # {} PROVE FALSE
  BY <1>1
<1>3. PICK m \in Bad : \A k \in Bad : m <= k
  <2> HIDE DEF Bad
  <2>1. Bad \subseteq Nat
    BY DEF Bad
  <2>2. QED
    BY <1>2, <2>1, LeastNumber
<1>4. m \in 0..Len(lines) /\ ~ Good(m)
  BY <1>3
<1>5. taken[m] = IF m = 0 THEN {} ELSE TakeLine(lines, taken[m - 1], m)
  BY <1>1, <1>4 DEF IsTaken
<1>6. CASE m = 0
  BY <1>4, <1>5, <1>6 DEF Distinct
<1>7. CASE m # 0
  <2>1. m - 1 \in 0..Len(lines) /\ m - 1 \notin Bad
    BY <1>3, <1>4, <1>7
  <2>2. taken[m - 1] \subseteq 1..(m - 1) /\ Distinct(lines, taken[m - 1])
    BY <2>1
  <2>3. taken[m] = TakeLine(lines, taken[m - 1], m)
    BY <1>5, <1>7
  <2>4. 1..(m - 1) \subseteq 1..m /\ m \in 1..m
    BY <1>4, <1>7
  <2>5. QED
    BY <1>4, <2>2, <2>3, <2>4 DEF TakeLine, Takes, Distinct
<1>8. QED
  BY <1>6, <1>7

(***************************************************************************)
(* The links of a page                                                     *)
(***************************************************************************)

LEMMA NavigationFacts ==
  ASSUME NEW content \in Contents, NEW links, NEW commit, NEW registry,
         NEW e \in Navigation(content, links, commit, registry)
  PROVE  /\ e.commit = commit /\ e.line \in Taken(Lines[content])
         /\ e.mermaid = Lines[content][e.line].mermaid /\ e.node = Lines[content][e.line].node
         /\ e.lifecycle = IF e.node \in DOMAIN registry THEN registry[e.node] ELSE "unknown"
         /\ \A f \in Navigation(content, links, commit, registry) : e.line = f.line => e = f
  BY DEF Navigation, SourceLine

\* A page whose map and registry are those of its commit and its head has links
\* that name their nodes.
LEMMA LinksAnswer ==
  ASSUME Inv, req # None, req.step \in {"ancestry", "diff"}, NEW head,
         Tree[req.manifest.commit] = Tree[head], NEW alignment, Answer(Page(alignment, head))
  PROVE  LinksNameTheirNode'
<1> DEFINE commit == req.manifest.commit
           content == req.view[MapRole]
           registry == SemanticNodes(req.view[NodesRole])
           nav == Navigation(content, req.links, commit, registry)
<1>1. /\ content \in Contents /\ content = Tree[commit][MapRole]
      /\ req.view[NodesRole] \in Contents /\ req.view[NodesRole] = Tree[head][NodesRole]
  BY GraphAssumption DEF Inv, ReqInv
<1>2. page'.navigation = nav /\ page'.commit = commit /\ page'.head = head
  BY <1>1 DEF Page
<1> HIDE DEF nav, content, commit
<1>3. Taken(Lines[content]) \subseteq DOMAIN Lines[content] /\ Distinct(Lines[content], Taken(Lines[content]))
  BY <1>1, TakenFacts, GraphAssumption
<1>4. registry = IF Registry[req.view[NodesRole]] # Malformed
                 THEN Registry[req.view[NodesRole]] ELSE <<>>
  BY <1>1 DEF SemanticNodes
<1>5. ASSUME NEW e \in nav
      PROVE  /\ e.commit = commit /\ e.line \in DOMAIN Lines[content]
             /\ Lines[content][e.line].mermaid = e.mermaid
             /\ Lines[content][e.line].node = e.node
             /\ e.lifecycle = IF Registry[Tree[head][NodesRole]] # Malformed
                                 /\ e.node \in DOMAIN Registry[Tree[head][NodesRole]]
                              THEN Registry[Tree[head][NodesRole]][e.node] ELSE "unknown"
  <2> HIDE DEF registry
  <2>1. /\ e.commit = commit /\ e.line \in Taken(Lines[content])
        /\ e.mermaid = Lines[content][e.line].mermaid /\ e.node = Lines[content][e.line].node
        /\ e.lifecycle = IF e.node \in DOMAIN registry THEN registry[e.node] ELSE "unknown"
    BY <1>1, NavigationFacts DEF nav
  <2>2. e.node \in DOMAIN registry <=> /\ Registry[Tree[head][NodesRole]] # Malformed
                                       /\ e.node \in DOMAIN Registry[Tree[head][NodesRole]]
    BY <1>1, <1>4
  <2>3. QED
    BY <1>1, <1>3, <1>4, <2>1, <2>2
<1>6. ASSUME NEW e \in nav, NEW f \in nav, e.mermaid = f.mermaid \/ e.node = f.node
      PROVE  e = f
  <2>1. /\ e.line \in Taken(Lines[content]) /\ f.line \in Taken(Lines[content])
        /\ e.mermaid = Lines[content][e.line].mermaid /\ e.node = Lines[content][e.line].node
        /\ f.mermaid = Lines[content][f.line].mermaid /\ f.node = Lines[content][f.line].node
        /\ e.line = f.line => e = f
    BY <1>1, NavigationFacts DEF nav
  <2>2. QED
    BY <1>3, <1>6, <2>1 DEF Distinct
<1>7. QED
  BY <1>1, <1>2, <1>5, <1>6 DEF LinksNameTheirNode

LEMMA LinksStep == Inv /\ LinksNameTheirNode /\ [Next]_vars => LinksNameTheirNode'
<1> SUFFICES ASSUME Inv, LinksNameTheirNode, [Next]_vars PROVE LinksNameTheirNode'
  OBVIOUS
<1>1. CASE page' = page \/ page' = None
  BY <1>1 DEF LinksNameTheirNode
<1>2. ASSUME NEW alignment \in {"drifted", "unverifiable"}, NEW head,
             page' = Page(alignment, head)
      PROVE  LinksNameTheirNode'
  BY <1>2, NotAligned DEF LinksNameTheirNode
<1>3. CASE ReadManifest
  <2>1. CASE \E kind : page' = EmptyPage(kind)
    BY <2>1 DEF EmptyPage, LinksNameTheirNode
  <2>2. QED
    BY <1>1, <1>3, <2>1 DEF ReadManifest
<1>4. CASE ReadGitHead
  BY <1>1, <1>2, <1>4 DEF ReadGitHead
<1>5. CASE ShowCommit
  BY <1>1, <1>2, <1>5 DEF ShowCommit
<1>6. CASE CheckAncestry
  <2>1. CASE req.head = req.manifest.commit /\ Answer(Page("exact", req.head))
    BY <1>6, <2>1, LinksAnswer DEF CheckAncestry
  <2>2. QED
    BY <1>1, <1>2, <1>6, <2>1 DEF CheckAncestry
<1>7. CASE CompareHead
  <2>1. CASE Tree[req.manifest.commit] = Tree[req.head] /\ Answer(Page("compatible", req.head))
    BY <1>7, <2>1, LinksAnswer DEF CompareHead
  <2>2. QED
    BY <1>2, <1>7, <2>1 DEF CompareHead
<1>8. CASE Request \/ World \/ ReadCanonicalHead
           \/ \E a \in Artifacts : StatArtifact(a) \/ ReadArtifact(a)
  BY <1>1, <1>8 DEF Request, World, WriteArtifact, MoveHead, WriteManifest, MainAdvances,
     ExportHead, Expire, Change, ReadCanonicalHead, StatArtifact, ReadArtifact, Found
<1>9. CASE UNCHANGED vars
  BY <1>1, <1>9 DEF vars
<1>10. QED
  BY <1>3, <1>4, <1>5, <1>6, <1>7, <1>8, <1>9 DEF Next, RequestStep

\* On a page shown as fresh every node's source link leads to the line that
\* defines this node, no node appears twice and the lifecycles are those of the
\* published head's registry, whatever the map's lines are
\* (extractMermaidNodeIdentities, buildEcosystemMapNavigation).
THEOREM LinksAreTrue == Spec => []LinksNameTheirNode
<1>1. Init => LinksNameTheirNode
  BY DEF Init, LinksNameTheirNode
<1>2. QED
  BY <1>1, LinksStep, InitInv, StepInv, PTL DEF Spec
=============================================================================
