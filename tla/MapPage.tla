------------------------------- MODULE MapPage -------------------------------
(***************************************************************************)
(* The route /ecosystem-map: one request reads the artifact manifest, the  *)
(* declared artifacts, the exported head of Systemkatalog's main and the   *)
(* Git history of the source root, one after the other, while a producer   *)
(* may replace any of them (src/src/controllers/ecosystemMap.ts,           *)
(* ecosystemMapLinks.ts, ecosystemMapNavigation.ts, src/src/server.ts).    *)
(*                                                                         *)
(* Bytes are members of Contents; equal bytes have equal digests, bytes of *)
(* different contents may have the same length (Size).  A commit is its    *)
(* Tree, what every declared path holds in it.  History is immutable: only *)
(* which commit the source root has checked out can change.                *)
(***************************************************************************)
EXTENDS Naturals, Sequences, FiniteSets

CONSTANTS
  Commits, Contents, Artifacts,
  MapRole,     \* the artifact of role canonical_ecosystem_map_mermaid
  NodesRole,   \* the artifact of role registry_nodes
  Tree,        \* Tree[c][a]: the bytes of a in commit c
  Ancestors,   \* Ancestors[c]: the commits reachable from c, c among them
  Size,        \* Size[x]: the length of the bytes x
  Lines,       \* Lines[x]: the bytes x read as Mermaid, a sequence of lines
  Registry,    \* Registry[x]: the bytes x read as the node registry
  LinkFiles,   \* what the cross-link contract may hold
  None, Absent, Malformed, MaxChanges

VARIABLES
  manifest,   \* Absent, Malformed or a manifest
  disk,       \* what lies at each declared path of the source root
  repoHead,   \* the commit checked out there; None: no Git directory
  headFile,   \* the exporter's head snapshot: Absent, Malformed or a record
  main,       \* the head of Systemkatalog's remote main
  published,  \* the heads the exporter has written, for the properties
  changes,    \* changes of the world so far
  undisturbed, \* since the request began nothing changed and no Git command failed
  req,        \* the request: None or what it has read
  page        \* the answer: None or what is rendered

world == <<manifest, disk, repoHead, headFile, main>>
vars == <<manifest, disk, repoHead, headFile, main, published, changes, undisturbed, req, page>>

Nothing == {Absent, Malformed}
Manifests == [commit : Commits, digest : [Artifacts -> Contents], old : BOOLEAN]
HeadFiles == [head : Commits \cup {None}, old : BOOLEAN]
\* what a declared path holds: bytes, nothing, or a link to somewhere else
Entries == Contents \cup {Absent, "symlink"}
\* what the inspection of one artifact has come to: its bytes if they match
Unmatched ==
  {"unread", "sized", "artifact_missing", "artifact_symlink_rejected",
   "artifact_integrity_mismatch"}
Findings == Contents \cup Unmatched
Matches(finding) == finding \in Contents
Requests ==
  [step : {"manifest", "inspect", "head", "show", "ancestry", "diff"},
   links : LinkFiles \cup {<<>>}, manifest : Manifests \cup {None},
   view : [Artifacts -> Findings],
   canonical : Commits \cup {None}, head : Commits \cup {None}]

ASSUME GraphAssumption ==
  /\ MapRole \in Artifacts /\ NodesRole \in Artifacts
  /\ Tree \in [Commits -> [Artifacts -> Contents]]
  /\ Ancestors \in [Commits -> SUBSET Commits]
  /\ \A c \in Commits : c \in Ancestors[c]
  /\ None \notin Commits
  /\ Nothing \cap (Manifests \cup HeadFiles) = {}
  /\ Contents \cap (Unmatched \cup Nothing \cup {"symlink"}) = {}
  /\ \A x \in Contents : Len(Lines[x]) \in Nat /\ DOMAIN Lines[x] = 1..Len(Lines[x])
  /\ MaxChanges \in Nat
-----------------------------------------------------------------------------
(***************************************************************************)
(* Cross-view links and the navigation of the nodes                        *)
(***************************************************************************)
\* parseContract: every mapping has a status, linked ones a target and
\* unmapped ones none, and no node is mapped twice
LinkContractValid(file) ==
  /\ file \notin Nothing
  /\ \A i \in DOMAIN file :
       (file[i].status = "linked") = (file[i].targets > 0)
  /\ \A i, j \in DOMAIN file : file[i].node = file[j].node => i = j

\* loadEcosystemCrossLinks: a contract that cannot be used yields no links
CrossLinks(file) == IF LinkContractValid(file) THEN file ELSE <<>>

\* extractMermaidNodeIdentities: the lines that define a node, in order,
\* without those that repeat a Mermaid or a node id already taken
Taken(lines) ==
  LET taken[i \in 0..Len(lines)] ==
        IF i = 0 THEN {}
        ELSE LET line == lines[i]
                 free == \A k \in taken[i - 1] :
                           lines[k].mermaid # line.mermaid /\ lines[k].node # line.node
             IN IF line.node # None /\ free THEN taken[i - 1] \cup {i} ELSE taken[i - 1]
  IN taken[Len(lines)]

\* inspectSemanticNodes: an unusable registry declares nothing
SemanticNodes(finding) ==
  IF finding \in Contents /\ Registry[finding] # Malformed
  THEN Registry[finding] ELSE <<>>

\* seeded fault: the line is counted from zero, as the array of lines is
SourceLineFromZero(i) == i - 1
\* the line a source link points at, counted from one
SourceLine(i) == i

\* buildEcosystemMapNavigation: one entry per node of the map, to its Leitstand
\* view where the contract links one, else to its line in the manifest's commit
Navigation(content, links, commit, registry) ==
  {LET line == Lines[content][i]
   IN [mermaid |-> line.mermaid, node |-> line.node, commit |-> commit,
       line |-> SourceLine(i),
       target |-> IF \E k \in DOMAIN links :
                       links[k].node = line.node /\ links[k].status = "linked"
                  THEN "leitstand" ELSE "systemkatalog",
       lifecycle |-> IF line.node \in DOMAIN registry THEN registry[line.node]
                     ELSE "unknown"] : i \in Taken(Lines[content])}
-----------------------------------------------------------------------------
(***************************************************************************)
(* The request                                                             *)
(***************************************************************************)
At(step) == req # None /\ req.step = step

\* combineFreshness
Freshness(old, alignment) ==
  CASE alignment = "drifted" -> "stale"
    [] alignment = "unverifiable" -> "unknown"
    [] OTHER -> IF old THEN "stale" ELSE "fresh"

\* the page without a usable manifest
EmptyPage(kind) ==
  [kind |-> kind, map |-> "manifest_" \o kind, navigation |-> {}, commit |-> None,
   head |-> None, alignment |-> "unverifiable", freshness |-> "unknown"]

\* the page of a request whose alignment is decided, with the navigation the
\* route builds when the bytes of the map are there
Page(alignment, head) ==
  LET map == req.view[MapRole]
  IN [kind |-> IF Matches(map) THEN "artifact" ELSE "missing",
      map |-> map,
      navigation |-> IF Matches(map)
                     THEN Navigation(map, req.links, req.manifest.commit,
                                     SemanticNodes(req.view[NodesRole]))
                     ELSE {},
      commit |-> req.manifest.commit,
      head |-> head,
      alignment |-> alignment,
      freshness |-> Freshness(req.manifest.old, alignment)]

Answer(answer) == page' = answer /\ req' = None
Goto(step) == req' = [req EXCEPT !.step = step] /\ UNCHANGED page
Elsewhere == UNCHANGED <<world, published, changes>>
Calm == UNCHANGED undisturbed
\* a Git command succeeds, or is killed by its timeout or fails otherwise
Git(ok) == undisturbed' = (undisturbed /\ ok)

\* the cross-view links come first; they cannot fail the request
Request ==
  /\ req = None
  /\ \E file \in LinkFiles :
       req' = [step |-> "manifest", links |-> CrossLinks(file), manifest |-> None,
               view |-> [a \in Artifacts |-> "unread"], canonical |-> None, head |-> None]
  /\ page' = None
  /\ undisturbed' = TRUE
  /\ UNCHANGED <<world, published, changes>>

\* seeded fault: a manifest that does not meet its contract is refused only
\* when it is absent
ReadManifestUnparsed ==
  /\ At("manifest")
  /\ Calm
  /\ IF manifest # Absent
     THEN req' = [req EXCEPT !.manifest = manifest, !.step = "inspect"] /\ UNCHANGED page
     ELSE Answer(EmptyPage("missing"))
  /\ Elsewhere

\* parseManifest accepts the contract's fields only, its artifacts in order
ReadManifest ==
  /\ At("manifest")
  /\ Calm
  /\ IF manifest \in Manifests
     THEN req' = [req EXCEPT !.manifest = manifest, !.step = "inspect"] /\ UNCHANGED page
     ELSE Answer(EmptyPage(IF manifest = Absent THEN "missing" ELSE "corrupt"))
  /\ Elsewhere

Found(a, finding) ==
  /\ Calm
  /\ req' = [req EXCEPT !.view[a] = finding]
  /\ UNCHANGED page
  /\ Elsewhere

\* inspectCurrentArtifact, all artifacts side by side: first what lies there
\* and how long it is
StatArtifact(a) ==
  /\ At("inspect") /\ req.view[a] = "unread"
  /\ Found(a, CASE disk[a] = Absent -> "artifact_missing"
                [] disk[a] = "symlink" -> "artifact_symlink_rejected"
                [] OTHER -> IF Size[disk[a]] = Size[req.manifest.digest[a]]
                            THEN "sized" ELSE "artifact_integrity_mismatch")

\* seeded fault: the bytes are trusted once the length agrees
ReadArtifactUnhashed(a) ==
  /\ At("inspect") /\ req.view[a] = "sized"
  /\ \E bytes \in IF disk[a] = "symlink" THEN Contents ELSE {disk[a]} :
       Found(a, IF bytes = Absent THEN "artifact_missing" ELSE bytes)

\* then its bytes, of whatever the path names by now, against the digest
ReadArtifact(a) ==
  /\ At("inspect") /\ req.view[a] = "sized"
  /\ \E bytes \in IF disk[a] = "symlink" THEN Contents ELSE {disk[a]} :
       Found(a, CASE bytes = Absent -> "artifact_missing"
                  [] bytes = req.manifest.digest[a] -> bytes
                  [] OTHER -> "artifact_integrity_mismatch")

\* readCanonicalHeadInspection, once every artifact is inspected
ReadCanonicalHead ==
  /\ At("inspect") /\ \A a \in Artifacts : req.view[a] \notin {"unread", "sized"}
  /\ req' = [req EXCEPT !.step = "head",
               !.canonical = IF headFile \in HeadFiles /\ ~ headFile.old
                             THEN headFile.head ELSE None]
  /\ UNCHANGED page
  /\ Elsewhere /\ Calm

\* git rev-parse HEAD in the source root.  A file that does not match is told
\* first, then a head that is not known, then one that is not the exported one.
ReadGitHead ==
  /\ At("head") /\ Elsewhere
  /\ \E ok \in BOOLEAN :
       LET head == IF ok THEN repoHead ELSE None
       IN /\ Git(ok)
          /\ CASE \E a \in Artifacts : ~ Matches(req.view[a]) -> Answer(Page("drifted", head))
               [] (\A a \in Artifacts : Matches(req.view[a])) /\ None \in {head, req.canonical}
                    -> Answer(Page("unverifiable", None))
               [] OTHER ->
                    IF req.canonical # head THEN Answer(Page("drifted", req.canonical))
                    ELSE req' = [req EXCEPT !.head = head, !.step = "show"] /\ UNCHANGED page

\* git show of every artifact in the manifest's commit; one that fails counts
\* as a mismatch
ShowCommit ==
  /\ At("show") /\ Elsewhere
  /\ \E ok \in BOOLEAN :
       /\ Git(ok)
       /\ IF ok /\ Tree[req.manifest.commit] = req.manifest.digest
          THEN Goto("ancestry") ELSE Answer(Page("drifted", req.head))

\* seeded fault: asks whether the head is an ancestor of the manifest's commit
CheckAncestrySwapped ==
  /\ At("ancestry") /\ Elsewhere
  /\ \/ Git(FALSE) /\ Answer(Page("unverifiable", req.head))
     \/ /\ Git(TRUE)
        /\ IF req.head \notin Ancestors[req.manifest.commit]
           THEN Answer(Page("drifted", req.head))
           ELSE IF req.head = req.manifest.commit
                THEN Answer(Page("exact", req.head)) ELSE Goto("diff")

\* git merge-base --is-ancestor
CheckAncestry ==
  /\ At("ancestry") /\ Elsewhere
  /\ \/ Git(FALSE) /\ Answer(Page("unverifiable", req.head))
     \/ /\ Git(TRUE)
        /\ IF req.manifest.commit \notin Ancestors[req.head]
           THEN Answer(Page("drifted", req.head))
           ELSE IF req.head = req.manifest.commit
                THEN Answer(Page("exact", req.head)) ELSE Goto("diff")

\* git diff --quiet between the manifest's commit and the head.  The count of
\* commits between them, which follows, changes nothing but a number.
CompareHead ==
  /\ At("diff") /\ Elsewhere
  /\ \/ Git(FALSE) /\ Answer(Page("unverifiable", req.head))
     \/ /\ Git(TRUE)
        /\ Answer(Page(IF Tree[req.manifest.commit] = Tree[req.head]
                       THEN "compatible" ELSE "drifted", req.head))

RequestStep ==
  \/ ReadManifest \/ ReadCanonicalHead \/ ReadGitHead
  \/ ShowCommit \/ CheckAncestry \/ CompareHead
  \/ \E a \in Artifacts : StatArtifact(a) \/ ReadArtifact(a)
-----------------------------------------------------------------------------
(***************************************************************************)
(* The world: Systemkatalog, its producer, the exporter                    *)
(***************************************************************************)
Change ==
  /\ changes < MaxChanges /\ changes' = changes + 1
  /\ undisturbed' = FALSE
  /\ UNCHANGED <<req, page>>

\* someone replaces, removes or links one file of the source root
WriteArtifact ==
  /\ Change
  /\ \E a \in Artifacts, x \in Entries : disk' = [disk EXCEPT ![a] = x]
  /\ UNCHANGED <<manifest, repoHead, headFile, main, published>>

\* the source root is moved to another commit, its files one by one before or
\* after
MoveHead ==
  /\ Change
  /\ repoHead' \in Commits
  /\ UNCHANGED <<manifest, disk, headFile, main, published>>

\* the producer binds what lies in the source root to the commit it is at,
\* committed or not
WriteManifest ==
  /\ Change
  /\ repoHead # None /\ disk \in [Artifacts -> Contents]
  /\ manifest' = [commit |-> repoHead, digest |-> disk, old |-> FALSE]
  /\ UNCHANGED <<disk, repoHead, headFile, main, published>>

MainAdvances ==
  /\ Change
  /\ main' \in {c \in Commits : main \in Ancestors[c]}
  /\ UNCHANGED <<manifest, disk, repoHead, headFile, published>>

\* the exporter asks the remote and replaces the head snapshot in one rename
ExportHead ==
  /\ Change
  /\ \/ headFile' = [head |-> main, old |-> FALSE] /\ published' = published \cup {main}
     \/ headFile' = [head |-> None, old |-> FALSE] /\ UNCHANGED published
  /\ UNCHANGED <<manifest, disk, repoHead, main>>

\* twenty minutes, or seven days, pass
Expire ==
  /\ Change
  /\ \/ headFile \in HeadFiles /\ headFile' = [headFile EXCEPT !.old = TRUE]
        /\ UNCHANGED manifest
     \/ manifest \in Manifests /\ manifest' = [manifest EXCEPT !.old = TRUE]
        /\ UNCHANGED headFile
  /\ UNCHANGED <<disk, repoHead, main, published>>

World ==
  \/ WriteArtifact \/ MoveHead \/ WriteManifest \/ MainAdvances \/ ExportHead \/ Expire

\* a source root at some commit with its files, a manifest of some commit, or
\* none that can be used, and a head snapshot of some head of main
Init ==
  /\ repoHead \in Commits \cup {None}
  /\ \E c \in Commits : disk = Tree[c] /\ (repoHead # None => c = repoHead)
  /\ \/ manifest \in Nothing
     \/ \E c \in Commits : manifest = [commit |-> c, digest |-> Tree[c], old |-> FALSE]
  /\ main \in Commits
  /\ \/ headFile \in Nothing /\ published = {}
     \/ headFile = [head |-> main, old |-> FALSE] /\ published = {main}
  /\ changes = 0 /\ undisturbed = TRUE /\ req = None /\ page = None

Next == Request \/ RequestStep \/ World

Spec == Init /\ [][Next]_vars

-----------------------------------------------------------------------------
(***************************************************************************)
(* Properties                                                              *)
(***************************************************************************)
TypeOK ==
  /\ manifest \in Manifests \cup Nothing
  /\ disk \in [Artifacts -> Entries]
  /\ repoHead \in Commits \cup {None}
  /\ headFile \in HeadFiles \cup Nothing
  /\ main \in Commits /\ published \in SUBSET Commits
  /\ changes \in 0..MaxChanges /\ undisturbed \in BOOLEAN
  /\ req \in Requests \cup {None}
  /\ req # None /\ req.step # "manifest" => req.manifest \in Manifests
  /\ page # None =>
       /\ page.kind \in {"artifact", "missing", "corrupt"}
       /\ page.alignment \in {"exact", "compatible", "drifted", "unverifiable"}
       /\ page.freshness \in {"fresh", "stale", "unknown"}

\* A map shown as fresh is the map of a head of Systemkatalog's main that the
\* exporter has published, byte for byte, although the code never reads that
\* head's tree: it only compares lengths, digests, a commit and a diff, one
\* after the other, while manifest, files, checkout and head may be replaced.
FreshIsCanonical ==
  page # None /\ page.freshness = "fresh" =>
    /\ page.head \in published
    /\ page.commit \in Ancestors[page.head]
    /\ page.map = Tree[page.head][MapRole]

\* On such a page every node's source link leads to the line of the linked
\* commit that defines this very node, no node appears twice, and its
\* lifecycle is the one the registry of the published head declares.
LinksNameTheirNode ==
  page # None /\ page.freshness = "fresh" =>
    /\ \A e \in page.navigation :
         LET lines == Lines[Tree[page.commit][MapRole]]
             registry == Registry[Tree[page.head][NodesRole]]
         IN /\ e.commit = page.commit /\ e.line \in DOMAIN lines
            /\ lines[e.line].mermaid = e.mermaid /\ lines[e.line].node = e.node
            /\ e.lifecycle = IF registry # Malformed /\ e.node \in DOMAIN registry
                             THEN registry[e.node] ELSE "unknown"
    /\ \A e, f \in page.navigation : e.mermaid = f.mermaid \/ e.node = f.node => e = f

\* No alarm over nothing: where manifest, files, checkout and exported head
\* agree, a request that nothing disturbs shows the map, and shows it as fresh.
Agreeing ==
  /\ manifest \in Manifests /\ ~ manifest.old
  /\ repoHead # None /\ disk = Tree[repoHead]
  /\ manifest.digest = disk /\ manifest.commit \in Ancestors[repoHead]
  /\ Tree[manifest.commit] = disk
  /\ headFile = [head |-> repoHead, old |-> FALSE]

NoFalseAlarm ==
  page # None /\ undisturbed /\ Agreeing =>
    page.kind = "artifact" /\ page.freshness = "fresh"
=============================================================================
