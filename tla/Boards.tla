------------------------------- MODULE Boards -------------------------------
(***************************************************************************)
(* What the dashboard (route /) and the receipt (/health) say of the       *)
(* sources, while producers replace the files and time passes: each        *)
(* request reads its files side by side, in any order, every one at a      *)
(* moment of its own; the dashboard judges each against the clock only     *)
(* after it has read it, the receipt against the time it was asked         *)
(* (src/src/controllers/, src/src/runtimeHealth.ts, src/src/server.ts).    *)
(*                                                                         *)
(* A file is what its reader can tell: absent, unreadable, or a document   *)
(* with at most one fault, the time it says it was generated, the time it  *)
(* was written and, of RepoGround, for how long it says that it holds.     *)
(***************************************************************************)
EXTENDS Integers

CONSTANTS
  Kinds,       \* the snapshots, a subset of AllKinds
  Limit,       \* Limit[k]: how old a snapshot may be and still count as fresh
  Second,      \* ticks to a second, the unit in which RepoGround's age is told
  Promises,    \* how many seconds a RepoGround index may say that it holds
  Commits,     \* heads of Systemkatalog and of the release's own branch
  Faults,      \* the faults looked at, a subset of AllFaults
  Settings,    \* the sources that change (the others stay as they are, and are
               \* not told of), whether the paths are configured, whether
               \* fixtures may replace files, and when those were generated,
               \* the commit the source root is named by and what HEAD holds:
               \* the branch, a commit, or nothing that can be read
  None, Absent, Unreadable, Junk, MaxTime, MaxChanges

AllKinds == {"bureau", "checkouts", "storage", "axis", "repo", "map", "head"}
VARIABLES
  time,
  files,      \* what lies at the path of each snapshot
  loose, packed, \* what the branch of the checkout resolves to in either place
  settings,   \* how the server was started
  changes,    \* changes of the world so far
  req,        \* the request under way
  lain,       \* <<k, entry>>: what lay at the path of k during the request
  held, lost, \* what was good, and what was not, at some moment of the request
  heads,      \* the commits HEAD led to during the request
  answer,     \* what the last request said
  refuted     \* <<k, route>>: an answer of the route did not call what lies at
              \* the path of k current

world == <<time, files, loose, packed, settings, changes>>
history == <<lain, held, lost, heads>>
vars == <<world, req, history, answer, refuted>>

Time == 0..MaxTime

\* what can be wrong with a document: no JSON, another kind, another version,
\* no list of records, a record that does not parse, none at all, or its
\* producer says that it has nothing
AllFaults == {"json", "kind", "version", "list", "record", "empty", "unavailable"}
Document == [fault : Faults \cup {None}, stamp : Time \cup {None, Junk}, written : Time,
             observed : Time, head : Commits \cup {None}, promised : Promises \cup {None}]

ASSUME BoardsAssumption ==
  /\ Kinds \subseteq AllKinds /\ {"repo", "head"} \subseteq Kinds
  /\ Limit \in [Kinds -> Nat] /\ Second \in Nat \ {0} /\ Promises \subseteq Nat \ {0}
  /\ Settings \subseteq [sources : SUBSET Kinds, configured : BOOLEAN,
                            fallback : BOOLEAN, fixture : Time,
                            release : Commits \cup {None}, head : Commits \cup {"branch", None}]
  /\ Faults \subseteq AllFaults
  /\ {"warn", "branch"} \cap Commits = {}
  /\ None \notin Commits \cup AllFaults \cup {"critical", "warning", "info", "ok"}
  /\ None \notin Promises
  /\ {None, Junk} \cap Time = {} /\ {Absent, Unreadable, None} \cap Document = {}
  /\ None \notin {Absent, Unreadable}
  /\ MaxTime \in Nat /\ MaxChanges \in Nat

\* a document of kind k written now: only the axis has sections with times of
\* their own, only the head snapshot names a commit, only RepoGround promises, and
\* only the indices that carry a status can say that there is nothing.  A faulty
\* one is recent.
Written(k) ==
  {d \in [fault : (IF k \in {"repo", "head"} THEN Faults ELSE Faults \ {"unavailable"}) \cup {None},
          stamp : 0..time \cup {None, Junk}, written : {time},
          observed : IF k = "axis" THEN 0..time ELSE {0},
          head : IF k = "head" THEN Commits ELSE {None},
          promised : IF k = "repo" THEN Promises \cup {None} ELSE {None}] :
     /\ d.fault # None => d.stamp = time
     /\ d.stamp \in Time => d.observed <= d.stamp}
Sources == settings.sources
Boards == Sources \ {"head", "map"}
\* the sources the dashboard summarises
Summarized == (Boards \ {"axis"}) \cup {"map"}
-----------------------------------------------------------------------------
(***************************************************************************)
(* The controllers                                                         *)
(***************************************************************************)
View(kind, freshness) == [kind |-> kind, freshness |-> freshness]

\* freshnessOf: an age is only known from a timestamp that parses.  A controller
\* calls it on what it has read, in the turn in which the read has ended: "time" is
\* the time of that turn.
FreshnessOf(k, stamp) ==
  IF stamp \notin Time THEN "unknown"
  ELSE IF time - stamp <= Limit[k] THEN "fresh" ELSE "stale"

\* classifyError and emptyData: only a file that is not there is missing
Failed(entry) == View(IF entry = Absent THEN "missing" ELSE "corrupt", "unknown")

\* parseSnapshot and parseTask
BureauAccepts(d) == d.fault \notin {"json", "kind", "version", "list", "record"}

\* getBureauData: a file that is missing may be replaced by the fixture, if its
\* path is not configured and the server may fall back
BureauData(entry) ==
  IF entry \in Document /\ BureauAccepts(entry)
  THEN View("artifact", FreshnessOf("bureau", entry.stamp))
  ELSE IF entry = Absent /\ ~ settings.configured /\ settings.fallback
       THEN View("fixture", FreshnessOf("bureau", settings.fixture))
       ELSE Failed(entry)

\* parseSnapshot and parseCheckout
CheckoutAccepts(d) == d.fault \notin {"json", "kind", "version", "list", "record"}

CheckoutData(entry) ==
  IF entry \in Document /\ CheckoutAccepts(entry)
  THEN View("artifact", FreshnessOf("checkouts", entry.stamp))
  ELSE IF entry = Absent /\ ~ settings.configured /\ settings.fallback
       THEN View("fixture", FreshnessOf("checkouts", settings.fixture))
       ELSE Failed(entry)

\* the values, producers, violations, blockers and notifications a record has
StorageRecords(d) == d.fault \notin {"list", "record"}

\* parseSnapshot: also refuses a timestamp that does not parse
StorageAccepts(d) ==
  d.fault \notin {"json", "kind", "version"} /\ StorageRecords(d) /\ d.stamp \in Time

StorageData(entry) ==
  IF entry \in Document /\ StorageAccepts(entry)
  THEN View("artifact", FreshnessOf("storage", entry.stamp))
  ELSE IF entry = Absent /\ ~ settings.configured /\ settings.fallback
       THEN View("fixture", FreshnessOf("storage", settings.fixture))
       ELSE Failed(entry)

\* parseBundle and parseIndex: an index without bundles is accepted
RepoAccepts(d) == d.fault \notin {"json", "kind", "version", "list", "record"}

\* getRepoBriefData: the fixture unless a path is configured; the age is told in
\* whole seconds and held against what the index itself promises, if that is a
\* whole number of seconds and the index says it is available
RepoData(entry) ==
  IF ~ settings.configured THEN View("fixture", "unknown")
  ELSE IF entry \in Document /\ RepoAccepts(entry)
       THEN View("artifact",
                 IF \/ entry.fault = "unavailable" \/ entry.stamp \notin Time
                    \/ entry.promised = None
                 THEN "unknown"
                 ELSE IF (time - entry.stamp) \div Second <= entry.promised
                      THEN "fresh" ELSE "stale")
       ELSE Failed(entry)

\* seeded fault: sections are judged by the age of the file
SectionByFile(d) == FreshnessOf("axis", d.stamp) = "fresh"
\* parseSnapshot and parseItem: a section carries its items only while it is
\* fresh itself
SectionShown(d) == FreshnessOf("axis", d.observed) = "fresh"

AxisAccepts(d) == d.fault \notin {"json", "kind", "version", "list", "record"}

\* getDecisionAxisData: the sections of a file that is not fresh are withheld;
\* there is no fixture.  "fresh" says that the items are shown.
AxisData(entry) ==
  IF entry \in Document /\ AxisAccepts(entry)
  THEN View("artifact", IF FreshnessOf("axis", entry.stamp) = "fresh" /\ SectionShown(entry)
                        THEN "fresh" ELSE "stale")
  ELSE Failed(entry)

BoardData(k, entry) ==
  CASE k = "bureau" -> BureauData(entry)
    [] k = "checkouts" -> CheckoutData(entry)
    [] k = "storage" -> StorageData(entry)
    [] k = "repo" -> RepoData(entry)
    [] k = "axis" -> AxisData(entry)

\* what the map page's data may say; MapPage has what it is worth
MapViews == {View("artifact", "fresh"), View("artifact", "stale"), View("missing", "stale"),
             View("missing", "unknown"), View("corrupt", "unknown")}

\* summarizeSource
Attention(view) ==
  IF view.kind \in {"missing", "corrupt"} THEN "critical"
  ELSE IF view.kind = "fixture" \/ view.freshness = "stale" THEN "warning"
  ELSE IF view.freshness = "unknown" THEN "info" ELSE None

\* summarizeDashboard
Summary(views) ==
  LET severities == {Attention(views[k]) : k \in Summarized}
  IN IF "critical" \in severities THEN "critical"
     ELSE IF severities = {None} THEN "healthy" ELSE "attention"
-----------------------------------------------------------------------------
(***************************************************************************)
(* The receipt                                                             *)
(***************************************************************************)
\* snapshotRecordCount and the kind: all the receipt asks of a document
ReceiptAccepts(k, d) ==
  /\ d.fault \notin {"kind", "list"}
  /\ k \in {"repo", "head"} => d.fault \notin {"unavailable", "empty"}
  /\ k = "head" => d.fault # "record"
  /\ k = "repo" => d.promised # None

\* seeded fault: the limit itself counts as stale
VerdictAtLimit(k, entry, mtime, now) ==
  IF entry \notin Document THEN "fail"
  ELSE IF entry.fault = "json" \/ ~ ReceiptAccepts(k, entry) THEN "fail"
  ELSE IF entry.stamp = Junk THEN "warn"
  ELSE IF now - (IF entry.stamp = None THEN mtime ELSE entry.stamp) < Limit[k]
       THEN "ok" ELSE "warn"

\* the end of readSnapshotHealth: the age at the time the request came, from the
\* document's timestamp or else from the file's
Verdict(k, entry, mtime, now) ==
  IF entry \notin Document THEN "fail"
  ELSE IF entry.fault = "json" \/ ~ ReceiptAccepts(k, entry) THEN "fail"
  ELSE IF entry.stamp = Junk THEN "warn"
  ELSE IF now - (IF entry.stamp = None THEN mtime ELSE entry.stamp) <= Limit[k]
       THEN "ok" ELSE "warn"

\* seeded fault: a head that cannot be read is neither right nor wrong
ConsistencyUnknown ==
  IF files["head"] \notin Document THEN "unknown"
  ELSE IF files["head"].fault = None /\ files["head"].head = settings.release THEN "ok" ELSE "fail"

\* readEcosystemMapHeadConsistency: also fails if the source root is not named by
\* a commit
Consistency ==
  IF /\ files["head"] \in Document /\ files["head"].fault = None
     /\ settings.release # None /\ files["head"].head = settings.release
  THEN "ok" ELSE "fail"

\* summarizeStatus
Status(verdicts) ==
  IF "fail" \in verdicts THEN "fail" ELSE IF "warn" \in verdicts THEN "warn" ELSE "ok"
-----------------------------------------------------------------------------
(***************************************************************************)
(* What is true of a source, for the properties                            *)
(***************************************************************************)
\* an index of RepoGround holds until the last second it promises has ended
Holds(d) == (d.promised + 1) * Second

\* a file of a board meets its contract, is recent at a given time, and so is what
\* it says
BoardGood(k, d, now) ==
  /\ d \in Document /\ d.fault \in {None, "empty"} /\ d.stamp \in Time
  /\ IF k = "repo" THEN d.promised # None /\ now - d.stamp < Holds(d)
     ELSE now - d.stamp <= Limit[k]
  /\ k = "axis" => now - d.observed <= Limit[k]

\* a file has the form the receipt asks for, and was generated, or lacking that
\* written, within the limit of a given time
ReceiptGood(k, d, now) ==
  /\ d \in Document /\ d.fault # "json" /\ ReceiptAccepts(k, d) /\ d.stamp # Junk
  /\ now - (IF d.stamp = None THEN d.written ELSE d.stamp) <= Limit[k]

\* the time a receipt bears
Asked == IF req = None THEN time ELSE req.now
FileGood(route, k, d) ==
  IF route = "dashboard" THEN BoardGood(k, d, time) ELSE ReceiptGood(k, d, Asked)

Checks == Sources \cup {"git", "consistency"}
ChecksOf(route) == IF route = "dashboard" THEN Boards ELSE Checks
\* the commit HEAD leads to
GitHead ==
  IF settings.head # "branch" THEN settings.head ELSE IF loose # None THEN loose ELSE packed
Good(route, c) ==
  CASE c = "git" -> GitHead # None
    [] c = "consistency" -> Consistency = "ok"
    [] OTHER -> FileGood(route, c, files[c])

Lying == {<<k, files[k]>> : k \in Sources}
\* what is not good, and whose file was not, if that has been replaced since
Bad(route) == {c \in ChecksOf(route) : ~ Good(route, c)}
Spoiled(route) ==
  {k \in ChecksOf(route) : \E p \in lain : p[1] = k /\ ~ FileGood(route, k, p[2])}
-----------------------------------------------------------------------------
(***************************************************************************)
(* Requests                                                                *)
(***************************************************************************)
Runs(route) == req # None /\ req.route = route
Elsewhere == UNCHANGED <<world, history, refuted>>
Found(c, result) ==
  /\ req' = [req EXCEPT !.view[c] = result]
  /\ UNCHANGED answer
  /\ Elsewhere

Request(route) ==
  /\ req = None
  /\ req' = [route |-> route, now |-> time, git |-> "loose",
             text |-> [k \in Boards |-> None], mtime |-> [k \in Sources |-> None],
             view |-> [c \in Checks \cup {"map"} |-> None]]
  /\ answer' = None
  /\ lain' = Lying
  /\ held' = {c \in ChecksOf(route) : Good(route, c)}
  /\ lost' = Bad(route)
  /\ heads' = {GitHead}
  /\ UNCHANGED <<world, refuted>>

\* getDashboardData, its six loads side by side: a file is opened and read
OpenBoard(k) ==
  /\ Runs("dashboard") /\ req.view[k] = None /\ req.text[k] = None
  /\ req' = [req EXCEPT !.text[k] = files[k]]
  /\ UNCHANGED answer
  /\ Elsewhere

\* and what was read is judged in a later turn, against the clock of that turn; a
\* fixture, which nobody replaces, is read in between
JudgeBoard(k) ==
  /\ Runs("dashboard") /\ req.text[k] # None
  /\ req' = [req EXCEPT !.view[k] = BoardData(k, req.text[k]), !.text[k] = None]
  /\ UNCHANGED answer
  /\ Elsewhere

\* the map page's data, whose many steps are MapPage's
LoadMap ==
  /\ Runs("dashboard") /\ req.view["map"] = None
  /\ \E view \in MapViews : Found("map", view)

\* an answer is given: it refutes what it does not call current and has lain
\* there throughout
Calls(route, view) == view = IF route = "dashboard" THEN View("artifact", "fresh") ELSE "ok"
Throughout(k) == \A p \in lain : p[1] = k => p[2] = files[k]
Answer(status, head) ==
  /\ answer' = [route |-> req.route, views |-> req.view, status |-> status, head |-> head]
  /\ refuted' = refuted \cup {<<k, req.route>> : k \in
                   {j \in Boards : ~ Calls(req.route, req.view[j]) /\ Throughout(j)}}
  /\ req' = None /\ lain' = {}
  /\ UNCHANGED <<world, held, lost, heads>>

Render ==
  /\ Runs("dashboard") /\ \A k \in Boards \cup {"map"} : req.view[k] # None
  /\ Answer(Summary(req.view), None)

\* readSnapshotHealth: first the file's time
StatSnapshot(k) ==
  /\ Runs("health") /\ req.view[k] = None /\ req.mtime[k] = None
  /\ IF files[k] = Absent THEN Found(k, "fail")
     ELSE /\ \E mtime \in IF files[k] = Unreadable THEN Time ELSE {files[k].written} :
               req' = [req EXCEPT !.mtime[k] = mtime]
          /\ UNCHANGED answer
          /\ Elsewhere

\* then its text
ReadSnapshot(k) ==
  /\ Runs("health") /\ req.view[k] = None /\ req.mtime[k] # None
  /\ Found(k, Verdict(k, files[k], req.mtime[k], req.now))

CheckConsistency ==
  /\ Runs("health") /\ req.view["consistency"] = None
  /\ Found("consistency", Consistency)

\* seeded fault: the packed refs are asked first
ReadPackedFirst ==
  /\ Runs("health") /\ req.view["git"] = None /\ req.git = "loose"
  /\ IF settings.head = "branch" /\ packed = None
     THEN req' = [req EXCEPT !.git = "packed"] /\ UNCHANGED answer /\ Elsewhere
     ELSE Found("git", IF settings.head = "branch" THEN packed
                       ELSE IF settings.head = None THEN "warn" ELSE settings.head)

\* readGitHealth and readGitRef: HEAD itself, then the branch's own file, then the
\* packed refs
ReadLoose ==
  /\ Runs("health") /\ req.view["git"] = None /\ req.git = "loose"
  /\ IF settings.head # "branch"
     THEN Found("git", IF settings.head = None THEN "warn" ELSE settings.head)
     ELSE IF loose # None THEN Found("git", loose)
     ELSE req' = [req EXCEPT !.git = "packed"] /\ UNCHANGED answer /\ Elsewhere

ReadPacked ==
  /\ Runs("health") /\ req.view["git"] = None /\ req.git = "packed"
  /\ Found("git", IF packed # None THEN packed ELSE "warn")

\* getRuntimeHealthData
Respond ==
  /\ Runs("health") /\ \A c \in Checks : req.view[c] # None
  /\ LET git == req.view["git"]
         verdicts == {req.view[c] : c \in Checks \ {"git"}}
                       \cup {IF git \in Commits THEN "ok" ELSE "warn"}
     IN Answer(Status(verdicts), IF git \in Commits THEN git ELSE None)
-----------------------------------------------------------------------------
(***************************************************************************)
(* Producers, Git, time                                                    *)
(***************************************************************************)
\* what lies there, and what becomes true, during a request is remembered
Remember ==
  IF req = None THEN UNCHANGED history
  ELSE /\ lain' = lain \cup Lying'
       /\ held' = held \cup {c \in ChecksOf(req.route) : Good(req.route, c)'}
       /\ lost' = lost \cup Bad(req.route)' \cup Spoiled(req.route)'
       /\ heads' = heads \cup {GitHead'}

Change ==
  /\ changes < MaxChanges /\ changes' = changes + 1
  /\ UNCHANGED <<settings, req, answer>>

\* a producer, or a damage, replaces one file by another in one rename
Replace(k) ==
  /\ Change
  /\ \E entry \in Written(k) \cup {Absent, Unreadable} : files' = [files EXCEPT ![k] = entry]
  /\ UNCHANGED <<time, loose, packed>>
  /\ refuted' = {r \in refuted : r[1] # k}
  /\ Remember

\* git pack-refs writes the packed refs, and then removes the branch's own file
\* unless that has moved on
PackRefs ==
  /\ Change
  /\ loose # None /\ packed' = loose
  /\ UNCHANGED <<time, files, loose, refuted>>
  /\ Remember

PruneRef ==
  /\ Change
  /\ loose # None /\ packed = loose /\ loose' = None
  /\ UNCHANGED <<time, files, packed, refuted>>
  /\ Remember

MoveBranch ==
  /\ Change
  /\ loose' \in Commits
  /\ UNCHANGED <<time, files, packed, refuted>>
  /\ Remember

Tick ==
  /\ time < MaxTime /\ time' = time + 1
  /\ UNCHANGED <<files, loose, packed, settings, changes, req, answer, refuted>>
  /\ Remember
-----------------------------------------------------------------------------
First(k, commit, promise) ==
  [fault |-> None, stamp |-> 0, written |-> 0, observed |-> 0,
   head |-> IF k = "head" THEN commit ELSE None,
   promised |-> IF k = "repo" THEN promise ELSE None]

Init ==
  /\ time = 0
  /\ settings \in Settings
  /\ \E commit \in Commits, promise \in IF "repo" \in Sources THEN Promises ELSE {None} :
       /\ files = [k \in Kinds |-> First(k, commit, promise)]
       /\ loose = commit
  /\ packed \in Commits \cup {None}
  /\ changes = 0
  /\ req = None /\ answer = None /\ lain = {} /\ held = {} /\ lost = {} /\ heads = {}
  /\ refuted = {}

Next ==
  \/ \E route \in {"dashboard", "health"} : Request(route)
  \/ \E k \in Boards : OpenBoard(k) \/ JudgeBoard(k)
  \/ \E k \in Sources : StatSnapshot(k) \/ ReadSnapshot(k) \/ Replace(k)
  \/ LoadMap \/ CheckConsistency \/ ReadLoose \/ ReadPacked \/ Render \/ Respond
  \/ PackRefs \/ PruneRef \/ MoveBranch \/ Tick

Spec == Init /\ [][Next]_vars
-----------------------------------------------------------------------------
(***************************************************************************)
(* Properties                                                              *)
(***************************************************************************)
Views == [kind : {"artifact", "fixture", "missing", "corrupt"},
          freshness : {"fresh", "stale", "unknown"}]
TypeOK ==
  /\ time \in Time /\ changes \in 0..MaxChanges
  /\ files \in [Kinds -> Document \cup {Absent, Unreadable}]
  /\ loose \in Commits \cup {None} /\ packed \in Commits \cup {None}
  /\ lain \subseteq Sources \X (Document \cup {Absent, Unreadable})
  /\ held \cup lost \subseteq Checks /\ heads \subseteq Commits \cup {None}
  /\ refuted \subseteq Boards \X {"dashboard", "health"}
  /\ Runs("dashboard") =>
       \A k \in Boards : /\ req.view[k] \in Views \cup {None}
                         /\ req.text[k] \in Document \cup {Absent, Unreadable, None}
  /\ Runs("health") => \A c \in Checks \ {"git"} : req.view[c] \in {"ok", "warn", "fail", None}
  /\ answer # None => answer.status \in {"healthy", "attention", "critical", "ok", "warn", "fail"}

\* The dashboard is honest about every source although it reads them at
\* different moments and judges each only after it has read it: a source it shows
\* as a fresh artifact (of the decision axis: whose items it shows) was valid and
\* recent at some moment of the request; of one it does not show so, what lay at
\* its path at some moment of the request was not, or had aged past its limit by
\* the answer, even if a fresh one had come in its place; it is stable only if
\* the first holds of every source, and alarmed only over one with the second.
ShownWasSo ==
  answer # None /\ answer.route = "dashboard" =>
    LET fresh == {k \in Boards \cup {"map"} : answer.views[k] = View("artifact", "fresh")}
        excused == IF settings.configured THEN {} ELSE {"repo"}
    IN /\ fresh \cap Boards \subseteq held
       /\ Boards \ fresh \subseteq lost \cup excused
       /\ answer.status = "healthy" => Summarized \ {"map"} \subseteq held
       /\ answer.status # "healthy" =>
            \/ Summarized \cap (lost \cup excused) # {}
            \/ "map" \notin fresh

\* The receipt likewise: "ok" means that every snapshot was of its form, and
\* recent at the time the receipt bears, the release the exported head and the
\* branch resolvable, each at some moment of the request; anything else means
\* that one of them was not.  The
\* commit it names is one the branch had meanwhile, also while Git moves the
\* branch into its packed refs.
ReceiptWasSo ==
  answer # None /\ answer.route = "health" =>
    /\ answer.status = "ok" => Checks \subseteq held
    /\ answer.status # "ok" => lost # {}
    /\ IF answer.head = None THEN "git" \in lost ELSE answer.head \in heads

\* what a board alone may call current, for what it does not look at
BoardAlone(k, d) == k = "repo" /\ (d.fault = "empty" \/ time - d.stamp > Limit[k])
\* and what the receipt may
ReceiptAlone(k, d) ==
  \/ d.fault \in {"version", "record"} \/ d.stamp = None
  \/ k = "axis" /\ time - d.observed > Limit[k]
  \/ k = "repo" /\ (settings.configured => time - d.stamp >= Holds(d))

\* What an answer has not called current stays so until it is replaced: a later
\* answer of the same route never calls it current, and one of the other route
\* only for what the two look at differently.  The dashboard may, of a RepoGround
\* index that is empty or has outlived the receipt's limit, but not its own; the
\* receipt may, of a document with a version or a record it does not look at, or
\* without a timestamp, of an axis with sections older than itself, and of a
\* RepoGround index that has outlived its own limit or whose path is not
\* configured (freshnessPolicy.ts: the two "cannot disagree").
RefutedStays ==
  answer # None =>
    \A k \in {j \in Boards : Calls(answer.route, answer.views[j])} :
      /\ <<k, answer.route>> \notin refuted
      /\ <<k, "health">> \in refuted => BoardAlone(k, files[k])
      /\ <<k, "dashboard">> \in refuted => ReceiptAlone(k, files[k])
=============================================================================
