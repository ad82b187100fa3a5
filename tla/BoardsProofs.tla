---------------------------- MODULE BoardsProofs ----------------------------
(***************************************************************************)
(* What the dashboard and the receipt say is true, for any snapshots,      *)
(* limits, settings and any number of changes during a request.            *)
(***************************************************************************)
EXTENDS Boards, TLAPS

Fresh == View("artifact", "fresh")
Excused == IF settings.configured THEN {} ELSE {"repo"}
Entries == Document \cup {Absent, Unreadable}
Results == Views \cup {"ok", "warn", "fail", None} \cup Commits

WorldType ==
  /\ time \in Time /\ changes \in 0..MaxChanges /\ settings \in Settings
  /\ files \in [Kinds -> Entries]
  /\ loose \in Commits \cup {None} /\ packed \in Commits \cup {None}
HistoryType ==
  /\ lain \subseteq Sources \X Entries /\ held \cup lost \subseteq Checks
  /\ heads \subseteq Commits \cup {None} /\ refuted \subseteq Boards \X {"dashboard", "health"}
RequestShape ==
  [route : {"dashboard", "health"}, now : Time, git : {"loose", "packed"},
   text : [Boards -> Entries \cup {None}], mtime : [Sources -> Time \cup {None}],
   view : [Checks \cup {"map"} -> Results]]
RequestType == req # None => req \in RequestShape /\ req.now <= time

\* No document is of later than it was written, and only the indices that carry a
\* status say that they have nothing.
Sound(k, d) ==
  d \in Document =>
    /\ d.written <= time
    /\ d.stamp \in Time => d.stamp <= d.written
    /\ k \notin {"repo", "head"} => d.fault # "unavailable"
FileInv == (\A k \in Kinds : Sound(k, files[k])) /\ (\A p \in lain : Sound(p[1], p[2]))

\* What is so now, and what was so of a file that lay there while the request ran,
\* is remembered.
KnownInv ==
  req # None =>
    /\ Lying \subseteq lain
    /\ \A p \in lain : p[1] \in ChecksOf(req.route) =>
         /\ FileGood(req.route, p[1], p[2]) => p[1] \in held
         /\ ~ FileGood(req.route, p[1], p[2]) => p[1] \in lost
    /\ \A c \in {"git", "consistency"} \cap ChecksOf(req.route) :
         /\ Good(req.route, c) => c \in held
         /\ ~ Good(req.route, c) => c \in lost
    /\ GitHead \in heads

\* What was refuted has lain there since, and is as bad as it was then.
RefutedInv ==
  \A k \in Boards :
    /\ <<k, "dashboard">> \in refuted =>
         Throughout(k) /\ (~ BoardGood(k, files[k], Asked) \/ k \in Excused)
    /\ <<k, "health">> \in refuted => Throughout(k) /\ ~ ReceiptGood(k, files[k], Asked)

\* Something that lay there during the request was not good, then or later.
NotThen(route, k) == \E p \in lain : p[1] = k /\ ~ FileGood(route, k, p[2])

\* A route that calls a source current has not refuted it, nor has the other but
\* for what it alone looks at.
Told(route, k) ==
  /\ <<k, route>> \notin refuted
  /\ <<k, "health">> \in refuted \/ <<k, "dashboard">> \in refuted =>
       /\ files[k] \in Document /\ files[k].stamp # Junk
       /\ k = "repo" => files[k].promised # None
  /\ <<k, "health">> \in refuted => files[k].stamp # None /\ BoardAlone(k, files[k])
  /\ <<k, "dashboard">> \in refuted => ReceiptAlone(k, files[k])

\* A view of the dashboard was so, or was not.
BoardInv ==
  Runs("dashboard") =>
    /\ \A k \in Boards : req.text[k] # None => <<k, req.text[k]>> \in lain
    /\ \A k \in Boards : req.view[k] # None =>
         /\ req.view[k] \in Views
         /\ req.view[k] = Fresh => k \in held /\ Told("dashboard", k)
         /\ req.view[k] # Fresh => NotThen("dashboard", k) \/ k \in Excused
    /\ req.view["map"] # None => req.view["map"] \in Views

\* So was a verdict of the receipt.
VerdictInv ==
  Runs("health") =>
    /\ \A c \in Checks \ {"git"} : req.view[c] # None =>
         /\ req.view[c] \in {"ok", "warn", "fail"}
         /\ req.view[c] = "ok" => c \in held
         /\ req.view[c] # "ok" => c \in lost
    /\ \A k \in Sources : req.view[k] \notin {None, "ok"} => NotThen("health", k)
    /\ \A k \in Boards : req.view[k] = "ok" => Told("health", k)

\* The file's time, taken before its text: a file that has since come in its
\* place is younger than the request.
MtimeInv ==
  Runs("health") =>
    \A k \in Sources : req.mtime[k] # None =>
      /\ NotThen("health", k) \/ req.now - req.mtime[k] <= Limit[k]
      /\ files[k] \in Document =>
           req.mtime[k] = files[k].written \/ req.now <= files[k].written

\* The branch's own file, looked at before the packed refs: once it was gone the
\* branch was packed, and what is packed from then on the branch has had.
GitInv ==
  Runs("health") =>
    /\ req.view["git"] # None =>
         /\ req.view["git"] \in Commits \cup {"warn"}
         /\ req.view["git"] = "warn" => "git" \in lost
         /\ req.view["git"] # "warn" => "git" \in held /\ req.view["git"] \in heads
    /\ req.git = "packed" =>
         /\ settings.head = "branch"
         /\ IF packed = None THEN "git" \in lost ELSE packed \in heads

AnswerInv ==
  answer # None =>
    /\ answer.status \in {"healthy", "attention", "critical", "ok", "warn", "fail"}
    /\ \A k \in Boards : Calls(answer.route, answer.views[k]) => Told(answer.route, k)

Running == BoardInv /\ VerdictInv /\ MtimeInv /\ GitInv
Inv ==
  /\ WorldType /\ HistoryType /\ RequestType /\ FileInv /\ KnownInv /\ RefutedInv
  /\ Running /\ AnswerInv /\ ShownWasSo /\ ReceiptWasSo
-----------------------------------------------------------------------------
(* Constants and documents *)

LEMMA ConstantFacts ==
  /\ Time \subseteq Nat /\ None \notin Time /\ Junk \notin Time
  /\ Absent \notin Document /\ Unreadable \notin Document /\ None \notin Entries
  /\ "git" \notin Kinds /\ "consistency" \notin Kinds
  /\ "repo" \in Kinds /\ "head" \in Kinds
  /\ None \notin AllFaults /\ None \notin Commits /\ "warn" \notin Commits /\ "branch" \notin Commits
  BY BoardsAssumption DEF Time, AllKinds, Entries

LEMMA DocumentFacts ==
  ASSUME NEW d \in Document
  PROVE  /\ d.fault \in AllFaults \cup {None} /\ d.stamp \in Time \cup {None, Junk}
         /\ d.written \in Nat /\ d.observed \in Nat /\ d.head \in Commits \cup {None}
         /\ d.stamp \in Time => d.stamp \in Nat
         /\ d.promised \in Promises \cup {None}
         /\ d.promised # None => d.promised \in Nat /\ Holds(d) \in Nat
<1>1. /\ d.fault \in AllFaults \cup {None} /\ d.stamp \in Time \cup {None, Junk}
      /\ d.written \in Nat /\ d.observed \in Nat /\ d.head \in Commits \cup {None}
      /\ d.stamp \in Time => d.stamp \in Nat
      /\ d.promised \in Promises \cup {None}
  BY ConstantFacts, BoardsAssumption DEF Document
<1>2. Promises \subseteq Nat /\ Second \in Nat
  BY BoardsAssumption
<1>3. \A a \in Nat, b \in Nat : (a + 1) * b \in Nat
  OBVIOUS
<1>4. QED
  BY <1>1, <1>2, <1>3 DEF Holds

LEMMA SourceFacts ==
  ASSUME WorldType
  PROVE  /\ Sources \subseteq Kinds /\ Boards \subseteq Sources /\ Boards \subseteq Checks
         /\ Boards \subseteq {"bureau", "checkouts", "storage", "axis", "repo"}
         /\ settings.configured \in BOOLEAN /\ settings.fixture \in Time
         /\ settings.head \in Commits \cup {"branch", None}
         /\ "map" \notin Boards /\ "git" \notin Sources /\ "consistency" \notin Sources
<1>1. /\ settings.sources \subseteq Kinds /\ settings.configured \in BOOLEAN
      /\ settings.fixture \in Time /\ settings.head \in Commits \cup {"branch", None}
  BY BoardsAssumption DEF WorldType
<1>2. Kinds \subseteq {"bureau", "checkouts", "storage", "axis", "repo", "map", "head"}
  BY BoardsAssumption DEF AllKinds
<1>3. QED
  BY <1>1, <1>2 DEF Sources, Boards, Checks

LEMMA FileFacts ==
  ASSUME WorldType, NEW k \in Kinds
  PROVE  files[k] \in Document \/ (files[k] \in {Absent, Unreadable} /\ files[k] \notin Document)
  BY ConstantFacts DEF WorldType, Entries

\* The time of the request under way, or else the time, is not ahead.
LEMMA AskedFacts ==
  ASSUME WorldType, RequestType
  PROVE  Asked \in Nat /\ time \in Nat /\ Asked <= time
<1>1. time \in Nat
  BY ConstantFacts DEF WorldType
<1>2. req # None => req.now \in Time /\ req.now <= time
  BY DEF RequestType, RequestShape
<1>3. CASE req = None
  BY <1>1, <1>3 DEF Asked
<1>4. CASE req # None
  <2>1. req.now \in Nat
    BY <1>2, <1>4, ConstantFacts
  <2>2. QED
    BY <1>1, <1>2, <1>4, <2>1 DEF Asked
<1>5. QED
  BY <1>3, <1>4

\* Ages told in whole units and held against a whole number of them.
LEMMA WholeUnits ==
  ASSUME NEW a \in Nat, NEW p \in Nat, NEW s \in Nat \ {0}
  PROVE  (a \div s <= p) <=> (a < (p + 1) * s)
<1> DEFINE q == a \div s
<1>1. /\ q \in Int /\ a % s \in 0..(s - 1) /\ a = (s * q) + (a % s)
  OBVIOUS
<1>2. (p + 1) * s = s * (p + 1) /\ s * (p + 1) \in Nat /\ s * (q + 1) = s * q + s
  BY <1>1
<1>3. CASE q <= p
  <2>1. s * (q + 1) <= s * (p + 1)
    BY <1>1, <1>3
  <2>2. QED
    BY <1>1, <1>2, <1>3, <2>1
<1>4. CASE q >= p + 1
  <2>1. s * q >= s * (p + 1)
    BY <1>1, <1>4
  <2>2. QED
    BY <1>1, <1>2, <1>4, <2>1
<1>5. QED
  BY <1>1, <1>3, <1>4

\* What is good is so at every earlier time.
LEMMA Earlier ==
  ASSUME NEW k \in Kinds, NEW d, NEW now \in Nat, NEW later \in Nat, now <= later
  PROVE  /\ BoardGood(k, d, later) => BoardGood(k, d, now)
         /\ ReceiptGood(k, d, later) => ReceiptGood(k, d, now)
<1>1. Limit[k] \in Nat
  BY BoardsAssumption
<1>2. d \in Document =>
        /\ d.written \in Nat /\ d.observed \in Nat /\ d.stamp \in Time \cup {None, Junk}
        /\ d.stamp \in Time => d.stamp \in Nat
        /\ d.promised # None => Holds(d) \in Nat
  BY DocumentFacts
<1>3. BoardGood(k, d, later) => BoardGood(k, d, now)
  BY <1>1, <1>2 DEF BoardGood
<1>4. ReceiptGood(k, d, later) => ReceiptGood(k, d, now)
  BY <1>1, <1>2 DEF ReceiptGood
<1>5. QED
  BY <1>3, <1>4

\* A board and the receipt, judging one document at one time, differ only where
\* they look at different things.
LEMMA Agree ==
  ASSUME WorldType, NEW k \in Boards, NEW d, Sound(k, d), NEW now \in Nat, now <= time
  PROVE  /\ BoardGood(k, d, now) /\ ~ ReceiptGood(k, d, now) =>
              d \in Document /\ d.stamp \in Time /\ BoardAlone(k, d)
         /\ ReceiptGood(k, d, now) /\ ~ BoardGood(k, d, now) =>
              d \in Document /\ d.stamp # Junk /\ ReceiptAlone(k, d)
<1>1. /\ k \in Kinds /\ k # "head" /\ time \in Nat /\ Limit[k] \in Nat
  BY SourceFacts, ConstantFacts, BoardsAssumption DEF WorldType
<1>2. d \in Document =>
        /\ d.fault \in AllFaults \cup {None} /\ None \notin AllFaults
        /\ d.stamp \in Time => d.stamp \in Nat
        /\ d.stamp \in Time \cup {None, Junk} /\ None \notin Time /\ Junk \notin Time
        /\ d.observed \in Nat
        /\ d.promised # None => Holds(d) \in Nat
        /\ k # "repo" => d.fault # "unavailable"
  BY <1>1, DocumentFacts, ConstantFacts DEF Sound
<1>3. BoardGood(k, d, now) /\ ~ ReceiptGood(k, d, now) =>
        d \in Document /\ d.stamp \in Time /\ BoardAlone(k, d)
  BY <1>1, <1>2 DEF BoardGood, ReceiptGood, ReceiptAccepts, BoardAlone, AllFaults
<1>4. ReceiptGood(k, d, now) /\ ~ BoardGood(k, d, now) =>
        d \in Document /\ d.stamp # Junk /\ ReceiptAlone(k, d)
  BY <1>1, <1>2 DEF BoardGood, ReceiptGood, ReceiptAccepts, ReceiptAlone, AllFaults
<1>5. QED
  BY <1>3, <1>4
-----------------------------------------------------------------------------
(* The controllers *)

LEMMA ViewFacts ==
  /\ \A a \in {"artifact", "fixture", "missing", "corrupt"}, b \in {"fresh", "stale", "unknown"} :
       View(a, b) \in Views /\ (View(a, b) = Fresh <=> a = "artifact" /\ b = "fresh")
  /\ \A entry : Failed(entry) \in Views /\ Failed(entry) # Fresh
  BY DEF View, Views, Fresh, Failed

LEMMA FreshnessFacts ==
  ASSUME WorldType, NEW k \in Kinds, NEW stamp
  PROVE  /\ FreshnessOf(k, stamp) \in {"fresh", "stale", "unknown"}
         /\ FreshnessOf(k, stamp) = "fresh" <=> stamp \in Time /\ time - stamp <= Limit[k]
  BY DEF FreshnessOf

\* What a controller shows as a fresh artifact is one, and what it does not show
\* so is none, but for RepoGround without a path.
LEMMA BoardTold ==
  ASSUME WorldType, NEW k \in Boards, NEW d, Sound(k, d)
  PROVE  /\ BoardData(k, d) \in Views
         /\ BoardData(k, d) = Fresh => BoardGood(k, d, time) /\ k \notin Excused
         /\ BoardData(k, d) # Fresh => ~ BoardGood(k, d, time) \/ k \in Excused
<1>1. /\ k \in Kinds /\ k \in {"bureau", "checkouts", "storage", "axis", "repo"}
  BY SourceFacts
<1>2. d \in Document =>
        /\ d.fault \in AllFaults \cup {None} /\ None \notin AllFaults
        /\ k # "repo" => d.fault # "unavailable"
        /\ d.stamp \in Time => d.stamp \in Nat /\ d.stamp <= time
        /\ d.observed \in Time
  <2>1. ASSUME d \in Document PROVE d.observed \in Time
    BY <2>1 DEF Document
  <2>2. ASSUME d \in Document, d.stamp \in Time
        PROVE  d.stamp \in Nat /\ d.stamp <= time
    <3>1. time \in Nat
      BY ConstantFacts DEF WorldType
    <3>2. d.written \in Nat /\ d.stamp \in Nat
      BY <2>2, DocumentFacts
    <3>3. QED
      BY <1>1, <2>2, <3>1, <3>2 DEF Sound
  <2>3. QED
    BY <1>1, <2>1, <2>2, DocumentFacts, ConstantFacts DEF Sound
<1>3. /\ FreshnessOf(k, d.stamp) \in {"fresh", "stale", "unknown"}
      /\ FreshnessOf(k, settings.fixture) \in {"fresh", "stale", "unknown"}
      /\ FreshnessOf(k, d.stamp) = "fresh" <=>
           d.stamp \in Time /\ time - d.stamp <= Limit[k]
      /\ FreshnessOf(k, d.observed) = "fresh" <=>
           d.observed \in Time /\ time - d.observed <= Limit[k]
  BY <1>1, FreshnessFacts
<1>4. /\ Failed(d) \in Views /\ Failed(d) # Fresh
      /\ \A b \in {"fresh", "stale", "unknown"} :
           /\ View("fixture", b) \in Views /\ View("fixture", b) # Fresh
           /\ View("artifact", b) \in Views
           /\ View("artifact", b) = Fresh <=> b = "fresh"
  BY ViewFacts
<1>5. d = Absent => d \notin Document
  BY ConstantFacts
<1>6. CASE k = "bureau"
  <2>1. BoardData(k, d) = BureauData(d)
    BY <1>6 DEF BoardData
  <2>2. QED
    BY <1>2, <1>3, <1>4, <1>5, <1>6, <2>1 DEF BureauData, BureauAccepts, BoardGood, AllFaults, Excused
<1>7. CASE k = "checkouts"
  <2>1. BoardData(k, d) = CheckoutData(d)
    BY <1>7 DEF BoardData
  <2>2. QED
    BY <1>2, <1>3, <1>4, <1>5, <1>7, <2>1 DEF CheckoutData, CheckoutAccepts, BoardGood, AllFaults, Excused
<1>8. CASE k = "storage"
  <2>1. BoardData(k, d) = StorageData(d)
    BY <1>8 DEF BoardData
  <2>2. QED
    BY <1>2, <1>3, <1>4, <1>5, <1>8, <2>1
       DEF StorageData, StorageAccepts, StorageRecords, BoardGood, AllFaults, Excused
<1>9. CASE k = "axis"
  <2>1. BoardData(k, d) = AxisData(d)
    BY <1>9 DEF BoardData
  <2>2. QED
    BY <1>2, <1>3, <1>4, <1>9, <2>1 DEF AxisData, AxisAccepts, SectionShown, BoardGood, AllFaults, Excused
<1>10. CASE k = "repo"
  <2>1. BoardData(k, d) = RepoData(d)
    BY <1>10 DEF BoardData
  <2>2. ASSUME d \in Document, d.stamp \in Time, d.promised # None
        PROVE  (time - d.stamp) \div Second <= d.promised <=> time - d.stamp < Holds(d)
    <3>1. time - d.stamp \in Nat /\ d.promised \in Nat
      BY <1>2, <2>2, DocumentFacts, ConstantFacts DEF WorldType
    <3>2. QED
      BY <3>1, WholeUnits, BoardsAssumption DEF Holds
  <2>4. settings.configured <=> k \notin Excused
    BY <1>10, SourceFacts DEF Excused
  <2>5. QED
    BY <1>2, <1>3, <1>4, <1>10, <2>1, <2>2, <2>4
       DEF RepoData, RepoAccepts, BoardGood, AllFaults, Excused
<1>11. QED
  BY <1>1, <1>6, <1>7, <1>8, <1>9, <1>10
-----------------------------------------------------------------------------
(* The first state *)

LEMMA InitInv == Init => Inv
<1> SUFFICES ASSUME Init PROVE Inv
  OBVIOUS
<1>1. PICK commit \in Commits, promise \in Promises \cup {None} :
        files = [k \in Kinds |-> First(k, commit, promise)] /\ loose = commit
  BY DEF Init
<1>2. 0 \in Time
  BY BoardsAssumption DEF Time
<1>3. ASSUME NEW k \in Kinds PROVE First(k, commit, promise) \in Document
  BY <1>2 DEF First, Document
<1>4. WorldType
  BY <1>1, <1>2, <1>3, BoardsAssumption DEF Init, WorldType, Entries
<1>5. FileInv
  <2>1. ASSUME NEW k \in Kinds PROVE Sound(k, files[k])
    <3>1. files[k].fault = None /\ files[k].stamp = 0 /\ files[k].written = 0 /\ time = 0
      BY <1>1 DEF Init, First
    <3>2. QED
      BY <3>1, ConstantFacts DEF Sound, AllFaults
  <2>2. QED
    BY <2>1 DEF FileInv, Init
<1>6. /\ req = None /\ answer = None /\ lain = {} /\ held = {} /\ lost = {} /\ heads = {} /\ refuted = {}
  BY DEF Init
<1>7. HistoryType /\ RequestType /\ KnownInv /\ RefutedInv /\ Running
  BY <1>6 DEF HistoryType, RequestType, KnownInv, RefutedInv, Running, BoardInv, VerdictInv, MtimeInv,
    GitInv, Runs
<1>8. AnswerInv /\ ShownWasSo /\ ReceiptWasSo
  BY <1>6 DEF AnswerInv, ShownWasSo, ReceiptWasSo
<1>9. QED
  BY <1>4, <1>5, <1>7, <1>8 DEF Inv
-----------------------------------------------------------------------------
(* The world changes *)

WorldStep == (\E k \in Sources : Replace(k)) \/ PackRefs \/ PruneRef \/ MoveBranch \/ Tick

\* A file that is put in place, and what a change of the world leaves alone.
LEMMA WorldTypeStep ==
  ASSUME Inv, WorldStep
  PROVE  /\ WorldType' /\ time <= time' /\ time \in Nat /\ time' \in Nat
         /\ UNCHANGED <<settings, req, answer>> /\ Remember
         /\ \A k \in Kinds : Sound(k, files[k])'
         /\ \A k \in Kinds : files'[k] = files[k] \/ (files'[k] \in Document => files'[k].written = time)
         /\ refuted' \subseteq refuted
         /\ \A k \in Kinds : \A route : <<k, route>> \in refuted' => files'[k] = files[k]
<1>0. /\ WorldType /\ FileInv /\ time \in Nat /\ MaxTime \in Nat
  BY ConstantFacts, BoardsAssumption DEF Inv, WorldType
<1>1. ASSUME NEW j \in Sources, Replace(j) PROVE
         /\ WorldType' /\ time <= time' /\ time' \in Nat
         /\ UNCHANGED <<settings, req, answer>> /\ Remember
         /\ \A k \in Kinds : Sound(k, files[k])'
         /\ \A k \in Kinds : files'[k] = files[k] \/ (files'[k] \in Document => files'[k].written = time)
         /\ refuted' \subseteq refuted
         /\ \A k \in Kinds : \A route : <<k, route>> \in refuted' => files'[k] = files[k]
  <2>1. j \in Kinds
    BY <1>0, SourceFacts
  <2>2. PICK entry \in Written(j) \cup {Absent, Unreadable} : files' = [files EXCEPT ![j] = entry]
    BY <1>1 DEF Replace
  <2>3. /\ UNCHANGED <<time, loose, packed, settings, req, answer>> /\ changes' \in 0..MaxChanges
        /\ refuted' = {r \in refuted : r[1] # j} /\ Remember
    BY <1>0, <1>1, BoardsAssumption DEF Replace, Change, WorldType
  <2>4. entry \in Written(j) =>
          /\ entry \in Document /\ entry.written = time
          /\ entry.stamp \in Time => entry.stamp <= time
          /\ j \notin {"repo", "head"} => entry.fault # "unavailable"
    <3> SUFFICES ASSUME entry \in Written(j)
                 PROVE  /\ entry \in Document /\ entry.written = time
                        /\ entry.stamp \in Time => entry.stamp <= time
                        /\ j \notin {"repo", "head"} => entry.fault # "unavailable"
      OBVIOUS
    <3>1. entry \in [fault : (IF j \in {"repo", "head"} THEN Faults ELSE Faults \ {"unavailable"})
                               \cup {None},
                     stamp : 0..time \cup {None, Junk}, written : {time},
                     observed : IF j = "axis" THEN 0..time ELSE {0},
                     head : IF j = "head" THEN Commits ELSE {None},
                     promised : IF j = "repo" THEN Promises \cup {None} ELSE {None}]
      BY DEF Written
    <3>2. entry.stamp \in 0..time \cup {None, Junk} /\ entry.written = time
      BY <3>1
    <3>3. 0..time \subseteq Time /\ time \in Time /\ 0 \in Time
      BY <1>0 DEF WorldType, Time
    <3>4. entry \in Document
      BY <3>1, <3>3, BoardsAssumption DEF Document
    <3>5. j \notin {"repo", "head"} => entry.fault # "unavailable"
      BY <3>1, ConstantFacts DEF AllFaults
    <3>6. QED
      BY <3>2, <3>4, <3>5, ConstantFacts
  <2>5. WorldType'
    BY <1>0, <2>1, <2>2, <2>3, <2>4 DEF WorldType, Entries
  <2>6. \A k \in Kinds : /\ k = j => files'[k] = entry
                         /\ k # j => files'[k] = files[k]
    BY <1>0, <2>2 DEF WorldType
  <2>7. ASSUME NEW k \in Kinds PROVE Sound(k, files[k])'
    <3>1. CASE k = j
      <4>1. files'[k] \in Document => entry \in Written(j) /\ files'[k] = entry
        BY <2>2, <2>6, <3>1, ConstantFacts
      <4>2. QED
        BY <1>0, <2>3, <2>4, <3>1, <4>1 DEF Sound
    <3>2. CASE k # j
      BY <1>0, <2>3, <2>6, <3>2 DEF FileInv, Sound
    <3>3. QED
      BY <3>1, <3>2
  <2>8. ASSUME NEW k \in Kinds, NEW route, <<k, route>> \in refuted' PROVE files'[k] = files[k]
    BY <2>3, <2>6, <2>8
  <2>9. \A k \in Kinds : files'[k] = files[k] \/ (files'[k] \in Document => files'[k].written = time)
    <3>1. entry \in Document => entry \in Written(j)
      BY <2>2, ConstantFacts
    <3>2. QED
      BY <2>4, <2>6, <3>1
  <2>10. QED
    BY <1>0, <2>3, <2>5, <2>7, <2>8, <2>9
<1>2. CASE PackRefs \/ PruneRef \/ MoveBranch
  <2>1. /\ UNCHANGED <<time, files, settings, req, answer, refuted>> /\ Remember
        /\ changes' \in 0..MaxChanges
        /\ loose' \in Commits \cup {None} /\ packed' \in Commits \cup {None}
    BY <1>0, <1>2, BoardsAssumption DEF PackRefs, PruneRef, MoveBranch, Change, WorldType
  <2>2. QED
    BY <1>0, <2>1 DEF WorldType, FileInv, Sound
<1>3. CASE Tick
  <2>1. /\ time' = time + 1 /\ time' \in Time /\ Remember
        /\ UNCHANGED <<files, loose, packed, settings, changes, req, answer, refuted>>
    BY <1>0, <1>3 DEF Tick, Time
  <2>2. WorldType'
    BY <1>0, <2>1 DEF WorldType
  <2>3. \A k \in Kinds : files[k] \in Document => files[k].written \in Nat
    BY DocumentFacts
  <2>4. \A k \in Kinds : Sound(k, files[k])'
    BY <1>0, <2>1, <2>3 DEF FileInv, Sound
  <2>5. QED
    BY <1>0, <2>1, <2>2, <2>4
<1>4. QED
  BY <1>0, <1>1, <1>2, <1>3 DEF WorldStep

\* What is good or not after the change is remembered.
LEMMA Remembered ==
  ASSUME Inv, WorldStep, req # None
  PROVE  /\ KnownInv' /\ HistoryType'
         /\ lain \subseteq lain' /\ held \subseteq held' /\ lost \subseteq lost' /\ heads \subseteq heads'
         /\ lain' = lain \cup Lying'
<1>1. /\ WorldType /\ WorldType' /\ time <= time' /\ time \in Nat /\ time' \in Nat
      /\ UNCHANGED <<settings, req>> /\ Remember /\ refuted' \subseteq refuted
  BY WorldTypeStep DEF Inv
<1>2. UNCHANGED <<Sources, Boards, Checks, ChecksOf(req.route), Asked>>
  <2>1. UNCHANGED <<Sources, Boards, Checks>>
    BY <1>1 DEF Sources, Boards, Checks
  <2>2. QED
    BY <1>1, <2>1 DEF ChecksOf, Asked
<1>3. /\ ChecksOf(req.route) \subseteq Checks
      /\ \A c \in ChecksOf(req.route) : c \notin {"git", "consistency"} => c \in Sources
  BY <1>1, SourceFacts DEF ChecksOf, Checks
<1>4. /\ lain' = lain \cup Lying'
      /\ held' = held \cup {c \in ChecksOf(req.route) : Good(req.route, c)'}
      /\ lost' = lost \cup Bad(req.route)' \cup Spoiled(req.route)'
      /\ heads' = heads \cup {GitHead'}
  BY <1>1 DEF Remember
<1>5. ASSUME NEW k \in Kinds, NEW d PROVE FileGood(req.route, k, d)' => FileGood(req.route, k, d)
  <2>1. Asked \in Nat
    BY <1>1, AskedFacts DEF Inv
  <2>2. BoardGood(k, d, time') => BoardGood(k, d, time)
    BY <1>1, Earlier
  <2>3. BoardGood(k, d, time)' <=> BoardGood(k, d, time')
    BY DEF BoardGood, Holds
  <2>4. ReceiptGood(k, d, Asked)' <=> ReceiptGood(k, d, Asked)
    BY <1>2 DEF ReceiptGood, ReceiptAccepts
  <2>5. QED
    BY <1>1, <2>2, <2>3, <2>4 DEF FileGood
<1>6. ASSUME NEW p \in lain', p[1] \in ChecksOf(req.route), FileGood(req.route, p[1], p[2])'
      PROVE  p[1] \in held'
  <2>1. CASE p \in lain
    <3>1. p[1] \in Kinds
      BY <1>1, <2>1, SourceFacts DEF Inv, HistoryType
    <3>2. QED
      BY <1>4, <1>5, <1>6, <2>1, <3>1 DEF Inv, KnownInv
  <2>2. CASE p \in Lying'
    <3>1. PICK k \in Sources : p = <<k, files'[k]>>
      BY <1>2, <2>2 DEF Lying
    <3>2. Good(req.route, k)'
      BY <1>1, <1>6, <3>1, SourceFacts DEF Good
    <3>3. QED
      BY <1>4, <1>6, <3>1, <3>2
  <2>3. QED
    BY <1>4, <1>6, <2>1, <2>2
<1>7. ASSUME NEW p \in lain', p[1] \in ChecksOf(req.route), ~ FileGood(req.route, p[1], p[2])'
      PROVE  p[1] \in lost'
  BY <1>1, <1>2, <1>4, <1>7 DEF Spoiled
<1>8. KnownInv'
  <2>1. \A c \in ChecksOf(req.route) : /\ Good(req.route, c)' => c \in held'
                                       /\ ~ Good(req.route, c)' => c \in lost'
    BY <1>1, <1>2, <1>4 DEF Bad
  <2>2. QED
    BY <1>1, <1>2, <1>4, <1>6, <1>7, <2>1 DEF KnownInv
<1>9. HistoryType'
  <2>1. Lying' \subseteq Sources \X Entries
    BY <1>1, <1>2, SourceFacts DEF Lying, WorldType, Entries
  <2>2. GitHead' \in Commits \cup {None}
    BY <1>1, SourceFacts DEF WorldType, GitHead
  <2>3. Bad(req.route)' \subseteq Checks /\ Spoiled(req.route)' \subseteq Checks
    BY <1>1, <1>2, <1>3 DEF Bad, Spoiled
  <2>4. lain' \subseteq Sources \X Entries /\ held' \cup lost' \subseteq Checks
    BY <1>3, <1>4, <2>1, <2>3 DEF Inv, HistoryType
  <2>5. Entries' = Entries
    BY DEF Entries, Document, Time
  <2>6. heads' \subseteq Commits \cup {None}
    BY <1>4, <2>2 DEF Inv, HistoryType
  <2>7. refuted' \subseteq Boards \X {"dashboard", "health"}
    BY <1>1 DEF Inv, HistoryType
  <2>8. QED
    BY <1>2, <2>4, <2>5, <2>6, <2>7 DEF HistoryType
<1>10. QED
  BY <1>4, <1>8, <1>9

\* What a route calls current stays excused.
LEMMA ToldStays ==
  ASSUME Inv, WorldStep, NEW route, NEW k \in Boards, Told(route, k)
  PROVE  Told(route, k)'
<1>1. /\ WorldType /\ time <= time' /\ time \in Nat /\ time' \in Nat /\ UNCHANGED settings
      /\ refuted' \subseteq refuted /\ k \in Kinds /\ Limit[k] \in Nat
      /\ \A r : <<k, r>> \in refuted' => files'[k] = files[k]
  <2>1. WorldType
    BY DEF Inv
  <2>2. k \in Kinds
    BY <2>1, SourceFacts
  <2>3. QED
    BY <2>1, <2>2, WorldTypeStep, BoardsAssumption
<1> DEFINE d == files[k]
<1>2. d \in Document =>
        /\ d.observed \in Nat /\ d.stamp \in Time \cup {None, Junk}
        /\ d.stamp \in Time => d.stamp \in Nat
        /\ d.promised # None => Holds(d) \in Nat
  BY DocumentFacts
<1>3. ASSUME <<k, "health">> \in refuted' PROVE d.stamp # None /\ BoardAlone(k, d)'
  <2>1. d.stamp # None /\ BoardAlone(k, d) /\ d \in Document /\ d.stamp # Junk
    BY <1>1, <1>3 DEF Told
  <2>2. time - d.stamp > Limit[k] => time' - d.stamp > Limit[k]
    BY <1>1, <1>2, <2>1
  <2>3. QED
    BY <1>1, <1>3, <2>1, <2>2 DEF BoardAlone
<1>4. ASSUME <<k, "dashboard">> \in refuted' PROVE ReceiptAlone(k, d)'
  <2>1. ReceiptAlone(k, d) /\ d \in Document /\ d.stamp # Junk /\ (k = "repo" => d.promised # None)
    BY <1>1, <1>4 DEF Told
  <2>2. time - d.observed > Limit[k] => time' - d.observed > Limit[k]
    BY <1>1, <1>2, <2>1
  <2>3. d.stamp # None /\ k = "repo" => (time - d.stamp >= Holds(d) => time' - d.stamp >= Holds(d))
    BY <1>1, <1>2, <2>1
  <2>4. QED
    BY <1>1, <1>4, <2>1, <2>2, <2>3 DEF ReceiptAlone, Holds
<1>5. QED
  BY <1>1, <1>3, <1>4 DEF Told, BoardAlone, ReceiptAlone, Holds

\* What lay there and was not good is not good later on.
LEMMA NotThenStays ==
  ASSUME Inv, WorldStep, req # None, NEW k \in Sources, NotThen(req.route, k)
  PROVE  NotThen(req.route, k)'
<1>1. PICK p \in lain : p[1] = k /\ ~ FileGood(req.route, k, p[2])
  BY DEF NotThen
<1>2. /\ time <= time' /\ time \in Nat /\ time' \in Nat /\ UNCHANGED <<req, settings>>
      /\ lain \subseteq lain' /\ k \in Kinds
  <2>1. WorldType
    BY DEF Inv
  <2>2. QED
    BY <2>1, WorldTypeStep, Remembered, SourceFacts
<1>3. BoardGood(k, p[2], time') => BoardGood(k, p[2], time)
  BY <1>2, Earlier
<1>4. BoardGood(k, p[2], time)' <=> BoardGood(k, p[2], time')
  BY DEF BoardGood, Holds
<1>5. ReceiptGood(k, p[2], Asked)' <=> ReceiptGood(k, p[2], Asked)
  BY <1>2 DEF ReceiptGood, ReceiptAccepts, Asked
<1>6. ~ FileGood(req.route, k, p[2])'
  BY <1>1, <1>2, <1>3, <1>4, <1>5 DEF FileGood
<1>7. QED
  BY <1>1, <1>2, <1>6 DEF NotThen

\* What was refuted and has not been replaced stays so.
LEMMA RefutedStep == ASSUME Inv, WorldStep PROVE RefutedInv'
<1>1. /\ WorldType /\ WorldType' /\ time <= time' /\ time \in Nat /\ time' \in Nat
      /\ UNCHANGED <<settings, req>> /\ refuted' \subseteq refuted
      /\ \A k \in Kinds : \A route : <<k, route>> \in refuted' => files'[k] = files[k]
  BY WorldTypeStep DEF Inv
<1>2. Asked \in Nat /\ Asked' \in Nat /\ Asked <= Asked' /\ UNCHANGED <<Sources, Boards, Excused>>
  <2>1. Asked \in Nat
    BY AskedFacts DEF Inv
  <2>2. req # None => Asked' = Asked
    BY <1>1 DEF Asked
  <2>3. req = None => Asked' = time' /\ Asked = time
    BY <1>1 DEF Asked
  <2>4. UNCHANGED <<Sources, Boards, Excused>>
    BY <1>1 DEF Sources, Boards, Excused
  <2>5. QED
    BY <1>1, <2>1, <2>2, <2>3, <2>4
<1>3. req = None => UNCHANGED lain
  <2>1. Remember
    BY WorldTypeStep
  <2>2. QED
    BY <2>1 DEF Remember, history
<1>4. req # None => lain' = lain \cup Lying'
  BY Remembered
<1>5. ASSUME NEW k \in Boards, NEW route, <<k, route>> \in refuted', Throughout(k)
      PROVE  Throughout(k)'
  <2>1. k \in Kinds
    BY <1>1, SourceFacts
  <2>2. files'[k] = files[k]
    BY <1>1, <1>5, <2>1
  <2>3. ASSUME NEW p \in lain', p[1] = k PROVE p[2] = files'[k]
    <3>1. CASE p \in lain
      BY <1>5, <2>2, <2>3, <3>1 DEF Throughout
    <3>2. CASE p \in Lying'
      BY <2>3, <3>2 DEF Lying
    <3>3. QED
      BY <1>3, <1>4, <3>1, <3>2
  <2>4. QED
    BY <2>3 DEF Throughout
<1>6. ASSUME NEW k \in Boards
      PROVE  /\ <<k, "dashboard">> \in refuted' =>
                  Throughout(k)' /\ (~ BoardGood(k, files[k], Asked)' \/ k \in Excused)
             /\ <<k, "health">> \in refuted' =>
                  Throughout(k)' /\ ~ ReceiptGood(k, files[k], Asked)'
  <2>1. k \in Kinds
    BY <1>1, SourceFacts
  <2>2. /\ BoardGood(k, files[k], Asked') => BoardGood(k, files[k], Asked)
        /\ ReceiptGood(k, files[k], Asked') => ReceiptGood(k, files[k], Asked)
    BY <1>2, <2>1, Earlier
  <2>3. files'[k] = files[k] =>
          /\ BoardGood(k, files[k], Asked)' <=> BoardGood(k, files[k], Asked')
          /\ ReceiptGood(k, files[k], Asked)' <=> ReceiptGood(k, files[k], Asked')
    BY DEF BoardGood, ReceiptGood, ReceiptAccepts, Holds
  <2>4. /\ <<k, "dashboard">> \in refuted =>
             Throughout(k) /\ (~ BoardGood(k, files[k], Asked) \/ k \in Excused)
        /\ <<k, "health">> \in refuted => Throughout(k) /\ ~ ReceiptGood(k, files[k], Asked)
    BY DEF Inv, RefutedInv
  <2>5. QED
    BY <1>1, <1>5, <2>1, <2>2, <2>3, <2>4
<1>7. QED
  BY <1>2, <1>6 DEF RefutedInv

LEMMA WorldInv == ASSUME Inv, WorldStep PROVE Inv'
<1>1. /\ WorldType /\ WorldType' /\ time <= time' /\ time \in Nat /\ time' \in Nat
      /\ UNCHANGED <<settings, req, answer>> /\ Remember /\ refuted' \subseteq refuted
      /\ \A k \in Kinds : Sound(k, files[k])'
      /\ \A k \in Kinds : files'[k] = files[k] \/ (files'[k] \in Document => files'[k].written = time)
  BY WorldTypeStep DEF Inv
<1>2. UNCHANGED <<Sources, Boards, Checks, Summarized, Excused, Entries, Results, Views>>
  BY <1>1 DEF Sources, Boards, Checks, Summarized, Excused, Entries, Results, Views, Document, Time
<1>3. RefutedInv'
  BY RefutedStep
<1>4. HistoryType' /\ KnownInv' /\ lain \subseteq lain' /\ held \subseteq held' /\ lost \subseteq lost'
      /\ heads \subseteq heads' /\ (req = None => UNCHANGED lain)
      /\ (req # None => lain' = lain \cup Lying')
  <2>1. CASE req = None
    BY <1>1, <1>2, <2>1 DEF Remember, history, Inv, HistoryType, KnownInv
  <2>2. QED
    BY <2>1, Remembered
<1>5. RequestType'
  BY <1>1, <1>2 DEF Inv, RequestType, RequestShape, Time
<1>6. FileInv'
  <2>1. ASSUME NEW p \in lain PROVE Sound(p[1], p[2])'
    <3>1. Sound(p[1], p[2])
      BY DEF Inv, FileInv
    <3>2. p[2] \in Document => p[2].written \in Nat
      BY DocumentFacts
    <3>3. QED
      BY <1>1, <3>1, <3>2 DEF Sound, Document, Time
  <2>2. ASSUME NEW p \in Lying' PROVE Sound(p[1], p[2])'
    BY <1>1, <1>2, <2>2, SourceFacts DEF Lying, Sound
  <2>3. QED
    BY <1>1, <1>4, <2>1, <2>2 DEF FileInv
<1>7. ASSUME NEW route, NEW k \in Boards, Told(route, k) PROVE Told(route, k)'
  BY <1>7, ToldStays
<1>8. ASSUME req # None, NEW k \in Sources, NotThen(req.route, k) PROVE NotThen(req.route, k)'
  BY <1>8, NotThenStays
<1>9. Boards \subseteq Sources
  BY <1>1, SourceFacts
<1>10. BoardInv'
  <2> SUFFICES ASSUME Runs("dashboard") PROVE BoardInv'
    BY <1>1 DEF BoardInv, Runs
  <2>1. req # None /\ req.route = "dashboard"
    BY DEF Runs
  <2>2. BoardInv /\ Runs("dashboard")
    BY DEF Inv, Running
  <2>3. QED
    BY <1>1, <1>2, <1>4, <1>7, <1>8, <1>9, <2>1, <2>2 DEF BoardInv, Fresh, View
<1>11. VerdictInv'
  <2> SUFFICES ASSUME Runs("health") PROVE VerdictInv'
    BY <1>1 DEF VerdictInv, Runs
  <2>1. req # None /\ req.route = "health"
    BY DEF Runs
  <2>2. VerdictInv /\ Runs("health")
    BY DEF Inv, Running
  <2>3. QED
    BY <1>1, <1>2, <1>4, <1>7, <1>8, <2>1, <2>2 DEF VerdictInv
<1>12. MtimeInv'
  <2> SUFFICES ASSUME Runs("health"), NEW k \in Sources, req.mtime[k] # None
               PROVE  /\ NotThen("health", k)' \/ req.now - req.mtime[k] <= Limit[k]
                      /\ files'[k] \in Document =>
                           req.mtime[k] = files'[k].written \/ req.now <= files'[k].written
    BY <1>1, <1>2 DEF MtimeInv, Runs, Document, Time
  <2>1. /\ NotThen("health", k) \/ req.now - req.mtime[k] <= Limit[k]
        /\ files[k] \in Document =>
             req.mtime[k] = files[k].written \/ req.now <= files[k].written
    BY DEF Inv, Running, MtimeInv
  <2>2. /\ req # None /\ req.route = "health" /\ req.now <= time /\ k \in Kinds
    BY <1>1, SourceFacts DEF Runs, Inv, RequestType
  <2>3. NotThen("health", k) => NotThen("health", k)'
    BY <1>1, <1>8, <2>2
  <2>4. QED
    BY <1>1, <2>1, <2>2, <2>3
<1>13. GitInv'
  <2>1. packed' = packed \/ (packed' = loose /\ loose # None)
    BY DEF WorldStep, Replace, PackRefs, PruneRef, MoveBranch, Tick
  <2>2. req # None /\ loose # None /\ settings.head = "branch" => loose \in heads
    BY DEF Inv, KnownInv, GitHead
  <2>3. QED
    BY <1>1, <1>4, <2>1, <2>2 DEF Inv, Running, GitInv, Runs
<1>14. AnswerInv'
  BY <1>1, <1>2, <1>7 DEF Inv, AnswerInv, Calls, View
<1>15. ShownWasSo' /\ ReceiptWasSo'
  BY <1>1, <1>2, <1>4 DEF Inv, ShownWasSo, ReceiptWasSo, Excused
<1>16. QED
  BY <1>1, <1>3, <1>4, <1>5, <1>6, <1>10, <1>11, <1>12, <1>13, <1>14, <1>15 DEF Inv, Running
-----------------------------------------------------------------------------
(* A request goes on *)

\* One more result, the world and what is remembered staying as they are.
LEMMA FoundStep ==
  ASSUME Inv, req # None, NEW c \in Checks \cup {"map"}, NEW result \in Results, Found(c, result)
  PROVE  /\ req'.view[c] = result
         /\ \A e \in Checks \cup {"map"} : e # c => req'.view[e] = req.view[e]
         /\ req'.route = req.route /\ req'.now = req.now /\ req'.git = req.git
         /\ req'.mtime = req.mtime /\ req'.text = req.text
         /\ UNCHANGED <<world, history, answer, refuted>> /\ RequestType'
<1>1. /\ req' = [req EXCEPT !.view[c] = result] /\ UNCHANGED <<world, history, answer, refuted>>
  BY DEF Found, Elsewhere
<1>2. req \in RequestShape /\ req.now <= time
  BY DEF Inv, RequestType
<1>3. time' = time /\ RequestShape' = RequestShape
  BY <1>1 DEF world, RequestShape, Boards, Sources, Checks, Results, Views, Time, Entries, Document
<1>4. req' \in RequestShape /\ req'.now = req.now
  BY <1>1, <1>2 DEF RequestShape
<1>5. RequestType'
  BY <1>2, <1>3, <1>4 DEF RequestType
<1>6. QED
  BY <1>1, <1>2, <1>5 DEF RequestShape

\* What a step of a request leaves alone.
LEMMA SameWorld ==
  ASSUME Inv, req # None, UNCHANGED <<world, history, refuted>>,
         req' # None => req'.route = req.route /\ req'.now = req.now
  PROVE  /\ WorldType' /\ HistoryType' /\ FileInv' /\ KnownInv' /\ RefutedInv'
         /\ UNCHANGED <<Sources, Boards, Checks, Excused, Views, Results, Entries>>
         /\ \A route, k : Told(route, k) => Told(route, k)'
         /\ req' # None => \A k : NotThen(req.route, k) => NotThen(req.route, k)'
         /\ answer' = answer => AnswerInv' /\ ShownWasSo' /\ ReceiptWasSo'
<1>1. /\ UNCHANGED <<time, files, loose, packed, settings, changes, lain, held, lost, heads, refuted>>
      /\ WorldType /\ RequestType
  BY DEF world, history, Inv
<1>2. UNCHANGED <<Sources, Boards, Checks, Summarized, Excused, GitHead, Lying, Consistency, Views, Results, Entries>>
  BY <1>1 DEF Sources, Boards, Checks, Summarized, Excused, GitHead, Lying, Consistency,
    Views, Results, Entries, Document, Time
<1>3. WorldType' /\ HistoryType' /\ FileInv'
  BY <1>1, <1>2 DEF Inv, WorldType, HistoryType, FileInv, Sound, Document, Time
<1>4. \A route, k : Told(route, k) => Told(route, k)'
  BY <1>1 DEF Told, BoardAlone, ReceiptAlone, Holds, Document, Time
<1>5. answer' = answer => AnswerInv' /\ ShownWasSo' /\ ReceiptWasSo'
  BY <1>1, <1>2, <1>4 DEF Inv, AnswerInv, ShownWasSo, ReceiptWasSo, Excused, Calls, View
<1>6. \A k, d, now : /\ BoardGood(k, d, now)' <=> BoardGood(k, d, now')
                     /\ ReceiptGood(k, d, now)' <=> ReceiptGood(k, d, now')
  BY DEF BoardGood, ReceiptGood, ReceiptAccepts, Holds, Document, Time
<1>7. Asked \in Nat /\ Asked' \in Nat /\ Asked <= Asked' /\ (req' # None => Asked' = Asked)
  <2>1. Asked \in Nat /\ time \in Nat /\ Asked <= time
    BY <1>1, AskedFacts
  <2>2. CASE req' = None
    BY <1>1, <2>1, <2>2 DEF Asked
  <2>3. CASE req' # None
    BY <2>1, <2>3 DEF Asked
  <2>4. QED
    BY <2>2, <2>3
<1>8. \A k \in Kinds : \A d : /\ BoardGood(k, d, Asked') => BoardGood(k, d, Asked)
                              /\ ReceiptGood(k, d, Asked') => ReceiptGood(k, d, Asked)
  BY <1>7, Earlier
<1>9. RefutedInv'
  <2> SUFFICES ASSUME NEW k \in Boards
               PROVE  /\ <<k, "dashboard">> \in refuted =>
                           Throughout(k)' /\ (~ BoardGood(k, files[k], Asked)' \/ k \in Excused)
                      /\ <<k, "health">> \in refuted =>
                           Throughout(k)' /\ ~ ReceiptGood(k, files[k], Asked)'
    BY <1>1, <1>2 DEF RefutedInv
  <2>1. k \in Kinds
    BY <1>1, SourceFacts
  <2>2. Throughout(k)' <=> Throughout(k)
    BY <1>1 DEF Throughout
  <2>3. QED
    BY <1>1, <1>6, <1>8, <2>1, <2>2 DEF Inv, RefutedInv
<1>10. ASSUME req' # None, NEW k, NEW d
       PROVE  FileGood(req.route, k, d)' <=> FileGood(req.route, k, d)
  <2>1. req'.route = req.route /\ Asked' = Asked
    BY <1>7, <1>10
  <2>2. QED
    BY <1>1, <1>6, <2>1 DEF FileGood
<1>11. req' # None => \A k : NotThen(req.route, k) => NotThen(req.route, k)'
  BY <1>1, <1>10 DEF NotThen
<1>12. KnownInv'
  <2> SUFFICES ASSUME req' # None PROVE KnownInv'
    BY DEF KnownInv
  <2>1. req'.route = req.route /\ UNCHANGED ChecksOf(req.route)
    BY <1>2 DEF ChecksOf
  <2>2. \A c \in {"git", "consistency"} : Good(req.route, c)' <=> Good(req.route, c)
    BY <1>2 DEF Good
  <2>3. QED
    BY <1>1, <1>2, <1>10, <2>1, <2>2 DEF Inv, KnownInv
<1>13. QED
  BY <1>2, <1>3, <1>4, <1>5, <1>9, <1>11, <1>12

LEMMA RequestInv == ASSUME Inv, NEW route \in {"dashboard", "health"}, Request(route) PROVE Inv'
<1>1. /\ req = None /\ answer' = None /\ UNCHANGED world /\ UNCHANGED refuted
      /\ req' = [route |-> route, now |-> time, git |-> "loose",
                 text |-> [k \in Boards |-> None], mtime |-> [k \in Sources |-> None],
                 view |-> [c \in Checks \cup {"map"} |-> None]]
      /\ lain' = Lying
      /\ held' = {c \in ChecksOf(route) : Good(route, c)}
      /\ lost' = Bad(route)
      /\ heads' = {GitHead}
  BY DEF Request
<1>2. /\ WorldType /\ FileInv /\ time \in Nat
      /\ UNCHANGED <<time, files, loose, packed, settings, changes>>
  BY <1>1, ConstantFacts DEF Inv, WorldType, world
<1>3. UNCHANGED <<Sources, Boards, Checks, Excused, GitHead, Consistency, ChecksOf(route), Lying, RequestShape, Entries>>
  BY <1>2 DEF Sources, Boards, Checks, Excused, GitHead, Consistency, ChecksOf, Lying, RequestShape,
    Results, Views, Entries, Document, Time
<1>4. req' # None => req'.now = time /\ req'.route = route
  BY <1>1
<1>5. Asked = time /\ Asked' = time
  BY <1>1, <1>2, <1>4 DEF Asked
<1>6. WorldType'
  BY <1>2, <1>3 DEF WorldType, Time
<1>7. HistoryType'
  <2>1. ChecksOf(route) \subseteq Checks
    BY <1>2, SourceFacts DEF ChecksOf
  <2>2. GitHead \in Commits \cup {None}
    BY <1>2, SourceFacts DEF WorldType, GitHead
  <2>3. Lying \subseteq Sources \X Entries
    BY <1>2, SourceFacts DEF Lying, WorldType
  <2>4. QED
    BY <1>1, <1>3, <2>1, <2>2, <2>3 DEF HistoryType, Inv, Bad
<1>8. RequestType'
  <2>1. req' \in RequestShape
    BY <1>1, <1>2 DEF WorldType, Results, RequestShape
  <2>2. QED
    BY <1>1, <1>2, <1>3, <2>1 DEF RequestType
<1>9. FileInv'
  <2>1. \A p \in Lying : Sound(p[1], p[2])
    BY <1>2, SourceFacts DEF Lying, FileInv
  <2>2. QED
    BY <1>1, <1>2, <2>1 DEF FileInv, Sound, Document, Time
<1>10. \A k, d : /\ BoardGood(k, d, time)' <=> BoardGood(k, d, time)
                 /\ ReceiptGood(k, d, Asked)' <=> ReceiptGood(k, d, Asked)
                 /\ BoardGood(k, d, Asked)' <=> BoardGood(k, d, Asked)
  BY <1>2, <1>5 DEF BoardGood, ReceiptGood, ReceiptAccepts, Holds, Document, Time
<1>11. KnownInv'
  <2> SUFFICES ASSUME req' # None PROVE KnownInv'
    BY DEF KnownInv
  <2>1. \A k, d : FileGood(route, k, d)' <=> FileGood(route, k, d)
    BY <1>10 DEF FileGood
  <2>2. \A c \in {"git", "consistency"} : Good(route, c)' <=> Good(route, c)
    BY <1>3 DEF Good
  <2>3. ASSUME NEW p \in Lying, p[1] \in ChecksOf(route)
        PROVE  /\ FileGood(route, p[1], p[2]) => p[1] \in held'
               /\ ~ FileGood(route, p[1], p[2]) => p[1] \in lost'
    <3>1. PICK k \in Sources : p = <<k, files[k]>>
      BY DEF Lying
    <3>2. Good(route, k) <=> FileGood(route, k, files[k])
      BY <1>2, SourceFacts DEF Good
    <3>3. QED
      BY <1>1, <2>3, <3>1, <3>2 DEF Bad
  <2>4. QED
    BY <1>1, <1>3, <1>4, <2>1, <2>2, <2>3 DEF KnownInv, Bad
<1>12. RefutedInv'
  <2>1. \A k \in Boards : Throughout(k)'
    BY <1>1, <1>3 DEF Throughout, Lying
  <2>2. QED
    BY <1>1, <1>2, <1>3, <1>10, <2>1 DEF Inv, RefutedInv
<1>13. Running'
  <2>1. /\ \A c \in Checks \cup {"map"} : req'.view[c] = None
        /\ \A k \in Sources : req'.mtime[k] = None
        /\ \A k \in Boards : req'.text[k] = None
        /\ req'.git = "loose"
    BY <1>1
  <2>2. Boards \subseteq Checks /\ Sources \subseteq Checks /\ "git" \in Checks
    BY DEF Boards, Checks
  <2>3. QED
    BY <1>3, <2>1, <2>2, BoardsAssumption DEF Running, BoardInv, VerdictInv, MtimeInv, GitInv
<1>14. AnswerInv' /\ ShownWasSo' /\ ReceiptWasSo'
  BY <1>1 DEF AnswerInv, ShownWasSo, ReceiptWasSo
<1>15. QED
  BY <1>6, <1>7, <1>8, <1>9, <1>11, <1>12, <1>13, <1>14 DEF Inv

\* A request of the dashboard whose view of one board, and what it has of the
\* others' text, is so.
LEMMA BoardStep ==
  ASSUME Inv, Runs("dashboard"), UNCHANGED <<world, history, answer, refuted>>,
         req' # None => req'.route = "dashboard" /\ req'.now = req.now,
         RequestType',
         \A k \in Boards : req'.text[k] \in {None, req.text[k], files[k]},
         \A k \in Boards \cup {"map"} :
           \/ req'.view[k] = req.view[k]
           \/ /\ req'.view[k] \in Views
              /\ k # "map" /\ req'.view[k] = Fresh => k \in held /\ Told("dashboard", k)
              /\ k # "map" /\ req'.view[k] # Fresh => NotThen("dashboard", k) \/ k \in Excused
  PROVE  Inv'
<1>1. req # None /\ req.route = "dashboard" /\ WorldType
  BY DEF Runs, Inv
<1>2. /\ WorldType' /\ HistoryType' /\ FileInv' /\ KnownInv' /\ RefutedInv'
      /\ UNCHANGED <<Sources, Boards, Checks, Excused, Views, Results, Entries>>
      /\ \A route, k : Told(route, k) => Told(route, k)'
      /\ req' # None => \A k : NotThen("dashboard", k) => NotThen("dashboard", k)'
      /\ AnswerInv' /\ ShownWasSo' /\ ReceiptWasSo'
  <2>1. req' # None => req'.route = req.route /\ req'.now = req.now
    BY <1>1
  <2>2. req' # None => \A k : NotThen(req.route, k) => NotThen(req.route, k)'
    BY <1>1, <2>1, SameWorld
  <2>3. \A k : NotThen(req.route, k) <=> NotThen("dashboard", k)
    BY <1>1
  <2>4. req' # None => \A k : NotThen(req.route, k)' <=> NotThen("dashboard", k)'
    BY <1>1
  <2>5. QED
    BY <1>1, <2>1, <2>2, <2>3, <2>4, SameWorld
<1>3. \A k \in Boards : <<k, files[k]>> \in lain
  BY <1>1, SourceFacts DEF Inv, KnownInv, Lying
<1>4. UNCHANGED <<lain, held, lost, files>>
  BY DEF world, history
<1>5. BoardInv'
  <2> SUFFICES ASSUME req' # None PROVE BoardInv'
    BY DEF BoardInv, Runs
  <2>1. BoardInv /\ Runs("dashboard") /\ Fresh' = Fresh
    BY DEF Inv, Running, Fresh, View
  <2>2. "map" \notin Boards
    BY DEF Boards
  <2>3. \A k \in Boards : req'.text[k] # None => <<k, req'.text[k]>> \in lain
    BY <1>3, <2>1 DEF BoardInv
  <2>4. ASSUME NEW k \in Boards, req'.view[k] # None
        PROVE  /\ req'.view[k] \in Views
               /\ req'.view[k] = Fresh => k \in held /\ Told("dashboard", k)
               /\ req'.view[k] # Fresh => NotThen("dashboard", k) \/ k \in Excused
    BY <2>1, <2>2, <2>4 DEF BoardInv
  <2>5. req'.view["map"] # None => req'.view["map"] \in Views
    BY <2>1 DEF BoardInv
  <2>6. QED
    BY <1>2, <1>4, <2>1, <2>3, <2>4, <2>5 DEF BoardInv
<1>6. VerdictInv' /\ MtimeInv' /\ GitInv'
  BY DEF VerdictInv, MtimeInv, GitInv, Runs
<1>7. QED
  BY <1>2, <1>5, <1>6 DEF Inv, Running

\* A request in another of its shapes.
LEMMA ShapeFacts ==
  ASSUME Inv, req # None, UNCHANGED world, req' \in RequestShape, req'.now = req.now
  PROVE  RequestType'
<1>1. UNCHANGED <<time, RequestShape>>
  BY DEF world, RequestShape, Boards, Sources, Checks, Results, Views, Time, Entries, Document
<1>2. QED
  BY <1>1 DEF Inv, RequestType

LEMMA OpenBoardInv == ASSUME Inv, NEW k \in Boards, OpenBoard(k) PROVE Inv'
<1>1. /\ Runs("dashboard") /\ req # None /\ req.route = "dashboard" /\ WorldType /\ req \in RequestShape
      /\ req' = [req EXCEPT !.text[k] = files[k]] /\ UNCHANGED <<world, history, answer, refuted>>
  BY DEF OpenBoard, Runs, Elsewhere, Inv, RequestType
<1>2. files[k] \in Entries
  BY <1>1, SourceFacts DEF WorldType
<1>3. /\ req' \in RequestShape /\ req'.route = "dashboard" /\ req'.now = req.now /\ req'.view = req.view
      /\ \A j \in Boards : req'.text[j] \in {None, req.text[j], files[j]}
  BY <1>1, <1>2 DEF RequestShape
<1>4. QED
  BY <1>1, <1>3, BoardStep, ShapeFacts

LEMMA JudgeBoardInv == ASSUME Inv, NEW k \in Boards, JudgeBoard(k) PROVE Inv'
<1> DEFINE d == req.text[k]
           view == BoardData(k, d)
<1>1. /\ Runs("dashboard") /\ req # None /\ req.route = "dashboard" /\ WorldType /\ req \in RequestShape
      /\ d # None
      /\ req' = [req EXCEPT !.view[k] = view, !.text[k] = None] /\ UNCHANGED <<world, history, answer, refuted>>
  BY DEF JudgeBoard, Runs, Elsewhere, Inv, RequestType
<1>2. <<k, d>> \in lain /\ Sound(k, d)
  <2>1. <<k, d>> \in lain
    BY <1>1 DEF Inv, Running, BoardInv
  <2>2. QED
    BY <2>1 DEF Inv, FileInv
<1>3. /\ view \in Views
      /\ view = Fresh => BoardGood(k, d, time) /\ k \notin Excused
      /\ view # Fresh => ~ BoardGood(k, d, time) \/ k \in Excused
  BY <1>1, <1>2, BoardTold
<1>4. FileGood("dashboard", k, d) <=> BoardGood(k, d, time)
  BY DEF FileGood
<1>5. view # Fresh => NotThen("dashboard", k) \/ k \in Excused
  BY <1>2, <1>3, <1>4 DEF NotThen
<1>6. ASSUME view = Fresh PROVE k \in held /\ Told("dashboard", k)
  <2>1. k \in held
    BY <1>1, <1>2, <1>3, <1>4, <1>6 DEF Inv, KnownInv, ChecksOf
  <2>2. Asked \in Nat /\ time \in Nat /\ Asked <= time /\ k \in Kinds
    BY <1>1, AskedFacts, SourceFacts DEF Inv
  <2>3. BoardGood(k, d, Asked)
    BY <1>3, <1>6, <2>2, Earlier
  <2>4. ASSUME <<k, "dashboard">> \in refuted \/ <<k, "health">> \in refuted PROVE d = files[k]
    BY <1>2, <2>4 DEF Inv, RefutedInv, Throughout
  <2>5. <<k, "dashboard">> \notin refuted
    BY <1>3, <1>6, <2>3, <2>4 DEF Inv, RefutedInv
  <2>6. ASSUME <<k, "health">> \in refuted
        PROVE  d \in Document /\ d.stamp \in Time /\ BoardAlone(k, d) /\ (k = "repo" => d.promised # None)
    <3>1. ~ ReceiptGood(k, d, Asked)
      BY <2>4, <2>6 DEF Inv, RefutedInv
    <3>2. QED
      BY <1>1, <1>2, <2>2, <2>3, <3>1, Agree DEF BoardGood
  <2>7. QED
    BY <2>1, <2>4, <2>5, <2>6, ConstantFacts DEF Told
<1> HIDE DEF view
<1>7. /\ req' \in RequestShape /\ req'.route = "dashboard" /\ req'.now = req.now
      /\ \A j \in Boards : req'.text[j] \in {None, req.text[j], files[j]}
      /\ \A j \in Boards \cup {"map"} : j # k => req'.view[j] = req.view[j]
      /\ req'.view[k] = view
  BY <1>1, <1>3, SourceFacts DEF RequestShape, Results
<1>8. QED
  BY <1>1, <1>3, <1>5, <1>6, <1>7, BoardStep, ShapeFacts

LEMMA LoadMapInv == ASSUME Inv, LoadMap PROVE Inv'
<1>1. PICK view \in MapViews : Found("map", view)
  BY DEF LoadMap
<1>2. Runs("dashboard") /\ req # None /\ req.route = "dashboard" /\ "map" \notin Boards /\ Boards \subseteq Checks
  BY DEF LoadMap, Runs, Boards, Checks
<1>3. view \in Views
  BY ViewFacts DEF MapViews
<1>4. /\ req'.view["map"] = view
      /\ \A e \in Checks \cup {"map"} : e # "map" => req'.view[e] = req.view[e]
      /\ req'.route = req.route /\ req'.now = req.now /\ req'.text = req.text
      /\ UNCHANGED <<world, history, answer, refuted>> /\ RequestType'
  <2>1. view \in Results
    BY <1>3 DEF Results
  <2>2. QED
    BY <1>1, <1>2, <2>1, FoundStep
<1>5. QED
  BY <1>2, <1>3, <1>4, BoardStep

\* An answer refutes only what was not good and has lain there throughout.
LEMMA Answered ==
  ASSUME Inv, req # None, NEW status \in {"healthy", "attention", "critical", "ok", "warn", "fail"},
         NEW head, Answer(status, head),
         \A k \in Boards :
           /\ Calls(req.route, req.view[k]) => Told(req.route, k)
           /\ ~ Calls(req.route, req.view[k]) =>
                NotThen(req.route, k) \/ (req.route = "dashboard" /\ k \in Excused)
  PROVE  /\ WorldType' /\ HistoryType' /\ RequestType' /\ FileInv' /\ KnownInv' /\ RefutedInv'
         /\ Running' /\ AnswerInv'
         /\ UNCHANGED <<Sources, Boards, Checks, Summarized, Excused, held, lost, heads>>
<1>1. /\ answer' = [route |-> req.route, views |-> req.view, status |-> status, head |-> head]
      /\ refuted' = refuted \cup {<<k, req.route>> : k \in
                       {j \in Boards : ~ Calls(req.route, req.view[j]) /\ Throughout(j)}}
      /\ req' = None /\ lain' = {} /\ UNCHANGED <<held, lost, heads>>
      /\ UNCHANGED <<time, files, loose, packed, settings, changes>>
      /\ WorldType /\ req.route \in {"dashboard", "health"}
  BY DEF Answer, world, Inv, RequestType, RequestShape
<1>2. UNCHANGED <<Sources, Boards, Checks, Summarized, Excused, Views, Results, Entries>>
  BY <1>1 DEF Sources, Boards, Checks, Summarized, Excused, Views, Results, Entries, Document, Time
<1>3. /\ WorldType' /\ RequestType' /\ KnownInv' /\ Running'
  BY <1>1, <1>2 DEF Inv, WorldType, RequestType, KnownInv, Running, BoardInv, VerdictInv, MtimeInv,
    GitInv, Runs, Document, Time
<1>4. FileInv'
  BY <1>1 DEF Inv, FileInv, Sound, Document, Time
<1>5. HistoryType'
  <2>1. refuted' \subseteq Boards \X {"dashboard", "health"}
    BY <1>1 DEF Inv, HistoryType
  <2>2. QED
    BY <1>1, <1>2, <2>1 DEF Inv, HistoryType
<1>6. Asked \in Nat /\ time \in Nat /\ Asked <= time /\ Asked' = time
  BY <1>1, AskedFacts DEF Inv, Asked
<1>7. \A k, d : /\ BoardGood(k, d, Asked)' <=> BoardGood(k, d, time)
                /\ ReceiptGood(k, d, Asked)' <=> ReceiptGood(k, d, time)
  BY <1>1, <1>6 DEF BoardGood, ReceiptGood, ReceiptAccepts, Holds, Document, Time
<1>8. \A k \in Kinds : \A d : /\ BoardGood(k, d, time) => BoardGood(k, d, Asked)
                              /\ ReceiptGood(k, d, time) => ReceiptGood(k, d, Asked)
  BY <1>6, Earlier
<1>9. RefutedInv'
  <2> SUFFICES ASSUME NEW k \in Boards
               PROVE  /\ <<k, "dashboard">> \in refuted' =>
                           ~ BoardGood(k, files[k], time) \/ k \in Excused
                      /\ <<k, "health">> \in refuted' => ~ ReceiptGood(k, files[k], time)
    <3>1. \A k \in Boards : Throughout(k)'
      BY <1>1 DEF Throughout
    <3>2. QED
      BY <1>1, <1>2, <1>7, <3>1 DEF RefutedInv
  <2>1. k \in Kinds
    BY <1>1, SourceFacts
  <2>2. ASSUME NEW route \in {"dashboard", "health"}, <<k, route>> \in refuted', <<k, route>> \notin refuted
        PROVE  /\ route = "dashboard" => ~ BoardGood(k, files[k], time) \/ k \in Excused
               /\ route = "health" => ~ ReceiptGood(k, files[k], time)
    <3>1. route = req.route /\ ~ Calls(req.route, req.view[k]) /\ Throughout(k)
      BY <1>1, <2>2
    <3>2. CASE route = "dashboard" /\ k \in Excused
      BY <3>2
    <3>3. CASE NotThen(route, k)
      <4>1. ~ FileGood(route, k, files[k])
        BY <3>1, <3>3 DEF NotThen, Throughout
      <4>2. QED
        BY <1>8, <2>1, <4>1 DEF FileGood
    <3>4. QED
      BY <3>1, <3>2, <3>3
  <2>3. QED
    BY <1>8, <2>1, <2>2 DEF Inv, RefutedInv
<1>10. AnswerInv'
  <2>1. ASSUME NEW k \in Boards, NEW route, route = req.route, Calls(route, req.view[k])
        PROVE  Told(route, k)'
    <3>1. /\ Told(route, k) /\ <<k, route>> \notin refuted'
          /\ \A other : other # route /\ <<k, other>> \in refuted' => <<k, other>> \in refuted
      BY <1>1, <2>1 DEF Told
    <3>2. UNCHANGED <<BoardAlone(k, files[k]), ReceiptAlone(k, files[k])>>
      BY <1>1 DEF BoardAlone, ReceiptAlone, Holds
    <3>3. QED
      BY <1>1, <3>1, <3>2 DEF Told, Document, Time
  <2>2. /\ answer' # None => answer'.route = req.route /\ answer'.views = req.view /\ answer'.status = status
        /\ \A route, view : Calls(route, view)' <=> Calls(route, view)
    BY <1>1 DEF Calls, View
  <2>3. QED
    BY <1>2, <2>1, <2>2 DEF AnswerInv
<1>11. QED
  BY <1>1, <1>2, <1>3, <1>4, <1>5, <1>9, <1>10

\* The headline of a dashboard is stable only over fresh artifacts.
LEMMA SummaryFacts ==
  ASSUME NEW views, \A k \in Summarized : views[k] \in Views
  PROVE  /\ Summary(views) \in {"healthy", "attention", "critical"}
         /\ Summary(views) = "healthy" <=> \A k \in Summarized : views[k] = Fresh
<1>1. ASSUME NEW v \in Views PROVE Attention(v) = None <=> v = Fresh
  <2>1. Attention(v) = None <=> v.kind = "artifact" /\ v.freshness = "fresh"
    BY BoardsAssumption DEF Attention, Views
  <2>2. (v.kind = "artifact" /\ v.freshness = "fresh") <=> v = Fresh
    BY DEF Views, Fresh, View
  <2>3. QED
    BY <2>1, <2>2
<1>2. "map" \in Summarized
  BY DEF Summarized
<1> DEFINE severities == {Attention(views[k]) : k \in Summarized}
<1>3. severities = {None} <=> \A k \in Summarized : views[k] = Fresh
  BY <1>1, <1>2
<1>4. None # "critical"
  BY BoardsAssumption
<1>5. Summary(views) = IF "critical" \in severities THEN "critical"
                       ELSE IF severities = {None} THEN "healthy" ELSE "attention"
  BY DEF Summary
<1> HIDE DEF severities
<1>6. QED
  BY <1>3, <1>4, <1>5

LEMMA RenderInv == ASSUME Inv, Render PROVE Inv'
<1>1. /\ req # None /\ req.route = "dashboard" /\ Runs("dashboard") /\ WorldType
      /\ \A k \in Boards \cup {"map"} : req.view[k] # None
      /\ Answer(Summary(req.view), None)
  BY DEF Render, Runs, Inv
<1>2. ASSUME NEW k \in Boards
      PROVE  /\ req.view[k] \in Views
             /\ req.view[k] = Fresh => k \in held /\ Told("dashboard", k)
             /\ req.view[k] # Fresh => NotThen("dashboard", k) \/ k \in Excused
             /\ req.view[k] # Fresh => k \in lost \cup Excused
  <2>1. /\ req.view[k] \in Views
        /\ req.view[k] = Fresh => k \in held /\ Told("dashboard", k)
        /\ req.view[k] # Fresh => NotThen("dashboard", k) \/ k \in Excused
    BY <1>1 DEF Inv, Running, BoardInv
  <2>2. NotThen("dashboard", k) => k \in lost
    BY <1>1 DEF Inv, KnownInv, NotThen, ChecksOf
  <2>3. QED
    BY <2>1, <2>2
<1>3. req.view["map"] \in Views /\ Summarized \subseteq Boards \cup {"map"}
  BY <1>1 DEF Inv, Running, BoardInv, Summarized
<1>4. /\ Summary(req.view) \in {"healthy", "attention", "critical"}
      /\ Summary(req.view) = "healthy" <=> \A k \in Summarized : req.view[k] = Fresh
  BY <1>2, <1>3, SummaryFacts
<1>5. \A k : Calls(req.route, req.view[k]) <=> req.view[k] = Fresh
  BY <1>1 DEF Calls, Fresh
<1>6. /\ WorldType' /\ HistoryType' /\ RequestType' /\ FileInv' /\ KnownInv' /\ RefutedInv'
      /\ Running' /\ AnswerInv'
      /\ UNCHANGED <<Sources, Boards, Checks, Summarized, Excused, held, lost, heads>>
  <2>1. \A k \in Boards :
          /\ Calls(req.route, req.view[k]) => Told(req.route, k)
          /\ ~ Calls(req.route, req.view[k]) =>
               NotThen(req.route, k) \/ (req.route = "dashboard" /\ k \in Excused)
    BY <1>1, <1>2, <1>5
  <2>2. QED
    BY <1>1, <1>4, <2>1, Answered
<1>7. /\ answer'.views = req.view /\ answer'.status = Summary(req.view)
      /\ answer'.route = "dashboard" /\ settings' = settings
  BY <1>1 DEF Answer, world
<1>8. ShownWasSo'
  <2> DEFINE fresh == {k \in Boards \cup {"map"} : req.view[k] = Fresh}
             excused == Excused
  <2>1. fresh \cap Boards \subseteq held /\ Boards \ fresh \subseteq lost \cup excused
    BY <1>2
  <2>2. Summary(req.view) = "healthy" => Summarized \ {"map"} \subseteq held
    BY <1>2, <1>3, <1>4
  <2>3. Summary(req.view) # "healthy" =>
          Summarized \cap (lost \cup excused) # {} \/ "map" \notin fresh
    BY <1>2, <1>3, <1>4
  <2>4. QED
    BY <1>6, <1>7, <2>1, <2>2, <2>3 DEF ShownWasSo, Fresh, View, Excused
<1>9. ReceiptWasSo'
  BY <1>7 DEF ReceiptWasSo
<1>10. QED
  BY <1>6, <1>8, <1>9 DEF Inv

\* A snapshot of which the receipt has the file's time, or its verdict, or neither.
LEMMA HealthFacts ==
  ASSUME Inv, Runs("health")
  PROVE  /\ req # None /\ req.route = "health" /\ Asked = req.now /\ req.now \in Nat
         /\ req.now <= time /\ WorldType /\ FileInv /\ req \in RequestShape
         /\ \A k \in Sources : /\ k \in Kinds /\ Limit[k] \in Nat /\ k \in Checks \ {"git"}
                               /\ <<k, files[k]>> \in lain
                               /\ ReceiptGood(k, files[k], req.now) => k \in held
                               /\ ~ ReceiptGood(k, files[k], req.now) => NotThen("health", k)
                               /\ NotThen("health", k) => k \in lost
         /\ Consistency = "ok" => "consistency" \in held
         /\ Consistency # "ok" => "consistency" \in lost
         /\ GitHead # None => "git" \in held
         /\ GitHead = None => "git" \in lost
         /\ GitHead \in heads
<1>1. /\ req # None /\ req.route = "health" /\ Asked = req.now /\ WorldType /\ FileInv
      /\ req \in RequestShape
  BY DEF Inv, Runs, Asked, RequestType
<1>2. req.now \in Nat /\ req.now <= time
  BY <1>1, ConstantFacts DEF Inv, RequestType, RequestShape
<1>3. \A k \in Sources : k \in Kinds /\ Limit[k] \in Nat /\ k \in Checks \ {"git"} /\ k # "consistency"
  BY <1>1, SourceFacts, BoardsAssumption DEF Checks
<1>4. /\ ChecksOf("health") = Sources \cup {"git", "consistency"}
      /\ \A k, d : FileGood("health", k, d) <=> ReceiptGood(k, d, req.now)
      /\ Good("health", "git") <=> GitHead # None
      /\ Good("health", "consistency") <=> Consistency = "ok"
  BY <1>1 DEF ChecksOf, Checks, Good, FileGood
<1>5. \A k \in Sources : <<k, files[k]>> \in lain
  BY <1>1 DEF Inv, KnownInv, Lying
<1>6. ASSUME NEW k \in Sources
      PROVE  /\ ReceiptGood(k, files[k], req.now) => k \in held
             /\ ~ ReceiptGood(k, files[k], req.now) => NotThen("health", k)
             /\ NotThen("health", k) => k \in lost
  <2>1. \A p \in lain : p[1] = k =>
          /\ ReceiptGood(k, p[2], req.now) => k \in held
          /\ ~ ReceiptGood(k, p[2], req.now) => k \in lost
    BY <1>1, <1>4 DEF Inv, KnownInv
  <2>2. NotThen("health", k) <=> \E p \in lain : p[1] = k /\ ~ ReceiptGood(k, p[2], req.now)
    BY <1>4 DEF NotThen
  <2>3. QED
    BY <1>5, <2>1, <2>2
<1>7. /\ Consistency = "ok" => "consistency" \in held
      /\ Consistency # "ok" => "consistency" \in lost
      /\ GitHead # None => "git" \in held
      /\ GitHead = None => "git" \in lost
      /\ GitHead \in heads
  BY <1>1, <1>4 DEF Inv, KnownInv
<1>8. QED
  BY <1>1, <1>2, <1>3, <1>5, <1>6, <1>7

\* A verdict that was so, or was not.
LEMMA VerdictFound ==
  ASSUME Inv, Runs("health"), NEW c \in Checks \ {"git"}, NEW v \in {"ok", "warn", "fail"},
         Found(c, v), v = "ok" => c \in held, v # "ok" => c \in lost,
         c \in Sources /\ v # "ok" => NotThen("health", c),
         c \in Boards /\ v = "ok" => Told("health", c)
  PROVE  Inv'
<1>1. req # None /\ req.route = "health" /\ "git" \in Checks /\ Sources \subseteq Checks \ {"git"}
      /\ Boards \subseteq Sources
  BY HealthFacts, SourceFacts DEF Runs, Checks
<1>2. /\ req'.view[c] = v
      /\ \A e \in Checks \cup {"map"} : e # c => req'.view[e] = req.view[e]
      /\ req'.route = req.route /\ req'.now = req.now /\ req'.git = req.git
      /\ req'.mtime = req.mtime
      /\ UNCHANGED <<world, history, answer, refuted>> /\ RequestType'
  BY <1>1, FoundStep DEF Results
<1>3. /\ WorldType' /\ HistoryType' /\ FileInv' /\ KnownInv' /\ RefutedInv'
      /\ AnswerInv' /\ ShownWasSo' /\ ReceiptWasSo'
      /\ UNCHANGED <<Sources, Boards, Checks>>
      /\ \A route, k : Told(route, k) => Told(route, k)'
  BY <1>1, <1>2, SameWorld
<1>4. req' # None => \A k : NotThen("health", k) => NotThen("health", k)'
  <2>1. req' # None => \A k : NotThen(req.route, k) => NotThen(req.route, k)'
    BY <1>1, <1>2, SameWorld
  <2>2. QED
    BY <1>1, <1>2, <2>1
<1>5. UNCHANGED <<held, lost, heads, lain, files, settings, packed>>
  BY <1>2 DEF world, history
<1>6. VerdictInv'
  <2> SUFFICES ASSUME req' # None PROVE VerdictInv'
    BY DEF VerdictInv, Runs
  <2>1. VerdictInv /\ Runs("health")
    BY DEF Inv, Running
  <2>2. ASSUME NEW e \in Checks \ {"git"}, req'.view[e] # None
        PROVE  /\ req'.view[e] \in {"ok", "warn", "fail"}
               /\ req'.view[e] = "ok" => e \in held
               /\ req'.view[e] # "ok" => e \in lost
    BY <1>2, <2>1, <2>2 DEF VerdictInv
  <2>3. \A k \in Sources : req'.view[k] \notin {None, "ok"} => NotThen("health", k)
    BY <1>1, <1>2, <2>1 DEF VerdictInv
  <2>4. \A k \in Boards : req'.view[k] = "ok" => Told("health", k)
    BY <1>1, <1>2, <2>1 DEF VerdictInv
  <2>5. QED
    BY <1>3, <1>4, <1>5, <2>2, <2>3, <2>4 DEF VerdictInv
<1>7. MtimeInv'
  BY <1>1, <1>2, <1>3, <1>4, <1>5 DEF Inv, Running, MtimeInv, Runs, Document, Time
<1>8. GitInv'
  BY <1>1, <1>2, <1>5 DEF Inv, Running, GitInv, Runs
<1>9. BoardInv'
  BY <1>1, <1>2 DEF BoardInv, Runs
<1>10. QED
  BY <1>2, <1>3, <1>6, <1>7, <1>8, <1>9 DEF Inv, Running

LEMMA StatSnapshotInv == ASSUME Inv, NEW k \in Sources, StatSnapshot(k) PROVE Inv'
<1>0. /\ Runs("health") /\ k \in Checks \ {"git"} /\ req # None /\ req.route = "health"
      /\ req \in RequestShape /\ WorldType /\ k \in Kinds
  BY HealthFacts DEF StatSnapshot
<1>1. CASE files[k] = Absent
  <2>1. ~ ReceiptGood(k, files[k], req.now)
    BY <1>1, ConstantFacts DEF ReceiptGood
  <2>2. NotThen("health", k) /\ k \in lost
    BY <1>0, <2>1, HealthFacts
  <2>3. QED
    BY <1>0, <1>1, <2>2, VerdictFound DEF StatSnapshot
<1>2. CASE files[k] # Absent
  <2>1. PICK mtime \in IF files[k] = Unreadable THEN Time ELSE {files[k].written} :
          req' = [req EXCEPT !.mtime[k] = mtime]
    BY <1>2 DEF StatSnapshot
  <2>2. UNCHANGED <<world, history, answer, refuted>>
    BY <1>2 DEF StatSnapshot, Elsewhere
  <2>3. files[k] \in Document \/ (files[k] = Unreadable /\ files[k] \notin Document)
    BY <1>0, <1>2, FileFacts
  <2>4. mtime \in Time
    BY <2>1, <2>3, ConstantFacts DEF Document
  <2>5. /\ req' \in RequestShape
        /\ req'.route = "health" /\ req'.now = req.now /\ req'.git = req.git
        /\ req'.view = req.view /\ req'.mtime = [req.mtime EXCEPT ![k] = mtime]
        /\ \A j \in Sources : j # k => req'.mtime[j] = req.mtime[j]
        /\ req'.mtime[k] = mtime
    BY <1>0, <2>1, <2>4 DEF RequestShape
  <2>6. /\ WorldType' /\ HistoryType' /\ FileInv' /\ KnownInv' /\ RefutedInv'
        /\ AnswerInv' /\ ShownWasSo' /\ ReceiptWasSo'
        /\ UNCHANGED <<Sources, Boards, Checks>>
        /\ \A route, j : Told(route, j) => Told(route, j)'
    BY <1>0, <2>2, <2>5, SameWorld
  <2>7. req' # None => \A j : NotThen("health", j) => NotThen("health", j)'
    <3>1. req' # None => \A j : NotThen(req.route, j) => NotThen(req.route, j)'
      BY <1>0, <2>2, <2>5, SameWorld
    <3>2. QED
      BY <1>0, <2>5, <3>1
  <2>8. RequestType'
    BY <1>0, <2>2, <2>5, ShapeFacts
  <2>9. UNCHANGED <<held, lost, heads, lain, files, settings, packed>>
    BY <2>2 DEF world, history
  <2>10. NotThen("health", k) \/ req.now - mtime <= Limit[k]
    <3>1. CASE files[k] \in Document
      <4>1. mtime = files[k].written
        BY <2>1, <3>1, ConstantFacts
      <4>2. /\ files[k].written \in Nat /\ files[k].stamp \in Time \cup {None, Junk}
            /\ files[k].stamp \in Time => files[k].stamp \in Nat
        BY <3>1, DocumentFacts
      <4>3. files[k].stamp \in Time => files[k].stamp <= files[k].written
        BY <1>0, <3>1, HealthFacts DEF FileInv, Sound
      <4>4. ReceiptGood(k, files[k], req.now) => req.now - files[k].written <= Limit[k]
        <5>1. req.now \in Nat /\ Limit[k] \in Nat
          BY <1>0, HealthFacts
        <5>2. CASE files[k].stamp = None
          BY <5>2 DEF ReceiptGood
        <5>3. CASE files[k].stamp \in Time
          <6>1. files[k].stamp # None
            BY <5>3, ConstantFacts
          <6> DEFINE stamp == files[k].stamp
                     written == files[k].written
          <6>2. stamp \in Nat /\ written \in Nat /\ stamp <= written
            BY <4>2, <4>3, <5>3
          <6>3. ReceiptGood(k, files[k], req.now) => req.now - stamp <= Limit[k]
            BY <6>1 DEF ReceiptGood
          <6> HIDE DEF stamp, written
          <6>4. ReceiptGood(k, files[k], req.now) => req.now - written <= Limit[k]
            BY <5>1, <6>2, <6>3
          <6>5. QED
            BY <6>4 DEF written
        <5>4. CASE files[k].stamp = Junk
          BY <5>4 DEF ReceiptGood
        <5>5. QED
          BY <4>2, <5>2, <5>3, <5>4
      <4>5. QED
        BY <1>0, <4>1, <4>4, HealthFacts
    <3>2. CASE files[k] \notin Document
      BY <1>0, <3>2, HealthFacts DEF ReceiptGood
    <3>3. QED
      BY <3>1, <3>2
  <2>11. MtimeInv'
    <3> SUFFICES ASSUME req' # None, NEW j \in Sources, req'.mtime[j] # None
                 PROVE  /\ NotThen("health", j) \/ req.now - req'.mtime[j] <= Limit[j]
                        /\ files[j] \in Document =>
                             req'.mtime[j] = files[j].written \/ req.now <= files[j].written
      BY <2>5, <2>6, <2>7, <2>9 DEF MtimeInv, Runs, Document, Time
    <3>1. CASE j = k
      <4>1. files[j] \in Document => mtime = files[j].written
        BY <2>1, <3>1, ConstantFacts
      <4>2. QED
        BY <2>5, <2>10, <3>1, <4>1
    <3>2. CASE j # k
      BY <1>0, <2>5, <3>2 DEF Inv, Running, MtimeInv
    <3>3. QED
      BY <3>1, <3>2
  <2>12. VerdictInv'
    <3> SUFFICES ASSUME req' # None PROVE VerdictInv'
      BY DEF VerdictInv, Runs
    <3>1. QED
      BY <1>0, <2>5, <2>6, <2>7, <2>9 DEF Inv, Running, VerdictInv
  <2>13. GitInv' /\ BoardInv'
    BY <1>0, <2>5, <2>9 DEF Inv, Running, GitInv, BoardInv, Runs
  <2>14. QED
    BY <2>6, <2>8, <2>11, <2>12, <2>13 DEF Inv, Running
<1>3. QED
  BY <1>1, <1>2

LEMMA ReadSnapshotInv == ASSUME Inv, NEW k \in Sources, ReadSnapshot(k) PROVE Inv'
<1> DEFINE d == files[k]
           v == Verdict(k, d, req.mtime[k], req.now)
<1>1. /\ Runs("health") /\ k \in Checks \ {"git"} /\ req.mtime[k] # None /\ Found(k, v)
  BY HealthFacts DEF ReadSnapshot
<1>2. /\ ReceiptGood(k, d, req.now) => k \in held
      /\ ~ ReceiptGood(k, d, req.now) => NotThen("health", k)
      /\ NotThen("health", k) => k \in lost
      /\ req.now \in Nat /\ req.now <= time /\ Limit[k] \in Nat /\ k \in Kinds /\ Asked = req.now
      /\ WorldType /\ Sound(k, d) /\ req # None
  BY <1>1, HealthFacts DEF FileInv
<1>3. v \in {"ok", "warn", "fail"}
  BY DEF Verdict
<1>4. /\ NotThen("health", k) \/ req.now - req.mtime[k] <= Limit[k]
      /\ d \in Document => req.mtime[k] = d.written \/ req.now <= d.written
  BY <1>1 DEF Inv, Running, MtimeInv
<1>5. d \in Document => d.written \in Nat /\ (d.stamp \in Nat \/ d.stamp \in {None, Junk})
  BY DocumentFacts
<1>6. ASSUME v = "ok" PROVE ReceiptGood(k, d, req.now)
  <2>1. /\ d \in Document /\ d.fault # "json" /\ ReceiptAccepts(k, d) /\ d.stamp # Junk
        /\ req.now - (IF d.stamp = None THEN req.mtime[k] ELSE d.stamp) <= Limit[k]
    BY <1>6 DEF Verdict
  <2>2. CASE d.stamp # None
    BY <1>2, <2>1, <2>2 DEF ReceiptGood
  <2>3. CASE d.stamp = None
    <3>1. req.now - d.written <= Limit[k]
      BY <1>2, <1>4, <1>5, <2>1, <2>3
    <3>2. QED
      BY <1>2, <2>1, <2>3, <3>1 DEF ReceiptGood
  <2>4. QED
    BY <2>2, <2>3
<1>7. ASSUME v # "ok" PROVE NotThen("health", k)
  <2>1. CASE d \in Document /\ d.fault # "json" /\ ReceiptAccepts(k, d) /\ d.stamp # Junk
    <3>1. ~ (req.now - (IF d.stamp = None THEN req.mtime[k] ELSE d.stamp) <= Limit[k])
      BY <1>7, <2>1 DEF Verdict
    <3>2. CASE d.stamp = None
      BY <1>4, <3>1, <3>2
    <3>3. CASE d.stamp # None
      BY <1>2, <3>1, <3>3 DEF ReceiptGood
    <3>4. QED
      BY <3>2, <3>3
  <2>2. CASE ~ (d \in Document /\ d.fault # "json" /\ ReceiptAccepts(k, d) /\ d.stamp # Junk)
    BY <1>2, <2>2 DEF ReceiptGood
  <2>3. QED
    BY <2>1, <2>2
<1>8. ASSUME k \in Boards, v = "ok" PROVE Told("health", k)
  <2>1. <<k, "health">> \notin refuted
    BY <1>2, <1>6, <1>8 DEF Inv, RefutedInv
  <2>2. ASSUME <<k, "dashboard">> \in refuted
        PROVE  /\ d \in Document /\ d.stamp # Junk /\ (k = "repo" => d.promised # None)
               /\ ReceiptAlone(k, d)
    <3>1. ReceiptGood(k, d, req.now)
      BY <1>6, <1>8
    <3>2. ~ BoardGood(k, d, req.now) \/ k \in Excused
      BY <1>2, <1>8, <2>2 DEF Inv, RefutedInv
    <3>3. k \in Excused => k = "repo" /\ ~ settings.configured
      BY DEF Excused
    <3>4. d \in Document /\ d.stamp # Junk /\ (k = "repo" => d.promised # None)
      BY <3>1 DEF ReceiptGood, ReceiptAccepts
    <3>5. CASE k \in Excused
      BY <3>3, <3>4, <3>5 DEF ReceiptAlone
    <3>6. CASE ~ BoardGood(k, d, req.now)
      BY <1>2, <1>8, <3>1, <3>4, <3>6, Agree
    <3>7. QED
      BY <3>2, <3>5, <3>6
  <2>3. QED
    BY <2>1, <2>2 DEF Told
<1> HIDE DEF d, v
<1>9. QED
  BY <1>1, <1>2, <1>3, <1>6, <1>7, <1>8, VerdictFound

LEMMA CheckConsistencyInv == ASSUME Inv, CheckConsistency PROVE Inv'
<1>1. /\ Runs("health") /\ Found("consistency", Consistency) /\ "consistency" \in Checks \ {"git"}
  BY DEF CheckConsistency, Checks
<1>2. Consistency \in {"ok", "warn", "fail"}
  BY DEF Consistency
<1>3. "consistency" \notin Sources /\ Boards \subseteq Sources
  BY <1>1, HealthFacts, SourceFacts
<1>4. QED
  BY <1>1, <1>2, <1>3, HealthFacts, VerdictFound

\* What HEAD and Git's two places say: its commit, or that it has none.
LEMMA GitFound ==
  ASSUME Inv, Runs("health"), NEW result \in Commits \cup {"warn"}, Found("git", result),
         result = "warn" => "git" \in lost, result # "warn" => "git" \in held /\ result \in heads
  PROVE  Inv'
<1>1. req # None /\ req.route = "health" /\ "git" \in Checks /\ Sources \subseteq Checks \ {"git"}
      /\ Boards \subseteq Sources
  BY HealthFacts, SourceFacts DEF Runs, Checks
<1>2. /\ req'.view["git"] = result
      /\ \A e \in Checks \cup {"map"} : e # "git" => req'.view[e] = req.view[e]
      /\ req'.route = req.route /\ req'.now = req.now /\ req'.git = req.git
      /\ req'.mtime = req.mtime
      /\ UNCHANGED <<world, history, answer, refuted>> /\ RequestType'
  BY <1>1, FoundStep DEF Results
<1>3. /\ WorldType' /\ HistoryType' /\ FileInv' /\ KnownInv' /\ RefutedInv'
      /\ AnswerInv' /\ ShownWasSo' /\ ReceiptWasSo'
      /\ UNCHANGED <<Sources, Boards, Checks>>
      /\ \A route, k : Told(route, k) => Told(route, k)'
  BY <1>1, <1>2, SameWorld
<1>4. req' # None => \A k : NotThen("health", k) => NotThen("health", k)'
  <2>1. req' # None => \A k : NotThen(req.route, k) => NotThen(req.route, k)'
    BY <1>1, <1>2, SameWorld
  <2>2. QED
    BY <1>1, <1>2, <2>1
<1>5. UNCHANGED <<held, lost, heads, lain, files, settings, packed>>
  BY <1>2 DEF world, history
<1>6. VerdictInv'
  <2> SUFFICES ASSUME req' # None PROVE VerdictInv'
    BY DEF VerdictInv, Runs
  <2>1. \A e \in Checks \ {"git"} : req'.view[e] = req.view[e]
    BY <1>2
  <2>2. QED
    BY <1>1, <1>3, <1>4, <1>5, <2>1 DEF Inv, Running, VerdictInv, Runs
<1>7. MtimeInv'
  BY <1>1, <1>2, <1>3, <1>4, <1>5 DEF Inv, Running, MtimeInv, Runs, Document, Time
<1>8. GitInv' /\ BoardInv'
  BY <1>1, <1>2, <1>5 DEF Inv, Running, GitInv, BoardInv, Runs
<1>9. QED
  BY <1>2, <1>3, <1>6, <1>7, <1>8 DEF Inv, Running

LEMMA ReadLooseInv == ASSUME Inv, ReadLoose PROVE Inv'
<1>1. /\ Runs("health") /\ req.view["git"] = None /\ req # None /\ req.route = "health"
      /\ WorldType /\ req \in RequestShape
  BY HealthFacts DEF ReadLoose
<1>2. /\ settings.head \in Commits \cup {"branch", None} /\ None \notin Commits
      /\ "warn" \notin Commits /\ "branch" \notin Commits
  BY <1>1, SourceFacts, ConstantFacts
<1>3. CASE settings.head # "branch"
  <2>1. GitHead = settings.head
    BY <1>3 DEF GitHead
  <2>2. Found("git", IF settings.head = None THEN "warn" ELSE settings.head)
    BY <1>3 DEF ReadLoose
  <2>3. CASE settings.head = None
    <3>1. Found("git", "warn") /\ "git" \in lost
      BY <1>1, <2>1, <2>2, <2>3, HealthFacts
    <3>2. QED
      BY <1>1, <3>1, GitFound
  <2>4. CASE settings.head # None
    <3>1. Found("git", settings.head) /\ "git" \in held /\ settings.head \in heads /\ settings.head \in Commits
      BY <1>1, <1>2, <1>3, <2>1, <2>2, <2>4, HealthFacts
    <3>2. QED
      BY <1>1, <1>2, <3>1, GitFound
  <2>5. QED
    BY <2>3, <2>4
<1>4. CASE settings.head = "branch" /\ loose # None
  <2>1. loose \in Commits /\ GitHead = loose
    BY <1>1, <1>4 DEF WorldType, GitHead
  <2>2. Found("git", loose)
    BY <1>4 DEF ReadLoose
  <2>3. "git" \in held /\ loose \in heads /\ loose # "warn"
    BY <1>1, <1>2, <1>4, <2>1, HealthFacts
  <2>4. QED
    BY <1>1, <2>1, <2>2, <2>3, GitFound
<1>5. CASE settings.head = "branch" /\ loose = None
  <2>1. /\ req' = [req EXCEPT !.git = "packed"] /\ UNCHANGED <<world, history, answer, refuted>>
    BY <1>5 DEF ReadLoose, Elsewhere
  <2>2. /\ req' \in RequestShape /\ req'.route = "health" /\ req'.now = req.now
        /\ req'.view = req.view /\ req'.mtime = req.mtime
    BY <1>1, <2>1 DEF RequestShape
  <2>3. /\ WorldType' /\ HistoryType' /\ FileInv' /\ KnownInv' /\ RefutedInv'
        /\ AnswerInv' /\ ShownWasSo' /\ ReceiptWasSo'
        /\ UNCHANGED <<Sources, Boards, Checks>>
        /\ \A route, k : Told(route, k) => Told(route, k)'
    BY <1>1, <2>1, <2>2, SameWorld
  <2>4. req' # None => \A k : NotThen("health", k) => NotThen("health", k)'
    <3>1. req' # None => \A k : NotThen(req.route, k) => NotThen(req.route, k)'
      BY <1>1, <2>1, <2>2, SameWorld
    <3>2. QED
      BY <1>1, <2>2, <3>1
  <2>5. RequestType'
    BY <1>1, <2>1, <2>2, ShapeFacts
  <2>6. UNCHANGED <<held, lost, heads, lain, files, settings, packed>>
    BY <2>1 DEF world, history
  <2>7. GitInv'
    <3>1. IF packed = None THEN "git" \in lost ELSE packed \in heads
      BY <1>1, <1>5, HealthFacts DEF GitHead
    <3>2. QED
      BY <1>1, <1>5, <2>2, <2>6, <3>1 DEF GitInv
  <2>8. VerdictInv'
    <3> SUFFICES ASSUME req' # None PROVE VerdictInv'
      BY DEF VerdictInv, Runs
    <3>1. QED
      BY <1>1, <2>2, <2>3, <2>4, <2>6 DEF Inv, Running, VerdictInv
  <2>9. MtimeInv' /\ BoardInv'
    BY <1>1, <2>2, <2>3, <2>4, <2>6 DEF Inv, Running, MtimeInv, BoardInv, Runs, Document, Time
  <2>10. QED
    BY <2>3, <2>5, <2>7, <2>8, <2>9 DEF Inv, Running
<1>6. QED
  BY <1>3, <1>4, <1>5

LEMMA ReadPackedInv == ASSUME Inv, ReadPacked PROVE Inv'
<1>1. /\ Runs("health") /\ req.git = "packed"
      /\ Found("git", IF packed # None THEN packed ELSE "warn")
  BY DEF ReadPacked
<1>2. packed \in Commits \cup {None} /\ "warn" \notin Commits
  BY ConstantFacts DEF Inv, WorldType
<1>3. /\ settings.head = "branch"
      /\ IF packed = None THEN "git" \in lost ELSE packed \in heads
  BY <1>1 DEF Inv, Running, GitInv
<1>4. packed # None => "git" \in held
  BY <1>1, <1>3, HealthFacts DEF GitHead
<1>5. CASE packed = None
  BY <1>1, <1>3, <1>5, GitFound
<1>6. CASE packed # None
  BY <1>1, <1>2, <1>3, <1>4, <1>6, GitFound
<1>7. QED
  BY <1>5, <1>6

LEMMA RespondInv == ASSUME Inv, Respond PROVE Inv'
<1> DEFINE git == req.view["git"]
           verdicts == {req.view[c] : c \in Checks \ {"git"}}
                         \cup {IF git \in Commits THEN "ok" ELSE "warn"}
<1>1. /\ Runs("health") /\ req # None /\ req.route = "health" /\ WorldType
      /\ \A c \in Checks : req.view[c] # None
      /\ Answer(Status(verdicts), IF git \in Commits THEN git ELSE None)
  BY DEF Respond, Runs, Inv
<1>2. Boards \subseteq Sources /\ Sources \subseteq Checks \ {"git"} /\ "git" \in Checks
  BY <1>1, SourceFacts DEF Checks
<1>3. /\ \A c \in Checks \ {"git"} : /\ req.view[c] \in {"ok", "warn", "fail"}
                                     /\ req.view[c] = "ok" => c \in held
                                     /\ req.view[c] # "ok" => c \in lost
      /\ git \in Commits \cup {"warn"}
      /\ git = "warn" => "git" \in lost
      /\ git # "warn" => "git" \in held /\ git \in heads
  BY <1>1, <1>2 DEF Inv, Running, VerdictInv, GitInv
<1>4. None \notin Commits /\ "warn" \notin Commits
  BY ConstantFacts
<1>5. Status(verdicts) \in {"ok", "warn", "fail"}
  BY DEF Status
<1>6. Status(verdicts) = "ok" <=> (\A c \in Checks \ {"git"} : req.view[c] = "ok") /\ git \in Commits
  <2>1. verdicts \subseteq {"ok", "warn", "fail"}
    BY <1>3
  <2>2. Status(verdicts) = "ok" <=> verdicts \subseteq {"ok"}
    BY <2>1 DEF Status
  <2>3. verdicts \subseteq {"ok"} <=>
          (\A c \in Checks \ {"git"} : req.view[c] = "ok") /\ git \in Commits
    OBVIOUS
  <2>4. QED
    BY <2>2, <2>3
<1>7. Status(verdicts) = "ok" => Checks \subseteq held
  BY <1>3, <1>4, <1>6
<1>8. Status(verdicts) # "ok" => lost # {}
  BY <1>3, <1>4, <1>6
<1>9. /\ git \in Commits => git # None /\ git \in heads
      /\ git \notin Commits => "git" \in lost
  BY <1>3, <1>4
<1>10. \A k \in Boards :
         /\ Calls(req.route, req.view[k]) => Told(req.route, k)
         /\ ~ Calls(req.route, req.view[k]) => NotThen(req.route, k)
  BY <1>1, <1>2 DEF Calls, Inv, Running, VerdictInv
<1> HIDE DEF verdicts, git
<1>11. /\ WorldType' /\ HistoryType' /\ RequestType' /\ FileInv' /\ KnownInv' /\ RefutedInv'
       /\ Running' /\ AnswerInv'
       /\ UNCHANGED <<Sources, Boards, Checks, Summarized, Excused, held, lost, heads>>
  BY <1>1, <1>5, <1>10, Answered
<1>12. /\ answer'.route = "health" /\ answer'.status = Status(verdicts)
       /\ answer'.head = IF git \in Commits THEN git ELSE None
  BY <1>1 DEF Answer
<1>13. ReceiptWasSo'
  BY <1>7, <1>8, <1>9, <1>11, <1>12 DEF ReceiptWasSo
<1>14. ShownWasSo'
  BY <1>12 DEF ShownWasSo
<1>15. QED
  BY <1>11, <1>13, <1>14 DEF Inv
-----------------------------------------------------------------------------
LEMMA NextInv == ASSUME Inv, [Next]_vars PROVE Inv'
<1>1. ASSUME NEW route \in {"dashboard", "health"}, Request(route) PROVE Inv'
  BY <1>1, RequestInv
<1>2. ASSUME NEW k \in Boards, OpenBoard(k) PROVE Inv'
  BY <1>2, OpenBoardInv
<1>3. ASSUME NEW k \in Boards, JudgeBoard(k) PROVE Inv'
  BY <1>3, JudgeBoardInv
<1>4. ASSUME NEW k \in Sources, StatSnapshot(k) PROVE Inv'
  BY <1>4, StatSnapshotInv
<1>5. ASSUME NEW k \in Sources, ReadSnapshot(k) PROVE Inv'
  BY <1>5, ReadSnapshotInv
<1>6. ASSUME NEW k \in Sources, Replace(k) PROVE Inv'
  BY <1>6, WorldInv DEF WorldStep
<1>7. CASE LoadMap
  BY <1>7, LoadMapInv
<1>8. CASE CheckConsistency
  BY <1>8, CheckConsistencyInv
<1>9. CASE ReadLoose
  BY <1>9, ReadLooseInv
<1>10. CASE ReadPacked
  BY <1>10, ReadPackedInv
<1>11. CASE Render
  BY <1>11, RenderInv
<1>12. CASE Respond
  BY <1>12, RespondInv
<1>13. CASE PackRefs \/ PruneRef \/ MoveBranch \/ Tick
  BY <1>13, WorldInv DEF WorldStep
<1>14. CASE UNCHANGED vars
  <2>1. UNCHANGED <<world, req, history, answer, refuted>>
    BY <1>14 DEF vars
  <2>2. CASE req = None
    <3>1. /\ UNCHANGED <<time, files, loose, packed, settings, changes, req, answer, refuted,
                        lain, held, lost, heads>>
      BY <2>1 DEF world, history
    <3>2. UNCHANGED <<Sources, Boards, Checks, Summarized, Excused, Asked, Document, Entries>>
      BY <3>1 DEF Sources, Boards, Checks, Summarized, Excused, Asked, Document, Entries, Time
    <3>3. WorldType' /\ HistoryType' /\ RequestType' /\ FileInv' /\ KnownInv' /\ Running'
      BY <2>2, <3>1, <3>2 DEF Inv, WorldType, HistoryType, RequestType, FileInv, Sound, KnownInv,
        Running, BoardInv, VerdictInv, MtimeInv, GitInv, Runs
    <3>4. RefutedInv'
      BY <3>1, <3>2 DEF Inv, RefutedInv, Throughout, BoardGood, ReceiptGood, ReceiptAccepts, Holds, Time
    <3>5. AnswerInv'
      BY <3>1, <3>2 DEF Inv, AnswerInv, Calls, View, Told, BoardAlone, ReceiptAlone, Holds
    <3>6. ShownWasSo' /\ ReceiptWasSo'
      BY <3>1, <3>2 DEF Inv, ShownWasSo, ReceiptWasSo, Excused, View
    <3>7. QED
      BY <3>3, <3>4, <3>5, <3>6 DEF Inv
  <2>3. CASE req # None
    <3>1. /\ WorldType' /\ HistoryType' /\ FileInv' /\ KnownInv' /\ RefutedInv'
          /\ UNCHANGED <<Sources, Boards, Checks, Excused, Views, Results, Entries>>
          /\ \A route, k : Told(route, k) => Told(route, k)'
          /\ AnswerInv' /\ ShownWasSo' /\ ReceiptWasSo'
          /\ \A k : NotThen(req.route, k) => NotThen(req.route, k)'
      BY <2>1, <2>3, SameWorld
    <3>2. UNCHANGED <<time, files, packed, settings, lain, held, lost, heads, req>>
      BY <2>1 DEF world, history
    <3>3. RequestType'
      BY <2>1, <2>3, ShapeFacts DEF Inv, RequestType
    <3>4. \A k : /\ req.route = "health" /\ NotThen("health", k) => NotThen("health", k)'
                /\ req.route = "dashboard" /\ NotThen("dashboard", k) => NotThen("dashboard", k)'
      BY <3>1, <3>2
    <3>5. Running'
      BY <3>1, <3>2, <3>4 DEF Inv, Running, BoardInv, VerdictInv, MtimeInv, GitInv, Runs, Fresh, View,
        Document, Time
    <3>6. QED
      BY <3>1, <3>3, <3>5 DEF Inv
  <2>4. QED
    BY <2>2, <2>3
<1>15. QED
  BY <1>1, <1>2, <1>3, <1>4, <1>5, <1>6, <1>7, <1>8, <1>9, <1>10, <1>11, <1>12, <1>13, <1>14 DEF Next

\* The invariant holds in every reachable state.
THEOREM Invariance == Spec => []Inv
  BY InitInv, NextInv, PTL DEF Spec

\* Requests, files, refs and what is remembered of them keep their types.
THEOREM TypeCorrect == Spec => []TypeOK
<1>1. ASSUME Inv PROVE TypeOK
  <2>1. /\ time \in Time /\ changes \in 0..MaxChanges
        /\ files \in [Kinds -> Document \cup {Absent, Unreadable}]
        /\ loose \in Commits \cup {None} /\ packed \in Commits \cup {None}
        /\ lain \subseteq Sources \X (Document \cup {Absent, Unreadable})
        /\ held \cup lost \subseteq Checks /\ heads \subseteq Commits \cup {None}
        /\ refuted \subseteq Boards \X {"dashboard", "health"}
        /\ answer # None =>
             answer.status \in {"healthy", "attention", "critical", "ok", "warn", "fail"}
    BY <1>1 DEF Inv, WorldType, HistoryType, AnswerInv, Entries
  <2>2. Runs("dashboard") =>
          \A k \in Boards : /\ req.view[k] \in Views \cup {None}
                            /\ req.text[k] \in Document \cup {Absent, Unreadable, None}
    BY <1>1 DEF Inv, Running, BoardInv, RequestType, RequestShape, Runs, Entries
  <2>3. Runs("health") => \A c \in Checks \ {"git"} : req.view[c] \in {"ok", "warn", "fail", None}
    BY <1>1 DEF Inv, Running, VerdictInv
  <2>4. QED
    BY <2>1, <2>2, <2>3 DEF TypeOK
<1>2. QED
  BY <1>1, Invariance, PTL

\* Every source the dashboard shows as fresh was valid and recent at some moment
\* of the request; of every one it does not show so, something that lay there
\* during the request was not, then or by the answer.
THEOREM Shown == Spec => []ShownWasSo
<1>1. Inv => ShownWasSo
  BY DEF Inv
<1>2. QED
  BY <1>1, Invariance, PTL

\* What the receipt says of the snapshots, the release's head and HEAD was so
\* during the request.
THEOREM Receipt == Spec => []ReceiptWasSo
<1>1. Inv => ReceiptWasSo
  BY DEF Inv
<1>2. QED
  BY <1>1, Invariance, PTL

\* What an answer has not called current no later answer does until it is
\* replaced, but for what the two routes look at differently.
THEOREM Consistent == Spec => []RefutedStays
<1>1. ASSUME Inv PROVE RefutedStays
  BY <1>1 DEF Inv, AnswerInv, RefutedStays, Told
<1>2. QED
  BY <1>1, Invariance, PTL
=============================================================================
