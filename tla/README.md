# Leitstand: TLA+ specification and proofs

Leitstand is a read-only display of an operator's ecosystem. Producers write
snapshot files; a web server renders them; a release runtime installs, switches
and rolls back exact versions of all of it under user-systemd. This directory
specifies the parts of that system whose correctness depends on the order of
things: what is interrupted, repeated, undone, or read while it changes.

Everything is translated from the code. Module comments name the functions;
`PROJECT.json` ("map") names the lines of every definition.

## Parts of the system

| Part | State it keeps | Operations | What is hard |
| --- | --- | --- | --- |
| Release cutover (`scripts/leitstand-release.py`: `deploy_lock`, `switch_transaction`, `install_units`, `_restore_transaction`, `postflight`) | selectors `current` and `previous`, four unit files, what systemd has loaded, timer enablement and activity, the web process | lock; read the prior state; eleven effects; restore in seven actions; read back | failure of any step, failure while restoring, kills, a process that dies meanwhile, a second operator |
| Build and deployment (same file: `build_release`, `prepare_` and `confirm_systemkatalog_runtime_config`, `deploy_release`, `rollback_release`, `_read_` and `_write_completion`) | release directories, Systemkatalog directories, receipts, completion records | build, deploy, switch, rollback; verify and status only read | remotes that move meanwhile, half-written records, replays, recovery with a pinned configuration |
| Operator snapshot exporter (`scripts/leitstand-export-operator-snapshots`, `scripts/export-operator-snapshots.mjs`) | five snapshot files and their temporary files | verify the Bureau source, collect, publish five files | partial publication, two runs sharing temporary names, stale sources |
| Runtime health (`src/runtimeHealth.ts`, `src/freshnessPolicy.ts`) | none; reads eight sources per request | one receipt | non-atomic parallel reads, freshness limits, clocks |
| Storage-health collector (`scripts/collect-storage-health-runtime`, `scripts/storage-health-snapshot.mjs`) | hourly and daily series, alert state, notifications | one collection under a lock | retention at its limit, late and repeated inventories, lost transitions |
| Decision-axis selection (`scripts/decision_axis_selection.py`) | none | choose the now and later items | priorities, de-duplication, limits |
| Dashboard controllers (`src/controllers/`) | none; read snapshots | one view model per page | missing, stale and contradictory sources |
| Ecosystem map controllers (`src/controllers/ecosystemMap*.ts`) | none; read manifest, artifacts and head | map, links, navigation | alignment of manifest, artifacts and canonical head |
| Map viewer (`src/public/ecosystem-map.mjs`) | fullscreen, viewport, selection, filters, URL | render, full screen, pan, zoom, select | requests whose answer comes after the next event |
| Digest command line (`src/cli.ts`, `digest.ts`, `insights.ts`, `metrics.ts`, ...) | none | load events, select, render | bounds and ties of the selections |

How they interact: deployment runs the cutover; the cutover starts both
producers and the web service through systemd and asks the web service for
`/health`; `/health` reads the exporter's files, among them the exported head
of Systemkatalog's main branch, and compares it with the Systemkatalog release
that deployment configured. The exporter also runs from a timer that the
cutover enables.

Correctness, per part:

- Cutover: a transaction that returns installed its target everywhere; one that
  reports complete restoration put everything back; between commands nothing is
  half done unless a command was killed or said so; rollback has a target; the
  lock excludes, and is given back unless a program called without a timeout
  never returns.
- Deployment: success, receipts and completion records tell the truth about the
  host; a failed deployment removes only what it has created; repeating a
  deployment converges.
- Exporter and health: no reader sees a torn file; "ok" means recent and
  consistent; the display recovers once its sources do.
- Storage health: series are ordered and bounded, every crossing is notified
  once.
- Map page: a map shown as fresh is the one of a published head, each of its
  links leads to the line that defines its node, and nothing is called drifted
  that agrees.
- Dashboard and `/health`: each says of a source only what was so during the
  request; what one has not called current stays so until it is replaced, and
  the other calls it current only in named cases.
- Map viewer: what is drawn is what the state means, an address restores what
  was shared, a drag selects nothing, and fullscreen settles.
- Selection: equal to a reference definition.

The full list of hazards, each at its line, is in `PROJECT.json` ("hazards").

## Modules

| Module | What it is |
| --- | --- |
| `Cutover` | the coupled cutover, one action per effect of `switch_transaction` and per action of `_restore_transaction`, any number of invocations |
| `AtomicCutover` | what a cutover promises to someone who looks only between commands: all, nothing, or (killed, incomplete) a mixture of the prior state and one target |
| `CutoverProofs` | the inductive invariant of `Cutover` and its theorems |
| `CutoverRefinement` | the proof that `Cutover` implements `AtomicCutover` |
| `Deployment` | the commands around the cutover, composed with `AtomicCutover` by INSTANCE |
| `DeploymentProofs` | the inductive invariant of `Deployment`, its theorems, and that the commands use the cutover only as `AtomicCutover` has it |
| `Publication` | runs of the exporter over the five snapshot files, the timer, the sources, and what `/health` makes of the files |
| `PublicationProofs` | type correctness, and what holds while one run at a time publishes, the freshness limit among it |
| `StorageSeries` | runs of the storage-health collector, and the fold of an inventory into the bounded contract |
| `StorageProofs` | the collector's lock and inputs, and the whole contract (series, growth, notifications) against the whole history |
| `MapPage` | a request for the map page, read by read and Git command by Git command, over a source root and a head snapshot that change meanwhile |
| `MapProofs` | type correctness of `MapPage`, that a map shown as fresh is that of a published head, where its links lead, and that agreement raises no alarm |
| `Boards` | requests for the dashboard and for `/health` over the same seven snapshots and the checkout's branch |
| `BoardsProofs` | that what the dashboard and the receipt say was so during the request |
| `MapViewer` | the map page in the browser: explorer, address, pointers, fullscreen |
| `ViewerProofs` | the invariants of `MapViewer` for any graph and any inputs |
| `MCCutover`, `MCDeployment`, `MCPublication`, `MCStorage`, `MCMapPage`, `MCBoards`, `MCMapViewer` | instances for TLC |

### Cutover and the code

`current` and `previous` are the selectors; `unitFile` the four files under the
user unit directory; `loaded` what systemd read at the last `daemon-reload` (the
`WorkingDirectory` of `systemctl show` comes from here, not from the files);
`timer` and `web` the two long-running units. A unit is abstracted to the pair
it was rendered from, the release and the runtime configuration. `tx[p]` holds
the locals of `switch_transaction`: `current_state`, `previous_state`,
`unit_states`, `snapshot_timer_before`, `web_was_active`, `storage_was_loaded`,
`old_target` and `old_managed`. `pc[p]` is the next statement. `intact` holds
the releases `verify_release_path` accepts.

`Fail(p)` is any exception after `install_units`; failures inside a step that
leave part of its effect (`install_units` after n of four files, a
`systemctl restart` that stopped the old process or the timer) are disjuncts of
the step. Every restoration action may raise, before its effect or after it,
which is recorded and does not stop the next one; `systemctl` with `check=False`
may fail silently, and one that times out leaves out what comes after it
(`HalfRestored`). `RunningTargets` allows the web process to go away between
the two looks at it. `Kill` stops an
invocation anywhere: no handler runs, and the kernel drops the flock. `faults`
counts kills and failed restoration steps against the bound `MaxFaults`;
failures of forward steps are not bounded. `disturbed` is a history variable: a
kill inside the transaction or an incomplete restoration, and no success since.

Abstracted: file modes and ownership, receipts of `switch_transaction` (no
command reads them back), the HTTP part of `postflight` (it may fail at any
time, which `Fail` covers), and the contents of releases.

### Deployment and the code

One variable `op` is the command that holds the lock (mutual exclusion is
proved in `CutoverProofs`). `main` and `catalogMain` are the remote heads of
Leitstand and Systemkatalog, commits in their order. `Prepare`, `Clone`,
`VerifyClone`, `Build`, `Publish`, `VerifyBuild`, `ConfirmSource`, `ConfirmCatalog`, `ReadCompletion`,
`Replay`, `Begin`, `Produce`, `Postflight`, `WriteReceipt`, `WriteSidecar` and
`WriteRecord` are the statements of `deploy_release` and what it calls, in
their order. `Clone` and `Publish` rename a directory into place, `VerifyClone`
and `VerifyBuild` verify it there: a Systemkatalog directory that this command
has created and that does not verify, or whose verification raises, is removed
again (`Removals`: wholly, or as far as a removal that ignores errors gets); a
killed verification leaves it, and so does a failing build, whose cleanup only
knows the temporary directory. A cutover under way shows its effect at `Postflight` (complete),
or in `Fail` (undone, or `Interrupt` of `AtomicCutover`). `headSnapshot` is the
exporter's `ecosystem-map-current-head.json`; `Healthy` is what `postflight`
and `/health` make of it.

Abstracted: the identity checks on git trees, tags and manifests are one bit
per directory (`intact` or `damaged`); `required_ref` is main; `build` without
deployment is included.

### Publication and the code

`artifacts` and `temporary` are the published files and the bridge's fixed
`<file>.tmp` names. `runs[j]` is a run of the launcher: `source` the verified
Bureau commit, `observed` its `observed_at`, `stamp` the bridge's `generatedAt`,
`sections` the decision axis, `handle` what the file that the bridge has open is
called by now. Nothing in the code depends on a date, only on how long ago
something was, so every piece of evidence carries its age in ticks, which `Tick`
increases up to just past `Limit`. A file that is being written, or was when its
writer was killed, is `Torn`. `Abort` is any exception of the launcher or the
bridge: nothing is cleaned up. `Verdict` is `readSnapshotHealth` for one file.
Sections are grouped by source: now, blocked and later come from one answer of
Bureau's command.

A write is durable once made: `writeJsonAtomic` does not call fsync, so a host
that loses its power may lose what a killed process does not, which is not
modelled. Abstracted: the documents' contents, the checks on each RepoGround bundle, the
launcher's own release and configuration checks (they can only abort a run,
which `Verify` covers), and files named by `mkstemp`, which no reader sees.

### StorageSeries and the code

`inventory`, `plan` and `artifact` are the three files of
`collect-storage-health-runtime`; `runs[j].pc` is its next command. `Collected`
is `collectStorageHealth`: `ReplaceBucket`, `BuildGrowth`, `Transitions` with
`Retained` (`buildNotifications`) and `Valid` (`validateExistingContract`) are
the functions of the script, and a missing file is `emptyContract`, as in the
code. A series that passed `Valid` has one entry per bucket, so what
`replaceBucket` filters and sorts is a set of entries taken in the order of their
keys (`InOrder`). An inventory's time is arbitrary, because only the host's clock orders
inventories and a clock may be set back. `history` records every observation
published; the properties compare the bounded contract, which each run derives
from the previous contract alone, with that whole history.

Abstracted: what `validateExistingContract` asks beyond the length and the order
of the series (kind, version, arrays, limits on what one entry lists), so
`NeverRefused` speaks of the series; all sizes to one; filesystem, temporary storage and producers to
signals with a status (a producer that is missing and a status that is missing
both count as `Unknown`, as `buildNotifications` has it); the lists that a
contract copies from one inventory or plan; notifications of the same time are
ordered by digest, so which of them a trim drops is left open.

### MapPage and the code

`manifest`, `disk` and `repoHead` are the artifact manifest, the files of the
source root and the commit checked out there; `headFile` is the exporter's head
snapshot, `main` the remote it asks. `req` holds the locals of
`getEcosystemMapData`, with `step` the read or Git command that comes next;
`page` is what the route renders. `StatArtifact` and `ReadArtifact` are the two
halves of `inspectCurrentArtifact`, which runs for all artifacts side by side;
`ReadGitHead`, `ShowCommit`, `CheckAncestry` and `CompareHead` are the four
commands of `inspectAlignment`, each of which may fail or run into its timeout.
Bytes are opaque: equal ones have equal digests, and the length is a function of
them, so that a file can be of the right length and of other content. Commits
form a graph and are immutable. `published` and `undisturbed` are history for
the properties.

Abstracted: which digest algorithm, the paths' syntax, the limit on the size of
an artifact, and how many commits the manifest lies behind.

### Boards and the code

`files` holds what lies at each of seven paths: nothing, something unreadable, or
a document with at most one fault out of `AllFaults`. The same document goes to
two readers: the controller of the board (`BureauData`, `CheckoutData`,
`StorageData`, `RepoData`, `AxisData`) and `readSnapshotHealth` (`Verdict`), which
check different things; which one refuses what is read off their parsers. A
request of either route reads its files in any order: `OpenBoard` is the awaited
`readFile` of a controller and `JudgeBoard` the later turn in which what was read
is parsed and held against `Date.now()`, with replacements and time between them;
`StatSnapshot` and `ReadSnapshot` are the two reads of one check, judged against
the time the request came (`req.now`), `ReadLoose` and `ReadPacked` those of the
branch. RepoGround's index carries its own limit (`promised`, for
`staleAfterSeconds`), which its board uses and `/health` does not. `settings` is
what the server was started with, among it the commit that the name of the source
root gives (`release`, or none) and what `HEAD` holds (a branch, a commit, or
nothing readable). `lain` remembers what lay at each path during the request,
`held` and `lost` which sources were good, and which were not, at some moment of
it (a document that was replaced goes on ageing, as what a controller has read
does), `heads` which commits `HEAD` led to, and `refuted` which files an answer
has not called current, as long as they lie there.

Abstracted: records are good or one of them is not; wording and counts; the map
page's data, which `MapPage` has, is any answer it can give; where the Git
directory of a worktree is found; the fixture is not replaced; a `HEAD` that holds
something else is told as none, where the receipt repeats it with a warning. The
two clock readings of one turn of the decision axis (its sections, then the whole)
are one. `HEAD` is not switched between branch and commit while the server runs.
A request may give up on nothing: a read that fails is an answer.

### MapViewer and the code

`page` holds `activeType`, `activeLifecycle`, the search field, `selected`,
`focusDepth` and the view box; `shown` what `applyVisualState` last drew; `url`
the address, `scheduled` and `frames` the update of it that an animation frame
will do. `touch` is `pointers`, `moved` and `pendingTapTarget` of the viewport
controller; `suppressed` says that `suppressClickUntil` has not come; `due` is the
click the browser reports after the mouse button. `overlay` is `fallbackActive`,
`native` whether the browser shows the workspace alone, `drawn` what `applyState`
was last told; `entering` and `leaving` are promises not yet settled, `changed` a
`fullscreenchange` event in the queue. `gesture` and `overlapped` are history for
the properties: what the hands really did, and whether a request to enter was
made while another was open.

Abstracted: a view box is named by where it came from (the whole map, the nodes it
was fitted to, or moved), because nothing depends on its numbers; the walk of
`focusSet` is written out for its two depths. The click that a browser may report
after a finger was lifted, and a pointer lifted without having been put down, are
left out.

Arrows are drawn paths and labels, each with the relationships that
`relationElements` finds for it, whose two ids, joined, its own id contains
(`Carries`, a constant: the ids are Mermaid's). Where an id contains another, an
arrow has several, and the last in the definition decides (`Deciding`); an arrow
without a label, or to a node without a record, may have none and is never
hidden. `ShownIsCurrent` says what that leaves: an arrow with one relationship is
shown exactly with its two ends.

## Runs

| Run | Question | Instance |
| --- | --- | --- |
| `cutover` | what committed, restored and killed transactions leave behind; refinement of `AtomicCutover` | two releases, two configurations, one invocation at a time (any number in sequence), one fault; symmetric in releases and configurations; 758 671 states |
| `cutover_live` | mutual exclusion; the lock is given back unless a call without a timeout never returns | two invocations, one release, one configuration, one fault; 182 568 states |
| `deployment` | what success, completions and selectors guarantee | two commits of each repository, one fault; 3 662 941 states |
| `deployment_live` | repeated deployment converges, whichever remote moves | two commits of each repository, one move of either remote, one fault; 378 969 states |
| `publication` | torn, lost, older, mixed or stale snapshots; recovery | two Bureau commits, one failing source or interrupted run; 130 671 states |
| `publication_two_runs` | documented claim refuted | see Findings |
| `deployment_repeat` | documented claim refuted | see Findings |
| `storage` | the bounded contract against the whole history; inputs of one run; no lock-out | two callers, one signal with two alerts, three runs at any of eight times in four hours of two days; windows of three hours, one day and two notifications; 1 694 983 states |
| `storage_recovery` | documented claim refuted | see Findings |
| `map_page` | what a page that calls itself fresh shows, and when it must | four commits (a line of three and a side branch), two maps of equal length, two artifacts, two changes of the world; 1 210 441 states |
| `boards` | honesty of the dashboard and of `/health` about sources that change while they are read and judged; what an answer binds later ones to | seven snapshots in seven settings of at most two, two branch heads, one change of the world, ticks 0 to 3; 3 955 298 states |
| `map_viewer` | drawing, address, gestures and fullscreen under inputs in any order | three nodes in a chain and one not drawn, two filters with two values each, one search text, two shared addresses, three arrows, one of them ambiguous and one without a record at its end, one finger and a mouse, three inputs and any number of reloads; 540 252 states |

Why the bounds suffice. A transaction involves at most three releases: the
target, the one serving and the recorded fallback; two managed ones and the
unmanaged one give every coincidence among them that the code distinguishes,
because it compares only target with serving. Two configurations are needed to
tell a repeated switch from one that changes the configuration. One fault lets
every single step of forward and backward execution fail or be killed, and any
number of later transactions start from what that leaves; the theorems hold for
every bound. With two commits on each side a remote can move once at every
point of a deployment, which is all that its checks compare (`MaxMoves` lets both
move in `deployment` and one of them in `deployment_live`).

In `publication` a tick is five minutes: two to a timer period, four to the
freshness limit, and a run lasts less than two. One failing source stays down as
long as it likes, so any number of runs in a row are missed; one kill can hit
each of the thirteen steps.

In `storage` three runs fill and overflow the day and the notification window,
replace a bucket, arrive late, and offer the growth two baselines at unequal
distance; hours of two ticks and days of two hours make every boundary fall
between two neighbouring times. `Rest` lets the instance end when its runs are
used up.

In `map_page` two changes can fall between any two of a request's reads: the
second can undo or complete the first (a file replaced and replaced back, a head
moved and exported), which a comparison of two readings cannot tell apart. Two
maps of one length make the digest matter, the side branch and the commit with
unchanged files make ancestry and diff matter separately. Requests are
unbounded.

In `boards` each setting has the few sources that change, and the others stay as
they are and are not told of: the controllers share nothing, so a second board
beside the first shows what the headline and the receipt make of two, and each
kind is in a setting. One change and the passing of time are enough to make any
two readings of a request, a reading and its judgement, or two requests belong to
different worlds; documents of every stamp and writing time, and with a fault that
both readers see, one that only either sees, or none, come in by the change. A
RepoGround index promises less than the receipt's limit or more, so that either
reader outlives the other; `Second` is one tick here, and any number in the proofs.

In `map_viewer` three inputs are, for instance, select, widen and drag, or two
presses of a key and what interrupts them; reloads, moves, frames, promises and
events are not counted. The theorems hold for any number of inputs.

Deadlock is checked in every passing run.

## Fairness

`Cutover!FairSpec` gives each invocation weak fairness on its steps except those
in `Unbounded`: the steps that wait for a program without a timeout (`git
rev-parse` and `git archive` before the first effect, `systemctl daemon-reload`,
and the `systemctl show` of every reading of a unit). All others write files or
call `run(..., timeout=...)`, so an invocation that is not killed takes them.
`LockReleased` accordingly says that whoever keeps the lock for ever waits for
ever in one of those steps. Nothing is assumed of `Invoke`, `Kill`, the web
process or damage. `Deployment!FairSpec` is fair to the command under way, which
here also assumes that these programs return; to the timer's export while the
timer runs; and to the operator repeating `deploy` of remote main, which is the
scenario the property is about. `DeployConverges` promises success only while
`Stuck` is false; `Stuck` names what no repetition gets past.
`Publication!FairSpec` is fair to the timer's own run, which systemd starts and
restarts, and to time; that a run lasts at most `RunBound` ticks is an
assumption, because the unit sets no timeout.

## Proofs

The theorems about `Cutover` hold for every value of the constants under
`CutoverAssumption`, which only says that the model values are distinct and `MaxFaults` is a number.

- `CutoverProofs!TypeCorrect`: `Spec => []TypeOK`.
- `CutoverProofs!LockExclusive`: `Spec => []MutualExclusion`, from `LockInv`:
  whoever is between taking the lock and leaving holds it.
- `CutoverProofs!Invariance`: `Spec => []IInv`. None of the safety properties is
  inductive: that a committed host is the target follows from what every earlier
  step left, and that a restored host is the prior one follows from what the
  transaction read at its start still being the truth about everything it has
  not touched yet. `IInv` therefore says, for the invocation under way, what
  each variable is at each `pc`: `TxInv` (what was read is what was there),
  `Forward` and `Backward` (which parts are already the target's, or already the
  prior ones again), `Mixture` (unit files are the target's or the prior ones),
  `Prior` (what `_restore_transaction` has not undone yet is recorded in `tx`),
  and `Rest` (the host when no transaction is under way).
- `Committed`, `Restored`, `Settled`, `Fallbacks`: the four safety invariants of
  the run `cutover`, each from `IInv`.
- `CutoverRefinement!Refinement`: `Spec => ImplementsAtomicCutover`. While a
  transaction is under way the abstract host is the one it found; `Commit`,
  `Kill`, and a `Readback` that ends incomplete are the abstract steps, all
  others stutter.

For `Deployment`, under `DeploymentAssumption` (bounds are numbers,
model values are no commits):

- `DeploymentProofs!Invariance`. The properties alone are not inductive: that a
  success is what is installed rests on what a command established before, and on
  nobody else having touched the installation since. `CommandInv` says that the
  configuration is known from the preparation on and which steps each command
  has; `StepInv` what holds when a command reaches a step, above all that a
  deployment at its receipt is the one installed, with a trusted postflight and
  the timer on, and that its receipt is there when its completion is written.
- `TypeCorrect`, `Success` (`SuccessIsInstalled`), `Exists` (`InstalledExists`) and
  `Earned` (`CompletionIsEarned`).
  `Exists` needs to know that the Systemkatalog directory an attempt may remove
  again is named by no unit (`Unused`): it was absent when the attempt began.
- `UsesAtomicCutover`: every behaviour of `Deployment` is one of `AtomicCutover`,
  which `CutoverRefinement` proves of `Cutover`: the two modules fit together.

For `Publication`, under `PublicationAssumption` and `DocumentAssumption`
(absent and torn files are no documents):

- `PublicationProofs!TypeCorrect` for any set of runs.
- `NeverTorn`, `OnlyNewer`, `OneCommit`: the properties `NoTornSnapshot`,
  `NeverOlder` and `OneSource` under the assumption that `Timer` is the only
  job, which `publication_two_runs` shows to be needed. The invariant `PubInv`
  says what the temporary holds at each step of the run (`Handling`), that a
  run's stamps are younger than everything published before (`Younger`), and
  that Bureau's answers come from the verified commit, whose tasks are out by
  the time the decision axis is (`Answers`).
- `StaleIsMissed` (`StaleMeansMissed`), with one more assumption, `Cadence`: a
  period and a run together are no longer than the limit, as `freshnessPolicy.ts`
  chooses it (two periods; a run is shorter than one). `TimeInv` measures
  every age by the time since the timer last elapsed (`phase`): what the run under
  way stamped is no older, and while no run was missed what lies published is at
  most a period older than that if a run is due or under way, else no older.

For `StorageSeries`, under `StorageAssumption` (finitely many signals, positive
limits, distinct model values):

- `StorageProofs!CollectsAlone` and `JoinsOneRun` (`OneRun`), from `IInv`: who
  is past flock holds the lock, and what the three files hold at each of its
  steps is its own.
- `NotificationsKept` (`NotificationsMatchHistory`), from `NInv`: the alert state
  published is that of the last observation, and a contract under way folds into
  the one published now. The argument is in `TrimKeepsNewest`: trimming what was
  kept together with what is new gives the newest of everything, because an
  element that displaces another is at least as new as that one (`Displaced`),
  which is at least as new as all dropped before.
- `SeriesInvariance`, and from it `SeriesKept` (`SeriesMatchHistory`), `GrowthKept`
  (`GrowthMatchesHistory`), `Accepted` (`NeverRefused`) and `TypeCorrect`. `SInv`
  says that the contract published is typed and valid, that its windows are those
  of the history, and that a contract under way was folded from it, which the lock
  keeps true until it is published. Three lemmas carry the step. `InOrderSorts`:
  ranking entries by the number of keys below them is a bijection, by counting, so
  a sorted series exists and holds every entry once. `NewestInOrder`: its tail are
  the entries with fewer than the limit above them. `NewestAgain`: the newest of
  the newest and one more are the newest of all, which is why a run that sees only
  the window loses nothing, even when clocks go back.

For `MapPage`, under `GraphAssumption` (trees and ancestors are functions, a
commit is its own ancestor, a text is a sequence of lines, the markers are distinct):

- `MapProofs!TypeCorrect`, and `FreshIsTrue` (`FreshIsCanonical`) for any
  history and any number of changes. The invariant `ReqInv` says what a request
  has established when it reaches a step: matching artifacts are the manifest's
  digests, the exported head was published, and from one Git command to the next
  the commit's tree, the ancestry and the diff. None of it mentions the world as
  it is, which is why no change of the world can break it.
- `CalmIsFresh` (`NoFalseAlarm`): `CalmInv` follows a request that nothing
  disturbs and whose sources agree from step to step, each reading being what
  still lies there.
- `LinksAreTrue` (`LinksNameTheirNode`) for texts of any length. The lines of a
  map are taken by a recursive function, so the proof is by induction: among the
  lines at which the claim failed there would be a least one (`LeastNumber`, from
  the library's well-foundedness of the numbers), and the step to it shows that it
  does not fail. `TakenExists` gives the function in the same way, `TakenFacts` what
  it has taken up to a line.

For `Boards`, under `BoardsAssumption` (limits and promises are numbers, a second is
at least a tick, the markers are distinct):

- `BoardsProofs!Invariance`, and from it `TypeCorrect`, `Shown` (`ShownWasSo`) and
  `Receipt` (`ReceiptWasSo`), for any number of changes during a request.
  `ShownWasSo` alone is not inductive: `KnownInv` adds that what lies or
  lay at a path (`lain`) is already among `held` or `lost`, and where the branch is
  among `heads`, so that a read or a judgement, whenever it happens, finds
  something remembered. Two steps need more. `MtimeInv`: the file's time is
  taken before its text, but a file that came in between was written after the
  request began, so its age, told from the older file's time, errs only where
  `lost` already has the source. `GitInv`: once the branch's own file was seen to
  be gone, what is packed is, and stays, a commit the branch had, since only
  `PackRefs` changes it and packs what the branch points at.
- `BoardTold` says which files each controller shows as fresh (for RepoGround by
  `WholeUnits`, on ages told in whole seconds); `Agree` compares it with `Verdict`
  for one file at one time. `Consistent` (`RefutedStays`) carries that over
  requests: what was refuted was not good for the one that refuted it, has lain
  there since, and a file that is not good does not become good by ageing.

For `MapViewer`, under `ViewerAssumption` (arrows between entries of the
navigation, addresses that name views the page wrote, and what an address leaves
out or does not parse being no filter, depth or view):

- `ViewerProofs!Invariance`: what is drawn is `Drawn(page)` and a selection
  passes its filters (`Sync`), the pointers' bookkeeping never knows more than
  the hands did (`GestureInv`), `drawn` is right unless a request or an event
  is open (`FullInv`), and with no frame due the address is the page's
  (`AddressInv`: a scheduled update always has a frame to run in).
- `Current` (`ShownIsCurrent`, stated with arrows and distances where the code
  walks an index; `OneDecides`: among the relationships an arrow has, one is the
  last), `Settles` (`FullscreenSettles`) and `DragsSelectNothing`.
- `Reloads` (`ReloadShowsTheSame`): `OpensAddress` takes a page through its
  address and back. It needs `Sync`, since restoring a selection lifts each filter
  that hides it: only because a selection passes its filters are they kept.

Sorting, counting and recursion are proved about without an induction rule: a
set of numbers that is not empty has a least element, and a finite one a greatest
(`LeastNumber`, `GreatestNumber`); the rest is counting (`FiniteSetTheorems`).

Only model-checked: the liveness properties `LockReleased`, `DeployConverges` and
`Recovers` (fairness and ENABLED are out of TLAPS's reach). Every invariant and
action property of the passing runs is stated by a theorem.

## Findings

- `deployment_repeat`: a kill or a failed rename between the completion's
  sidecar and its record makes every later identical deployment fail.
- `publication_two_runs`: the bridge's fixed temporary name makes two
  overlapping runs publish a torn file, although the write is called atomic.
- `storage_recovery`: the collector's alert state holds the last inventory only,
  so a signal that was unknown between its alert and its return to ok is never
  said to have recovered, although the last state of every signal is documented
  to be kept.

Seen while modelling, and stated by no run:

- Restoration does not stop a web service that was not running before, so after a
  failed first cutover the abandoned release keeps serving while the command
  reports complete restoration.
- Once Systemkatalog's main has moved, a switch or rollback with an older pinned
  commit cannot pass `/health` and is undone (`docs/runbooks/local-release-runtime.md`
  recommends the pinned commit for recovery).
- `freshnessPolicy.ts` says that boards and `/health` cannot disagree about what is
  current. They do, in the ways `RefutedStays` lists: RepoGround's board holds the
  age, in whole seconds, against the index's own `staleAfterSeconds` and never shows
  the fixture as fresh, where `/health` has the policy's limit; the decision axis
  board judges a section by `observedAt`; a board does not take the file's time for
  a missing `generatedAt`, and checks versions and records that `/health` does not.
- A board is judged after its file was read, against the clock of that moment: a
  document that was good and is replaced in time by a fresh one may still be shown
  stale, if it ages past its limit in between. It is never shown fresh for it.
- Under `deploy.lock`, `systemctl daemon-reload` (`scripts/leitstand-release.py:2285`,
  2294, 2775), `systemctl show` (2155), `git rev-parse` (1543, 1690) and
  `git archive` (1047) are called without a timeout: one that hangs keeps the lock.
- The map viewer finds a relationship's arrows by looking for its two ids, joined,
  inside the arrows' ids. Where an id contains another, an arrow is hidden or shown
  with the last relationship that it is taken for, and an arrow whose end has no
  record in the navigation is never hidden.
- After a build's rename, a release that does not verify stays in place: only a
  Systemkatalog directory is removed again.
- `/health` reads the head snapshot twice, once as a snapshot and once for its
  consistency, so an "ok" may combine one content's freshness with another's
  commit. It judges ages by the time the request came. `ReceiptWasSo` therefore
  speaks of each check at a moment of its own.
- A failing `git show` is told as drift, not as unverifiable.
- The dashboard's headline leaves the decision axis out.
- A second request to enter fullscreen that is refused after the first was granted
  puts the overlay over the browser's fullscreen (`overlapped`). A finger put down
  during a mouse drag resets `moved`, so that the drag can end in a click. A
  `pointercancel` counts as a lift. The whole map with a record selected is
  reloaded fitted to the record, as no view is written for it. The depth outlives
  a selection that a filter takes away, and a reload forgets it.

## Plan

1. `Cutover`, `AtomicCutover`, their runs and proofs (done).
2. `Deployment` over `AtomicCutover` and its proofs (done).
3. `Publication` and its proofs (done).
4. `StorageSeries` and its proofs (done).
5. `MapPage` and its proofs (done).
6. `Boards` and its proofs (done).
7. `MapViewer` and its proofs (done); the limits of the view box.
8. `DecisionAxis`: the selection of now and later items against a reference
   definition.
9. The digest's loading and selections.

## Not modelled

Views and style sheets, build and vendoring scripts, CI guards, benchmarks and
browser regressions: they keep no state that another part depends on. The digest
command line and the decision-axis selection read their inputs once and compute;
they are planned as operators. The HTTP server's other routes render one
controller each. Of the map viewer: keyboard focus and what a screen reader is
told, the double click that leaves the page, a pointer whose release the browser
never reports, and the arithmetic that keeps the view box near the map. The menu
of a narrow window (`shell.mjs`) has one bit of state of its own.
