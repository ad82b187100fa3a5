------------------------------ MODULE Deployment ------------------------------
(***************************************************************************)
(* The commands of scripts/leitstand-release.py around the cutover: deploy *)
(* prepares a Systemkatalog release, builds a Leitstand release, confirms  *)
(* that both remotes still stand where they stood, replays a completed     *)
(* deployment or runs the cutover, and records the completion; switch and  *)
(* rollback run the cutover with the configuration the operator pinned.    *)
(*                                                                         *)
(* The cutover is AtomicCutover, which Cutover implements; deploy_lock     *)
(* (proved exclusive there) is the single variable op.  The remotes, the   *)
(* timer's exporter, the operator's edits of runtime.json and damage to a  *)
(* sealed directory happen at any moment.                                  *)
(***************************************************************************)
EXTENDS Naturals

CONSTANTS
  MaxHead,     \* bound: Leitstand commits on remote main, in their order
  MaxCatalog,  \* bound: Systemkatalog commits on remote main, in their order
  MaxMoves,    \* bound: moves of the two remotes together
  MaxFaults,   \* bound: failed steps, kills and failed exports in a behaviour
  Legacy,      \* the unmanaged tree a first cutover may start from
  None         \* absent

ASSUME DeploymentAssumption ==
  /\ MaxHead \in Nat \ {0} /\ MaxCatalog \in Nat \ {0} /\ MaxFaults \in Nat
  /\ MaxMoves \in Nat
  /\ Legacy \notin 1..MaxHead
  /\ None \notin (1..MaxHead) \cup (1..MaxCatalog) \cup {Legacy}

Heads == 1..MaxHead
Catalogs == 1..MaxCatalog

VARIABLES
  main,          \* Leitstand's remote main
  catalogMain,   \* Systemkatalog's remote main
  pin,           \* the Systemkatalog commit runtime.json names
  releases,      \* Leitstand releases below the release base
  catalogs,      \* Systemkatalog releases below theirs
  headSnapshot,  \* ecosystem-map-current-head.json: the exported remote main
  installed,     \* selectors, unit files and timer
  trusted,       \* no interrupted cutover since the last complete one
  completion,    \* completion records by deployment key
  receipts,      \* deployment keys with a success receipt of `deploy`
  op,            \* the command that holds deploy_lock
  result,        \* what the last command ended with
  faults

remotes == <<main, catalogMain>>
stores == <<releases, catalogs>>
installation == <<installed, trusted>>
records == <<completion, receipts>>
vars == <<remotes, pin, stores, headSnapshot, installation, records, op, result, faults>>

Cutover == INSTANCE AtomicCutover WITH Managed <- Heads, Configs <- Catalogs

\* _managed_release: only a release that verifies becomes the new fallback
FallbackVerifies ==
  installed'.previous \in {installed.previous} \cup {h \in Heads : releases[h] = "intact"}

\* the deployment key: source commit and runtime configuration digest
Key == [release : Heads, config : Catalogs]
Directory == {"absent", "intact", "damaged"}
Image == [release : Heads \cup {Legacy}, config : Catalogs]
Steps ==
  {"prepare", "clone", "verify_clone", "build", "publish", "verify_build",
   "confirm_source", "confirm_catalog", "completion", "replay", "cutover",
   "produce", "postflight", "receipt", "sidecar", "record"}
Outcomes == {"built", "deployed", "replayed", "switched", "refused", "blocked",
             "restored", "failed"}
Operation == [command : {"build", "deploy", "switch"}, step : Steps,
              image : [release : Heads, config : Catalogs \cup {None}]]
Result == [command : {"build", "deploy", "switch"}, outcome : Outcomes,
           image : [release : Heads, config : Catalogs \cup {None}]]

TypeOK ==
  /\ main \in Heads /\ catalogMain \in Catalogs /\ pin \in Catalogs
  /\ releases \in [Heads -> Directory]
  /\ catalogs \in [Catalogs -> Directory]
  /\ headSnapshot \in Catalogs \cup {None}
  /\ installed \in [current : Heads \cup {None}, previous : Heads \cup {None},
                    units : [Cutover!Units -> Image \cup {None}],
                    timer : [enabled : BOOLEAN, active : BOOLEAN]]
  /\ trusted \in BOOLEAN
  /\ completion \in [Key -> {"none", "sidecar", "whole"}]
  /\ receipts \in SUBSET Key
  /\ op \in Operation \cup {None}
  /\ result \in Result \cup {None}
  /\ faults \in 0..MaxFaults

Init ==
  /\ main = 1 /\ catalogMain = 1 /\ pin = 1
  /\ releases = [h \in Heads |-> "absent"]
  /\ catalogs \in [Catalogs -> {"absent", "intact"}]
  /\ \A c \in Catalogs : c > catalogMain => catalogs[c] = "absent"
  /\ headSnapshot = None
  /\ Cutover!Init
  /\ completion = [k \in Key |-> "none"]
  /\ receipts = {}
  /\ op = None /\ result = None /\ faults = 0

At(step) == op # None /\ op.step = step
Goto(step) == op' = [op EXCEPT !.step = step] /\ UNCHANGED result
End(outcome) ==
  /\ op' = None
  /\ result' = [command |-> op.command, outcome |-> outcome, image |-> op.image]

\* the unit files render this release and configuration (units_match) and the
\* selector names it
Matches(image) ==
  /\ installed.current = image.release
  /\ \A u \in Cutover!Units : installed.units[u] = image

\* postflight as far as it depends on what happens around the cutover: the
\* release verifies, its map manifest can be read, and /health finds the
\* exported Systemkatalog head equal to the configured one
Healthy(image) ==
  /\ releases[image.release] = "intact"
  /\ catalogs[image.config] # "absent"
  /\ headSnapshot = image.config
-----------------------------------------------------------------------------
(***************************************************************************)
(* Commands                                                                *)
(***************************************************************************)
Start(command, image, step) ==
  /\ op = None
  /\ op' = [command |-> command, step |-> step, image |-> image]
  /\ result' = None
  /\ UNCHANGED <<remotes, pin, stores, headSnapshot, installation, records, faults>>

StartDeploy(head) ==
  head <= main /\ Start("deploy", [release |-> head, config |-> None], "prepare")

StartBuild(head) ==
  head <= main /\ Start("build", [release |-> head, config |-> None], "build")

\* switch, and rollback with or without an explicit head: the pinned
\* configuration, and a release that is there
StartSwitch(head) ==
  /\ releases[head] # "absent"
  /\ Start("switch", [release |-> head, config |-> pin], "cutover")
-----------------------------------------------------------------------------
(***************************************************************************)
(* deploy: preparation, build, confirmation                                *)
(***************************************************************************)
\* seeded fault: a release that no longer verifies is removed, as is done for
\* one this attempt has just published
PrepareRemoving ==
  /\ At("prepare")
  /\ LET c == catalogMain
     IN /\ IF catalogs[c] = "damaged" THEN End("refused")
           ELSE op' = [op EXCEPT !.image.config = c,
                         !.step = IF catalogs[c] = "absent" THEN "clone" ELSE "build"]
                /\ UNCHANGED result
        /\ catalogs' = IF catalogs[c] = "damaged"
                       THEN [catalogs EXCEPT ![c] = "absent"] ELSE catalogs
  /\ UNCHANGED <<remotes, pin, releases, headSnapshot, installation, records, faults>>

\* prepare_systemkatalog_runtime_config: read remote main; reuse the release
\* of that commit if it verifies
Prepare ==
  /\ At("prepare")
  /\ LET c == catalogMain
     IN IF catalogs[c] = "damaged" THEN End("refused")
        ELSE /\ op' = [op EXCEPT !.image.config = c,
                         !.step = IF catalogs[c] = "absent" THEN "clone" ELSE "build"]
             /\ UNCHANGED result
  /\ UNCHANGED <<remotes, pin, stores, headSnapshot, installation, records, faults>>

\* clone main into a temporary sibling, verify it against the commit that was
\* read, seal and rename: a remote that moved meanwhile fails the verification
Clone ==
  /\ At("clone")
  /\ IF catalogMain = op.image.config
     THEN /\ catalogs' = [catalogs EXCEPT ![op.image.config] = "intact"]
          /\ Goto("verify_clone")
     ELSE End("refused") /\ UNCHANGED catalogs
  /\ UNCHANGED <<remotes, pin, releases, headSnapshot, installation, records, faults>>

\* what _remove_systemkatalog_temporary_release makes of the directory just
\* renamed into place: gone, or what a removal that ignores errors leaves of it
Removals ==
  {[catalogs EXCEPT ![op.image.config] = left] : left \in {"absent", "damaged"}}

\* verify what was renamed into place; what this attempt has created and does
\* not verify is removed again
VerifyClone ==
  /\ At("verify_clone")
  /\ IF catalogs[op.image.config] = "intact"
     THEN Goto("build") /\ UNCHANGED catalogs
     ELSE End("refused") /\ catalogs' \in Removals
  /\ UNCHANGED <<remotes, pin, releases, headSnapshot, installation, records, faults>>

\* build_release: source_identity, then reuse of an existing release
Build ==
  /\ At("build")
  /\ LET h == op.image.release
     IN IF main # h \/ releases[h] = "damaged" THEN End("refused")
        ELSE IF releases[h] = "absent" THEN Goto("publish")
        ELSE IF op.command = "build" THEN End("built") ELSE Goto("confirm_source")
  /\ UNCHANGED <<remotes, pin, stores, headSnapshot, installation, records, faults>>

\* validation, a second source_identity, archive, manifest, seal, rename
Publish ==
  /\ At("publish")
  /\ IF main # op.image.release THEN End("refused") /\ UNCHANGED releases
     ELSE /\ releases' = [releases EXCEPT ![op.image.release] = "intact"]
          /\ Goto("verify_build")
  /\ UNCHANGED <<remotes, pin, catalogs, headSnapshot, installation, records, faults>>

\* verify what was renamed into place; on a failure only the temporary
\* directory is cleared away, which is the release's own no longer
VerifyBuild ==
  /\ At("verify_build")
  /\ IF releases[op.image.release] # "intact" THEN End("refused")
     ELSE IF op.command = "build" THEN End("built") ELSE Goto("confirm_source")
  /\ UNCHANGED <<remotes, pin, stores, headSnapshot, installation, records, faults>>

\* the source identity is read once more after the build
ConfirmSource ==
  /\ At("confirm_source")
  /\ IF main = op.image.release THEN Goto("confirm_catalog") ELSE End("refused")
  /\ UNCHANGED <<remotes, pin, stores, headSnapshot, installation, records, faults>>

\* confirm_systemkatalog_runtime_config
ConfirmCatalog ==
  /\ At("confirm_catalog")
  /\ IF catalogMain = op.image.config /\ catalogs[op.image.config] = "intact"
     THEN Goto("completion") ELSE End("refused")
  /\ UNCHANGED <<remotes, pin, stores, headSnapshot, installation, records, faults>>
-----------------------------------------------------------------------------
(***************************************************************************)
(* deploy: replay or cutover                                               *)
(***************************************************************************)
\* seeded fault: a completion record is believed without looking at the host
ReadCompletionTrusting ==
  /\ At("completion")
  /\ CASE completion[op.image] = "none"    -> Goto("cutover")
       [] completion[op.image] = "sidecar" -> End("blocked")
       [] completion[op.image] = "whole"   -> Goto("replay")
  /\ UNCHANGED <<remotes, pin, stores, headSnapshot, installation, records, faults>>

\* _read_completion refuses a record without its sidecar or a sidecar without
\* its record; a record replays only while selector and units match it
ReadCompletion ==
  /\ At("completion")
  /\ CASE completion[op.image] = "none"    -> Goto("cutover")
       [] completion[op.image] = "sidecar" -> End("blocked")
       [] completion[op.image] = "whole"   ->
            IF Matches(op.image) THEN Goto("replay") ELSE End("blocked")
  /\ UNCHANGED <<remotes, pin, stores, headSnapshot, installation, records, faults>>

\* the postflight of a replay; after an interrupted cutover the process that
\* runs may be another one than the units say
Replay ==
  /\ At("replay")
  /\ \/ Healthy(op.image) /\ installed.timer = Cutover!TimerOn /\ End("replayed")
     \/ (~ Healthy(op.image) \/ installed.timer # Cutover!TimerOn \/ ~ trusted)
        /\ End("refused")
  /\ UNCHANGED <<remotes, pin, stores, headSnapshot, installation, records, faults>>

\* without a selector, _running_target raises when the running process sits
\* outside the unit's tree, as one started by an undone first cutover may
MayMismatch ==
  installed.current = None /\ (~ trusted \/ installed.units["web"] # None)

\* switch_transaction up to its first effect
Begin ==
  /\ At("cutover")
  /\ \/ releases[op.image.release] = "intact" /\ Goto("produce")
     \/ releases[op.image.release] # "intact" /\ End("refused")
     \/ MayMismatch /\ End("refused")
  /\ UNCHANGED <<remotes, pin, stores, headSnapshot, installation, records, faults>>

\* seeded fault: the cutover leaves the exporter to the timer
ProduceLater ==
  /\ At("produce")
  /\ Goto("postflight")
  /\ UNCHANGED <<remotes, pin, stores, headSnapshot, installation, records, faults>>

\* the operator-snapshot producer exports Systemkatalog's remote main, or that
\* it could not be read; the unit succeeds either way
Produce ==
  /\ At("produce")
  /\ \/ headSnapshot' = catalogMain /\ UNCHANGED faults
     \/ /\ faults < MaxFaults /\ faults' = faults + 1
        /\ headSnapshot' = None
  /\ Goto("postflight")
  /\ UNCHANGED <<remotes, pin, stores, installation, records>>

\* postflight decides: the cutover is complete, or the prior state is restored
Postflight ==
  /\ At("postflight")
  /\ IF Healthy(op.image)
     THEN /\ Cutover!Switch(op.image) /\ FallbackVerifies
          /\ IF op.command = "deploy" THEN Goto("receipt") ELSE End("switched")
     ELSE End("restored") /\ UNCHANGED installation
  /\ UNCHANGED <<remotes, pin, stores, headSnapshot, records, faults>>
-----------------------------------------------------------------------------
(***************************************************************************)
(* deploy: the receipt and _write_completion                               *)
(***************************************************************************)
\* seeded fault: the receipt names the configuration before its resolution
WriteReceiptUnresolved ==
  /\ At("receipt")
  /\ receipts' = receipts \cup {[op.image EXCEPT !.config = None]}
  /\ Goto("sidecar")
  /\ UNCHANGED <<remotes, pin, stores, headSnapshot, installation, completion, faults>>

\* the success receipt of the deployment
WriteReceipt ==
  /\ At("receipt")
  /\ receipts' = receipts \cup {op.image}
  /\ Goto("sidecar")
  /\ UNCHANGED <<remotes, pin, stores, headSnapshot, installation, completion, faults>>

\* the SHA-256 sidecar is created first
WriteSidecar ==
  /\ At("sidecar")
  /\ completion' = [completion EXCEPT ![op.image] = "sidecar"]
  /\ Goto("record")
  /\ UNCHANGED <<remotes, pin, stores, headSnapshot, installation, receipts, faults>>

\* then the record is renamed into place; making the rename durable may fail
\* after it
WriteRecord ==
  /\ At("record")
  /\ completion' = [completion EXCEPT ![op.image] = "whole"]
  /\ \/ End("deployed") /\ UNCHANGED faults
     \/ End("failed") /\ faults < MaxFaults /\ faults' = faults + 1
  /\ UNCHANGED <<remotes, pin, stores, headSnapshot, installation, receipts>>
-----------------------------------------------------------------------------
(***************************************************************************)
(* Failures, and what happens around the commands                          *)
(***************************************************************************)
\* seeded fault: an error of the cutover is reported but not raised
FailSwallowed ==
  /\ op # None
  /\ faults < MaxFaults /\ faults' = faults + 1
  /\ IF op.step \in {"produce", "postflight"}
     THEN /\ \/ UNCHANGED installation
             \/ Cutover!Interrupt(op.image) /\ FallbackVerifies
          /\ IF op.command = "deploy" THEN Goto("receipt") ELSE End("failed")
     ELSE End("failed") /\ UNCHANGED installation
  /\ UNCHANGED <<remotes, pin, stores, headSnapshot, records>>

\* a step raises, or the command is killed: a cutover under way is undone
\* completely, or left as AtomicCutover allows; a Systemkatalog release whose
\* verification raises is removed, one whose verification is killed stays
Fail ==
  /\ op # None
  /\ faults < MaxFaults /\ faults' = faults + 1
  /\ \/ UNCHANGED <<installation, catalogs>>
     \/ /\ op.step \in {"produce", "postflight"}
        /\ Cutover!Interrupt(op.image) /\ FallbackVerifies
        /\ UNCHANGED catalogs
     \/ /\ op.step = "verify_clone"
        /\ catalogs' \in Removals
        /\ UNCHANGED installation
  /\ End("failed")
  /\ UNCHANGED <<remotes, pin, releases, headSnapshot, records>>

\* both remotes begin at their first commit
Moves == (main - 1) + (catalogMain - 1)
MainAdvances ==
  /\ Moves < MaxMoves /\ main < MaxHead /\ main' = main + 1
  /\ UNCHANGED <<catalogMain, pin, stores, headSnapshot, installation, records, op,
                 result, faults>>

CatalogAdvances ==
  /\ Moves < MaxMoves /\ catalogMain < MaxCatalog /\ catalogMain' = catalogMain + 1
  /\ UNCHANGED <<main, pin, stores, headSnapshot, installation, records, op, result,
                 faults>>

\* the operator edits runtime.json
Repin ==
  /\ op = None
  /\ pin' \in 1..catalogMain
  /\ UNCHANGED <<remotes, stores, headSnapshot, installation, records, op, result,
                 faults>>

\* the timer is active, or a cutover under way may have activated it already
TimerRuns == installed.timer.active \/ At("produce") \/ At("postflight")

\* the timer runs the exporter; an export without the remote is a fault
TimerExport ==
  /\ TimerRuns
  /\ headSnapshot' = catalogMain
  /\ UNCHANGED <<remotes, pin, stores, installation, records, op, result, faults>>

TimerExportFails ==
  /\ TimerRuns
  /\ faults < MaxFaults /\ faults' = faults + 1
  /\ headSnapshot' = None
  /\ UNCHANGED <<remotes, pin, stores, installation, records, op, result>>

\* bytes of a sealed directory change
Damage ==
  /\ \/ \E h \in Heads : releases[h] = "intact"
          /\ releases' = [releases EXCEPT ![h] = "damaged"] /\ UNCHANGED catalogs
     \/ \E c \in Catalogs : catalogs[c] = "intact"
          /\ catalogs' = [catalogs EXCEPT ![c] = "damaged"] /\ UNCHANGED releases
  /\ faults < MaxFaults /\ faults' = faults + 1
  /\ UNCHANGED <<remotes, pin, headSnapshot, installation, records, op, result>>

Step ==
  \/ Prepare \/ Clone \/ VerifyClone \/ Build \/ Publish \/ VerifyBuild
  \/ ConfirmSource \/ ConfirmCatalog
  \/ ReadCompletion \/ Replay \/ Begin \/ Produce \/ Postflight
  \/ WriteReceipt \/ WriteSidecar \/ WriteRecord

Next ==
  \/ \E head \in Heads : StartDeploy(head) \/ StartBuild(head) \/ StartSwitch(head)
  \/ Step \/ Fail
  \/ MainAdvances \/ CatalogAdvances \/ Repin \/ TimerExport \/ TimerExportFails
  \/ Damage

Spec == Init /\ [][Next]_vars

\* a command that is not killed keeps moving, which assumes that the programs
\* it waits for without a timeout (Cutover's Unbounded) return; the timer keeps
\* firing while it runs, and the operator repeats the deployment of remote main
FairSpec ==
  /\ Spec
  /\ WF_vars(Step)
  /\ WF_vars(TimerExport)
  /\ WF_vars(\E head \in Heads : head = main /\ StartDeploy(head))
-----------------------------------------------------------------------------
(***************************************************************************)
(* Properties                                                              *)
(***************************************************************************)
\* A command that reports success has told the truth about the host: the
\* selector, all four units and the timer are those of what it says it
\* installed, also when it only replayed an earlier deployment.
SuccessIsInstalled ==
  result # None /\ result.outcome \in {"deployed", "replayed", "switched"} =>
    Matches(result.image) /\ installed.timer = Cutover!TimerOn

\* A completion record appears only for a deployment whose cutover stands and
\* whose success receipt is on disk, whatever failed or was killed before.
CompletionIsEarned ==
  [][\A k \in Key : completion[k] # "whole" /\ completion'[k] = "whole" =>
       k \in receipts /\ Matches(k) /\ trusted]_vars

\* A failed deployment cleans up after itself and nobody else: the directories
\* that the selectors and, outside an interrupted cutover, the units name are
\* there, although a Systemkatalog release that does not verify after its
\* rename is removed, and a cutover or a repinning may come before or after.
InstalledExists ==
  /\ \A h \in {installed.current, installed.previous} \ {None} : releases[h] # "absent"
  /\ trusted => \A u \in Cutover!Units :
       installed.units[u] # None /\ installed.units[u].release # Legacy =>
         /\ releases[installed.units[u].release] # "absent"
         /\ catalogs[installed.units[u].config] # "absent"

\* docs/runbooks/local-release-runtime.md, Receipts and idempotency:
\* "Repeating the identical deployment performs read-only unit and postflight
\* verification and returns the existing completion": a deployment whose
\* success receipt exists and which is still installed is not turned away by
\* the completion check.
RepeatReplays ==
  result # None /\ result.outcome = "blocked" =>
    ~ (result.image \in receipts /\ Matches(result.image))

\* What no repetition of deploy can get past: a directory that no longer
\* verifies, a completion that does not match the host or is half written, and
\* a process in the way of the first cutover.
Stuck ==
  LET key == [release |-> main, config |-> catalogMain]
  IN \/ releases[main] = "damaged" \/ catalogs[catalogMain] = "damaged"
     \/ completion[key] = "sidecar" /\ ~ At("record")
     \/ completion[key] = "whole" /\ ~ (Matches(key) /\ trusted)
     \/ MayMismatch

\* Deployment converges: once the operator does nothing but repeat the
\* deployment of remote main, and nothing of Stuck is the case, deployments
\* keep succeeding, whatever was killed, failed or moved before.
DeployConverges ==
  <>[](~ Stuck /\ (op # None => op.command = "deploy" /\ op.image.release = main)) =>
    []<>(result # None /\ result.outcome \in {"deployed", "replayed"})
=============================================================================
