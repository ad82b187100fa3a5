------------------------------- MODULE Cutover -------------------------------
(***************************************************************************)
(* The coupled release cutover of scripts/leitstand-release.py:            *)
(* switch_transaction with install_units, the two selectors, the snapshot  *)
(* timer, the two producers, the web restart, postflight, and              *)
(* _restore_transaction when any of them fails.  Every command that        *)
(* changes the host (deploy, switch, rollback) runs it under deploy_lock;  *)
(* a command may be killed between any two steps, which releases the lock  *)
(* (flock) and leaves the host as it is.                                   *)
(*                                                                         *)
(* The host is what the commands share: the selectors `current` and        *)
(* `previous`, the four user-systemd unit files, the copy of them systemd  *)
(* loaded at the last daemon-reload, the timer and the web process.        *)
(***************************************************************************)
EXTENDS Naturals

CONSTANTS
  Managed,    \* release directories below releases/
  Legacy,     \* the unmanaged tree a first cutover may start from
  Configs,    \* runtime configurations (runtime.json contents)
  Procs,      \* invocations of the CLI
  None,       \* absent selector, unit file, process or lock holder
  MaxFaults   \* bound: kills and failed restoration steps in one behaviour

ASSUME CutoverAssumption ==
  /\ Legacy \notin Managed
  /\ None \notin Managed \cup Procs \cup {Legacy}
  /\ None \notin [release : Managed \cup {Legacy}, config : Configs]
  /\ MaxFaults \in Nat

VARIABLES
  current,    \* releases/../current: the selected release
  previous,   \* releases/../previous: the release rollback returns to
  unitFile,   \* the unit files on disk
  loaded,     \* the unit files as systemd last loaded them
  timer,      \* enablement and activity of the operator-snapshot timer
  web,        \* leitstand.service: its state and the tree its process runs in
  intact,     \* managed releases that verify_release_path accepts
  lock,       \* holder of deploy.lock
  pc,         \* the step each invocation is about to take
  tx,         \* the locals of switch_transaction in each invocation
  errors,     \* a restoration step of the invocation raised
  faults,     \* kills and failed restoration steps so far
  disturbed   \* a kill or an incomplete restoration since the last success

host == <<current, previous, unitFile, loaded, timer, web>>
vars == <<host, intact, lock, pc, tx, errors, faults, disturbed>>

Releases == Managed \cup {Legacy}

(***************************************************************************)
(* A rendered unit is determined by the release it starts and the runtime  *)
(* configuration (rendered_unit_specs).                                    *)
(***************************************************************************)
Units == {"web", "storage", "snapshots", "timer"}
Image == [release : Releases, config : Configs]
UnitState == Image \cup {None}

\* install_units and _restore_units write the files in this order
WriteOrder == [u \in Units |-> CASE u = "web" -> 1 [] u = "storage" -> 2
                                 [] u = "snapshots" -> 3 [] u = "timer" -> 4]
Rendered(image) == [u \in Units |-> image]
\* the unit files after the first n writes of `files`
Written(files, n) ==
  [u \in Units |-> IF WriteOrder[u] <= n THEN files[u] ELSE unitFile[u]]

TimerState == [enabled : BOOLEAN, active : BOOLEAN]
WebState ==
  [state : {"inactive", "activating", "active"}, cwd : Releases \cup {None}]
Stopped(state) == [state |-> state, cwd |-> None]
\* a process started from the loaded web unit
Started == [state |-> "active", cwd |-> loaded["web"].release]

Applying ==
  {"install", "reload", "select_previous", "select_current", "enable_timer",
   "start_timer", "snapshots", "storage", "restart_web", "postflight", "receipt"}
Restoring ==
  {"undo_install", "r_current", "r_previous", "r_units", "r_reload", "r_timer",
   "r_storage", "r_web", "readback"}
Ended == {"committed", "restored", "incomplete"}
Critical == {"locked"} \cup Applying \cup Restoring \cup Ended
Phases == {"idle", "waiting"} \cup Critical

\* what switch_transaction reads before its first effect, and its target
Transaction ==
  [image : [release : Managed, config : Configs],
   current : Managed \cup {None}, previous : Managed \cup {None},
   units : [Units -> UnitState], timer : TimerState,
   webActive : BOOLEAN, storageLoaded : BOOLEAN,
   oldTarget : Releases \cup {None}, oldManaged : BOOLEAN]

TypeOK ==
  /\ current \in Managed \cup {None}
  /\ previous \in Managed \cup {None}
  /\ unitFile \in [Units -> UnitState]
  /\ loaded \in [Units -> UnitState]
  /\ timer \in TimerState
  /\ web \in WebState
  /\ intact \in SUBSET Managed
  /\ lock \in Procs \cup {None}
  /\ pc \in [Procs -> Phases]
  /\ tx \in [Procs -> Transaction \cup {None}]
  /\ errors \in [Procs -> BOOLEAN]
  /\ faults \in 0..MaxFaults
  /\ disturbed \in BOOLEAN

(***************************************************************************)
(* Before the first cutover the host has no Leitstand unit at all, or the  *)
(* two original units run an unmanaged tree.                               *)
(***************************************************************************)
LegacyUnits(config) ==
  [u \in Units |-> IF u \in {"web", "storage"}
                   THEN [release |-> Legacy, config |-> config] ELSE None]

Init ==
  /\ current = None
  /\ previous = None
  /\ unitFile \in {[u \in Units |-> None]} \cup {LegacyUnits(c) : c \in Configs}
  /\ loaded = unitFile
  /\ timer = [enabled |-> FALSE, active |-> FALSE]
  /\ web \in {Stopped("inactive")} \cup
       IF unitFile["web"] = None THEN {} ELSE {[state |-> "active", cwd |-> Legacy]}
  /\ intact = Managed
  /\ lock = None
  /\ pc = [p \in Procs |-> "idle"]
  /\ tx = [p \in Procs |-> None]
  /\ errors = [p \in Procs |-> FALSE]
  /\ faults = 0
  /\ disturbed = FALSE

At(p, phase) == pc[p] = phase
Goto(p, phase) == pc' = [pc EXCEPT ![p] = phase]
\* the locals, the lock and the bookkeeping stay as they are
Keep == UNCHANGED <<intact, lock, tx, errors, faults, disturbed>>
-----------------------------------------------------------------------------
(***************************************************************************)
(* deploy_lock                                                             *)
(***************************************************************************)
Invoke(p) ==
  /\ At(p, "idle")
  /\ Goto(p, "waiting")
  /\ UNCHANGED host /\ Keep

\* seeded fault: a shared lock
AcquireShared(p) ==
  /\ At(p, "waiting")
  /\ lock' = p
  /\ Goto(p, "locked")
  /\ UNCHANGED <<host, intact, tx, errors, faults, disturbed>>

Acquire(p) ==
  /\ At(p, "waiting")
  /\ lock = None
  /\ lock' = p
  /\ Goto(p, "locked")
  /\ UNCHANGED <<host, intact, tx, errors, faults, disturbed>>

\* the deadline passes while another invocation holds the lock
LockTimeout(p) ==
  /\ At(p, "waiting")
  /\ lock # None
  /\ Goto(p, "idle")
  /\ UNCHANGED host /\ Keep

\* seeded fault: a lock file that only a later owner would clear
LeaveLocked(p) ==
  /\ Goto(p, "idle")
  /\ tx' = [tx EXCEPT ![p] = None]
  /\ errors' = [errors EXCEPT ![p] = FALSE]
  /\ UNCHANGED lock

\* leaving the command: closing the descriptor releases the flock
Leave(p) ==
  /\ Goto(p, "idle")
  /\ lock' = IF lock = p THEN None ELSE lock
  /\ tx' = [tx EXCEPT ![p] = None]
  /\ errors' = [errors EXCEPT ![p] = FALSE]

\* verification, a precondition, the backup or the started receipt fails
\* before the first effect
Refuse(p) ==
  /\ At(p, "locked")
  /\ Leave(p)
  /\ UNCHANGED <<host, intact, faults, disturbed>>

Exit(p) ==
  /\ pc[p] \in Ended
  /\ Leave(p)
  /\ UNCHANGED <<host, intact, faults, disturbed>>

Kill(p) ==
  /\ pc[p] \in Critical
  /\ faults < MaxFaults
  /\ faults' = faults + 1
  /\ disturbed' = (disturbed \/ pc[p] \in Applying \cup Restoring)
  /\ Leave(p)
  /\ UNCHANGED <<host, intact>>
-----------------------------------------------------------------------------
(***************************************************************************)
(* switch_transaction: the reads before the first effect                   *)
(***************************************************************************)
\* _running_target: the loaded WorkingDirectory; it raises when a running
\* process sits in another tree
RunningTarget == IF loaded["web"] = None THEN None ELSE loaded["web"].release
RunningMismatch ==
  /\ loaded["web"] # None
  /\ web.state = "active"
  /\ web.cwd # loaded["web"].release
\* what _running_target finds; None also when the process it looks at goes
\* away before its directory is read
RunningTargets ==
  (IF RunningMismatch THEN {} ELSE {RunningTarget})
    \cup (IF web.state = "active" THEN {None} ELSE {})
OldTargets == IF current # None THEN {current} ELSE RunningTargets

\* an explicit head, or rollback_release's default: the `previous` selector
Begin(p) ==
  /\ At(p, "locked")
  /\ \E release \in intact, config \in Configs, old \in OldTargets :
       tx' = [tx EXCEPT ![p] =
               [image |-> [release |-> release, config |-> config],
                current |-> current, previous |-> previous,
                units |-> unitFile, timer |-> timer,
                webActive |-> web.state = "active",
                storageLoaded |-> loaded["storage"] # None,
                oldTarget |-> old, oldManaged |-> old \in intact]]
  /\ Goto(p, "install")
  /\ UNCHANGED <<host, intact, lock, errors, faults, disturbed>>
-----------------------------------------------------------------------------
(***************************************************************************)
(* switch_transaction: the effects, in order                               *)
(***************************************************************************)
\* seeded fault: the timer unit is not among the coupled units
InstallThreeUnits(p) ==
  /\ At(p, "install")
  /\ \E n \in 0..3 :
       /\ unitFile' = Written(Rendered(tx[p].image), n)
       /\ \/ n = 3 /\ Goto(p, "reload")
          \/ Goto(p, "undo_install")
  /\ UNCHANGED <<current, previous, loaded, timer, web>> /\ Keep

\* install_units: the four files, one atomic replacement each; an error
\* after n of them starts install_units' own restoration
InstallUnits(p) ==
  /\ At(p, "install")
  /\ \E n \in 0..4 :
       /\ unitFile' = Written(Rendered(tx[p].image), n)
       /\ \/ n = 4 /\ Goto(p, "reload")
          \/ Goto(p, "undo_install")
  /\ UNCHANGED <<current, previous, loaded, timer, web>> /\ Keep

\* daemon-reload and _verify_unit_spec; either may fail
InstallReload(p) ==
  /\ At(p, "reload")
  /\ \/ loaded' = unitFile /\ pc' \in {[pc EXCEPT ![p] = "select_previous"],
                                       [pc EXCEPT ![p] = "undo_install"]}
     \/ UNCHANGED loaded /\ Goto(p, "undo_install")
  /\ UNCHANGED <<current, previous, unitFile, timer, web>> /\ Keep

\* seeded fault: "installation failed and was restored" is taken at its word
UndoInstallFinal(p) ==
  /\ At(p, "undo_install")
  /\ \E n \in 0..4 :
       /\ n = 4 \/ faults < MaxFaults
       /\ unitFile' = Written(tx[p].units, n)
       /\ faults' = IF n = 4 THEN faults ELSE faults + 1
  /\ loaded' \in {loaded, unitFile'}
  /\ Goto(p, "restored")
  /\ UNCHANGED <<current, previous, timer, web, intact, lock, tx, errors, disturbed>>

\* the except branch of install_units, whose own errors are only reported
UndoInstall(p) ==
  /\ At(p, "undo_install")
  /\ \E n \in 0..4 :
       /\ n = 4 \/ faults < MaxFaults
       /\ unitFile' = Written(tx[p].units, n)
       /\ faults' = IF n = 4 THEN faults ELSE faults + 1
  /\ loaded' \in {loaded, unitFile'}
  /\ Goto(p, "r_current")
  /\ UNCHANGED <<current, previous, timer, web, intact, lock, tx, errors, disturbed>>

\* seeded fault: records the serving tree even when it is unmanaged
SelectPreviousUnmanaged(p) ==
  /\ At(p, "select_previous")
  /\ previous' = IF tx[p].oldTarget \notin {None, tx[p].image.release}
                 THEN tx[p].oldTarget ELSE previous
  /\ Goto(p, "select_current")
  /\ UNCHANGED <<current, unitFile, loaded, timer, web>> /\ Keep

\* seeded fault: a repeated switch also moves `previous`
SelectPreviousAlways(p) ==
  /\ At(p, "select_previous")
  /\ previous' = IF tx[p].oldManaged THEN tx[p].oldTarget ELSE previous
  /\ Goto(p, "select_current")
  /\ UNCHANGED <<current, unitFile, loaded, timer, web>> /\ Keep

SelectPrevious(p) ==
  /\ At(p, "select_previous")
  /\ previous' = IF tx[p].oldManaged /\ tx[p].oldTarget # tx[p].image.release
                 THEN tx[p].oldTarget ELSE previous
  /\ Goto(p, "select_current")
  /\ UNCHANGED <<current, unitFile, loaded, timer, web>> /\ Keep

SelectCurrent(p) ==
  /\ At(p, "select_current")
  /\ current' = tx[p].image.release
  /\ Goto(p, "enable_timer")
  /\ UNCHANGED <<previous, unitFile, loaded, timer, web>> /\ Keep

\* _activate_snapshot_timer: enable, then restart and wait until it settles
EnableTimer(p) ==
  /\ At(p, "enable_timer")
  /\ timer' = [timer EXCEPT !.enabled = TRUE]
  /\ Goto(p, "start_timer")
  /\ UNCHANGED <<current, previous, unitFile, loaded, web>> /\ Keep

\* a restart that fails may have stopped the timer and not started it again
StartTimer(p) ==
  /\ At(p, "start_timer")
  /\ \/ timer' = [timer EXCEPT !.active = TRUE] /\ Goto(p, "snapshots")
     \/ timer' = [timer EXCEPT !.active = FALSE] /\ Goto(p, "r_current")
  /\ UNCHANGED <<current, previous, unitFile, loaded, web>> /\ Keep

\* the two oneshot producers, run from the loaded units
ProducerOK(p, u) == loaded[u] # None /\ loaded[u].release = tx[p].image.release

RunSnapshotProducer(p) ==
  /\ At(p, "snapshots")
  /\ ProducerOK(p, "snapshots")
  /\ Goto(p, "storage")
  /\ UNCHANGED host /\ Keep

RunStorageProducer(p) ==
  /\ At(p, "storage")
  /\ ProducerOK(p, "storage")
  /\ Goto(p, "restart_web")
  /\ UNCHANGED host /\ Keep

\* systemctl restart stops the old process first; when the start fails
\* nothing is left running
RestartWeb(p) ==
  /\ At(p, "restart_web")
  /\ \/ /\ loaded["web"] # None
        /\ web' = Started
        /\ Goto(p, "postflight")
     \/ /\ web' \in {Stopped("activating"), Stopped("inactive")}
        /\ Goto(p, "r_current")
  /\ UNCHANGED <<current, previous, unitFile, loaded, timer>> /\ Keep

\* postflight: everything it reads of the host agrees with the target; the
\* HTTP, health and stability checks may still fail (Fail)
Postflight(p) ==
  /\ At(p, "postflight")
  /\ LET release == tx[p].image.release
     IN /\ release \in intact
        /\ current = release
        /\ web = [state |-> "active", cwd |-> release]
        /\ \A u \in {"web", "storage", "snapshots"} :
             loaded[u] # None /\ loaded[u].release = release
        /\ timer = [enabled |-> TRUE, active |-> TRUE]
  /\ Goto(p, "receipt")
  /\ UNCHANGED host /\ Keep

\* the success receipt is written and switch_transaction returns
Commit(p) ==
  /\ At(p, "receipt")
  /\ Goto(p, "committed")
  /\ disturbed' = FALSE
  /\ UNCHANGED <<host, intact, lock, tx, errors, faults>>

\* a step after install_units raises
Fail(p) ==
  /\ pc[p] \in Applying \ {"install", "reload"}
  /\ Goto(p, "r_current")
  /\ UNCHANGED host /\ Keep
-----------------------------------------------------------------------------
(***************************************************************************)
(* _restore_transaction: seven actions in order.  Each that raises, before *)
(* or after its effect, is recorded and the next one still runs.           *)
(***************************************************************************)
RestoreError(p) ==
  /\ faults < MaxFaults
  /\ faults' = faults + 1
  /\ errors' = [errors EXCEPT ![p] = TRUE]
NoError == UNCHANGED <<faults, errors>>

RestoreCurrent(p) ==
  /\ At(p, "r_current")
  /\ \/ current' = tx[p].current /\ NoError
     \/ current' \in {current, tx[p].current} /\ RestoreError(p)
  /\ Goto(p, "r_previous")
  /\ UNCHANGED <<previous, unitFile, loaded, timer, web, intact, lock, tx, disturbed>>

RestorePrevious(p) ==
  /\ At(p, "r_previous")
  /\ \/ previous' = tx[p].previous /\ NoError
     \/ previous' \in {previous, tx[p].previous} /\ RestoreError(p)
  /\ Goto(p, "r_units")
  /\ UNCHANGED <<current, unitFile, loaded, timer, web, intact, lock, tx, disturbed>>

\* _restore_units stops at the first file it cannot restore
RestoreUnits(p) ==
  /\ At(p, "r_units")
  /\ \E n \in 0..4 :
       /\ unitFile' = Written(tx[p].units, n)
       /\ IF n = 4 THEN NoError ELSE RestoreError(p)
  /\ Goto(p, "r_reload")
  /\ UNCHANGED <<current, previous, loaded, timer, web, intact, lock, tx, disturbed>>

\* seeded fault: a failed reload is not recorded
RestoreReloadUnrecorded(p) ==
  /\ At(p, "r_reload")
  /\ \/ loaded' = unitFile /\ NoError
     \/ /\ faults < MaxFaults
        /\ faults' = faults + 1
        /\ UNCHANGED <<loaded, errors>>
  /\ Goto(p, "r_timer")
  /\ UNCHANGED <<current, previous, unitFile, timer, web, intact, lock, tx, disturbed>>

RestoreReload(p) ==
  /\ At(p, "r_reload")
  /\ \/ loaded' = unitFile /\ NoError
     \/ loaded' \in {loaded, unitFile} /\ RestoreError(p)
  /\ Goto(p, "r_timer")
  /\ UNCHANGED <<current, previous, unitFile, timer, web, intact, lock, tx, disturbed>>

\* systemctl enable/disable, then restart/stop, with check=False: a command
\* that fails raises nothing and only the readback can see it; one that
\* times out raises, and the one after it is not run
HalfRestored(p) ==
  [enabled : {timer.enabled, tx[p].timer.enabled},
   active : {timer.active, tx[p].timer.active, FALSE}]

RestoreTimer(p) ==
  /\ At(p, "r_timer")
  /\ \/ timer' = tx[p].timer /\ NoError
     \/ /\ timer' \in HalfRestored(p)
        /\ \/ RestoreError(p)
           \/ /\ faults < MaxFaults
              /\ faults' = faults + 1
              /\ UNCHANGED errors
  /\ Goto(p, "r_storage")
  /\ UNCHANGED <<current, previous, unitFile, loaded, web, intact, lock, tx, disturbed>>

\* the storage producer runs again only if its unit was loaded before
RestoreStorage(p) ==
  /\ At(p, "r_storage")
  /\ \/ NoError
     \/ tx[p].storageLoaded /\ RestoreError(p)
  /\ Goto(p, "r_web")
  /\ UNCHANGED <<host, intact, lock, tx, disturbed>>

\* the web service is restarted only if it was active before
RestoreWeb(p) ==
  /\ At(p, "r_web")
  /\ \/ ~ tx[p].webActive /\ UNCHANGED web /\ NoError
     \/ tx[p].webActive /\ loaded["web"] # None /\ web' = Started /\ NoError
     \/ /\ tx[p].webActive
        /\ web' \in {Stopped("activating"), Stopped("inactive")}
        /\ RestoreError(p)
     \/ /\ tx[p].webActive /\ loaded["web"] = None
        /\ UNCHANGED <<web, faults>>
        /\ errors' = [errors EXCEPT ![p] = TRUE]
  /\ Goto(p, "readback")
  /\ UNCHANGED <<current, previous, unitFile, loaded, timer, intact, lock, tx, disturbed>>

\* seeded fault: only the selectors are read back
ReadbackSelectors(p) ==
  /\ current = tx[p].current
  /\ previous = tx[p].previous

\* the independent readback decides whether restoration is complete
ReadbackOK(p) ==
  /\ ~ errors[p]
  /\ current = tx[p].current
  /\ previous = tx[p].previous
  /\ unitFile = tx[p].units
  /\ timer = tx[p].timer
  /\ tx[p].webActive =>
       /\ web.state = "active"
       /\ tx[p].oldTarget # None =>
            /\ RunningTarget = tx[p].oldTarget
            /\ web.cwd = tx[p].oldTarget

Readback(p) ==
  /\ At(p, "readback")
  /\ \/ /\ ReadbackOK(p)
        /\ Goto(p, "restored")
        /\ UNCHANGED disturbed
     \/ /\ Goto(p, "incomplete")   \* a reading that raises also ends here
        /\ disturbed' = TRUE
  /\ UNCHANGED <<host, intact, lock, tx, errors, faults>>
-----------------------------------------------------------------------------
(***************************************************************************)
(* What the host does on its own.                                          *)
(***************************************************************************)
\* Restart=on-failure: a failed process is started again later, a clean
\* exit or an operator's stop is final
WebExit ==
  /\ web.state = "active"
  /\ web' \in {Stopped("activating"), Stopped("inactive")}
  /\ UNCHANGED <<current, previous, unitFile, loaded, timer, pc>> /\ Keep

WebAutoRestart ==
  /\ web.state = "activating"
  /\ web' \in {Stopped("inactive")} \cup
       IF loaded["web"] = None THEN {} ELSE {Started}
  /\ UNCHANGED <<current, previous, unitFile, loaded, timer, pc>> /\ Keep

\* bytes of a release change after it was sealed: it no longer verifies
Damage ==
  /\ \E release \in intact : intact' = intact \ {release}
  /\ UNCHANGED <<host, lock, pc, tx, errors, faults, disturbed>>

Step(p) ==
  \/ Acquire(p) \/ LockTimeout(p) \/ Refuse(p) \/ Begin(p) \/ Exit(p)
  \/ InstallUnits(p) \/ InstallReload(p) \/ UndoInstall(p)
  \/ SelectPrevious(p) \/ SelectCurrent(p) \/ EnableTimer(p) \/ StartTimer(p)
  \/ RunSnapshotProducer(p) \/ RunStorageProducer(p) \/ RestartWeb(p)
  \/ Postflight(p) \/ Commit(p) \/ Fail(p)
  \/ RestoreCurrent(p) \/ RestorePrevious(p) \/ RestoreUnits(p) \/ RestoreReload(p)
  \/ RestoreTimer(p) \/ RestoreStorage(p) \/ RestoreWeb(p) \/ Readback(p)

Next ==
  \/ \E p \in Procs : Invoke(p) \/ Step(p) \/ Kill(p)
  \/ WebExit \/ WebAutoRestart \/ Damage

Spec == Init /\ [][Next]_vars

\* the steps that wait for a program without a timeout: `git rev-parse` and
\* `git archive` before the first effect, `systemctl daemon-reload`, and the
\* `systemctl show` of every reading of a unit
Unbounded ==
  {"locked", "reload", "undo_install", "start_timer", "snapshots", "storage",
   "postflight", "r_reload", "readback"}

\* every other step writes files or waits with a timeout, so an invocation
\* that is not killed takes it
FairSpec == Spec /\ \A p \in Procs : WF_vars(pc[p] \notin Unbounded /\ Step(p))
-----------------------------------------------------------------------------
(***************************************************************************)
(* Properties                                                              *)
(***************************************************************************)
\* deploy_lock: two invocations are never both between taking the lock and
\* leaving the command.
MutualExclusion ==
  \A p, q \in Procs : pc[p] \in Critical /\ pc[q] \in Critical => p = q

\* switch_transaction that returns normally leaves one release everywhere:
\* the four files, what systemd has loaded, the selector and any running web
\* process; and `previous` names the release that was serving, or is left
\* alone when the switch repeats the selected release.
CommittedIsTarget ==
  \A p \in Procs : At(p, "committed") =>
    /\ current = tx[p].image.release
    /\ unitFile = Rendered(tx[p].image)
    /\ loaded = unitFile
    /\ timer = [enabled |-> TRUE, active |-> TRUE]
    /\ web.state = "active" => web.cwd = current
    /\ previous = IF tx[p].oldManaged /\ tx[p].oldTarget # current
                  THEN tx[p].oldTarget ELSE tx[p].previous

\* "prior state restored": a failed transaction that reports complete
\* restoration has put back selectors, unit files, timer and the loaded
\* units (which the readback never looks at), and a web service that was
\* active before runs the release it ran before.
RestoredIsPrior ==
  \A p \in Procs : At(p, "restored") =>
    /\ current = tx[p].current
    /\ previous = tx[p].previous
    /\ unitFile = tx[p].units
    /\ loaded = tx[p].units
    /\ timer = tx[p].timer
    /\ tx[p].webActive /\ web.state = "active" /\ tx[p].oldTarget # None =>
         web.cwd = tx[p].oldTarget

\* No half-made cutover at rest: once no command holds the lock, and unless a
\* kill or an incomplete restoration has happened since the last success,
\* systemd has loaded exactly the files on disk and all four of them start
\* the selected release with one configuration.
SettledCoherent ==
  lock = None /\ ~ disturbed =>
    /\ loaded = unitFile
    /\ IF current = None
       THEN \A u \in Units : unitFile[u] # None => unitFile[u].release = Legacy
       ELSE \E config \in Configs :
              unitFile = Rendered([release |-> current, config |-> config])

\* rollback_release's default target is worth having: without kills, failed
\* restoration steps and damaged releases, `previous` is never the selected
\* release itself, however often a switch is repeated, fails or is undone.
FallbackDiffers ==
  lock = None /\ faults = 0 /\ intact = Managed =>
    previous = None \/ (current # None /\ previous # current)

(***************************************************************************)
(* Between commands the host is what it is; while a transaction is under   *)
(* way it still counts as what the transaction found, until it commits.    *)
(***************************************************************************)
UnderWay == {p \in Procs : pc[p] \in Applying \cup Restoring}
Installed ==
  IF UnderWay = {}
  THEN [current |-> current, previous |-> previous, units |-> unitFile,
        timer |-> timer]
  ELSE LET p == CHOOSE p \in UnderWay : TRUE
       IN [current |-> tx[p].current, previous |-> tx[p].previous,
           units |-> tx[p].units, timer |-> tx[p].timer]

Atomic == INSTANCE AtomicCutover WITH installed <- Installed, trusted <- ~ disturbed

\* switch_transaction is all or nothing: every behaviour of the detailed
\* cutover, seen between commands, is one of AtomicCutover.
ImplementsAtomicCutover == Atomic!Spec

\* deploy_lock is given back, by returning, by failing, or by being killed:
\* an invocation that keeps it for ever waits for ever in one of the steps
\* that wait for a program without a timeout.
LockReleased ==
  \A p \in Procs :
    <>[](lock = p) => \E phase \in Unbounded : <>[](lock = p /\ pc[p] = phase)
=============================================================================
