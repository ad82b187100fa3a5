---------------------------- MODULE CutoverProofs ----------------------------
(***************************************************************************)
(* What holds of the release cutover for any number of releases,           *)
(* configurations, invocations and faults.                                 *)
(***************************************************************************)
EXTENDS Cutover, TLAPS

(***************************************************************************)
(* The inductive invariant                                                 *)
(*                                                                         *)
(* An invocation inside deploy_lock is alone there (LockInv) and knows     *)
(* what it read before its first effect (TxInv).  Going forward, each step *)
(* may rely on the ones before it (Forward); going back, a step that did   *)
(* not raise has put its part of the host back (Backward).  Whatever       *)
(* happens, each part of the host is the prior one or the target's         *)
(* (Mixture).  Between transactions the host is coherent (Rest), so what a *)
(* transaction read at its start, and may have to restore, is too (Prior). *)
(***************************************************************************)
Transacting == Applying \cup Restoring
AtRest == \A p \in Procs : pc[p] \notin Transacting

LockInv == \A p \in Procs : pc[p] \in Critical => lock = p

TxInv == \A p \in Procs : pc[p] \in Transacting \cup Ended =>
  /\ tx[p] \in Transaction
  /\ tx[p].oldManaged => tx[p].oldTarget \in Managed

NewPrevious(p) ==
  IF tx[p].oldManaged /\ tx[p].oldTarget # tx[p].image.release
  THEN tx[p].oldTarget ELSE tx[p].previous

Forward(p) ==
  /\ pc[p] \in (Applying \ {"install"}) \cup {"committed"} =>
       unitFile = Rendered(tx[p].image)
  /\ pc[p] \in (Applying \ {"install", "reload"}) \cup {"committed"} =>
       loaded = unitFile
  /\ pc[p] \in {"install", "reload", "undo_install", "select_previous"} =>
       previous = tx[p].previous
  /\ pc[p] \in (Applying \ {"install", "reload", "select_previous"}) \cup {"committed"} =>
       previous = NewPrevious(p)
  /\ pc[p] \in (Applying \ {"install", "reload", "select_previous", "select_current"})
                 \cup {"committed"} =>
       current = tx[p].image.release
  /\ pc[p] \in {"receipt", "committed"} =>
       /\ timer = [enabled |-> TRUE, active |-> TRUE]
       /\ web.state = "active" => web.cwd = tx[p].image.release

Backward(p) ==
  /\ pc[p] \in {"r_timer", "r_storage", "r_web", "readback"} /\ ~ errors[p] =>
       loaded = unitFile
  /\ pc[p] = "restored" =>
       /\ current = tx[p].current
       /\ previous = tx[p].previous
       /\ unitFile = tx[p].units
       /\ loaded = tx[p].units
       /\ timer = tx[p].timer
       /\ tx[p].webActive /\ tx[p].oldTarget # None =>
            /\ RunningTarget = tx[p].oldTarget
            /\ web.state = "active" => web.cwd = tx[p].oldTarget
  /\ faults = 0 =>
       /\ pc[p] \in {"r_previous", "r_units", "r_reload", "r_timer", "r_storage",
                     "r_web", "readback", "incomplete"} => current = tx[p].current
       /\ pc[p] \in {"r_units", "r_reload", "r_timer", "r_storage", "r_web",
                     "readback", "incomplete"} => previous = tx[p].previous
       /\ pc[p] \in {"r_reload", "r_timer", "r_storage", "r_web", "readback",
                     "incomplete"} => unitFile = tx[p].units
       /\ pc[p] \in {"r_timer", "r_storage", "r_web", "readback", "incomplete"} =>
            loaded = tx[p].units

Mixture(p) == pc[p] \in Transacting =>
  /\ current \in {tx[p].current, tx[p].image.release}
  /\ previous \in {tx[p].previous, NewPrevious(p)}
  /\ \A u \in Units : unitFile[u] \in {tx[p].units[u], tx[p].image}

Coherent(release, units) ==
  IF release = None
  THEN \A u \in Units : units[u] # None => units[u].release = Legacy
  ELSE \E config \in Configs :
         units = Rendered([release |-> release, config |-> config])

Sound == ~ disturbed \/ faults = 0
Faultless == faults = 0 /\ intact = Managed
Fallback(selected, fallback) ==
  fallback = None \/ (selected # None /\ fallback # selected)

Rest == AtRest =>
  /\ Sound => loaded = unitFile /\ Coherent(current, unitFile)
  /\ Faultless => Fallback(current, previous)

Prior(p) == pc[p] \in Transacting \cup {"restored", "incomplete"} =>
  /\ tx[p].current # None => tx[p].oldTarget = tx[p].current
  /\ Sound => /\ Coherent(tx[p].current, tx[p].units)
              /\ tx[p].current = None => tx[p].oldTarget \notin Managed
  /\ Faultless => /\ Fallback(tx[p].current, tx[p].previous)
                  /\ tx[p].oldManaged = (tx[p].oldTarget \in Managed)

IncompleteInv == \A p \in Procs : pc[p] = "incomplete" => disturbed

IInv ==
  /\ TypeOK /\ LockInv /\ TxInv /\ IncompleteInv
  /\ \A p \in Procs : Forward(p) /\ Backward(p) /\ Mixture(p) /\ Prior(p)
  /\ Rest

(***************************************************************************)
(* Type correctness                                                        *)
(***************************************************************************)
\* The four unit files after n writes are unit files again.
LEMMA WrittenType ==
  ASSUME unitFile \in [Units -> UnitState], NEW n \in 0..4,
         NEW files \in [Units -> UnitState]
  PROVE  Written(files, n) \in [Units -> UnitState]
  BY DEF Written

LEMMA RenderedType ==
  ASSUME NEW image \in Image
  PROVE  Rendered(image) \in [Units -> UnitState]
  BY DEF Rendered, UnitState

\* A tree that a loaded web unit starts is a release.
LEMMA StartedType ==
  ASSUME loaded \in [Units -> UnitState], loaded["web"] # None
  PROVE  /\ Started \in WebState
         /\ RunningTarget \in Releases
<1>1. loaded["web"] \in Image
  BY DEF Units, UnitState
<1>2. QED
  BY <1>1 DEF Started, WebState, RunningTarget, Image

LEMMA StoppedType ==
  /\ Stopped("activating") \in WebState
  /\ Stopped("inactive") \in WebState
  BY DEF Stopped, WebState

LEMMA InitType == Init => TypeOK
<1> SUFFICES ASSUME Init PROVE TypeOK
  OBVIOUS
<1>1. unitFile \in [Units -> UnitState]
  BY DEF Init, LegacyUnits, UnitState, Image, Releases
<1>2. web \in WebState
  BY DEF Init, Stopped, WebState, Releases
<1>3. timer \in TimerState
  BY DEF Init, TimerState
<1>4. pc \in [Procs -> Phases] /\ tx \in [Procs -> Transaction \cup {None}]
      /\ errors \in [Procs -> BOOLEAN]
  BY DEF Init, Phases
<1>5. faults \in 0..MaxFaults
  BY CutoverAssumption DEF Init
<1>6. QED
  BY <1>1, <1>2, <1>3, <1>4, <1>5 DEF Init, TypeOK

\* What an invocation reads before its first effect is well-typed, and a
\* managed old target is a managed release.
LEMMA BeginType ==
  ASSUME TypeOK, NEW p \in Procs, Begin(p)
  PROVE  /\ tx' \in [Procs -> Transaction \cup {None}]
         /\ tx'[p] \in Transaction
         /\ tx'[p].oldManaged => tx'[p].oldTarget \in Managed
<1>1. OldTargets \subseteq Releases \cup {None}
  <2>1. CASE loaded["web"] = None
    BY <2>1 DEF TypeOK, OldTargets, RunningTargets, RunningTarget, Releases
  <2>2. CASE loaded["web"] # None
    BY <2>2, StartedType DEF TypeOK, OldTargets, RunningTargets, Releases
  <2>3. QED
    BY <2>1, <2>2
<1>2. PICK release \in intact, config \in Configs, old \in OldTargets :
        tx' = [tx EXCEPT ![p] =
               [image |-> [release |-> release, config |-> config],
                current |-> current, previous |-> previous,
                units |-> unitFile, timer |-> timer,
                webActive |-> web.state = "active",
                storageLoaded |-> loaded["storage"] # None,
                oldTarget |-> old, oldManaged |-> old \in intact]]
  BY DEF Begin
<1> DEFINE begun == [image |-> [release |-> release, config |-> config],
                     current |-> current, previous |-> previous,
                     units |-> unitFile, timer |-> timer,
                     webActive |-> web.state = "active",
                     storageLoaded |-> loaded["storage"] # None,
                     oldTarget |-> old, oldManaged |-> old \in intact]
<1>3. [release |-> release, config |-> config] \in [release : Managed, config : Configs]
  BY <1>2 DEF TypeOK
<1>4. /\ (web.state = "active") \in BOOLEAN
      /\ (loaded["storage"] # None) \in BOOLEAN
      /\ (old \in intact) \in BOOLEAN
  OBVIOUS
<1>5. begun \in Transaction
  BY <1>1, <1>3, <1>4 DEF TypeOK, Transaction
<1>6. tx' = [tx EXCEPT ![p] = begun] /\ tx \in [Procs -> Transaction \cup {None}]
  BY <1>2 DEF TypeOK
<1> HIDE DEF begun
<1>7. tx'[p] = begun /\ tx' \in [Procs -> Transaction \cup {None}]
  BY <1>5, <1>6
<1>8. begun.oldManaged => begun.oldTarget \in Managed
  BY DEF begun, TypeOK
<1>9. QED
  BY <1>5, <1>7, <1>8

\* The fields of a transaction under way, as the steps use them.
LEMMA TxType ==
  ASSUME TxInv, NEW p \in Procs, pc[p] \in Transacting \cup Ended
  PROVE  /\ tx[p].image \in Image
         /\ tx[p].image.release \in Managed
         /\ tx[p].current \in Managed \cup {None}
         /\ tx[p].previous \in Managed \cup {None}
         /\ tx[p].units \in [Units -> UnitState]
         /\ tx[p].timer \in TimerState
         /\ tx[p].oldManaged => tx[p].oldTarget \in Managed
  BY DEF TxInv, Transaction, Image, Releases

\* A restoration step keeps the bookkeeping well-typed, raising or not.
LEMMA ErrorType ==
  ASSUME TypeOK, NEW p \in Procs, RestoreError(p) \/ NoError
  PROVE  /\ faults' \in 0..MaxFaults
         /\ errors' \in [Procs -> BOOLEAN]
<1>1. faults' \in 0..MaxFaults
  BY CutoverAssumption DEF TypeOK, RestoreError, NoError
<1>2. errors' \in [Procs -> BOOLEAN]
  BY DEF TypeOK, RestoreError, NoError
<1>3. QED
  BY <1>1, <1>2

\* One more fault is still within the bound.
LEMMA FaultType ==
  ASSUME TypeOK, faults < MaxFaults
  PROVE  faults + 1 \in 0..MaxFaults
  BY CutoverAssumption DEF TypeOK

\* Every step of an invocation preserves the type invariant.
LEMMA StepType ==
  ASSUME TypeOK, TxInv, NEW p \in Procs, Invoke(p) \/ Step(p) \/ Kill(p)
  PROVE  TypeOK'
<1> USE DEF TypeOK, Goto, At, Phases, Critical, Applying, Restoring, Ended, Transacting
<1>1. CASE Invoke(p)
  BY <1>1 DEF Invoke, host, Keep
<1>2. CASE Acquire(p)
  BY <1>2 DEF Acquire, host, Keep
<1>3. CASE LockTimeout(p)
  BY <1>3 DEF LockTimeout, host, Keep
<1>4. CASE InstallReload(p)
  BY <1>4 DEF InstallReload, host, Keep
<1>5. CASE RunSnapshotProducer(p)
  BY <1>5 DEF RunSnapshotProducer, host, Keep
<1>6. CASE RunStorageProducer(p)
  BY <1>6 DEF RunStorageProducer, host, Keep
<1>7. CASE Postflight(p)
  BY <1>7 DEF Postflight, host, Keep
<1>8. CASE Commit(p)
  BY <1>8 DEF Commit, host, Keep
<1>9. CASE Fail(p)
  BY <1>9 DEF Fail, host, Keep
<1>10. CASE Readback(p)
  BY <1>10 DEF Readback, host, Keep
<1>11. CASE EnableTimer(p)
  BY <1>11 DEF EnableTimer, host, Keep, TimerState
<1>12. CASE StartTimer(p)
  BY <1>12 DEF StartTimer, host, Keep, TimerState
<1>13. CASE SelectPrevious(p)
  BY <1>13, TxType DEF SelectPrevious, Keep
<1>14. CASE SelectCurrent(p)
  BY <1>14, TxType DEF SelectCurrent, Keep
<1>15. CASE Begin(p)
  BY <1>15, BeginType DEF Begin, host
<1>16. CASE Refuse(p)
  BY <1>16 DEF Refuse, Leave, host
<1>17. CASE Exit(p)
  BY <1>17 DEF Exit, Leave, host
<1>18. CASE Kill(p)
  BY <1>18, FaultType DEF Kill, Leave, host
<1>19. CASE InstallUnits(p)
  BY <1>19, WrittenType, RenderedType, TxType DEF InstallUnits, Keep
<1>20. CASE UndoInstall(p)
  BY <1>20, WrittenType, FaultType, TxType DEF UndoInstall
<1>21. CASE RestoreUnits(p)
  BY <1>21, WrittenType, ErrorType, TxType DEF RestoreUnits
<1>22. CASE RestoreCurrent(p)
  BY <1>22, ErrorType, TxType DEF RestoreCurrent, host
<1>23. CASE RestorePrevious(p)
  BY <1>23, ErrorType, TxType DEF RestorePrevious, host
<1>24. CASE RestoreReload(p)
  BY <1>24, ErrorType, TxType DEF RestoreReload, host
<1>25. CASE RestoreStorage(p)
  BY <1>25, ErrorType, TxType DEF RestoreStorage, host
<1>26. CASE RestoreTimer(p)
  <2>1. /\ tx[p].timer \in TimerState
        /\ UNCHANGED <<current, previous, unitFile, loaded, web, intact, lock, tx,
                       disturbed>>
    BY <1>26, TxType DEF RestoreTimer
  <2>2. timer' \in TimerState
    BY <1>26, <2>1 DEF RestoreTimer, HalfRestored, TimerState
  <2>3. /\ faults' \in 0..MaxFaults
        /\ errors' \in [Procs -> BOOLEAN]
    BY <1>26, ErrorType, FaultType DEF RestoreTimer
  <2>4. QED
    BY <1>26, <2>1, <2>2, <2>3 DEF RestoreTimer
<1>27. CASE RestartWeb(p)
  BY <1>27, StartedType, StoppedType DEF RestartWeb, Keep
<1>28. CASE RestoreWeb(p)
  BY <1>28, StartedType, StoppedType, ErrorType DEF RestoreWeb
<1>29. QED
  BY <1>1, <1>2, <1>3, <1>4, <1>5, <1>6, <1>7, <1>8, <1>9, <1>10, <1>11, <1>12,
     <1>13, <1>14, <1>15, <1>16, <1>17, <1>18, <1>19, <1>20, <1>21, <1>22,
     <1>23, <1>24, <1>25, <1>26, <1>27, <1>28 DEF Step

\* What the host does on its own preserves it too.
LEMMA HostType ==
  ASSUME TypeOK, WebExit \/ WebAutoRestart \/ Damage \/ UNCHANGED vars
  PROVE  TypeOK'
<1>1. CASE WebExit
  BY <1>1, StoppedType DEF WebExit, TypeOK, Keep
<1>2. CASE WebAutoRestart
  BY <1>2, StoppedType, StartedType DEF WebAutoRestart, TypeOK, Keep
<1>3. CASE Damage
  BY <1>3 DEF Damage, TypeOK, host
<1>4. CASE UNCHANGED vars
  BY <1>4 DEF TypeOK, vars, host
<1>5. QED
  BY <1>1, <1>2, <1>3, <1>4

(***************************************************************************)
(* The lock and the locals                                                 *)
(***************************************************************************)
\* Nobody else is inside deploy_lock with an invocation that is.
LEMMA Alone ==
  ASSUME LockInv, NEW p \in Procs, pc[p] \in Critical,
         NEW q \in Procs, q # p
  PROVE  pc[q] \notin Critical
  BY DEF LockInv

\* One effect, check or restoration step of switch_transaction.
Effect(p) ==
  \/ InstallUnits(p) \/ InstallReload(p) \/ UndoInstall(p)
  \/ SelectPrevious(p) \/ SelectCurrent(p) \/ EnableTimer(p) \/ StartTimer(p)
  \/ RunSnapshotProducer(p) \/ RunStorageProducer(p) \/ RestartWeb(p)
  \/ Postflight(p) \/ Commit(p) \/ Fail(p)
Undo(p) ==
  \/ RestoreCurrent(p) \/ RestorePrevious(p) \/ RestoreUnits(p) \/ RestoreReload(p)
  \/ RestoreTimer(p) \/ RestoreStorage(p) \/ RestoreWeb(p) \/ Readback(p)

\* It moves its own invocation only, inside the lock, with the locals and the
\* releases as they were, and a fault is never forgotten before a commit.
Carries(p) ==
  /\ pc[p] \in Transacting /\ pc'[p] \in Transacting \cup Ended
  /\ pc' = [pc EXCEPT ![p] = pc'[p]]
  /\ lock' = lock /\ tx' = tx /\ intact' = intact
  /\ faults' = 0 => faults = 0
  /\ pc'[p] # "committed" => (disturbed => disturbed')

LEMMA EffectCarries ==
  ASSUME TypeOK, NEW p \in Procs, Effect(p)
  PROVE  Carries(p)
<1> USE DEF TypeOK, Goto, At, Keep, Transacting, Applying, Restoring, Ended, Carries
<1>1. CASE InstallUnits(p)
  BY <1>1 DEF InstallUnits
<1>2. CASE InstallReload(p)
  BY <1>2 DEF InstallReload
<1>3. CASE UndoInstall(p)
  BY <1>3 DEF UndoInstall
<1>4. CASE SelectPrevious(p)
  BY <1>4 DEF SelectPrevious
<1>5. CASE SelectCurrent(p)
  BY <1>5 DEF SelectCurrent
<1>6. CASE EnableTimer(p)
  BY <1>6 DEF EnableTimer
<1>7. CASE StartTimer(p)
  BY <1>7 DEF StartTimer
<1>8. CASE RunSnapshotProducer(p)
  BY <1>8 DEF RunSnapshotProducer
<1>9. CASE RunStorageProducer(p)
  BY <1>9 DEF RunStorageProducer
<1>10. CASE RestartWeb(p)
  BY <1>10 DEF RestartWeb
<1>11. CASE Postflight(p)
  BY <1>11 DEF Postflight
<1>12. CASE Commit(p)
  BY <1>12 DEF Commit
<1>13. CASE Fail(p)
  BY <1>13 DEF Fail
<1>14. QED
  BY <1>1, <1>2, <1>3, <1>4, <1>5, <1>6, <1>7, <1>8, <1>9, <1>10, <1>11, <1>12,
     <1>13 DEF Effect

LEMMA UndoCarries ==
  ASSUME TypeOK, NEW p \in Procs, Undo(p)
  PROVE  Carries(p)
<1> USE DEF TypeOK, Goto, At, Keep, Transacting, Applying, Restoring, Ended, Carries, RestoreError, NoError
<1>1. CASE RestoreCurrent(p)
  BY <1>1 DEF RestoreCurrent
<1>2. CASE RestorePrevious(p)
  BY <1>2 DEF RestorePrevious
<1>3. CASE RestoreUnits(p)
  BY <1>3 DEF RestoreUnits
<1>4. CASE RestoreReload(p)
  BY <1>4 DEF RestoreReload
<1>5. CASE RestoreTimer(p)
  BY <1>5 DEF RestoreTimer
<1>6. CASE RestoreStorage(p)
  BY <1>6 DEF RestoreStorage
<1>7. CASE RestoreWeb(p)
  BY <1>7 DEF RestoreWeb
<1>8. CASE Readback(p)
  BY <1>8 DEF Readback
<1>9. QED
  BY <1>1, <1>2, <1>3, <1>4, <1>5, <1>6, <1>7, <1>8 DEF Undo

\* The remaining steps of an invocation: in and out of the lock, and Begin.
LEMMA StepCases ==
  ASSUME NEW p \in Procs, Step(p)
  PROVE  \/ Acquire(p) \/ LockTimeout(p) \/ Begin(p) \/ Refuse(p) \/ Exit(p)
         \/ Effect(p) \/ Undo(p)
  BY DEF Step, Effect, Undo

LEMMA LockStep ==
  ASSUME TypeOK, LockInv, NEW p \in Procs, Invoke(p) \/ Step(p) \/ Kill(p)
  PROVE  LockInv'
<1> USE DEF TypeOK, LockInv, Goto, At
<1>1. CASE Invoke(p) \/ LockTimeout(p)
  BY <1>1 DEF Invoke, LockTimeout, Keep, Critical, Applying, Restoring, Ended
<1>2. CASE Acquire(p)
  BY <1>2, CutoverAssumption DEF Acquire
<1>3. CASE Begin(p)
  BY <1>3 DEF Begin, Critical
<1>4. CASE Refuse(p) \/ Exit(p) \/ Kill(p)
  <2>1. pc[p] \in Critical /\ pc' = [pc EXCEPT ![p] = "idle"]
    BY <1>4 DEF Refuse, Exit, Kill, Leave, Critical
  <2>2. lock = p /\ \A q \in Procs : pc'[q] \notin Critical
    BY <2>1, Alone DEF Critical, Applying, Restoring, Ended
  <2>3. QED
    BY <2>2
<1>5. CASE Effect(p) \/ Undo(p)
  BY <1>5, EffectCarries, UndoCarries DEF Carries, Critical, Transacting
<1>6. QED
  BY <1>1, <1>2, <1>3, <1>4, <1>5, StepCases

LEMMA TxStep ==
  ASSUME TypeOK, TxInv, NEW p \in Procs, Invoke(p) \/ Step(p) \/ Kill(p)
  PROVE  TxInv'
<1> USE DEF TypeOK, TxInv, Goto, At
<1>1. CASE Invoke(p) \/ LockTimeout(p)
  BY <1>1 DEF Invoke, LockTimeout, Keep, Transacting, Applying, Restoring, Ended
<1>2. CASE Acquire(p)
  BY <1>2 DEF Acquire, Transacting, Applying, Restoring, Ended
<1>3. CASE Begin(p)
  <2>1. \A q \in Procs : q # p => tx'[q] = tx[q] /\ pc'[q] = pc[q]
    BY <1>3 DEF Begin
  <2>2. QED
    BY <2>1, <1>3, BeginType
<1>4. CASE Refuse(p) \/ Exit(p) \/ Kill(p)
  BY <1>4 DEF Refuse, Exit, Kill, Leave, Transacting, Applying, Restoring, Ended
<1>5. CASE Effect(p) \/ Undo(p)
  BY <1>5, EffectCarries, UndoCarries DEF Carries
<1>6. QED
  BY <1>1, <1>2, <1>3, <1>4, <1>5, StepCases

\* Nothing the host does on its own moves an invocation.
LEMMA HostFrame ==
  ASSUME WebExit \/ WebAutoRestart \/ Damage \/ UNCHANGED vars
  PROVE  UNCHANGED <<current, previous, unitFile, loaded, timer, lock, pc, tx,
                     errors, faults, disturbed>>
  BY DEF WebExit, WebAutoRestart, Damage, Keep, vars, host

TypeInv == TypeOK /\ LockInv /\ TxInv

LEMMA TypeInvStep ==
  ASSUME TypeInv, [Next]_vars
  PROVE  TypeInv'
<1>1. CASE \E p \in Procs : Invoke(p) \/ Step(p) \/ Kill(p)
  BY <1>1, StepType, LockStep, TxStep DEF TypeInv
<1>2. CASE WebExit \/ WebAutoRestart \/ Damage \/ UNCHANGED vars
  BY <1>2, HostType, HostFrame DEF TypeInv, LockInv, TxInv
<1>3. QED
  BY <1>1, <1>2 DEF Next

\* Every variable of the cutover keeps its type; the locals of an invocation
\* only while it uses them, which is what LockInv and TxInv add.
THEOREM TypeCorrect == Spec => []TypeOK
<1>1. Init => TypeInv
  <2>1. Init => LockInv /\ TxInv
    BY DEF Init, LockInv, TxInv, Critical, Transacting, Applying, Restoring, Ended
  <2>2. QED
    BY <2>1, InitType DEF TypeInv
<1>2. TypeInv /\ [Next]_vars => TypeInv'
  BY TypeInvStep
<1>3. TypeInv => TypeOK
  BY DEF TypeInv
<1>4. QED
  BY <1>1, <1>2, <1>3, PTL DEF Spec

\* deploy_lock admits one invocation at a time.
THEOREM LockExclusive == Spec => []MutualExclusion
<1>1. Init => TypeInv
  <2>1. Init => LockInv /\ TxInv
    BY DEF Init, LockInv, TxInv, Critical, Transacting, Applying, Restoring, Ended
  <2>2. QED
    BY <2>1, InitType DEF TypeInv
<1>2. TypeInv /\ [Next]_vars => TypeInv'
  BY TypeInvStep
<1>3. TypeInv => MutualExclusion
  BY DEF TypeInv, LockInv, MutualExclusion
<1>4. QED
  BY <1>1, <1>2, <1>3, PTL DEF Spec

(***************************************************************************)
(* Going forward: each effect relies on the ones before it                 *)
(***************************************************************************)
\* The whole series of four writes leaves exactly the files written.
LEMMA WrittenAll ==
  ASSUME NEW files \in [Units -> UnitState]
  PROVE  Written(files, 4) = files
<1>1. \A u \in Units : WriteOrder[u] \in 0..4
  BY DEF WriteOrder, Units
<1>2. \A u \in Units : WriteOrder[u] <= 4
  BY <1>1
<1>3. QED
  BY <1>2 DEF Written

LEMMA BeginForward ==
  ASSUME TypeOK, NEW p \in Procs, Begin(p)
  PROVE  Forward(p)'
<1>1. tx'[p].previous = previous /\ previous' = previous /\ pc'[p] = "install"
  BY DEF Begin, TypeOK, Goto, host
<1>2. QED
  BY <1>1 DEF Forward, Applying

LEMMA EffectForward ==
  ASSUME TypeOK, TxInv, NEW p \in Procs, Effect(p), Forward(p)
  PROVE  Forward(p)'
<1> USE DEF TypeOK, Goto, At, Keep, Applying, Forward, NewPrevious
<1>1. CASE InstallUnits(p)
  BY <1>1, WrittenAll, RenderedType, TxType
  DEF InstallUnits, Transacting
<1>2. CASE InstallReload(p)
  BY <1>2 DEF InstallReload, host
<1>3. CASE UndoInstall(p)
  BY <1>3 DEF UndoInstall
<1>4. CASE SelectPrevious(p)
  BY <1>4 DEF SelectPrevious
<1>5. CASE SelectCurrent(p)
  BY <1>5 DEF SelectCurrent
<1>6. CASE EnableTimer(p)
  BY <1>6 DEF EnableTimer
<1>7. CASE StartTimer(p)
  BY <1>7 DEF StartTimer
<1>8. CASE RunSnapshotProducer(p)
  BY <1>8 DEF RunSnapshotProducer, host
<1>9. CASE RunStorageProducer(p)
  BY <1>9 DEF RunStorageProducer, host
<1>10. CASE RestartWeb(p)
  BY <1>10 DEF RestartWeb, Stopped, Started
<1>11. CASE Postflight(p)
  BY <1>11 DEF Postflight, host
<1>12. CASE Commit(p)
  BY <1>12 DEF Commit, host
<1>13. CASE Fail(p)
  BY <1>13 DEF Fail, host
<1>14. QED
  BY <1>1, <1>2, <1>3, <1>4, <1>5, <1>6, <1>7, <1>8, <1>9, <1>10, <1>11, <1>12,
     <1>13 DEF Effect

\* While it restores, an invocation claims nothing of this.
LEMMA UndoForward ==
  ASSUME TypeOK, NEW p \in Procs, Undo(p)
  PROVE  Forward(p)'
<1>1. pc'[p] \in (Restoring \ {"undo_install"}) \cup {"restored", "incomplete"}
  <2> USE DEF TypeOK, Goto, Restoring
  <2>1. CASE RestoreCurrent(p)
    BY <2>1 DEF RestoreCurrent
  <2>2. CASE RestorePrevious(p)
    BY <2>2 DEF RestorePrevious
  <2>3. CASE RestoreUnits(p)
    BY <2>3 DEF RestoreUnits
  <2>4. CASE RestoreReload(p)
    BY <2>4 DEF RestoreReload
  <2>5. CASE RestoreTimer(p)
    BY <2>5 DEF RestoreTimer
  <2>6. CASE RestoreStorage(p)
    BY <2>6 DEF RestoreStorage
  <2>7. CASE RestoreWeb(p)
    BY <2>7 DEF RestoreWeb
  <2>8. CASE Readback(p)
    <3>1. pc' = [pc EXCEPT ![p] = "restored"] \/ pc' = [pc EXCEPT ![p] = "incomplete"]
      BY <2>8 DEF Readback
    <3>2. QED
      BY <3>1
  <2>9. QED
    BY <2>1, <2>2, <2>3, <2>4, <2>5, <2>6, <2>7, <2>8 DEF Undo
<1>2. QED
  BY <1>1 DEF Forward, Applying, Restoring

(***************************************************************************)
(* Going back: what a restoration step put back stays back                 *)
(***************************************************************************)
\* Only a restored, incomplete or restoring invocation claims anything.
LEMMA EffectBackward ==
  ASSUME TypeOK, NEW p \in Procs, Begin(p) \/ Effect(p)
  PROVE  Backward(p)'
<1>1. pc'[p] \in Applying \cup {"undo_install", "r_current", "committed"}
  BY DEF Begin, Effect, InstallUnits, InstallReload, UndoInstall, SelectPrevious,
         SelectCurrent, EnableTimer, StartTimer, RunSnapshotProducer,
         RunStorageProducer, RestartWeb, Postflight, Commit, Fail, TypeOK, Goto,
         Applying
<1>2. QED
  BY <1>1 DEF Backward, Applying

LEMMA UndoBackward ==
  ASSUME TypeOK, TxInv, NEW p \in Procs, Undo(p), Backward(p)
  PROVE  Backward(p)'
<1> USE DEF TypeOK, Goto, At, Keep, Backward, RestoreError, NoError
<1>1. CASE RestoreCurrent(p)
  BY <1>1 DEF RestoreCurrent
<1>2. CASE RestorePrevious(p)
  BY <1>2 DEF RestorePrevious
<1>3. CASE RestoreUnits(p)
  <2>1. PICK k \in 0..4 :
          /\ unitFile' = Written(tx[p].units, k)
          /\ k = 4 \/ RestoreError(p)
    BY <1>3 DEF RestoreUnits
  <2>2. faults' = 0 => unitFile' = tx[p].units
    BY <2>1, CutoverAssumption, WrittenAll, TxType, <1>3
    DEF RestoreUnits, Transacting, Restoring
  <2>3. QED
    BY <2>2, <1>3 DEF RestoreUnits
<1>4. CASE RestoreReload(p)
  BY <1>4 DEF RestoreReload
<1>5. CASE RestoreTimer(p)
  BY <1>5 DEF RestoreTimer
<1>6. CASE RestoreStorage(p)
  BY <1>6 DEF RestoreStorage, host
<1>7. CASE RestoreWeb(p)
  BY <1>7 DEF RestoreWeb
<1>8. CASE Readback(p)
  <2>1. UNCHANGED <<current, previous, unitFile, loaded, timer, web, tx, errors, faults>>
        /\ pc[p] = "readback"
    BY <1>8 DEF Readback, host
  <2>2. CASE pc'[p] = "restored"
    <3>1. ReadbackOK(p)
      BY <2>2, <1>8 DEF Readback
    <3>2. QED
      BY <2>1, <2>2, <3>1 DEF ReadbackOK, RunningTarget
  <2>3. CASE pc'[p] = "incomplete"
    BY <2>1, <2>3
  <2>4. QED
    BY <2>2, <2>3, <1>8 DEF Readback
<1>9. QED
  BY <1>1, <1>2, <1>3, <1>4, <1>5, <1>6, <1>7, <1>8 DEF Undo

(***************************************************************************)
(* Whatever happens, each part of the host is the prior one or the target's *)
(***************************************************************************)
LEMMA BeginMixture ==
  ASSUME TypeOK, NEW p \in Procs, Begin(p)
  PROVE  Mixture(p)'
<1>1. /\ tx'[p].previous = previous /\ tx'[p].current = current
      /\ tx'[p].units = unitFile
      /\ UNCHANGED <<current, previous, unitFile>>
  BY DEF Begin, TypeOK, Goto, host
<1>2. QED
  BY <1>1 DEF Mixture

\* A series of writes cut short leaves each file old or new.
LEMMA WrittenMixes ==
  ASSUME NEW files \in [Units -> UnitState], NEW n \in 0..4, NEW u \in Units
  PROVE  Written(files, n)[u] \in {unitFile[u], files[u]}
  BY DEF Written

LEMMA CarriedMixture ==
  ASSUME TypeOK, TxInv, NEW p \in Procs, Effect(p) \/ Undo(p), Mixture(p), Forward(p)
  PROVE  Mixture(p)'
<1>1. Carries(p)
  BY EffectCarries, UndoCarries
<1>2. current' \in {current, tx[p].current, tx[p].image.release}
  BY DEF Effect, InstallUnits, InstallReload, UndoInstall, SelectPrevious,
         SelectCurrent, EnableTimer, StartTimer, RunSnapshotProducer,
         RunStorageProducer, RestartWeb, Postflight, Commit, Fail, Undo,
         RestoreCurrent, RestorePrevious, RestoreUnits, RestoreReload,
         RestoreTimer, RestoreStorage, RestoreWeb, Readback, host
<1>3. previous' \in {previous, tx[p].previous, NewPrevious(p)}
  <2>1. CASE SelectPrevious(p)
    <3>1. previous = tx[p].previous
      BY <2>1 DEF SelectPrevious, At, Forward
    <3>2. QED
      BY <2>1, <3>1 DEF SelectPrevious, NewPrevious
  <2>2. CASE ~ SelectPrevious(p)
    BY <2>2
    DEF Effect, InstallUnits, InstallReload, UndoInstall,
        SelectCurrent, EnableTimer, StartTimer, RunSnapshotProducer,
        RunStorageProducer, RestartWeb, Postflight, Commit, Fail, Undo,
        RestoreCurrent, RestorePrevious, RestoreUnits, RestoreReload,
        RestoreTimer, RestoreStorage, RestoreWeb, Readback, host
  <2>3. QED
    BY <2>1, <2>2
<1>4. \A u \in Units : unitFile'[u] \in {unitFile[u], tx[p].units[u], tx[p].image}
  <2>1. tx[p].units \in [Units -> UnitState]
    BY <1>1, TxType DEF Carries, Transacting
  <2>2. CASE InstallUnits(p)
    <3>1. PICK n \in 0..4 : unitFile' = Written(Rendered(tx[p].image), n)
      BY <2>2 DEF InstallUnits
    <3>2. QED
      BY <3>1, <1>1, WrittenMixes, RenderedType, TxType DEF Rendered, Carries
  <2>3. CASE UndoInstall(p) \/ RestoreUnits(p)
    <3>1. PICK n \in 0..4 : unitFile' = Written(tx[p].units, n)
      BY <2>3 DEF UndoInstall, RestoreUnits
    <3>2. QED
      BY <3>1, <2>1, WrittenMixes
  <2>4. CASE ~ (InstallUnits(p) \/ UndoInstall(p) \/ RestoreUnits(p))
    <3>1. unitFile' = unitFile
      BY <2>4
      DEF Effect, InstallReload, SelectPrevious,
          SelectCurrent, EnableTimer, StartTimer, RunSnapshotProducer,
          RunStorageProducer, RestartWeb, Postflight, Commit, Fail, Undo,
          RestoreCurrent, RestorePrevious, RestoreReload,
          RestoreTimer, RestoreStorage, RestoreWeb, Readback, host
    <3>2. QED
      BY <3>1
  <2>5. QED
    BY <2>2, <2>3, <2>4
<1>5. QED
  BY <1>1, <1>2, <1>3, <1>4 DEF Carries, Mixture, NewPrevious

(***************************************************************************)
(* What a transaction found, and between transactions                      *)
(***************************************************************************)
\* At rest under the lock, what the reads before the first effect find is
\* coherent.
LEMMA BeginPrior ==
  ASSUME TypeOK, LockInv, Rest, NEW p \in Procs, Begin(p)
  PROVE  Prior(p)'
<1>1. AtRest
  <2>1. pc[p] = "locked" /\ pc[p] \in Critical
    BY DEF Begin, At, Critical
  <2>2. QED
    BY <2>1, Alone DEF AtRest, Critical, Transacting, Applying, Restoring
<1>2. PICK old \in OldTargets :
      /\ tx'[p].current = current /\ tx'[p].previous = previous
      /\ tx'[p].units = unitFile /\ tx'[p].oldTarget = old
      /\ tx'[p].oldManaged = (old \in intact)
      /\ UNCHANGED <<intact, faults, disturbed>>
  BY DEF Begin, TypeOK
<1>3. current # None => old = current
  BY <1>2 DEF OldTargets
<1>4. Sound /\ current = None => old \notin Managed
  <2>1. SUFFICES ASSUME Sound, current = None PROVE old \notin Managed
    OBVIOUS
  <2>2. loaded = unitFile /\ (unitFile["web"] # None => unitFile["web"].release = Legacy)
    BY <1>1, <2>1 DEF Rest, Coherent, Units
  <2>3. QED
    BY <1>2, <2>1, <2>2, CutoverAssumption DEF OldTargets, RunningTargets, RunningTarget
<1>5. QED
  BY <1>1, <1>2, <1>3, <1>4 DEF Prior, Rest, Sound, Faultless

LEMMA CarriedPrior ==
  ASSUME NEW p \in Procs, Carries(p), Prior(p)
  PROVE  Prior(p)'
<1>1. CASE pc'[p] = "committed"
  BY <1>1 DEF Prior, Transacting, Applying, Restoring
<1>2. CASE pc'[p] # "committed"
  BY <1>2 DEF Carries, Prior, Sound, Faultless
<1>3. QED
  BY <1>1, <1>2

\* A commit leaves the host coherent, with a release to go back to.
LEMMA CommitRest ==
  ASSUME TypeOK, TxInv, NEW p \in Procs, Commit(p), Forward(p), Prior(p)
  PROVE  Rest'
<1> DEFINE image == tx[p].image
<1>1. /\ pc[p] = "receipt"
      /\ UNCHANGED <<current, previous, unitFile, loaded, intact, faults>>
  BY DEF Commit, At, host
<1>2. /\ unitFile = Rendered(image) /\ loaded = unitFile
      /\ current = image.release /\ previous = NewPrevious(p)
  BY <1>1 DEF Forward, Applying
<1>3. tx[p] \in Transaction /\ image.release \in Managed /\ image.config \in Configs
      /\ image = [release |-> image.release, config |-> image.config]
  BY <1>1 DEF TxInv, Transaction, Transacting, Applying
<1>4. Coherent(current, unitFile)
  BY <1>2, <1>3, CutoverAssumption DEF Coherent
<1>5. Faultless => Fallback(current, previous)
  <2>1. SUFFICES ASSUME Faultless PROVE Fallback(current, previous)
    OBVIOUS
  <2>2. /\ Fallback(tx[p].current, tx[p].previous)
        /\ tx[p].oldManaged = (tx[p].oldTarget \in Managed)
        /\ tx[p].current # None => tx[p].oldTarget = tx[p].current
    BY <1>1, <2>1 DEF Prior, Transacting, Applying
  <2>3. tx[p].current \in Managed \cup {None}
    BY <1>3 DEF Transaction
  <2>4. QED
    BY <1>2, <1>3, <2>2, <2>3, CutoverAssumption DEF Fallback, NewPrevious
<1>6. QED
  BY <1>1, <1>2, <1>4, <1>5 DEF Rest, Coherent, Faultless

\* So does a complete restoration; an incomplete one is remembered.
LEMMA ReadbackRest ==
  ASSUME TypeOK, TxInv, NEW p \in Procs, Readback(p), Backward(p), Backward(p)', Prior(p)
  PROVE  Rest'
<1>1. /\ pc[p] = "readback"
      /\ UNCHANGED <<current, previous, unitFile, loaded, tx, intact, faults>>
  BY DEF Readback, At, host
<1>2. CASE pc'[p] = "restored"
  <2>1. /\ current = tx[p].current /\ previous = tx[p].previous
        /\ unitFile = tx[p].units /\ loaded = unitFile
    BY <1>1, <1>2 DEF Backward
  <2>2. disturbed' = disturbed
    BY <1>2 DEF Readback, TypeOK, Goto
  <2>3. QED
    BY <1>1, <2>1, <2>2 DEF Rest, Prior, Sound, Faultless, Coherent,
       Transacting, Restoring
<1>3. CASE disturbed'
  <2>1. faults = 0 => /\ current = tx[p].current /\ previous = tx[p].previous
                      /\ unitFile = tx[p].units /\ loaded = unitFile
    BY <1>1 DEF Backward
  <2>2. QED
    BY <1>1, <1>3, <2>1 DEF Rest, Prior, Sound, Faultless, Coherent,
       Transacting, Restoring
<1>4. QED
  BY <1>2, <1>3 DEF Readback, TypeOK, Goto

LEMMA StepRest ==
  ASSUME TypeOK, LockInv, TxInv, Rest, NEW p \in Procs,
         Invoke(p) \/ Step(p) \/ Kill(p), Forward(p), Backward(p), Prior(p)
  PROVE  Rest'
<1>1. CASE Invoke(p) \/ Acquire(p) \/ LockTimeout(p) \/ Refuse(p) \/ Exit(p)
  <2>1. /\ UNCHANGED <<current, previous, unitFile, loaded, intact, faults, disturbed>>
        /\ \A q \in Procs : pc[q] \in Transacting => pc'[q] = pc[q]
    BY <1>1 DEF Invoke, Acquire, LockTimeout, Refuse, Exit, Leave, Keep, host,
       TypeOK,
                Goto, At, Transacting, Applying, Restoring, Ended
  <2>2. AtRest' => AtRest
    BY <2>1 DEF AtRest
  <2>3. QED
    BY <2>1, <2>2 DEF Rest, Sound, Faultless, Coherent
<1>2. CASE Kill(p)
  <2>1. /\ UNCHANGED <<current, previous, unitFile, loaded>>
        /\ faults' = faults + 1 /\ faults' # 0
        /\ disturbed' = (disturbed \/ pc[p] \in Transacting)
        /\ pc[p] \in Critical /\ \A q \in Procs : q # p => pc'[q] = pc[q]
    BY <1>2, CutoverAssumption
    DEF Kill, Leave, host, Transacting, TypeOK, Goto
  <2>2. Sound' => Sound /\ pc[p] \notin Transacting
    BY <2>1 DEF Sound
  <2>3. AtRest' /\ pc[p] \notin Transacting => AtRest
    BY <2>1 DEF AtRest
  <2>4. QED
    BY <2>1, <2>2, <2>3 DEF Rest, Faultless, Coherent
<1>3. CASE Begin(p)
  <2>1. pc'[p] \in Transacting
    BY <1>3 DEF Begin, TypeOK, Goto, Transacting, Applying
  <2>2. QED
    BY <2>1 DEF Rest, AtRest
<1>4. CASE Commit(p)
  BY <1>4, CommitRest
<1>5. CASE Readback(p)
  BY <1>5, ReadbackRest, UndoBackward DEF Undo
<1>6. CASE (Effect(p) \/ Undo(p)) /\ pc'[p] \in Transacting
  BY <1>6 DEF Rest, AtRest
<1>7. CASE (Effect(p) \/ Undo(p)) /\ pc'[p] \notin Transacting
  <2>1. CASE Commit(p) \/ Readback(p)
    BY <2>1, <1>4, <1>5
  <2>2. CASE ~ (Commit(p) \/ Readback(p))
    <3>1. CASE Effect(p)
      BY <1>7, <2>2, <3>1
      DEF Effect, InstallUnits, InstallReload, UndoInstall, SelectPrevious,
         SelectCurrent, EnableTimer, StartTimer, RunSnapshotProducer,
         RunStorageProducer, RestartWeb, Postflight, Fail, TypeOK, Goto,
         Transacting, Applying, Restoring
    <3>2. CASE Undo(p)
      BY <1>7, <2>2, <3>2
      DEF Undo, RestoreCurrent, RestorePrevious, RestoreUnits, RestoreReload,
         RestoreTimer, RestoreStorage, RestoreWeb, TypeOK, Goto,
         Transacting, Applying, Restoring
    <3>3. QED
      BY <1>7, <3>1, <3>2
  <2>3. QED
    BY <2>1, <2>2
<1>8. QED
  BY <1>1, <1>2, <1>3, <1>6, <1>7, StepCases

(***************************************************************************)
(* The inductive invariant holds of every behaviour                        *)
(***************************************************************************)
OwnInv(p) == Forward(p) /\ Backward(p) /\ Mixture(p) /\ Prior(p)

\* An invocation that is outside the lock, before and after, claims nothing.
LEMMA OutsideInv ==
  ASSUME NEW q \in Procs, pc'[q] \in Phases \ (Critical \ {"locked"})
  PROVE  OwnInv(q)'
  BY DEF OwnInv, Forward, Backward, Mixture, Prior, Phases, Critical, Transacting,
         Applying, Restoring, Ended

LEMMA OwnStep ==
  ASSUME TypeOK, LockInv, TxInv, Rest, NEW p \in Procs, OwnInv(p),
         Begin(p) \/ Effect(p) \/ Undo(p)
  PROVE  OwnInv(p)'
<1>1. CASE Begin(p)
  BY <1>1, BeginForward, EffectBackward, BeginMixture, BeginPrior DEF OwnInv
<1>2. CASE Effect(p)
  BY <1>2, EffectForward, EffectBackward, CarriedMixture, EffectCarries,
     CarriedPrior
  DEF OwnInv
<1>3. CASE Undo(p)
  BY <1>3, UndoForward, UndoBackward, CarriedMixture, UndoCarries, CarriedPrior
  DEF OwnInv
<1>4. QED
  BY <1>1, <1>2, <1>3

LEMMA StepIInv ==
  ASSUME IInv, NEW p \in Procs, Invoke(p) \/ Step(p) \/ Kill(p)
  PROVE  IInv'
<1>1. TypeOK' /\ LockInv' /\ TxInv' /\ Rest'
  BY StepType, LockStep, TxStep, StepRest DEF IInv
<1>2. ASSUME NEW q \in Procs PROVE OwnInv(q)'
  <2>1. CASE Begin(p) \/ Effect(p) \/ Undo(p)
    <3>1. CASE q = p
      BY <2>1, <3>1, OwnStep DEF IInv, OwnInv
    <3>2. CASE q # p
      <4>1. pc[p] \in Critical /\ pc'[q] = pc[q]
        BY <2>1, <3>2, EffectCarries, UndoCarries
        DEF Begin, At, Goto, Carries, Critical, Transacting, IInv, TypeOK
      <4>2. pc[q] \in Phases \ Critical
        BY <4>1, <3>2, Alone DEF IInv, TypeOK
      <4>3. QED
        BY <4>1, <4>2, OutsideInv
    <3>3. QED
      BY <3>1, <3>2
  <2>2. CASE Invoke(p) \/ Acquire(p) \/ LockTimeout(p)
    <3>1. /\ UNCHANGED <<current, previous, unitFile, loaded, timer, web, intact, tx,
                         errors, faults, disturbed>>
          /\ pc'[q] = pc[q] \/ pc'[q] \in {"idle", "waiting", "locked"}
      BY <2>2 DEF Invoke, Acquire, LockTimeout, Keep, host, Goto, IInv, TypeOK
    <3>2. CASE pc'[q] = pc[q]
      BY <3>1, <3>2 DEF IInv, OwnInv, Forward, Backward, Mixture, Prior,
         NewPrevious,
                        RunningTarget, Sound, Faultless, Coherent, Fallback
    <3>3. CASE pc'[q] \in {"idle", "waiting", "locked"}
      BY <3>3, OutsideInv DEF Phases, Critical, Applying, Restoring, Ended
    <3>4. QED
      BY <3>1, <3>2, <3>3
  <2>3. CASE Refuse(p) \/ Exit(p) \/ Kill(p)
    <3>1. pc[p] \in Critical /\ pc' = [pc EXCEPT ![p] = "idle"]
      BY <2>3 DEF Refuse, Exit, Kill, Leave, At, Goto, Critical
    <3>2. pc'[q] \in Phases \ Critical
      BY <3>1, Alone
      DEF IInv, TypeOK, Phases, Critical, Applying, Restoring, Ended
    <3>3. QED
      BY <3>2, OutsideInv
  <2>4. QED
    BY <2>1, <2>2, <2>3, StepCases
<1>3. IncompleteInv'
  <2>1. ASSUME NEW q \in Procs, pc'[q] = "incomplete" PROVE disturbed'
    <3>1. CASE Begin(p) \/ Effect(p) \/ Undo(p)
      <4>1. CASE q # p
        <5>1. pc[p] \in Critical /\ pc'[q] = pc[q]
          BY <3>1, <4>1, EffectCarries, UndoCarries
          DEF Begin, At, Goto, Carries, Critical, Transacting, IInv, TypeOK
        <5>2. QED
          BY <5>1, <4>1, <2>1, Alone DEF IInv, Critical, Ended
      <4>2. CASE q = p /\ Begin(p)
        BY <4>2, <2>1 DEF Begin, Goto, IInv, TypeOK
      <4>3. CASE q = p /\ Effect(p)
        BY <4>3, <2>1
        DEF Effect, InstallUnits, InstallReload, UndoInstall, SelectPrevious,
            SelectCurrent, EnableTimer, StartTimer, RunSnapshotProducer,
            RunStorageProducer, RestartWeb, Postflight, Commit, Fail, Goto, IInv, TypeOK
      <4>4. CASE q = p /\ Undo(p)
        <5>1. Readback(p)
          BY <4>4, <2>1
          DEF Undo, RestoreCurrent, RestorePrevious, RestoreUnits, RestoreReload,
              RestoreTimer, RestoreStorage, RestoreWeb, Goto, IInv, TypeOK
        <5>2. QED
          BY <5>1, <4>4, <2>1 DEF Readback, Goto, IInv, TypeOK
      <4>5. QED
        BY <3>1, <4>1, <4>2, <4>3, <4>4
    <3>2. CASE Invoke(p) \/ Acquire(p) \/ LockTimeout(p) \/ Refuse(p) \/ Exit(p) \/ Kill(p)
      <4>1. pc[q] = "incomplete"
        BY <3>2, <2>1
        DEF Invoke, Acquire, LockTimeout, Refuse, Exit, Kill, Leave, Goto, IInv, TypeOK
      <4>2. disturbed
        BY <4>1 DEF IInv, IncompleteInv
      <4>3. disturbed' = disturbed \/ disturbed' = (disturbed \/ pc[p] \in Transacting)
        BY <3>2 DEF Invoke, Acquire, LockTimeout, Refuse, Exit, Kill,
           Keep, Transacting
      <4>4. QED
        BY <4>2, <4>3
    <3>3. QED
      BY <3>1, <3>2, StepCases
  <2>2. QED
    BY <2>1 DEF IncompleteInv
<1>4. QED
  BY <1>1, <1>2, <1>3 DEF IInv, OwnInv

\* The web process may come and go, and a release may be damaged, at any time:
\* a process that systemd starts by itself runs the loaded unit.
LEMMA HostIInv ==
  ASSUME IInv, WebExit \/ WebAutoRestart \/ Damage \/ UNCHANGED vars
  PROVE  IInv'
<1>1. UNCHANGED <<current, previous, unitFile, loaded, timer, lock, pc, tx,
                  errors, faults, disturbed>>
  BY HostFrame
<1>2. TypeOK' /\ LockInv' /\ TxInv' /\ IncompleteInv'
  BY <1>1, HostType DEF IInv, LockInv, TxInv, IncompleteInv
<1>3. web'.state = "active" => web' = web \/ (loaded["web"] # None /\ web' = Started)
  BY CutoverAssumption
  DEF WebExit, WebAutoRestart, Damage, Stopped, host, vars
<1>4. Faultless' => Faultless
  BY <1>1 DEF WebExit, WebAutoRestart, Damage, Keep, vars, Faultless, IInv, TypeOK
<1>5. ASSUME NEW p \in Procs PROVE Forward(p)' /\ Backward(p)'
  <2>1. Forward(p)'
    <3>1. pc[p] \in {"receipt", "committed"} /\ web'.state = "active" =>
            web'.cwd = tx[p].image.release
      <4>1. SUFFICES ASSUME pc[p] \in {"receipt", "committed"}, web' = Started
                     PROVE  web'.cwd = tx[p].image.release
        BY <1>3 DEF IInv, Forward
      <4>2. loaded["web"] = tx[p].image
        BY <4>1 DEF IInv, Forward, Applying, Rendered, Units
      <4>3. QED
        BY <4>1, <4>2 DEF Started
    <3>2. QED
      BY <1>1, <3>1 DEF IInv, Forward, NewPrevious
  <2>2. Backward(p)'
    <3>1. pc[p] = "restored" /\ tx[p].webActive /\ tx[p].oldTarget # None
            /\ web'.state = "active"
          => web'.cwd = tx[p].oldTarget
      <4>1. SUFFICES ASSUME pc[p] = "restored", tx[p].webActive,
                            tx[p].oldTarget # None, web'.state = "active"
                     PROVE  web'.cwd = tx[p].oldTarget
        OBVIOUS
      <4>2. /\ RunningTarget = tx[p].oldTarget
            /\ web.state = "active" => web.cwd = tx[p].oldTarget
        BY <4>1 DEF IInv, Backward
      <4>3. CASE web' = web
        BY <4>1, <4>2, <4>3
      <4>4. CASE loaded["web"] # None /\ web' = Started
        BY <4>2, <4>4 DEF RunningTarget, Started
      <4>5. QED
        BY <4>1, <4>3, <4>4, <1>3
    <3>2. QED
      BY <1>1, <3>1 DEF IInv, Backward, RunningTarget
  <2>3. QED
    BY <2>1, <2>2
<1>6. ASSUME NEW p \in Procs PROVE Mixture(p)' /\ Prior(p)'
  BY <1>1, <1>4 DEF IInv, Mixture, Prior, NewPrevious, Sound, Coherent, Fallback
<1>7. Rest'
  BY <1>1, <1>4 DEF IInv, Rest, AtRest, Sound, Coherent, Fallback
<1>8. QED
  BY <1>2, <1>5, <1>6, <1>7 DEF IInv

LEMMA InitIInv == Init => IInv
<1> SUFFICES ASSUME Init PROVE IInv
  OBVIOUS
<1>1. \A p \in Procs : pc[p] = "idle"
  BY DEF Init
<1>2. LockInv /\ TxInv /\ IncompleteInv
  BY <1>1 DEF LockInv, TxInv, IncompleteInv, Critical, Transacting, Applying,
              Restoring, Ended
<1>3. \A p \in Procs : Forward(p) /\ Backward(p) /\ Mixture(p) /\ Prior(p)
  BY <1>1 DEF Forward, Backward, Mixture, Prior, Transacting, Applying, Restoring
<1>4. Coherent(current, unitFile)
  <2>1. CASE unitFile = [u \in Units |-> None]
    BY <2>1 DEF Init, Coherent
  <2>2. CASE \E c \in Configs : unitFile = LegacyUnits(c)
    BY <2>2 DEF Init, Coherent, LegacyUnits
  <2>3. QED
    BY <2>1, <2>2 DEF Init
<1>5. Rest
  BY <1>4 DEF Init, Rest, Fallback
<1>6. QED
  BY <1>2, <1>3, <1>5, InitType DEF IInv

LEMMA NextIInv ==
  ASSUME IInv, [Next]_vars
  PROVE  IInv'
<1>1. CASE \E p \in Procs : Invoke(p) \/ Step(p) \/ Kill(p)
  BY <1>1, StepIInv
<1>2. CASE WebExit \/ WebAutoRestart \/ Damage \/ UNCHANGED vars
  BY <1>2, HostIInv
<1>3. QED
  BY <1>1, <1>2 DEF Next

\* The strengthened invariant holds of every behaviour.
THEOREM Invariance == Spec => []IInv
  BY InitIInv, NextIInv, PTL DEF Spec

(***************************************************************************)
(* The safety properties                                                   *)
(***************************************************************************)
\* A switch that returns normally leaves one release everywhere, and the one
\* that was serving as the release to roll back to.
THEOREM Committed == Spec => []CommittedIsTarget
<1>1. IInv => CommittedIsTarget
  BY DEF IInv, Forward, CommittedIsTarget, NewPrevious, At
<1>2. QED
  BY <1>1, Invariance, PTL

\* A failed switch that reports complete restoration has put the prior state
\* back, the loaded units included.
THEOREM Restored == Spec => []RestoredIsPrior
<1>1. IInv => RestoredIsPrior
  BY DEF IInv, Backward, RestoredIsPrior, At
<1>2. QED
  BY <1>1, Invariance, PTL

\* No half-made cutover is left behind by commands that were not interrupted.
THEOREM Settled == Spec => []SettledCoherent
<1>1. IInv => SettledCoherent
  <2> SUFFICES ASSUME IInv, lock = None, ~ disturbed
               PROVE  loaded = unitFile /\ Coherent(current, unitFile)
    BY DEF SettledCoherent, Coherent
  <2>1. AtRest
    BY CutoverAssumption DEF IInv, LockInv, AtRest, Critical, Transacting
  <2>2. QED
    BY <2>1 DEF IInv, Rest, Sound
<1>2. QED
  BY <1>1, Invariance, PTL

\* Without faults, the rollback target is never the selected release itself.
THEOREM Fallbacks == Spec => []FallbackDiffers
<1>1. IInv => FallbackDiffers
  <2> SUFFICES ASSUME IInv, lock = None, faults = 0, intact = Managed
               PROVE  Fallback(current, previous)
    BY DEF FallbackDiffers, Fallback
  <2>1. AtRest
    BY CutoverAssumption DEF IInv, LockInv, AtRest, Critical, Transacting
  <2>2. QED
    BY <2>1 DEF IInv, Rest, Faultless
<1>2. QED
  BY <1>1, Invariance, PTL

=============================================================================
