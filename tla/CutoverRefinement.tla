-------------------------- MODULE CutoverRefinement --------------------------
(***************************************************************************)
(* The detailed cutover implements AtomicCutover, for any number of        *)
(* releases, configurations, invocations and faults: seen between          *)
(* commands, a switch happened completely, not at all, or is flagged.      *)
(***************************************************************************)
EXTENDS CutoverProofs

OnHost ==
  [current |-> current, previous |-> previous, units |-> unitFile, timer |-> timer]
Found(p) ==
  [current |-> tx[p].current, previous |-> tx[p].previous,
   units |-> tx[p].units, timer |-> tx[p].timer]

\* Between transactions the host counts as it is.
LEMMA InstalledAtRest == AtRest => Installed = OnHost
  BY DEF AtRest, Installed, UnderWay, Transacting, OnHost

\* During one, it counts as the transaction found it.
LEMMA InstalledUnderWay ==
  ASSUME LockInv, NEW p \in Procs, pc[p] \in Transacting
  PROVE  Installed = Found(p)
<1>1. UnderWay = {p}
  BY Alone DEF UnderWay, Transacting, Critical
<1>2. (CHOOSE q \in UnderWay : TRUE) = p
  BY <1>1
<1>3. QED
  BY <1>1, <1>2 DEF Installed, Found

\* The same two facts about the state after a step.
LEMMA NextInstalledAtRest == AtRest' => Installed' = OnHost'
  BY DEF AtRest, Installed, UnderWay, Transacting, OnHost

LEMMA NextInstalledUnderWay ==
  ASSUME LockInv', NEW p \in Procs, pc'[p] \in Transacting
  PROVE  Installed' = Found(p)'
<1>1. UnderWay' = {p}
  BY DEF UnderWay, Transacting, Critical, LockInv
<1>2. (CHOOSE q \in UnderWay' : TRUE) = p
  BY <1>1
<1>3. QED
  BY <1>1, <1>2 DEF Installed, Found

LEMMA InitMaps == Init => Atomic!Init
<1> SUFFICES ASSUME Init PROVE Atomic!Init
  OBVIOUS
<1>1. Installed = OnHost
  BY InstalledAtRest DEF Init, AtRest, Transacting, Applying, Restoring
<1>2. unitFile \in Atomic!FirstUnits
  BY DEF Init, Atomic!FirstUnits, LegacyUnits, Units, Atomic!Units
<1>3. disturbed = FALSE /\ current = None /\ previous = None
      /\ timer = [enabled |-> FALSE, active |-> FALSE]
  BY DEF Init
<1>4. QED
  BY <1>1, <1>2, <1>3 DEF Atomic!Init, OnHost, Atomic!TimerOff

\* The release a cutover records is one AtomicCutover allows.
LEMMA FallbackMaps ==
  ASSUME IInv, NEW p \in Procs, pc[p] \in Transacting
  PROVE  {tx[p].previous, NewPrevious(p)} \subseteq Atomic!Fallbacks(tx[p].image.release)
<1>1. Installed = Found(p)
  BY InstalledUnderWay DEF IInv
<1>2. tx[p].oldManaged => tx[p].oldTarget \in Managed
  BY TxType DEF IInv
<1>3. tx[p].current # None => tx[p].oldTarget = tx[p].current
  BY DEF IInv, Prior
<1>4. tx[p].current = None /\ tx[p].oldManaged => disturbed
  BY <1>2 DEF IInv, Prior, Sound
<1>5. QED
  BY <1>1, <1>2, <1>3, <1>4 DEF Found, NewPrevious, Atomic!Fallbacks, Atomic!Serving

\* Stopped between the first and the last effect, the host is a mixture that
\* AtomicCutover allows of an interrupted cutover.
LEMMA InterruptMaps ==
  ASSUME IInv, NEW p \in Procs, pc[p] \in Transacting, AtRest', OnHost' = OnHost,
         disturbed' = TRUE
  PROVE  Atomic!Interrupt(tx[p].image)
<1>1. Installed = Found(p) /\ Installed' = OnHost
  BY InstalledUnderWay, NextInstalledAtRest DEF IInv
<1>2. Mixture(p) /\ timer \in TimerState
  BY DEF IInv, TypeOK
<1>3. /\ current \in {tx[p].current, tx[p].image.release}
      /\ timer \in [enabled : BOOLEAN, active : BOOLEAN]
  BY <1>2 DEF Mixture, TimerState
<1>4. previous \in Atomic!Fallbacks(tx[p].image.release)
  BY <1>2, FallbackMaps DEF Mixture
<1>5. unitFile \in Atomic!Mixtures(tx[p].image)
  <2> DEFINE written == {u \in Atomic!Units : unitFile[u] = tx[p].image}
  <2>1. unitFile \in [Atomic!Units -> UnitState]
    BY DEF IInv, TypeOK, Units, Atomic!Units
  <2>2. \A u \in Atomic!Units :
          unitFile[u] = IF u \in written THEN tx[p].image ELSE tx[p].units[u]
    BY <1>2 DEF Mixture, Units, Atomic!Units
  <2>3. unitFile = [u \in Atomic!Units |-> IF u \in written THEN tx[p].image
                                           ELSE Installed.units[u]]
    BY <1>1, <2>1, <2>2 DEF Found
  <2>4. written \in SUBSET Atomic!Units
    OBVIOUS
  <2>5. QED
    BY <2>3, <2>4 DEF Atomic!Mixtures
<1>6. QED
  BY <1>1, <1>3, <1>4, <1>5 DEF Atomic!Interrupt, Found, OnHost

LEMMA CommitMaps ==
  ASSUME IInv, NEW p \in Procs, Commit(p), AtRest'
  PROVE  Atomic!Switch(tx[p].image)
<1>1. /\ pc[p] = "receipt" /\ pc[p] \in Transacting
      /\ OnHost' = OnHost /\ disturbed' = FALSE
  BY DEF Commit, At, host, OnHost, Transacting, Applying
<1>2. Installed = Found(p) /\ Installed' = OnHost
  BY <1>1, InstalledUnderWay, NextInstalledAtRest DEF IInv
<1>3. /\ current = tx[p].image.release /\ previous = NewPrevious(p)
      /\ unitFile = [u \in Atomic!Units |-> tx[p].image]
      /\ timer = [enabled |-> TRUE, active |-> TRUE]
  BY <1>1 DEF IInv, Forward, Applying, Rendered, Units, Atomic!Units
<1>4. previous \in Atomic!Fallbacks(tx[p].image.release)
  BY <1>1, <1>3, FallbackMaps
<1>5. QED
  BY <1>1, <1>2, <1>3, <1>4 DEF Atomic!Switch, OnHost, Atomic!TimerOn

\* An image in a transaction is one AtomicCutover can switch to.
LEMMA ImageMaps ==
  ASSUME IInv, NEW p \in Procs, pc[p] \in Transacting
  PROVE  tx[p].image \in [release : Managed, config : Configs]
  BY DEF IInv, TxInv, Transaction

StepMaps == Atomic!Next \/ (Installed' = Installed /\ disturbed' = disturbed)

LEMMA InvocationMaps ==
  ASSUME IInv, IInv', NEW p \in Procs, Invoke(p) \/ Step(p) \/ Kill(p)
  PROVE  StepMaps
<1>1. CASE Invoke(p) \/ Acquire(p) \/ LockTimeout(p)
  <2>1. /\ OnHost' = OnHost /\ tx' = tx /\ disturbed' = disturbed
        /\ \A q \in Procs : pc'[q] \in Transacting <=> pc[q] \in Transacting
    BY <1>1 DEF Invoke, Acquire, LockTimeout, Keep, host, OnHost, At, Goto, IInv,
                TypeOK, Transacting, Applying, Restoring
  <2>2. UnderWay' = UnderWay
    BY <2>1 DEF UnderWay, Transacting
  <2>3. QED
    BY <2>1, <2>2 DEF Installed, StepMaps, OnHost
<1>2. CASE Refuse(p) \/ Exit(p) \/ Kill(p)
  <2>1. /\ pc[p] \in Critical /\ pc' = [pc EXCEPT ![p] = "idle"]
        /\ OnHost' = OnHost
        /\ disturbed' = disturbed \/ disturbed' = (disturbed \/ pc[p] \in Transacting)
        /\ pc[p] \in Transacting => Kill(p)
    BY <1>2 DEF Refuse, Exit, Kill, Leave, At, Goto, host, OnHost, Critical,
                Transacting, Applying, Restoring, Ended
  <2>2. AtRest'
    BY <2>1, Alone
    DEF IInv, TypeOK, AtRest, Critical, Transacting, Applying, Restoring
  <2>3. CASE pc[p] \in Transacting
    <3>1. disturbed' = TRUE
      BY <2>1, <2>3 DEF Kill, Transacting
    <3>2. QED
      BY <2>1, <2>2, <2>3, <3>1, InterruptMaps, ImageMaps DEF StepMaps, Atomic!Next
  <2>4. CASE pc[p] \notin Transacting
    <3>1. AtRest
      BY <2>1, <2>4, Alone DEF IInv, AtRest, Critical, Transacting
    <3>2. disturbed' = disturbed
      BY <2>1, <2>4 DEF IInv, TypeOK
    <3>3. QED
      BY <2>1, <2>2, <3>1, <3>2, InstalledAtRest, NextInstalledAtRest DEF StepMaps
  <2>5. QED
    BY <2>3, <2>4
<1>3. CASE Begin(p)
  <2>1. /\ pc[p] \in Critical \ Transacting /\ pc'[p] \in Transacting
        /\ Found(p)' = OnHost /\ disturbed' = disturbed
    BY <1>3 DEF Begin, At, Goto, IInv, TypeOK, Critical, Transacting, Applying,
                Restoring, Found, OnHost
  <2>2. AtRest
    BY <2>1, Alone DEF IInv, AtRest, Critical, Transacting
  <2>3. QED
    BY <2>1, <2>2, InstalledAtRest, NextInstalledUnderWay DEF IInv, StepMaps
<1>4. CASE Effect(p) \/ Undo(p)
  <2>1. Carries(p) /\ pc[p] \in Critical
    BY <1>4, EffectCarries, UndoCarries DEF IInv, Carries, Transacting, Critical
  <2>2. CASE pc'[p] \in Transacting
    <3>1. disturbed' = disturbed
      BY <1>4, <2>2
      DEF Effect, InstallUnits, InstallReload, UndoInstall, SelectPrevious,
          SelectCurrent, EnableTimer, StartTimer, RunSnapshotProducer,
          RunStorageProducer, RestartWeb, Postflight, Commit, Fail, Keep, Undo,
          RestoreCurrent, RestorePrevious, RestoreUnits, RestoreReload,
          RestoreTimer, RestoreStorage, RestoreWeb, Readback, Goto, IInv, TypeOK,
          Transacting, Applying, Restoring
    <3>2. Installed = Found(p) /\ Installed' = Found(p)'
      BY <2>1, <2>2, InstalledUnderWay, NextInstalledUnderWay DEF IInv, Carries
    <3>3. QED
      BY <2>1, <3>1, <3>2 DEF StepMaps, Carries, Found
  <2>3. CASE pc'[p] \notin Transacting
    <3>1. AtRest'
      <4>1. ASSUME NEW q \in Procs, q # p PROVE pc'[q] \notin Transacting
        BY <2>1, <4>1, Alone DEF Carries, IInv, TypeOK, Transacting, Critical
      <4>2. QED
        BY <2>3, <4>1 DEF AtRest
    <3>2. pc[p] \in Transacting
      BY <2>1 DEF Carries
    <3>3. Commit(p) \/ Readback(p)
      <4>1. CASE Effect(p)
        BY <4>1, <2>3
        DEF Effect, InstallUnits, InstallReload, UndoInstall, SelectPrevious,
            SelectCurrent, EnableTimer, StartTimer, RunSnapshotProducer,
            RunStorageProducer, RestartWeb, Postflight, Fail, Goto, IInv, TypeOK,
            Transacting, Applying, Restoring
      <4>2. CASE Undo(p)
        BY <4>2, <2>3
        DEF Undo, RestoreCurrent, RestorePrevious, RestoreUnits, RestoreReload,
            RestoreTimer, RestoreStorage, RestoreWeb, Goto, IInv, TypeOK,
            Transacting, Applying, Restoring
      <4>3. QED
        BY <1>4, <4>1, <4>2
    <3>4. CASE Commit(p)
      BY <3>1, <3>2, <3>4, CommitMaps, ImageMaps DEF StepMaps, Atomic!Next
    <3>5. CASE Readback(p) /\ pc'[p] = "restored"
      <4>1. OnHost' = Found(p)' /\ Found(p)' = Found(p)
        BY <2>1, <3>5 DEF IInv, Backward, OnHost, Found, Carries
      <4>2. disturbed' = disturbed
        BY <3>5 DEF Readback, Goto, IInv, TypeOK
      <4>3. QED
        BY <3>1, <3>2, <4>1, <4>2, InstalledUnderWay, NextInstalledAtRest
        DEF IInv, StepMaps
    <3>6. CASE Readback(p) /\ pc'[p] # "restored"
      <4>1. disturbed' = TRUE /\ OnHost' = OnHost
        BY <3>6 DEF Readback, Goto, IInv, TypeOK, OnHost, host
      <4>2. QED
        BY <3>1, <3>2, <4>1, InterruptMaps, ImageMaps DEF StepMaps, Atomic!Next
    <3>7. QED
      BY <3>3, <3>4, <3>5, <3>6
  <2>4. QED
    BY <2>2, <2>3
<1>5. QED
  BY <1>1, <1>2, <1>3, <1>4, StepCases

LEMMA HostMaps ==
  ASSUME WebExit \/ WebAutoRestart \/ Damage \/ UNCHANGED vars
  PROVE  StepMaps
  BY HostFrame DEF StepMaps, Installed, UnderWay

LEMMA NextMaps ==
  ASSUME IInv, IInv', [Next]_vars
  PROVE  [Atomic!Next]_(Atomic!vars)
<1>1. StepMaps
  <2>1. CASE \E p \in Procs : Invoke(p) \/ Step(p) \/ Kill(p)
    BY <2>1, InvocationMaps
  <2>2. CASE WebExit \/ WebAutoRestart \/ Damage \/ UNCHANGED vars
    BY <2>2, HostMaps
  <2>3. QED
    BY <2>1, <2>2 DEF Next
<1>2. QED
  BY <1>1 DEF StepMaps, Atomic!vars

\* switch_transaction is all or nothing, and what it is not is remembered.
THEOREM Refinement == Spec => ImplementsAtomicCutover
<1>1. Spec => []IInv
  BY Invariance
<1>2. QED
  BY <1>1, InitMaps, NextMaps, PTL DEF Spec, ImplementsAtomicCutover, Atomic!Spec
=============================================================================
