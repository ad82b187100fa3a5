--------------------------- MODULE DeploymentProofs ---------------------------
(***************************************************************************)
(* What the commands around the cutover guarantee, for any number of       *)
(* commits, edits, kills and failures: a success is what is installed, a   *)
(* completion is earned, and nothing installed is missing.                 *)
(***************************************************************************)
EXTENDS Deployment, TLAPS

\* The configuration is known from the preparation on, and `build` and `switch`
\* have only their own steps.
CommandInv ==
  op # None =>
    /\ op.command = "build" => op.step \in {"build", "publish", "verify_build"}
    /\ op.command = "switch" => op.step \in {"cutover", "produce", "postflight"}
    /\ op.command # "build" /\ op.step # "prepare" => op.image.config \in Catalogs

\* No unit, outside an interrupted cutover, has this configuration.
Unused(config) ==
  trusted => \A u \in Cutover!Units :
    installed.units[u] # None /\ installed.units[u].release # Legacy =>
      installed.units[u].config # config

\* What a command has established when it reaches a step; nobody else changes
\* the installation or removes what was published.  The Systemkatalog release
\* that an attempt creates, and may remove again, is of no use to anybody yet.
StepInv ==
  op # None =>
    /\ result = None
    /\ op.step \in {"clone", "verify_clone"} => Unused(op.image.config)
    /\ op.step \in {"produce", "postflight"} => releases[op.image.release] # "absent"
    /\ op.step = "replay" => Matches(op.image)
    /\ op.step \in {"receipt", "sidecar", "record"} =>
         /\ op.command = "deploy" /\ trusted
         /\ Matches(op.image) /\ installed.timer = Cutover!TimerOn
    /\ op.step \in {"sidecar", "record"} => op.image \in receipts

Inv == TypeOK /\ CommandInv /\ StepInv /\ SuccessIsInstalled /\ InstalledExists
-----------------------------------------------------------------------------
(* Types *)

Images == [release : Heads, config : Catalogs \cup {None}]
InstalledType ==
  [current : Heads \cup {None}, previous : Heads \cup {None},
   units : [Cutover!Units -> Image \cup {None}], timer : [enabled : BOOLEAN, active : BOOLEAN]]

LEMMA ConstantFacts ==
  /\ 1 \in Heads /\ 1 \in Catalogs /\ Heads \subseteq Nat /\ Catalogs \subseteq Nat
  /\ Legacy \notin Heads /\ None \notin Heads /\ None \notin Catalogs /\ None # Legacy
  BY DeploymentAssumption DEF Heads, Catalogs

LEMMA ImageFacts ==
  ASSUME NEW image \in [release : Heads, config : Catalogs]
  PROVE  image \in Image /\ image \in Images /\ image \in Key
  BY DEF Image, Images, Key

\* A command, and what it goes on to.
LEMMA OpFacts ==
  ASSUME TypeOK, op # None
  PROVE  /\ op \in Operation /\ op.image \in Images /\ op.image.release \in Heads
         /\ \A step \in Steps : [op EXCEPT !.step = step] \in Operation
         /\ \A outcome \in Outcomes :
              [command |-> op.command, outcome |-> outcome, image |-> op.image] \in Result
  BY DEF TypeOK, Operation, Result, Images

LEMMA FallbackType ==
  ASSUME TypeOK, NEW release \in Heads
  PROVE  Cutover!Fallbacks(release) \subseteq Heads \cup {None}
  BY DEF TypeOK, Cutover!Fallbacks, Cutover!Serving

LEMMA SwitchType ==
  ASSUME TypeOK, NEW image \in [release : Heads, config : Catalogs], Cutover!Switch(image)
  PROVE  installed' \in InstalledType /\ trusted' = TRUE
<1>1. installed' \in [current : {image.release}, previous : Cutover!Fallbacks(image.release),
                      units : {[u \in Cutover!Units |-> image]}, timer : {Cutover!TimerOn}]
      /\ trusted' = TRUE
  BY DEF Cutover!Switch
<1>2. image.release \in Heads /\ Cutover!Fallbacks(image.release) \subseteq Heads \cup {None}
  BY FallbackType
<1>3. [u \in Cutover!Units |-> image] \in [Cutover!Units -> Image \cup {None}]
  BY ImageFacts
<1>4. Cutover!TimerOn \in [enabled : BOOLEAN, active : BOOLEAN]
  BY DEF Cutover!TimerOn
<1>5. QED
  BY <1>1, <1>2, <1>3, <1>4 DEF InstalledType

LEMMA InterruptType ==
  ASSUME TypeOK, NEW image \in [release : Heads, config : Catalogs], Cutover!Interrupt(image)
  PROVE  installed' \in InstalledType /\ trusted' = FALSE
<1>1. installed' \in [current : {installed.current, image.release},
                      previous : Cutover!Fallbacks(image.release),
                      units : Cutover!Mixtures(image),
                      timer : [enabled : BOOLEAN, active : BOOLEAN]]
      /\ trusted' = FALSE
  BY DEF Cutover!Interrupt
<1>2. image.release \in Heads /\ Cutover!Fallbacks(image.release) \subseteq Heads \cup {None}
  BY FallbackType
<1>3. Cutover!Mixtures(image) \subseteq [Cutover!Units -> Image \cup {None}]
  BY ImageFacts DEF Cutover!Mixtures, TypeOK
<1>4. installed.current \in Heads \cup {None}
  BY DEF TypeOK
<1>5. QED
  BY <1>1, <1>2, <1>3, <1>4 DEF InstalledType

LEMMA TypeInit == Init => TypeOK
<1> SUFFICES ASSUME Init PROVE TypeOK
  OBVIOUS
<1>1. installed \in InstalledType /\ trusted \in BOOLEAN
  <2>1. Cutover!FirstUnits \subseteq [Cutover!Units -> Image \cup {None}]
    BY DEF Cutover!FirstUnits, Image
  <2>2. Cutover!TimerOff \in [enabled : BOOLEAN, active : BOOLEAN]
    BY DEF Cutover!TimerOff
  <2>3. QED
    BY <2>1, <2>2 DEF Init, Cutover!Init, InstalledType
<1>2. main \in Heads /\ catalogMain \in Catalogs /\ pin \in Catalogs /\ faults \in 0..MaxFaults
  BY ConstantFacts, DeploymentAssumption DEF Init
<1>3. releases \in [Heads -> Directory] /\ catalogs \in [Catalogs -> Directory]
  BY DEF Init, Directory
<1>4. QED
  BY <1>1, <1>2, <1>3 DEF Init, TypeOK, InstalledType

\* The steps that record a deployment, and what happens around the commands.
Recording == WriteReceipt \/ WriteSidecar \/ WriteRecord
Around == MainAdvances \/ CatalogAdvances \/ Repin \/ TimerExport \/ TimerExportFails \/ Damage

\* What such a command does with itself: it goes on, or ends.
Continues ==
  \/ \E step \in Steps : op' = [op EXCEPT !.step = step] /\ UNCHANGED result
  \/ /\ op' = None
     /\ \E outcome \in Outcomes :
          result' = [command |-> op.command, outcome |-> outcome, image |-> op.image]

LEMMA ContinuesType ==
  ASSUME TypeOK, op # None, Continues
  PROVE  op' \in Operation \cup {None} /\ result' \in Result \cup {None}
  BY OpFacts DEF Continues, TypeOK

LEMMA RemovalsType ==
  ASSUME TypeOK
  PROVE  Removals \subseteq [Catalogs -> Directory]
  BY DEF TypeOK, Removals, Directory

LEMMA TypeStep == TypeOK /\ CommandInv /\ [Next]_vars => TypeOK'
<1> SUFFICES ASSUME TypeOK, CommandInv, [Next]_vars PROVE TypeOK'
  OBVIOUS
<1> USE DEF TypeOK
<1>1. ASSUME NEW head \in Heads, StartDeploy(head) \/ StartBuild(head) \/ StartSwitch(head)
      PROVE  TypeOK'
  <2>1. op' \in Operation
    BY <1>1 DEF StartDeploy, StartBuild, StartSwitch, Start, Operation, Steps
  <2>2. QED
    BY <1>1, <2>1 DEF StartDeploy, StartBuild, StartSwitch, Start, remotes, stores,
       installation, records
<1>2. CASE Prepare
  <2>1. /\ op # None /\ op \in Operation
        /\ \A step \in Steps, c \in Catalogs :
             [op EXCEPT !.image.config = c, !.step = step] \in Operation
    <3>1. op # None /\ op \in Operation
      BY <1>2, OpFacts DEF Prepare, At
    <3>2. ASSUME NEW step \in Steps, NEW c \in Catalogs
          PROVE  [op EXCEPT !.image.config = c, !.step = step] \in Operation
      BY <3>1 DEF Operation
    <3>3. QED
      BY <3>1, <3>2
  <2>2. op' \in Operation \cup {None} /\ result' \in Result \cup {None}
    <3>1. CASE catalogs[catalogMain] = "damaged"
      <4>1. Continues
        BY <1>2, <3>1 DEF Prepare, End, Continues, Outcomes
      <4>2. QED
        BY <2>1, <4>1, ContinuesType
    <3>2. CASE catalogs[catalogMain] # "damaged"
      <4>1. /\ op' = [op EXCEPT !.image.config = catalogMain,
                        !.step = IF catalogs[catalogMain] = "absent" THEN "clone" ELSE "build"]
            /\ UNCHANGED result
        BY <1>2, <3>2 DEF Prepare
      <4>2. (IF catalogs[catalogMain] = "absent" THEN "clone" ELSE "build") \in Steps
        BY DEF Steps
      <4>3. QED
        BY <2>1, <4>1, <4>2
    <3>3. QED
      BY <3>1, <3>2
  <2>3. QED
    BY <1>2, <2>2 DEF Prepare, remotes, stores, installation, records
<1>3. CASE Clone
  <2>1. op # None /\ Continues
    BY <1>3 DEF Clone, At, Goto, End, Continues, Steps, Outcomes
  <2>2. catalogs' \in [Catalogs -> Directory]
    BY <1>3 DEF Clone, End, Goto, Directory
  <2>3. QED
    BY <1>3, <2>1, <2>2, ContinuesType DEF Clone, remotes, installation, records
<1>31. CASE VerifyClone
  <2>1. op # None /\ Continues
    BY <1>31 DEF VerifyClone, At, Goto, End, Continues, Steps, Outcomes
  <2>2. catalogs' \in [Catalogs -> Directory]
    BY <1>31, RemovalsType DEF VerifyClone, End, Goto
  <2>3. QED
    BY <1>31, <2>1, <2>2, ContinuesType DEF VerifyClone, remotes, installation, records
<1>4. CASE Publish
  <2>1. op # None /\ Continues
    BY <1>4 DEF Publish, At, Goto, End, Continues, Steps, Outcomes
  <2>2. releases' \in [Heads -> Directory]
    BY <1>4 DEF Publish, Directory
  <2>3. QED
    BY <1>4, <2>1, <2>2, ContinuesType DEF Publish, remotes, installation, records
<1>5. CASE Build \/ VerifyBuild \/ ConfirmSource \/ ConfirmCatalog \/ ReadCompletion \/ Replay
           \/ Begin
  <2>1. op # None
    BY <1>5 DEF Build, VerifyBuild, ConfirmSource, ConfirmCatalog, ReadCompletion, Replay, Begin, At
  <2>2. Continues
    <3>1. CASE Build \/ VerifyBuild
      BY <3>1 DEF Build, VerifyBuild, Goto, End, Continues, Steps, Outcomes
    <3>2. CASE ConfirmSource \/ ConfirmCatalog
      BY <3>2 DEF ConfirmSource, ConfirmCatalog, Goto, End, Continues, Steps, Outcomes
    <3>3. CASE ReadCompletion
      <4>1. op.image \in Key
        BY <2>1, <3>3, OpFacts DEF CommandInv, ReadCompletion, At, Images, Key
      <4>2. completion[op.image] \in {"none", "sidecar", "whole"}
        BY <4>1
      <4>3. QED
        BY <3>3, <4>2 DEF ReadCompletion, Goto, End, Continues, Steps, Outcomes
    <3>4. CASE Replay \/ Begin
      BY <3>4 DEF Replay, Begin, Goto, End, Continues, Steps, Outcomes
    <3>5. QED
      BY <1>5, <3>1, <3>2, <3>3, <3>4
  <2>3. QED
    BY <1>5, <2>1, <2>2, ContinuesType DEF Build, VerifyBuild, ConfirmSource, ConfirmCatalog,
       ReadCompletion, Replay, Begin, remotes, stores, installation, records
<1>6. CASE Produce
  <2>1. op # None /\ Continues
    BY <1>6 DEF Produce, At, Goto, Continues, Steps
  <2>2. headSnapshot' \in Catalogs \cup {None} /\ faults' \in 0..MaxFaults
    BY <1>6, DeploymentAssumption DEF Produce
  <2>3. QED
    BY <1>6, <2>1, <2>2, ContinuesType DEF Produce, remotes, stores, installation, records
<1>7. CASE Postflight
  <2>1. op # None /\ Continues
    BY <1>7 DEF Postflight, At, Goto, End, Continues, Steps, Outcomes
  <2>2. op.image \in [release : Heads, config : Catalogs]
    BY <1>7, <2>1, OpFacts DEF CommandInv, Postflight, At, Images, Operation
  <2>3. installed' \in InstalledType /\ trusted' \in BOOLEAN
    BY <1>7, <2>2, SwitchType DEF Postflight, InstalledType, installation
  <2>4. QED
    BY <1>7, <2>1, <2>3, ContinuesType DEF Postflight, remotes, stores, records, InstalledType
<1>8. CASE Recording
  <2>1. op # None /\ Continues
    BY <1>8 DEF Recording, WriteReceipt, WriteSidecar, WriteRecord, At, Goto, End, Continues,
       Steps, Outcomes
  <2>2. op.image \in Key
    BY <1>8, <2>1, OpFacts DEF CommandInv, Recording, WriteReceipt, WriteSidecar, WriteRecord, At,
       Images, Key, Operation
  <2>3. completion' \in [Key -> {"none", "sidecar", "whole"}] /\ receipts' \in SUBSET Key
    BY <1>8, <2>2 DEF Recording, WriteReceipt, WriteSidecar, WriteRecord
  <2>4. faults' \in 0..MaxFaults
    BY <1>8, DeploymentAssumption DEF Recording, WriteReceipt, WriteSidecar, WriteRecord
  <2>5. QED
    BY <1>8, <2>1, <2>3, <2>4, ContinuesType DEF Recording, WriteReceipt, WriteSidecar,
       WriteRecord, remotes, stores, installation
<1>9. CASE Fail
  <2>1. op # None /\ Continues
    BY <1>9 DEF Fail, End, Continues, Outcomes
  <2>2. op.step \in {"produce", "postflight"} => op.image \in [release : Heads, config : Catalogs]
    BY <2>1, OpFacts DEF CommandInv, Images, Operation
  <2>3. installed' \in InstalledType /\ trusted' \in BOOLEAN
    BY <1>9, <2>2, InterruptType DEF Fail, InstalledType, installation
  <2>4. faults' \in 0..MaxFaults /\ catalogs' \in [Catalogs -> Directory]
    BY <1>9, DeploymentAssumption, RemovalsType DEF Fail
  <2>5. QED
    BY <1>9, <2>1, <2>3, <2>4, ContinuesType DEF Fail, remotes, records, InstalledType
<1>10. CASE MainAdvances \/ CatalogAdvances \/ Repin
  BY <1>10, DeploymentAssumption DEF MainAdvances, CatalogAdvances, Repin, Heads, Catalogs,
     remotes, stores, installation, records
<1>11. CASE TimerExport \/ TimerExportFails
  BY <1>11, DeploymentAssumption DEF TimerExport, TimerExportFails, remotes, stores,
     installation, records
<1>12. CASE Damage
  BY <1>12, DeploymentAssumption DEF Damage, Directory, remotes, installation, records
<1>13. CASE UNCHANGED vars
  BY <1>13 DEF vars, remotes, stores, installation, records
<1>14. QED
  BY <1>1, <1>2, <1>3, <1>31, <1>4, <1>5, <1>6, <1>7, <1>8, <1>9, <1>10, <1>11, <1>12, <1>13
     DEF Next, Step, Recording
-----------------------------------------------------------------------------
(* What a command has established *)

\* How the steps of a command follow each other.
Successors ==
  [clone |-> {"verify_clone"}, verify_clone |-> {"build"},
   build |-> {"publish", "confirm_source"}, publish |-> {"verify_build"},
   verify_build |-> {"confirm_source"},
   confirm_source |-> {"confirm_catalog"}, confirm_catalog |-> {"completion"},
   completion |-> {"cutover", "replay"}, cutover |-> {"produce"}, produce |-> {"postflight"},
   postflight |-> {"receipt"}, receipt |-> {"sidecar"}, sidecar |-> {"record"}]

LEMMA GotoFacts ==
  ASSUME TypeOK, op # None, NEW step \in Steps, Goto(step)
  PROVE  /\ op'.step = step /\ op'.command = op.command /\ op'.image = op.image
         /\ result' = result
  BY OpFacts DEF Goto, Operation

LEMMA StepGraph ==
  ASSUME TypeOK, CommandInv, Step, ~ Prepare, op' # None
  PROVE  /\ op # None /\ op'.command = op.command /\ op'.image = op.image /\ result' = result
         /\ op.step \in DOMAIN Successors /\ op'.step \in Successors[op.step]
         /\ op.command = "build" => op'.step \in {"publish", "verify_build"}
         /\ op.command = "switch" => op'.step \in {"produce", "postflight"}
         /\ op'.step = "receipt" => op.command = "deploy"
<1> USE DEF Steps, Successors
<1>1. CASE Clone
  BY <1>1, GotoFacts DEF Clone, At, End, CommandInv
<1>15. CASE VerifyClone
  BY <1>15, GotoFacts DEF VerifyClone, At, End, CommandInv
<1>2. CASE Build
  BY <1>2, GotoFacts DEF Build, At, End, CommandInv
<1>3. CASE Publish
  BY <1>3, GotoFacts DEF Publish, At, End, CommandInv
<1>16. CASE VerifyBuild
  BY <1>16, GotoFacts DEF VerifyBuild, At, End, CommandInv
<1>4. CASE ConfirmSource
  BY <1>4, GotoFacts DEF ConfirmSource, At, End, CommandInv
<1>5. CASE ConfirmCatalog
  BY <1>5, GotoFacts DEF ConfirmCatalog, At, End, CommandInv
<1>6. CASE ReadCompletion
  <2>1. op # None /\ op.step = "completion" /\ op.image \in Key
    BY <1>6, OpFacts DEF ReadCompletion, At, CommandInv, Images, Key
  <2>2. Goto("cutover") \/ Goto("replay")
    BY <1>6, <2>1 DEF ReadCompletion, End, TypeOK
  <2>3. QED
    BY <2>1, <2>2, GotoFacts DEF CommandInv
<1>7. CASE Replay
  BY <1>7 DEF Replay, End
<1>8. CASE Begin
  BY <1>8, GotoFacts DEF Begin, At, End, CommandInv
<1>9. CASE Produce
  BY <1>9, GotoFacts DEF Produce, At, CommandInv
<1>10. CASE Postflight
  <2>1. op # None /\ op.step = "postflight" /\ op.command = "deploy" /\ Goto("receipt")
    BY <1>10 DEF Postflight, At, End
  <2>2. QED
    BY <2>1, GotoFacts
<1>11. CASE WriteReceipt
  BY <1>11, GotoFacts DEF WriteReceipt, At, CommandInv
<1>12. CASE WriteSidecar
  BY <1>12, GotoFacts DEF WriteSidecar, At, CommandInv
<1>13. CASE WriteRecord
  BY <1>13 DEF WriteRecord, End
<1>14. QED
  BY <1>1, <1>2, <1>3, <1>4, <1>5, <1>6, <1>7, <1>8, <1>9, <1>10, <1>11, <1>12, <1>13, <1>15,
     <1>16 DEF Step

LEMMA CommandStep == TypeOK /\ CommandInv /\ [Next]_vars => CommandInv'
<1> SUFFICES ASSUME TypeOK, CommandInv, [Next]_vars, op' # None PROVE CommandInv'
  BY DEF CommandInv
<1>1. ASSUME NEW head \in Heads, StartDeploy(head) \/ StartBuild(head) \/ StartSwitch(head)
      PROVE  CommandInv'
  BY <1>1 DEF CommandInv, StartDeploy, StartBuild, StartSwitch, Start, TypeOK
<1>2. CASE Prepare
  <2>1. op # None /\ op \in Operation /\ op.step = "prepare" /\ catalogMain \in Catalogs
    BY <1>2, OpFacts DEF Prepare, At, TypeOK
  <2>2. op' = [op EXCEPT !.image.config = catalogMain,
                 !.step = IF catalogs[catalogMain] = "absent" THEN "clone" ELSE "build"]
    BY <1>2 DEF Prepare, End
  <2>3. op.command \notin {"build", "switch"}
    BY <2>1 DEF CommandInv
  <2>4. /\ op'.command = op.command /\ op'.image.config = catalogMain
    BY <2>1, <2>2 DEF Operation
  <2>5. QED
    BY <2>1, <2>3, <2>4 DEF CommandInv
<1>3. CASE Step /\ ~ Prepare
  <2>1. /\ op # None /\ op'.command = op.command /\ op'.image = op.image
        /\ op.command = "build" => op'.step \in {"publish", "verify_build"}
        /\ op.command = "switch" => op'.step \in {"produce", "postflight"}
    BY <1>3, StepGraph
  <2>2. op.step \in DOMAIN Successors
    BY <1>3, StepGraph
  <2>3. op.step # "prepare"
    BY <2>2 DEF Successors
  <2>4. QED
    BY <2>1, <2>3 DEF CommandInv
<1>4. CASE Fail
  BY <1>4 DEF Fail, End
<1>5. CASE Around \/ UNCHANGED vars
  BY <1>5 DEF Around, MainAdvances, CatalogAdvances, Repin, TimerExport, TimerExportFails, Damage,
     vars, CommandInv
<1>6. QED
  BY <1>1, <1>2, <1>3, <1>4, <1>5 DEF Next, Around

\* What was published stays, damaged or not, but for the Systemkatalog release
\* that an attempt has just renamed into place.
LEMMA PublishedStays ==
  ASSUME TypeOK, CommandInv, [Next]_vars
  PROVE  /\ \A h \in Heads : releases[h] # "absent" => releases'[h] # "absent"
         /\ \A c \in Catalogs : catalogs[c] # "absent" =>
              \/ catalogs'[c] # "absent"
              \/ At("verify_clone") /\ c = op.image.config /\ UNCHANGED installation
<1>1. CASE Clone
  BY <1>1 DEF Clone, TypeOK
<1>2. CASE Publish
  BY <1>2 DEF Publish, TypeOK
<1>3. CASE Damage
  BY <1>3 DEF Damage, TypeOK
<1>4. CASE UNCHANGED stores
  BY <1>4 DEF stores
<1>5. CASE At("verify_clone") /\ catalogs' \in Removals /\ UNCHANGED <<installation, releases>>
  BY <1>5 DEF Removals, TypeOK
<1>6. CASE VerifyClone
  BY <1>4, <1>5, <1>6 DEF VerifyClone, stores
<1>7. CASE Fail
  BY <1>4, <1>5, <1>7 DEF Fail, stores, At
<1>8. QED
  BY <1>1, <1>2, <1>3, <1>4, <1>6, <1>7 DEF Next, Step, vars, StartDeploy, StartBuild,
     StartSwitch, Start, Prepare, Build, VerifyBuild, ConfirmSource, ConfirmCatalog,
     ReadCompletion, Replay, Begin, Produce, Postflight, WriteReceipt, WriteSidecar, WriteRecord,
     MainAdvances, CatalogAdvances, Repin, TimerExport, TimerExportFails

\* The two steps that change the installation: a cutover that completes, and
\* one that is interrupted.
Completes == Postflight /\ Healthy(op.image)
Breaks ==
  /\ Fail /\ op.step \in {"produce", "postflight"}
  /\ Cutover!Interrupt(op.image) /\ FallbackVerifies

LEMMA InstallationChanges ==
  ASSUME [Next]_vars, ~ Completes, ~ Breaks
  PROVE  UNCHANGED installation
<1>1. CASE Postflight
  BY <1>1 DEF Postflight, Completes
<1>2. CASE Fail
  BY <1>2 DEF Fail, Breaks
<1>3. QED
  BY <1>1, <1>2 DEF Next, Step, vars, StartDeploy, StartBuild, StartSwitch, Start,
     Prepare, Clone, VerifyClone, Build, Publish, VerifyBuild, ConfirmSource, ConfirmCatalog, ReadCompletion, Replay,
     Begin, Produce, WriteReceipt, WriteSidecar, WriteRecord, MainAdvances, CatalogAdvances,
     Repin, TimerExport, TimerExportFails, Damage

\* A cutover under way knows its release and its configuration.
LEMMA CutoverImage ==
  ASSUME TypeOK, CommandInv, op # None, op.step \in {"completion", "replay", "cutover", "produce",
         "postflight", "receipt", "sidecar", "record"}
  PROVE  op.image \in [release : Heads, config : Catalogs]
<1>1. op.image \in [release : Heads, config : Catalogs \cup {None}]
  BY OpFacts DEF Images
<1>2. op.image.config \in Catalogs
  BY DEF CommandInv
<1>3. QED
  BY <1>1, <1>2

\* A completed cutover has put its image everywhere.
LEMMA SwitchMatches ==
  ASSUME NEW image, Cutover!Switch(image)
  PROVE  /\ Matches(image)' /\ installed'.timer = Cutover!TimerOn /\ trusted' = TRUE
         /\ \A u \in Cutover!Units : installed'.units[u] = image
<1>1. /\ installed' \in [current : {image.release}, previous : Cutover!Fallbacks(image.release),
                         units : {[u \in Cutover!Units |-> image]}, timer : {Cutover!TimerOn}]
      /\ trusted' = TRUE
  BY DEF Cutover!Switch
<1>2. installed'.current = image.release /\ installed'.timer = Cutover!TimerOn
      /\ installed'.units = [u \in Cutover!Units |-> image]
  BY <1>1
<1>3. QED
  BY <1>1, <1>2 DEF Matches

LEMMA StepInvStep ==
  ASSUME TypeOK, CommandInv, StepInv, InstalledExists, [Next]_vars
  PROVE  StepInv'
<1> SUFFICES ASSUME op' # None PROVE StepInv'
  BY DEF StepInv
<1>1. CASE op = None
  <2>1. CASE \E head \in Heads : StartDeploy(head) \/ StartBuild(head) \/ StartSwitch(head)
    BY <2>1 DEF StartDeploy, StartBuild, StartSwitch, Start, StepInv
  <2>2. CASE ~ \E head \in Heads : StartDeploy(head) \/ StartBuild(head) \/ StartSwitch(head)
    <3>1. op' = op
      BY <1>1, <2>2 DEF Next, Step, vars, Prepare, Clone, VerifyClone, Build, Publish, VerifyBuild, ConfirmSource,
         ConfirmCatalog, ReadCompletion, Replay, Begin, Produce, Postflight, WriteReceipt,
         WriteSidecar, WriteRecord, At, Fail, MainAdvances, CatalogAdvances, Repin, TimerExport,
         TimerExportFails, Damage
    <3>2. QED
      BY <1>1, <3>1
  <2>3. QED
    BY <2>1, <2>2
<1>2. CASE op # None /\ (Around \/ UNCHANGED vars)
  <2>1. op' = op /\ result' = result /\ installed' = installed /\ trusted' = trusted
        /\ receipts' = receipts
    BY <1>2 DEF Around, MainAdvances, CatalogAdvances, Repin, TimerExport, TimerExportFails,
       Damage, vars, installation, records
  <2>2. op.image.release \in Heads
    BY <1>2, OpFacts
  <2>3. releases[op.image.release] # "absent" => releases'[op.image.release] # "absent"
    BY <2>2, PublishedStays
  <2>4. Unused(op.image.config) => Unused(op.image.config)'
    BY <2>1 DEF Unused
  <2>5. QED
    BY <1>2, <2>1, <2>3, <2>4 DEF StepInv, Matches
<1>3. CASE Prepare
  <2>1. op # None /\ op \in Operation
    BY <1>3, OpFacts DEF Prepare, At
  <2>2. /\ op' = [op EXCEPT !.image.config = catalogMain,
                    !.step = IF catalogs[catalogMain] = "absent" THEN "clone" ELSE "build"]
        /\ result' = result
    BY <1>3 DEF Prepare, End
  <2>3. /\ op'.step = IF catalogs[catalogMain] = "absent" THEN "clone" ELSE "build"
        /\ op'.image.config = catalogMain
    BY <2>1, <2>2 DEF Operation
  <2>4. catalogs[catalogMain] = "absent" => Unused(catalogMain)'
    <3>1. /\ catalogMain' = catalogMain /\ installed' = installed /\ trusted' = trusted
      BY <1>3 DEF Prepare, remotes, installation
    <3>2. catalogs[catalogMain] = "absent" => Unused(catalogMain)
      BY DEF InstalledExists, Unused
    <3>3. QED
      BY <3>1, <3>2 DEF Unused
  <2>5. Unused(catalogMain)' => Unused(op.image.config)'
    BY <1>3, <2>3 DEF Prepare, remotes, Unused
  <2>6. QED
    BY <2>1, <2>2, <2>3, <2>4, <2>5 DEF StepInv
<1>4. CASE Step /\ ~ Prepare
  <2>1. /\ op # None /\ op'.image = op.image /\ op'.command = op.command /\ result' = result
        /\ op.step \in DOMAIN Successors /\ op'.step \in Successors[op.step]
        /\ op'.step = "receipt" => op.command = "deploy"
    BY <1>4, StepGraph
  <2>2. op.image.release \in Heads
    BY <2>1, OpFacts
  <2>3. ASSUME op'.step = "produce" PROVE releases'[op.image.release] # "absent"
    <3>1. op.step = "cutover"
      BY <2>1, <2>3 DEF Successors
    <3>2. Begin
      BY <1>4, <3>1 DEF Step, Clone, VerifyClone, Build, Publish, VerifyBuild, ConfirmSource,
         ConfirmCatalog, ReadCompletion,
         Replay, Produce, Postflight, WriteReceipt, WriteSidecar, WriteRecord, At
    <3>3. QED
      BY <2>2, <3>2, PublishedStays DEF Begin, End
  <2>4. ASSUME op'.step = "postflight" PROVE releases'[op.image.release] # "absent"
    <3>1. op.step = "produce"
      BY <2>1, <2>4 DEF Successors
    <3>2. QED
      BY <2>1, <2>2, <3>1, PublishedStays DEF StepInv
  <2>5. ASSUME op'.step = "replay" PROVE Matches(op.image)'
    <3>1. op.step = "completion"
      BY <2>1, <2>5 DEF Successors
    <3>2. ReadCompletion
      BY <1>4, <3>1 DEF Step, Clone, VerifyClone, Build, Publish, VerifyBuild, ConfirmSource,
         ConfirmCatalog, Replay, Begin,
         Produce, Postflight, WriteReceipt, WriteSidecar, WriteRecord, At
    <3>3. op.image \in Key
      BY <2>1, <3>1, CutoverImage DEF Key
    <3>4. Matches(op.image)
      BY <2>1, <2>5, <3>2, <3>3, GotoFacts DEF ReadCompletion, End, TypeOK, Steps
    <3>5. QED
      BY <2>1, <3>2, <3>4 DEF ReadCompletion, installation, Matches
  <2>6. ASSUME op'.step = "receipt"
        PROVE  Matches(op.image)' /\ installed'.timer = Cutover!TimerOn /\ trusted'
    <3>1. op.step = "postflight"
      BY <2>1, <2>6 DEF Successors
    <3>2. Postflight
      BY <1>4, <3>1 DEF Step, Clone, VerifyClone, Build, Publish, VerifyBuild, ConfirmSource,
         ConfirmCatalog, ReadCompletion,
         Replay, Begin, Produce, WriteReceipt, WriteSidecar, WriteRecord, At
    <3>3. Cutover!Switch(op.image)
      BY <3>2 DEF Postflight, End
    <3>4. Matches(op.image)' <=> /\ installed'.current = op.image.release
                                 /\ \A u \in Cutover!Units : installed'.units[u] = op.image
      BY <2>1 DEF Matches
    <3>5. installed'.timer = Cutover!TimerOn /\ trusted'
          /\ \A u \in Cutover!Units : installed'.units[u] = op.image
      BY <3>3, SwitchMatches
    <3>6. installed'.current = op.image.release
      BY <3>3 DEF Cutover!Switch
    <3>7. QED
      BY <3>4, <3>5, <3>6
  <2>7. ASSUME op'.step \in {"sidecar", "record"}
        PROVE  /\ op.step \in {"receipt", "sidecar"} /\ UNCHANGED installation
               /\ op.image \in receipts'
    <3>1. op.step \in {"receipt", "sidecar"}
      BY <2>1, <2>7 DEF Successors
    <3>2. WriteReceipt \/ WriteSidecar
      BY <1>4, <3>1 DEF Step, Clone, VerifyClone, Build, Publish, VerifyBuild, ConfirmSource,
         ConfirmCatalog, ReadCompletion,
         Replay, Begin, Produce, Postflight, WriteRecord, At
    <3>3. QED
      BY <2>1, <3>1, <3>2 DEF WriteReceipt, WriteSidecar, StepInv, At
  <2>8. op'.step \in {"sidecar", "record"} =>
          /\ op'.command = "deploy" /\ trusted'
          /\ Matches(op.image)' /\ installed'.timer = Cutover!TimerOn
    BY <2>1, <2>7 DEF StepInv, installation, Matches
  <2>9. ASSUME op'.step \in {"clone", "verify_clone"} PROVE Unused(op.image.config)'
    <3>1. op.step = "clone"
      BY <2>1, <2>9 DEF Successors
    <3>2. Clone
      BY <1>4, <3>1 DEF Step, VerifyClone, Build, Publish, VerifyBuild, ConfirmSource,
         ConfirmCatalog, ReadCompletion, Replay, Begin, Produce, Postflight, WriteReceipt,
         WriteSidecar, WriteRecord, At
    <3>3. installed' = installed /\ trusted' = trusted
      BY <3>2 DEF Clone, installation
    <3>4. QED
      BY <2>1, <3>1, <3>3 DEF StepInv, Unused
  <2>10. QED
    BY <2>1, <2>3, <2>4, <2>5, <2>6, <2>7, <2>8, <2>9 DEF StepInv, Matches, Unused
<1>5. CASE Fail
  BY <1>5 DEF Fail, End
<1>6. CASE \E head \in Heads : StartDeploy(head) \/ StartBuild(head) \/ StartSwitch(head)
  BY <1>6 DEF StartDeploy, StartBuild, StartSwitch, Start, StepInv
<1>7. QED
  BY <1>1, <1>2, <1>3, <1>4, <1>5, <1>6 DEF Next, Around
-----------------------------------------------------------------------------
(* Success, and what is installed *)

LEMMA SuccessStep ==
  ASSUME TypeOK, CommandInv, StepInv, SuccessIsInstalled, [Next]_vars
  PROVE  SuccessIsInstalled'
<1> SUFFICES ASSUME result' # None, result'.outcome \in {"deployed", "replayed", "switched"}
    PROVE  Matches(result.image)' /\ installed'.timer = Cutover!TimerOn
  BY DEF SuccessIsInstalled
<1>1. CASE UNCHANGED result
  <2>1. op = None
    BY <1>1 DEF StepInv
  <2>2. UNCHANGED installation
    BY <2>1, InstallationChanges DEF Completes, Breaks, Postflight, Fail, At
  <2>3. QED
    BY <1>1, <2>2 DEF SuccessIsInstalled, Matches, installation
<1>2. CASE Postflight
  <2>1. /\ result'.image = op.image /\ Cutover!Switch(op.image)
    BY <1>2 DEF Postflight, End, Goto, StepInv, At
  <2>2. /\ installed'.timer = Cutover!TimerOn
        /\ \A u \in Cutover!Units : installed'.units[u] = op.image
    BY <2>1, SwitchMatches
  <2>3. installed'.current = op.image.release
    BY <2>1 DEF Cutover!Switch
  <2>4. QED
    BY <2>1, <2>2, <2>3 DEF Matches
<1>3. CASE Replay
  <2>1. /\ result'.image = op.image /\ UNCHANGED installation
        /\ Matches(op.image) /\ installed.timer = Cutover!TimerOn
    BY <1>3 DEF Replay, At, End, StepInv
  <2>2. QED
    BY <2>1 DEF Matches, installation
<1>4. CASE WriteRecord
  <2>1. /\ result'.image = op.image /\ UNCHANGED installation
        /\ Matches(op.image) /\ installed.timer = Cutover!TimerOn
    BY <1>4 DEF WriteRecord, At, End, StepInv
  <2>2. QED
    BY <2>1 DEF Matches, installation
<1>5. CASE Prepare \/ Clone \/ VerifyClone \/ Build \/ Publish \/ VerifyBuild \/ ConfirmSource
           \/ ConfirmCatalog
  BY <1>1, <1>5 DEF Prepare, Clone, VerifyClone, Build, Publish, VerifyBuild, ConfirmSource, ConfirmCatalog, End, Goto
<1>6. CASE ReadCompletion
  <2>1. op # None /\ op.image \in Key
    BY <1>6, CutoverImage DEF ReadCompletion, At, Key
  <2>2. completion[op.image] \in {"none", "sidecar", "whole"}
    BY <2>1 DEF TypeOK
  <2>3. End("blocked") \/ UNCHANGED result
    BY <1>6, <2>2 DEF ReadCompletion, Goto
  <2>4. QED
    BY <1>1, <2>3 DEF End
<1>7. CASE Begin \/ Produce \/ WriteReceipt \/ WriteSidecar
  BY <1>1, <1>7 DEF Begin, Produce, WriteReceipt, WriteSidecar, End, Goto
<1>8. CASE Fail
  BY <1>8 DEF Fail, End
<1>9. CASE \E head \in Heads : StartDeploy(head) \/ StartBuild(head) \/ StartSwitch(head)
  BY <1>9 DEF StartDeploy, StartBuild, StartSwitch, Start
<1>10. CASE Around \/ UNCHANGED vars
  BY <1>1, <1>10 DEF Around, MainAdvances, CatalogAdvances, Repin, TimerExport, TimerExportFails,
     Damage, vars
<1>11. QED
  BY <1>2, <1>3, <1>4, <1>5, <1>6, <1>7, <1>8, <1>9, <1>10 DEF Next, Step, Around

LEMMA ExistsStep ==
  ASSUME TypeOK, CommandInv, StepInv, InstalledExists, [Next]_vars
  PROVE  InstalledExists'
<1>1. CASE UNCHANGED installation
  <2>1. installed' = installed /\ trusted' = trusted
    BY <1>1 DEF installation
  <2>2. {installed.current, installed.previous} \ {None} \subseteq Heads
    BY DEF TypeOK
  <2>3. \A u \in Cutover!Units : installed.units[u] # None /\ installed.units[u].release # Legacy =>
          installed.units[u].release \in Heads /\ installed.units[u].config \in Catalogs
    BY DEF TypeOK, Image
  <2>4. ASSUME trusted, NEW u \in Cutover!Units,
               installed.units[u] # None, installed.units[u].release # Legacy
        PROVE  catalogs'[installed.units[u].config] # "absent"
    <3>1. catalogs[installed.units[u].config] # "absent"
      BY <2>4 DEF InstalledExists
    <3>2. At("verify_clone") => installed.units[u].config # op.image.config
      BY <2>4 DEF StepInv, At, Unused
    <3>3. QED
      BY <2>3, <2>4, <3>1, <3>2, PublishedStays
  <2>5. QED
    BY <2>1, <2>2, <2>3, <2>4, PublishedStays DEF InstalledExists
<1>2. CASE Completes
  <2>1. /\ op # None /\ op.step = "postflight" /\ op.image.release \in Heads
        /\ Cutover!Switch(op.image) /\ FallbackVerifies
        /\ releases' = releases /\ catalogs' = catalogs
    BY <1>2, OpFacts DEF Completes, Postflight, At, stores
  <2>2. releases[op.image.release] = "intact" /\ catalogs[op.image.config] # "absent"
    BY <1>2 DEF Completes, Healthy
  <2>3. /\ installed'.current = op.image.release
        /\ \A u \in Cutover!Units : installed'.units[u] = op.image
    BY <2>1, SwitchMatches DEF Cutover!Switch
  <2>4. installed'.previous # None => releases[installed'.previous] # "absent"
    BY <2>1 DEF FallbackVerifies, InstalledExists
  <2>5. QED
    BY <2>1, <2>2, <2>3, <2>4 DEF InstalledExists
<1>3. CASE Breaks
  <2>1. /\ op # None /\ Cutover!Interrupt(op.image) /\ FallbackVerifies
        /\ releases[op.image.release] # "absent" /\ releases' = releases
    BY <1>3 DEF Breaks, Fail, StepInv
  <2>2. installed'.current \in {installed.current, op.image.release} /\ trusted' = FALSE
    BY <2>1 DEF Cutover!Interrupt
  <2>3. installed'.previous # None => releases[installed'.previous] # "absent"
    BY <2>1 DEF FallbackVerifies, InstalledExists
  <2>4. installed'.current # None => releases[installed'.current] # "absent"
    BY <2>1, <2>2 DEF InstalledExists
  <2>5. QED
    BY <2>1, <2>2, <2>3, <2>4 DEF InstalledExists
<1>4. QED
  BY <1>1, <1>2, <1>3, InstallationChanges

LEMMA InitInv == Init => Inv
<1> SUFFICES ASSUME Init PROVE Inv
  OBVIOUS
<1>1. TypeOK /\ op = None /\ result = None
  BY TypeInit DEF Init
<1>2. /\ installed.current = None /\ installed.previous = None
      /\ installed.units \in Cutover!FirstUnits
  BY DEF Init, Cutover!Init
<1>3. \A u \in Cutover!Units : installed.units[u] # None => installed.units[u].release = Legacy
  BY <1>2 DEF Cutover!FirstUnits
<1>4. QED
  BY <1>1, <1>2, <1>3 DEF Inv, CommandInv, StepInv, SuccessIsInstalled, InstalledExists

LEMMA InvStep == Inv /\ [Next]_vars => Inv'
  BY TypeStep, CommandStep, StepInvStep, SuccessStep, ExistsStep DEF Inv

\* A record is completed only by WriteRecord, at the end of a deployment.
LEMMA EarnedStep ==
  ASSUME Inv, [Next]_vars, NEW k \in Key, completion[k] # "whole", completion'[k] = "whole"
  PROVE  k \in receipts /\ Matches(k) /\ trusted
<1> USE DEF Inv
<1>1. WriteRecord
  <2>1. ~ WriteSidecar
    BY DEF WriteSidecar, TypeOK
  <2>2. ~ UNCHANGED completion
    OBVIOUS
  <2>3. QED
    BY <2>1, <2>2 DEF Next, Step, vars, records, StartDeploy, StartBuild, StartSwitch, Start,
       Prepare, Clone, VerifyClone, Build, Publish, VerifyBuild, ConfirmSource, ConfirmCatalog, ReadCompletion, Replay,
       Begin, Produce, Postflight, WriteReceipt, Fail, MainAdvances, CatalogAdvances, Repin,
       TimerExport, TimerExportFails, Damage
<1>2. op # None /\ op.step = "record" /\ k = op.image
  BY <1>1 DEF WriteRecord, At, TypeOK
<1>3. QED
  BY <1>2 DEF StepInv
-----------------------------------------------------------------------------
(* The theorems *)

\* The inductive invariant: what each command has established when it reaches
\* a step (switch_transaction, deploy_release, _write_completion).
THEOREM Invariance == Spec => []Inv
<1>1. Init => Inv
  BY InitInv
<1>2. Inv /\ [Next]_vars => Inv'
  BY InvStep
<1>3. QED
  BY <1>1, <1>2, PTL DEF Spec

\* Every variable keeps its type: a cutover runs only with a configuration that
\* prepare_systemkatalog_runtime_config resolved or the operator pinned.
THEOREM TypeCorrect == Spec => []TypeOK
  BY Invariance, PTL DEF Inv

\* deploy, its replay, switch and rollback report success only when selector,
\* units and timer are those of the release and configuration they report,
\* whatever failed, was killed or moved in any earlier command.
THEOREM Success == Spec => []SuccessIsInstalled
  BY Invariance, PTL DEF Inv

\* The selectors and, unless a cutover was interrupted, the unit files never
\* name a release or Systemkatalog directory that is not there, although
\* prepare_systemkatalog_runtime_config removes a release it has just renamed
\* into place when that does not verify.
THEOREM Exists == Spec => []InstalledExists
  BY Invariance, PTL DEF Inv

\* _write_completion completes a record only for the deployment that is
\* installed and whose success receipt is on disk.
THEOREM Earned == Spec => CompletionIsEarned
<1>1. Inv /\ [Next]_vars =>
        [\A k \in Key : completion[k] # "whole" /\ completion'[k] = "whole" =>
           k \in receipts /\ Matches(k) /\ trusted]_vars
  BY EarnedStep
<1>2. QED
  BY <1>1, Invariance, PTL DEF Spec, CompletionIsEarned

\* The commands use the cutover as it is specified: whatever they do between
\* one cutover and the next leaves the installation alone, and each cutover is
\* one of AtomicCutover, to a release and a resolved configuration.
THEOREM UsesAtomicCutover == Spec => Cutover!Spec
<1>1. Init => Cutover!Init
  BY DEF Init
<1>2. Inv /\ [Next]_vars => [Cutover!Next]_(Cutover!vars)
  <2> SUFFICES ASSUME Inv, [Next]_vars PROVE [Cutover!Next]_(Cutover!vars)
    OBVIOUS
  <2> USE DEF Inv
  <2>1. CASE Completes \/ Breaks
    <3>1. /\ op # None /\ op.step \in {"produce", "postflight"}
          /\ Cutover!Switch(op.image) \/ Cutover!Interrupt(op.image)
      BY <2>1 DEF Completes, Postflight, Breaks, Fail, At
    <3>2. op.image \in [release : Heads, config : Catalogs]
      BY <3>1, CutoverImage
    <3>3. QED
      BY <3>1, <3>2 DEF Cutover!Next
  <2>2. CASE UNCHANGED installation
    BY <2>2 DEF installation, Cutover!vars
  <2>3. QED
    BY <2>1, <2>2, InstallationChanges
<1>3. QED
  BY <1>1, <1>2, Invariance, PTL DEF Spec, Cutover!Spec
=============================================================================
