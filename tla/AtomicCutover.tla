---------------------------- MODULE AtomicCutover ----------------------------
(***************************************************************************)
(* What a coupled release cutover promises to whoever looks at the host    *)
(* between two commands: it happened completely or not at all, unless the  *)
(* command was killed or reported an incomplete restoration; and even then *)
(* each part of the host is either the prior one or that one target's.     *)
(***************************************************************************)
CONSTANTS Managed, Legacy, Configs, None

VARIABLES
  installed,  \* selectors, unit files and timer, as found between commands
  trusted     \* no interrupted cutover since the last complete one

vars == <<installed, trusted>>

Units == {"web", "storage", "snapshots", "timer"}
TimerOn == [enabled |-> TRUE, active |-> TRUE]
TimerOff == [enabled |-> FALSE, active |-> FALSE]

FirstUnits ==
  {[u \in Units |-> None]} \cup
  {[u \in Units |-> IF u \in {"web", "storage"}
                    THEN [release |-> Legacy, config |-> c] ELSE None] : c \in Configs}

Init ==
  /\ installed \in [current : {None}, previous : {None}, units : FirstUnits,
                    timer : {TimerOff}]
  /\ trusted = TRUE

\* the release that may be serving: without a selector, only an interrupted
\* first cutover leaves a managed one running
Serving ==
  IF installed.current # None THEN {installed.current}
  ELSE IF trusted THEN {} ELSE Managed

\* the release a cutover to `release` may record as the one to roll back to
Fallbacks(release) == {installed.previous} \cup (Serving \ {release})

Switch(image) ==
  /\ installed' \in [current : {image.release}, previous : Fallbacks(image.release),
                     units : {[u \in Units |-> image]}, timer : {TimerOn}]
  /\ trusted' = TRUE

\* some of the unit files written, the others as they were
Mixtures(image) ==
  {[u \in Units |-> IF u \in written THEN image ELSE installed.units[u]] :
     written \in SUBSET Units}

Interrupt(image) ==
  /\ installed' \in [current : {installed.current, image.release},
                     previous : Fallbacks(image.release),
                     units : Mixtures(image),
                     timer : [enabled : BOOLEAN, active : BOOLEAN]]
  /\ trusted' = FALSE

Next ==
  \E image \in [release : Managed, config : Configs] :
    Switch(image) \/ Interrupt(image)

Spec == Init /\ [][Next]_vars
=============================================================================
