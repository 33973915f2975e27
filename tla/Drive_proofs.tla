---------------------------- MODULE Drive_proofs ----------------------------
(***************************************************************************)
(* Theorems of Drive, for any road, goals, places and intervals: those of  *)
(* TankController, of the STOP pivots, of the recon observation and of the *)
(* speed chain.                                                            *)
(*                                                                         *)
(* ClockInv relates the stuck clock, which decides about an escape, to the *)
(* time the hull has really been at liberty.  HoldInv counts the commands  *)
(* of the checkpoint pre-stop against the hold that is left.  DepartInv    *)
(* says that the terminal stop is armed only by a true departure.          *)
(* DwellInv counts the STOPs of a dwell against the rest of it.  PivotInv  *)
(* and TurnInv tie the length of a pivot and of a turn to their clocks.    *)
(* SteadyInv bounds the reversals of a window by those that the guard      *)
(* counts and those from before its last hold.                             *)
(***************************************************************************)
EXTENDS Drive, FiniteSetTheorems, TLAPS


\* A stamp of the stuck clock is no older than the last time the hull was to stand.
ClockInv ==
    /\ quiet \in 0 .. StuckPeriod + 1
    /\ baseAge \in {Unset, Lost} \cup 0 .. StuckPeriod + 1
    /\ baseAge \in Nat => baseAge <= quiet

\* A tick spends a part of the hold, and the interval before it has already been taken off.
HoldInv ==
    /\ due \in {"none", "live", "silent"}
    /\ preDone \in BOOLEAN /\ preLeft \in 0 .. PreHold /\ preTicks \in 0 .. PreHold
    /\ ~preDone => preTicks = 0
    /\ preTicks + preLeft <= PreHold + 1
    /\ due # "none" => preTicks + preLeft <= PreHold

DepartInv ==
    /\ pos \in Places \cup {None} /\ goal \in Goals \cup {None}
    /\ armed => away
    /\ TerminalStopDeserved

-----------------------------------------------------------------------------
(* The intervals, and the stuck clock.                                     *)

LEMMA Intervals == PreHold \in Nat /\ StuckPeriod \in Nat \ {0}
  BY ControllerAssumption

LEMMA ClockInvStarts == Init => ClockInv
  BY ControllerAssumption DEF Init, ClockInv, Unset, Lost

\* The check leaves the stamp, or sets it anew; it sets it anew wherever the hull stands.
LEMMA StuckCheckRebases ==
  ASSUME NEW go \in BOOLEAN, NEW dwelling \in BOOLEAN, StuckCheck(go, dwelling)
  PROVE  /\ baseAge' = 0 \/ baseAge' = baseAge
         /\ Meant(dwelling) => baseAge' = 0
  <1>1. baseAge' = 0 \/ baseAge' = baseAge
    BY DEF StuckCheck, Rebase, stuck
  <1>2. CASE HoldActive \/ inhibit > 0
    <2>1. ~(~HoldActive /\ inhibit = 0)
      BY <1>2
    <2>2. Rebase
      BY <2>1 DEF StuckCheck
    <2> QED BY <2>2 DEF Rebase
  <1>3. CASE ~HoldActive /\ ~(inhibit > 0) /\ Inside
    <2>1. Rebase
      BY <1>3 DEF StuckCheck
    <2> QED BY <2>1 DEF Rebase
  <1>4. CASE ~HoldActive /\ ~(inhibit > 0) /\ ~Inside /\ dwelling /\ ~esc
    BY <1>4 DEF StuckCheck
  <1> QED BY <1>1, <1>2, <1>3, <1>4 DEF Meant, Standing

LEMMA TimerKeepsClockInv ==
  ASSUME ClockInv, TimerCb
  PROVE  ClockInv'
  <1>1. CASE NoPose \/ TerminalStop
    BY <1>1 DEF NoPose, TerminalStop, ClockInv, stuck
  <1>2. CASE Escape
    <2>1. baseAge' = 0 \/ baseAge' = baseAge
      BY <1>2, StuckCheckRebases DEF Escape
    <2>2. quiet' = quiet
      BY <1>2 DEF Escape
    <2> QED BY <2>1, <2>2, ControllerAssumption DEF ClockInv
  <1>3. ASSUME NEW path \in {"W", "STOP"}, NEW brake \in {"none", "S", "STOP"},
               NEW stopHere \in BOOLEAN, NEW dwelling \in BOOLEAN,
               Drive(path, brake, stopHere, dwelling)
        PROVE  ClockInv'
    <2>1. baseAge' = 0 \/ (baseAge' = baseAge /\ ~Meant(dwelling))
      BY <1>3, StuckCheckRebases DEF Drive
    <2>2. quiet' = IF Meant(dwelling) THEN 0 ELSE quiet
      BY <1>3 DEF Drive
    <2> QED BY <2>1, <2>2, ControllerAssumption DEF ClockInv
  <1> QED BY <1>1, <1>2, <1>3 DEF TimerCb

LEMMA NextKeepsClockInv == ClockInv /\ [Next]_vars => ClockInv'
  <1> SUFFICES ASSUME ClockInv, [Next]_vars PROVE ClockInv'
    OBVIOUS
  <1>1. ASSUME NEW p \in Places, PlayerPose(p) PROVE ClockInv'
    BY <1>1 DEF PlayerPose, ClockInv
  <1>2. ASSUME NEW g \in Goals, GoalPose(g) PROVE ClockInv'
    BY <1>2, ControllerAssumption DEF GoalPose, ClockInv
  <1>3. ASSUME NEW o \in Overrides, TurretOverride(o) PROVE ClockInv'
    BY <1>3 DEF TurretOverride, ClockInv, stuck, history
  <1>4. ASSUME NEW running \in BOOLEAN, Clock(running) PROVE ClockInv'
    <2> DEFINE n == IF running \/ ~simOn THEN 1 ELSE 0
    <2>1. /\ baseAge' = Later(baseAge, n, StuckPeriod + 1)
          /\ quiet' = IF quiet > StuckPeriod THEN quiet ELSE quiet + n
      BY <1>4 DEF Clock
    <2>2. n \in {0, 1}
      OBVIOUS
    <2> HIDE DEF n
    <2> QED BY <2>1, <2>2, ControllerAssumption DEF ClockInv, Later, Unset, Lost
  <1>5. CASE PlayerState \/ SimRestart
    BY <1>5 DEF PlayerState, SimRestart, ClockInv, history, Lost, Unset
  <1>6. CASE PlannerProfile
    BY <1>6 DEF PlannerProfile, ClockInv, stuck, history
  <1>7. CASE TimerCb
    BY <1>7, TimerKeepsClockInv
  <1>8. CASE UNCHANGED vars
    BY <1>8 DEF vars, ClockInv, stuck, history
  <1> QED BY <1>1, <1>2, <1>3, <1>4, <1>5, <1>6, <1>7, <1>8 DEF Next

\* Only a tick starts an escape, and only with an old stamp.
LEMMA EscapeNeedsOldStamp ==
  ASSUME [Next]_vars, esc', ~esc
  PROVE  baseAge > StuckPeriod
  <1>1. CASE TimerCb
    <2>1. CASE NoPose \/ TerminalStop
      BY <2>1 DEF NoPose, TerminalStop, stuck
    <2>2. CASE \E go, dwelling \in BOOLEAN : StuckCheck(go, dwelling)
      BY <2>2 DEF StuckCheck, stuck
    <2> QED BY <1>1, <2>1, <2>2 DEF TimerCb, Escape, Drive
  <1>2. CASE UNCHANGED esc
    BY <1>2
  <1>3. CASE \E p \in Places : PlayerPose(p)
    BY <1>3 DEF PlayerPose
  <1>4. CASE \E g \in Goals : GoalPose(g)
    BY <1>4 DEF GoalPose
  <1>5. ~TimerCb /\ ~(\E p \in Places : PlayerPose(p)) /\ ~(\E g \in Goals : GoalPose(g))
          => UNCHANGED esc
    BY DEF Next, TurretOverride, Clock, PlayerState, SimRestart, PlannerProfile, vars, stuck
  <1> QED BY <1>1, <1>2, <1>3, <1>4, <1>5

-----------------------------------------------------------------------------
(* The guard after a shot.                                                 *)

LEMMA GuardedDriveGoesOn ==
  ASSUME NEW path \in {"W", "STOP"}, NEW brake, NEW stopHere, NEW dwelling,
         Drive(path, brake, stopHere, dwelling), inhibit > 0
  PROVE  cmd'.ws # "S"
  <1> DEFINE nominal == IF Inside THEN "STOP" ELSE path
  <1>1. PICK slowed \in {"W", "S", "STOP"}, by \in {"drive", "dwell"} :
            \/ PublishMerged("STOP", by)
            \/ PublishMerged(AfterShot(slowed, nominal), by)
    BY DEF Drive
  <1>2. nominal # "S"
    OBVIOUS
  <1>3. AfterShot(slowed, nominal) # "S"
    BY <1>2 DEF AfterShot
  <1> HIDE DEF nominal
  <1> QED BY <1>1, <1>3 DEF PublishMerged, Publish

LEMMA GuardedTickGoesOn ==
  ASSUME [Next]_vars, cmd' # cmd, inhibit > 0
  PROVE  cmd'.ws # "S"
  <1>1. TimerCb
    BY DEF Next, PlayerPose, GoalPose, TurretOverride, Clock, PlayerState, SimRestart,
           PlannerProfile, vars
  <1>2. CASE NoPose \/ TerminalStop
    BY <1>2 DEF NoPose, TerminalStop, Publish
  <1>3. CASE Escape
    <2>1. PublishMerged("W", "escape")
      BY <1>3 DEF Escape
    <2> QED BY <2>1 DEF PublishMerged, Publish
  <1> QED BY <1>1, <1>2, <1>3, GuardedDriveGoesOn DEF TimerCb

\* A hull that was told to stand is not taken for stuck and is not driven back: an escape starts
\* only after a whole stuck period at liberty, and no command reverses while the guard after
\* a shot lasts, for any road, goals and intervals (tank_controller_node.timer_cb).
THEOREM HeldPlacesAreKept == Spec => HeldPlaceIsKept
  <1>1. ClockInv /\ [Next]_vars => [esc' /\ ~esc => quiet > StuckPeriod]_vars
    <2> SUFFICES ASSUME ClockInv, [Next]_vars, esc', ~esc PROVE quiet > StuckPeriod
      OBVIOUS
    <2>1. baseAge > StuckPeriod
      BY EscapeNeedsOldStamp
    <2> QED BY <2>1, ControllerAssumption DEF ClockInv, Unset, Lost
  <1>2. [Next]_vars => [cmd' # cmd /\ inhibit > 0 => cmd'.ws # "S"]_vars
    BY GuardedTickGoesOn
  <1> QED BY <1>1, <1>2, ClockInvStarts, NextKeepsClockInv, PTL
          DEF Spec, HeldPlaceIsKept, EscapeEarned, NoReverseAfterShot

-----------------------------------------------------------------------------
(* The stop before a checkpoint.                                           *)

LEMMA PreStopKeepsHoldInv ==
  ASSUME HoldInv, PreHold > 0, due # "none", due' = "none",
         NEW before, NEW after, PreStop(before, after)
  PROVE  HoldInv'
  <1>1. CASE UNCHANGED <<preDone, preLeft, preTicks>>
    BY <1>1, Intervals DEF HoldInv
  <1>2. CASE ~preDone /\ preDone' = TRUE /\ preLeft' = PreHold /\ preTicks' = preTicks + 1
    BY <1>2, Intervals DEF HoldInv
  <1>3. CASE preDone /\ preLeft > 0 /\ UNCHANGED <<preDone, preLeft>> /\ preTicks' = preTicks + 1
    <2>1. preTicks + preLeft <= PreHold /\ preTicks \in Nat /\ preLeft \in Nat
      BY Intervals DEF HoldInv
    <2>2. preTicks' \in 0 .. PreHold /\ preTicks' + preLeft' <= PreHold + 1
      BY <1>3, <2>1, Intervals
    <2> QED BY <1>3, <2>2 DEF HoldInv
  <1>4. ~(preTicks > PreHold)
    BY Intervals DEF HoldInv
  <1> QED BY <1>1, <1>2, <1>3, <1>4 DEF PreStop, PreStopStart, preStop

LEMMA NoHoldIsFine ==
  ASSUME due \in {"none", "live", "silent"}, preDone = FALSE, preLeft = 0, preTicks = 0
  PROVE  HoldInv
  <1>1. 0 \in 0 .. PreHold /\ 0 + 0 <= PreHold + 1 /\ 0 + 0 <= PreHold
    BY Intervals
  <1> QED BY <1>1 DEF HoldInv

LEMMA NextKeepsHoldInv == PreHold > 0 /\ HoldInv /\ [Next]_vars => HoldInv'
  <1> SUFFICES ASSUME PreHold > 0, HoldInv, [Next]_vars PROVE HoldInv'
    OBVIOUS
  <1>1. ASSUME NEW p \in Places, PlayerPose(p) PROVE HoldInv'
    BY <1>1 DEF PlayerPose, HoldInv, preStop
  <1>2. ASSUME NEW g \in Goals, GoalPose(g) PROVE HoldInv'
    <2>1. due' \in {"none", "live", "silent"}
      BY <1>2 DEF GoalPose, HoldInv
    <2>2. 0 \in 0 .. PreHold /\ 0 + 0 <= PreHold + 1 /\ 0 + 0 <= PreHold
      BY Intervals
    <2>3. preDone' = FALSE /\ preLeft' = 0 /\ preTicks' = 0
      BY <1>2 DEF GoalPose
    <2> QED BY <2>1, <2>2, <2>3 DEF HoldInv
  <1>3. ASSUME NEW o \in Overrides, TurretOverride(o) PROVE HoldInv'
    BY <1>3 DEF TurretOverride, HoldInv, preStop, history
  <1>4. ASSUME NEW running \in BOOLEAN, Clock(running) PROVE HoldInv'
    <2>1. /\ due = "none" /\ due' \in {"live", "silent"} /\ UNCHANGED <<preDone, preTicks>>
          /\ preLeft' = IF preLeft = 0 THEN 0 ELSE preLeft - 1
      BY <1>4 DEF Clock
    <2> QED BY <2>1, ControllerAssumption DEF HoldInv
  <1>5. CASE PlayerState \/ SimRestart \/ PlannerProfile
    BY <1>5 DEF PlayerState, SimRestart, PlannerProfile, HoldInv, preStop, history
  <1>6. CASE TimerCb
    <2>1. due # "none" /\ due' = "none"
      BY <1>6 DEF TimerCb
    <2>2. CASE NoPose \/ TerminalStop \/ Escape
      <3>1. UNCHANGED <<preDone, preLeft, preTicks>>
        BY <2>2 DEF NoPose, TerminalStop, Escape, preStop
      <3> QED BY <2>1, <3>1, Intervals DEF HoldInv
    <2>3. CASE \E before, after : PreStop(before, after)
      BY <2>1, <2>3, PreStopKeepsHoldInv
    <2> QED BY <1>6, <2>2, <2>3 DEF TimerCb, Drive
  <1>7. CASE UNCHANGED vars
    BY <1>7 DEF vars, HoldInv, preStop, history
  <1> QED BY <1>1, <1>2, <1>3, <1>4, <1>5, <1>6, <1>7 DEF Next

\* The stop before a checkpoint is given once for each goal and lasts its time, whatever the
\* profile, the brakes and the pose do meanwhile (apply_checkpoint_pre_stop).  A hold of
\* no time at all would still be one command.
THEOREM PreStopIsBounded == ASSUME PreHold > 0 PROVE Spec => []PreStopBounded
  <1>1. Init => HoldInv
    BY NoHoldIsFine DEF Init
  <1>2. HoldInv => PreStopBounded
    BY ControllerAssumption DEF HoldInv, PreStopBounded
  <1>3. HoldInv /\ [Next]_vars => HoldInv'
    BY NextKeepsHoldInv
  <1> QED BY <1>1, <1>2, <1>3, PTL DEF Spec

-----------------------------------------------------------------------------
(* The terminal stop.                                                      *)

\* Both stop distances tell a departure that is one by the larger of them.
LEMMA DepartureIsReal ==
  ASSUME StopFresh <= StopTol, NEW p \in Places, NEW g \in Places, Away(p, g)
  PROVE  Dist(p, g) > StopFresh
  BY ControllerAssumption DEF Away, StopDistance, Dist, Places

LEMMA NextKeepsDepartInv == StopFresh <= StopTol /\ DepartInv /\ [Next]_vars => DepartInv'
  <1> SUFFICES ASSUME StopFresh <= StopTol, DepartInv, [Next]_vars PROVE DepartInv'
    OBVIOUS
  <1>1. ASSUME NEW p \in Places, PlayerPose(p) PROVE DepartInv'
    <2>1. /\ pos' = p /\ goal' = goal /\ armed' = (armed \/ Away(p, goal))
          /\ away' = (away \/ (goal # None /\ Dist(p, goal) > StopFresh))
          /\ latched' => latched
      BY <1>1 DEF PlayerPose
    <2>2. Away(p, goal) => goal \in Places /\ goal # None
      BY ControllerAssumption DEF Away, DepartInv
    <2> QED BY <2>1, <2>2, DepartureIsReal DEF DepartInv, TerminalStopDeserved
  <1>2. ASSUME NEW g \in Goals, GoalPose(g) PROVE DepartInv'
    <2>1. /\ goal' = g /\ pos' = pos /\ armed' = Away(pos, g) /\ ~latched'
          /\ away' = (pos # None /\ Dist(pos, g) > StopFresh)
      BY <1>2 DEF GoalPose
    <2>2. g \in Places /\ (Away(pos, g) => pos \in Places /\ pos # None)
      BY ControllerAssumption DEF Away, DepartInv
    <2> QED BY <2>1, <2>2, DepartureIsReal DEF DepartInv, TerminalStopDeserved
  <1>3. CASE TimerCb
    <2>1. UNCHANGED <<pos, goal, armed, away>>
      BY <1>3 DEF TimerCb, NoPose, TerminalStop, Escape, Drive, sensed
    <2>2. latched' => latched \/ TerminalDue
      BY <1>3 DEF TimerCb, NoPose, TerminalStop, Escape, Drive
    <2> QED BY <2>1, <2>2 DEF DepartInv, TerminalStopDeserved, TerminalDue
  <1>4. CASE UNCHANGED <<pos, goal, armed, latched, away>>
    BY <1>4 DEF DepartInv, TerminalStopDeserved
  <1>5. (\E o \in Overrides : TurretOverride(o)) \/ (\E running \in BOOLEAN : Clock(running))
        \/ PlayerState \/ SimRestart \/ PlannerProfile \/ UNCHANGED vars
        => UNCHANGED <<pos, goal, armed, latched, away>>
    BY DEF TurretOverride, Clock, PlayerState, SimRestart, PlannerProfile, sensed, history, vars
  <1> QED BY <1>1, <1>2, <1>3, <1>4, <1>5 DEF Next

\* The terminal stop comes only at a goal that the hull has been away from since it was given,
\* if the tolerance of a stale profile is not below the one of a fresh profile, as the launch
\* file has it: `returned` may be heard at the spawn, which is also home.
THEOREM TerminalStopsDeserved ==
  ASSUME StopFresh <= StopTol PROVE Spec => []TerminalStopDeserved
  <1>1. Init => DepartInv
    BY DEF Init, DepartInv, TerminalStopDeserved
  <1>2. DepartInv => TerminalStopDeserved
    BY DEF DepartInv
  <1>3. DepartInv /\ [Next]_vars => DepartInv'
    BY NextKeepsDepartInv
  <1> QED BY <1>1, <1>2, <1>3, PTL DEF Spec

-----------------------------------------------------------------------------
(* Types of the drive command.  Truth values and numbers are kept apart.   *)

Flags ==
    /\ profile \in BOOLEAN /\ simOn \in BOOLEAN /\ armed \in BOOLEAN /\ latched \in BOOLEAN
    /\ esc \in BOOLEAN /\ moved \in BOOLEAN /\ preDone \in BOOLEAN /\ pending \in BOOLEAN
    /\ away \in BOOLEAN

Ages == {Unset, Lost} \cup 0 .. StuckPeriod + EscapeTurn

Clocks ==
    /\ escAge \in Ages /\ baseAge \in Ages
    /\ preLeft \in 0 .. PreHold /\ inhibit \in 0 .. Inhibit /\ ovLeft \in 0 .. OvTtl
    /\ quiet \in 0 .. StuckPeriod + 1 /\ preTicks \in 0 .. PreHold + 1

Commands == [ws : {"W", "S", "STOP"}, by : {"idle", "terminal", "escape", "drive", "dwell"}]

Names ==
    /\ due \in {"none", "live", "silent"}
    /\ pos \in Places \cup {None} /\ goal \in Goals \cup {None}
    /\ ov \in Overrides /\ cmd \in Commands

LEMMA TypesInParts == TypeOK <=> Flags /\ Clocks /\ Names
  BY DEF TypeOK, Flags, Clocks, Names, Ages, Commands

LEMMA Ticks ==
    /\ StuckPeriod \in Nat /\ EscapeTurn \in Nat /\ EscapeTurn > 0 /\ StuckPeriod > 0
    /\ OvTtl \in Nat /\ PreHold \in Nat /\ Inhibit \in Nat /\ StopFresh \in Nat /\ StopTol \in Nat
  BY ControllerAssumption

LEMMA AgesGoOn ==
  ASSUME NEW a \in Ages, NEW n \in {0, 1}
  PROVE  /\ Later(a, n, StuckPeriod + 1) \in Ages
         /\ Later(a, n, EscapeTurn) \in Ages
  BY Ticks DEF Ages, Later, Unset, Lost

LEMMA AgesOfStamps == 0 \in Ages /\ Unset \in Ages /\ Lost \in Ages
  BY Ticks DEF Ages

LEMMA StuckCheckKeepsTypes ==
  ASSUME NEW go \in BOOLEAN, NEW dwelling \in BOOLEAN, StuckCheck(go, dwelling), Flags, Clocks
  PROVE  /\ esc' \in BOOLEAN /\ moved' \in BOOLEAN
         /\ escAge' \in Ages /\ baseAge' \in Ages
  <1>1. /\ esc' \in {TRUE, FALSE, esc} /\ moved' \in {FALSE, moved}
        /\ escAge' \in {0, Unset, escAge} /\ baseAge' \in {0, baseAge}
    BY DEF StuckCheck, Rebase, stuck
  <1> QED BY <1>1, AgesOfStamps DEF Flags, Clocks

LEMMA TimerKeepsTypes ==
  ASSUME Flags, Clocks, Names, TimerCb
  PROVE  Flags' /\ Clocks' /\ Names'
  <1>0. due' \in {"none", "live", "silent"} /\ UNCHANGED sensed /\ UNCHANGED <<armed, shot, turret, away>>
    BY DEF TimerCb, NoPose, TerminalStop, Escape, Drive
  <1>1. CASE NoPose \/ TerminalStop
    <2>1. /\ latched' \in BOOLEAN /\ esc' \in BOOLEAN /\ escAge' \in {Unset, escAge}
          /\ UNCHANGED <<baseAge, moved, preStop, quiet, preTicks>>
      BY <1>1 DEF NoPose, TerminalStop, stuck, Flags
    <2>2. cmd' \in Commands
      BY <1>1 DEF NoPose, TerminalStop, Publish, Commands
    <2> QED BY <1>0, <2>1, <2>2, AgesOfStamps DEF Flags, Clocks, Names, sensed, shot, turret, preStop
  <1>2. CASE Escape
    <2>1. /\ UNCHANGED <<latched, preStop, quiet, preTicks>> /\ cmd' \in Commands
      BY <1>2 DEF Escape, PublishMerged, Publish, Commands
    <2>2. \E dwelling \in BOOLEAN : StuckCheck(TRUE, dwelling)
      BY <1>2 DEF Escape
    <2> QED BY <1>0, <2>1, <2>2, StuckCheckKeepsTypes DEF Flags, Clocks, Names, sensed, shot, turret, preStop
  <1>3. ASSUME NEW path \in {"W", "STOP"}, NEW brake \in {"none", "S", "STOP"},
               NEW stopHere \in BOOLEAN, NEW dwelling \in BOOLEAN,
               Drive(path, brake, stopHere, dwelling)
        PROVE  Flags' /\ Clocks' /\ Names'
    <2>1. PICK before, after : /\ PreStop(before, after)
                               /\ \E to \in {"W", "S", "STOP"}, by \in {"drive", "dwell"} :
                                      PublishMerged(to, by)
      <3> DEFINE nominal == IF Inside THEN "STOP" ELSE path
      <3>1. PICK b, slowed \in {"W", "S", "STOP"}, by \in {"drive", "dwell"} :
                /\ PreStop(b, slowed)
                /\ PublishMerged("STOP", by) \/ PublishMerged(AfterShot(slowed, nominal), by)
        BY <1>3 DEF Drive
      <3>2. nominal \in {"W", "S", "STOP"}
        OBVIOUS
      <3>3. AfterShot(slowed, nominal) \in {"W", "S", "STOP"}
        BY <3>2 DEF AfterShot
      <3> HIDE DEF nominal
      <3>4. \E to \in {"W", "S", "STOP"} : PublishMerged(to, by)
        <4>1. CASE PublishMerged("STOP", by)
          BY <4>1
        <4>2. CASE PublishMerged(AfterShot(slowed, nominal), by)
          BY <4>2, <3>3
        <4> QED BY <3>1, <4>1, <4>2
      <3> QED BY <3>1, <3>4
    <2>2. cmd' \in Commands
      BY <2>1 DEF PublishMerged, Publish, Commands
    <2>3. /\ preDone' \in {TRUE, preDone} /\ preLeft' \in {PreHold, preLeft}
          /\ preTicks' \in {preTicks, IF preTicks > PreHold THEN preTicks ELSE preTicks + 1}
      BY <2>1 DEF PreStop, PreStopStart, preStop
    <2>4. StuckCheck(FALSE, dwelling) /\ UNCHANGED latched /\ quiet' \in {0, quiet}
      BY <1>3 DEF Drive
    <2>5. preLeft' \in 0 .. PreHold /\ preTicks' \in 0 .. PreHold + 1 /\ quiet' \in 0 .. StuckPeriod + 1
      BY <2>3, <2>4, Ticks DEF Clocks
    <2> QED BY <1>0, <2>2, <2>3, <2>4, <2>5, StuckCheckKeepsTypes DEF Flags, Clocks, Names, sensed, shot, turret
  <1> QED BY <1>1, <1>2, <1>3 DEF TimerCb

LEMMA NextKeepsTypes == TypeOK /\ [Next]_vars => TypeOK'
  <1> SUFFICES ASSUME Flags, Clocks, Names, [Next]_vars PROVE Flags' /\ Clocks' /\ Names'
    BY TypesInParts DEF TypeOK, Flags, Clocks, Names, Ages, Commands
  <1>1. ASSUME NEW p \in Places, PlayerPose(p) PROVE Flags' /\ Clocks' /\ Names'
    <2>1. /\ pos' = p /\ latched' \in {FALSE, latched} /\ esc' \in {FALSE, esc}
          /\ escAge' \in {Unset, escAge}
          /\ armed' \in BOOLEAN /\ away' \in BOOLEAN /\ moved' \in BOOLEAN
          /\ UNCHANGED <<due, goal, profile, simOn, baseAge, preStop, shot, turret, cmd,
                         quiet, preTicks>>
      BY <1>1 DEF PlayerPose, Away
    <2> QED BY <2>1, AgesOfStamps DEF Flags, Clocks, Names, preStop, shot, turret
  <1>2. ASSUME NEW g \in Goals, GoalPose(g) PROVE Flags' /\ Clocks' /\ Names'
    <2>1. /\ goal' = g /\ armed' \in BOOLEAN /\ away' \in BOOLEAN
          /\ ~latched' /\ ~esc' /\ ~moved' /\ ~pending' /\ ~preDone'
          /\ latched' \in BOOLEAN /\ esc' \in BOOLEAN /\ moved' \in BOOLEAN /\ pending' \in BOOLEAN
          /\ preDone' \in BOOLEAN
          /\ escAge' = Unset /\ baseAge' = 0 /\ inhibit' \in {Inhibit, inhibit}
          /\ preLeft' = 0 /\ preTicks' = 0 /\ quiet' = 0
          /\ UNCHANGED <<due, pos, profile, simOn, turret, cmd>>
      BY <1>2 DEF GoalPose, Away
    <2>2. 0 \in 0 .. PreHold /\ 0 \in 0 .. PreHold + 1 /\ 0 \in 0 .. StuckPeriod + 1
          /\ inhibit' \in 0 .. Inhibit
      BY <2>1, Ticks DEF Clocks
    <2> QED BY <2>1, <2>2, AgesOfStamps DEF Flags, Clocks, Names, turret
  <1>3. ASSUME NEW o \in Overrides, TurretOverride(o) PROVE Flags' /\ Clocks' /\ Names'
    <2>1. /\ ov' = o /\ ovLeft' \in {0, OvTtl} /\ pending' \in BOOLEAN
          /\ UNCHANGED <<due, sensed, armed, latched, stuck, preStop, inhibit, cmd, history>>
      BY <1>3 DEF TurretOverride
    <2>2. ovLeft' \in 0 .. OvTtl
      BY <2>1, Ticks
    <2> QED BY <2>1, <2>2 DEF Flags, Clocks, Names, sensed, stuck, preStop, history
  <1>4. ASSUME NEW running \in BOOLEAN, Clock(running) PROVE Flags' /\ Clocks' /\ Names'
    <2> DEFINE n == IF running \/ ~simOn THEN 1 ELSE 0
    <2>1. /\ preLeft' = (IF preLeft = 0 THEN 0 ELSE preLeft - 1)
          /\ inhibit' = (IF inhibit = 0 THEN 0 ELSE inhibit - 1)
          /\ ovLeft' = (IF ovLeft = 0 THEN 0 ELSE ovLeft - 1)
          /\ ov' \in {NoOverride, ov} /\ due' \in {"live", "silent"}
          /\ baseAge' = Later(baseAge, n, StuckPeriod + 1) /\ escAge' = Later(escAge, n, EscapeTurn)
          /\ quiet' = (IF quiet > StuckPeriod THEN quiet ELSE quiet + n)
          /\ UNCHANGED <<sensed, armed, latched, esc, moved, preDone, pending, cmd, away, preTicks>>
      BY <1>4 DEF Clock
    <2>2. n \in {0, 1}
      OBVIOUS
    <2> HIDE DEF n
    <2>3. escAge' \in Ages /\ baseAge' \in Ages
      BY <2>1, <2>2, AgesGoOn DEF Clocks
    <2>4. /\ preLeft' \in 0 .. PreHold /\ inhibit' \in 0 .. Inhibit /\ ovLeft' \in 0 .. OvTtl
          /\ quiet' \in 0 .. StuckPeriod + 1
      BY <2>1, <2>2, Ticks DEF Clocks
    <2>5. ov' \in Overrides
      BY <2>1 DEF Names, Overrides
    <2> QED BY <2>1, <2>3, <2>4, <2>5 DEF Flags, Clocks, Names, sensed
  <1>5. CASE PlayerState \/ SimRestart
    <2>1. /\ simOn' \in BOOLEAN /\ escAge' \in {Unset, Lost} /\ baseAge' \in {Unset, Lost}
          /\ UNCHANGED <<due, pos, goal, profile, armed, latched, esc, moved, preStop, shot, turret,
                         cmd, history>>
      BY <1>5 DEF PlayerState, SimRestart, sensed, Flags
    <2> QED BY <2>1, AgesOfStamps DEF Flags, Clocks, Names, preStop, shot, turret, history
  <1>6. CASE PlannerProfile
    BY <1>6 DEF PlannerProfile, Flags, Clocks, Names, stuck, preStop, shot, turret, history
  <1>7. CASE TimerCb
    BY <1>7, TimerKeepsTypes
  <1>8. CASE UNCHANGED vars
    BY <1>8 DEF vars, Flags, Clocks, Names, sensed, stuck, preStop, shot, turret, history
  <1> QED BY <1>1, <1>2, <1>3, <1>4, <1>5, <1>6, <1>7, <1>8 DEF Next

LEMMA TypesStart == Init => TypeOK
  <1> SUFFICES ASSUME Init PROVE Flags /\ Clocks /\ Names
    BY TypesInParts
  <1>1. Flags
    BY DEF Init, Flags
  <1>2. Clocks
    BY Ticks, AgesOfStamps DEF Init, Clocks
  <1>3. Names
    BY DEF Init, Names, Overrides, Commands
  <1> QED BY <1>1, <1>2, <1>3

-----------------------------------------------------------------------------
(* The steering guards: types.                                             *)

LEMMA Intervals2 ==
    /\ Lock \in Nat /\ Window \in Nat /\ Threshold \in Nat /\ Hold \in Nat
    /\ ApfMax \in Nat /\ ApfCool \in Nat /\ SharpMax \in Nat /\ SharpCool \in Nat /\ AwayLock \in Nat
    /\ Cool \in Nat /\ Dwell \in Nat /\ Dwell > 0
  BY DriveAssumption

SideOrNone == {"A", "D", "none"}

SteerTypes ==
    /\ ad \in SideOrNone /\ lock \in SideOrNone /\ last \in SideOrNone /\ hold \in SideOrNone
    /\ side \in SideOrNone /\ kept \in 0 .. Hold
    /\ lockLeft \in 0 .. Lock /\ holdLeft \in 0 .. Hold
    /\ flips \subseteq 0 .. Window /\ turns \subseteq 0 .. Window

LEMMA SteerTypesAreTypes == Steering!TypeOK <=> SteerTypes
  BY DEF Steering!TypeOK, SteerTypes, Steering!Sides, SideOrNone

LEMMA AgedStays ==
  ASSUME NEW s \in SUBSET (0 .. Window)
  PROVE  Steering!Aged(s) \subseteq 0 .. Window
  <1> SUFFICES ASSUME NEW b \in s, b < Window PROVE b + 1 \in 0 .. Window
    BY DEF Steering!Aged
  <1> QED BY Intervals2

LEMMA KeptIsAnAge ==
  ASSUME kept \in 0 .. Hold
  PROVE  /\ Steering!Longer \in 0 .. Hold /\ 0 \in 0 .. Hold
         /\ Steering!Longer = kept + 1 \/ Steering!Longer = Hold
  BY Intervals2 DEF Steering!Longer

LEMMA SteeringKeepsTypes == Steering!TypeOK /\ [Steering!Next]_steering => Steering!TypeOK'
  <1> SUFFICES ASSUME SteerTypes, [Steering!Next]_steering PROVE SteerTypes'
    BY SteerTypesAreTypes DEF Steering!TypeOK, SteerTypes, Steering!Sides, SideOrNone
  <1>0. Steering!Aged(flips) \subseteq 0 .. Window /\ Steering!Aged(turns) \subseteq 0 .. Window
    BY AgedStays DEF SteerTypes
  <1>1. ASSUME NEW want \in Steering!Sides \cup {"none"}, Steering!Steer(want) PROVE SteerTypes'
    <2> DEFINE steer == IF want = "none" THEN "none" ELSE Steering!Locked(want)
    <2>0. want \in SideOrNone
      BY DEF Steering!Sides, SideOrNone
    <2>1. steer \in SideOrNone
      BY <2>0 DEF Steering!Locked, SteerTypes, SideOrNone
    <2>2. Steering!KeepLock(want) /\ Steering!Guard(steer) /\ Steering!Note
      BY <1>1 DEF Steering!Steer
    <2>3. lock' \in SideOrNone /\ lockLeft' \in 0 .. Lock
      <3>1. /\ lock' \in {"none", lock, want} /\ (lockLeft' = 0 \/ lockLeft' = Lock \/ (lockLeft > 1 /\ lockLeft' = lockLeft - 1))
        BY <2>2 DEF Steering!KeepLock
      <3> QED BY <3>1, <2>0, Intervals2 DEF SteerTypes, SideOrNone
    <2>4. turns' \subseteq 0 .. Window
      BY <2>2, <1>0, Intervals2 DEF Steering!Note
    <2>5. Steering!Counted(steer) \subseteq 0 .. Window
      BY <1>0, Intervals2 DEF Steering!Counted
    <2> HIDE DEF steer
    <2>6. flips' \in {Steering!Aged(flips), {}, Steering!Counted(steer)}
      BY <2>2 DEF Steering!Guard
    <2>7. /\ ad' \in {"none", hold, last, steer} /\ last' \in {"none", hold, last, steer}
          /\ hold' \in {"none", hold, last, steer}
      BY <2>2 DEF Steering!Guard
    <2>8. holdLeft' = Steering!Down(holdLeft) \/ (holdLeft > 1 /\ holdLeft' = holdLeft - 1)
          \/ holdLeft' = Hold \/ holdLeft' = 0
      BY <2>2 DEF Steering!Guard
    <2>9. holdLeft' \in 0 .. Hold
      BY <2>8, Intervals2 DEF Steering!Down, SteerTypes
    <2>10. side' \in {side, ad'} /\ kept' \in 0 .. Hold
      BY <2>2, KeptIsAnAge DEF Steering!Note, SteerTypes
    <2> QED BY <1>0, <2>1, <2>3, <2>4, <2>5, <2>6, <2>7, <2>9, <2>10 DEF SteerTypes, SideOrNone
  <1>2. CASE Steering!Skip
    <2>1. /\ lockLeft' = Steering!Down(lockLeft) /\ holdLeft' = Steering!Down(holdLeft)
          /\ flips' = Steering!Aged(flips) /\ turns' = Steering!Aged(turns) /\ kept' = Steering!Longer
          /\ UNCHANGED <<ad, lock, last, hold, side>>
      BY <1>2 DEF Steering!Skip
    <2>2. lockLeft' \in 0 .. Lock /\ holdLeft' \in 0 .. Hold /\ kept' \in 0 .. Hold
      BY <2>1, KeptIsAnAge, Intervals2 DEF Steering!Down, SteerTypes
    <2> QED BY <1>0, <2>1, <2>2 DEF SteerTypes
  <1>3. CASE UNCHANGED steering
    BY <1>3 DEF steering, SteerTypes
  <1> QED BY <1>1, <1>2, <1>3 DEF Steering!Next

LEMMA SteeringStarts == Steering!Init => Steering!TypeOK
  BY Intervals2 DEF Steering!Init, Steering!TypeOK, Steering!Sides

-----------------------------------------------------------------------------
(* The STOP pivots.  A clock that cools down has no start; a run is no     *)
(* longer than the age of its start.                                       *)

PivotInv ==
    /\ apfAge \in -1 .. ApfMax /\ apfLeft \in 0 .. ApfCool /\ (apfLeft > 0 => apfAge = -1)
    /\ sharpAge \in -1 .. SharpMax /\ sharpLeft \in 0 .. SharpCool
    /\ apfRun \in 0 .. ApfMax /\ apfRun <= apfAge + 1
    /\ sharpRun \in 0 .. SharpMax /\ sharpRun <= sharpAge + 1
    /\ mode \in {"apf", "sharp", "slow", "path"}

\* A turn that is locked goes the locked way, and has done so since the lock.
TurnInv ==
    /\ avoid \in SideOrNone /\ turn \in SideOrNone
    /\ awayLeft \in 0 .. AwayLock /\ calm \in 0 .. AwayLock
    /\ awayLeft > 0 => turn = avoid /\ calm >= AwayLock - awayLeft

LEMMA PivotsStart == Pivots!Init => PivotInv /\ TurnInv
  BY Intervals2 DEF Pivots!Init, PivotInv, TurnInv, SideOrNone

LEMMA PivotTypes == PivotInv /\ TurnInv => Pivots!TypeOK /\ Pivots!PivotIsBrief
  <1> SUFFICES ASSUME PivotInv, TurnInv PROVE Pivots!TypeOK /\ Pivots!PivotIsBrief
    OBVIOUS
  <1>1. Pivots!PivotIsBrief
    BY Intervals2 DEF PivotInv, Pivots!PivotIsBrief
  <1>2. Pivots!TypeOK
    BY DEF PivotInv, TurnInv, Pivots!TypeOK, Pivots!Sides, SideOrNone
  <1> QED BY <1>1, <1>2

LEMMA ApfPivotIsBrief ==
  ASSUME PivotInv, NEW wants \in BOOLEAN, NEW aligned \in BOOLEAN, NEW go \in BOOLEAN,
         Pivots!ApfPivot(wants, aligned, go), apfRun' = Pivots!Run(apfRun, go, ApfMax)
  PROVE  /\ apfAge' \in -1 .. ApfMax /\ apfLeft' \in 0 .. ApfCool /\ (apfLeft' > 0 => apfAge' = -1)
         /\ apfRun' \in 0 .. ApfMax /\ apfRun' <= apfAge' + 1
  BY Intervals2 DEF PivotInv, Pivots!ApfPivot, Pivots!Since, Pivots!Down, Pivots!Run

LEMMA SharpPivotIsBrief ==
  ASSUME PivotInv, NEW wants \in BOOLEAN, NEW go \in BOOLEAN,
         Pivots!SharpPivot(wants, go), sharpRun' = Pivots!Run(sharpRun, go, SharpMax)
  PROVE  /\ sharpAge' \in -1 .. SharpMax /\ sharpLeft' \in 0 .. SharpCool
         /\ sharpRun' \in 0 .. SharpMax /\ sharpRun' <= sharpAge' + 1
  BY Intervals2 DEF PivotInv, Pivots!SharpPivot, Pivots!Since, Pivots!Down, Pivots!Run

LEMMA PivotsKeepPivotInv == PivotInv /\ [Pivots!Next]_pivots => PivotInv'
  <1> SUFFICES ASSUME PivotInv, [Pivots!Next]_pivots PROVE PivotInv'
    OBVIOUS
  <1>1. ASSUME NEW apf \in BOOLEAN, NEW aligned \in BOOLEAN, NEW slow \in BOOLEAN, NEW sharp \in BOOLEAN,
               NEW near, NEW field, Pivots!Tick(apf, aligned, slow, sharp, near, field)
        PROVE  PivotInv'
    <2>1. PICK goApf, goSharp \in BOOLEAN :
              /\ Pivots!ApfPivot(apf, aligned, goApf) /\ Pivots!SharpPivot(sharp, goSharp)
              /\ apfRun' = Pivots!Run(apfRun, goApf, ApfMax)
              /\ sharpRun' = Pivots!Run(sharpRun, goSharp, SharpMax)
              /\ mode' \in {"apf", "sharp", "slow", "path"}
      BY <1>1 DEF Pivots!Tick
    <2> QED BY <2>1, ApfPivotIsBrief, SharpPivotIsBrief DEF PivotInv
  <1>2. CASE Pivots!Skip
    BY <1>2, Intervals2 DEF Pivots!Skip, Pivots!Down, PivotInv
  <1>3. CASE UNCHANGED pivots
    BY <1>3 DEF pivots, PivotInv
  <1> QED BY <1>1, <1>2, <1>3 DEF Pivots!Next

LEMMA TurnIsKept ==
  ASSUME TurnInv, NEW near \in SideOrNone, NEW field \in SideOrNone, NEW avoiding \in BOOLEAN,
         Pivots!TurnAway(near, field, avoiding),
         calm' = IF turn # turn' THEN 0 ELSE Pivots!Longer
  PROVE  /\ TurnInv'
         /\ awayLeft > 0 /\ {turn, turn'} = Pivots!Sides => calm + 1 >= AwayLock
  <1>1. CASE Pivots!Locked
    <2>1. turn' = avoid /\ turn = avoid /\ awayLeft > 1 /\ calm' = Pivots!Longer
      BY <1>1, Intervals2 DEF Pivots!Locked, Pivots!TurnAway, TurnInv
    <2>2. {turn, turn'} # Pivots!Sides
      BY <2>1 DEF Pivots!Sides
    <2>3. \/ avoid' = "none" /\ awayLeft' = 0
          \/ avoid' = avoid /\ awayLeft' = awayLeft - 1
      BY <1>1, <2>1, Intervals2 DEF Pivots!TurnAway, Pivots!Down, TurnInv
    <2> QED BY <2>1, <2>2, <2>3, Intervals2 DEF TurnInv, Pivots!Longer, SideOrNone
  <1>2. CASE ~Pivots!Locked
    <2>1. awayLeft <= 1
      BY <1>2, Intervals2 DEF Pivots!Locked, TurnInv
    <2>2. awayLeft > 0 => calm + 1 >= AwayLock
      BY <2>1, Intervals2 DEF TurnInv
    <2>3. turn' \in SideOrNone /\ calm' \in 0 .. AwayLock
      BY <1>2, Intervals2 DEF Pivots!TurnAway, Pivots!Longer, TurnInv
    <2>4. \/ avoid' = "none" /\ awayLeft' = 0
          \/ avoid' = near /\ awayLeft' = AwayLock /\ turn' = near
          \/ avoid' = avoid /\ awayLeft' = 0
      BY <1>2, <2>1, Intervals2 DEF Pivots!TurnAway, Pivots!Down, TurnInv
    <2> QED BY <2>2, <2>3, <2>4, Intervals2 DEF TurnInv, SideOrNone
  <1> QED BY <1>1, <1>2

LEMMA PivotsKeepTurn ==
  ASSUME TurnInv, [Pivots!Next]_pivots
  PROVE  /\ TurnInv'
         /\ awayLeft > 0 /\ {turn, turn'} = Pivots!Sides => calm + 1 >= AwayLock
  <1>1. ASSUME NEW apf \in BOOLEAN, NEW aligned \in BOOLEAN, NEW slow \in BOOLEAN, NEW sharp \in BOOLEAN,
               NEW near \in Pivots!Sides \cup {"none"}, NEW field \in Pivots!Sides \cup {"none"},
               Pivots!Tick(apf, aligned, slow, sharp, near, field)
        PROVE  /\ TurnInv'
               /\ awayLeft > 0 /\ {turn, turn'} = Pivots!Sides => calm + 1 >= AwayLock
    <2>1. near \in SideOrNone /\ field \in SideOrNone
      BY DEF Pivots!Sides, SideOrNone
    <2>2. /\ Pivots!TurnAway(near, field, apf \/ slow)
          /\ calm' = IF turn # turn' THEN 0 ELSE Pivots!Longer
      BY <1>1 DEF Pivots!Tick
    <2>3. (apf \/ slow) \in BOOLEAN
      OBVIOUS
    <2> QED BY <2>1, <2>2, <2>3, TurnIsKept
  <1>2. CASE Pivots!Skip
    <2>1. /\ awayLeft' = Pivots!Down(awayLeft) /\ calm' = Pivots!Longer /\ UNCHANGED <<avoid, turn>>
      BY <1>2 DEF Pivots!Skip
    <2>2. {turn, turn'} # Pivots!Sides
      BY <2>1 DEF Pivots!Sides
    <2> QED BY <2>1, <2>2, Intervals2 DEF TurnInv, Pivots!Down, Pivots!Longer
  <1>3. CASE UNCHANGED pivots
    <2>1. {turn, turn'} # Pivots!Sides
      BY <1>3 DEF Pivots!Sides, pivots
    <2> QED BY <1>3, <2>1 DEF pivots, TurnInv
  <1> QED BY <1>1, <1>2, <1>3 DEF Pivots!Next

-----------------------------------------------------------------------------
(* The steering guards: how many reversals a window holds.  The history    *)
(* "turns" and the guard's own record "flips" differ only by reversals     *)
(* from before a hold, which are about to leave the window when it ends.   *)

Few(s) == Cardinality(s) < Threshold

LEMMA SameCardinality == \A s : Steering!Cardinality(s) = Cardinality(s)
  BY DEF Steering!Cardinality, Cardinality

FlipInv ==
    /\ ad = last /\ flips \subseteq turns
    /\ Few(flips) /\ Few(turns)

HoldsInv ==
    /\ holdLeft > 0 => flips = {}
    /\ holdLeft > 1 => last \in {"none", hold} /\ hold # "none"
    /\ \A a \in turns \ flips : a + holdLeft >= Window

\* A side that has reversed twice was locked when it last did.
LockInv ==
    /\ last = "none" => lock = "none"
    /\ flips # {} => last \in {"none", lock}
    /\ last # "none" => \A a, b \in flips : a < b => a + lockLeft >= Lock

\* What a hold keeps is the last side published, and it has kept it since it began.
SwingInv ==
    /\ ad # "none" => side = ad
    /\ holdLeft > 0 => side = hold /\ kept + holdLeft > Hold

SteadyInv == SteerTypes /\ FlipInv /\ HoldsInv /\ LockInv /\ SwingInv

LEMMA AgedMembers ==
  ASSUME NEW s \in SUBSET (0 .. Window)
  PROVE  /\ \A a \in Steering!Aged(s) : a - 1 \in s /\ a - 1 < Window /\ a \in 1 .. Window
         /\ \A a \in s : a < Window => a + 1 \in Steering!Aged(s)
  <1>1. \A a \in Steering!Aged(s) : a - 1 \in s /\ a - 1 < Window /\ a \in 1 .. Window
    <2> SUFFICES ASSUME NEW b \in s, b < Window
                 PROVE  (b + 1) - 1 = b /\ (b + 1) - 1 < Window /\ b + 1 \in 1 .. Window
      BY DEF Steering!Aged
    <2> QED BY Intervals2
  <1>2. \A a \in s : a < Window => a + 1 \in Steering!Aged(s)
    BY DEF Steering!Aged
  <1> QED BY <1>1, <1>2

LEMMA AgesAreFinite ==
  ASSUME NEW s \in SUBSET (0 .. Window)
  PROVE  IsFiniteSet(s) /\ Cardinality(s) \in Nat
  <1>1. IsFiniteSet(0 .. Window)
    BY FS_Interval, Intervals2
  <1> QED BY <1>1, FS_Subset, FS_CardinalityType

LEMMA FewStayFew ==
  ASSUME NEW s \in SUBSET (0 .. Window), Few(s)
  PROVE  Few(Steering!Aged(s))
  <1> DEFINE f == [a \in Steering!Aged(s) |-> a - 1]
  <1>1. f \in [Steering!Aged(s) -> s]
    BY AgedMembers
  <1>2. \A a, b \in Steering!Aged(s) : f[a] = f[b] => a = b
    BY AgedMembers
  <1>3. f \in Injection(Steering!Aged(s), s)
    <2> HIDE DEF f
    <2> QED BY <1>1, <1>2 DEF Injection, IsInjective
  <1>4. IsFiniteSet(s) /\ Cardinality(s) \in Nat
    BY AgesAreFinite
  <1>5. Cardinality(Steering!Aged(s)) <= Cardinality(s)
    <2> HIDE DEF f
    <2> QED BY <1>3, <1>4, FS_Injection
  <1>6. Cardinality(Steering!Aged(s)) \in Nat
    BY AgedStays, AgesAreFinite
  <1> QED BY <1>4, <1>5, <1>6, Intervals2 DEF Few

LEMMA TwoAreFew ==
  ASSUME Threshold >= 3, NEW s, NEW a, NEW b, s \subseteq {a, b}
  PROVE  Few(s)
  <1>1. IsFiniteSet({a}) /\ Cardinality({a}) = 1
    BY FS_Singleton
  <1>2. {a, b} = {a} \cup {b}
    OBVIOUS
  <1>3. IsFiniteSet({a, b}) /\ Cardinality({a, b}) \in {1, 2}
    BY <1>1, <1>2, FS_AddElement
  <1>4. IsFiniteSet(s) /\ Cardinality(s) <= Cardinality({a, b}) /\ Cardinality(s) \in Nat
    BY <1>3, FS_Subset, FS_CardinalityType
  <1> QED BY <1>3, <1>4, Intervals2 DEF Few

\* What all but the last way through the guard have in common: no reversal is published and the
\* ages go on.
LEMMA AgeingIsSteady ==
  ASSUME SteadyInv, flips' = Steering!Aged(flips), turns' = Steering!Aged(turns), ad' = last',
         holdLeft' = Steering!Down(holdLeft), hold' = hold, last' \in {"none", hold} \/ last' = last
  PROVE  FlipInv' /\ HoldsInv'
  <1>0. flips \in SUBSET (0 .. Window) /\ turns \in SUBSET (0 .. Window) /\ holdLeft \in 0 .. Hold
    BY DEF SteadyInv, SteerTypes
  <1>1. Few(flips') /\ Few(turns')
    BY <1>0, FewStayFew DEF SteadyInv, FlipInv
  <1>2. flips' \subseteq turns'
    BY DEF SteadyInv, FlipInv, Steering!Aged
  <1>3. holdLeft' > 0 => flips' = {}
    <2>1. holdLeft' > 0 => holdLeft > 0
      BY <1>0, Intervals2 DEF Steering!Down
    <2> QED BY <2>1 DEF SteadyInv, HoldsInv, Steering!Aged
  <1>4. holdLeft' > 1 => last' \in {"none", hold'} /\ hold' # "none"
    <2>1. holdLeft' > 1 => holdLeft > 1
      BY <1>0, Intervals2 DEF Steering!Down
    <2> QED BY <2>1 DEF SteadyInv, HoldsInv
  <1>5. ASSUME NEW a \in turns' \ flips' PROVE a + holdLeft' >= Window
    <2>1. a - 1 \in turns /\ a - 1 < Window /\ a \in 1 .. Window
      BY <1>0, <1>5, AgedMembers
    <2>2. a - 1 \notin flips
      <3>1. (a - 1) + 1 = a
        BY <2>1
      <3> QED BY <1>0, <1>5, <2>1, <3>1, AgedMembers
    <2>3. (a - 1) + holdLeft >= Window
      BY <2>1, <2>2 DEF SteadyInv, HoldsInv
    <2> QED BY <1>0, <2>1, <2>3, Intervals2 DEF Steering!Down
  <1> QED BY <1>1, <1>2, <1>3, <1>4, <1>5 DEF FlipInv, HoldsInv

LEMMA AgedLock ==
  ASSUME SteadyInv, flips' = Steering!Aged(flips), last' = last, lock' = lock, last # "none",
         lockLeft' = Steering!Down(lockLeft)
  PROVE  LockInv'
  <1>0. flips \in SUBSET (0 .. Window) /\ lockLeft \in 0 .. Lock
    BY DEF SteadyInv, SteerTypes
  <1>1. flips' # {} => last' \in {"none", lock'}
    BY DEF SteadyInv, LockInv, Steering!Aged
  <1>2. ASSUME NEW a \in flips', NEW b \in flips', a < b PROVE a + lockLeft' >= Lock
    <2>1. a - 1 \in flips /\ b - 1 \in flips /\ a \in 1 .. Window /\ b \in 1 .. Window
      BY <1>0, AgedMembers
    <2>2. a - 1 < b - 1
      BY <1>2, <2>1
    <2>3. (a - 1) + lockLeft >= Lock
      BY <2>1, <2>2 DEF SteadyInv, LockInv
    <2> QED BY <1>0, <2>1, <2>3, Intervals2 DEF Steering!Down
  <1> QED BY <1>1, <1>2 DEF LockInv

\* A tick that publishes nothing new: the side stays, and so does the time it is kept for.
LEMMA AgeingKeepsSide ==
  ASSUME SteadyInv, holdLeft' = Steering!Down(holdLeft), hold' = hold, side' = side,
         kept' = Steering!Longer, ad' # "none" => side = ad'
  PROVE  SwingInv'
  <1>1. holdLeft \in 0 .. Hold /\ kept \in 0 .. Hold
    BY DEF SteadyInv, SteerTypes
  <1>2. ASSUME holdLeft' > 0 PROVE holdLeft > 0 /\ holdLeft' = holdLeft - 1
    BY <1>1, <1>2, Intervals2 DEF Steering!Down
  <1>3. ASSUME holdLeft' > 0 PROVE side' = hold' /\ kept' + holdLeft' > Hold
    <2>1. side = hold /\ kept + holdLeft > Hold
      BY <1>2, <1>3 DEF SteadyInv, SwingInv
    <2>2. kept' = kept + 1 \/ kept' = Hold
      BY <1>1, KeptIsAnAge
    <2> QED BY <1>1, <1>2, <1>3, <2>1, <2>2, Intervals2
  <1> QED BY <1>3 DEF SwingInv

\* A tick that does not steer.
LEMMA SkipIsSteady ==
  ASSUME SteadyInv, Steering!Skip
  PROVE  FlipInv' /\ HoldsInv' /\ LockInv' /\ SwingInv'
  <1>1. /\ lockLeft' = Steering!Down(lockLeft) /\ holdLeft' = Steering!Down(holdLeft)
        /\ flips' = Steering!Aged(flips) /\ turns' = Steering!Aged(turns) /\ kept' = Steering!Longer
        /\ UNCHANGED <<ad, lock, last, hold, side>>
    BY DEF Steering!Skip
  <1>2. FlipInv' /\ HoldsInv'
    BY <1>1, AgeingIsSteady DEF SteadyInv, FlipInv
  <1>3. LockInv'
    <2>1. CASE last # "none"
      BY <1>1, <2>1, AgedLock
    <2>2. CASE last = "none"
      BY <1>1, <2>2 DEF SteadyInv, LockInv
    <2> QED BY <2>1, <2>2
  <1>4. SwingInv'
    BY <1>1, AgeingKeepsSide DEF SteadyInv, SwingInv
  <1> QED BY <1>2, <1>3, <1>4

Reverses(steer) == last # "none" /\ last # steer

LEMMA CountedIs ==
  ASSUME NEW steer
  PROVE  Steering!Counted(steer) = Steering!Aged(flips) \cup (IF Reverses(steer) THEN {0} ELSE {})
  BY DEF Steering!Counted, Reverses

\* The lock passes the direction that it then holds.
LEMMA LockPasses ==
  ASSUME NEW want \in Steering!Sides, Steering!KeepLock(want), lockLeft \in 0 .. Lock
  PROVE  /\ lock' = Steering!Locked(want)
         /\ \/ lockLeft > 1 /\ lock # "none" /\ lock' = lock /\ lockLeft' = lockLeft - 1
            \/ (lockLeft <= 1 \/ lock = "none") /\ lockLeft' = Lock
  <1>1. want # "none"
    BY DEF Steering!Sides
  <1> QED BY <1>1, Intervals2 DEF Steering!KeepLock, Steering!Locked

\* The guard lets the direction pass.
LEMMA PassIsSteady ==
  ASSUME Threshold >= 3, SteadyInv, NEW want \in Steering!Sides, Steering!KeepLock(want),
         NEW steer \in Steering!Sides, steer = Steering!Locked(want), holdLeft <= 1,
         ~(Cardinality(Steering!Counted(steer)) >= Threshold),
         hold' = "none", holdLeft' = 0, flips' = Steering!Counted(steer), ad' = steer, last' = steer,
         Steering!Note
  PROVE  FlipInv' /\ HoldsInv' /\ LockInv' /\ SwingInv'
  <1> DEFINE new == IF Reverses(steer) THEN {0} ELSE {}
  <1>0. /\ flips \in SUBSET (0 .. Window) /\ turns \in SUBSET (0 .. Window)
        /\ holdLeft \in 0 .. Hold /\ lockLeft \in 0 .. Lock
        /\ ad = last /\ last \in {"A", "D", "none"} /\ steer \in {"A", "D"} /\ lock' = steer
    BY LockPasses DEF SteadyInv, SteerTypes, FlipInv, SideOrNone, Steering!Sides
  <1>1. flips' = Steering!Aged(flips) \cup new
    BY CountedIs
  <1>2. turns' = Steering!Aged(turns) \cup new
    <2>1. {ad, ad'} = Steering!Sides <=> Reverses(steer)
      BY <1>0 DEF Reverses, Steering!Sides
    <2> QED BY <2>1 DEF Steering!Note
  <1>3. Few(flips')
    <2>1. flips' \in SUBSET (0 .. Window)
      BY <1>0, <1>1, AgedStays, Intervals2
    <2>2. Cardinality(flips') \in Nat
      BY <2>1, AgesAreFinite
    <2> QED BY <2>2, Intervals2 DEF Few
  <1>4. flips' \subseteq turns'
    BY <1>1, <1>2 DEF SteadyInv, FlipInv, Steering!Aged
  <1> HIDE DEF new
  <1>5. ASSUME NEW a \in turns' \ flips' PROVE a = Window /\ holdLeft = 1
    <2>1. a \in Steering!Aged(turns) /\ a \notin Steering!Aged(flips)
      BY <1>1, <1>2, <1>5
    <2>2. a - 1 \in turns /\ a - 1 < Window /\ a \in 1 .. Window
      BY <1>0, <2>1, AgedMembers
    <2>3. a - 1 \notin flips
      <3>1. (a - 1) + 1 = a
        BY <2>2
      <3> QED BY <1>0, <2>1, <2>2, <3>1, AgedMembers
    <2>4. (a - 1) + holdLeft >= Window
      BY <2>2, <2>3 DEF SteadyInv, HoldsInv
    <2> QED BY <1>0, <2>2, <2>4, Intervals2
  <1>6. Few(turns')
    <2>1. CASE holdLeft = 1
      <3>1. flips = {}
        BY <2>1 DEF SteadyInv, HoldsInv
      <3>2. flips' \subseteq {0}
        BY <1>1, <3>1 DEF Steering!Aged, new
      <3>3. turns' \subseteq {0, Window}
        BY <1>5, <3>2
      <3> QED BY <3>3, TwoAreFew
    <2>2. CASE holdLeft # 1
      <3>1. turns' = flips'
        BY <1>4, <1>5, <2>2
      <3> QED BY <1>3, <3>1 DEF Few
    <2> QED BY <2>1, <2>2
  <1>7. FlipInv'
    BY <1>3, <1>4, <1>6 DEF FlipInv
  <1>8. HoldsInv'
    BY <1>5, Intervals2 DEF HoldsInv
  <1>9. ASSUME NEW a \in flips', NEW b \in flips', a < b PROVE a + lockLeft' >= Lock
    <2>1. b \in Steering!Aged(flips) /\ a \in 0 .. Window
      <3>1. flips' \in SUBSET (0 .. Window) /\ (b \in new => b = 0)
        BY <1>0, <1>1, AgedStays, Intervals2 DEF new
      <3> QED BY <1>1, <1>9, <3>1
    <2>2. b - 1 \in flips
      BY <1>0, <2>1, AgedMembers
    <2>3. CASE lockLeft' = Lock
      BY <2>1, <2>3, Intervals2
    <2>4. CASE lockLeft > 1 /\ lock # "none" /\ lock' = lock /\ lockLeft' = lockLeft - 1
      <3>1. last = lock
        BY <2>2, <2>4 DEF SteadyInv, LockInv
      <3>2. ~Reverses(steer)
        BY <1>0, <2>4, <3>1 DEF Reverses
      <3>3. a \in Steering!Aged(flips)
        BY <1>1, <3>2 DEF new
      <3>4. a - 1 \in flips /\ a \in 1 .. Window /\ b \in 1 .. Window
        BY <1>0, <2>1, <3>3, AgedMembers
      <3>5. a - 1 < b - 1
        BY <1>9, <3>4
      <3>6. (a - 1) + lockLeft >= Lock
        BY <2>2, <2>4, <3>1, <3>4, <3>5 DEF SteadyInv, LockInv
      <3> QED BY <1>0, <2>4, <3>4, <3>6, Intervals2
    <2> QED BY <1>0, <2>3, <2>4, LockPasses
  <1>10. LockInv'
    BY <1>0, <1>9 DEF LockInv
  <1>11. SwingInv'
    BY Intervals2 DEF SwingInv, Steering!Note
  <1> QED BY <1>7, <1>8, <1>10, <1>11

\* The guard holds the direction before: the last reversals are a lock old, and the hold lasts
\* for the rest of the window.
LEMMA HoldIsSteady ==
  ASSUME Threshold >= 3, Window <= Lock + Hold,
         SteadyInv, NEW want \in Steering!Sides, Steering!KeepLock(want),
         NEW steer \in Steering!Sides, steer = Steering!Locked(want), holdLeft <= 1,
         Cardinality(Steering!Counted(steer)) >= Threshold,
         hold' = IF last # "none" THEN last ELSE steer, holdLeft' = Hold, flips' = {},
         ad' = hold', last' = hold', Steering!Note
  PROVE  FlipInv' /\ HoldsInv' /\ LockInv' /\ SwingInv'
  <1>0. /\ flips \in SUBSET (0 .. Window) /\ turns \in SUBSET (0 .. Window)
        /\ holdLeft \in 0 .. Hold /\ lockLeft \in 0 .. Lock
        /\ ad = last /\ last \in {"A", "D", "none"} /\ steer \in {"A", "D"} /\ lock' = steer
        /\ Few(flips) /\ Few(turns)
    BY LockPasses DEF SteadyInv, SteerTypes, FlipInv, SideOrNone, Steering!Sides
  <1>1. ~Few(Steering!Counted(steer))
    <2>1. Steering!Counted(steer) \in SUBSET (0 .. Window)
      BY <1>0, CountedIs, AgedStays, Intervals2
    <2>2. Cardinality(Steering!Counted(steer)) \in Nat
      BY <2>1, AgesAreFinite
    <2> QED BY <2>2, Intervals2 DEF Few
  <1>2. Reverses(steer)
    <2> SUFFICES ASSUME ~Reverses(steer) PROVE FALSE
      OBVIOUS
    <2>1. Steering!Counted(steer) = Steering!Aged(flips)
      BY CountedIs
    <2> QED BY <1>0, <1>1, <2>1, FewStayFew
  <1>3. ASSUME NEW a \in flips PROVE \E b \in flips : b # a
    <2> SUFFICES ASSUME flips = {a} PROVE FALSE
      BY <1>3
    <2>1. Steering!Counted(steer) \subseteq {0, a + 1}
      BY <1>2, CountedIs DEF Steering!Aged
    <2> QED BY <1>1, <2>1, TwoAreFew
  <1>4. flips # {}
    <2> SUFFICES ASSUME flips = {} PROVE FALSE
      OBVIOUS
    <2>1. Steering!Counted(steer) \subseteq {0, 0}
      BY <1>2, CountedIs DEF Steering!Aged
    <2> QED BY <1>1, <2>1, TwoAreFew
  <1>5. last # "none" /\ last = lock /\ holdLeft = 0
    <2>1. last # "none" /\ ~(holdLeft > 0)
      BY <1>2, <1>4 DEF Reverses, SteadyInv, HoldsInv
    <2> QED BY <1>0, <1>4, <2>1, Intervals2 DEF SteadyInv, LockInv
  <1>6. lockLeft <= 1
    BY <1>0, <1>2, <1>5, LockPasses DEF Reverses
  <1>7. ASSUME NEW a \in flips PROVE a + 1 >= Lock
    <2>1. PICK b \in flips : b # a
      BY <1>3, <1>7
    <2>2. a \in 0 .. Window /\ b \in 0 .. Window
      BY <1>0, <1>7, <2>1
    <2>3. (a < b => a + lockLeft >= Lock) /\ (b < a => b + lockLeft >= Lock)
      BY <1>5, <1>7, <2>1 DEF SteadyInv, LockInv
    <2> QED BY <1>0, <1>6, <2>1, <2>2, <2>3, Intervals2
  <1>8. hold' = last /\ ad' = last /\ last' = last
    BY <1>5
  <1>9. turns' = Steering!Aged(turns)
    <2>1. {ad, ad'} # Steering!Sides
      BY <1>0, <1>8 DEF Steering!Sides
    <2> QED BY <2>1 DEF Steering!Note
  <1>10. FlipInv'
    <2>1. Few({})
      BY TwoAreFew
    <2>2. Few(turns')
      BY <1>0, <1>9, FewStayFew
    <2>3. Few(flips')
      BY <2>1 DEF Few
    <2> QED BY <2>2, <2>3 DEF FlipInv
  <1>11. ASSUME NEW a \in turns' PROVE a + Hold >= Window
    <2>1. a - 1 \in turns /\ a - 1 < Window /\ a \in 1 .. Window
      BY <1>0, <1>9, <1>11, AgedMembers
    <2>2. a - 1 \in flips
      <3> SUFFICES ASSUME a - 1 \notin flips PROVE FALSE
        OBVIOUS
      <3>1. (a - 1) + 0 >= Window
        BY <1>5, <2>1 DEF SteadyInv, HoldsInv
      <3> QED BY <2>1, <3>1, Intervals2
    <2>3. (a - 1) + 1 >= Lock
      BY <1>7, <2>2
    <2> QED BY <2>1, <2>3, Intervals2
  <1>12. HoldsInv'
    BY <1>5, <1>8, <1>11 DEF HoldsInv
  <1>13. LockInv'
    BY <1>5, <1>8 DEF LockInv
  <1>14. SwingInv'
    <2>1. side = last /\ kept \in 0 .. Hold
      BY <1>0, <1>5 DEF SteadyInv, SwingInv, SteerTypes
    <2>2. {side, ad'} # Steering!Sides
      BY <1>8, <2>1 DEF Steering!Sides
    <2>3. side' = last /\ kept' = Steering!Longer
      BY <1>5, <1>8, <2>2 DEF Steering!Note
    <2>4. Hold > 0 => kept' + Hold > Hold
      BY <2>1, <2>3, KeptIsAnAge, Intervals2
    <2> QED BY <1>8, <2>3, <2>4 DEF SwingInv
  <1> QED BY <1>10, <1>12, <1>13, <1>14

LEMMA SteerIsSteady ==
  ASSUME Threshold >= 3, Window <= Lock + Hold,
         SteadyInv, NEW want \in Steering!Sides \cup {"none"}, Steering!Steer(want)
  PROVE  FlipInv' /\ HoldsInv' /\ LockInv' /\ SwingInv'
  <1>0. /\ ad = last /\ last \in {"A", "D", "none"} /\ holdLeft \in 0 .. Hold /\ hold \in {"A", "D", "none"}
    BY DEF SteadyInv, FlipInv, SteerTypes, SideOrNone
  <1>1. Steering!KeepLock(want) /\ Steering!Note
    BY DEF Steering!Steer
  <1>2. CASE want = "none"
    <2>1. lock' = "none" /\ lockLeft' = 0
      BY <1>1, <1>2 DEF Steering!KeepLock
    <2>2. /\ ad' = "none" /\ last' = "none" /\ flips' = Steering!Aged(flips)
          /\ hold' = hold /\ holdLeft' = Steering!Down(holdLeft)
      BY <1>2 DEF Steering!Steer, Steering!Guard
    <2>3. {ad, ad'} # Steering!Sides
      BY <2>2 DEF Steering!Sides
    <2>4. turns' = Steering!Aged(turns)
      BY <1>1, <2>3 DEF Steering!Note
    <2>5. FlipInv' /\ HoldsInv'
      BY <2>2, <2>4, AgeingIsSteady
    <2>6. LockInv'
      BY <2>1, <2>2 DEF LockInv
    <2>7. side' = side /\ kept' = Steering!Longer
      <3>1. {side, ad'} # Steering!Sides
        BY <2>2 DEF Steering!Sides
      <3> QED BY <1>1, <2>2, <3>1 DEF Steering!Note
    <2>8. SwingInv'
      BY <2>2, <2>7, AgeingKeepsSide
    <2> QED BY <2>5, <2>6, <2>8
  <1>3. CASE want # "none"
    <2> DEFINE steer == Steering!Locked(want)
    <2>1. want \in Steering!Sides /\ steer \in Steering!Sides /\ steer # "none" /\ Steering!Guard(steer)
      BY <1>3 DEF Steering!Steer, Steering!Sides, Steering!Locked, SteadyInv, SteerTypes, SideOrNone
    <2> HIDE DEF steer
    <2>2. CASE holdLeft > 1
      <3>1. /\ ad' = hold /\ last' = hold /\ flips' = Steering!Aged(flips)
            /\ hold' = hold /\ holdLeft' = holdLeft - 1
        BY <2>1, <2>2, <1>0, Intervals2 DEF Steering!Guard
      <3>2. holdLeft' = Steering!Down(holdLeft)
        BY <1>0, <2>2, <3>1, Intervals2 DEF Steering!Down
      <3>3. last \in {"none", hold} /\ hold # "none" /\ flips = {}
        <4>1. holdLeft > 0
          BY <1>0, <2>2, Intervals2
        <4> QED BY <2>2, <4>1 DEF SteadyInv, HoldsInv
      <3>4. {ad, ad'} # Steering!Sides
        BY <1>0, <3>1, <3>3 DEF Steering!Sides
      <3>5. turns' = Steering!Aged(turns)
        BY <1>1, <3>4 DEF Steering!Note
      <3>6. FlipInv' /\ HoldsInv'
        BY <3>1, <3>2, <3>5, AgeingIsSteady
      <3>7. flips' = {}
        BY <3>1, <3>3 DEF Steering!Aged
      <3>8. LockInv'
        BY <3>1, <3>3, <3>7 DEF LockInv
      <3>9. side = hold
        BY <1>0, <2>2, Intervals2 DEF SteadyInv, SwingInv
      <3>10. side' = side /\ kept' = Steering!Longer
        <4>1. {side, ad'} # Steering!Sides
          BY <3>1, <3>9 DEF Steering!Sides
        <4> QED BY <1>1, <3>1, <3>3, <3>9, <4>1 DEF Steering!Note
      <3>11. SwingInv'
        BY <3>1, <3>2, <3>9, <3>10, AgeingKeepsSide
      <3> QED BY <3>6, <3>8, <3>11
    <2>3. CASE holdLeft <= 1
      <3>0. ~(holdLeft > 1)
        BY <1>0, <2>3, Intervals2
      <3>1. CASE Cardinality(Steering!Counted(steer)) >= Threshold
        <4>1. /\ hold' = (IF last # "none" THEN last ELSE steer) /\ holdLeft' = Hold /\ flips' = {}
              /\ ad' = hold' /\ last' = hold'
          BY <2>1, <3>0, <3>1, SameCardinality DEF Steering!Guard
        <4> QED BY <1>1, <2>1, <2>3, <3>1, <4>1, HoldIsSteady DEF steer
      <3>2. CASE ~(Cardinality(Steering!Counted(steer)) >= Threshold)
        <4>1. /\ hold' = "none" /\ holdLeft' = 0 /\ flips' = Steering!Counted(steer)
              /\ ad' = steer /\ last' = steer
          BY <2>1, <3>0, <3>2, SameCardinality DEF Steering!Guard
        <4> QED BY <1>1, <2>1, <2>3, <3>2, <4>1, PassIsSteady DEF steer
      <3> QED BY <3>1, <3>2
    <2> QED BY <1>0, <2>2, <2>3, Intervals2
  <1> QED BY <1>2, <1>3

LEMMA SteeringIsSteady ==
  Threshold >= 3 /\ Window <= Lock + Hold /\ SteadyInv /\ [Steering!Next]_steering => SteadyInv'
  <1> SUFFICES ASSUME Threshold >= 3, Window <= Lock + Hold, SteadyInv, [Steering!Next]_steering
               PROVE  SteadyInv'
    OBVIOUS
  <1>1. SteerTypes'
    BY SteeringKeepsTypes, SteerTypesAreTypes
       DEF SteadyInv, Steering!TypeOK, SteerTypes, Steering!Sides, SideOrNone
  <1>2. CASE UNCHANGED steering
    BY <1>2 DEF steering, SteadyInv, SteerTypes, FlipInv, HoldsInv, LockInv, SwingInv, Few
  <1> QED BY <1>1, <1>2, SteerIsSteady, SkipIsSteady DEF SteadyInv, Steering!Next

LEMMA SteadyStarts == Threshold >= 3 /\ Steering!Init => SteadyInv
  <1> SUFFICES ASSUME Threshold >= 3, Steering!Init PROVE SteadyInv
    OBVIOUS
  <1>1. SteerTypes
    BY SteeringStarts, SteerTypesAreTypes
  <1>2. Few({})
    BY TwoAreFew
  <1>3. /\ ad = "none" /\ lock = "none" /\ last = "none" /\ flips = {} /\ turns = {} /\ holdLeft = 0
    BY DEF Steering!Init
  <1>4. FlipInv
    BY <1>2, <1>3 DEF FlipInv
  <1>5. HoldsInv
    BY <1>3 DEF HoldsInv
  <1>6. LockInv
    BY <1>3 DEF LockInv
  <1>7. SwingInv
    BY <1>3 DEF SwingInv
  <1> QED BY <1>1, <1>4, <1>5, <1>6, <1>7 DEF SteadyInv

-----------------------------------------------------------------------------
(* The speed chain: a layer that caps W leaves it under the limits that    *)
(* were already in force, and only the speed at the start gives W.         *)

Commanded(c) == c \in [ws : {"W", "S", "STOP"}, w : 0 .. 100]

LEMMA InputFields ==
  ASSUME NEW i \in Speed!Inputs
  PROVE  /\ i.place \in {"inside", "target", "brake", "far"} /\ i.yaw \in {"ahead", "bend", "corner", "behind"}
         /\ i.limit \in {None, 8, 32} /\ i.phase \in {"none", "cruise", "curve", "stop"}
  BY DEF Speed!Inputs

LEMMA CapLowers ==
  ASSUME NEW c, Commanded(c), NEW most \in 0 .. 100
  PROVE  /\ Commanded(Speed!Cap(c, most)) /\ Speed!Cap(c, most).ws = c.ws
         /\ c.ws = "W" => Speed!Cap(c, most).w <= c.w /\ Speed!Cap(c, most).w <= most
  BY DEF Commanded, Speed!Cap, Speed!Cmd, Speed!Least

LEMMA StopIsNotW == Commanded(Speed!Stop) /\ Speed!Stop.ws # "W"
  BY DEF Commanded, Speed!Stop, Speed!Cmd

\* What the layers keep, one after the other: no W at the goal, no W over the safety limit.
AwayFromGoal(i, c) == c.ws = "W" => i.place \notin {"inside", "target"}
UnderLimit(i, c)   == c.ws = "W" /\ i.limit # None => c.w <= i.limit

LEMMA NominalIsLimited ==
  ASSUME NEW i \in Speed!Inputs
  PROVE  LET c == Speed!Nominal(i) IN Commanded(c) /\ AwayFromGoal(i, c) /\ UnderLimit(i, c)
  <1> DEFINE a == Speed!Speed(i)
             b == Speed!Pivoted(i, a)
             d == Speed!Steadied(i, b)
             e == Speed!SideOpened(i, d)
             f == Speed!SafetyLimited(i, e)
  <1>1. Commanded(a) /\ AwayFromGoal(i, a)
    BY InputFields DEF Commanded, AwayFromGoal, Speed!Speed, Speed!Stop, Speed!Cmd, Speed!Straight,
       Speed!Turn, Speed!Crawl, Speed!PivotCrawl
  <1> HIDE DEF a
  <1>2. Commanded(b) /\ AwayFromGoal(i, b)
    BY <1>1, CapLowers, StopIsNotW DEF AwayFromGoal, Speed!Pivoted, Speed!ApfSlow
  <1> HIDE DEF b
  <1>3. Commanded(d) /\ AwayFromGoal(i, d)
    BY <1>2, CapLowers DEF AwayFromGoal, Speed!Steadied, Speed!Oscillation
  <1> HIDE DEF d
  <1>4. Commanded(e) /\ AwayFromGoal(i, e)
    BY <1>3 DEF Commanded, AwayFromGoal, Speed!SideOpened, Speed!Cmd, Speed!SidePass
  <1> HIDE DEF e
  <1>5. Commanded(f) /\ AwayFromGoal(i, f) /\ UnderLimit(i, f)
    BY <1>4, CapLowers, InputFields DEF AwayFromGoal, UnderLimit, Speed!SafetyLimited
  <1> QED BY <1>5 DEF a, b, d, e, Speed!Nominal

LEMMA BrakedIsLimited ==
  ASSUME NEW i \in Speed!Inputs
  PROVE  LET c == Speed!Braked(i)
         IN  /\ Commanded(c) /\ AwayFromGoal(i, c) /\ UnderLimit(i, c)
             /\ c.ws = "W" /\ i.place = "brake" => c.w <= Speed!GoalBrake
  <1> DEFINE a == Speed!Nominal(i)
             b == Speed!Overspeed(i, a)
             d == Speed!Profiled(i, b)
             e == Speed!GoalBraked(i, d)
             f == Speed!PreStopped(i, e)
  <1>1. Commanded(a) /\ AwayFromGoal(i, a) /\ UnderLimit(i, a)
    BY NominalIsLimited
  <1>0. \A c \in [ws : {"W", "S", "STOP"}, w : 0 .. 100] : c.w \in Int
    OBVIOUS
  <1>6. i.limit # None => i.limit \in Int
    BY InputFields
  <1> HIDE DEF a
  <1>2. Commanded(b) /\ AwayFromGoal(i, b) /\ UnderLimit(i, b)
    <2>1. CASE b = Speed!Cap(a, Speed!OverspeedSlow)
      <3>1. Commanded(b) /\ b.ws = a.ws /\ (a.ws = "W" => b.w <= a.w)
        BY <1>1, <2>1, CapLowers DEF Speed!OverspeedSlow
      <3> HIDE DEF b
      <3> QED BY <1>0, <1>1, <1>6, <3>1 DEF AwayFromGoal, UnderLimit, Commanded
    <2>2. CASE b = a
      BY <1>1, <2>2
    <2>3. CASE b \in {Speed!Cmd("S", Speed!DangerReverse), Speed!Cmd("S", Speed!Reverse), Speed!Stop}
      <3> HIDE DEF b
      <3> QED BY <2>3, StopIsNotW
              DEF Commanded, AwayFromGoal, UnderLimit, Speed!Cmd, Speed!DangerReverse, Speed!Reverse
    <2> QED BY <2>1, <2>2, <2>3 DEF Speed!Overspeed
  <1> HIDE DEF b
  <1>3. Commanded(d) /\ AwayFromGoal(i, d) /\ UnderLimit(i, d)
    <2>1. CASE d = b \/ d = Speed!Stop
      BY <1>2, <2>1, StopIsNotW DEF AwayFromGoal, UnderLimit
    <2>2. CASE d = Speed!Cap(b, Speed!Suggested[i.phase]) /\ i.phase # "none"
      <3>1. Speed!Suggested[i.phase] \in 0 .. 100
        BY <2>2, InputFields DEF Speed!Suggested
      <3>2. Commanded(d) /\ d.ws = b.ws /\ (b.ws = "W" => d.w <= b.w)
        BY <1>2, <2>2, <3>1, CapLowers
      <3> HIDE DEF d
      <3> QED BY <1>0, <1>2, <1>6, <3>2 DEF AwayFromGoal, UnderLimit, Commanded
    <2>3. CASE b.ws = "W" /\ b.w > Speed!Resume /\ d = Speed!Cmd("W", Speed!Resume)
      <3> HIDE DEF d
      <3> QED BY <1>0, <1>2, <1>6, <2>3 DEF AwayFromGoal, UnderLimit, Commanded, Speed!Cmd, Speed!Resume
    <2> QED BY <2>1, <2>2, <2>3 DEF Speed!Profiled
  <1> HIDE DEF d
  <1>4. /\ Commanded(e) /\ AwayFromGoal(i, e) /\ UnderLimit(i, e)
        /\ e.ws = "W" /\ i.place = "brake" => e.w <= Speed!GoalBrake
    <2>1. CASE i.place = "brake"
      <3>1. Commanded(e) /\ e.ws = d.ws /\ (d.ws = "W" => e.w <= d.w /\ e.w <= Speed!GoalBrake)
        BY <1>3, <2>1, CapLowers DEF Speed!GoalBraked, Speed!GoalBrake
      <3> HIDE DEF e
      <3> QED BY <1>0, <1>3, <1>6, <2>1, <3>1 DEF AwayFromGoal, UnderLimit, Commanded
    <2>2. CASE i.place # "brake"
      BY <1>3, <2>2 DEF Speed!GoalBraked
    <2> QED BY <2>1, <2>2
  <1> HIDE DEF e
  <1>5. /\ Commanded(f) /\ AwayFromGoal(i, f) /\ UnderLimit(i, f)
        /\ f.ws = "W" /\ i.place = "brake" => f.w <= Speed!GoalBrake
    <2>1. CASE f = e \/ f = Speed!Stop
      BY <1>4, <2>1, StopIsNotW DEF AwayFromGoal, UnderLimit
    <2>2. CASE f = Speed!Cap(e, Speed!Resume)
      <3>1. Commanded(f) /\ f.ws = e.ws /\ (e.ws = "W" => f.w <= e.w)
        BY <1>4, <2>2, CapLowers DEF Speed!Resume
      <3> HIDE DEF f
      <3> QED BY <1>0, <1>4, <1>6, <3>1 DEF AwayFromGoal, UnderLimit, Commanded, Speed!GoalBrake
    <2> QED BY <2>1, <2>2 DEF Speed!PreStopped
  <1> QED BY <1>5 DEF a, b, d, e, Speed!Braked

\* Only the overspeed guard reverses: no layer before or behind it gives S by itself.
LEMMA ReversesAreBrakes ==
  ASSUME NEW i \in Speed!Inputs, Speed!Braked(i).ws = "S"
  PROVE  Speed!Overspeeds(i)
  <1> DEFINE a == Speed!Speed(i)
             b == Speed!SideOpened(i, Speed!Steadied(i, Speed!Pivoted(i, a)))
             c == Speed!Nominal(i)
             d == Speed!Overspeed(i, c)
             e == Speed!Profiled(i, d)
             f == Speed!GoalBraked(i, e)
  <1>1. a.ws # "S" /\ Speed!Stop.ws # "S"
    BY DEF Speed!Speed, Speed!Stop, Speed!Cmd
  <1>2. \A x, most : Speed!Cap(x, most).ws = "S" => x.ws = "S"
    BY DEF Speed!Cap, Speed!Cmd
  <1> HIDE DEF a
  <1>3. b.ws # "S"
    <2>1. Speed!Pivoted(i, a).ws # "S"
      BY <1>1, <1>2 DEF Speed!Pivoted
    <2>2. Speed!Steadied(i, Speed!Pivoted(i, a)).ws # "S"
      BY <1>2, <2>1 DEF Speed!Steadied
    <2> QED BY <2>2 DEF Speed!SideOpened, Speed!Cmd
  <1>4. c.ws # "S"
    BY <1>2, <1>3 DEF Speed!Nominal, Speed!SafetyLimited, a
  <1>5. f.ws = "S"
    BY <1>1, <1>2 DEF Speed!Braked, Speed!PreStopped
  <1> HIDE DEF e
  <1>6. e.ws = "S"
    BY <1>2, <1>5 DEF Speed!GoalBraked
  <1> HIDE DEF d, f
  <1>7. d.ws = "S"
    BY <1>1, <1>2, <1>6 DEF Speed!Profiled, Speed!Cmd, e
  <1> QED BY <1>1, <1>2, <1>4, <1>7 DEF Speed!Overspeed, Speed!Overspeeds, d

LEMMA TickCaps ==
  ASSUME in \in Speed!Inputs, Speed!Tick
  PROVE  Speed!SpeedIsCapped'
  <1> DEFINE a == Speed!Nominal(in)
             b == Speed!Braked(in)
             c == Speed!AfterShot(in, b, a)
             resumes == in.shot /\ b.ws = "S"
  <1>1. Commanded(a) /\ AwayFromGoal(in, a) /\ UnderLimit(in, a)
    BY NominalIsLimited
  <1>2. /\ Commanded(b) /\ AwayFromGoal(in, b) /\ UnderLimit(in, b)
        /\ b.ws = "W" /\ in.place = "brake" => b.w <= Speed!GoalBrake
        /\ b.ws = "S" => Speed!Overspeeds(in)
    BY BrakedIsLimited, ReversesAreBrakes
  <1>3. out' = c /\ in' = in
    BY DEF Speed!Tick
  <1>4. in.limit # None => in.limit \in {8, 32}
    BY InputFields
  <1> HIDE DEF a, b
  <1>5. CASE ~resumes
    <2>1. c = b
      BY <1>5 DEF Speed!AfterShot
    <2>2. b.w \in Int
      BY <1>2 DEF Commanded
    <2> HIDE DEF c, resumes
    <2> QED BY <1>2, <1>3, <2>1, <2>2
            DEF Speed!SpeedIsCapped, Speed!Forward, AwayFromGoal, UnderLimit, Speed!GoalBrake
  <1>6. CASE resumes /\ a.ws # "W"
    <2>1. c = a
      BY <1>6 DEF Speed!AfterShot
    <2> HIDE DEF c, resumes
    <2> QED BY <1>3, <1>6, <2>1 DEF Speed!SpeedIsCapped, Speed!Forward
  <1>7. CASE resumes /\ a.ws = "W"
    <2>1. /\ c.ws = "W" /\ c.w <= Speed!ShotResume
          /\ c.w <= a.w \/ c.w <= Speed!LeastShotResume
          /\ c.w \in Int /\ a.w \in Int
      BY <1>1, <1>7 DEF Speed!AfterShot, Speed!Cmd, Speed!Least, Speed!ShotResume, Speed!LeastShotResume,
         Commanded
    <2>2. in.shot /\ Speed!Overspeeds(in)
      BY <1>2, <1>7
    <2> HIDE DEF c, resumes
    <2>3. /\ in.place \notin {"inside", "target"}
          /\ in.limit # None => c.w <= in.limit
      BY <1>1, <1>4, <1>7, <2>1 DEF AwayFromGoal, UnderLimit, Speed!LeastShotResume
    <2>4. in'.shot /\ Speed!Overspeeds(in)'
      BY <1>3, <2>2 DEF Speed!Overspeeds
    <2> QED BY <1>3, <2>1, <2>3, <2>4 DEF Speed!SpeedIsCapped, Speed!Forward
  <1> QED BY <1>5, <1>6, <1>7

driveVars == <<layer, vars, steering, pivots, speed, recon>>

SpeedInv ==
    layer = "speed" => in \in Speed!Inputs /\ (out.ws = "none" \/ Speed!SpeedIsCapped)

LEMMA SpeedStarts == DriveInit => SpeedInv
  BY DEF DriveInit, SpeedInv, Speed!Init, Speed!Cmd

LEMMA SpeedStaysCapped ==
  SpeedInv /\ [DriveNext]_driveVars => SpeedInv'
  <1> SUFFICES ASSUME SpeedInv, [DriveNext]_driveVars, layer' = "speed"
               PROVE  in' \in Speed!Inputs /\ (out'.ws = "none" \/ Speed!SpeedIsCapped')
    BY DEF SpeedInv
  <1>1. layer = "speed" /\ (Speed!Tick \/ UNCHANGED speed)
    BY DEF DriveNext, driveVars
  <1>2. CASE Speed!Tick
    BY <1>1, <1>2, TickCaps DEF SpeedInv, Speed!Tick
  <1>3. CASE UNCHANGED speed
    BY <1>1, <1>3 DEF SpeedInv, speed, Speed!SpeedIsCapped, Speed!Forward
  <1> QED BY <1>1, <1>2, <1>3

-----------------------------------------------------------------------------
(* The recon observation: what a dwell has left and the STOPs it has given *)
(* are one dwell, the interval before a tick already taken off.            *)

DwellTypes ==
    /\ tick \in BOOLEAN /\ spot \in Spots /\ owner \in Spots /\ seen \in Recon!Payloads
    /\ dwell \in -1 .. Dwell /\ cool \in 0 .. Cool /\ dwelled \subseteq Spots
    /\ qe \in {"Q", "E", "none"} /\ turretCmd \in {"Q", "E", "none"}
    /\ ws \in {"W", "slow", "STOP"} /\ why \in {"none", "home", "track"}

StopCounts ==
    /\ stops \in [Spots -> 0 .. Dwell]
    /\ \A s \in Spots \ dwelled : stops[s] = 0
    /\ dwell > 0 => /\ owner \in dwelled
                    /\ stops[owner] + dwell <= Dwell + (IF tick THEN 0 ELSE 1)

DwellInv == DwellTypes /\ StopCounts

LEMMA DwellTypesAreTypes == Recon!TypeOK <=> DwellTypes
  BY DEF Recon!TypeOK, DwellTypes, Recon!Sides

LEMMA DwellStarts == Recon!Init => DwellInv
  <1> SUFFICES ASSUME Recon!Init PROVE DwellInv
    OBVIOUS
  <1>1. DwellTypes
    <2>1. -1 \in -1 .. Dwell /\ 0 \in 0 .. Cool
      BY Intervals2
    <2> QED BY <2>1 DEF Recon!Init, DwellTypes, Recon!Payloads
  <1>2. StopCounts
    BY Intervals2 DEF Recon!Init, StopCounts
  <1> QED BY <1>1, <1>2 DEF DwellInv

\* A STOP of a dwell: its first, at a new place, or another one, while the dwell lasts.
LEMMA StopIsCounted ==
  ASSUME DwellTypes, StopCounts, tick, Recon!Dwelling, ws' = "STOP", tick' = FALSE,
         stops' = [stops EXCEPT ![owner'] = Recon!Up(@, Dwell + 1)]
  PROVE  StopCounts'
  <1>1. CASE Recon!MayDwell
    <2>1. dwell' = Dwell /\ dwelled' = dwelled \cup {spot} /\ owner' = spot
      BY <1>1 DEF Recon!Dwelling
    <2>2. spot \in Spots \ dwelled /\ stops[spot] = 0
      BY <1>1 DEF Recon!MayDwell, DwellTypes, StopCounts
    <2>3. stops' = [stops EXCEPT ![spot] = 1]
      <3>1. Recon!Up(0, Dwell + 1) = 1
        BY Intervals2 DEF Recon!Up
      <3> QED BY <2>1, <2>2, <3>1
    <2>4. stops' \in [Spots -> 0 .. Dwell] /\ stops'[spot] = 1
      BY <2>2, <2>3, Intervals2 DEF StopCounts
    <2>5. \A s \in Spots \ dwelled' : stops'[s] = 0
      BY <2>1, <2>3 DEF StopCounts
    <2> QED BY <2>1, <2>4, <2>5, Intervals2 DEF StopCounts
  <1>2. CASE ~Recon!MayDwell
    <2>1. dwell > 0 /\ UNCHANGED <<dwell, dwelled, owner>>
      BY <1>2 DEF Recon!Dwelling
    <2>2. /\ owner \in dwelled /\ owner \in Spots /\ stops[owner] \in 0 .. Dwell
          /\ stops[owner] + dwell <= Dwell + 0
      <3>1. owner \in dwelled /\ stops[owner] + dwell <= Dwell + 0
        BY <2>1 DEF StopCounts
      <3> QED BY <3>1 DEF StopCounts, DwellTypes
    <2>3. dwell \in Int
      BY Intervals2 DEF DwellTypes
    <2>4. stops' = [stops EXCEPT ![owner] = stops[owner] + 1] /\ stops[owner] + 1 \in 0 .. Dwell
      <3>1. stops[owner] + 1 \in 0 .. Dwell
        BY <2>1, <2>2, <2>3, Intervals2
      <3>2. Recon!Up(stops[owner], Dwell + 1) = stops[owner] + 1
        BY <2>2, Intervals2 DEF Recon!Up
      <3> QED BY <2>1, <3>1, <3>2
    <2>5. stops' \in [Spots -> 0 .. Dwell] /\ stops'[owner] = stops[owner] + 1
      BY <2>2, <2>4 DEF StopCounts
    <2>6. \A s \in Spots \ dwelled' : stops'[s] = 0
      BY <2>1, <2>2, <2>4 DEF StopCounts
    <2> QED BY <2>1, <2>2, <2>3, <2>5, <2>6, Intervals2 DEF StopCounts
  <1> QED BY <1>1, <1>2

\* Any other tick leaves the counts, and a dwell ends rather than begins.
LEMMA TickWithoutStop ==
  ASSUME DwellTypes, StopCounts, tick, tick' = FALSE, UNCHANGED <<dwelled, owner, stops>>,
         dwell' = dwell \/ dwell' = -1
  PROVE  StopCounts'
  <1>1. dwell \in Int /\ Dwell \in Nat
    BY Intervals2 DEF DwellTypes
  <1>2. ASSUME dwell' > 0
        PROVE  owner \in dwelled /\ stops[owner] + dwell <= Dwell /\ stops[owner] \in Int
    BY <1>1, <1>2 DEF StopCounts, DwellTypes
  <1> QED BY <1>1, <1>2 DEF StopCounts

LEMMA TickKeepsDwellInv ==
  ASSUME DwellInv, NEW err \in Recon!Sides \cup {"none"}, NEW near \in BOOLEAN, Recon!Tick(err, near)
  PROVE  DwellInv'
  <1>0. /\ tick /\ tick' = FALSE /\ UNCHANGED <<spot, seen>> /\ DwellTypes /\ StopCounts
        /\ err \in {"Q", "E", "none"}
    BY DEF Recon!Tick, DwellInv, Recon!Sides
  <1>1. CASE Recon!NoPayload(err)
    <2>1. /\ UNCHANGED <<dwell, cool, dwelled, owner, qe, stops>> /\ ws' = "W"
          /\ turretCmd' \in {err, "none"} /\ why' \in {"home", "none"}
      BY <1>1 DEF Recon!NoPayload, Recon!Home, Recon!Still
    <2>2. DwellTypes'
      BY <1>0, <2>1 DEF DwellTypes
    <2> QED BY <1>0, <2>1, <2>2, TickWithoutStop DEF DwellInv
  <1>2. CASE Recon!Ahead
    <2>1. /\ Recon!Dwelling /\ turretCmd' = "none" /\ why' = "none" /\ UNCHANGED qe
          /\ stops' = IF ws' = "STOP" THEN [stops EXCEPT ![owner'] = Recon!Up(@, Dwell + 1)] ELSE stops
      BY <1>2 DEF Recon!Ahead, Recon!Still
    <2>2. /\ dwell' \in {Dwell, dwell, -1} /\ dwelled' \in {dwelled, dwelled \cup {spot}}
          /\ owner' \in {owner, spot} /\ ws' \in {"STOP", "slow"} /\ cool' \in {Cool, cool}
          /\ ws' # "STOP" => UNCHANGED <<dwelled, owner>> /\ dwell' = -1
      BY <2>1 DEF Recon!Dwelling
    <2>3. dwell' \in -1 .. Dwell /\ cool' \in 0 .. Cool
      BY <1>0, <2>2, Intervals2 DEF DwellTypes
    <2>4. DwellTypes'
      BY <1>0, <2>1, <2>2, <2>3 DEF DwellTypes
    <2>5. StopCounts'
      BY <1>0, <2>1, <2>2, StopIsCounted, TickWithoutStop
    <2> QED BY <2>4, <2>5 DEF DwellInv
  <1>3. CASE Recon!Side(err, near)
    <2>1. /\ UNCHANGED <<dwell, cool, dwelled, owner, stops>> /\ ws' \in {"W", "slow"}
          /\ turretCmd' \in {err, "none"} /\ why' \in {"track", "none"} /\ qe' \in {qe, err}
      BY <1>3 DEF Recon!Side, Recon!Still
    <2>2. DwellTypes'
      BY <1>0, <2>1 DEF DwellTypes
    <2> QED BY <1>0, <2>1, <2>2, TickWithoutStop DEF DwellInv
  <1>4. CASE Recon!Clear(err)
    <2>1. /\ UNCHANGED <<dwelled, owner, qe, stops>> /\ ws' = "W"
          /\ dwell' \in {-1, dwell} /\ cool' \in {Cool, cool}
          /\ turretCmd' \in {err, "none"} /\ why' \in {"home", "none"}
      BY <1>4 DEF Recon!Clear, Recon!Home, Recon!Still
    <2>2. dwell' \in -1 .. Dwell /\ cool' \in 0 .. Cool
      BY <1>0, <2>1, Intervals2 DEF DwellTypes
    <2>3. DwellTypes'
      BY <1>0, <2>1, <2>2 DEF DwellTypes
    <2> QED BY <1>0, <2>1, <2>3, TickWithoutStop DEF DwellInv
  <1> QED BY <1>1, <1>2, <1>3, <1>4 DEF Recon!Tick

LEMMA ReconKeepsDwellInv == DwellInv /\ [Recon!Next]_recon => DwellInv'
  <1> SUFFICES ASSUME DwellInv, [Recon!Next]_recon PROVE DwellInv'
    OBVIOUS
  <1>1. ASSUME NEW p \in Recon!Payloads \ {"none"}, Recon!Observe(p) PROVE DwellInv'
    BY <1>1 DEF Recon!Observe, DwellInv, DwellTypes, StopCounts
  <1>2. ASSUME NEW s \in Spots, Recon!Move(s) PROVE DwellInv'
    BY <1>2 DEF Recon!Move, DwellInv, DwellTypes, StopCounts
  <1>3. ASSUME NEW err \in Recon!Sides \cup {"none"}, NEW near \in BOOLEAN, Recon!Tick(err, near)
        PROVE  DwellInv'
    BY <1>3, TickKeepsDwellInv
  <1>4. CASE Recon!Clock
    <2>1. /\ ~tick /\ tick' = TRUE /\ dwell' = (IF dwell > 0 THEN dwell - 1 ELSE dwell)
          /\ cool' = (IF cool > 0 THEN cool - 1 ELSE 0)
          /\ UNCHANGED <<spot, seen, dwelled, qe, ws, turretCmd, why, stops, owner>>
      BY <1>4 DEF Recon!Clock
    <2>2. dwell' \in -1 .. Dwell /\ cool' \in 0 .. Cool
      BY <2>1, Intervals2 DEF DwellInv, DwellTypes
    <2>3. DwellTypes'
      BY <2>1, <2>2 DEF DwellInv, DwellTypes
    <2>4. dwell \in Int /\ (dwell' > 0 => dwell > 0 /\ dwell' = dwell - 1)
      BY <2>1, Intervals2 DEF DwellInv, DwellTypes
    <2>5. dwell > 0 => owner \in dwelled /\ stops[owner] + dwell <= Dwell + 1 /\ stops[owner] \in Int
      BY <2>1 DEF DwellInv, StopCounts, DwellTypes
    <2>6. dwell' > 0 => owner' \in dwelled' /\ stops'[owner'] + dwell' <= Dwell
      BY <2>1, <2>4, <2>5, Intervals2
    <2>7. StopCounts'
      BY <2>1, <2>6, Intervals2 DEF DwellInv, StopCounts
    <2> QED BY <2>3, <2>7 DEF DwellInv
  <1>5. CASE UNCHANGED recon
    BY <1>5 DEF recon, DwellInv, DwellTypes, StopCounts
  <1> QED BY <1>1, <1>2, <1>3, <1>4, <1>5 DEF Recon!Next

LEMMA DwellIsOnce == DwellInv => Recon!TypeOK /\ Recon!DwelledOnce
  <1> SUFFICES ASSUME DwellInv PROVE Recon!TypeOK /\ Recon!DwelledOnce
    OBVIOUS
  <1>1. Recon!TypeOK
    BY DwellTypesAreTypes DEF DwellInv
  <1>2. Recon!DwelledOnce
    BY Intervals2 DEF DwellInv, StopCounts, Recon!DwelledOnce
  <1> QED BY <1>1, <1>2

-----------------------------------------------------------------------------
(* The parts together.  A step of Drive is a step of one part, and leaves  *)
(* the others as they are.                                                 *)

LEMMA EachPartSteps ==
  ASSUME [DriveNext]_driveVars
  PROVE  [Next]_vars /\ [Steering!Next]_steering /\ [Pivots!Next]_pivots /\ [Recon!Next]_recon
  BY DEF DriveNext, driveVars

StandInv ==
    TypeOK /\ Steering!TypeOK /\ PivotInv /\ TurnInv /\ DwellInv /\ HoldInv /\ DepartInv

LEMMA DriveStarts == DriveInit => StandInv
  <1> SUFFICES ASSUME DriveInit PROVE StandInv
    OBVIOUS
  <1>1. Init /\ Steering!Init /\ Pivots!Init /\ Recon!Init
    BY DEF DriveInit
  <1>2. HoldInv
    BY <1>1, NoHoldIsFine DEF Init
  <1>3. DepartInv
    BY <1>1 DEF Init, DepartInv, TerminalStopDeserved
  <1> QED BY <1>1, <1>2, <1>3, TypesStart, SteeringStarts, PivotsStart, DwellStarts DEF StandInv

\* The hull stands where a stop is due and no more: the terminal STOP comes only at a goal it has
\* been away from, the stop before a checkpoint lasts its time and no longer, and the STOPs of
\* dwells add up to one dwell at each place, whatever the callbacks and the timer do
\* (timer_cb, apply_checkpoint_pre_stop, apply_recon_observation).
THEOREM HullStopsWhereDue ==
  ASSUME PreHold > 0, StopFresh <= StopTol PROVE DriveSpec => []HullStops
  <1>1. StandInv /\ [DriveNext]_driveVars => StandInv'
    <2> SUFFICES ASSUME StandInv, [DriveNext]_driveVars PROVE StandInv'
      OBVIOUS
    <2>1. [Next]_vars /\ [Steering!Next]_steering /\ [Pivots!Next]_pivots /\ [Recon!Next]_recon
      BY EachPartSteps
    <2>2. TypeOK' /\ Steering!TypeOK'
      BY <2>1, NextKeepsTypes, SteeringKeepsTypes DEF StandInv
    <2>3. PivotInv' /\ TurnInv' /\ DwellInv'
      BY <2>1, PivotsKeepPivotInv, PivotsKeepTurn, ReconKeepsDwellInv DEF StandInv
    <2>4. HoldInv' /\ DepartInv'
      BY <2>1, NextKeepsHoldInv, NextKeepsDepartInv DEF StandInv
    <2> QED BY <2>2, <2>3, <2>4 DEF StandInv
  <1>2. StandInv => HullStops
    <2>1. HoldInv => PreStopBounded
      BY Intervals DEF HoldInv, PreStopBounded
    <2> QED BY <2>1, PivotTypes, DwellIsOnce
            DEF StandInv, HullStops, StopsDeserved, DepartInv
  <1> QED BY <1>1, <1>2, DriveStarts, PTL DEF DriveSpec, driveVars

\* Neither STOP pivot outlasts its time, and a turn away from an obstacle is not reversed before
\* its lock ends, whichever pivot, cooldown or slow turn comes between
\* (apf_vector_control_decision, sharp_turn_pivot_decision).
THEOREM PivotsAreSteady == DriveSpec => []Pivots!PivotIsBrief /\ Pivots!TurnKept
  <1> DEFINE Inv == PivotInv /\ TurnInv
  <1>1. DriveInit => Inv
    BY PivotsStart DEF DriveInit
  <1>2. Inv /\ [DriveNext]_driveVars => Inv'
    BY EachPartSteps, PivotsKeepPivotInv, PivotsKeepTurn
  <1>3. Inv => Pivots!PivotIsBrief
    BY PivotTypes
  <1>4. Inv /\ [DriveNext]_driveVars
          => [awayLeft > 0 /\ {turn, turn'} = Pivots!Sides => calm + 1 >= AwayLock]_(Pivots!vars)
    BY EachPartSteps, PivotsKeepTurn
  <1> QED BY <1>1, <1>2, <1>3, <1>4, PTL DEF DriveSpec, driveVars, Pivots!TurnKept

\* No guard of steering and no layer of the speed is undone by another: however the wanted side
\* alternates, fewer than Threshold times in a window the published one goes straight over to the
\* other, and a held side does not change at all, not even by way of ticks that want none; W
\* stays in the safety limit, and over the brake's only where a shot turns a reverse brake into
\* driving on; pivots and turns are steady.  It takes two reversals for a hold, and a hold that
\* with the lock before it outlasts the window, as the launch file has it: 2.0 s and 1.25 s of
\* 3.0 s (apply_steering_direction_lock, apply_ad_oscillation_guard, timer_cb).
THEOREM DriveStaysSteady ==
  ASSUME Threshold >= 3, Window <= Lock + Hold PROVE DriveSpec => DriveIsSteady
  <1> DEFINE Inv == SteadyInv /\ SpeedInv
  <1>1. DriveInit => Inv
    BY SteadyStarts, SpeedStarts DEF DriveInit
  <1>2. Inv /\ [DriveNext]_driveVars => Inv'
    BY EachPartSteps, SteeringIsSteady, SpeedStaysCapped
  <1>3. Inv => Steering!FewReversals
    BY SameCardinality DEF SteadyInv, FlipInv, SwingInv, Few, Steering!FewReversals
  <1>4. Inv => (layer = "speed" /\ out.ws # "none" => Speed!SpeedIsCapped)
    BY DEF SpeedInv
  <1> QED BY <1>1, <1>2, <1>3, <1>4, PivotsAreSteady, PTL DEF DriveSpec, driveVars, DriveIsSteady
=============================================================================
