----------------------------- MODULE TurretAim -----------------------------
(***************************************************************************)
(* The closed aim loop of the ballistic turret: the hybrid yaw controller  *)
(* with its delayed feedback, the pitch loop beside it with its physical   *)
(* end-stop watchdog, and the dwell before the shot.  FireMission knows    *)
(* these ticks only as "off target" and "on target".                       *)
(*                                                                         *)
(* An angle is a whole number of cells, the yaw error 0 on the target.     *)
(* One Sim step is one unit of time, in which the turret moves one cell;   *)
(* the node ticks once a unit.  Every unit one telemetry sample is taken,  *)
(* and it is received up to MaxDelay units later, or never.                *)
(***************************************************************************)
EXTENDS Integers, Sequences, TLAPS

CONSTANTS
    Reach,      \* the largest yaw error
    YawTol,     \* yaw_tolerance_deg (and the deadband)
    Gate,       \* endstop_yaw_gate_deg
    Top,        \* the mechanical pitch limit, the bottom is 0
    PitchTol,   \* pitch_tolerance_deg
    Margin,     \* physical_endstop_limit_margin_deg
    MinError,   \* physical_endstop_min_error_deg
    Goals,      \* target pitches, some beyond the travel
    BrakeTime, ObserveTime, StableTime, StallTime, Ttl,
    MaxDelay,   \* units a sample may travel
    Slow,       \* units per cell at the settle rate limit
    MaxMoves    \* reposition_max_attempts

ASSUME AimAssumption ==
    /\ {Reach, YawTol, Gate, Top, PitchTol, Margin, MinError} \subseteq Nat
    /\ {Ttl, MaxDelay, Slow, MaxMoves} \subseteq Nat /\ Goals \subseteq Int
    /\ Margin < MinError
    /\ {BrakeTime, ObserveTime, StableTime, StallTime} \subseteq Nat \ {0}

VARIABLES
    yaw, elev,   \* the turret itself: yaw error and elevation
    spin,        \* the Q/E input it still follows (it coasts one unit)
    goal,        \* the pitch the ballistic solution asks for
    pipe,        \* samples under way, oldest first
    due,         \* the node's timer tick of this unit is still to come
    seen, seenElev, moving, age, \* turret_yaw_deg, _elevation_deg, rate, feedback age
    yawAge,      \* the age of the yaw in it (_turret_last_yaw_sample_wall)
    fresh, after, \* the sequence number passed the processed one, the released one
    mode, timer, pulse, prev, crossed, \* the _aim_yaw_* state
    ready,       \* the yaw controller's verdict at the last tick
    watch,       \* _physical_pitch_watch
    dwell,       \* units on target, 0 for None
    qe, rf,      \* the command published last
    phase, moves

world == <<yaw, elev, spin, goal>>
samples == <<seen, seenElev, moving, age, yawAge>>
yawControl == <<mode, timer, pulse, prev, crossed>>
vars == <<world, pipe, due, samples, fresh, after, yawControl, ready, watch,
          dwell, qe, rf, phase, moves>>

Dirs == -1..1
Mag(n) == IF n < 0 THEN -n ELSE n
Dir(n) == IF n > 0 THEN 1 ELSE IF n < 0 THEN -1 ELSE 0
Clamp(n, lo, hi) == IF n < lo THEN lo ELSE IF n > hi THEN hi ELSE n
Down(n) == IF n > 0 THEN n - 1 ELSE 0
Longer(n) == IF n < StallTime THEN n + 1 ELSE n

\* The watchdog with another idle time.
Idled(n) == [dir |-> watch.dir, base |-> watch.base, idle |-> n]
NoWatch == [dir |-> 0, base |-> 0, idle |-> 0]

\* An age from which on a yaw sample is just old.
Old == Ttl + ObserveTime + StableTime
Aged(n) == IF n < Old THEN n + 1 ELSE Old
Aiming == phase \in {"aim", "aim_error"}

\* _reset_hybrid_yaw_control, _reset_aim_dwell
ResetYaw ==
    /\ mode' = "track" /\ timer' = 0 /\ pulse' = 0 /\ prev' = 0
    /\ crossed' = FALSE /\ after' = FALSE /\ fresh' = TRUE /\ ready' = FALSE

AimInit ==
    /\ yaw \in -Reach..Reach /\ elev \in 0..Top /\ spin = 0
    /\ goal \in Goals
    /\ pipe = <<>> /\ due = FALSE
    /\ seen = yaw /\ seenElev = elev /\ moving = FALSE /\ age = Ttl + 1 /\ yawAge = Old
    /\ fresh = FALSE /\ after = FALSE
    /\ mode = "track" /\ timer = 0 /\ pulse = 0 /\ prev = 0
    /\ crossed = FALSE /\ ready = FALSE /\ watch = NoWatch /\ dwell = 0
    /\ qe = 0 /\ rf = 0 /\ phase = "aim" /\ moves = 0

-----------------------------------------------------------------------------
(* The simulator and the telemetry. *)

\* E lowers the error, Q raises it; the input of the last unit still acts.
Sim ==
    /\ ~due /\ Aiming /\ Len(pipe) <= MaxDelay
    /\ yaw' = Clamp(yaw - spin, -Reach, Reach) /\ spin' = qe
    /\ elev' = Clamp(elev + rf, 0, Top)
    /\ pipe' = Append(pipe, [yaw |-> yaw', elev |-> elev'])
    /\ due' = TRUE
    /\ age' = (IF age > Ttl THEN age ELSE age + 1) /\ yawAge' = Aged(yawAge)
    /\ timer' = Down(timer)
    /\ watch' = Idled(Longer(watch.idle))
    /\ dwell' = IF dwell \in 1..StableTime THEN dwell + 1 ELSE dwell
    /\ UNCHANGED <<goal, seen, seenElev, moving, fresh, after, mode, pulse, prev,
                   crossed, ready, qe, rf, phase, moves>>

\* A received yaw, and its rate over the time since the last one (two samples within
\* a millisecond leave the rate as it was, and an old one only bounds it).
ReceiveYaw(new) ==
    /\ seen' = new /\ yawAge' = 0
    /\ \/ moving' = (Mag(new - seen) * Slow > yawAge)
       \/ yawAge = 0 /\ moving' = moving
       \/ yawAge = Old /\ moving' = FALSE
KeepYaw == UNCHANGED <<seen, moving, yawAge>>

\* _record_turret_feedback: whatever the message held, the feedback counts as fresh.
Arrive ==
    /\ pipe # <<>> /\ Aiming /\ pipe' = Tail(pipe)
    /\ age' = 0 /\ fresh' = TRUE /\ after' = TRUE
    /\ UNCHANGED <<world, due, yawControl, ready, watch, dwell, qe, rf, phase,
                   moves>>
Deliver == Arrive /\ ReceiveYaw(Head(pipe).yaw) /\ seenElev' = Head(pipe).elev
\* A player state without a usable elevation, or without a usable yaw: the old one stays.
DeliverYaw == Arrive /\ ReceiveYaw(Head(pipe).yaw) /\ UNCHANGED seenElev
DeliverPitch == Arrive /\ KeepYaw /\ seenElev' = Head(pipe).elev

\* Lost, malformed, or a player state while the dedicated stream is fresh.
Lose ==
    /\ pipe # <<>> /\ Aiming /\ pipe' = Tail(pipe)
    /\ UNCHANGED <<world, due, samples, fresh, after, yawControl, ready, watch,
                   dwell, qe, rf, phase, moves>>

-----------------------------------------------------------------------------
(* The yaw controller. *)

Error == seen
InTolerance == Mag(Error) <= YawTol

\* The target was crossed.  Of _aim_yaw_prev_error_deg only the side counts, and
\* none if it was in tolerance (yaw_overshoot_min_prev_error_deg) or is None.
Overshoot ==
    /\ fresh /\ prev * Error < 0

\* _start_yaw_brake: release Q/E, then wait for a sample received later.
StartBrake ==
    /\ mode' = "brake" /\ timer' = BrakeTime /\ after' = FALSE /\ pulse' = 0

\* _enter_yaw_observe
EnterObserve ==
    /\ mode' = "observe" /\ timer' = ObserveTime /\ after' = FALSE /\ pulse' = 0

\* The time the calibrated rate needs for about half the error, clamped; after
\* an overshoot the weaker pulse with the lower bound.
PulseTime == IF crossed THEN 1 ELSE Clamp(Mag(Error) - YawTol, 1, 2)
StartPulseAway ==
    /\ mode' = "pulse" /\ timer' = PulseTime /\ pulse' = -Dir(Error)
    /\ UNCHANGED after
StartPulse ==
    /\ mode' = "pulse" /\ timer' = PulseTime /\ pulse' = Dir(Error)
    /\ UNCHANGED after

StayYaw == UNCHANGED <<mode, timer, pulse, after>>

Crossing ==
    /\ Overshoot /\ mode # "brake"
    /\ StartBrake /\ crossed' = TRUE /\ ready' = FALSE

Track ==
    /\ mode = "track"
    /\ \/ InTolerance /\ StartBrake
       \/ ~InTolerance /\ StayYaw
    /\ ready' = FALSE

Brake ==
    /\ mode = "brake"
    /\ \/ ~(timer = 0 /\ after) /\ StayYaw
       \/ timer = 0 /\ after /\ InTolerance /\ EnterObserve
       \/ timer = 0 /\ after /\ ~InTolerance /\ StartPulse
    /\ ready' = FALSE

Pulse ==
    /\ mode = "pulse"
    /\ \/ timer > 0 /\ StayYaw
       \/ timer = 0 /\ EnterObserve
    /\ ready' = FALSE

Observe ==
    /\ mode = "observe"
    /\ \/ /\ ~(timer = 0 /\ after) /\ StayYaw /\ ready' = FALSE
       \/ /\ timer = 0 /\ after /\ InTolerance /\ ~moving
          /\ mode' = "settled" /\ UNCHANGED <<timer, after>> /\ pulse' = 0
          /\ ready' = TRUE
       \/ /\ timer = 0 /\ after /\ InTolerance /\ moving
          /\ EnterObserve /\ ready' = FALSE
       \/ timer = 0 /\ after /\ ~InTolerance /\ StartPulse /\ ready' = FALSE

SettledOnce ==
    /\ mode = "settled" /\ StayYaw /\ ready' = TRUE
Settled ==
    /\ mode = "settled"
    /\ \/ InTolerance /\ ~moving /\ StayYaw /\ ready' = TRUE
       \/ InTolerance /\ moving /\ EnterObserve /\ ready' = FALSE
       \/ ~InTolerance /\ StartPulse /\ ready' = FALSE

YawControl ==
    /\ prev' = IF ~fresh THEN prev ELSE IF InTolerance THEN 0 ELSE Dir(Error)
    /\ fresh' = FALSE
    /\ \/ Crossing
       \/ /\ ~(Overshoot /\ mode # "brake") /\ UNCHANGED crossed
          /\ (Track \/ Brake \/ Pulse \/ Observe \/ Settled)

\* The Q/E command of the mode: full closed loop, the pulse, or neutral.
YawCommand ==
    IF mode' = "track" THEN Dir(Error) ELSE IF mode' = "pulse" THEN pulse' ELSE 0

-----------------------------------------------------------------------------
(* The pitch loop, its watchdog and the shot. *)

PitchError == goal - seenElev
PitchAligned == Mag(PitchError) <= PitchTol

\* _observe_physical_pitch_watch: a new direction or a change restarts it.
Watched(d) ==
    IF watch.dir # d \/ watch.base # seenElev
        THEN [dir |-> d, base |-> seenElev, idle |-> 0]
        ELSE watch

\* _physical_pitch_endstop_plausible
PlausibleAnywhere(d) == Mag(PitchError) >= MinError
Plausible(d) ==
    /\ Mag(PitchError) >= MinError
    /\ IF d > 0 THEN seenElev >= Top - Margin ELSE seenElev <= Margin

Keep == phase' = "aim" /\ UNCHANGED moves

OnTarget ==
    /\ ready' /\ PitchAligned /\ watch' = NoWatch /\ rf' = 0
    /\ dwell' = IF dwell = 0 THEN 1 ELSE dwell
    /\ phase' = IF dwell > StableTime THEN "firing" ELSE "aim"
    /\ UNCHANGED moves

OffTarget ==
    /\ dwell' = 0
    /\ \/ PitchAligned /\ ~ready' /\ watch' = NoWatch /\ rf' = 0 /\ Keep
       \/ /\ ~PitchAligned /\ Mag(Error) > Gate
          /\ watch' = NoWatch /\ rf' = Dir(PitchError) /\ Keep
       \/ /\ ~PitchAligned /\ Mag(Error) <= Gate
          /\ LET w == Watched(Dir(PitchError)) IN
             /\ w.idle < StallTime
             /\ watch' = w /\ rf' = Dir(PitchError) /\ Keep

\* Unchanged feedback well inside the gun's travel is a slow stream, not a stop.
FalseStall ==
    LET d == Dir(PitchError) IN
    /\ ~PitchAligned /\ Mag(Error) <= Gate
    /\ Watched(d).idle >= StallTime /\ ~Plausible(d)
    /\ watch' = NoWatch /\ rf' = d /\ dwell' = 0 /\ Keep

Tick ==
    /\ due /\ Aiming /\ age <= Ttl /\ due' = FALSE
    /\ YawControl /\ qe' = YawCommand /\ (OnTarget \/ OffTarget \/ FalseStall)
    /\ UNCHANGED <<world, pipe, samples>>

Stopped ==
    /\ due /\ Aiming /\ age <= Ttl /\ due' = FALSE
    /\ ~PitchAligned /\ Mag(Error) <= Gate
    /\ Watched(Dir(PitchError)).idle >= StallTime /\ Plausible(Dir(PitchError))
    /\ watch' = Watched(Dir(PitchError)) /\ qe' = 0 /\ rf' = 0
    /\ UNCHANGED <<world, pipe, samples>>

\* A confirmed end stop: release everything and drive to another fire point.  The
\* watchdog is kept.
Endstop ==
    /\ Stopped /\ moves < MaxMoves
    /\ phase' = "reposition" /\ moves' = moves + 1 /\ ResetYaw /\ dwell' = 0

\* The attempts are spent: hold in aim_error, the yaw loop as it stands.
NoFallback ==
    /\ Stopped /\ moves >= MaxMoves
    /\ phase' = "aim_error" /\ YawControl /\ UNCHANGED <<moves, dwell>>

\* Without a ballistic solution the axes are released; the loops and the dwell wait.
NoSolution ==
    /\ due /\ Aiming /\ due' = FALSE
    /\ phase' = "aim_error" /\ qe' = 0 /\ rf' = 0
    /\ UNCHANGED <<world, pipe, samples, fresh, after, yawControl, ready, watch, dwell,
                   moves>>

\* Without a recent sample nothing is commanded and everything starts over.
Stale ==
    /\ due /\ Aiming /\ age > Ttl /\ due' = FALSE
    /\ ResetYaw /\ watch' = NoWatch /\ dwell' = 0 /\ qe' = 0 /\ rf' = 0
    /\ UNCHANGED <<world, pipe, samples, phase, moves>>

\* _desired_solution: the pitch from the new pose, to the new target.
NewSolution == goal' \in Goals

\* The next aim: another target after a shot, another pose after the drive.
\* The drive takes longer than StallTime, and telemetry runs on meanwhile.
Again ==
    /\ phase \in {"firing", "reposition"}
    /\ phase' = "aim" /\ due' = FALSE
    /\ moves' = IF phase = "firing" THEN 0 ELSE moves
    /\ yaw' \in -Reach..Reach /\ NewSolution
    /\ spin' = 0 /\ UNCHANGED elev
    /\ pipe' = <<>> /\ seen' = yaw' /\ seenElev' = elev /\ moving' = FALSE
    /\ age' = 0 /\ yawAge' = 0
    /\ ResetYaw /\ dwell' = 0 /\ qe' = 0 /\ rf' = 0
    /\ watch' = Idled(StallTime)

AimNext ==
    \/ Sim \/ Deliver \/ DeliverYaw \/ DeliverPitch \/ Lose \/ Tick \/ Endstop
    \/ NoFallback \/ NoSolution \/ Stale \/ Again

\* Timers and the simulator go on; a sample that is not lost is received.
AimFairness ==
    /\ WF_vars(Sim) /\ WF_vars(Tick \/ Endstop \/ NoFallback \/ NoSolution \/ Stale)
    /\ WF_vars(Deliver) /\ WF_vars(Again)
AimSpec == AimInit /\ [][AimNext]_vars /\ AimFairness

-----------------------------------------------------------------------------
(* Properties.                                                             *)

\* Type invariant of the aim loop.
AimTypeOK ==
    /\ yaw \in -Reach..Reach /\ elev \in 0..Top /\ spin \in Dirs
    /\ seen \in -Reach..Reach /\ seenElev \in 0..Top /\ age \in 0..(Ttl + 1)
    /\ yawAge \in 0..Old
    /\ mode \in {"track", "brake", "pulse", "observe", "settled"}
    /\ pulse \in Dirs /\ qe \in Dirs /\ rf \in Dirs /\ dwell \in 0..(StableTime + 1)
    /\ phase \in {"aim", "firing", "reposition", "aim_error"} /\ moves \in 0..MaxMoves

\* How far the turret may turn after the sample the node holds was taken: while the sample
\* travels, and then for the rest of a pulse, or of a unit and the one it coasts.
Stray == MaxDelay + 2
\* The yaw was received so late in the observation and dwell that it was taken at rest.
Young == yawAge + MaxDelay < ObserveTime + StableTime

\* The shot leaves a turret at rest.  It truly points at the target if the node's yaw was
\* taken at rest; a yaw older than that, which the feedback's age does not rule out, costs
\* no more than Stray, however long only pitches are received.
ShotOnTarget ==
    /\ AimTypeOK
    /\ phase = "firing" => spin = 0 /\ Mag(yaw) <= YawTol + (IF Young THEN 0 ELSE Stray)

\* The tank leaves its fire point, which costs the mission a minute, only for a target beyond
\* the gun's travel and with the gun itself near the stop it was commanded to.
EndstopIsReal ==
    phase = "reposition" =>
        \/ goal >= Top + (MinError - Margin) /\ elev >= Top - Margin
        \/ goal <= -(MinError - Margin) /\ elev <= Margin

\* Aiming comes to a shot, a drive or an error, unless samples keep being lost
\* or keep coming without their yaw.
Lossy ==
    \/ Lose
    \/ DeliverYaw /\ Head(pipe).elev # seenElev
    \/ DeliverPitch
AimEnds == []<><<Lossy>>_vars \/ []<>(phase # "aim")

-----------------------------------------------------------------------------
(* EndstopIsReal, for any travel, tolerances and times.  Towards a pitch above the  *)
(* travel the gun is only raised, so what is known of its elevation, under way or   *)
(* received, is never above the true one; and so below, towards one below.          *)

Sample == [yaw : -Reach..Reach, elev : 0..Top]

Raised ==
    /\ rf >= 0 /\ seenElev <= elev
    /\ \A i \in 1..Len(pipe) : pipe[i].elev <= elev
Lowered ==
    /\ rf <= 0 /\ seenElev >= elev
    /\ \A i \in 1..Len(pipe) : pipe[i].elev >= elev

EndstopInv ==
    /\ elev \in 0..Top /\ seenElev \in 0..Top /\ goal \in Goals /\ rf \in Dirs
    /\ {yaw, seen} \subseteq -Reach..Reach /\ {spin, qe, pulse} \subseteq Dirs
    /\ pipe \in Seq(Sample)
    /\ goal > Top => Raised
    /\ goal < 0 => Lowered
    /\ EndstopIsReal

LEMMA Travel ==
  /\ Top \in Nat /\ PitchTol \in Nat /\ Reach \in Nat /\ Goals \subseteq Int
  /\ Margin \in Nat /\ MinError \in Nat /\ Margin < MinError
  BY AimAssumption

LEMMA Clamped ==
  ASSUME NEW n \in Int, NEW lo \in Int, NEW hi \in Int, lo <= hi
  PROVE  Clamp(n, lo, hi) \in lo..hi
  BY DEF Clamp

LEMMA SimKeepsEndstopInv == ASSUME EndstopInv, Sim PROVE EndstopInv'
  <1> DEFINE s == [yaw |-> yaw', elev |-> elev']
  <1>1. elev' = Clamp(elev + rf, 0, Top) /\ yaw' = Clamp(yaw - spin, -Reach, Reach)
    BY DEF Sim
  <1>2. elev' \in 0..Top /\ yaw' \in -Reach..Reach
    <2>1. elev + rf \in Int /\ yaw - spin \in Int /\ -Reach \in Int
      BY Travel DEF EndstopInv, Dirs
    <2>2. 0 <= Top /\ -Reach <= Reach
      BY Travel
    <2> QED BY <1>1, <2>1, <2>2, Clamped, Travel
  <1>3. (rf >= 0 => elev <= elev') /\ (rf <= 0 => elev >= elev')
    BY <1>1, Travel DEF EndstopInv, Dirs, Clamp
  <1>4. s \in Sample /\ s.elev = elev'
    BY <1>2 DEF Sample
  <1>5. pipe' = Append(pipe, s)
    BY DEF Sim
  <1> HIDE DEF s
  <1>6. pipe' \in Seq(Sample)
    BY <1>4, <1>5 DEF EndstopInv
  <1>7. /\ UNCHANGED <<goal, seen, seenElev, rf, qe, pulse, phase>> /\ spin' = qe
        /\ phase # "reposition"
    BY DEF Sim, Aiming
  <1>8. ASSUME NEW i \in 1..Len(pipe')
        PROVE  pipe'[i].elev = elev' \/ (i \in 1..Len(pipe) /\ pipe'[i] = pipe[i])
    <2>1. CASE i = Len(pipe) + 1
      BY <1>4, <1>5, <2>1 DEF EndstopInv
    <2>2. CASE i # Len(pipe) + 1
      BY <1>4, <1>5, <1>8, <2>2 DEF EndstopInv
    <2> QED BY <2>1, <2>2
  <1>9. ASSUME NEW i \in 1..Len(pipe) PROVE pipe[i].elev \in 0..Top
    <2>1. pipe[i] \in Sample
      BY DEF EndstopInv
    <2> QED BY <2>1 DEF Sample
  <1>10. ASSUME goal > Top PROVE Raised'
    <2>1. seenElev <= elev' /\ elev <= elev'
      BY <1>2, <1>3, <1>10, Travel DEF EndstopInv, Raised
    <2>2. ASSUME NEW i \in 1..Len(pipe') PROVE pipe'[i].elev <= elev'
      BY <1>2, <1>8, <1>9, <1>10, <2>1, <2>2, Travel DEF EndstopInv, Raised
    <2> QED BY <1>7, <1>10, <2>1, <2>2 DEF EndstopInv, Raised
  <1>11. ASSUME goal < 0 PROVE Lowered'
    <2>1. seenElev >= elev' /\ elev >= elev'
      BY <1>2, <1>3, <1>11, Travel DEF EndstopInv, Lowered
    <2>2. ASSUME NEW i \in 1..Len(pipe') PROVE pipe'[i].elev >= elev'
      BY <1>2, <1>8, <1>9, <1>11, <2>1, <2>2, Travel DEF EndstopInv, Lowered
    <2> QED BY <1>7, <1>11, <2>1, <2>2 DEF EndstopInv, Lowered
  <1> QED BY <1>2, <1>6, <1>7, <1>10, <1>11 DEF EndstopInv, EndstopIsReal

LEMMA TelemetryKeepsEndstopInv ==
  ASSUME EndstopInv, Deliver \/ DeliverYaw \/ DeliverPitch \/ Lose
  PROVE  EndstopInv'
  <1>1. /\ pipe # <<>> /\ pipe' = Tail(pipe)
        /\ UNCHANGED <<yaw, elev, spin, goal, rf, qe, pulse, phase>>
    BY DEF Deliver, DeliverYaw, DeliverPitch, Arrive, Lose, world, yawControl
  <1>2. /\ seenElev' = seenElev \/ seenElev' = pipe[1].elev
        /\ seen' = seen \/ seen' = pipe[1].yaw
    BY DEF Deliver, DeliverYaw, DeliverPitch, Arrive, ReceiveYaw, KeepYaw, Lose, samples
  <1>3. pipe[1] \in Sample /\ 1 \in 1..Len(pipe)
    BY <1>1 DEF EndstopInv
  <1>4. pipe' \in Seq(Sample)
    BY <1>1 DEF EndstopInv
  <1>5. \A i \in 1..Len(pipe') : i + 1 \in 1..Len(pipe) /\ pipe'[i] = pipe[i + 1]
    BY <1>1 DEF EndstopInv
  <1>6. seen' \in -Reach..Reach /\ seenElev' \in 0..Top
    BY <1>2, <1>3 DEF EndstopInv, Sample
  <1>7. goal > Top => Raised'
    BY <1>1, <1>2, <1>3, <1>5 DEF EndstopInv, Raised
  <1>8. goal < 0 => Lowered'
    BY <1>1, <1>2, <1>3, <1>5 DEF EndstopInv, Lowered
  <1> QED BY <1>1, <1>4, <1>6, <1>7, <1>8 DEF EndstopInv, EndstopIsReal

\* Towards a pitch beyond the gun's travel it is never commanded away from that end.
LEMMA CommandTowardsEnd ==
  ASSUME EndstopInv, Tick \/ Endstop \/ NoFallback \/ NoSolution \/ Stale
  PROVE  rf' \in Dirs /\ (goal > Top => rf' >= 0) /\ (goal < 0 => rf' <= 0)
  <1>1. rf' = 0 \/ rf' = Dir(PitchError)
    BY DEF Tick, OnTarget, OffTarget, FalseStall, Endstop, NoFallback, Stopped, NoSolution, Stale
  <1>2. goal \in Int /\ PitchError = goal - seenElev
    BY Travel DEF EndstopInv, PitchError
  <1>3. /\ PitchError \in Int
        /\ goal > Top => PitchError > 0
        /\ goal < 0 => PitchError < 0
    BY <1>2, Travel DEF EndstopInv
  <1> QED BY <1>1, <1>3 DEF Dir, Dirs

LEMMA EndstopOnlyOutOfReach ==
  ASSUME EndstopInv, Stopped
  PROVE  \/ goal >= Top + (MinError - Margin) /\ elev >= Top - Margin
         \/ goal <= -(MinError - Margin) /\ elev <= Margin
  <1>1. Mag(PitchError) >= MinError /\ PitchError = goal - seenElev
    BY DEF Stopped, Plausible, PitchError
  <1>2. IF Dir(PitchError) > 0 THEN seenElev >= Top - Margin ELSE seenElev <= Margin
    BY DEF Stopped, Plausible
  <1>3. goal \in Int /\ PitchError \in Int /\ seenElev \in 0..Top /\ elev \in 0..Top
    BY <1>1, Travel DEF EndstopInv
  <1>4. CASE Dir(PitchError) > 0
    <2>1. PitchError >= MinError /\ seenElev >= Top - Margin
      BY <1>1, <1>2, <1>3, <1>4, Travel DEF Dir, Mag
    <2>2. goal >= Top + (MinError - Margin) /\ goal > Top
      BY <1>1, <1>3, <2>1, Travel
    <2> QED BY <1>3, <2>1, <2>2, Travel DEF EndstopInv, Raised
  <1>5. CASE ~(Dir(PitchError) > 0)
    <2>1. PitchError <= -MinError /\ seenElev <= Margin
      BY <1>1, <1>2, <1>3, <1>5, Travel DEF Dir, Mag
    <2>2. goal <= -(MinError - Margin) /\ goal < 0
      BY <1>1, <1>3, <2>1, Travel
    <2> QED BY <1>3, <2>1, <2>2, Travel DEF EndstopInv, Lowered
  <1> QED BY <1>4, <1>5

\* Whatever the mode, yaw is turned one way, the other way or not at all.
LEMMA YawKeepsType ==
  ASSUME EndstopInv, YawControl \/ ResetYaw \/ UNCHANGED pulse
  PROVE  pulse' \in Dirs /\ (qe' \in {0, Dir(Error), pulse'} => qe' \in Dirs)
  <1>1. Dir(Error) \in Dirs
    BY DEF Dir, Dirs
  <1>2. pulse' \in {0, Dir(Error), pulse}
    BY DEF YawControl, ResetYaw, Crossing, Track, Brake, Pulse, Observe, Settled, StartBrake,
           EnterObserve, StartPulse, StayYaw
  <1> QED BY <1>1, <1>2 DEF EndstopInv, Dirs

LEMMA TickKeepsEndstopInv ==
  ASSUME EndstopInv, Tick \/ Endstop \/ NoFallback \/ NoSolution \/ Stale
  PROVE  EndstopInv'
  <1>1. UNCHANGED <<yaw, elev, spin, goal, pipe, seen, seenElev>>
    BY DEF Tick, Endstop, NoFallback, Stopped, NoSolution, Stale, world, samples
  <1>4. /\ YawControl \/ ResetYaw \/ UNCHANGED pulse
        /\ qe' \in {0, Dir(Error), pulse'}
    BY DEF Tick, Endstop, NoFallback, Stopped, NoSolution, Stale, yawControl, YawCommand
  <1>2. phase' = "reposition" => Endstop
    BY DEF Tick, OnTarget, OffTarget, FalseStall, Keep, Aiming, Endstop, NoFallback, NoSolution,
           Stale
  <1>3. EndstopIsReal'
    BY <1>1, <1>2, EndstopOnlyOutOfReach DEF Endstop, EndstopIsReal
  <1> QED BY <1>1, <1>3, <1>4, CommandTowardsEnd, YawKeepsType DEF EndstopInv, Raised, Lowered

LEMMA AgainKeepsEndstopInv == ASSUME EndstopInv, Again PROVE EndstopInv'
  <1>1. /\ elev' = elev /\ seenElev' = elev /\ goal' \in Goals /\ rf' = 0
        /\ yaw' \in -Reach..Reach /\ seen' = yaw' /\ pipe' = <<>> /\ phase' = "aim"
        /\ spin' = 0 /\ qe' = 0 /\ pulse' = 0
    BY DEF Again, NewSolution, ResetYaw
  <1>2. pipe' \in Seq(Sample) /\ Len(pipe') = 0
    BY <1>1
  <1> QED BY <1>1, <1>2 DEF EndstopInv, EndstopIsReal, Raised, Lowered, Dirs

\* The tank gives up its fire point only with its gun near the stop and for a target beyond
\* the gun's travel, above or below, for any travel, tolerances, margins, times, delays and
\* losses of the telemetry, pitches and yaws that come alone included
\* (_observe_physical_pitch_watch and _physical_pitch_endstop_plausible).
THEOREM EndstopsAreReal == AimSpec => []EndstopIsReal
  <1>1. AimInit => EndstopInv
    BY Travel DEF AimInit, EndstopInv, EndstopIsReal, Raised, Lowered, Dirs
  <1>2. ASSUME EndstopInv, [AimNext]_vars PROVE EndstopInv'
    <2>1. CASE Sim
      BY <1>2, <2>1, SimKeepsEndstopInv
    <2>2. CASE Deliver \/ DeliverYaw \/ DeliverPitch \/ Lose
      BY <1>2, <2>2, TelemetryKeepsEndstopInv
    <2>3. CASE Tick \/ Endstop \/ NoFallback \/ NoSolution \/ Stale
      BY <1>2, <2>3, TickKeepsEndstopInv
    <2>4. CASE Again
      BY <1>2, <2>4, AgainKeepsEndstopInv
    <2>5. CASE UNCHANGED vars
      BY <1>2, <2>5 DEF vars, world, samples, yawControl, EndstopInv, EndstopIsReal, Raised, Lowered
    <2> QED BY <1>2, <2>1, <2>2, <2>3, <2>4, <2>5 DEF AimNext
  <1>3. EndstopInv => EndstopIsReal
    BY DEF EndstopInv
  <1> QED BY <1>1, <1>2, <1>3, PTL DEF AimSpec

-----------------------------------------------------------------------------
(* ShotOnTarget, for any travel, tolerances and times.  The longer Q/E has  *)
(* been neutral, the younger a sample of another yaw would have to be; and   *)
(* what the turret may still turn, once the yaw the node holds is on target, *)
(* only shrinks until a younger one is received.                             *)

\* For how many units, at least, Q/E has been neutral in this observation.
NeutralIn(m, t, d) ==
    IF m = "observe" THEN ObserveTime - t
    ELSE IF m = "settled" THEN ObserveTime + Down(d) ELSE 0
Neutral == NeutralIn(mode, timer, dwell)

Watch == [dir : Dirs, base : 0..Top, idle : 0..StallTime]

AimTyped ==
    /\ AimTypeOK /\ timer \in Nat /\ watch \in Watch /\ Len(pipe) <= MaxDelay + 1
    /\ mode = "observe" => timer <= ObserveTime
    /\ dwell > 0 => mode = "settled" /\ watch.dir = 0

AtRest ==
    /\ mode \in {"observe", "settled"} => qe = 0
    /\ Neutral > 0 => spin = 0
    /\ \A i \in 1..Len(pipe) : Len(pipe) - i < Neutral => pipe[i].yaw = yaw
    /\ yawAge + MaxDelay < Neutral => seen = yaw
    /\ phase = "firing" => spin = 0 /\ (Young => Mag(yaw) <= YawTol)

LEMMA Times ==
  /\ Reach \in Nat /\ YawTol \in Nat /\ Top \in Nat /\ PitchTol \in Nat
  /\ Goals \subseteq Int /\ Old \in Nat /\ Old >= ObserveTime + StableTime
  /\ Ttl \in Nat /\ MaxDelay \in Nat /\ MaxMoves \in Nat
  /\ BrakeTime \in Nat \ {0} /\ ObserveTime \in Nat \ {0}
  /\ StableTime \in Nat \ {0} /\ StallTime \in Nat \ {0}
  BY AimAssumption DEF Old

LEMMA PulseTimes == ASSUME EndstopInv PROVE PulseTime \in 1..2
  BY Times DEF PulseTime, Clamp, Mag, Error, EndstopInv

LEMMA YawTyped ==
  ASSUME EndstopInv, AimTyped, YawControl
  PROVE  /\ mode' \in {"track", "brake", "pulse", "observe", "settled"} /\ timer' \in Nat
         /\ mode' = "observe" => timer' <= ObserveTime
         /\ ready' => mode' = "settled" /\ InTolerance
  <1> USE Times, PulseTimes DEF AimTyped, AimTypeOK
  <1>1. CASE Crossing
    BY <1>1 DEF Crossing, StartBrake
  <1>2. CASE Track
    BY <1>2 DEF Track, StartBrake, StayYaw
  <1>3. CASE Brake
    BY <1>3 DEF Brake, StayYaw, EnterObserve, StartPulse
  <1>4. CASE Pulse
    BY <1>4 DEF Pulse, StayYaw, EnterObserve
  <1>5. CASE Observe
    BY <1>5 DEF Observe, StayYaw, EnterObserve, StartPulse
  <1>6. CASE Settled
    BY <1>6 DEF Settled, StayYaw, EnterObserve, StartPulse
  <1> QED BY <1>1, <1>2, <1>3, <1>4, <1>5, <1>6 DEF YawControl

LEMMA WatchTyped ==
  ASSUME EndstopInv, AimTyped
  PROVE  Watched(Dir(PitchError)) \in Watch /\ NoWatch \in Watch
  <1>1. Dir(PitchError) \in Dirs
    BY DEF Dir, Dirs
  <1>2. NoWatch \in Watch
    BY Times DEF NoWatch, Watch, Dirs
  <1>3. [dir |-> Dir(PitchError), base |-> seenElev, idle |-> 0] \in Watch
    BY <1>1, Times DEF Watch, EndstopInv
  <1> QED BY <1>2, <1>3 DEF Watched, AimTyped

\* While it waits out the dwell, the watchdog has not begun to count.
LEMMA NoStopInDwell == ASSUME EndstopInv, AimTyped, Stopped PROVE dwell = 0
  <1> SUFFICES ASSUME dwell # 0 PROVE FALSE
    OBVIOUS
  <1>1. watch.dir = 0
    BY DEF AimTyped, AimTypeOK
  <1>2. PitchError \in Int
    BY Times DEF EndstopInv, PitchError
  <1>3. Dir(PitchError) # 0
    BY <1>2, Times DEF Stopped, PitchAligned, Mag, Dir
  <1>4. Watched(Dir(PitchError)).idle = 0
    BY <1>1, <1>3 DEF Watched
  <1> QED BY <1>4, Times DEF Stopped

LEMMA TickTyped ==
  ASSUME EndstopInv, EndstopInv', AimTyped, Tick \/ Endstop \/ NoFallback \/ NoSolution \/ Stale
  PROVE  AimTyped'
  <1>1. /\ UNCHANGED <<yaw, elev, spin, pipe, seen, seenElev, age, yawAge>>
        /\ {spin', qe', pulse', rf'} \subseteq Dirs
    BY DEF Tick, Endstop, NoFallback, Stopped, NoSolution, Stale, world, samples, EndstopInv
  <1>2. CASE Tick
    <2>1. YawControl
      BY <1>2 DEF Tick
    <2>2. CASE OnTarget
      <3>1. dwell' \in 1..(StableTime + 1) /\ mode' = "settled" /\ watch' = NoWatch
            /\ phase' \in {"aim", "firing"} /\ moves' = moves
        BY <2>1, <2>2, YawTyped, Times DEF OnTarget, AimTyped, AimTypeOK
      <3>2. watch'.dir = 0
        BY <3>1 DEF NoWatch
      <3> QED BY <1>1, <2>1, <3>1, <3>2, YawTyped, WatchTyped, Times DEF AimTyped, AimTypeOK, EndstopInv
    <2>3. CASE OffTarget \/ FalseStall
      <3>1. dwell' = 0 /\ phase' = "aim" /\ moves' = moves
        BY <2>3 DEF OffTarget, FalseStall, Keep
      <3>2. watch' = NoWatch \/ watch' = Watched(Dir(PitchError))
        BY <2>3 DEF OffTarget, FalseStall
      <3>3. watch' \in Watch
        BY <3>2, WatchTyped
      <3>4. /\ mode' \in {"track", "brake", "pulse", "observe", "settled"} /\ timer' \in Nat
            /\ mode' = "observe" => timer' <= ObserveTime
            /\ ready' => mode' = "settled" /\ InTolerance
        BY <2>1, YawTyped
      <3> QED BY <1>1, <3>1, <3>3, <3>4, Times DEF AimTyped, AimTypeOK, EndstopInv
    <2> QED BY <1>2, <2>2, <2>3 DEF Tick
  <1>3. CASE Endstop
    <2>1. dwell' = 0 /\ mode' = "track" /\ timer' = 0 /\ phase' = "reposition"
          /\ moves' \in 0..MaxMoves /\ watch' = Watched(Dir(PitchError))
      BY <1>3, Times DEF Endstop, Stopped, ResetYaw, AimTyped, AimTypeOK
    <2> QED BY <1>1, <2>1, WatchTyped, Times DEF AimTyped, AimTypeOK, EndstopInv
  <1>4. CASE NoFallback
    <2>1. dwell' = 0 /\ phase' = "aim_error" /\ moves' = moves
          /\ watch' = Watched(Dir(PitchError)) /\ YawControl
      BY <1>4, NoStopInDwell DEF NoFallback, Stopped
    <2> QED BY <1>1, <2>1, YawTyped, WatchTyped, Times DEF AimTyped, AimTypeOK, EndstopInv
  <1>5. CASE NoSolution
    BY <1>1, <1>5 DEF NoSolution, yawControl, AimTyped, AimTypeOK, EndstopInv
  <1>6. CASE Stale
    <2>1. dwell' = 0 /\ mode' = "track" /\ timer' = 0 /\ UNCHANGED <<phase, moves>>
          /\ watch' = NoWatch
      BY <1>6 DEF Stale, ResetYaw
    <2> QED BY <1>1, <2>1, WatchTyped, Times DEF AimTyped, AimTypeOK, EndstopInv
  <1> QED BY <1>2, <1>3, <1>4, <1>5, <1>6

LEMMA SimTyped ==
  ASSUME EndstopInv, EndstopInv', AimTyped, Sim
  PROVE  AimTyped'
  <1>1. age' \in 0..(Ttl + 1) /\ yawAge' \in 0..Old
    BY Times DEF Sim, Aged, AimTyped, AimTypeOK
  <1>2. timer' \in Nat /\ (timer <= ObserveTime => timer' <= ObserveTime)
    BY Times DEF Sim, Down, AimTyped
  <1>3. watch' \in Watch /\ watch'.dir = watch.dir
    <2>1. Longer(watch.idle) \in 0..StallTime
      BY Times DEF Longer, AimTyped, Watch
    <2> QED BY <2>1 DEF Sim, Idled, AimTyped, Watch
  <1>4. dwell' \in 0..(StableTime + 1) /\ (dwell = 0 => dwell' = 0)
    BY Times DEF Sim, AimTyped, AimTypeOK
  <1>5. Len(pipe') <= MaxDelay + 1
    BY Times DEF Sim, EndstopInv
  <1>6. UNCHANGED <<mode, phase, moves>>
    BY DEF Sim
  <1>7. AimTypeOK'
    BY <1>1, <1>4, <1>6 DEF AimTyped, AimTypeOK, EndstopInv
  <1>8. dwell' > 0 => dwell > 0
    BY <1>4, Times DEF AimTyped, AimTypeOK
  <1> QED BY <1>2, <1>3, <1>5, <1>6, <1>7, <1>8 DEF AimTyped

LEMMA TelemetryTyped ==
  ASSUME EndstopInv, EndstopInv', AimTyped, Deliver \/ DeliverYaw \/ DeliverPitch \/ Lose
  PROVE  AimTyped'
  <1>1. /\ pipe # <<>> /\ pipe' = Tail(pipe) /\ age' \in {0, age} /\ yawAge' \in {0, yawAge}
        /\ UNCHANGED <<mode, timer, dwell, watch, phase, moves>>
    BY DEF Deliver, DeliverYaw, DeliverPitch, Arrive, ReceiveYaw, KeepYaw, Lose, samples, yawControl
  <1>2. Len(pipe') <= MaxDelay + 1 /\ age' \in 0..(Ttl + 1) /\ yawAge' \in 0..Old
    BY <1>1, Times DEF EndstopInv, AimTyped, AimTypeOK
  <1> QED BY <1>1, <1>2 DEF AimTyped, AimTypeOK, EndstopInv

LEMMA AgainTyped ==
  ASSUME EndstopInv, EndstopInv', AimTyped, Again
  PROVE  AimTyped'
  <1>1. /\ pipe' = <<>> /\ age' = 0 /\ yawAge' = 0 /\ mode' = "track" /\ timer' = 0 /\ dwell' = 0
        /\ phase' = "aim" /\ moves' \in {0, moves}
    BY DEF Again, ResetYaw
  <1>2. watch' \in Watch
    BY Times DEF Again, Idled, AimTyped, Watch
  <1>3. Len(pipe') <= MaxDelay + 1 /\ age' \in 0..(Ttl + 1) /\ yawAge' \in 0..Old
        /\ moves' \in 0..MaxMoves
    BY <1>1, Times DEF AimTyped, AimTypeOK
  <1> QED BY <1>1, <1>2, <1>3, Times DEF AimTyped, AimTypeOK, EndstopInv

LEMMA NeutralTyped ==
  ASSUME NEW m, NEW t \in Nat, NEW d \in 0..(StableTime + 1), m = "observe" => t <= ObserveTime
  PROVE  NeutralIn(m, t, d) \in 0..(ObserveTime + StableTime)
  <1>1. Down(d) \in 0..StableTime
    BY Times DEF Down
  <1> QED BY <1>1, Times DEF NeutralIn

LEMMA NeutralIsTime ==
  /\ AimTyped  => Neutral  \in Nat
  /\ AimTyped' => Neutral' \in Nat
  <1>1. ASSUME AimTyped PROVE Neutral \in Nat
    <2>1. timer \in Nat /\ dwell \in 0..(StableTime + 1) /\ (mode = "observe" => timer <= ObserveTime)
      BY <1>1 DEF AimTyped, AimTypeOK
    <2>2. Neutral \in 0..(ObserveTime + StableTime)
      BY <2>1, NeutralTyped DEF Neutral
    <2> QED BY <2>2, Times
  <1>2. ASSUME AimTyped' PROVE Neutral' \in Nat
    <2>1. timer' \in Nat /\ dwell' \in 0..(StableTime + 1) /\ (mode' = "observe" => timer' <= ObserveTime)
      BY <1>2 DEF AimTyped, AimTypeOK
    <2>2. Neutral' \in 0..(ObserveTime + StableTime)
      BY <2>1, NeutralTyped DEF Neutral
    <2> QED BY <2>2, Times
  <1> QED BY <1>1, <1>2

\* A control tick moves nothing, and what it knows of the rest it keeps or forgets.
LEMMA TickRests ==
  ASSUME EndstopInv, AimTyped, AimTyped', AtRest,
         Tick \/ Endstop \/ NoFallback \/ NoSolution \/ Stale
  PROVE  /\ UNCHANGED <<yaw, spin, pipe, seen, yawAge>>
         /\ mode' \in {"observe", "settled"} => qe' = 0
         /\ Neutral' <= Neutral
  <1>1. UNCHANGED <<yaw, spin, pipe, seen, yawAge>>
    BY DEF Tick, Endstop, NoFallback, Stopped, NoSolution, Stale, world, samples
  <1>2. mode' \in {"observe", "settled"} => qe' = 0
    BY DEF Tick, YawCommand, Endstop, NoFallback, Stopped, NoSolution, Stale, ResetYaw
  <1>3. Neutral' \in Nat /\ Neutral \in Nat
    BY NeutralIsTime
  <1>4. ASSUME mode' \notin {"observe", "settled"} PROVE Neutral' <= Neutral
    <2>1. Neutral' = 0
      BY <1>4 DEF Neutral, NeutralIn
    <2> QED BY <1>3, <2>1
  <1>5. ASSUME YawControl, mode' = "observe" PROVE Neutral' <= Neutral
    <2>1. timer' = ObserveTime \/ (mode = "observe" /\ timer' = timer)
      BY <1>5 DEF YawControl, Crossing, Track, Brake, Pulse, Observe, Settled, StartBrake,
                  StartPulse, EnterObserve, StayYaw
    <2>2. Neutral' = ObserveTime - timer'
      BY <1>5 DEF Neutral, NeutralIn
    <2>3. CASE timer' = ObserveTime
      BY <1>3, <2>2, <2>3, Times
    <2>4. CASE mode = "observe" /\ timer' = timer
      BY <1>3, <2>2, <2>4 DEF Neutral, NeutralIn
    <2> QED BY <2>1, <2>3, <2>4
  <1>6. ASSUME YawControl, mode' = "settled" PROVE mode = "settled" \/ (mode = "observe" /\ timer = 0)
    BY <1>6 DEF YawControl, Crossing, Track, Brake, Pulse, Observe, Settled, StartBrake,
                StartPulse, EnterObserve, StayYaw
  <1>7. ASSUME YawControl, mode' = "settled", dwell' \in {0, dwell} \/ (dwell = 0 /\ dwell' = 1)
        PROVE  Neutral' <= Neutral
    <2>1. Neutral' = ObserveTime + Down(dwell')
      BY <1>7 DEF Neutral, NeutralIn
    <2>2. Down(dwell') <= Down(dwell) /\ Down(dwell) \in Nat /\ Down(dwell') \in Nat
      <3>1. dwell \in Nat /\ dwell' \in Nat
        <4>1. dwell \in Nat
          BY Times DEF AimTyped, AimTypeOK
        <4> QED BY <1>7, <4>1
      <3>2. CASE dwell' = dwell
        BY <3>1, <3>2 DEF Down
      <3>3. CASE dwell' \in {0, 1} /\ (dwell' = 1 => dwell = 0)
        <4>1. Down(dwell') = 0
          BY <3>3 DEF Down
        <4>2. Down(dwell) \in Nat
          BY <3>1 DEF Down
        <4> QED BY <4>1, <4>2
      <3> QED BY <1>7, <3>2, <3>3
    <2>3. CASE mode = "settled"
      BY <2>1, <2>2, <2>3, Times DEF Neutral, NeutralIn
    <2>4. CASE mode = "observe" /\ timer = 0
      <3>1. dwell = 0 /\ Neutral = ObserveTime
        BY <2>4, Times DEF AimTyped, AimTypeOK, Neutral, NeutralIn
      <3>2. Down(dwell') = 0
        BY <1>7, <3>1 DEF Down
      <3> QED BY <2>1, <3>1, <3>2, Times
    <2> QED BY <1>6, <1>7, <2>3, <2>4
  <1>8. CASE Tick \/ NoFallback
    <2>1. YawControl
      BY <1>8 DEF Tick, NoFallback
    <2>2. dwell' \in {0, dwell} \/ (dwell = 0 /\ dwell' = 1)
      BY <1>8 DEF Tick, OnTarget, OffTarget, FalseStall, NoFallback
    <2> QED BY <1>1, <1>2, <1>4, <1>5, <1>7, <2>1, <2>2
  <1>9. CASE Endstop \/ Stale
    <2>1. mode' = "track"
      BY <1>9 DEF Endstop, Stale, ResetYaw
    <2> QED BY <1>1, <1>2, <1>4, <2>1
  <1>10. CASE NoSolution
    <2>1. UNCHANGED <<mode, timer, dwell>>
      BY <1>10 DEF NoSolution, yawControl
    <2>2. Neutral' = Neutral
      BY <2>1 DEF Neutral, NeutralIn
    <2> QED BY <1>1, <1>2, <1>3, <2>2
  <1> QED BY <1>8, <1>9, <1>10

LEMMA ShotFound ==
  ASSUME EndstopInv, AimTyped, AtRest, phase # "firing",
         Tick \/ Endstop \/ NoFallback \/ NoSolution \/ Stale, phase' = "firing"
  PROVE  spin = 0 /\ (Young => Mag(yaw) <= YawTol) /\ mode = "settled" /\ Mag(seen) <= YawTol
  <1>1. Tick /\ OnTarget /\ dwell > StableTime
    BY DEF Tick, OnTarget, OffTarget, FalseStall, Keep, Endstop, NoFallback, NoSolution, Stale, Aiming
  <1>2. YawControl /\ ready'
    BY <1>1 DEF Tick, OnTarget
  <1>3. mode = "settled" /\ dwell = StableTime + 1
    BY <1>1, Times DEF AimTyped, AimTypeOK
  <1>4. Neutral = ObserveTime + StableTime
    BY <1>3, Times DEF Neutral, NeutralIn, Down
  <1>5. Neutral > 0 /\ (Young => yawAge + MaxDelay < Neutral)
    BY <1>4, Times DEF Young, AimTyped, AimTypeOK
  <1>6. Mag(seen) <= YawTol
    BY <1>2, YawTyped DEF InTolerance, Error
  <1> QED BY <1>3, <1>5, <1>6 DEF AtRest

LEMMA TickKeepsRest ==
  ASSUME EndstopInv, AimTyped, AimTyped', AtRest,
         Tick \/ Endstop \/ NoFallback \/ NoSolution \/ Stale
  PROVE  AtRest'
  <1>1. Neutral \in Nat /\ Neutral' \in Nat
    BY NeutralIsTime
  <1>2. phase # "firing"
    BY DEF Tick, Endstop, NoFallback, Stopped, NoSolution, Stale, Aiming
  <1>3. phase' = "firing" => spin' = 0 /\ (Young' => Mag(yaw') <= YawTol)
    BY <1>2, ShotFound, TickRests DEF Young
  <1>4. Neutral' > 0 => spin' = 0
    BY <1>1, TickRests DEF AtRest
  <1>5. ASSUME NEW i \in 1..Len(pipe'), Len(pipe') - i < Neutral' PROVE pipe'[i].yaw = yaw'
    <2>1. pipe' = pipe /\ Len(pipe) \in Nat
      BY TickRests DEF EndstopInv
    <2>2. Len(pipe) - i < Neutral
      BY <1>1, <1>5, <2>1, TickRests
    <2> QED BY <1>5, <2>1, <2>2, TickRests DEF AtRest
  <1>6. ASSUME yawAge' + MaxDelay < Neutral' PROVE seen' = yaw'
    <2>1. yawAge' = yawAge /\ yawAge \in Nat
      BY TickRests, Times DEF AimTyped, AimTypeOK
    <2>2. yawAge + MaxDelay < Neutral
      BY <1>1, <1>6, <2>1, TickRests, Times
    <2> QED BY <1>6, <2>1, <2>2, TickRests DEF AtRest
  <1> QED BY <1>3, <1>4, <1>5, <1>6, TickRests DEF AtRest

LEMMA SimKeepsRest ==
  ASSUME EndstopInv, EndstopInv', AimTyped, AimTyped', AtRest, Sim
  PROVE  AtRest'
  <1>1. /\ spin' = qe /\ yaw' = Clamp(yaw - spin, -Reach, Reach)
        /\ pipe' = Append(pipe, [yaw |-> yaw', elev |-> elev'])
        /\ timer' = Down(timer) /\ yawAge' = Aged(yawAge)
        /\ dwell' = (IF dwell \in 1..StableTime THEN dwell + 1 ELSE dwell)
        /\ UNCHANGED <<seen, mode, qe, phase>>
    BY DEF Sim
  <1>2. Neutral \in Nat /\ Neutral' \in Nat
    BY NeutralIsTime
  <1>3. timer \in Nat /\ dwell \in Nat /\ yawAge \in 0..Old /\ yaw \in -Reach..Reach
    BY Times DEF AimTyped, AimTypeOK
  <1>4. Neutral' <= Neutral + 1
    <2>1. Down(timer) \in Nat /\ timer <= Down(timer) + 1
      BY <1>3 DEF Down
    <2>2. Down(dwell') \in Nat /\ Down(dwell) \in Nat /\ Down(dwell') <= Down(dwell) + 1
      BY <1>1, <1>3, Times DEF Down
    <2>3. CASE mode = "observe"
      <3>1. Neutral = ObserveTime - timer /\ Neutral' = ObserveTime - Down(timer)
        BY <1>1, <2>3 DEF Neutral, NeutralIn
      <3> QED BY <1>3, <2>1, <3>1, Times
    <2>4. CASE mode = "settled"
      <3>1. Neutral = ObserveTime + Down(dwell) /\ Neutral' = ObserveTime + Down(dwell')
        BY <1>1, <2>4 DEF Neutral, NeutralIn
      <3> QED BY <2>2, <3>1, Times
    <2>5. CASE mode \notin {"observe", "settled"}
      <3>1. Neutral = 0 /\ Neutral' = 0
        BY <1>1, <2>5 DEF Neutral, NeutralIn
      <3> QED BY <3>1
    <2> QED BY <2>3, <2>4, <2>5
  <1>5. Neutral' > 0 => spin' = 0
    <2>1. Neutral' > 0 => mode \in {"observe", "settled"}
      BY <1>1, <1>2 DEF Neutral, NeutralIn
    <2> QED BY <1>1, <2>1 DEF AtRest
  <1>6. Neutral > 0 => yaw' = yaw
    <2>1. Neutral > 0 => yaw' = Clamp(yaw, -Reach, Reach)
      BY <1>1, <1>3, Times DEF AtRest
    <2> QED BY <1>3, <2>1, Times DEF Clamp
  <1>7. ASSUME NEW i \in 1..Len(pipe'), Len(pipe') - i < Neutral' PROVE pipe'[i].yaw = yaw'
    <2> DEFINE s == [yaw |-> yaw', elev |-> elev']
    <2>1. s \in Sample /\ s.yaw = yaw'
      BY DEF EndstopInv, Sample
    <2>2. pipe' = Append(pipe, s)
      BY <1>1
    <2> HIDE DEF s
    <2>3. Len(pipe) \in Nat /\ Len(pipe') = Len(pipe) + 1
      BY <2>2 DEF EndstopInv
    <2>4. CASE i = Len(pipe')
      BY <2>1, <2>2, <2>3, <2>4 DEF EndstopInv
    <2>5. CASE i # Len(pipe')
      <3>1. i \in 1..Len(pipe) /\ pipe'[i] = pipe[i]
        BY <2>1, <2>2, <2>3, <2>5 DEF EndstopInv
      <3>2. Len(pipe) - i < Neutral /\ Neutral > 0
        BY <1>2, <1>4, <1>7, <2>3, <3>1
      <3> QED BY <1>6, <3>1, <3>2 DEF AtRest
    <2> QED BY <2>4, <2>5
  <1>8. ASSUME yawAge' + MaxDelay < Neutral' PROVE seen' = yaw'
    <2>1. Neutral' <= ObserveTime + StableTime
      <3>1. timer' \in Nat /\ dwell' \in 0..(StableTime + 1) /\ (mode' = "observe" => timer' <= ObserveTime)
        BY DEF AimTyped, AimTypeOK
      <3> QED BY <3>1, NeutralTyped, Times DEF Neutral
    <2>2. yawAge' \in Nat /\ yawAge' = yawAge + 1
      BY <1>1, <1>2, <1>3, <1>8, <2>1, Times DEF Aged
    <2>3. yawAge + MaxDelay < Neutral /\ Neutral > 0
      BY <1>2, <1>3, <1>4, <1>8, <2>2, Times
    <2> QED BY <1>1, <1>6, <2>3 DEF AtRest
  <1>9. phase' # "firing"
    BY <1>1 DEF Sim, Aiming
  <1> QED BY <1>1, <1>5, <1>7, <1>8, <1>9 DEF AtRest

LEMMA TelemetryKeepsRest ==
  ASSUME EndstopInv, AimTyped, AtRest, Deliver \/ DeliverYaw \/ DeliverPitch \/ Lose
  PROVE  AtRest'
  <1>1. /\ pipe # <<>> /\ pipe' = Tail(pipe) /\ phase # "firing"
        /\ UNCHANGED <<mode, timer, dwell, yaw, spin, qe, phase>>
    BY DEF Deliver, DeliverYaw, DeliverPitch, Arrive, Lose, Aiming, world, yawControl
  <1>2. Neutral' = Neutral /\ Neutral \in Nat
    BY <1>1, NeutralIsTime DEF Neutral
  <1>3. \A i \in 1..Len(pipe') : i + 1 \in 1..Len(pipe) /\ pipe'[i] = pipe[i + 1]
    BY <1>1 DEF EndstopInv
  <1>4. Len(pipe) \in 1..(MaxDelay + 1) /\ Len(pipe') = Len(pipe) - 1
    BY <1>1, Times DEF EndstopInv, AimTyped
  <1>5. ASSUME NEW i \in 1..Len(pipe'), Len(pipe') - i < Neutral' PROVE pipe'[i].yaw = yaw'
    <2>1. i + 1 \in 1..Len(pipe) /\ pipe'[i] = pipe[i + 1]
      BY <1>3
    <2>2. Len(pipe) - (i + 1) < Neutral
      BY <1>2, <1>4, <1>5, Times
    <2> QED BY <1>1, <2>1, <2>2 DEF AtRest
  <1>6. ASSUME yawAge' + MaxDelay < Neutral' PROVE seen' = yaw'
    <2>1. CASE Lose \/ DeliverPitch
      <3>1. UNCHANGED <<seen, yawAge>>
        BY <2>1 DEF Lose, DeliverPitch, KeepYaw, samples
      <3> QED BY <1>1, <1>2, <1>6, <3>1 DEF AtRest
    <2>2. CASE Deliver \/ DeliverYaw
      <3>1. seen' = pipe[1].yaw /\ yawAge' = 0
        BY <1>1, <2>2 DEF Deliver, DeliverYaw, Arrive, ReceiveYaw, EndstopInv
      <3>2. 1 \in 1..Len(pipe) /\ Len(pipe) - 1 < Neutral
        BY <1>2, <1>4, <1>6, <3>1, Times
      <3> QED BY <1>1, <3>1, <3>2 DEF AtRest
    <2> QED BY <2>1, <2>2
  <1> QED BY <1>1, <1>2, <1>5, <1>6 DEF AtRest

LEMMA AgainKeepsRest == ASSUME EndstopInv, Again PROVE AtRest'
  <1>1. pipe' = <<>> /\ phase' = "aim" /\ mode' = "track" /\ seen' = yaw'
    BY DEF Again, ResetYaw
  <1>2. Neutral' = 0 /\ Len(pipe') = 0
    BY <1>1 DEF Neutral, NeutralIn
  <1> QED BY <1>1, <1>2 DEF AtRest

\* How often the turret can still turn before it rests, if the yaw the node holds is on
\* target: the unit it coasts, and the rest of a pulse or the command until the next tick.
Coming == Mag(spin) + (IF mode = "pulse" THEN timer ELSE IF due THEN 0 ELSE Mag(qe))

Commands ==
    /\ mode = "pulse" => /\ timer \in 0..2 /\ (spin # 0 => timer <= 1)
                         /\ ~due /\ qe # 0 => timer >= 1
    /\ mode = "brake" => qe = 0 /\ (spin # 0 => timer = BrakeTime)

Strays ==
    /\ \A i \in 1..Len(pipe) : Mag(yaw - pipe[i].yaw) <= Len(pipe) - i
    /\ InTolerance => Mag(yaw - seen) + Coming <= Stray
    /\ phase = "firing" => Mag(yaw) <= YawTol + Stray

LEMMA Triangle ==
  ASSUME NEW a \in Int, NEW b \in Int, NEW c \in Int
  PROVE  Mag(a - c) <= Mag(a - b) + Mag(b - c) /\ Mag(a - b) \in Nat
  BY DEF Mag

LEMMA ComingBounded ==
  ASSUME EndstopInv, AimTyped, Commands
  PROVE  Coming \in 0..2 /\ Mag(spin) \in 0..1 /\ Mag(qe) \in 0..1
  <1>1. spin \in Dirs /\ qe \in Dirs
    BY DEF EndstopInv
  <1>2. /\ Mag(spin) \in 0..1 /\ (spin = 0 => Mag(spin) = 0)
        /\ Mag(qe) \in 0..1
    BY <1>1 DEF Dirs, Mag
  <1>3. CASE mode = "pulse"
    <2>1. Coming = Mag(spin) + timer
      BY <1>3 DEF Coming
    <2> QED BY <1>2, <1>3, <2>1 DEF Commands
  <1>4. CASE mode # "pulse" /\ due
    <2>1. Coming = Mag(spin) + 0
      BY <1>4 DEF Coming
    <2> QED BY <1>2, <2>1
  <1>5. CASE mode # "pulse" /\ ~due
    <2>1. Coming = Mag(spin) + Mag(qe)
      BY <1>5 DEF Coming
    <2> QED BY <1>2, <2>1
  <1> QED BY <1>3, <1>4, <1>5

\* A pulse begins only when the turret rests, so the unit it coasts never adds to it.
LEMMA PulseFromRest ==
  ASSUME EndstopInv, AimTyped, AtRest, Commands, YawControl, mode' = "pulse", mode # "pulse"
  PROVE  spin = 0 /\ timer' \in 1..2 /\ ~InTolerance
  <1>1. \/ mode = "brake" /\ timer = 0
        \/ mode = "observe" /\ timer = 0
        \/ mode = "settled"
    BY DEF YawControl, Crossing, Track, Brake, Pulse, Observe, Settled, StartBrake,
           EnterObserve, StayYaw
  <1>2. timer' = PulseTime /\ ~InTolerance
    BY <1>1 DEF YawControl, Crossing, Track, Brake, Pulse, Observe, Settled, StartBrake,
                EnterObserve, StayYaw, StartPulse
  <1>3. timer' \in 1..2
    BY <1>2, PulseTimes
  <1>4. CASE mode = "brake" /\ timer = 0
    BY <1>2, <1>3, <1>4, Times DEF Commands
  <1>5. CASE mode = "observe" /\ timer = 0
    <2>1. Neutral = ObserveTime
      BY <1>5, Times DEF Neutral, NeutralIn
    <2> QED BY <1>2, <1>3, <2>1, Times DEF AtRest
  <1>6. CASE mode = "settled"
    <2>1. Neutral = ObserveTime + Down(dwell) /\ Down(dwell) \in Nat
      BY <1>6, Times DEF Neutral, NeutralIn, Down, AimTyped, AimTypeOK
    <2> QED BY <1>2, <1>3, <2>1, Times DEF AtRest
  <1> QED BY <1>1, <1>4, <1>5, <1>6

LEMMA YawCommands ==
  ASSUME EndstopInv, AimTyped, AtRest, Commands, YawControl, due, ~due', spin' = spin,
         qe' \in {0, YawCommand}
  PROVE  Commands' /\ (InTolerance => Coming' <= Coming)
  <1>1. /\ Mag(spin) \in 0..1 /\ Mag(0) = 0
    BY ComingBounded DEF Mag
  <1>2. CASE mode' = "pulse" /\ mode # "pulse"
    BY <1>2, PulseFromRest DEF Commands
  <1>3. CASE mode' = "pulse" /\ mode = "pulse"
    <2>1. timer > 0 /\ timer' = timer
      BY <1>3 DEF YawControl, Crossing, Track, Brake, Pulse, Observe, Settled, StartBrake,
                  EnterObserve, StayYaw
    <2>2. timer \in 1..2 /\ (spin # 0 => timer <= 1)
      BY <1>3, <2>1 DEF Commands
    <2>3. Coming = Mag(spin) + timer /\ Coming' = Mag(spin) + timer
      BY <1>3, <2>1 DEF Coming
    <2> QED BY <1>1, <1>3, <2>1, <2>2, <2>3 DEF Commands
  <1>4. CASE mode' # "pulse"
    <2>1. mode' = "brake" => timer' = BrakeTime \/ (mode = "brake" /\ timer' = timer)
      BY DEF YawControl, Crossing, Track, Brake, Pulse, Observe, Settled, StartBrake,
             EnterObserve, StartPulse, StayYaw
    <2>2. mode' = "track" => mode = "track" /\ ~InTolerance
      BY DEF YawControl, Crossing, Track, Brake, Pulse, Observe, Settled, StartBrake,
             EnterObserve, StartPulse, StayYaw
    <2>3. mode' # "track" => qe' = 0
      BY <1>4 DEF YawCommand
    <2>4. Commands'
      BY <1>4, <2>1, <2>3 DEF Commands
    <2>5. ASSUME InTolerance PROVE Coming' <= Coming
      <3>1. Coming' = Mag(spin) + 0
        BY <1>1, <1>4, <2>2, <2>3, <2>5 DEF Coming
      <3>2. CASE mode = "pulse"
        <4>1. Coming = Mag(spin) + timer /\ timer \in Nat
          BY <3>2 DEF Coming, AimTyped
        <4> QED BY <1>1, <3>1, <4>1
      <3>3. CASE mode # "pulse"
        <4>1. Coming = Mag(spin) + 0
          BY <3>3 DEF Coming
        <4> QED BY <3>1, <4>1
      <3> QED BY <3>2, <3>3
    <2> QED BY <2>4, <2>5
  <1> QED BY <1>2, <1>3, <1>4

LEMMA TickKeepsStrays ==
  ASSUME EndstopInv, AimTyped, AimTyped', AtRest, Commands, Strays,
         Tick \/ Endstop \/ NoFallback \/ NoSolution \/ Stale
  PROVE  Commands' /\ Strays'
  <1>1. UNCHANGED <<yaw, spin, pipe, seen>> /\ due /\ ~due' /\ phase # "firing"
    BY DEF Tick, Endstop, NoFallback, Stopped, NoSolution, Stale, Aiming, world, samples
  <1>2. Commands' /\ (InTolerance => Coming' <= Coming)
    <2>1. CASE Tick \/ NoFallback
      BY <1>1, <2>1, YawCommands DEF Tick, NoFallback, Stopped
    <2>2. CASE Endstop \/ Stale \/ NoSolution
      <3>1. qe' = 0 /\ (mode' = "track" \/ UNCHANGED <<mode, timer>>)
        BY <2>2 DEF Endstop, Stopped, Stale, NoSolution, ResetYaw, yawControl
      <3>2. Commands'
        BY <1>1, <3>1 DEF Commands
      <3>3. Mag(spin) \in 0..1 /\ Mag(0) = 0 /\ timer \in Nat
        BY ComingBounded DEF Mag, AimTyped
      <3>4. CASE mode = "pulse" /\ mode' = "pulse"
        <4>1. timer' = timer
          BY <3>1, <3>4
        <4> QED BY <1>1, <3>2, <3>3, <3>4, <4>1 DEF Coming
      <3>5. CASE mode' # "pulse"
        <4>1. Coming' = Mag(spin) + 0
          BY <1>1, <3>1, <3>3, <3>5 DEF Coming
        <4>2. Coming = Mag(spin) + timer \/ Coming = Mag(spin) + 0
          BY <1>1 DEF Coming
        <4> QED BY <3>2, <3>3, <4>1, <4>2
      <3> QED BY <3>1, <3>4, <3>5
    <2> QED BY <2>1, <2>2
  <1>3. Coming \in 0..2 /\ Coming' \in Int
    <2>1. Coming \in 0..2
      BY ComingBounded
    <2>2. Mag(spin) \in 0..1 /\ Mag(0) = 0
      BY ComingBounded DEF Mag
    <2>3. timer' \in Nat /\ qe' \in Dirs
      BY DEF AimTyped, AimTypeOK
    <2>4. Mag(qe') \in Int
      BY <2>3 DEF Mag, Dirs
    <2> QED BY <1>1, <2>1, <2>2, <2>3, <2>4 DEF Coming
  <1>4. yaw \in Int /\ seen \in Int /\ Mag(yaw - seen) \in Nat
    BY Times DEF EndstopInv, Mag
  <1>5. InTolerance' => Mag(yaw' - seen') + Coming' <= Stray'
    BY <1>1, <1>2, <1>3, <1>4, Times DEF InTolerance, Error, Strays, Stray
  <1>6. ASSUME phase' = "firing" PROVE Mag(yaw) <= YawTol + Stray
    <2>1. Mag(seen) <= YawTol
      BY <1>1, <1>6, ShotFound
    <2>2. Mag(yaw - seen) + Coming <= Stray
      BY <2>1 DEF Strays, InTolerance, Error
    <2>3. Mag(yaw) <= Mag(yaw - seen) + Mag(seen) /\ Mag(yaw) \in Nat /\ Mag(seen) \in Nat
      BY <1>4 DEF Mag
    <2> QED BY <1>3, <1>4, <2>1, <2>2, <2>3, Times DEF Stray
  <1> QED BY <1>1, <1>2, <1>5, <1>6 DEF Strays, Stray

LEMMA SimKeepsStrays ==
  ASSUME EndstopInv, EndstopInv', AimTyped, AimTyped', AtRest, Commands, Strays, Sim
  PROVE  Commands' /\ Strays'
  <1>1. /\ spin' = qe /\ yaw' = Clamp(yaw - spin, -Reach, Reach) /\ timer' = Down(timer)
        /\ pipe' = Append(pipe, [yaw |-> yaw', elev |-> elev'])
        /\ ~due /\ due' /\ phase' # "firing"
        /\ UNCHANGED <<seen, mode, qe>>
    BY DEF Sim, Aiming
  <1>2. yaw \in Int /\ yaw' \in Int /\ seen \in Int /\ spin \in Dirs /\ qe \in Dirs /\ timer \in Nat
    BY Times DEF EndstopInv, AimTyped
  <1>3. Mag(spin) \in 0..1 /\ Mag(qe) \in 0..1 /\ (qe = 0 => Mag(qe) = 0)
    BY <1>2, ComingBounded DEF Mag
  <1>4. Mag(yaw' - yaw) <= Mag(spin) /\ Mag(yaw' - yaw) \in Nat
    BY <1>1, <1>2, Times DEF Clamp, Mag, EndstopInv, Dirs
  <1>5. Commands'
    <2>1. mode = "pulse" => timer' \in 0..1
      BY <1>1 DEF Commands, Down
    <2> QED BY <1>1, <2>1 DEF Commands
  <1>6. Coming' + Mag(spin) <= Coming /\ Coming' \in Nat /\ Coming \in Nat
    <2>1. CASE mode = "pulse"
      <3>1. Coming = Mag(spin) + timer /\ Coming' = Mag(qe) + timer'
        BY <1>1, <2>1 DEF Coming
      <3>2. qe # 0 => timer >= 1
        BY <1>1, <2>1 DEF Commands
      <3>3. Mag(qe) + timer' <= timer /\ timer' \in Nat
        BY <1>1, <1>2, <1>3, <3>2 DEF Down
      <3> QED BY <1>2, <1>3, <3>1, <3>3
    <2>2. CASE mode # "pulse"
      <3>1. Coming = Mag(spin) + Mag(qe) /\ Coming' = Mag(qe) + 0
        BY <1>1, <2>2 DEF Coming
      <3> QED BY <1>3, <3>1
    <2> QED BY <2>1, <2>2
  <1>7. ASSUME InTolerance' PROVE Mag(yaw' - seen') + Coming' <= Stray
    <2>1. Mag(yaw - seen) + Coming <= Stray
      BY <1>1, <1>7 DEF Strays, InTolerance, Error
    <2>2. Mag(yaw' - seen) <= Mag(yaw' - yaw) + Mag(yaw - seen)
          /\ Mag(yaw - seen) \in Nat /\ Mag(yaw' - seen) \in Nat
      BY <1>2, Triangle
    <2> QED BY <1>1, <1>3, <1>4, <1>6, <2>1, <2>2, Times DEF Stray
  <1>8. ASSUME NEW i \in 1..Len(pipe') PROVE Mag(yaw' - pipe'[i].yaw) <= Len(pipe') - i
    <2> DEFINE s == [yaw |-> yaw', elev |-> elev']
    <2>1. s \in Sample /\ s.yaw = yaw'
      BY DEF EndstopInv, Sample
    <2>2. pipe' = Append(pipe, s)
      BY <1>1
    <2> HIDE DEF s
    <2>3. Len(pipe) \in Nat /\ Len(pipe') = Len(pipe) + 1
      BY <2>2 DEF EndstopInv
    <2>4. CASE i = Len(pipe')
      <3>1. pipe'[i].yaw = yaw'
        BY <2>1, <2>2, <2>3, <2>4 DEF EndstopInv
      <3> QED BY <1>2, <2>3, <2>4, <3>1 DEF Mag
    <2>5. CASE i # Len(pipe')
      <3>1. i \in 1..Len(pipe) /\ pipe'[i] = pipe[i]
        BY <2>1, <2>2, <2>3, <2>5 DEF EndstopInv
      <3>2. pipe[i].yaw \in Int
        <4>1. pipe[i] \in Sample
          BY <3>1 DEF EndstopInv
        <4> QED BY <4>1, Times DEF Sample
      <3>3. Mag(yaw - pipe[i].yaw) <= Len(pipe) - i
        BY <3>1 DEF Strays
      <3>4. Mag(yaw' - pipe[i].yaw) <= Mag(yaw' - yaw) + Mag(yaw - pipe[i].yaw)
            /\ Mag(yaw - pipe[i].yaw) \in Nat /\ Mag(yaw' - pipe[i].yaw) \in Nat
        BY <1>2, <3>2, Triangle
      <3> QED BY <1>3, <1>4, <2>3, <3>1, <3>3, <3>4
    <2> QED BY <2>4, <2>5
  <1> QED BY <1>1, <1>5, <1>7, <1>8 DEF Strays, Stray

LEMMA TelemetryKeepsStrays ==
  ASSUME EndstopInv, AimTyped, Commands, Strays,
         Deliver \/ DeliverYaw \/ DeliverPitch \/ Lose
  PROVE  Commands' /\ Strays'
  <1>1. /\ pipe # <<>> /\ pipe' = Tail(pipe) /\ phase' # "firing"
        /\ UNCHANGED <<mode, timer, yaw, spin, qe, due>>
    BY DEF Deliver, DeliverYaw, DeliverPitch, Arrive, Lose, Aiming, world, yawControl
  <1>2. seen' = seen \/ seen' = pipe[1].yaw
    BY DEF Deliver, DeliverYaw, DeliverPitch, Arrive, ReceiveYaw, KeepYaw, Lose, samples
  <1>3. Len(pipe) \in 1..(MaxDelay + 1) /\ Len(pipe') = Len(pipe) - 1
    BY <1>1, Times DEF EndstopInv, AimTyped
  <1>4. \A i \in 1..Len(pipe') : i + 1 \in 1..Len(pipe) /\ pipe'[i] = pipe[i + 1]
    BY <1>1 DEF EndstopInv
  <1>5. Commands' /\ Coming' = Coming
    BY <1>1 DEF Commands, Coming
  <1>6. Coming \in 0..2
    BY ComingBounded
  <1>7. yaw \in Int /\ pipe[1].yaw \in Int
    <2>1. pipe[1] \in Sample
      BY <1>1 DEF EndstopInv
    <2> QED BY <2>1, Times DEF EndstopInv, Sample
  <1>8. Mag(yaw - pipe[1].yaw) <= MaxDelay /\ Mag(yaw - pipe[1].yaw) \in Nat
    <2>1. Mag(yaw - pipe[1].yaw) <= Len(pipe) - 1
      BY <1>3 DEF Strays
    <2> QED BY <1>3, <1>7, <2>1, Times DEF Mag
  <1>9. InTolerance' => Mag(yaw' - seen') + Coming' <= Stray
    <2>1. CASE seen' = seen
      BY <1>1, <1>5, <2>1 DEF Strays, InTolerance, Error
    <2>2. CASE seen' = pipe[1].yaw
      BY <1>1, <1>5, <1>6, <1>8, <2>2, Times DEF Stray
    <2> QED BY <1>2, <2>1, <2>2
  <1>10. ASSUME NEW i \in 1..Len(pipe') PROVE Mag(yaw' - pipe'[i].yaw) <= Len(pipe') - i
    <2>1. i + 1 \in 1..Len(pipe) /\ pipe'[i] = pipe[i + 1]
      BY <1>4
    <2>2. Mag(yaw - pipe[i + 1].yaw) <= Len(pipe) - (i + 1)
      BY <2>1 DEF Strays
    <2> QED BY <1>1, <1>3, <2>1, <2>2, Times
  <1> QED BY <1>1, <1>5, <1>9, <1>10 DEF Strays, Stray

LEMMA AgainKeepsStrays == ASSUME EndstopInv, EndstopInv', Again PROVE Commands' /\ Strays'
  <1>1. /\ pipe' = <<>> /\ phase' = "aim" /\ mode' = "track" /\ seen' = yaw' /\ spin' = 0
        /\ qe' = 0 /\ ~due'
    BY DEF Again, ResetYaw
  <1>2. Len(pipe') = 0 /\ Commands'
    BY <1>1 DEF Commands
  <1>3. yaw' \in Int
    BY Times DEF EndstopInv
  <1>4. Mag(yaw' - yaw') = 0 /\ Mag(0) = 0
    <2>1. \A n \in Int : Mag(n - n) = 0
      BY DEF Mag
    <2>2. Mag(0) = 0
      BY DEF Mag
    <2> QED BY <1>3, <2>1, <2>2
  <1>5. Coming' = 0
    BY <1>1, <1>4 DEF Coming
  <1> QED BY <1>1, <1>2, <1>4, <1>5, Times DEF Strays, Stray

AimInv == EndstopInv /\ AimTyped /\ AtRest /\ Commands /\ Strays

LEMMA AimInvHolds == AimSpec => []AimInv
  <1>1. AimInit => AimInv
    <2> SUFFICES ASSUME AimInit PROVE AimInv
      OBVIOUS
    <2> USE DEF AimInv
    <2>1. EndstopInv
      BY Travel DEF AimInit, EndstopInv, EndstopIsReal, Raised, Lowered, Dirs
    <2>2. watch \in Watch
      BY Times DEF AimInit, NoWatch, Watch, Dirs
    <2>3. Len(pipe) = 0 /\ age \in 0..(Ttl + 1) /\ yawAge \in 0..Old /\ moves \in 0..MaxMoves
      BY Times DEF AimInit
    <2>4. AimTyped
      BY <2>1, <2>2, <2>3, Times DEF AimInit, AimTyped, AimTypeOK, EndstopInv
    <2>5. Neutral = 0
      BY DEF AimInit, Neutral, NeutralIn
    <2>6. AtRest
      BY <2>3, <2>5, Times DEF AimInit, AtRest
    <2>7. Commands
      BY DEF AimInit, Commands
    <2>8. Mag(yaw - seen) = 0 /\ Mag(0) = 0
      BY <2>4, Times DEF AimInit, Mag, AimTyped, AimTypeOK
    <2>9. Coming = 0
      BY <2>8 DEF AimInit, Coming
    <2>10. Strays
      BY <2>3, <2>8, <2>9, Times DEF AimInit, Strays, Stray
    <2> QED BY <2>1, <2>4, <2>6, <2>7, <2>10
  <1>2. ASSUME AimInv, [AimNext]_vars PROVE AimInv'
    <2>0. EndstopInv /\ AimTyped /\ AtRest /\ Commands /\ Strays
      BY <1>2 DEF AimInv
    <2>1. CASE Sim
      <3>1. EndstopInv'
        BY <2>0, <2>1, SimKeepsEndstopInv
      <3>2. AimTyped'
        BY <2>0, <2>1, <3>1, SimTyped
      <3> QED BY <2>0, <2>1, <3>1, <3>2, SimKeepsRest, SimKeepsStrays DEF AimInv
    <2>2. CASE Deliver \/ DeliverYaw \/ DeliverPitch \/ Lose
      <3>1. EndstopInv'
        BY <2>0, <2>2, TelemetryKeepsEndstopInv
      <3> QED BY <2>0, <2>2, <3>1, TelemetryTyped, TelemetryKeepsRest, TelemetryKeepsStrays
              DEF AimInv
    <2>3. CASE Tick \/ Endstop \/ NoFallback \/ NoSolution \/ Stale
      <3>1. EndstopInv'
        BY <2>0, <2>3, TickKeepsEndstopInv
      <3>2. AimTyped'
        BY <2>0, <2>3, <3>1, TickTyped
      <3> QED BY <2>0, <2>3, <3>1, <3>2, TickKeepsRest, TickKeepsStrays DEF AimInv
    <2>4. CASE Again
      <3>1. EndstopInv'
        BY <2>0, <2>4, AgainKeepsEndstopInv
      <3> QED BY <2>0, <2>4, <3>1, AgainTyped, AgainKeepsRest, AgainKeepsStrays DEF AimInv
    <2>5. CASE UNCHANGED vars
      <3> USE DEF vars, world, samples, yawControl
      <3>1. EndstopInv'
        BY <2>0, <2>5 DEF EndstopInv, EndstopIsReal, Raised, Lowered
      <3>2. AimTyped'
        BY <2>0, <2>5 DEF AimTyped, AimTypeOK
      <3>3. AtRest'
        BY <2>0, <2>5 DEF AtRest, Neutral, Young
      <3>4. Commands' /\ Strays'
        BY <2>0, <2>5 DEF Commands, Strays, Coming, InTolerance, Error, Stray
      <3> QED BY <3>1, <3>2, <3>3, <3>4 DEF AimInv
    <2> QED BY <1>2, <2>1, <2>2, <2>3, <2>4, <2>5 DEF AimNext
  <1> QED BY <1>1, <1>2, PTL DEF AimSpec

\* The turret no longer turns when the shot leaves, for any travel, tolerances, times and
\* telemetry (_hybrid_yaw_control releases Q/E in "observe" and "settled").
THEOREM ShotsAtRest == AimSpec => [](phase = "firing" => spin = 0)
  <1>1. AimInv => (phase = "firing" => spin = 0)
    BY DEF AimInv, AtRest
  <1> QED BY <1>1, AimInvHolds, PTL

\* The shot leaves a turret that rests; it points at the target if the yaw it was aimed by
\* was taken at rest, and is off by at most Stray otherwise: for any travel, tolerances and
\* times, and whatever of the telemetry is late, lost or comes without its yaw.
THEOREM ShotsAreOnTarget == AimSpec => []ShotOnTarget
  <1>1. AimInv => ShotOnTarget
    <2> SUFFICES ASSUME AimInv PROVE ShotOnTarget
      OBVIOUS
    <2>1. AimTypeOK
      BY DEF AimInv, AimTyped
    <2>2. phase = "firing" => /\ spin = 0 /\ Mag(yaw) <= YawTol + Stray
                              /\ Young => Mag(yaw) <= YawTol
      BY DEF AimInv, AtRest, Strays
    <2>3. YawTol + 0 = YawTol
      BY Times
    <2> QED BY <2>1, <2>2, <2>3 DEF ShotOnTarget
  <1> QED BY <1>1, AimInvHolds, PTL
=============================================================================
