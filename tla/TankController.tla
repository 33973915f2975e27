--------------------------- MODULE TankController ---------------------------
(***************************************************************************)
(* The drive command of control/tank_controller_node.py: which of terminal *)
(* stop, stuck escape, path, brakes, checkpoint pre-stop, post-shot guard  *)
(* and turret override decides the W/S axis of each 10 Hz command.         *)
(*                                                                         *)
(* The road is a line of places and a goal is one of them.  The weights    *)
(* and the A/D axis are left out (SteeringLock has the latter); what the path, *)
(* the safety limit and the overspeed guard ask for is an input of the     *)
(* tick.  Wall-clock intervals count ticks down; the stuck clock runs on   *)
(* simulator time and is kept as ages.                                     *)
(***************************************************************************)
EXTENDS Integers

CONSTANTS
    Road,           \* the road ends at this place; the hull spawns at 0
    Goals,          \* places that goal poses can name
    StopFresh,      \* planner_goal_stop_distance_m
    StopTol,        \* goal_tolerance, used when the planner's profile is stale
    PreMargin,      \* checkpoint_pre_stop_margin_m
    Teleport,       \* the jump that player_pose_cb takes for a restart (10 m)
    StuckPeriod, EscapeTurn, PreHold, Inhibit, OvTtl,   \* intervals, in ticks
    ExitOnGoal,     \* exit_on_goal_reached
    None

Places == 0 .. Road

ASSUME ControllerAssumption ==
    /\ Road \in Nat /\ Goals \subseteq Places /\ None \notin Places
    /\ {StopFresh, StopTol, PreMargin, Teleport, PreHold, Inhibit} \subseteq Nat
    /\ {StuckPeriod, EscapeTurn, OvTtl} \subseteq Nat \ {0}
    /\ ExitOnGoal \in BOOLEAN

VARIABLES
    due,        \* the timer has expired: did poses come in the interval before it
                \* (live) or not (silent); none once timer_cb has run
    pos, goal,  \* current_pos, goal_pos
    profile,    \* the planner's speed profile is fresh
    simOn,      \* current_sim_time > 0
    armed,      \* _terminal_goal_departure_armed
    latched,    \* _terminal_stop_reason_latched, and the command is the terminal STOP
    esc, escAge,        \* is_escaping, stuck clock - escape_start_time
    baseAge,    \* stuck clock - last_stuck_check_time
    moved,      \* moved or turned enough since last_stuck_check_pos, _yaw
    preDone, preLeft,   \* _checkpoint_pre_stop_triggered, _hold_until - now
    pending, inhibit,   \* _post_fire_pending_goal_handoff, _reverse_inhibit_until - now
    ov, ovLeft, \* _turret_override, and for how many ticks it is fresh
    cmd,        \* the last command: its W/S axis and the branch it is from
    away,       \* history: the hull was away from this goal since it was given
    quiet,      \* history: stuck-clock time since the hull was last meant to stand
    preTicks    \* history: pre-stop commands for this goal

stuck   == <<esc, escAge, baseAge, moved>>
preStop == <<preDone, preLeft>>
shot    == <<pending, inhibit>>
turret  == <<ov, ovLeft>>
history == <<away, quiet, preTicks>>
sensed  == <<pos, goal, profile, simOn>>
vars    == <<due, sensed, armed, latched, stuck, preStop, shot, turret, cmd, history>>

\* Ages of a time stamp that is not set, and of one that simulator time does not reach:
\* it was taken from the wall clock before simulator time was known.
Unset == -1000
Lost  == -999
LaterStopped(a, n, last) == a
Later(a, n, last) == IF a \in {Unset, Lost} \/ a >= last THEN a ELSE a + n

\* What ballistic_turret_node publishes, as far as this node tells it apart.
Override(active, hull, phase, home) ==
    [active |-> active, hull |-> hull, phase |-> phase, home |-> home]
NoOverride == Override(FALSE, "free", "drive", None)
Overrides ==
    {NoOverride, Override(TRUE, "align", "aim", None), Override(TRUE, "hold", "shot", None),
     Override(FALSE, "free", "returned", 0)}

Dist(a, b)    == IF a < b THEN b - a ELSE a - b
StopDistance  == IF profile THEN StopFresh ELSE StopTol    \* _effective_goal_stop_distance
Inside        == goal # None /\ Dist(pos, goal) < StopDistance
Within(most)  == goal # None /\ Dist(pos, goal) <= most
Away(p, g)    == p # None /\ g # None /\ Dist(p, g) > StopDistance
OvFresh       == ovLeft > 0
HoldActive    == OvFresh /\ ov.active /\ ov.hull = "hold"  \* _turret_hold_motion_active

Init ==
    /\ due = "none" /\ pos = None /\ goal = None /\ profile = FALSE /\ simOn = FALSE
    /\ armed = FALSE /\ latched = FALSE
    /\ esc = FALSE /\ escAge = Unset /\ baseAge = Unset /\ moved = FALSE
    /\ preDone = FALSE /\ preLeft = 0 /\ pending = FALSE /\ inhibit = 0
    /\ ov = NoOverride /\ ovLeft = 0
    /\ cmd = [ws |-> "STOP", by |-> "idle"]
    /\ away = FALSE /\ quiet = 0 /\ preTicks = 0

-----------------------------------------------------------------------------
(* Callbacks.                                                              *)

\* The hull drives on by a place, or a new episode puts it back to the spawn.
PlayerPose(p) ==
    /\ pos # None => p = 0 \/ Dist(pos, p) = 1
    /\ pos' = p
    /\ IF pos # None /\ Dist(pos, p) > Teleport
         THEN latched' = FALSE /\ esc' = FALSE /\ escAge' = Unset
         ELSE UNCHANGED <<latched, esc, escAge>>
    /\ armed' = (armed \/ Away(p, goal))
    /\ away'  = (away \/ (goal # None /\ Dist(p, goal) > StopFresh))
    /\ moved' = (moved \/ (pos # None /\ p # pos))
    /\ UNCHANGED <<due, goal, profile, simOn, baseAge, preStop, shot, turret, cmd,
                   quiet, preTicks>>

\* The first /player_state replaces the wall clock by simulator time.
PlayerState ==
    /\ ~simOn /\ simOn' = TRUE
    /\ baseAge' = IF baseAge = Unset THEN Unset ELSE Lost
    /\ escAge'  = IF escAge = Unset THEN Unset ELSE Lost
    /\ UNCHANGED <<due, pos, goal, profile, armed, latched, esc, moved, preStop, shot, turret,
                   cmd, history>>

\* A new episode starts where the hull stands: simulator time goes back, and will not
\* reach the stamps of the old episode within the bounds of the model.
SimRestart ==
    /\ simOn /\ (baseAge >= 0 \/ escAge >= 0)
    /\ baseAge' = IF baseAge = Unset THEN Unset ELSE Lost
    /\ escAge'  = IF escAge = Unset THEN Unset ELSE Lost
    /\ UNCHANGED <<due, sensed, armed, latched, esc, moved, preStop, shot, turret, cmd, history>>

\* A repetition of the goal changes nothing.
GoalPose(g) ==
    /\ goal # g /\ goal' = g
    /\ armed' = Away(pos, g) /\ latched' = FALSE
    /\ away' = (pos # None /\ Dist(pos, g) > StopFresh)
    /\ esc' = FALSE /\ escAge' = Unset /\ baseAge' = 0 /\ moved' = FALSE
    /\ inhibit' = IF pending THEN Inhibit ELSE inhibit
    /\ pending' = FALSE
    /\ preDone' = FALSE /\ preLeft' = 0 /\ preTicks' = 0 /\ quiet' = 0
    /\ UNCHANGED <<due, pos, profile, simOn, turret, cmd>>

TurretOverride(o) ==
    /\ ov' = o /\ ovLeft' = IF o = NoOverride THEN 0 ELSE OvTtl   \* it asks for nothing
    /\ pending' = (pending \/ o.phase = "shot")
    /\ UNCHANGED <<due, sensed, armed, latched, stuck, preStop, inhibit, cmd, history>>

\* planner_path_points_cb, or the profile's time to live runs out.
PlannerProfile ==
    /\ profile' = ~profile
    /\ UNCHANGED <<due, pos, goal, simOn, armed, latched, stuck, preStop, shot, turret, cmd, history>>

\* A tenth of a second.  Pose and state come together, so simulator time is known by
\* the end of the interval in which the first pose came; the simulator may pause.
Clock(running) ==
    /\ due = "none" /\ due' = IF running THEN "live" ELSE "silent"
    /\ simOn \/ pos = None
    /\ LET down(n) == IF n = 0 THEN 0 ELSE n - 1
           n == IF running \/ ~simOn THEN 1 ELSE 0
       IN  /\ preLeft' = down(preLeft) /\ inhibit' = down(inhibit) /\ ovLeft' = down(ovLeft)
           /\ ov' = IF ovLeft <= 1 THEN NoOverride ELSE ov     \* a stale one is not looked at
           /\ baseAge' = Later(baseAge, n, StuckPeriod + 1) /\ escAge' = Later(escAge, n, EscapeTurn)
           /\ quiet' = IF quiet > StuckPeriod THEN quiet ELSE quiet + n
    /\ UNCHANGED <<sensed, armed, latched, esc, moved, preDone, pending, cmd,
                   away, preTicks>>

-----------------------------------------------------------------------------
(* timer_cb, one action per way it returns.                                *)

Publish(ws, by) == cmd' = [ws |-> ws, by |-> by]

\* apply_turret_override: the last word on the command.  Only the alignment of the
\* hull brings axes of its own (A/D, with W/S neutral).
PublishMerged(ws, by) ==
    Publish(IF OvFresh /\ ov.active THEN "STOP" ELSE ws, by)

\* No pose, none for two seconds, or no target: without a goal there may still be a fresh
\* local or lookahead target to drive to, or not.
NoPose ==
    /\ pos = None \/ goal = None \/ due = "silent"
    /\ Publish("STOP", "idle")
    /\ UNCHANGED <<sensed, armed, latched, stuck, preStop, shot, turret, away, quiet, preTicks>>

\* _fresh_terminal_turret_phase: returned, by a return to the goal that is active now.
TerminalPhase == OvFresh /\ ov.phase = "returned" /\ ov.home # None /\ Dist(ov.home, goal) <= 1

TerminalDueUnarmed == pos # None /\ Inside /\ (ExitOnGoal \/ TerminalPhase)
TerminalDue == pos # None /\ Inside /\ (ExitOnGoal \/ (armed /\ TerminalPhase))

TerminalStop ==
    /\ TerminalDue /\ latched' = TRUE /\ esc' = FALSE /\ escAge' = Unset
    /\ Publish("STOP", "terminal")
    /\ UNCHANGED <<sensed, armed, baseAge, moved, preStop, shot, turret, away, quiet, preTicks>>

RebaseForgotten == UNCHANGED <<baseAge, moved>>
Rebase == baseAge' = 0 /\ moved' = FALSE

\* escape_command_if_needed; "go" says whether it returns a command.  A dwell of the recon
\* mission moves the place of the stamp and its time, not its yaw.
StuckCheck(go, dwelling) ==
    \/ /\ HoldActive \/ inhibit > 0
       /\ ~go /\ esc' = FALSE /\ escAge' = Unset /\ Rebase
    \/ /\ ~HoldActive /\ inhibit = 0
       /\ \/ Inside /\ ~go /\ Rebase /\ UNCHANGED <<esc, escAge>>
          \/ /\ ~Inside /\ ~esc /\ dwelling /\ ~go
             /\ baseAge' = 0 /\ moved' \in {FALSE, moved} /\ UNCHANGED <<esc, escAge>>
          \/ ~Inside /\ esc /\ escAge < EscapeTurn /\ go /\ UNCHANGED stuck
          \/ ~Inside /\ esc /\ escAge >= EscapeTurn /\ ~go /\ Rebase /\ esc' = FALSE /\ escAge' = Unset
          \/ /\ ~Inside /\ ~esc /\ ~dwelling
             /\ \/ baseAge = Unset /\ ~go /\ Rebase /\ UNCHANGED <<esc, escAge>>
                \/ baseAge # Unset /\ baseAge <= StuckPeriod /\ ~go /\ UNCHANGED stuck
                \/ baseAge > StuckPeriod /\ moved /\ ~go /\ Rebase /\ UNCHANGED <<esc, escAge>>
                \/ /\ baseAge > StuckPeriod /\ ~moved /\ go
                   /\ esc' = TRUE /\ escAge' = 0 /\ UNCHANGED <<baseAge, moved>>

Standing == HoldActive \/ inhibit > 0 \/ Inside
Meant(dwelling) == Standing \/ (dwelling /\ ~esc)

Escape ==
    /\ pos # None /\ ~TerminalDue
    /\ \E dwelling \in BOOLEAN : StuckCheck(TRUE, dwelling)
    /\ PublishMerged("W", "escape")
    /\ UNCHANGED <<sensed, armed, latched, preStop, shot, turret, away, quiet, preTicks>>

PreStopStart == preDone' = TRUE /\ preLeft' = PreHold

\* apply_checkpoint_pre_stop, with the command before it and the one after it.
PreStop(before, after) ==
    LET near == Within(StopDistance + PreMargin)
        in   == Within(StopDistance)
        hold == after = "STOP" /\ preTicks' = IF preTicks > PreHold THEN preTicks ELSE preTicks + 1
        pass == after = before /\ UNCHANGED preTicks
    IN  \/ in /\ pass /\ UNCHANGED preStop
        \/ /\ ~in /\ ~preDone /\ before = "W" /\ near
           /\ hold /\ PreStopStart
        \/ ~in /\ ~preDone /\ (before # "W" \/ ~near) /\ pass /\ UNCHANGED preStop
        \/ ~in /\ preDone /\ preLeft > 0 /\ hold /\ UNCHANGED preStop
        \/ ~in /\ preDone /\ preLeft = 0 /\ pass /\ UNCHANGED preStop

\* apply_post_fire_reverse_inhibit
AfterShot(ws, nominal) == IF ws = "S" /\ inhibit > 0 THEN nominal ELSE ws

\* The ordinary tick.  "path" is the command of steering, speed and safety limit,
\* "brake" what the overspeed guard makes of it, "stopHere" whether the planner's
\* profile ends here.  A dwell stops the hull while its candidate is in view, whatever the
\* layers say.  The layers of all missions are together here: stops before a checkpoint
\* belong to the firing missions, dwells to reconnaissance.
Drive(path, brake, stopHere, dwelling) ==
    /\ pos # None /\ ~TerminalDue
    /\ StuckCheck(FALSE, dwelling)
    /\ quiet' = IF Meant(dwelling) THEN 0 ELSE quiet
    /\ LET nominal == IF Inside THEN "STOP" ELSE path
           braked  == IF brake = "none" THEN nominal ELSE brake
           planned == IF profile /\ stopHere /\ Within(StopFresh) THEN "STOP" ELSE braked
       IN  \E slowed \in {"W", "S", "STOP"} :
              /\ PreStop(planned, slowed)
              /\ LET by == IF dwelling THEN "dwell" ELSE "drive"
                 IN  \/ dwelling /\ PublishMerged("STOP", by)
                     \/ PublishMerged(AfterShot(slowed, nominal), by)
    /\ UNCHANGED <<sensed, armed, latched, shot, turret, away>>

TimerCb ==
    /\ due # "none" /\ due' = "none"
    /\ \/ NoPose \/ TerminalStop \/ Escape
       \/ \E path \in {"W", "STOP"}, brake \in {"none", "S", "STOP"},
              stopHere \in BOOLEAN, dwelling \in BOOLEAN :
              Drive(path, brake, stopHere, dwelling)

Next ==
    \/ \E p \in Places : PlayerPose(p)
    \/ \E g \in Goals : GoalPose(g)
    \/ \E o \in Overrides : TurretOverride(o)
    \/ \E running \in BOOLEAN : Clock(running)
    \/ PlayerState \/ SimRestart \/ PlannerProfile \/ TimerCb

\* The timer fires and timer_cb runs; the simulator is not paused for good.
Fairness == WF_vars(TimerCb) /\ SF_vars(Clock(TRUE))

Spec == Init /\ [][Next]_vars
FairSpec == Spec /\ Fairness

-----------------------------------------------------------------------------
(* Properties.                                                             *)

\* Type invariant.
TypeOK ==
    /\ {profile, simOn, armed, latched, esc, moved, preDone, pending, away} \subseteq BOOLEAN
    /\ due \in {"none", "live", "silent"}
    /\ pos \in Places \cup {None} /\ goal \in Goals \cup {None}
    /\ {escAge, baseAge} \subseteq {Unset, Lost} \cup 0 .. StuckPeriod + EscapeTurn
    /\ preLeft \in 0 .. PreHold /\ inhibit \in 0 .. Inhibit /\ ovLeft \in 0 .. OvTtl
    /\ ov \in Overrides
    /\ cmd \in [ws : {"W", "S", "STOP"}, by : {"idle", "terminal", "escape", "drive", "dwell"}]
    /\ quiet \in 0 .. StuckPeriod + 1 /\ preTicks \in 0 .. PreHold + 1

\* Home is the spawn, so `returned` may be heard where the mission starts: the
\* terminal STOP comes only at a goal that the hull has been away from since it was
\* given, however goals, poses, statuses and profile interleave.
TerminalStopDeserved == latched /\ ~ExitOnGoal => away

\* A hull that was told to stand is not taken for stuck: an escape starts only after
\* a whole stuck period in which no tick saw it held, at its goal or fresh from a shot.
EscapeEarned ==
    [][esc' /\ ~esc => quiet > StuckPeriod]_vars

\* The stop before a checkpoint holds the hull once per goal, for its time and no
\* longer, whatever becomes of the profile, the brakes and the pose meanwhile.
PreStopBounded == preTicks <= PreHold

\* The hull is stopped where a stop is due and as long as it is due, no more.
StopsDeserved == TerminalStopDeserved /\ PreStopBounded

\* From the goal that follows a shot until the guard ends, the hull is not reversed.
NoReverseAfterShot == [][cmd' # cmd /\ inhibit > 0 => cmd'.ws # "S"]_vars

\* Neither an escape nor a reverse takes the hull out of a place where it was held.
HeldPlaceIsKept == EscapeEarned /\ NoReverseAfterShot

\* A hull that has a goal, is not meant to stand and does not move any more is given
\* an escape, again and again.  While the stuck clock and its stamp are of the same
\* kind, and once no dwell holds the hull, that is so.
StandsStill == simOn /\ pos # None /\ goal # None /\ ~moved /\ ~Standing /\ ~TerminalDue

StampedStuckEnds ==
    <>[](StandsStill /\ baseAge # Lost /\ cmd.by # "dwell") /\ <>[][goal' = goal /\ ~SimRestart]_vars
        => []<>(cmd.by = "escape")
=============================================================================
