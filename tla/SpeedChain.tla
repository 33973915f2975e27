----------------------------- MODULE SpeedChain -----------------------------
(***************************************************************************)
(* The W/S axis of tank_controller_node.py as a chain of layers, each with *)
(* the last word over those before it: speed for the yaw error, slow turn, *)
(* oscillation guard, side pass, safety limit, overspeed guard, planner    *)
(* profile, goal brake, checkpoint pre-stop and post-shot guard.  Weights  *)
(* are the nodes' defaults in hundredths.                                  *)
(***************************************************************************)
EXTENDS Integers

CONSTANT NoLimit

VARIABLES
    in,     \* what the tick sees
    out     \* the command: axis and weight

Straight == 90      Turn == 40          Crawl == 20         PivotCrawl == 10
ApfSlow == 12       Oscillation == 18   SidePass == 22      OverspeedSlow == 10
Reverse == 38       DangerReverse == 50 GoalBrake == 10     Resume == 12
ShotResume == 35    LeastShotResume == 5

Inputs ==
    [place : {"inside", "target", "brake", "far"}, \* at the goal, at a target by the goal, in the
                                            \* brake distance, beyond
     yaw   : {"ahead", "bend", "corner", "behind"},     \* < 30, < 75, < 90, > 90 degrees
     slow  : BOOLEAN,       \* apf slow_turn (or a STOP pivot, which makes the axis STOP)
     pivot : BOOLEAN,       \* one of the STOP pivots
     hold  : BOOLEAN,       \* oscillation guard active
     side  : BOOLEAN,       \* side pass, front not blocked
     limit : {NoLimit, 8, 32},              \* fresh limit of the potential field
     danger : BOOLEAN,      \* mode danger, or front blocked and very close
     speed : {"slow", "fast"},
     phase : {"none", "cruise", "curve", "stop"},       \* nearest point of the profile
     pre   : {"off", "hold", "after"},      \* checkpoint pre-stop
     shot  : BOOLEAN]       \* post-shot guard

Cmd(ws, w)  == [ws |-> ws, w |-> w]
Stop        == Cmd("STOP", 100)
Least(a, b) == IF a < b THEN a ELSE b
Cap(c, most) == IF c.ws = "W" THEN Cmd("W", Least(c.w, most)) ELSE c

\* calculate_speed (a straight course: the weight at no error)
Speed(i) ==
    IF i.place \in {"inside", "target"} THEN Stop
    ELSE Cmd("W", [ahead |-> Straight, bend |-> Turn, corner |-> Crawl, behind |-> PivotCrawl][i.yaw])

\* timer_cb: pivots, slow turn, oscillation guard, side pass, safety limit.
Pivoted(i, c)   == IF i.pivot THEN Stop ELSE IF i.slow THEN Cap(c, ApfSlow) ELSE c
Steadied(i, c)  == IF i.hold THEN Cap(c, Oscillation) ELSE c
SideOpened(i, c) == IF i.side /\ c.ws = "W" /\ c.w < SidePass THEN Cmd("W", SidePass) ELSE c
SafetyLimited(i, c) == IF i.limit # NoLimit THEN Cap(c, i.limit) ELSE c
NominalSideLast(i) == SideOpened(i, SafetyLimited(i, Steadied(i, Pivoted(i, Speed(i)))))
Nominal(i) == SafetyLimited(i, SideOpened(i, Steadied(i, Pivoted(i, Speed(i)))))

\* apply_turn_overspeed_guard
Overspeed(i, c) ==
    IF i.danger /\ i.speed = "fast" THEN Cmd("S", DangerReverse)
    ELSE IF i.yaw \in {"corner", "behind"} /\ i.speed = "fast" THEN Cmd("S", Reverse)
    ELSE IF i.yaw = "bend" /\ i.speed = "fast" THEN Stop
    ELSE IF i.yaw # "ahead" THEN Cap(c, OverspeedSlow) ELSE c

\* apply_planner_speed_profile: the profile's point recommends 0 at the stop, 20 in a curve.
Suggested == [cruise |-> 100, curve |-> 20, stop |-> 0]
Profiled(i, c) ==
    IF i.phase = "none" THEN c
    ELSE IF i.phase = "stop" /\ i.place = "inside" THEN Stop
    ELSE IF i.phase = "stop" /\ c.ws = "W" /\ c.w > Resume THEN Cmd("W", Resume)
    ELSE Cap(c, Suggested[i.phase])

\* apply_goal_approach_brake
GoalBraked(i, c) == IF i.place = "brake" THEN Cap(c, GoalBrake) ELSE c

\* apply_checkpoint_pre_stop
PreStopped(i, c) ==
    IF i.place = "inside" \/ i.pre = "off" THEN c
    ELSE IF i.pre = "hold" THEN Stop ELSE Cap(c, Resume)

\* apply_post_fire_reverse_inhibit: a brake becomes the command from before the brakes.
AfterShot(i, c, nominal) ==
    IF ~(i.shot /\ c.ws = "S") THEN c
    ELSE IF nominal.ws # "W" THEN nominal
    ELSE Cmd("W", LET w == Least(nominal.w, ShotResume)
                  IN  IF w < LeastShotResume THEN LeastShotResume ELSE w)

Braked(i) == PreStopped(i, GoalBraked(i, Profiled(i, Overspeed(i, Nominal(i)))))

Init == in \in Inputs /\ out = Cmd("none", 0)

Tick ==
    /\ out.ws = "none"
    /\ out' = AfterShot(in, Braked(in), Nominal(in))
    /\ UNCHANGED in

Spec == Init /\ [][Tick]_<<in, out>>

-----------------------------------------------------------------------------
Forward == out.ws = "W"

\* The overspeed guard answers with a reverse brake.
Overspeeds(i) == i.speed = "fast" /\ (i.danger \/ i.yaw \in {"corner", "behind"})

\* No later layer, the guard after a shot included, takes W over the safety limit, and at the
\* goal or its target W is never given.  The brake on the way to the goal, "final" to its
\* docstring (1715), caps W but in one case: after a shot, where the overspeed guard would
\* reverse, the layer behind the brake drives on at up to its own weight.
SpeedIsCapped ==
    /\ Forward /\ in.limit # NoLimit => out.w <= in.limit
    /\ Forward => in.place \notin {"inside", "target"}
    /\ Forward /\ in.place = "brake" /\ out.w > GoalBrake =>
           in.shot /\ Overspeeds(in) /\ out.w <= ShotResume
=============================================================================
