------------------------------ MODULE RouteLegs ------------------------------
(***************************************************************************)
(* Which points map_astar_planner_node.py leads a route through: the       *)
(* checkpoints of routes.yaml that are still ahead, cut at the goal of the *)
(* moment, and what team_path_planning.py leaves of them.  The progress    *)
(* along the checkpoints belongs to the goal and is written by the         *)
(* planning worker while callbacks may reset it.  Points are metres of the *)
(* map, y north.                                                           *)
(***************************************************************************)
EXTENDS Integers, Sequences

CONSTANTS
    Waypoints,      \* the checkpoints of the configured route
    Places,         \* where the tank can be when a plan starts
    Missions,       \* goals of /tank/mission/goal_pose
    Detours,        \* goals of /tank/mission/reposition_goal
    Home,           \* the goal of the mission abort
    Reached,        \* route_checkpoint_reached_radius
    Passed,         \* route_checkpoint_passed_z_margin
    PassedTol       \* WAYPOINT_PASSED_TOL

NoPoint == <<-1, -1>>

VARIABLES
    pos,            \* current_pos
    goal, temp, ret,\* goal_pos, temporary_direct_goal_active, mission_return_active
    index,          \* route_checkpoint_index
    route,          \* the points the route is led through, on from the tank
    job,            \* the worker: what it was started with
    plan,           \* history: the ends, the checkpoints and the returns of the last route
    behind          \* history: checkpoints taken as passed since the last reset

legsVars == <<pos, goal, temp, ret, index, route, job, plan, behind>>

NoJob  == [on |-> FALSE, start |-> NoPoint, goal |-> NoPoint, direct |-> FALSE]
NoPlan == [from |-> NoPoint, to |-> NoPoint, end |-> NoPoint, led |-> {}, back |-> {}]

LegsInit ==
    /\ pos \in Places /\ goal = NoPoint /\ temp = FALSE /\ ret = FALSE
    /\ index = 0 /\ route = {} /\ job = NoJob /\ plan = NoPlan /\ behind = {}

Abs(n) == IF n < 0 THEN -n ELSE n
Within(p, q, d) == (p[1] - q[1]) * (p[1] - q[1]) + (p[2] - q[2]) * (p[2] - q[2]) <= d * d

\* _set_goal: a goal that differs meaningfully starts the checkpoints over, but for a detour.
SetGoal(g, preserve, force) ==
    IF force \/ goal = NoPoint \/ ~Within(g, goal, 10)
    THEN /\ goal' = g /\ route' = {}
         /\ index' = IF preserve THEN index ELSE 0
         /\ behind' = IF preserve THEN behind ELSE {}
    ELSE UNCHANGED <<goal, route, index, behind>>

MissionGoal == \E g \in Missions :
    /\ ~ret /\ temp' = FALSE /\ SetGoal(g, FALSE, FALSE)
    /\ UNCHANGED <<pos, ret, job, plan>>
Detour == \E g \in Detours :
    /\ ~ret /\ temp' = TRUE /\ SetGoal(g, TRUE, TRUE)
    /\ UNCHANGED <<pos, ret, job, plan>>
Abort ==
    /\ ret' = TRUE /\ temp' = FALSE /\ SetGoal(Home, FALSE, ~ret)
    /\ UNCHANGED <<pos, job, plan>>

\* player_pose_cb: the tank has driven on, or the simulator was restarted.
DriveTo == \E p \in Places : pos' = p /\ UNCHANGED <<goal, temp, ret, index, route, job, plan, behind>>
Teleport == \E p \in Places :
    /\ ~Within(p, pos, 10) /\ pos' = p
    /\ route' = {} /\ index' = 0 /\ behind' = {}
    /\ UNCHANGED <<goal, temp, ret, job, plan>>

\* timer_cb and _request_plan_async: a first plan, or a replan of the route.
AtGoal == Within(pos, goal, IF temp THEN 3 ELSE 10)
Request ==
    /\ ~job.on /\ goal # NoPoint /\ ~AtGoal
    /\ job' = [on |-> TRUE, start |-> pos, goal |-> goal, direct |-> temp \/ ret]
    /\ UNCHANGED <<pos, goal, temp, ret, index, route, plan, behind>>

\* _remaining_route_waypoints: on from the progress so far, past what is reached or south of the tank.
Ruled(start, i) == Within(start, Waypoints[i], Reached) \/ start[2] >= Waypoints[i][2] + Passed
\* (mutant) the progress is found anew from the position.
ProgressAnew(start) ==
    CHOOSE n \in 0 .. Len(Waypoints) :
        /\ \A i \in 1 .. n : Ruled(start, i)
        /\ n < Len(Waypoints) => ~Ruled(start, n + 1)
Progress(start) ==
    CHOOSE n \in index .. Len(Waypoints) :
        /\ \A i \in index + 1 .. n : Ruled(start, i)
        /\ n < Len(Waypoints) => ~Ruled(start, n + 1)

\* _clip_route_waypoints_to_active_goal: up to the first checkpoint at the goal, or the last
\* one before the first beyond it along the longer axis of the way.
Beyond(w, from, to) ==
    LET a    == IF Abs(to[2] - from[2]) >= Abs(to[1] - from[1]) THEN 2 ELSE 1
        sign == IF to[a] >= from[a] THEN 1 ELSE -1
    IN  (w[a] - to[a]) * sign > Passed
Clipped(pts, from, to) ==
    LET ends == {n \in 0 .. Len(pts) :
                    \/ n = Len(pts)
                    \/ n > 0 /\ Within(pts[n], to, Reached)
                    \/ Beyond(pts[n + 1], from, to)}
    IN  SubSeq(pts, 1, CHOOSE n \in ends : \A k \in ends : n <= k)

\* The goal is the last point unless the last checkpoint is there already.
Through(pts, to) == IF pts = <<>> \/ ~Within(pts[Len(pts)], to, Reached) THEN Append(pts, to) ELSE pts

\* plan_path_through_waypoints: without the points south of the tank, but with the last one.
Ahead(pts, from) == {i \in DOMAIN pts : i = Len(pts) \/ pts[i][2] >= from[2] - PassedTol}

\* _plan_worker: a leg that cannot be found is left out; without any the route goes straight.
Plan(pts, legs, next) ==
    /\ \E found \in SUBSET legs :
         LET led == {pts[i] : i \in found \ {Len(pts)}}
         IN  IF found # {}
             THEN /\ route' = {pts[i] : i \in found}
                  /\ plan' = [from |-> job.start, to |-> job.goal, led |-> led, back |-> led \cap behind,
                              end |-> IF Len(pts) \in found THEN pts[Len(pts)] ELSE NoPoint]
             ELSE \/ route' = {job.goal} /\ plan' = NoPlan
                  \/ UNCHANGED <<route, plan>>
    /\ behind' = behind \cup {Waypoints[i] : i \in 1 .. next}

Worker ==
    /\ job.on /\ job' = NoJob
    /\ IF job.direct THEN UNCHANGED index /\ Plan(<<job.goal>>, {1}, 0)
       ELSE LET next == Progress(job.start)
                rest == SubSeq(Waypoints, next + 1, Len(Waypoints))
                pts  == Through(Clipped(rest, job.start, job.goal), job.goal)
            IN  index' = next /\ Plan(pts, Ahead(pts, job.start), next)
    /\ UNCHANGED <<pos, goal, temp, ret>>

LegsStep == MissionGoal \/ Detour \/ Abort \/ DriveTo \/ Teleport \/ Request \/ Worker

-----------------------------------------------------------------------------
\* A route that could be found ends where following it counts as having arrived; on a way that
\* is mainly north it leads neither back nor past the goal.
RouteEndsAtGoal ==
    plan.end # NoPoint =>
        /\ Within(plan.end, plan.to, 10)
        /\ plan.to[2] - plan.from[2] >= Abs(plan.to[1] - plan.from[1]) =>
               \A w \in plan.led : plan.from[2] - PassedTol <= w[2] /\ w[2] <= plan.to[2] + Passed

\* No plan leads to a checkpoint that was behind the tank at an earlier plan for the same goal,
\* wherever an evasion or a detour has taken the tank since.
NeverLedBack == plan.back = {}

\* Both: the checkpoints serve the goal.
LegsServeGoal == RouteEndsAtGoal /\ NeverLedBack
=============================================================================
