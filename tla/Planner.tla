------------------------------ MODULE Planner ------------------------------
(***************************************************************************)
(* The goal latch and the asynchronous planning of                         *)
(* path_planning/map_astar_planner_node.py.                                *)
(*                                                                         *)
(* Two threads share the node's fields.  The executor's thread runs the    *)
(* callbacks that set goals and the timer that starts a plan; a worker     *)
(* thread searches with the goal it was started with and commits what it   *)
(* finds.  The worker holds _planning_lock when it commits, but no         *)
(* callback does, so a callback may run between any two of its steps.      *)
(* Positions are points of a small map; what the grid search finds, and    *)
(* when a path counts as blocked, is left open.                            *)
(***************************************************************************)
EXTENDS Integers

CONSTANTS
    Missions,       \* points of /tank/mission/goal_pose
    Detours,        \* points of /tank/mission/reposition_goal
    Externals,      \* points the simulator posts on /tank/goal/pose
    Home,           \* the return point of the mission abort
    LegacyGoal,     \* the map-wide destination of routes.yaml
    RouteGoal,      \* ... and the destination of the configured route
    ClosePairs,     \* pairs of points not more than 10 m apart
    None,
    AcceptExternal, \* accept_external_goal_updates
    UseWaypoints,   \* use_route_waypoints
    Dynamic,        \* enable_dynamic_replan
    Periodic,       \* enable_periodic_replan
    UseGt           \* use_gt_obstacles

Points == Missions \cup Detours \cup Externals \cup {Home, RouteGoal}

ASSUME PlannerAssumption ==
    /\ None \notin Points
    /\ LegacyGoal \notin Detours \cup {Home}        \* only the map's own destination is rerouted
    /\ Home \notin Detours
    /\ ClosePairs \subseteq SUBSET Points
    /\ {AcceptExternal, UseWaypoints, Dynamic, Periodic, UseGt} \subseteq BOOLEAN

VARIABLES
    goal,           \* self.goal_pos
    temp,           \* self.temporary_direct_goal_active
    returnActive,   \* self.mission_return_active
    route,          \* self.route: where it leads and whether through waypoints
    pending,        \* self.plan_request_pending
    planning,       \* self._is_planning
    job,            \* the worker: its step, the goal and mode it was started with
    pos,            \* self.current_pos
    heading,        \* the path and lookahead the drive stack heard last
    echo,           \* this node's own messages on /tank/goal/pose, not yet heard
    asked,          \* history: the request that was accepted last, and whose it was
    crossed,        \* history: a callback emptied the route of a plan under way
    stale           \* history: ... and that plan was committed all the same

latch == <<goal, temp, returnActive, asked>>
plan  == <<route, pending, crossed, stale>>
vars  == <<latch, plan, planning, job, pos, heading, echo>>

Road      == "road"                                 \* at none of the points
Places    == Points \cup {Road}
NoRoute   == [to |-> None, via |-> FALSE]
RouteTo(p, v) == [to |-> p, via |-> v]
Routes    == {NoRoute} \cup {RouteTo(p, v) : p \in Points, v \in BOOLEAN}
Idle      == [step |-> "idle", to |-> None, direct |-> FALSE, found |-> NoRoute]
Steps     == {"search", "store", "settle", "announce", "leave"}
Jobs      ==
    {Idle} \cup [step : Steps, to : Points, direct : BOOLEAN, found : Routes]
Requests  == [to : Points \cup {None}, by : {"start", "goal", "detour", "abort"}]
Ask(p, b) == [to |-> p, by |-> b]

Init ==
    /\ goal \in {None, RouteGoal}
    /\ temp = FALSE /\ returnActive = FALSE
    /\ route = NoRoute /\ pending = TRUE
    /\ planning = FALSE /\ job = Idle
    /\ pos = None                                   \* no pose received yet
    /\ heading = NoRoute /\ echo = {}
    /\ asked = Ask(goal, "start") /\ crossed = FALSE /\ stale = FALSE

Located == pos # None

\* The worker has still to commit what it finds.
UnderWay == planning /\ job.step \in {"search", "store", "settle"}

Close(p, q) == p = q \/ {p, q} \in ClosePairs

\* _active_goal_tolerance_m: 10 m, or 3 m for a gun-angle detour.
AtGoal == IF temp THEN pos = goal ELSE Close(pos, goal)

-----------------------------------------------------------------------------
(* The callbacks that set a goal.                                          *)

\* _maybe_apply_route_destination_goal
Routed(p) == IF p = LegacyGoal THEN RouteGoal ELSE p

Empty == route' = NoRoute /\ crossed' = UnderWay /\ stale' = FALSE

\* (mutant) the request of a new goal is left to the blocked-path check.
SetGoalNoRequest(p, force) ==
    IF force \/ goal = None \/ ~Close(Routed(p), goal)
    THEN goal' = Routed(p) /\ Empty /\ UNCHANGED pending
    ELSE UNCHANGED <<goal, plan>>

\* _set_goal: only a goal that differs meaningfully empties the route.
SetGoal(p, force) ==
    IF force \/ goal = None \/ ~Close(Routed(p), goal)
    THEN goal' = Routed(p) /\ Empty /\ pending' = TRUE
    ELSE UNCHANGED <<goal, plan>>

Others == UNCHANGED <<planning, job, pos, heading>>

\* Nobody but the abort sets a goal after the return is latched.
GoalPose(p) ==
    /\ AcceptExternal /\ ~returnActive
    /\ p \in Externals \cup echo /\ echo' \in {echo, echo \ {p}}
    /\ temp' = FALSE /\ SetGoal(p, FALSE) /\ asked' = Ask(p, "goal")
    /\ UNCHANGED returnActive /\ Others

MissionGoal(p) ==
    /\ p \in Missions /\ ~returnActive
    /\ temp' = FALSE /\ SetGoal(p, FALSE) /\ asked' = Ask(p, "goal")
    /\ UNCHANGED <<returnActive, echo>> /\ Others

\* (mutant) a detour close to the present goal is taken for a duplicate.
RepositionGoalUnforced(p) ==
    /\ p \in Detours /\ ~returnActive
    /\ temp' = TRUE /\ SetGoal(p, FALSE) /\ asked' = Ask(p, "detour")
    /\ UNCHANGED <<returnActive, echo>> /\ Others

RepositionGoal(p) ==
    /\ p \in Detours /\ ~returnActive
    /\ temp' = TRUE /\ SetGoal(p, TRUE) /\ asked' = Ask(p, "detour")
    /\ UNCHANGED <<returnActive, echo>> /\ Others

\* A heartbeat: only the first one forces the goal.
MissionAbort ==
    /\ returnActive' = TRUE /\ temp' = FALSE
    /\ SetGoal(Home, ~returnActive) /\ asked' = Ask(Home, "abort")
    /\ UNCHANGED echo /\ Others

-----------------------------------------------------------------------------
(* The other callbacks that empty the route.                               *)

\* player_pose_cb: a jump of more than 10 m is a restart of the simulator.
Drive(p) ==
    /\ pos' = p
    /\ UNCHANGED <<latch, plan, planning, job, heading, echo>>

Teleport(p) ==
    /\ Located
    /\ pos' = p /\ Empty /\ pending' = TRUE
    /\ UNCHANGED <<latch, planning, job, heading, echo>>

\* obstacles_cb: another ground-truth map.
ObstaclesChanged ==
    /\ UseGt
    /\ Empty /\ pending' = TRUE
    /\ UNCHANGED <<latch, planning, job, pos, heading, echo>>

-----------------------------------------------------------------------------
(* timer_cb.                                                               *)

\* _request_plan_async: the worker gets the goal and the mode of this moment.
Ready == ~planning /\ Located /\ goal # None /\ ~AtGoal

StartWorker ==
    /\ planning' = TRUE
    /\ job' = [step |-> "search", to |-> goal,
               direct |-> temp \/ returnActive, found |-> NoRoute]
    /\ UNCHANGED <<latch, plan, pos, heading, echo>>

\* A plan was requested, or the last one failed plan_retry_period_sec ago.
PlanRequested == Ready /\ route = NoRoute /\ pending /\ StartWorker
\* The path is blocked, or (periodic) old.
Replan == Ready /\ route # NoRoute /\ (Dynamic \/ Periodic) /\ StartWorker

\* publish_path and publish_lookahead: nothing is sent without a route.
PublishRoute ==
    /\ route # NoRoute
    /\ heading' = IF AtGoal THEN RouteTo(goal, FALSE) ELSE route
    /\ UNCHANGED <<latch, plan, planning, job, pos, echo>>

\* The 2 Hz publish_goal: the planner is the goal source of the stack, and it is
\* subscribed to its own topic.
PublishGoal ==
    /\ goal # None
    /\ echo' = echo \cup {goal}
    /\ UNCHANGED <<latch, plan, planning, job, pos, heading>>

-----------------------------------------------------------------------------
(* _plan_worker, in its own thread.                                        *)

At(step) == planning /\ job.step = step
Goto(step) == job' = [job EXCEPT !.step = step]

\* A* through the waypoints unless told to go straight; straight when that fails.
SearchFinds ==
    /\ At("search")
    /\ \E v \in BOOLEAN :
         /\ v => UseWaypoints /\ ~job.direct
         /\ job' = [job EXCEPT !.step = "store", !.found = RouteTo(job.to, v)]
    /\ UNCHANGED <<latch, plan, planning, pos, heading, echo>>

\* No path: the request stays, and so does the route of a failed replan.
SearchFails ==
    /\ At("search") /\ Goto("leave")
    /\ crossed' = FALSE
    /\ UNCHANGED <<latch, route, pending, stale, planning, pos, heading, echo>>

Store ==
    /\ At("store") /\ Goto("settle")
    /\ route' = job.found
    /\ UNCHANGED <<latch, pending, crossed, stale, planning, pos, heading, echo>>

\* (mutant) the flag is cleared with the request, before the worker has ended.
SettleAndFree ==
    /\ At("settle") /\ Goto("announce")
    /\ pending' = FALSE /\ planning' = FALSE /\ stale' = crossed /\ crossed' = FALSE
    /\ UNCHANGED <<latch, route, pos, heading, echo>>

Settle ==
    /\ At("settle") /\ Goto("announce")
    /\ pending' = FALSE /\ stale' = crossed /\ crossed' = FALSE
    /\ UNCHANGED <<latch, route, planning, pos, heading, echo>>

\* publish_path(force=True) sends what self.route holds by now.
Announce ==
    /\ At("announce") /\ Goto("leave")
    /\ heading' = IF route # NoRoute THEN route ELSE heading
    /\ UNCHANGED <<latch, plan, planning, pos, echo>>

Leave ==
    /\ At("leave")
    /\ planning' = FALSE /\ job' = Idle
    /\ UNCHANGED <<latch, plan, pos, heading, echo>>

Worker == SearchFinds \/ SearchFails \/ Store \/ Settle \/ Announce \/ Leave

Next ==
    \/ \E p \in Points : GoalPose(p) \/ MissionGoal(p) \/ RepositionGoal(p)
    \/ MissionAbort
    \/ \E p \in Places : Drive(p) \/ Teleport(p)
    \/ ObstaclesChanged
    \/ PlanRequested \/ Replan \/ PublishRoute \/ PublishGoal
    \/ Worker

Spec == Init /\ [][Next]_vars

\* The timer runs, the worker thread runs, and a search that is tried again and
\* again finds a path at last.  A periodic refresh comes round; a blocked path
\* need not.
Fairness ==
    /\ WF_vars(PlanRequested) /\ WF_vars(PublishRoute)
    /\ WF_vars(Worker) /\ SF_vars(SearchFinds)
    /\ WF_vars(Periodic /\ Replan)

FairSpec == Spec /\ Fairness

-----------------------------------------------------------------------------
(* Properties.                                                             *)

\* Type invariant.
TypeOK ==
    /\ goal \in Points \cup {None}
    /\ temp \in BOOLEAN /\ returnActive \in BOOLEAN
    /\ route \in Routes /\ pending \in BOOLEAN
    /\ planning \in BOOLEAN /\ job \in Jobs
    /\ pos \in Places \cup {None} /\ heading \in Routes /\ echo \subseteq Points
    /\ asked \in Requests /\ crossed \in BOOLEAN /\ stale \in BOOLEAN

\* The emergency return owns the goal until the process ends: whatever checkpoint,
\* detour, simulator goal or echo of an own goal is still on its way.
ReturnOwnsGoal == returnActive => goal = Home /\ asked.by = "abort"

\* The tolerance and the direct mode are those of the last request that was accepted,
\* and a detour is driven to exactly.
ModeIsAsked == (temp <=> asked.by = "detour") /\ (temp => goal = asked.to)

\* Any other goal is the point that was asked for, or the earlier one within 10 m of
\* it that _set_goal keeps.
GoalIsNearAsked ==
    /\ goal = None <=> asked.to = None
    /\ goal # None => Close(Routed(asked.to), goal)

\* Goal, tolerance and mode belong to the same request, the last one accepted.  The
\* code keeps no more than this: a checkpoint asked for within 10 m of a detour keeps the
\* detour's point under the checkpoint's own tolerance of 10 m (_set_goal).
GoalIsOwned == ReturnOwnsGoal /\ ModeIsAsked /\ GoalIsNearAsked

\* There is one worker at a time, and its flag outlives nothing but it; every field
\* keeps its type.
WorkerIsFlagged == planning <=> job # Idle
OneWorker       == TypeOK /\ WorkerIsFlagged

\* A route leads to the goal, straight when the goal asks for it, and where there is
\* none a plan has been asked for ...
RouteServesGoal == route # NoRoute => route.to = goal
NeverStranded   == route = NoRoute => pending
DirectIsDirect  == (temp \/ returnActive) /\ route # NoRoute => ~route.via

\* ... unless a callback emptied the route of a plan under way.  That is the one race of
\* the two threads: nothing else, in no order, leaves an old route or loses a request, and
\* the next goal, teleport or replan ends what the race left (_plan_worker, _set_goal,
\* player_pose_cb, obstacles_cb).
RoutesServe ==
    ~crossed /\ ~stale => RouteServesGoal /\ NeverStranded /\ DirectIsDirect

\* What mission_abort_cb says of the heartbeat: "a repeated abort heartbeat should
\* recover if a stale goal/race replaced the route".  A heartbeat after the first one
\* changes nothing, so the steps in which it comes are the stuttering ones.
ReturnRecovers ==
    returnActive /\ route.to \notin {None, Home} ~> route.to \in {None, Home} \/ AtGoal
=============================================================================
