---------------------------- MODULE ReturnChain ----------------------------
(***************************************************************************)
(* The emergency return of scenario 2, from the judgement of the advisor   *)
(* to the path the tank follows: SuddenAdvisor publishes, Planner and the  *)
(* fire mission listen.  The topics are volatile: a message may be late,   *)
(* lost, or overtaken by one of another topic, and a subscriber that is    *)
(* not up yet hears nothing.  Of the fire mission (module FireMission)     *)
(* only its abort flag and the goals it sends to the planner are kept.     *)
(***************************************************************************)
EXTENDS Planner, Sequences, TLAPS

CONSTANTS
    Hyst, MaxThreats, ExecuteReturn     \* of SuddenAdvisor

ASSUME ReturnAssumption ==
    Hyst \in Nat \ {0} /\ MaxThreats \in Nat /\ ExecuteReturn \in BOOLEAN

VARIABLES
    armed, recent, committed, returning, skipped, wire, streak,     \* of SuddenAdvisor
    aborted         \* mission_abort_requested of the fire mission

Advisor == INSTANCE SuddenAdvisor

advisorOnly == <<armed, recent, committed, returning, skipped, streak>>
plannerOnly == <<goal, temp, returnActive, route, pending, planning, job, heading, echo,
                 asked, crossed, stale>>
chainVars   == <<advisorOnly, plannerOnly, pos, wire, aborted>>

ChainInit == Advisor!Init /\ Init /\ aborted = FALSE

-----------------------------------------------------------------------------

AdvisorTick == Advisor!Tick /\ UNCHANGED <<plannerOnly, aborted>>

Sent(m)  == m \in wire /\ wire' = wire \ {m}
Deaf     == UNCHANGED <<advisorOnly, aborted>>

\* A message gets lost, or finds a listener that ignores it.
Lose(m) ==
    /\ Sent(m) /\ UNCHANGED <<advisorOnly, plannerOnly, pos, aborted>>

HearGoal         == Sent("goal") /\ MissionGoal(Home) /\ Deaf
HearPlannerAbort == Sent("planner_abort") /\ MissionAbort /\ Deaf
HearTurretAbort  ==
    /\ Sent("turret_abort") /\ aborted' = TRUE
    /\ UNCHANGED <<advisorOnly, plannerOnly, pos>>

\* The fire mission sends checkpoints and detours until it is aborted, then home.
TurretGoal(p) ==
    /\ aborted => p = Home
    /\ MissionGoal(p) \/ RepositionGoal(p)
    /\ Deaf /\ UNCHANGED wire

\* The tank starts at home.
DriveOn(p) ==
    /\ pos = None => p = Home
    /\ Drive(p) /\ Deaf /\ UNCHANGED wire

PlanStep ==
    /\ PlanRequested \/ Replan \/ PublishRoute \/ Worker
    /\ Deaf /\ UNCHANGED wire

ChainNext ==
    \/ AdvisorTick
    \/ \E m \in Advisor!Heartbeat : Lose(m)
    \/ HearGoal \/ HearPlannerAbort \/ HearTurretAbort
    \/ \E p \in Points : TurretGoal(p)
    \/ \E p \in Places : DriveOn(p)
    \/ PlanStep

\* The timers run, a message that is repeated for ever is heard at last, and so is
\* a search that is repeated for ever.
ChainFairness ==
    /\ WF_chainVars(AdvisorTick)
    /\ SF_chainVars(HearPlannerAbort) /\ SF_chainVars(HearTurretAbort)
    /\ WF_chainVars(PlanRequested /\ PlanStep)
    /\ WF_chainVars(PublishRoute /\ PlanStep)
    /\ WF_chainVars(Worker /\ PlanStep)
    /\ SF_chainVars(SearchFinds /\ PlanStep)

ChainSpec == ChainInit /\ [][ChainNext]_chainVars /\ ChainFairness

-----------------------------------------------------------------------------
(* Properties.                                                             *)

\* A return begins after Hyst ticks in a row, all of them after the departure, that
\* judged RETURN: neither what was seen at the spawn point nor a single frame counts.
ReturnIsJudged == [][returning' /\ ~returning => armed' /\ streak' = Hyst]_chainVars

\* Detections visible at the spawn point never end the mission there: neither
\* listener is on its way home before the tank has departed.
SpawnIsSafe == returnActive \/ aborted => armed

\* Both: a mission is given up on what was seen after the departure alone.  (With the
\* types of the advisor's fields.)
ReturnDeserved == ReturnIsJudged /\ [](SpawnIsSafe /\ Advisor!TypeOK)

\* Both listeners end in their terminal mode, whatever is lost on the way.
ReturnIsHeard == returning ~> [](returnActive /\ aborted)

\* And the drive stack is given a path home, whatever goals the fire mission sent, unless
\* the abort itself fell into a plan under way whose route was committed after it.
AbortCrossed   == returnActive /\ stale
ReturnIsDriven == returning ~> (heading.to = Home \/ (goal = Home /\ AtGoal) \/ AbortCrossed)

\* Whatever is lost and whatever else is sent, a return that has begun gets through.
ReturnArrives == ReturnIsHeard /\ ReturnIsDriven

-----------------------------------------------------------------------------
(* The planner by itself, for any sets of goals, any distances between them and any        *)
(* setting of its parameters, a callback between any two steps of the worker.  ServeInv     *)
(* strengthens RoutesServe with what the worker carries: as long as no callback has emptied *)
(* the route of its plan, it has the goal of the node and the node's mode.                  *)

ServeInv ==
    /\ RoutesServe
    /\ crossed => UnderWay
    /\ crossed /\ job.step \in {"search", "store"} => route = NoRoute /\ pending
    /\ ~crossed /\ UnderWay => job.to = goal /\ (temp \/ returnActive => job.direct)
    /\ job.step \in {"store", "settle"} =>
         /\ job.found # NoRoute /\ job.found.to = job.to
         /\ job.direct => ~job.found.via
    /\ job.step = "settle" /\ ~crossed => route = job.found

-----------------------------------------------------------------------------
(* What _set_goal does with a goal, by the caller's choice of force.       *)

LEMMA RoutedIsPoint == \A p \in Points : Routed(p) \in Points
  BY DEF Routed, Points

LEMMA RouteTypes ==
  /\ NoRoute \in Routes
  /\ \A p \in Points : \A v \in BOOLEAN : RouteTo(p, v) \in Routes
  BY DEF Routes

SetGoalTyped ==
    /\ goal' \in Points \cup {None} /\ route' \in Routes /\ pending' \in BOOLEAN
    /\ crossed' \in BOOLEAN /\ stale' \in BOOLEAN

LEMMA SetGoalKeepsType ==
  ASSUME TypeOK, NEW p \in Points, NEW force, SetGoal(p, force)
  PROVE  SetGoalTyped
  <1>1. CASE goal' = Routed(p) /\ Empty /\ pending' = TRUE
    BY <1>1, RoutedIsPoint, RouteTypes DEF SetGoalTyped, Empty, UnderWay, TypeOK
  <1>2. CASE UNCHANGED <<goal, plan>>
    BY <1>2 DEF SetGoalTyped, TypeOK, plan
  <1> QED BY <1>1, <1>2 DEF SetGoal

\* The abort sends the node home the first time and leaves it there afterwards.
LEMMA AbortSetsHome ==
  ASSUME GoalIsOwned, SetGoal(Home, ~returnActive)
  PROVE  goal' = Home
  <1>1. Routed(Home) = Home
    BY PlannerAssumption DEF Routed
  <1>2. CASE ~returnActive
    BY <1>1, <1>2 DEF SetGoal
  <1>3. CASE returnActive
    BY <1>1, <1>3 DEF SetGoal, GoalIsOwned, ReturnOwnsGoal, Close
  <1> QED BY <1>2, <1>3

\* Whatever the distance, the goal afterwards is the point that was asked for or near it.
LEMMA SetGoalIsNear ==
  ASSUME TypeOK, NEW p \in Points, NEW force, SetGoal(p, force)
  PROVE  goal' # None /\ Close(Routed(p), goal')
  <1>1. CASE force \/ goal = None \/ ~Close(Routed(p), goal)
    BY <1>1, RoutedIsPoint, PlannerAssumption DEF SetGoal, Close
  <1>2. CASE ~(force \/ goal = None \/ ~Close(Routed(p), goal))
    BY <1>2 DEF SetGoal
  <1> QED BY <1>1, <1>2

\* A forced goal is taken as it is, unless it is the map's own destination.
LEMMA DetourIsTaken ==
  ASSUME NEW p \in Detours, SetGoal(p, TRUE)
  PROVE  goal' = p
  BY PlannerAssumption DEF SetGoal, Routed

-----------------------------------------------------------------------------
(* Type correctness.                                                       *)

LEMMA CallbackKeepsType ==
  ASSUME TypeOK, NEW p \in Points,
         GoalPose(p) \/ MissionGoal(p) \/ RepositionGoal(p) \/ MissionAbort
  PROVE  TypeOK'
  <1>1. Home \in Points
    BY DEF Points
  <1>2. SetGoalTyped
    BY <1>1, SetGoalKeepsType DEF GoalPose, MissionGoal, RepositionGoal,
         MissionAbort
  <1>3. temp' \in BOOLEAN /\ returnActive' \in BOOLEAN
    BY DEF TypeOK, GoalPose, MissionGoal, RepositionGoal, MissionAbort
  <1>4. echo' \subseteq Points /\ asked' \in Requests
    <2>1. \/ asked' \in {Ask(p, "goal"), Ask(p, "detour")} /\ echo' \subseteq echo
          \/ asked' = Ask(Home, "abort") /\ echo' = echo
      BY DEF GoalPose, MissionGoal, RepositionGoal, MissionAbort
    <2>2. \A q \in Points : \A b \in {"goal", "detour", "abort"} : Ask(q, b) \in Requests
      BY DEF Ask, Requests
    <2> QED BY <1>1, <2>1, <2>2 DEF TypeOK
  <1>5. UNCHANGED <<planning, job, pos, heading>>
    BY DEF GoalPose, MissionGoal, RepositionGoal, MissionAbort, Others
  <1> QED BY <1>2, <1>3, <1>4, <1>5 DEF TypeOK, SetGoalTyped

LEMMA StartKeepsType ==
  ASSUME TypeOK, Ready, StartWorker
  PROVE  TypeOK'
  <1>1. goal \in Points /\ (temp \/ returnActive) \in BOOLEAN
    BY DEF TypeOK, Ready
  <1>2. job' \in Jobs
    BY <1>1, RouteTypes DEF StartWorker, Jobs, Steps
  <1>3. UNCHANGED <<goal, temp, returnActive, asked, route, pending, crossed, stale,
                   pos, heading, echo>> /\ planning' = TRUE
    BY DEF StartWorker, latch, plan
  <1> QED BY <1>2, <1>3 DEF TypeOK

LEMMA WorkerKeepsType ==
  ASSUME TypeOK, Worker
  PROVE  TypeOK'
  <1>1. UNCHANGED <<goal, temp, returnActive, asked, pos, echo>>
    BY DEF Worker, SearchFinds, SearchFails, Store, Settle, Announce,
         Leave, latch
  <1>2. CASE job \in [step : Steps, to : Points, direct : BOOLEAN, found : Routes]
    <2>1. CASE SearchFinds
      <3>1. PICK v \in BOOLEAN : job' = [job EXCEPT !.step = "store", !.found = RouteTo(job.to, v)]
        BY <2>1 DEF SearchFinds
      <3>2. RouteTo(job.to, v) \in Routes
        BY <1>2, RouteTypes
      <3>3. job' \in Jobs
        BY <1>2, <3>1, <3>2 DEF Jobs, Steps
      <3> QED BY <1>1, <2>1, <3>3 DEF SearchFinds, TypeOK, plan
    <2>2. CASE SearchFails \/ Store \/ Settle \/ Announce
      <3>1. job' \in Jobs
        BY <1>2, <2>2 DEF SearchFails, Store, Settle, Announce, Goto,
             Jobs, Steps
      <3>2. route' \in Routes /\ heading' \in Routes
        BY <1>2, <2>2 DEF SearchFails, Store, Settle, Announce, TypeOK,
             plan
      <3>3. /\ pending' \in BOOLEAN /\ planning' \in BOOLEAN
            /\ crossed' \in BOOLEAN /\ stale' \in BOOLEAN
        BY <2>2 DEF SearchFails, Store, Settle, Announce, TypeOK, plan
      <3> QED BY <1>1, <3>1, <3>2, <3>3 DEF TypeOK
    <2>3. CASE Leave
      BY <1>1, <2>3 DEF Leave, Jobs, TypeOK, plan
    <2> QED BY <2>1, <2>2, <2>3 DEF Worker
  <1>3. CASE job = Idle
    BY <1>3 DEF Worker, SearchFinds, SearchFails, Store, Settle,
         Announce, Leave, At, Idle
  <1> QED BY <1>2, <1>3 DEF TypeOK, Jobs

LEMMA TypeStep == TypeOK /\ [Next]_vars => TypeOK'
  <1> SUFFICES ASSUME TypeOK, [Next]_vars PROVE TypeOK'
    OBVIOUS
  <1>1. ASSUME NEW p \in Points, GoalPose(p) \/ MissionGoal(p) \/ RepositionGoal(p)
        PROVE  TypeOK'
    BY <1>1, CallbackKeepsType
  <1>2. CASE MissionAbort
    <2>1. Home \in Points
      BY DEF Points
    <2> QED BY <1>2, <2>1, CallbackKeepsType
  <1>3. ASSUME NEW p \in Places, Drive(p) PROVE TypeOK'
    BY <1>3 DEF Drive, latch, plan, TypeOK
  <1>4. ASSUME NEW p \in Places, Teleport(p) PROVE TypeOK'
    BY <1>4, RouteTypes DEF Teleport, Empty, UnderWay, latch, TypeOK
  <1>5. CASE ObstaclesChanged
    BY <1>5, RouteTypes DEF ObstaclesChanged, Empty, UnderWay, latch, TypeOK
  <1>6. CASE PlanRequested \/ Replan
    BY <1>6, StartKeepsType DEF PlanRequested, Replan
  <1>7. CASE PublishRoute
    <2>1. RouteTo(goal, FALSE) \in Routes
      <3>1. CASE goal = None
        BY <3>1, RouteTypes DEF RouteTo, NoRoute
      <3>2. CASE goal \in Points
        BY <3>2, RouteTypes
      <3> QED BY <3>1, <3>2 DEF TypeOK
    <2>2. heading' \in Routes
      BY <1>7, <2>1 DEF PublishRoute, TypeOK
    <2> QED BY <1>7, <2>2 DEF PublishRoute, latch, plan, TypeOK
  <1>8. CASE PublishGoal
    BY <1>8 DEF PublishGoal, latch, plan, TypeOK
  <1>9. CASE Worker
    BY <1>9, WorkerKeepsType
  <1>10. CASE UNCHANGED vars
    BY <1>10 DEF vars, latch, plan, TypeOK
  <1> QED BY <1>1, <1>2, <1>3, <1>4, <1>5, <1>6, <1>7, <1>8, <1>9, <1>10 DEF Next

\* Every invariant below holds at the start.
LEMMA PlannerStarts == Init => OneWorker /\ GoalIsOwned /\ ServeInv
  <1> SUFFICES ASSUME Init PROVE OneWorker /\ GoalIsOwned /\ ServeInv
    OBVIOUS
  <1>1. TypeOK
    BY RouteTypes DEF Init, TypeOK, Points, Jobs, Requests, Ask
  <1>2. WorkerIsFlagged
    BY DEF Init, WorkerIsFlagged
  <1>3. GoalIsOwned
    BY DEF Init, GoalIsOwned, ReturnOwnsGoal, ModeIsAsked, GoalIsNearAsked, Ask, Routed, Close
  <1>4. ServeInv
    BY DEF Init, ServeInv, RoutesServe, RouteServesGoal, NeverStranded, DirectIsDirect, UnderWay,
         Idle, NoRoute
  <1> QED BY <1>1, <1>2, <1>3, <1>4 DEF OneWorker

\* Every field of the planner keeps its type.
THEOREM PlannerTypeCorrect == Spec => []TypeOK
  <1>1. Init => TypeOK
    BY PlannerStarts DEF OneWorker
  <1> QED BY <1>1, TypeStep, PTL DEF Spec

-----------------------------------------------------------------------------
(* The goal latch.                                                         *)

LEMMA OwnerStep == TypeOK /\ GoalIsOwned /\ [Next]_vars => GoalIsOwned'
  <1> SUFFICES ASSUME TypeOK, GoalIsOwned, [Next]_vars PROVE GoalIsOwned'
    OBVIOUS
  <1> USE DEF GoalIsOwned, ReturnOwnsGoal, ModeIsAsked, GoalIsNearAsked, Ask
  <1>1. ASSUME NEW p \in Points, GoalPose(p) \/ MissionGoal(p) PROVE GoalIsOwned'
    <2>1. /\ returnActive' = returnActive /\ ~returnActive /\ temp' = FALSE
          /\ asked' = [to |-> p, by |-> "goal"] /\ SetGoal(p, FALSE)
      BY <1>1 DEF GoalPose, MissionGoal
    <2>2. goal' # None /\ Close(Routed(p), goal')
      BY <2>1, SetGoalIsNear
    <2>3. p # None
      BY PlannerAssumption
    <2> QED BY <2>1, <2>2, <2>3
  <1>2. ASSUME NEW p \in Points, RepositionGoal(p) PROVE GoalIsOwned'
    <2>1. /\ returnActive' = returnActive /\ ~returnActive /\ temp' = TRUE
          /\ asked' = [to |-> p, by |-> "detour"] /\ SetGoal(p, TRUE) /\ p \in Detours
      BY <1>2 DEF RepositionGoal
    <2>2. goal' # None /\ Close(Routed(p), goal')
      BY <2>1, SetGoalIsNear
    <2>3. p # None /\ goal' = p
      BY <2>1, PlannerAssumption, DetourIsTaken
    <2> QED BY <2>1, <2>2, <2>3
  <1>3. CASE MissionAbort
    <2>1. Home \in Points /\ Home # None
      BY PlannerAssumption DEF Points
    <2>2. /\ returnActive' /\ temp' = FALSE
          /\ asked' = [to |-> Home, by |-> "abort"] /\ SetGoal(Home, ~returnActive)
      BY <1>3 DEF MissionAbort
    <2>3. goal' = Home /\ goal' # None /\ Close(Routed(Home), goal')
      BY <2>1, <2>2, AbortSetsHome, SetGoalIsNear
    <2> QED BY <2>1, <2>2, <2>3
  <1>4. CASE UNCHANGED latch
    BY <1>4 DEF latch
  <1>5. ASSUME NEW p \in Places, Drive(p) \/ Teleport(p) PROVE UNCHANGED latch
    BY <1>5 DEF Drive, Teleport
  <1>6. ASSUME ObstaclesChanged \/ PlanRequested \/ Replan \/ PublishRoute \/ PublishGoal
        PROVE  UNCHANGED latch
    BY <1>6 DEF ObstaclesChanged, PlanRequested, Replan, StartWorker,
         PublishRoute, PublishGoal
  <1>7. ASSUME Worker PROVE UNCHANGED latch
    BY <1>7 DEF Worker, SearchFinds, SearchFails, Store, Settle,
         Announce, Leave
  <1>8. ASSUME UNCHANGED vars PROVE UNCHANGED latch
    BY <1>8 DEF vars
  <1> QED BY <1>1, <1>2, <1>3, <1>4, <1>5, <1>6, <1>7, <1>8 DEF Next

\* Goal, tolerance and direct mode belong to the last accepted request, and after the abort
\* to it alone, for any goals, any distances and any interference of the worker
\* (_set_goal and the four goal callbacks of map_astar_planner_node).
THEOREM GoalStaysOwned == Spec => []GoalIsOwned
  <1>1. Init => GoalIsOwned
    BY PlannerStarts
  <1> QED BY <1>1, OwnerStep, PlannerTypeCorrect, PTL DEF Spec

-----------------------------------------------------------------------------
(* The worker.                                                             *)

\* A worker past its start is a record of its own, never the idle one.
LEMMA SearchingJob ==
  ASSUME TypeOK, NEW step \in Steps, At(step)
  PROVE  job \in [step : Steps, to : Points, direct : BOOLEAN, found : Routes] /\ planning
  BY DEF TypeOK, Jobs, At, Idle, Steps

LEMMA WorkerStep == TypeOK /\ WorkerIsFlagged /\ [Next]_vars => WorkerIsFlagged'
  <1> SUFFICES ASSUME TypeOK, WorkerIsFlagged, [Next]_vars PROVE WorkerIsFlagged'
    OBVIOUS
  <1> USE DEF WorkerIsFlagged
  <1>1. ASSUME NEW p \in Points, GoalPose(p) \/ MissionGoal(p) \/ RepositionGoal(p)
        PROVE  UNCHANGED <<planning, job>>
    BY <1>1 DEF GoalPose, MissionGoal, RepositionGoal, Others
  <1>2. ASSUME NEW p \in Places, Drive(p) \/ Teleport(p) PROVE UNCHANGED <<planning, job>>
    BY <1>2 DEF Drive, Teleport
  <1>3. ASSUME MissionAbort \/ ObstaclesChanged \/ PublishRoute \/ PublishGoal
        PROVE  UNCHANGED <<planning, job>>
    BY <1>3 DEF MissionAbort, Others, ObstaclesChanged, PublishRoute,
         PublishGoal
  <1>4. CASE UNCHANGED <<planning, job>>
    BY <1>4
  <1>5. CASE PlanRequested \/ Replan
    BY <1>5 DEF PlanRequested, Replan, StartWorker, Idle
  <1>6. CASE SearchFinds
    <2>1. job \in [step : Steps, to : Points, direct : BOOLEAN, found : Routes] /\ planning
      BY <1>6, SearchingJob DEF SearchFinds, Steps
    <2>2. job'.step = "store" /\ planning' = planning
      BY <1>6, <2>1 DEF SearchFinds
    <2>3. job' # Idle
      BY <2>2 DEF Idle
    <2> QED BY <2>1, <2>2, <2>3
  <1>7. CASE SearchFails \/ Store \/ Settle \/ Announce
    <2>1. job \in [step : Steps, to : Points, direct : BOOLEAN, found : Routes] /\ planning
      BY <1>7, SearchingJob DEF SearchFails, Store, Settle, Announce, Steps
    <2>2. job'.step \in Steps /\ planning' = planning
      BY <1>7, <2>1 DEF SearchFails, Store, Settle, Announce, Goto,
           Steps
    <2>3. job' # Idle
      BY <2>2 DEF Idle, Steps
    <2> QED BY <2>1, <2>2, <2>3
  <1>8. CASE Leave
    BY <1>8 DEF Leave
  <1>9. ASSUME UNCHANGED vars PROVE UNCHANGED <<planning, job>>
    BY <1>9 DEF vars
  <1> QED BY <1>1, <1>2, <1>3, <1>4, <1>5, <1>6, <1>7, <1>8, <1>9 DEF Next, Worker

\* The planning flag is up exactly while the one worker runs.
THEOREM WorkerIsAlone == Spec => []OneWorker
  <1>1. Init => WorkerIsFlagged
    BY PlannerStarts DEF OneWorker
  <1>2. TypeOK /\ WorkerIsFlagged => OneWorker
    BY DEF OneWorker
  <1> QED BY <1>1, <1>2, WorkerStep, PlannerTypeCorrect, PTL DEF Spec

-----------------------------------------------------------------------------
(* The one race of callbacks and worker.                                   *)

LEMMA RouteEnds ==
  \A p, v : RouteTo(p, v).to = p /\ RouteTo(p, v).via = v /\ (p # None => RouteTo(p, v) # NoRoute)
  BY DEF RouteTo, NoRoute

\* A callback that empties the route ends what an earlier race left, and is itself one
\* exactly if a plan is under way.
LEMMA EmptyServes ==
  ASSUME ServeInv, WorkerIsFlagged, Empty, pending' = TRUE, UNCHANGED <<planning, job>>
  PROVE  ServeInv'
  <1>1. route' = NoRoute /\ crossed' = UnderWay /\ UnderWay' = UnderWay
    BY DEF Empty, UnderWay
  <1>2. RoutesServe'
    BY <1>1 DEF RoutesServe, RouteServesGoal, NeverStranded, DirectIsDirect
  <1>3. ~(~crossed' /\ UnderWay')
    BY <1>1
  <1>4. job'.step = "settle" /\ ~crossed' => FALSE \/ route' = job'.found
    <2>1. CASE planning
      BY <1>1, <2>1 DEF UnderWay
    <2>2. CASE ~planning
      BY <2>2 DEF WorkerIsFlagged, Idle
    <2> QED BY <2>1, <2>2
  <1> QED BY <1>1, <1>2, <1>3, <1>4 DEF ServeInv

\* A goal that is ignored leaves the route, and may only loosen the mode.
LEMMA SetGoalServes ==
  ASSUME ServeInv, WorkerIsFlagged, NEW p, NEW force, SetGoal(p, force), UNCHANGED <<planning, job>>,
         \/ temp' = FALSE /\ UNCHANGED returnActive
         \/ force
         \/ temp' = FALSE /\ returnActive /\ returnActive'
  PROVE  ServeInv'
  <1>1. CASE Empty /\ pending' = TRUE
    BY <1>1, EmptyServes
  <1>2. CASE UNCHANGED <<goal, plan>> /\ ~force
    <2>1. UNCHANGED <<goal, route, pending, crossed, stale, planning, job>>
          /\ (temp' \/ returnActive' => temp \/ returnActive)
      BY <1>2 DEF plan
    <2> QED BY <2>1 DEF ServeInv, RoutesServe, RouteServesGoal, NeverStranded, DirectIsDirect,
               UnderWay
  <1> QED BY <1>1, <1>2 DEF SetGoal

LEMMA ServeStep == ServeInv /\ OneWorker /\ [Next]_vars => ServeInv'
  <1> SUFFICES ASSUME ServeInv, OneWorker, [Next]_vars PROVE ServeInv'
    OBVIOUS
  <1>0. TypeOK /\ WorkerIsFlagged
    BY DEF OneWorker
  <1>1. ASSUME NEW p \in Points, GoalPose(p) \/ MissionGoal(p) PROVE ServeInv'
    <2>1. SetGoal(p, FALSE) /\ UNCHANGED <<planning, job>> /\ temp' = FALSE /\ UNCHANGED returnActive
      BY <1>1 DEF GoalPose, MissionGoal, Others
    <2> QED BY <1>0, <2>1, SetGoalServes
  <1>2. ASSUME NEW p \in Points, RepositionGoal(p) PROVE ServeInv'
    <2>1. SetGoal(p, TRUE) /\ UNCHANGED <<planning, job>>
      BY <1>2 DEF RepositionGoal, Others
    <2> QED BY <1>0, <2>1, SetGoalServes
  <1>3. CASE MissionAbort
    <2>1. /\ SetGoal(Home, ~returnActive) /\ UNCHANGED <<planning, job>>
          /\ temp' = FALSE /\ returnActive'
      BY <1>3 DEF MissionAbort, Others
    <2>2. CASE returnActive
      <3>1. SetGoal(Home, FALSE)
        BY <2>1, <2>2 DEF SetGoal
      <3> QED BY <1>0, <2>1, <2>2, <3>1, SetGoalServes
    <2>3. CASE ~returnActive
      <3>1. SetGoal(Home, TRUE)
        BY <2>1, <2>3 DEF SetGoal
      <3> QED BY <1>0, <2>1, <3>1, SetGoalServes
    <2> QED BY <2>2, <2>3
  <1>4. CASE UNCHANGED <<goal, temp, returnActive, route, pending, crossed, stale, planning, job>>
    BY <1>4 DEF ServeInv, RoutesServe, RouteServesGoal, NeverStranded, DirectIsDirect, UnderWay
  <1>5. ASSUME NEW p \in Places, Drive(p) PROVE ServeInv'
    BY <1>4, <1>5 DEF Drive, latch, plan
  <1>6. CASE PublishRoute \/ PublishGoal \/ UNCHANGED vars
    BY <1>4, <1>6 DEF PublishRoute, PublishGoal, vars, latch, plan
  <1>7. ASSUME NEW p \in Places, Teleport(p) \/ ObstaclesChanged PROVE ServeInv'
    BY <1>0, <1>7, EmptyServes DEF Teleport, ObstaclesChanged
  <1>8. CASE PlanRequested \/ Replan
    <2>1. /\ ~planning /\ planning'
          /\ UNCHANGED <<goal, temp, returnActive, route, pending, crossed, stale>>
          /\ job' = [step |-> "search", to |-> goal, direct |-> temp \/ returnActive,
                     found |-> NoRoute]
      BY <1>8 DEF PlanRequested, Replan, Ready, StartWorker, latch, plan
    <2>2. RoutesServe'
      BY <2>1 DEF ServeInv, RoutesServe, RouteServesGoal, NeverStranded, DirectIsDirect
    <2>3. ~crossed'
      BY <2>1 DEF ServeInv, UnderWay
    <2>4. job'.step = "search" /\ job'.to = goal' /\ (temp' \/ returnActive' => job'.direct)
      BY <2>1
    <2> QED BY <2>2, <2>3, <2>4 DEF ServeInv
  <1>9. CASE Worker
    <2>1. UNCHANGED <<goal, temp, returnActive>>
      BY <1>9 DEF Worker, SearchFinds, SearchFails, Store, Settle, Announce, Leave, latch
    <2>2. planning /\ job \in [step : Steps, to : Points, direct : BOOLEAN, found : Routes]
      BY <1>0, <1>9, SearchingJob DEF Worker, SearchFinds, SearchFails, Store, Settle, Announce,
         Leave, Steps
    <2>3. ASSUME UNCHANGED <<route, pending, crossed, stale>> PROVE RoutesServe'
      BY <2>1, <2>3 DEF ServeInv, RoutesServe, RouteServesGoal, NeverStranded, DirectIsDirect
    <2>4. CASE SearchFinds
      <3>1. PICK v \in BOOLEAN :
              /\ v => ~job.direct
              /\ job' = [job EXCEPT !.step = "store", !.found = RouteTo(job.to, v)]
        BY <2>4 DEF SearchFinds
      <3>2. /\ job'.step = "store" /\ job'.to = job.to /\ job'.direct = job.direct
            /\ job'.found = RouteTo(job.to, v)
        BY <2>2, <3>1
      <3>3. job.to # None
        BY <2>2, PlannerAssumption
      <3>4. UNCHANGED <<route, pending, crossed, stale, planning>> /\ job.step = "search"
        BY <2>4 DEF SearchFinds, plan, At
      <3>5. UnderWay /\ UnderWay'
        BY <2>2, <3>2, <3>4 DEF UnderWay
      <3>6. job'.found # NoRoute /\ job'.found.to = job'.to /\ (job'.direct => ~job'.found.via)
        BY <3>1, <3>2, <3>3, RouteEnds
      <3> QED BY <2>1, <2>3, <3>2, <3>4, <3>5, <3>6 DEF ServeInv
    <2>5. CASE SearchFails
      <3>1. /\ job.step = "search" /\ job'.step = "leave" /\ ~crossed'
            /\ UNCHANGED <<route, pending, stale, planning>>
        BY <2>2, <2>5 DEF SearchFails, Goto, At
      <3>2. CASE crossed
        <4>1. route = NoRoute /\ pending
          BY <3>1, <3>2 DEF ServeInv
        <4> QED BY <3>1, <4>1 DEF ServeInv, RoutesServe, RouteServesGoal, NeverStranded,
                   DirectIsDirect, UnderWay
      <3>3. CASE ~crossed
        <4>1. RoutesServe'
          BY <2>1, <3>1, <3>3 DEF ServeInv, RoutesServe, RouteServesGoal, NeverStranded,
             DirectIsDirect
        <4> QED BY <3>1, <4>1 DEF ServeInv, UnderWay
      <3> QED BY <3>2, <3>3
    <2>6. CASE Store
      <3>1. /\ job.step = "store" /\ route' = job.found /\ UNCHANGED <<pending, crossed, stale, planning>>
            /\ job'.step = "settle" /\ job'.to = job.to /\ job'.direct = job.direct
            /\ job'.found = job.found
        BY <2>2, <2>6 DEF Store, At, Goto
      <3>2. UnderWay /\ UnderWay'
        BY <2>2, <3>1 DEF UnderWay
      <3>3. job.found # NoRoute /\ job.found.to = job.to /\ (job.direct => ~job.found.via)
        BY <3>1 DEF ServeInv
      <3>4. RoutesServe'
        BY <2>1, <3>1, <3>2, <3>3 DEF ServeInv, RoutesServe, RouteServesGoal, NeverStranded,
           DirectIsDirect
      <3> QED BY <2>1, <3>1, <3>2, <3>3, <3>4 DEF ServeInv
    <2>7. CASE Settle
      <3>1. /\ job.step = "settle" /\ UNCHANGED <<route, planning>> /\ pending' = FALSE
            /\ stale' = crossed /\ crossed' = FALSE
            /\ job'.step = "announce" /\ job'.to = job.to
        BY <2>2, <2>7 DEF Settle, At, Goto
      <3>2. UnderWay /\ ~UnderWay'
        BY <2>2, <3>1 DEF UnderWay
      <3>3. CASE crossed
        BY <3>1, <3>2, <3>3 DEF ServeInv, RoutesServe
      <3>4. CASE ~crossed
        <4>1. /\ route = job.found /\ job.found # NoRoute /\ job.found.to = job.to
              /\ job.to = goal /\ (temp \/ returnActive => ~job.found.via)
          BY <3>1, <3>2, <3>4 DEF ServeInv
        <4>2. RoutesServe'
          BY <2>1, <3>1, <4>1 DEF RoutesServe, RouteServesGoal, NeverStranded, DirectIsDirect
        <4> QED BY <3>1, <3>2, <4>2 DEF ServeInv
      <3> QED BY <3>3, <3>4
    <2>8. CASE Announce \/ Leave
      <3>1. /\ job.step \in {"announce", "leave"} /\ job'.step \in {"leave", "idle"}
            /\ UNCHANGED <<route, pending, crossed, stale>>
        <4>1. CASE Announce
          BY <2>2, <4>1 DEF Announce, At, Goto, plan
        <4>2. CASE Leave
          BY <2>2, <4>2 DEF Leave, At, Idle, plan
        <4> QED BY <2>8, <4>1, <4>2
      <3>2. ~UnderWay /\ ~UnderWay'
        BY <3>1 DEF UnderWay
      <3> QED BY <2>3, <3>1, <3>2 DEF ServeInv
    <2> QED BY <1>9, <2>4, <2>5, <2>6, <2>7, <2>8 DEF Worker
  <1>10. \E p : p \in Places
    BY DEF Places
  <1> QED BY <1>1, <1>2, <1>3, <1>4, <1>5, <1>6, <1>7, <1>8, <1>9, <1>10 DEF Next

\* A route that is old, or missing without a request, was always left by a callback that
\* emptied the route of a plan under way, for any goals and parameters and a callback
\* between any two steps of the worker (_plan_worker, _set_goal, timer_cb).
THEOREM RoutesStayServing == Spec => []RoutesServe
  <1>1. ServeInv => RoutesServe
    BY DEF ServeInv
  <1>2. Init => ServeInv
    BY PlannerStarts
  <1> QED BY <1>1, <1>2, ServeStep, WorkerIsAlone, PTL DEF Spec

-----------------------------------------------------------------------------
(* ReturnDeserved, for any hysteresis and any number of threats.  The judgements that are *)
(* remembered are among those the streak has counted, and nothing is on the wire or heard *)
(* before the return has begun.                                                           *)

\* The last n remembered judgements were RETURN.
LastReturn(r, n) == \A i \in Len(r) - n + 1 .. Len(r) : r[i] = "RETURN"

JudgedInv ==
    /\ recent \in Seq(Advisor!Decisions) /\ Len(recent) <= Hyst /\ streak \in 0 .. Hyst
    /\ committed \in Advisor!Decisions
    /\ \A n \in 0 .. Len(recent) : LastReturn(recent, n) => n <= streak
    /\ ExecuteReturn /\ committed = "RETURN" => returning

SpawnInv ==
    /\ wire # {} => returning
    /\ returning => armed
    /\ SpawnIsSafe

LEMMA JudgementsAreDecisions == Advisor!Judgements \subseteq Advisor!Decisions
  BY DEF Advisor!Judgements, Advisor!Judge, Advisor!Decisions

LEMMA RememberKeepsCount ==
  ASSUME JudgedInv, NEW a \in Advisor!Decisions, NEW r, NEW k,
         r = Advisor!Remember(a), k = Advisor!Counted(a)
  PROVE  /\ r \in Seq(Advisor!Decisions) /\ Len(r) <= Hyst /\ k \in 0 .. Hyst
         /\ \A n \in 0 .. Len(r) : LastReturn(r, n) => n <= k
  <1> DEFINE s == Append(recent, a)
  <1>1. /\ s \in Seq(Advisor!Decisions) /\ Len(s) = Len(recent) + 1
        /\ s[Len(s)] = a /\ \A i \in 1 .. Len(recent) : s[i] = recent[i]
    BY DEF JudgedInv
  <1>2. Hyst \in Nat \ {0} /\ streak \in 0 .. Hyst /\ Len(recent) \in Nat /\ Len(recent) <= Hyst
    BY ReturnAssumption DEF JudgedInv
  <1>3. k \in 0 .. Hyst /\ (a = "RETURN" => k = streak + 1 \/ k = Hyst)
    BY <1>2 DEF Advisor!Counted
  <1>4. \/ r = s /\ Len(s) <= Hyst
        \/ r = Tail(s) /\ Len(s) = Hyst + 1
    BY <1>1, <1>2 DEF Advisor!Remember
  <1> HIDE DEF s
  <1>5. /\ r \in Seq(Advisor!Decisions) /\ Len(r) \in 1 .. Hyst
        /\ Len(s) - Len(r) \in {0, 1}
        /\ \A i \in 1 .. Len(r) : r[i] = s[i + (Len(s) - Len(r))]
    <2>1. CASE r = s /\ Len(s) <= Hyst
      <3>1. Len(s) - Len(r) = 0 /\ Len(r) \in 1 .. Hyst
        BY <1>1, <1>2, <2>1
      <3>2. \A i \in 1 .. Len(r) : i + 0 = i
        OBVIOUS
      <3> QED BY <1>1, <2>1, <3>1, <3>2
    <2>2. CASE r = Tail(s) /\ Len(s) = Hyst + 1
      <3>1. Len(r) = Len(s) - 1 /\ r \in Seq(Advisor!Decisions)
        BY <1>1, <1>2, <2>2
      <3>2. \A i \in 1 .. Len(r) : r[i] = s[i + 1]
        BY <1>1, <1>2, <2>2, <3>1
      <3>3. Len(s) - Len(r) = 1 /\ Len(r) \in 1 .. Hyst
        BY <1>1, <1>2, <2>2, <3>1
      <3> QED BY <3>1, <3>2, <3>3
    <2> QED BY <1>4, <2>1, <2>2
  <1>6. ASSUME NEW n \in 0 .. Len(r), LastReturn(r, n) PROVE n <= k
    <2>1. CASE n = 0
      BY <1>2, <1>3, <2>1
    <2>2. CASE n > 0
      <3>1. \A i \in Len(r) - n + 1 .. Len(r) : i \in 1 .. Len(r) /\ r[i] = "RETURN"
        BY <1>5, <1>6 DEF LastReturn
      <3>2. a = "RETURN"
        <4>1. Len(r) \in Len(r) - n + 1 .. Len(r)
          BY <1>5, <2>2
        <4>2. r[Len(r)] = s[Len(s)]
          BY <1>1, <1>2, <1>5
        <4> QED BY <1>1, <3>1, <4>1, <4>2
      <3>3. LastReturn(recent, n - 1)
        <4> SUFFICES ASSUME NEW i \in Len(recent) - (n - 1) + 1 .. Len(recent)
                     PROVE  recent[i] = "RETURN"
          BY DEF LastReturn
        <4> DEFINE d == Len(s) - Len(r)
        <4>1. d \in {0, 1} /\ Len(r) = Len(recent) + 1 - d
          BY <1>1, <1>2, <1>5
        <4>2. i - d \in Len(r) - n + 1 .. Len(r) /\ i \in 1 .. Len(recent)
          BY <1>2, <1>5, <2>2, <4>1
        <4>3. r[i - d] = s[(i - d) + d] /\ r[i - d] = "RETURN"
          BY <1>5, <3>1, <4>2
        <4>4. (i - d) + d = i
          BY <4>1, <4>2
        <4> HIDE DEF d
        <4> QED BY <1>1, <4>2, <4>3, <4>4
      <3>4. n - 1 \in 0 .. Len(recent)
        BY <1>1, <1>2, <1>5, <2>2
      <3>5. n - 1 <= streak
        BY <3>3, <3>4 DEF JudgedInv
      <3>6. n \in Nat /\ n <= Hyst
        BY <1>2, <1>5, <1>6
      <3> QED BY <1>2, <1>3, <3>2, <3>5, <3>6
    <2>3. n = 0 \/ n > 0
      BY <1>2, <1>5, <1>6
    <2> QED BY <2>1, <2>2, <2>3
  <1> QED BY <1>3, <1>5, <1>6

\* A commitment to RETURN that is new rests on Hyst judgements in a row.
LEMMA CommitIsCounted ==
  ASSUME JudgedInv, NEW a \in Advisor!Decisions,
         Advisor!Commit(Advisor!Remember(a)) = "RETURN", committed # "RETURN"
  PROVE  Advisor!Counted(a) = Hyst
  <1> DEFINE r == Advisor!Remember(a)
             k == Advisor!Counted(a)
  <1>1. /\ r \in Seq(Advisor!Decisions) /\ Len(r) <= Hyst /\ k \in 0 .. Hyst
        /\ \A n \in 0 .. Len(r) : LastReturn(r, n) => n <= k
    BY RememberKeepsCount
  <1>2. Advisor!Commit(r) = "RETURN"
    OBVIOUS
  <1> HIDE DEF r, k
  <1>3. Len(r) = Hyst /\ r[1] = "RETURN" /\ \A i \in DOMAIN r : r[i] = r[1]
    BY <1>2 DEF Advisor!Commit
  <1>4. LastReturn(r, Hyst)
    BY <1>1, <1>3, ReturnAssumption DEF LastReturn
  <1>5. Hyst \in 0 .. Len(r)
    BY <1>3, ReturnAssumption
  <1>6. k = Hyst
    BY <1>1, <1>4, <1>5, ReturnAssumption
  <1> QED BY <1>6 DEF k

LEMMA AdvisorKeepsJudgedInv ==
  ASSUME JudgedInv, Advisor!Tick
  PROVE  JudgedInv' /\ (returning' /\ ~returning => armed' /\ streak' = Hyst)
  <1>1. PICK a \in Advisor!Judgements :
          \/ Advisor!TickAtSpawn(a) \/ Advisor!TickReturn(a)
          \/ \E away \in BOOLEAN : Advisor!TickWatch(a, away) \/ Advisor!TickStartReturn(a, away)
    BY DEF Advisor!Tick
  <1>2. a \in Advisor!Decisions
    BY JudgementsAreDecisions
  <1>3. ASSUME recent' = <<>>, streak' \in 0 .. Hyst, committed' \in Advisor!Decisions,
               ExecuteReturn /\ committed' = "RETURN" => returning'
        PROVE  JudgedInv'
    <2>1. recent' \in Seq(Advisor!Decisions) /\ Len(recent') = 0
      BY <1>3
    <2>2. 0 <= Hyst /\ \A n \in 0 .. 0 : n <= streak'
      BY <1>3, ReturnAssumption
    <2> QED BY <1>3, <2>1, <2>2 DEF JudgedInv
  <1>4. Advisor!Counted(a) \in 0 .. Hyst /\ 0 \in 0 .. Hyst
    BY ReturnAssumption DEF Advisor!Counted, JudgedInv
  <1>5. CASE Advisor!TickAtSpawn(a)
    <2>1. /\ recent' = <<>> /\ committed' = "NONE" /\ streak' = 0
          /\ returning' = returning
      BY <1>5 DEF Advisor!TickAtSpawn, Advisor!latch
    <2> QED BY <1>3, <1>4, <2>1 DEF Advisor!Decisions
  <1>6. CASE Advisor!TickReturn(a)
    <2>1. /\ recent' = <<>> /\ committed' = "RETURN" /\ streak' = Advisor!Counted(a)
          /\ returning' = returning /\ returning
      BY <1>6 DEF Advisor!TickReturn
    <2> QED BY <1>3, <1>4, <2>1 DEF Advisor!Decisions
  <1>7. ASSUME NEW away \in BOOLEAN, Advisor!TickWatch(a, away)
        PROVE  JudgedInv' /\ returning' = returning
    <2>1. /\ recent' = Advisor!Remember(a) /\ streak' = Advisor!Counted(a)
          /\ committed' = Advisor!Commit(recent') /\ returning' = returning
          /\ ~(ExecuteReturn /\ committed' = "RETURN")
      BY <1>7 DEF Advisor!TickWatch, Advisor!latch
    <2>2. /\ recent' \in Seq(Advisor!Decisions) /\ Len(recent') <= Hyst /\ streak' \in 0 .. Hyst
          /\ \A n \in 0 .. Len(recent') : LastReturn(recent', n) => n <= streak'
      BY <1>2, <2>1, RememberKeepsCount
    <2>3. committed' \in Advisor!Decisions
      <3>1. CASE Len(recent') = Hyst
        BY <2>1, <2>2, <3>1, ReturnAssumption DEF Advisor!Commit, JudgedInv
      <3>2. CASE Len(recent') # Hyst
        BY <2>1, <3>2 DEF Advisor!Commit, JudgedInv
      <3> QED BY <3>1, <3>2
    <2> QED BY <2>1, <2>2, <2>3 DEF JudgedInv, LastReturn
  <1>8. ASSUME NEW away \in BOOLEAN, Advisor!TickStartReturn(a, away)
        PROVE  JudgedInv' /\ armed' /\ streak' = Hyst
    <2>1. /\ recent' = <<>> /\ streak' = Advisor!Counted(a) /\ committed' = "RETURN"
          /\ returning' /\ ~returning /\ armed'
          /\ ExecuteReturn /\ Advisor!Commit(Advisor!Remember(a)) = "RETURN"
      BY <1>8 DEF Advisor!TickStartReturn
    <2>2. committed # "RETURN"
      BY <2>1 DEF JudgedInv
    <2>3. streak' = Hyst
      BY <1>2, <2>1, <2>2, CommitIsCounted
    <2> QED BY <1>3, <1>4, <2>1, <2>3 DEF Advisor!Decisions
  <1>9. Advisor!TickAtSpawn(a) \/ Advisor!TickReturn(a) => returning' = returning
    BY DEF Advisor!TickAtSpawn, Advisor!TickReturn, Advisor!latch
  <1> QED BY <1>1, <1>5, <1>6, <1>7, <1>8, <1>9

\* Nobody else touches what the advisor remembers.
LEMMA OnlyAdvisorRemembers ==
  ASSUME [ChainNext]_chainVars
  PROVE  Advisor!Tick \/ UNCHANGED advisorOnly
  BY DEF ChainNext, AdvisorTick, Lose, HearGoal, HearPlannerAbort, HearTurretAbort, TurretGoal, DriveOn,
         PlanStep, Deaf, chainVars

LEMMA NextKeepsSpawnInv == SpawnInv /\ [ChainNext]_chainVars => SpawnInv'
  <1> SUFFICES ASSUME SpawnInv, [ChainNext]_chainVars PROVE SpawnInv'
    OBVIOUS
  <1>1. CASE AdvisorTick
    <2>1. UNCHANGED <<returnActive, aborted>>
      BY <1>1 DEF AdvisorTick, plannerOnly
    <2>2. PICK a \in Advisor!Judgements :
            \/ Advisor!TickAtSpawn(a) \/ Advisor!TickReturn(a)
            \/ \E away \in BOOLEAN :
                  Advisor!TickWatch(a, away) \/ Advisor!TickStartReturn(a, away)
      BY <1>1 DEF AdvisorTick, Advisor!Tick
    <2>3. (wire' # {} => returning') /\ (returning' => armed') /\ (armed => armed')
      <3>1. CASE Advisor!TickAtSpawn(a)
        BY <3>1 DEF SpawnInv, Advisor!TickAtSpawn, Advisor!latch
      <3>2. CASE Advisor!TickReturn(a)
        BY <3>2 DEF SpawnInv, Advisor!TickReturn
      <3>3. CASE \E away \in BOOLEAN : Advisor!TickWatch(a, away)
        BY <3>3 DEF SpawnInv, Advisor!TickWatch, Advisor!latch
      <3>4. CASE \E away \in BOOLEAN : Advisor!TickStartReturn(a, away)
        BY <3>4 DEF Advisor!TickStartReturn
      <3> QED BY <2>2, <3>1, <3>2, <3>3, <3>4
    <2> QED BY <2>1, <2>3 DEF SpawnInv, SpawnIsSafe
  <1>2. CASE HearPlannerAbort \/ HearTurretAbort
    <2>1. wire # {} /\ UNCHANGED <<armed, returning>>
      BY <1>2 DEF HearPlannerAbort, HearTurretAbort, Sent, Deaf, advisorOnly
    <2> QED BY <2>1 DEF SpawnInv, SpawnIsSafe
  <1>3. ASSUME UNCHANGED <<armed, returning, returnActive, aborted>>, wire' \subseteq wire
        PROVE  SpawnInv'
    BY <1>3 DEF SpawnInv, SpawnIsSafe
  <1>4. CASE (\E m \in Advisor!Heartbeat : Lose(m)) \/ UNCHANGED chainVars
    BY <1>3, <1>4 DEF Lose, Sent, chainVars, advisorOnly, plannerOnly
  <1>5. CASE HearGoal
    BY <1>3, <1>5 DEF HearGoal, Sent, Deaf, advisorOnly, MissionGoal
  <1>6. CASE \E p \in Points : TurretGoal(p)
    BY <1>3, <1>6 DEF TurretGoal, Deaf, advisorOnly, MissionGoal, RepositionGoal
  <1>7. CASE \E p \in Places : DriveOn(p)
    BY <1>3, <1>7 DEF DriveOn, Deaf, advisorOnly, Drive, latch
  <1>8. CASE PlanStep
    <2>1. UNCHANGED returnActive
      BY <1>8 DEF PlanStep, PlanRequested, Replan, PublishRoute,
           StartWorker, Worker, SearchFinds, SearchFails,
           Store, Settle, Announce, Leave, latch
    <2> QED BY <1>3, <1>8, <2>1 DEF PlanStep, Deaf, advisorOnly
  <1> QED BY <1>1, <1>2, <1>4, <1>5, <1>6, <1>7, <1>8 DEF ChainNext

LEMMA InitIsJudged == ChainInit => JudgedInv /\ SpawnInv
  <1> SUFFICES ASSUME ChainInit PROVE JudgedInv /\ SpawnInv
    OBVIOUS
  <1>1. /\ recent = <<>> /\ streak = 0 /\ committed = "NONE" /\ wire = {} /\ ~returning
        /\ ~returnActive /\ ~aborted
    BY DEF ChainInit, Advisor!Init, Init
  <1>2. recent \in Seq(Advisor!Decisions) /\ Len(recent) = 0
    BY <1>1
  <1>3. 0 <= Hyst /\ 0 \in 0 .. Hyst /\ \A n \in 0 .. 0 : n <= 0
    BY ReturnAssumption
  <1> QED BY <1>1, <1>2, <1>3 DEF JudgedInv, SpawnInv, SpawnIsSafe, Advisor!Decisions

LEMMA NextKeepsJudgedInv == JudgedInv /\ [ChainNext]_chainVars => JudgedInv'
  BY OnlyAdvisorRemembers, AdvisorKeepsJudgedInv DEF JudgedInv, LastReturn, advisorOnly

AdvisorFlags ==
    armed \in BOOLEAN /\ returning \in BOOLEAN /\ skipped \in BOOLEAN
    /\ wire \subseteq Advisor!Heartbeat

LEMMA AdvisorKeepsFlags == AdvisorFlags /\ [ChainNext]_chainVars => AdvisorFlags'
  <1> SUFFICES ASSUME AdvisorFlags, [ChainNext]_chainVars PROVE AdvisorFlags'
    OBVIOUS
  <1>1. CASE AdvisorTick
    <2>1. PICK a \in Advisor!Judgements :
            \/ Advisor!TickAtSpawn(a) \/ Advisor!TickReturn(a)
            \/ \E away \in BOOLEAN :
                  Advisor!TickWatch(a, away) \/ Advisor!TickStartReturn(a, away)
      BY <1>1 DEF AdvisorTick, Advisor!Tick
    <2> QED BY <2>1 DEF AdvisorFlags, Advisor!TickAtSpawn, Advisor!TickReturn,
               Advisor!TickWatch, Advisor!TickStartReturn, Advisor!latch
  <1>2. ASSUME UNCHANGED <<armed, returning, skipped>>, wire' \subseteq wire
        PROVE  AdvisorFlags'
    BY <1>2 DEF AdvisorFlags
  <1>3. CASE ~AdvisorTick
    BY <1>2, <1>3 DEF ChainNext, Lose, HearGoal, HearPlannerAbort, HearTurretAbort, TurretGoal, DriveOn,
       PlanStep, Sent, Deaf, advisorOnly, chainVars
  <1> QED BY <1>1, <1>3

\* A mission is given up only on Hyst judgements in a row, all made after the departure, and
\* neither listener starts home before it, for any hysteresis, goals and number of threats
\* (sudden_advisor_node._tick, with the abort callbacks of planner and turret).
THEOREM ReturnsAreDeserved == ChainSpec => ReturnDeserved
  <1>3. JudgedInv /\ [ChainNext]_chainVars => [returning' /\ ~returning => armed' /\ streak' = Hyst]_chainVars
    BY OnlyAdvisorRemembers, AdvisorKeepsJudgedInv DEF advisorOnly
  <1>4. SpawnInv /\ JudgedInv /\ AdvisorFlags => SpawnIsSafe /\ Advisor!TypeOK
    BY DEF SpawnInv, JudgedInv, AdvisorFlags, Advisor!TypeOK
  <1>5. ChainInit => AdvisorFlags
    BY DEF ChainInit, Advisor!Init, AdvisorFlags
  <1> QED BY <1>3, <1>4, <1>5, InitIsJudged, AdvisorKeepsFlags, NextKeepsJudgedInv, NextKeepsSpawnInv, PTL
          DEF ChainSpec, ReturnDeserved, ReturnIsJudged

-----------------------------------------------------------------------------
(* Whatever happens here is, to the planner, a step of its own or none: its invariants    *)
(* carry over.                                                                            *)

LEMMA PlannerSteps ==
  ASSUME [ChainNext]_chainVars
  PROVE  [Next]_vars
  <1>1. ASSUME UNCHANGED <<plannerOnly, pos>> PROVE UNCHANGED vars
    BY <1>1 DEF plannerOnly, vars, latch, plan
  <1>2. CASE AdvisorTick
    <2>1. UNCHANGED pos
      BY <1>2 DEF AdvisorTick, Advisor!Tick, Advisor!TickAtSpawn, Advisor!TickReturn,
         Advisor!TickWatch, Advisor!TickStartReturn
    <2> QED BY <1>1, <1>2, <2>1 DEF AdvisorTick
  <1>3. CASE (\E m \in Advisor!Heartbeat : Lose(m)) \/ HearTurretAbort \/ UNCHANGED chainVars
    BY <1>1, <1>3 DEF Lose, HearTurretAbort, chainVars
  <1>4. CASE HearGoal
    <2>1. Home \in Points
      BY DEF Points
    <2> QED BY <1>4, <2>1 DEF HearGoal, Next
  <1>5. CASE HearPlannerAbort
    BY <1>5 DEF HearPlannerAbort, Next
  <1>6. CASE \E p \in Points : TurretGoal(p)
    BY <1>6 DEF TurretGoal, Next
  <1>7. CASE \E p \in Places : DriveOn(p)
    BY <1>7 DEF DriveOn, Next
  <1>8. CASE PlanStep
    BY <1>8 DEF PlanStep, Next
  <1> QED BY <1>2, <1>3, <1>4, <1>5, <1>6, <1>7, <1>8 DEF ChainNext

\* Whatever the advisor and the fire mission send, in whatever order and whatever is lost: a
\* route does not serve the goal only where a callback fell into a plan under way
\* (map_astar_planner_node and sudden_advisor_node together).
THEOREM ReturnRoutesServe == ChainSpec => []RoutesServe
  <1> DEFINE Inv == OneWorker /\ ServeInv
  <1>1. ChainInit => Inv
    BY PlannerStarts DEF ChainInit
  <1>2. Inv /\ [ChainNext]_chainVars => Inv'
    <2> SUFFICES ASSUME Inv, [ChainNext]_chainVars PROVE Inv'
      OBVIOUS
    <2>1. [Next]_vars
      BY PlannerSteps
    <2>2. TypeOK' /\ WorkerIsFlagged'
      BY <2>1, TypeStep, WorkerStep DEF OneWorker
    <2>3. ServeInv'
      BY <2>1, ServeStep
    <2> QED BY <2>2, <2>3 DEF OneWorker
  <1>3. Inv => RoutesServe
    BY DEF ServeInv
  <1> QED BY <1>1, <1>2, <1>3, PTL DEF ChainSpec
=============================================================================
