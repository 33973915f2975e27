# TankSimulation: formal models and proofs

TLA+ models of the ROS 2 autonomy stack in this repository, TLC runs that check them on small
instances, and TLAPS proofs that hold for every value of their constants. Paths below are
relative to the repository's package directory `src/` (for example
`control/control/ballistic_turret_node.py`).

| to read | file |
|---|---|
| the system and what can go wrong in it | sections 1 and 2 |
| which module models what | section 3 |
| what the runs check, with which bounds and fairness | section 4 |
| what is proved, and how | section 5 |
| where the code and its own words disagree, and what else was met | section 6 |
| what is left out, and what could come next | sections 7 and 8 |

To check a module: `tlc -config FireMission.cfg MCFireMission`; to check its proofs:
`tlapm FireMission_proofs.tla`. `PROJECT.json` lists the runs, and for every definition the
lines it was translated from.

## 1. The system

A Unity tank simulator is an HTTP client. A Flask server in the same process as a ROS 2 node
(`ros_bridge`) turns its requests into topics and answers `/get_action` with the newest command
of the controller. Everything else is ROS 2 nodes that talk over volatile topics, and programs
that start and stop those nodes.

| part | state | operations | talks to |
|---|---|---|---|
| **Simulator HTTP bridge** `ros_bridge` (`bridge_node`, `app_routes`, `ros_runtime`, `commands`) | latest command and its time, one-shot override, pending episode control, latest payload of each route, cached dashboard | a route per simulator request (Flask threads), a callback per topic (4 executor threads), a 5 s time to live, a stop as fallback | simulator, every node |
| **Camera detector and its asynchronous service** `async_yolo`, `vision/yolo_detector` | newest frame, processed frame, latest result; cache, predict lock | `enqueue`, `_worker_loop`, `detect_bytes` | `/detect`, `/internal/phone_detect`, fusion |
| **Ballistic turret** `ballistic_turret_node` | phase, engagement, shots, retries, results, return point, abort, shot timers, yaw mode, pitch watchdog | a 20 Hz `_tick` with some 20 branches, callbacks of abort, impact and poses | planner (goals), controller (override), bridge (fire), advisor (abort) |
| **Global A\* planner** `map_astar_planner_node`, `team_path_planning`, `vehicle_path_geometry` | goal, detour flag, return latch, route, plan request, obstacle memories, worker thread | four goal callbacks, obstacle and pose callbacks, a timer that starts a worker thread | turret, advisor, simulator, local planner |
| **Sudden-event advisor** `sudden_advisor_node`, `sudden_decision` | armed flag, last judgements, committed judgement, return latch | a 2 Hz `_tick`, a heartbeat | planner and turret |
| **Decision FSM** `decision_node`, `engage_contract`, `mock_turret_node` | FORWARD / ENGAGE / RETURN, target, kill list, wait times; the turret's queue | a 2 Hz `_tick`, callbacks of poses, discoveries and results | mock turret, planner |
| **Tank controller** `tank_controller_node` | goal, planner profile, override, stuck clock, pre-stop, post-shot guard, steering locks, pivots, recon dwell | a 10 Hz `timer_cb` that merges all of them into one command | bridge |
| **Local path planner** `local_path_node` | last detections and clusters, discovered map | fusion, confirmation and decay, services | planner, reports |
| **Lidar, fusion and obstacle memory** `lidar`, `vision` | last clusters | terrain separation, clustering, projection | local planner, planner |
| **Potential field** `potential_field_node` | three obstacle sources, advice counters | a callback per source, a timer | controller |
| **Phone sim-to-real** `phone_sim2real` | brake latch, tracks, wall, switch | HTTP gateway, mux, brake timer | controller, planner |
| **Recon**: logger, ground division, terrain finalizer, `run_recon_scenario.py` | visited points, record buffer, files | drive two routes, finalize, collect | disk |
| **Mission**: `build_mission_plan.py`, `run_scenario2_scenario.py`, its launch file | plan, engagements, observed outcome | plan, start, watch, judge | disk, all nodes |
| **Risk analysis** | comparison and report files | a language-model call, validation, repair | bridge |
| **Visualisation, reports, proxy** | none that is read back | display only | |

Two return mechanisms exist side by side. In scenario 2 the *advisor* publishes an abort that
the *planner* and the *turret* latch independently; with the *decision FSM* RETURN is a state
that keeps publishing the home goal on the planner's topic.

### What makes each part correct

* The turret fires only when it truly points at its target, closes every engagement truthfully and
  in order, holds the hull whenever it shoots, gives up a fire point only at a true end stop, and
  goes home exactly once, for good.
* The planner's route serves the goal it has now, the return owns the goal, a route is as clear and
  cheap as its cost terms say, and a blocked route is answered in bounded time.
* The advisor starts a return only after a real departure and a stable judgement, and both
  listeners end up returning.
* The decision FSM engages live targets, never twice, and never leaves RETURN.
* The controller stops where a stop is due and no longer, does not take a held hull for stuck, and
  neither oscillates nor passes a speed limit.
* The detector's results come in order, and no failure leaves its lock behind.
* The bridge answers every request, gets a STOP through, never repeats a one-shot, and lets go of
  an emergency.
* The sensors' chain loses no wall, gives a detection the cluster that is its own, keeps confirmed
  objects where they are; the phone's wall stays on its place.
* The files of a run are its own, and so is the judgement of a mission; the plan fires at the
  targets it names; the operator is shown the choice that was validated.

## 2. What is hard

`PROJECT.json` lists the hazards at their lines. In one sentence each:

* *Callbacks between ticks*: an abort, a late impact or a new goal arrives in every phase.
* *Threads that work on old state*: the planner's worker commits a route to the goal it was
  started with; the lookahead timer reads a route field by field while it is replaced; a request
  thread publishes after a newer one.
* *Locks that cover half*: the planner's worker locks when it commits, the callbacks do not; the
  bridge stores under a lock and publishes after it.
* *Retries and timeouts that meet*: a slow shell and its refire, a repeated request and the timeout
  it restarts, the brake's hold and the planner's answer.
* *Lost and late messages*: volatile topics, telemetry that is late or partial, phone frames that
  overtake commands, services that time out.
* *Layers that rewrite one command*: ten on the W/S axis, two guards with memories on A/D.
* *Clocks*: simulator and wall time in one stamp, intervals that begin in the wrong one.
* *A goal that is also the start*: home is the spawn point, and `returned` may be heard there.
* *Two writers and a reader of one file*; nodes of an earlier run that are still alive.

## 3. The modules

Names in the modules are the code's names where TLA+ allows it. Some operators before a definition
are variants of it with a plausible bug of that code (some are marked `(mutant)`, and `PROJECT.json`
lists them all under "mutants"): the runs are shown to notice each, and no specification uses them.

Some runs compose parts that share no state at the level of the model: a variable `layer` says which
of them a behaviour runs, the others stay as they start. What one part decides is then an
arbitrary input of the next, so nothing is lost by not running them together.
`Bridge`, `Drive`, `Field` and `Routes` are such compositions.

### Fire mission and turret: `FireMission`, `MissionLegs`, `MCFireMission`, `FireMission_proofs`, `TurretAim`

`FireMission` is the phase machine of `ballistic_turret_node.py`. Each branch of `_tick`, with
everything it falls through to in the same call, is one action; the callbacks of the abort and of
the impact are actions between ticks, since the node runs on one thread. What a branch compares
with a clock or a sensor is left open, so at every tick each outcome is possible; a tick that only
repeats its last command is a stutter. The shells have identities, so that an impact can be
credited to the wrong shot as it can in the code. Positions are the checkpoints, the
fallback fire points, the return points and the road.

| code | definitions |
|---|---|
| approach, capture, settling, hull alignment | `Approach`, `CaptureCheckpoint`, `BeginBodyAlign`, `AbandonBodyAlign` |
| the aim loop | `BadFirePose`, `NoSolution`, `StaleFeedback`, `OffTarget`, `OnTarget`, `Fire`, `StartReposition` |
| repositioning for the gun's pitch limit | `RepositionArrived`, `RepositionTimeout` |
| the pulse, the wait, refire and timeout | `PulseEnds`, `NoBulletRefire`, `NoBulletGiveUp`, `ImpactTimeout` |
| recovery and the next stage | `BeginRecovery`, `BarrelLowered`, `Advance`, `AdvanceIntoAim`, `ResetStage` |
| the way home, the abort | `ReturnLeg`, `BeginFinalReturn`, `MissionAbort`, `Preempted` |
| the simulator and the drive stack (external) | `Launch`, `Drive`, `BulletImpact` |

`MissionLegs` is what the rest of the stack relies on: engagements finished one after the other,
then the way home, from which nothing returns. `Legs` in `FireMission` is the refinement mapping.

`TurretAim` opens the ticks that `FireMission` knows as "off target" and "on target": the yaw modes
(track, brake, pulse, observe, settled), the pitch loop with the watchdog that takes unchanged
feedback for a mechanical stop, and the dwell, against a turret that coasts and telemetry that is
late, lost or partial: a sample may be received with its yaw alone, or with its pitch alone, which
makes the feedback fresh while the yaw stays as old as it is (`DeliverPitch`, lines 748-770, 800-810).

Abstractions: the ballistic solution is an outcome (in `FireMission` a pitch within the gun's travel
or one beyond it, in `TurretAim` one of `Goals`); `settle_sec` is positive and `mission_abort_enabled` is true, as the launch files set them; the
target lock messages, status and wording are left out.

### Planner: `Planner`, and the parts of a route in `Routes`, `Routes_proofs`

In `Planner` two threads share the fields of `map_astar_planner_node.py`. The executor's callbacks
(`GoalPose`, `MissionGoal`, `RepositionGoal`, `MissionAbort`, `ObstaclesChanged`, `Drive`,
`Teleport`, `PlanRequested`, `Replan`, `PublishRoute`, `PublishGoal`) and the worker
(`SearchFinds`, `SearchFails`, `Store`, `Settle`, `Announce`, `Leave`) interleave at every step,
because no callback takes `_planning_lock`. A route is its end and whether it goes through the
waypoints of the configured route. `ClosePairs` says which points are within 10 m of each other,
the distance below which `_set_goal` ignores a goal. `asked` is the last request that was accepted,
so that goal, tolerance and mode can be compared with it. `crossed` and `stale` record the one race of
the two threads: a callback emptied the route of a plan under way, and what that worker then
committed. `LegacyGoal` is the map-wide destination that `_set_goal` takes for the configured one.

`GoalIsOwned` allows what `_set_goal` does with a goal that is near the one in force: the point stays,
the tolerance and the mode become those of the new request. A checkpoint asked for within 10 m of a
detour thus keeps the detour's point under the checkpoint's own tolerance of 10 m, and the
hull may stop up to 20 m from the checkpoint.

| module | code |
|---|---|
| `GridSearch` | A* of the node ("direct") and of `team_path_planning.py` through the checkpoints ("legs"): one expansion at a time, the added costs, the budget, the smoothing, the joints of the legs; costs in thousandths |
| `PathBlocks` | what a plan goes round (clusters in view, their memory, the history of points, confirmed objects) and the trigger of a replan with its hits, cooldowns and progress guard; places across the corridor |
| `RouteLegs` | the checkpoints that are still ahead, cut at the goal, and the progress index that the worker writes while callbacks reset it; points in metres of the real map, a route as the set of them (nothing reads their order) |
| `RouteProfile` | the rounding of corners and the speed phases |
| `RouteFollow` | the lookahead, read field by field while the worker replaces route and index |
| `PotentialField` | its sources, filter, counters, and the advice to the controller |
| `RouteDecision` | the analysis of route A against B: two writers of one file, validation and repair, the cached screen and its refresher thread |

### Emergency return: `SuddenAdvisor`, `ReturnChain`

`SuddenAdvisor` is the advisor's tick over the counts its judgement uses: how many new threats,
how many of them can be engaged, and whether one is close and exposed. `ReturnChain` extends `Planner` with it
and with the abort flag of the turret, over a wire on which each of the three
messages may be late, lost or overtaken. Home is the spawn point, as in the launch file.
The wire keeps one message of each kind: a heartbeat repeats the same one. Callbacks run between any
two steps of the worker here too. Detours are left to the run `planner`: in the chain they would only
be other goals. What remains of the race after an abort is named in the property (`AbortCrossed`:
the abort itself fell into a plan under way, and the run `planner_return` shows what that does).

### Decision FSM: `DecisionFSM`

`decision_node.py` with the mock turret and the request and result queues. The unit of time is the
node's 2 Hz tick; `Elapse` advances the time since the request and the turret's timers. A tick may
come late. Range, line of sight and risk are observations. The history variable `prompt` is true as
long as the turret has hit every time and no message or turret timer has been late for a tick.

### Tank controller: `TankController`, `SteeringLock`, `StopPivot`, `SpeedChain`, `ReconObservation`, `Drive`, `Drive_proofs`

`TankController` is the question which of terminal stop, stuck escape, path, brakes, checkpoint
pre-stop, post-shot guard and turret override decides a command: one action for each way `timer_cb`
returns (`NoPose`, `TerminalStop`, `Escape`, `Drive`), the callbacks between them. The road
is a line of places. Wall-clock intervals count ticks down; the stuck clock runs on simulator time
and is kept as ages, with `Lost` for a stamp of the other time base. `SteeringLock` is the
direction lock and the oscillation guard of the A/D axis, with the reversals, the last side and how long
it has been kept as history, `StopPivot` the two STOP pivots with
their times and cooldowns, `SpeedChain` the ten layers of the W/S axis on every combination of
their inputs, `ReconObservation` the dwell and the turret homing while the recon mission drives. In
`TankController` a dwell is an input of the tick (it moves the stuck check's place and time, not its
yaw, and stops the hull while its candidate is in view), and so is whether a target is fresh
when there is no goal yet. The layers of all missions are together: the stop before a checkpoint is the
firing missions', the dwell reconnaissance's. An empty string of the code (no side, no phase) is written `"none"`.

### Bridge and camera: `ApiBridge`, `BridgeState`, `BridgeServer`, `YoloDetector`, `AsyncYolo`, `Detection`, `Bridge`, `Bridge_proofs`

`ApiBridge` is the command path, one action per block under `_lock`: the command with its time to
live, the one-shot override, the fallback, the polls. `BridgeState` is the thread of `/info` with
the state timer that copies under the lock and publishes after it, and the control word of the
episode. `BridgeServer` is the process: `main`, `stop_ros`, a thread per request.
`YoloDetector` is `detect_bytes` as several threads run it, as fine as its lock regions; `AsyncYolo`
the service with its worker; `Detection` composes them with the simulator's frames and the
phone's pictures. Time stamps are numbered in the order they are taken. `Bridge` composes
`ApiBridge` with `PhoneBrake`, whose overrides it answers, and runs the other parts beside them.

### Phone: `PhoneBrake`, `PhoneTracks`, `PhoneGateway`, `PhonePlacement`

`PhoneBrake` is the emergency: a signal starts it, a 30 Hz timer repeats the STOP, a newer route, the
phone or the maximum time ends it. `PhoneTracks` is the
node that makes tracks and a wall of the phone's detections, and the mux that merges the wall with
the lidar's clusters; `PhonePlacement` where an object is put; `PhoneGateway` the threads of
the HTTP gateway whose frames overtake the user's switch.

### Sensors to objects: `LidarClusters`, `ClusterMatch`, `Projection`, `LocalMap`

`LidarClusters` separates terrain from obstacles cell by cell and groups what is left. `Projection`
brings boxes and clusters together on a row of the image, with a person's wider limit, and falls back as the
code does;
`ClusterMatch` is the greedy pairing with its ambiguity rule, for any scores. `LocalMap` is the map
of discovered objects: candidates, confirmation, freezing, decay, the turret scan's candidates; a
candidate's least age is 0, as in the YAML file.

### Reconnaissance and mission: `ReconRoutes`, `MissionPlan`, `Scenario2Run`, and `Field`, `Field_proofs`

`ReconRoutes` is `run_recon_scenario.py` with the files of two routes and the processes that write
them. A removal may be refused: `_safe_remove` (130-135) swallows the error, and what an earlier
mission, or half a copy, has left under the route's name stays. `ArtifactsAreOwn` names that as the only way
(`Resisted`). A report that cannot be removed, or a copy that fails, ends the script instead. `MissionPlan` is `build_mission_plan.py` from targets to engagements, and what the launch file
makes of them, in units of ten metres on a small map (`ScenePath` and the rest in
`Field`). `Scenario2Run` is `run_scenario2_scenario.py`, which judges the mission by what it hears.
`Field` runs these and the sensors' parts.

## 4. The runs

Every property of every run has a mutant of the modelled code in `PROJECT.json` that breaks it
under the configuration of the run.

| run | module / configuration | what it asks | states, time |
|---|---|---|---|
| `fire_mission` | `MCFireMission` | `ShotAccounting`, `ResultsEarned`, `LegsKept`: shots, records, hull and goal fit together in every phase; `ImplementsLegs`: refinement of `MissionLegs`; `TimedPhasesEnd`, `AbortGoesHome` | 150 k, 70 s |
| `fire_bare` | `MCFireMission` / `FireBare.cfg` | `ShotsAreSound`: what still holds without the impact requirement and the recovery steps | 470 k, 10 s |
| `turret` | `TurretAim` | `ShotOnTarget`: at a shot the turret rests, and points at its target unless its yaw is older than the feedback, which costs no more than `Stray`; `EndstopIsReal`: a fire point is given up only with the gun at its stop and the target beyond it; `AimEnds` | 2.4 M, 130 s |
| `planner` | `Planner` | `GoalIsOwned`: goal, tolerance and mode are those of one request, and after the abort of the return; `OneWorker`; `RoutesServe`: a route that does not serve the goal was left by the one race of callback and worker | 1.1 M, 30 s |
| `routes` | `Routes` | `RouteSound`, `LegsServeGoal`, `BlocksAnswered`, `NoStepBack`, `AdviceIsEarned`, `ChoiceIsShown` | 730 k, 170 s |
| `return_chain` | `ReturnChain` | `ReturnDeserved`: no return from the spawn point or a single frame; `ReturnArrives`: both listeners end on the way home | 120 k, 90 s |
| `decision` | `DecisionFSM` | `EngagementsSound`, `DeadlineFreesTheTank`, `ReturnHolds` | 290 k, 30 s |
| `drive` | `Drive` | `HullStops`, `HeldPlaceIsKept`, `StampedStuckEnds`, `DriveIsSteady` | 570 k, 130 s |
| `bridge` | `Bridge` | `BridgeSafe`, `FramesAnswered`: process and detector; `BrakeLetsGo`, `StopGetsThrough`: the emergency STOP; `StateTopicHeals`, `SwitchHeals` | 230 k, 80 s |
| `field` | `Field` | `LidarSound`, `ObjectsAreOwn`, `ArtifactsAreOwn`, `PlanSound`, `MapIsSteady`, `PhoneWallsTrue` | 2.6 M, 175 s |
| `planner_return` | `Planner` / `PlannerReturn.cfg` | `ReturnRecovers` is violated (section 6) | |
| `plan_shown` | `Field` / `PlanShown.cfg` | `PlanShown` is violated (section 6) | |

Each property is explained where it is defined, with the code behaviour that it is about. Some are
conjunctions: the parts are named and commented in the module of their component.

### The bounds and why they are enough

* `fire_mission`: two engagements, of which the first aligns the hull and has a fallback fire point
  and the last does not; two return points; two shots, one refire. `ShotBound` allows 4 pulses in a
  mission: one engagement can use its shots and its refire and leave a shell in flight that lands in
  the other. One more stage adds no branch: the code knows "not the last" and "the last".
* `turret`: five cells on either side of the target, a travel of two, tolerances and the limit margin of
  one, a least error of two, target pitches at the stop (2), in its margin (3) and beyond the least error (4); a
  unit is about 0.3 s of the launch file's times, so the dwell is one unit, a stall two, the time to live two.
  With the pitch tolerance equal to the margin a gun that stalls near the stop may be in tolerance and
  is; feedback becomes stale as a stall is concluded. `MaxDelay` bounds how long a sample travels, `MaxMoves`
  how often the fire point is given up.
* `fire_bare`: as `fire_mission`, with the three switches that the launch file has on turned off: the
  only way through `ImpactTimeout` and `AdvanceIntoAim`, which the parameters allow.
* `planner`: two checkpoints, a detour within 10 m of both, a simulator goal which is also the
  legacy destination, home. Two checkpoints and the detour are what it takes for one callback to overtake another and be undone by the worker.
* `routes`: the search on every grid of 4 by 3 cells with one waypoint, which has all shapes of a
  wall, a gap and a dead end, and a budget below and above what is needed; for blocks three
  lanes and two things; for legs the two waypoints, home, and the places around them in real metres; three
  corners with segments shorter, as long as and longer than two tangents; four versions of a route.
* `return_chain`: up to two threats, any number of them engageable, hysteresis two: below, at and above
  the count from which the judgement changes.
* `decision`: two targets; `Cooldown` 3 below `Timeout` 4, as in the code's defaults (5 s, 8 s);
  two messages in flight, so that a repeated request meets the answer to the first.
* `drive`: a road of three places with goals at both ends, intervals of one and two ticks: each time
  limit can elapse before, with and after the others. `SpeedChain` takes every combination of inputs.
* `bridge`: holds of one and two ticks, a lifetime of one, an override queue of one; two request
  threads, two calls, three kinds of payload; three frames and two pictures, of which the newest must
  overtake one that is being processed; three versions of the state, three requests in flight at the
  gateway.
* `field`: small geometries, chosen so that every threshold has a value below and above: two detections and three
  clusters with scores 0 to 2 and an ambiguity margin of 2; three cells with ground, a
  step and a wall; two routes of three and four waypoints, three places for a tank, a wall and a
  ridge that may hide it, two tanks found at most (`MaxFound`).

Bounds that cut something off: `ShotBound` (another pulse), `MaxInFlight` (a request beyond it is
lost), `Depth` (an override beyond it joins those that wait), `MaxCalls`, `MaxDelay`, `MaxIds`, `MaxPlans`,
and the numbers of frames, pictures, versions and rounds. All but `ShotBound` and `MaxIds` limit the
environment; at those two the program goes on with whatever else it may do.

`CHECK_DEADLOCK FALSE` is set where parts really stop: in `bridge` (the process ends), `drive`
(a row of the speed chain is computed once), `field`, `plan_shown` and `routes` (files written,
programs ended, versions used up). The other runs check that there is always a next step.

### Fairness and why the code justifies it

* *Timers repeat, threads run, clocks go on*: `WF` of the ticks, of workers and of elapsing time. ROS
  timers are periodic and nothing in their callbacks blocks; threads of the bridge, of the planner
  and of the detector hold no lock while they wait for another one.
* *The drive stack reaches the goal it has while the hull is free* (`WF` of `Drive(goal)`, fire
  mission), and `SF` of the tick that finds the hull in the return radius, since it may drift out again.
* *What is repeated for ever succeeds at some time* (`SF`): searches of the planner, predictions of
  the detector, messages of the advisor that a heartbeat repeats. Each is retried by the code; each
  single one may fail or be lost.
* *The simulator is not paused for good* (`SF` of its running clock, controller).
* *Telemetry that was not dropped arrives* (turret). `AimEnds` says itself that samples are not lost again
  and again, and do not come without their yaw again and again, since the code promises nothing then: a
  rate that stays old never settles.
* *The screen's refresher runs* (`ChoiceIsShown`): with `TANK_LIVE_VIEW` off it returns at once and the first
  payload is shown for ever (`app_routes.py:2493`, `2515-2521`), and a build that fails leaves the old payload
  (2476-2479). The property says so: live view on, and builds that fail not for ever.
* *A dwell ends* (`StampedStuckEnds` asks that the hull is not held by dwells for ever; each place has one,
  which `HullStops` shows).
* Nothing is assumed of the turret's answers to the decision FSM, of shells and their impacts, of
  observations, users, operators and goals.

Everything that is checked as safety (`[]`, `[][A]_v`) is independent of fairness.

## 5. What is proved

The theorems hold for every value of the constants that the named assumption of the module admits;
these give types and say which times are positive; what else a theorem assumes is in its statement.

`FireMission_proofs`: any number of stages, return points, fallback points, shots and refires.

* `TypeCorrect`. The strengthening `ReasonKept` says that the reason carried through the recovery
  is one that a record may have.
* `ShotsAccounted`: `shot + refire = pulses`. Inductive with "while engaged a shot is charged",
  without which the refund of a lost shot could go below zero.
* `ReportsTruthful`, `ImpactsRequired`: from `ReportInv`, which follows the reason from the impact
  through the lowering and centring phases to the record.
* `HullStaysHeld`: from the published override and the phase alone.
* `TerminalLegFinal`, `GoalsMatchLegs`, `EngagementsOrdered`, `StopEarned`: from `MissionInv`, the
  conjunction of the four. They need each other: that the records are complete is what keeps the
  return leg from being taken early, and that the return leg is final keeps the records complete.
  They assume `Recovers` (`LowerBarrel \/ CenterTurret`), which is true in the launch files and
  without which the first of them is false (section 6).
* `ImpactsCreditedOnce`: from `CreditInv`, which says that a recorded shell is no longer in flight
  and that what is in flight has been fired.
* `ResultsAreEarned`, `LegsAreKept`, and without `Recovers` `ShotsStaySound`: the invariants of the
  runs, from these.
* `FireMissionImplementsLegs`: initial states map to initial states, and under `MissionInv` every
  step of the node is a step of `MissionLegs` or a stutter.

`ReturnChain`: any goals, threats, hysteresis and planner parameters. The planner by itself (the
theorems are about `Spec` of `Planner`, which this module extends):

* `PlannerTypeCorrect`, `WorkerIsAlone` (one worker, and the flag is up exactly while it runs).
* `GoalStaysOwned`: inductive by itself with the types. Only the callbacks touch the latch; the worker's
  interference is irrelevant to it (`OwnerStep`).
* `RoutesStayServing`: from `ServeInv`, which adds what the worker carries: as long as no callback has
  emptied the route of its plan, it has the goal of the node and the node's mode. Callbacks run between any two
  steps of the worker; nothing is assumed about when.

And the chain:

* `ReturnsAreDeserved`: from `JudgedInv`, that a run of RETURNs at the end of the advisor's
  memory is never longer than the streak of those judged since the departure, and `SpawnInv`, that
  nothing is on the wire and no listener has begun before a return was committed, nor that before the departure.
* `ReturnRoutesServe`: every step of the chain is a step of the planner or leaves it alone, so
  `ServeInv` carries over.

`Routes_proofs`: any grids, costs, budgets, checkpoints, places, goals, lengths, sources, distances and counts.

* `RoutesAreSound`: A* finds the cheapest leg if its budget lets it end, a smoothed leg is clear along its
  lines, legs join, and rounded corners are sound. The search, from `SearchInv`: each cell the search has come
  upon has a way back to the start along falling costs, and waits in the queue or has led on to all its
  neighbours (`Wave`, kept by a turn of the loop: `WaveGoesOn`). Along any other way it follows by induction that
  the search knows one as cheap, or has a cell of it still to look at (`CheapestKnown`).
  `RootAssumption` is what this rests on: on the grid no straight line is longer than the way by straight and
  diagonal steps (`Octile`) by more than `Excess`, and `LegIsCheapest` says "cheapest, up to `Excess`". With the
  exact weight of a diagonal `Excess` is 0; the code's diagonals (1.414, and 1.41421356 in the node) are a
  little less than the distance they bridge. In the code's units the excess on its grid of 300 x 300 is 0.064
  of a straight step for the first and below 0.000001 for the second. So the comment at
  `team_path_planning.py:206`, that the straight line remains admissible, is true up to that.
  The lines: after each step Bresenham's walk is no more than half a cell off (`CloseStep`), so a cell
  that is not on it is at least that far away (`ClearX`, `ClearY`). The corners (tangents are at least two
  units): what is put out up to a corner ends before the next begins (`WithLeads`).
* `LegsStayServing` (the checkpoints are different points, and the radius in which one counts as reached
  is at most the 10 m of the goal; 8 m in the launch file): from `LegsInv`, that what counts as behind is
  among what the progress index has passed. Whoever resets one resets the other, and the index a worker
  writes is not below the present one even if it started before a reset.
* `LookaheadGoesOn`: from `FollowInv`. When the timer has published twice since the last commit reset the
  index, index and point belong to the present route again and the index is that of the
  last publication; before, `GoesOn` allows the step back.
* `AdviceStaysEarned`: the first of all that is on the way, in the order of the sort, passes every voxel, limit and
  fallback (`FilterKeepsFirst`, `ChosenHasFirst`); the count of free ticks is the time that was quiet.
* `ChoiceStaysValidated`: the safety half of `ChoiceIsShown`, from `ChoiceInv`.
* `PlansAvoidSeen` (`Apart`: things are further apart than two clusters that are taken for one, 5 m, and not
  more than the memory holds, 80; else the code gives one up on purpose): the safety half of `BlocksAnswered`,
  from `BlocksInv`, that what was in view lately is near a known object or remembered with the time that has
  passed. What the dedupe then leaves out for a cluster in view is that cluster (`RequestAvoids`).

`TurretAim`: any travel, tolerances, times, delays and losses of telemetry.

* `EndstopsAreReal` (the limit margin is below the minimum error; 0.75 and 1.25 in the launch file): from
  `EndstopInv`. Towards a pitch beyond the gun's travel the loop only ever moves one way, so every elevation on
  its way or known, however late, is on the near side of the true one; the watchdog believes in a stop only
  where the known elevation is within the margin of the limit, and then so is the gun. What it may give up is a
  target up to 0.5 degrees beyond the travel, which the pitch tolerance of 0.75 would still have hit.
* `ShotsAtRest`: at a shot the turret has stopped, whatever telemetry comes. `ShotsAreOnTarget`: and it points
  at the target if its yaw was received so lately that it was taken at rest (`Young`); otherwise it is
  off by no more than `Stray`, which is what the turret may turn while the sample travels and for the rest
  of a pulse. Neither assumes anything of the times. From `AimInv`: for as long as Q/E has been neutral nothing
  moves, so the samples taken in that time show the yaw as it is (`AtRest`), and the command that was given on an
  older one moves the turret towards the target (`Strays`). The code does allow such a shot: the feedback's
  age (at most 0.75 s) is longer than observation and dwell (0.16 s and 0.22 s at launch), and a message without
  yaw makes it fresh. In practice telemetry is much younger than its limit.

`DecisionFSM`: any targets, times and queues.

* `LiveTargetsOnly`, `ReturnStaysTerminal`: from `Steady`, which adds the types of what they read.
* `EngagementsAreSound` (`AimTime < Cooldown`; 1.5 s and 5 s in the code): no second shot at a target
  while the turret hits and answers in time. From `Single`: one engagement is under way at a
  time, and its place on the way (request, aim, result) follows from the time since the request.

`Drive_proofs`: any road, goals, places, tolerances, intervals, windows and locks.

* `HeldPlacesAreKept`: an action property. From `ClockInv`: the age of the place that the stuck check
  compares with is at most the time since the hull was last told to stand, whatever base its stamp
  has, because every tick that holds the hull renews the place. The guard after a shot needs no invariant.
* `PreStopIsBounded` (a positive hold): from `HoldInv`, that the ticks of a stop so far and
  the time it has left add up to the hold. `TerminalStopsDeserved` (the tolerance of a stale profile is
  not below that of a fresh one; 10 m and 3 m in the launch file): from `DepartInv`, that the stop
  is armed only for a goal from which the hull has been away.
* `HullStopsWhereDue`: these two, and one dwell at each place, from `DwellInv`, which counts the STOPs
  of a dwell against what is left of it.
* `PivotsAreSteady`: from `PivotInv` and `TurnInv`, which tie the length of a pivot and the age of a turn to
  their clocks.
* `DriveStaysSteady` (`Threshold >= 3`, `Window <= Lock + Hold`): fewer reversals straight from one side to
  the other than the threshold in any window, no change of side at all in a hold, and W within its limits. From `SteadyInv`: the reversals the guard counts are fewer
  than the threshold; those it does not count any more, since a hold cleared them, are so old that they leave the
  window with the hold (`HoldsInv`); and after two reversals the side is locked (`LockInv`), which
  keeps a third from following at once. The launch file (1.25 s and 2.0 s for 3.0 s, threshold 3)
  satisfies the assumption. The defaults the node declares (0.9 s and 2.0 s) do not, and for them TLC
  finds three reversals published within a window: two, the hold, and one right after it.

`Bridge_proofs`: any number of workers, phone threads, request threads, calls and frames.

* `BridgeIsSafe`: from `ProcessInv` (who may hold a node in which part of its life), `RequestInv` (nothing
  is ahead of the requests that were sent), `LockInv` and `FrameInv`: no way out of `detect_bytes` leaves
  the lock behind, and nobody works on a frame that has not come.
* `BrakeIsBounded`: the safety half of `BrakeLetsGo`.
* `ResultsStayInOrder`: the safety half of `FramesAnswered`. From `OrderInv`: there is one worker, what it
  has in its hands is not older than what was processed, and while the phone is silent every result, cached or
  new, is at most that frame's.

`Field_proofs`: any cells, heights, distances, classes, places, tracks, rounds, lives and limits.

* `LidarStaysSound` (`MinHeight <= Climb`, two points make a cluster; 0.2 m, 0.4 m and 2 in
  the code and the launch file): from `GridInv`, that every cell behind the scan that rises too much
  is marked. It rests on lemmas about the least closed set: what a cluster reaches from one of its
  points is what it reaches from any, and clusters with a point in common are the same.
* `MapStaysSteady`: from `MapInv` and `Kept`, which relates a map in the middle of a tick to the one before
  the tick, so that any number of detections can be taken one after the other. It needs no bound on the number
  of confirming observations.
* `ObjectsStayOwn`: the pairing is a fold over the pairs in the order of their scores, the fallback one over
  the boxes. `SubsetRecursion` shows that such a fold has a value, `SubsetInduction` that what every step keeps
  holds of it. What the steps of the pairing keep (`AnyAssignment`, for any scores): a pair that was looked at has
  its detection dealt with or its cluster given to an earlier pair; a detection that is dealt with has its pair,
  or had a rival within the margin; whoever got a cluster had none. In a plain image the pairs have no
  rivals, so that each box gets its own. That scores are integers needs that a finite set has a
  median (`HasRank`).
* `PhoneWallsStayTrue` (the limits of the placement are in order, and `Stale < Lookahead + MinLook`): from
  `PhoneInv` (a track of now is a track of then or has a new number) and `PlaceInv` (a look-ahead that
  is fresh has not been passed by the least distance). The launch file's 13 m and 1 m with
  1 s hold for a tank slower than 14 m/s.
* `ArtifactsStayOwn`: from `OwnInv`, which follows what is new since the leg began through the files,
  and `MissionInv`, for the judgement of a mission.
* `PlanStaysSound` (`PlanAssumption`: the least range is within the tactical standoff, and the default targets of
  the launch file are not one; 20 m and 70 m in the code, 86 m between the defaults, where less than 25 m is
  one enemy): from `PlanInv`, which carries the types of what each stage hands to the next, above all that a
  live engagement is at the final enemy's nominal place. `FiringPositionSound` joins the three scans;
  `HasPlace` says that a sort by a strict order has a value.

Only model-checked: every liveness property (fairness and `ENABLED` are out of the prover's reach), among
them those of `BlocksAnswered` and `ChoiceIsShown`. Every safety invariant and safety action property that a run
checks is stated by a theorem. The library's induction theorems take an operator as a parameter, which
the provers cannot instantiate; induction over a set of numbers is possible (`Induction` derives it from
the pigeonhole principle, and the lemmas on clusters, histories and orders use it), and over the subsets
of a finite set (`SubsetInduction`), by which also a recursive function on them exists (`SubsetRecursion`).
Along chains that end (`ChainRecursion`, `ChainInduction`) the same holds for the functions that count (`At`,
`Rounding`, the walk of `Line`, the rounds of `Cheapest`) and for the way back of a search.

## 6. Where the code and its own words disagree

Two disagreements have a run that shows them.

1. `planner_return`: the comment at `map_astar_planner_node.py:1123` promises that a repeated abort
   heartbeat recovers if a stale goal or race replaced the route. Only the first abort forces the goal. If a worker
   is under way then, the abort empties its route and asks for a plan; the worker clears the request
   (1771) and stores the route to the old goal, the heartbeats find the goal set already and do nothing,
   and nothing plans the way home.
2. `plan_shown`: the comment at `build_mission_plan.py:1194` promises that the plan shown is in step
   with the engagements. If the first engagement of the chosen route is the final enemy, the plan
   moves it to the place of the static tank, the engagements do not.

Others were met while modelling. They are part of the models as the code has them, and no property
claims the opposite.

*Turret.* After the last refire the node logs "holding checkpoint instead of returning" and sets
`aim_error`, an aiming phase: the next tick may fire again (`ballistic_turret_node.py:2524`). The
branches without a solution keep the dwell timer, so a shot may follow the first on-target tick after
a gap (`:2808`). The pitch watchdog survives a reposition (`:2948`), against the docstring at `:1994`. The branch for
the cooldown while tracking is unreachable (about `:1847`). A message with yaw only keeps an old
elevation fresh; a stall is concluded without the command having been given all the time; a
sample counts as "after the release" by when it was received. With both recovery steps off the tick that sends the
return goal runs on into the aim loop, against "never re-arm after the final stage"; no launch file
has that configuration.

*Decision and advisor.* ENGAGE does not time out while the target stays in view, because
the repeated request restarts the wait first (`decision_node.py:289`). The advisor's
`return_risk_threshold` is displayed, but `decide` is called without it.

*Planner.* `_clip_route_waypoints` lets checkpoints beyond the goal stay; the progress index is stale
after a replan commits, and a worker with an old start writes it after a reset; the lookahead can
read `self.route[floor]` of a shorter route (an `IndexError`).
Clusters nearer to each other than the merge distance collapse into one;
inflation (4.5 m) is below the block margin (7 m), so a fresh route may count as blocked; failed
replans are tried again at once; with no cluster in view all the history becomes obstacles; the
history drops what was seen first, even if it is visible; what a withdrawn object stood for has gone from the memory too,
and is planned around again only when it is scanned again. `plan_path_through_waypoints` skips a destination it
cannot reach; the last leg home is led through (50, 265). The brake phase begins at an existing point
only. The comment at `tank_autonomous_control.launch.py:297-300` denies what
`use_discovered_objects_for_path_block: True` does.

*Controller.* A tick that wants no side clears the direction lock and the oscillation guard's memory (1091-1094,
1143-1146), so a swing from one side to the other by way of such a tick is counted by neither; only in a hold is it
limited. The guard's comment promises more. The goal brake calls itself the final cap (1715), but the
guard after a shot comes behind it and, where the overspeed guard would reverse, drives on at up to 0.35
(`SpeedIsCapped` says that this is the only case). The crawl that replaces a STOP of the planner's profile is skipped if W is already as slow as
it (`tank_controller_node.py:1702`), and the zero stands; a clock that changes between simulator and
wall time makes the stuck time jump and ends escapes (`:745`).

*Bridge.* Two threads in `/update_obstacle` may leave the older list on `/tank/map/obstacles`
for good, since it is not repeated by the timer. After `stop_ros` a request thread may get no node and
answer OK, or publish on a destroyed one and answer 500. A weight that is not a number passes
`validate_action_command` (about `commands.py:330`). Two first requests may create two detection services
(`app_routes.py:150`). The route decision is checked and then started without a lock
(`app_routes.py:2767`). A cached detection is stored as a new frame (`yolo_detector.py:572`).

*Phone.* The cooldown of a new trigger is shorter than the clearing time
(`phone_emergency_brake_node.py:204`), which no code reads. A command that an older frame has overtaken
stays wrong if no further frame comes; an object that was cleared is made again by a frame in
flight; `_request_count += 1` is not locked; the gateway's time stamps are taken after detection; a
partial quaternion has covariance -1. `turret_angle_unit: auto` takes a heading below 2π degrees for radians (the
YAML file sets `deg`); the pose is that of the processing and not of the picture.

*Sensors.* An empty cloud of obstacles is not answered (`lidar_dbscan_cluster_node.py:154`), so the last
clusters stay; their ids begin anew in every frame. The sequential fallback gives a box the
nearest cluster even when the global pairing has refused it as ambiguous; a projected box includes samples that are
off the image; one frame, fused twice, can confirm an object.

*Potential field.* The node is not launched (`tank_autonomous_control.launch.py:385` is commented out). The bridge's
pose has w = 1, so that its yaw is 0; a box that contains the tank is dropped (`d <= 1e-6`), against
the comment at about `:776`; passing at the side is judged by the nearest source only; sources have no age; clusters
hide raw points.

*Mission.* `tank_scenario2.launch.py:291` has `_xy_dist(...) or float("inf")`: the distance 0.0 becomes
infinite, against the comment at `:287-289`. The first shot may be out of the weapon's range; a rounded score is
compared with one that is not; `verification.ok` is read by nobody; without targets the program
returns 2 and the old plan stays; the emergency fallback (50, 260) is 25 m from the target. The watcher in
`run_scenario2_scenario.py:89` takes the RETURN of an earlier run's nodes for its own and may judge "aborted".
After a lost reset call the terrain of route B contains that of route A, and a copy that could not be
removed is taken for the route's own if nothing replaces it (`run_recon_scenario.py:130-135`).

## 7. What is not modelled, and why

* Numbers: the ballistic solution, distances and weapon ranges, costs of terrain, forces, image
  and cloud formats. Where a decision compares them, the model has a small value on each side.
* Language-model calls: the prompt and the wording. What the code does with the answer (validation,
  repair, files) is in `RouteDecision`; the advisor's and the planner's answers are displayed and decide nothing.
* Display: `live_view.py` (a page of HTML and JavaScript in strings), RViz markers and mirrors, web pages,
  overlays, report and map generators. Nothing reads them back.
* The byte proxy and small tools: no decision and no state.
* `aim` and `aim_error` have no timeout in the code, so there is no statement that a shot is fired.
* Goals of reposition and of checkpoints are published once on a volatile topic; the start of the
  mission before its planner is up loses them, and only the operator notices. The models begin when
  all nodes are up, except where programs start them (`Scenario2Run`, `ReconRoutes`, `BridgeServer`).

`PROJECT.json` gives for each component what is left out of it.

## 8. What could come next

1. A liveness proof system: the safety halves of `BlocksAnswered`, `ChoiceIsShown`, `BrakeLetsGo` and
   `FramesAnswered` are proved, their liveness halves are checked by TLC alone.
2. `Routes` and `Field` as one composition: an object that is confirmed late, while a plan is being
   made around where it was thought to be.
3. The planner with two aborts and a restart of the advisor in between, once `mission_abort_cb` forces
   the goal as its comment says: `ReturnRecovers` would then be a property that passes.
