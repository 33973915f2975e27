------------------------------- MODULE Routes -------------------------------
(***************************************************************************)
(* How a route comes about, in parts that share no state at this level:    *)
(* the search, what it plans around and when it plans again, the points it *)
(* leads through, the rounding of its corners, and the lookahead along it; *)
(* the potential field that advises against it, and the choice between the *)
(* routes of reconnaissance.  A behaviour runs one part; a variable that   *)
(* several parts name is that part's, and the others' stay idle.           *)
(***************************************************************************)
EXTENDS Integers, FiniteSets, Sequences

CONSTANTS
    Cols, Rows, From, Via, To, Budgets,         \* of the search: the grid, its ends, the budgets
    Desired, Weight, Bound, SideWeight,         \*   and the costs
    Rough, Unit, Diagonal, Root, Excess,
    Lanes, Things, Inflate, Margin, Merge,      \* of what is planned around: places and distances,
    Match, Ttl, MaxMemory, MaxHistory,          \*   what is remembered
    Hits, Cooldown, FastCooldown, Guard,        \*   and what holds a replan back
    Waypoints, Home, Places, Missions, Detours, \* of the points, in metres
    Reached, Passed, PassedTol,
    Segments, Corners, Tangents, Brake,         \* of the corners
    Lengths, MaxVersion,                        \* of the lookahead
    Points, Boxes, Threat, Length, MaxDistance, \* of the potential field: what there is, distances
    Corridor, SideSafety, ThreatRadius, Watch,
    Caution, Danger, SidePass, HardClose, Activate, North,
    MaxPoints, BlockedTicks, ClearTicks,        \*   and counts
    MaxRounds, LiveView                         \* of the choice: comparisons, the configuration

Grid == (0 .. Cols - 1) \X (0 .. Rows - 1)
Squared(a, b) == (a[1] - b[1]) * (a[1] - b[1]) + (a[2] - b[2]) * (a[2] - b[2])
ASSUME SearchAssumption ==
    /\ {Cols, Rows} \subseteq Nat \ {0} /\ {From, Via, To} \subseteq Grid /\ Budgets \subseteq Int
    /\ {Desired, Weight, SideWeight} \subseteq Nat /\ Bound \in Int
\* What the shortest way over free cells costs, and how far the straight line may exceed it: by
\* nothing in the cells of this instance; on a grid of 300 x 300 by 0.064 of a straight step if a
\* diagonal costs 1.414, and by less than a millionth of one if it costs 1.41421356.
Octile(a, b) ==
    LET far(i) == IF a[i] < b[i] THEN b[i] - a[i] ELSE a[i] - b[i]
    IN  IF far(1) < far(2) THEN Unit * far(2) + (Diagonal - Unit) * far(1)
        ELSE Unit * far(1) + (Diagonal - Unit) * far(2)
ASSUME RootAssumption ==
    /\ {Unit, Diagonal} \subseteq Nat \ {0} /\ Diagonal \in Unit .. 2 * Unit /\ Excess \in Nat
    /\ \A a, b \in Grid : Root[Squared(a, b)] \in Nat /\ Root[Squared(a, b)] <= Octile(a, b) + Excess
ASSUME LegsAssumption ==
    /\ Waypoints \in Seq(Int \X Int) /\ Places \cup Missions \cup Detours \cup {Home} \subseteq Int \X Int
    /\ \A i, k \in DOMAIN Waypoints : Waypoints[i] = Waypoints[k] => i = k
    /\ Reached \in 0 .. 10 /\ Passed \in Nat /\ PassedTol \in Nat
ASSUME BlocksAssumption ==
    /\ Lanes \cup Things \subseteq Int /\ IsFiniteSet(Things)
    /\ {Inflate, Margin, Merge, Match, Ttl, Hits, Cooldown, FastCooldown, Guard} \subseteq Nat
    /\ {MaxMemory, MaxHistory} \subseteq Nat \ {0}
ASSUME ProfileAssumption ==
    Corners \in Nat /\ Segments \subseteq Nat \ {0} /\ Tangents \subseteq Nat \ {0, 1} /\ Brake \in Int
ASSUME FollowAssumption == Lengths \subseteq Nat \ {0}
ASSUME FieldAssumption ==
    /\ Points \subseteq Int \X Int /\ Boxes \subseteq [lo : Int \X Int, hi : Int \X Int]
    /\ IsFiniteSet(Points) /\ IsFiniteSet(Boxes) /\ Length \in Nat
    /\ Danger \in Nat /\ North \in BOOLEAN /\ {MaxPoints, BlockedTicks, ClearTicks} \subseteq Nat \ {0}
ASSUME ChoiceAssumption == MaxRounds \in Nat /\ LiveView \in BOOLEAN

VARIABLES
    layer,          \* the part that runs
    mode, budget, grid, todo, at, frontier, came, cost, expansions, leg, step,
    clusters, known, memory, history, hits, since, moved, lane, age, tried,
    pos, temp, ret, plan, behind,
    lengths, bend, free,
    base, worker, timer, target, anew,
    x, raw, boxes, discovered, ground, blocked, cleared, active, warning, pivot, quiet,
    comparison, file, held, latest, attempted, running, thread, node, ask,
    refresher, alive, polled, built, shown, forced,
    goal,           \* of the search and the points
    route,          \* of the search, the points and the lookahead
    job,            \* of the blocks and the points
    index           \* of the points and the lookahead

Search  == INSTANCE GridSearch
Blocks  == INSTANCE PathBlocks
Legs    == INSTANCE RouteLegs
Profile == INSTANCE RouteProfile
Follow  == INSTANCE RouteFollow
Field   == INSTANCE PotentialField WITH clusters <- boxes, mode <- warning
Choice  == INSTANCE RouteDecision WITH memory <- held

\* A small map: a bend in the grid, a mission of two checkpoints, and an obstacle on each side.
SceneFrom      == <<0, 0>>
SceneVia       == <<2, 0>>
SceneTo        == <<3, 2>>
SceneRough     == {<<1, 1>>}
SceneRoot      == [n \in {0, 1, 2, 4, 5, 8, 9, 10, 13} |->
                     CASE n = 0 -> 0    [] n = 1 -> 1000 [] n = 2 -> 1414 [] n = 4 -> 2000  [] n = 5 -> 2236
                       [] n = 8 -> 2828 [] n = 9 -> 3000 [] n = 10 -> 3162 [] n = 13 -> 3605]
SceneWaypoints == <<<<50, 140>>, <<50, 265>>>>
SceneHome      == <<59, 27>>
ScenePlaces    == {<<59, 27>>, <<50, 100>>, <<49, 164>>, <<50, 244>>, <<50, 260>>, <<70, 150>>}
SceneMissions  == {<<49, 164>>, <<50, 260>>, <<59, 27>>}
SceneDetours   == {<<50, 148>>}
ScenePoints    == {<<2, 0>>, <<5, -2>>}
SceneBoxes     == {[lo |-> <<3, 1>>, hi |-> <<4, 3>>], [lo |-> <<6, 0>>, hi |-> <<6, 1>>]}
SceneThreat    == <<8, 0>>

ofSearch  == <<mode, budget, grid, todo, at, frontier, came, cost, expansions, leg, step>>
ofBlocks  == <<clusters, known, memory, history, hits, since, moved, lane, age, tried>>
ofLegs    == <<pos, temp, ret, plan, behind>>
ofProfile == <<lengths, bend, free>>
ofFollow  == <<base, worker, timer, target, anew>>
ofField   == <<x, raw, boxes, discovered, ground, blocked, cleared, active, warning, pivot, quiet>>
ofChoice  == <<comparison, file, held, latest, attempted, running, thread, node, ask,
               refresher, alive, polled, built, shown, forced>>
shared    == <<goal, route, job, index>>
beside    == <<ofField, ofChoice>>
plans     == <<ofSearch, ofBlocks, ofLegs, ofProfile, ofFollow, shared>>
routesVars == <<layer, plans, beside>>

NoSearch  == mode = 0 /\ budget = 0 /\ grid = 0 /\ todo = 0 /\ at = 0 /\ frontier = 0 /\ came = 0 /\ cost = 0
             /\ expansions = 0 /\ leg = 0 /\ step = 0
NoBlocks  == clusters = 0 /\ known = 0 /\ memory = 0 /\ history = 0 /\ hits = 0 /\ since = 0 /\ moved = 0
             /\ lane = 0 /\ age = 0 /\ tried = FALSE
NoLegs    == pos = 0 /\ temp = 0 /\ ret = 0 /\ plan = 0 /\ behind = 0
NoProfile == lengths = 0 /\ bend = 0 /\ free = 0
NoFollow  == base = 0 /\ worker = 0 /\ timer = 0 /\ target = 0 /\ anew = 0

NoShared  == goal = 0 /\ route = 0 /\ job = 0 /\ index = 0
NoPlans   == NoSearch /\ NoBlocks /\ NoLegs /\ NoProfile /\ NoFollow /\ NoShared

\* The last two start one way unless they run.
Beside ==
    /\ layer # "field" => ground = {}
    /\ layer # "choice" => forced = FALSE
    /\ Field!FieldInit /\ Choice!DecisionInit

PlansInit ==
    \/ /\ layer = "search" /\ Search!SearchInit /\ job = 0 /\ index = 0
       /\ NoBlocks /\ NoLegs /\ NoProfile /\ NoFollow
    \/ /\ layer = "blocks" /\ Blocks!BlocksInit /\ goal = 0 /\ route = 0 /\ index = 0
       /\ NoSearch /\ NoLegs /\ NoProfile /\ NoFollow
    \/ /\ layer = "legs" /\ Legs!LegsInit
       /\ NoSearch /\ NoBlocks /\ NoProfile /\ NoFollow
    \/ /\ layer = "profile" /\ Profile!ProfileInit /\ goal = 0 /\ route = 0 /\ job = 0 /\ index = 0
       /\ NoSearch /\ NoBlocks /\ NoLegs /\ NoFollow
    \/ /\ layer = "follow" /\ Follow!FollowInit /\ goal = 0 /\ job = 0
       /\ NoSearch /\ NoBlocks /\ NoLegs /\ NoProfile
    \/ layer \in {"field", "choice"} /\ NoPlans

RoutesInit ==
    /\ layer \in {"search", "blocks", "legs", "profile", "follow", "field", "choice"}
    /\ Beside /\ PlansInit

SearchRuns == /\ layer = "search" /\ Search!SearchStep
              /\ UNCHANGED <<layer, ofBlocks, ofLegs, ofProfile, ofFollow, job, index, beside>>
BlocksRest == UNCHANGED <<layer, ofSearch, ofLegs, ofProfile, ofFollow, goal, route, index, beside>>
BlocksRun  == layer = "blocks" /\ Blocks!BlocksStep /\ BlocksRest
LegsRun    == layer = "legs" /\ Legs!LegsStep /\ UNCHANGED <<layer, ofSearch, ofBlocks, ofProfile, ofFollow, beside>>
FollowRuns == /\ layer = "follow" /\ Follow!FollowStep
              /\ UNCHANGED <<layer, ofSearch, ofBlocks, ofLegs, ofProfile, goal, job, beside>>
FieldRuns  == layer = "field" /\ Field!FieldNext /\ UNCHANGED <<layer, plans, ofChoice>>
ChoiceRest == UNCHANGED <<layer, plans, ofField>>
ChoiceRuns == layer = "choice" /\ Choice!DecisionNext /\ ChoiceRest

RoutesNext == SearchRuns \/ BlocksRun \/ LegsRun \/ FollowRuns \/ FieldRuns \/ ChoiceRuns

\* The timer, the planning thread and the refresher of the screen run, and time passes.
Fairness ==
    /\ WF_routesVars(layer = "blocks" /\ Blocks!Tick /\ BlocksRest)
    /\ WF_routesVars(layer = "blocks" /\ Blocks!Worker /\ BlocksRest)
    /\ WF_routesVars(layer = "blocks" /\ Blocks!BlocksClock /\ BlocksRest)
    /\ WF_routesVars(layer = "choice" /\ (Choice!Build \/ Choice!Swap \/ Choice!Stop) /\ ChoiceRest)

RoutesSpec == RoutesInit /\ [][RoutesNext]_routesVars /\ Fairness

-----------------------------------------------------------------------------
\* A* keeps its word: cheapest, clear and joined (GridSearch); and the corners that are rounded
\* after it neither overlap nor speed up again (RouteProfile).
RouteSound == (layer = "search" => Search!RouteSound) /\ (layer = "profile" => Profile!ProfileSound)

\* A plan goes around whatever was in view lately, and a route that stays blocked is answered
\* again and again (PathBlocks).
BlocksAnswered ==
    /\ [](layer = "blocks" => Blocks!PlanAvoidsSeen)
    /\ <>[](layer = "blocks" /\ Blocks!Blocked) => []<>tried

\* Checkpoints serve the goal and never lead back (RouteLegs).
LegsServeGoal == layer = "legs" => Legs!LegsServeGoal

\* The lookahead goes on (RouteFollow).
NoStepBack == [][layer = "follow" => Follow!GoesOn]_routesVars

\* The nearest obstacle on the way is advised on, and the force gives way only when nothing was
\* near for a while (PotentialField).
AdviceIsEarned ==
    []Field!FieldTypeOK /\ [][layer = "field" => Field!AdvisedNow]_routesVars /\ Field!PassThroughEarned

\* The screen marks only a validated choice and never the forced one; and with the live view on,
\* while the browser goes on polling and once payloads can be built again, it comes to show a valid
\* result that stays, whatever it has shown before and whenever the refresher went to sleep
\* (RouteDecision).
ChoiceIsShown ==
    /\ [](Choice!DecisionTypeOK /\ Choice!ShownIsValidated)
    /\ (/\ LiveView /\ <>[][~Choice!BuildFails]_routesVars
        /\ <>[](layer = "choice" /\ (file.kind = "ok" \/ latest.kind = "ok"))
        /\ []<><<layer = "choice" /\ Choice!Poll>>_routesVars)
       => <>[](shown.kind \in {"ok", "masked"})
=============================================================================
