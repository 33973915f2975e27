-------------------------------- MODULE Field --------------------------------
(***************************************************************************)
(* From what the sensors say to a mission, in parts that share no state at *)
(* this level: LiDAR hits to clusters ("lidar"), boxes of the camera and   *)
(* clusters to objects ("image", and the pairing by itself, for any        *)
(* scores, "match"), objects to the map of discovered ones ("map"), what   *)
(* the phone sees to its place and to the walls the planner plans around   *)
(* ("place", "wall"); the files of a reconnaissance of two routes          *)
(* ("rounds"), the plan that is made of them ("plan"), and the judgement   *)
(* of scenario 2 ("mission").  A behaviour runs one part, from any start   *)
(* of it, and leaves the others as they start.                             *)
(***************************************************************************)
EXTENDS Integers, Sequences, FiniteSets

CONSTANTS
    MatchDets, MatchClusters, MatchMax, MatchDelta,     \* of the pairing by itself
    Width, Behind, Cameras, Margin,             \* of the image: columns, cameras, boxes and clusters
    Dets, Boxes, Clusters, Shapes, MinHits,     \*   and when they go together
    MinRange, MaxRange, Limit, PersonLimit, MaxScore, Delta,
    Points, MinPoints, Gate,
    Classes, Places, Pixels, Views, MaxIds,     \* of the map: places on a line, where the camera
    Merge, Outlier, Confirm, Decay, Known,      \*   may look, distances and times
    Stable,                                     \* of the judgement
    Cells, Columns, Climb, MinHeight,           \* of the grid of the LiDAR
    Eps, MinSamples, MinSize, MaxPoints,        \*   and of its clusters
    PhoneClasses, Road, Sights, TrackMerge,     \* of the tracks of the phone and the mux: road and
    Ttl, LockTtl, MaxTracks, TrackIds,          \*   distances, lives, bounds, what the LiDAR sees
    Rocks, RealTtl, PhoneTtl,
    Route, Sizes, Bias, MinPlace, MaxPlace,     \* of the placement: route and distances, limits,
    MinWall, MaxWall,                           \*   and of the readings
    Lookahead, MinLook, Stale, TurretStale,
    Path, Spots, MaxFound, FinalTank,           \* of the plan: routes, tanks that may be found, fixed
    Walls, Ridges, Anchor, Firebase, LastBase,  \*   places, what may be in the way, the gun's ranges
    GunMin, GunMax, Tactical, BestStatic,       \*   and distances
    BestFinal, Exposed, Duplicate, Same,
    Fallbacks, Preferred

ASSUME FieldAssumption ==
    /\ MatchDets \subseteq Int /\ IsFiniteSet(MatchDets) /\ MatchClusters \subseteq Int /\ IsFiniteSet(MatchClusters)
    /\ MatchMax \in Nat /\ MatchDelta \in Nat
    /\ Width \in Nat /\ Behind \in Nat /\ Cameras \subseteq Int /\ Margin \in Nat
    /\ Dets \subseteq Nat \ {0} /\ IsFiniteSet(Dets) /\ Clusters \subseteq Nat \ {0} /\ IsFiniteSet(Clusters)
    /\ Boxes \subseteq [lo : Int, hi : Int, person : BOOLEAN] /\ (\A b \in Boxes : b.lo < b.hi)
    /\ Shapes \subseteq [center : Int, members : SUBSET Int, distance : Int]
    /\ (\A c \in Shapes : IsFiniteSet(c.members))
    /\ MinHits \in Nat /\ MinRange \in Nat /\ MaxRange \in Nat
    /\ {Limit, PersonLimit, MaxScore, Delta} \subseteq Nat
    /\ Points \subseteq [bearing : Int, distance : Int] /\ IsFiniteSet(Points) /\ MinPoints \in Nat \ {0} /\ Gate \in Nat
    /\ Places \subseteq Int /\ (\A p, q \in Places : p .. q \subseteq Places)
    /\ Pixels \subseteq Int /\ Views \subseteq Int /\ 0 \in Views /\ MaxIds \in Nat
    /\ Merge \in Nat /\ Outlier \in Nat /\ Confirm \in Nat \ {0} /\ Decay \in Nat /\ Known \in Nat
    /\ Stable \in Nat
    /\ Cells \subseteq Int /\ IsFiniteSet(Cells) /\ UNION Columns \subseteq Int /\ IsFiniteSet(UNION Columns)
    /\ Climb \in Nat /\ MinHeight \in Nat
    /\ Eps \in Nat /\ MinSamples \in Nat /\ MinSize \in Nat /\ MaxPoints \in Nat
    /\ Road \in Nat /\ Sights \subseteq Nat /\ TrackMerge \in Nat
    /\ Ttl \in Nat /\ LockTtl \in Nat /\ MaxTracks \in Nat /\ TrackIds \in Nat
    /\ Rocks \subseteq Int /\ RealTtl \in Nat /\ PhoneTtl \in Nat
    /\ Route \in Nat /\ Sizes \subseteq Nat /\ Bias \in Int /\ MinPlace \in Nat /\ MaxPlace \in Nat
    /\ MinWall \in Nat /\ MaxWall \in Nat
    /\ Lookahead \in Nat /\ MinLook \in Nat /\ Stale \in Nat /\ TurretStale \in Nat

VARIABLES
    layer,      \* the part that runs
    score,
    view, frame, cloud, discovered, nextId,
    filter, hits, work, todo, steep, obstacles, clusters,
    strict, box, cluster, camera, fused,
    here, inject, tracks, made, wall, wallAge, real, realAge,
    reference, center, spot, body, look, turret, imu,
    leg, pc, tank, stack, mapper, report, disc, discFresh, terr, terrFresh,
    up, on, points, saving, reset, finalize, out, cleared,
    world, stage, results, route, engagements, shown, problems, shots,
    step, nodes, deciding, location, reached, seenAt, heard, enteredReturn, near, outcome

\* A small map for the plan: two short routes, three places where a tank may be found, a wall and
\* a ridge that may be there, and the fixed places of scenario 2, in units of ten metres.
ScenePath == [A |-> <<<<5, 16>>, <<5, 18>>, <<5, 20>>, <<5, 26>>>>,
              B |-> <<<<9, 13>>, <<10, 18>>, <<9, 22>>>>]
SceneSpots    == {<<5, 28>>, <<7, 30>>, <<12, 27>>}
SceneWalls    == {[lo |-> <<4, 23>>, hi |-> <<6, 24>>]}
SceneRidges   == {[lo |-> <<5, 17>>, hi |-> <<7, 18>>]}
SceneFinal    == <<13, 28>>
SceneAnchor   == <<5, 28>>
SceneFirebase == <<5, 16>>
SceneLastBase == <<5, 26>>

\* A small image: boxes that overlap, clusters at either side of it, points between.
SceneBoxes  ==
    {[lo |-> 0, hi |-> 1, person |-> FALSE], [lo |-> 1, hi |-> 3, person |-> FALSE],
     [lo |-> 0, hi |-> 3, person |-> FALSE], [lo |-> 3, hi |-> 5, person |-> TRUE]}
SceneShapes == [center : {1, 4}, members : {{0, 1}, {3, 4}, {-3, 5}}, distance : {1, 3}]
ScenePoints == {[bearing |-> 1, distance |-> 2], [bearing |-> 2, distance |-> 2], [bearing |-> 4, distance |-> 3]}

Pairing == INSTANCE ClusterMatch WITH Dets <- MatchDets, Clusters <- MatchClusters, MaxScore <- MatchMax,
               Delta <- MatchDelta
Map     == INSTANCE LocalMap
Lidar   == INSTANCE LidarClusters WITH cloud <- hits, stage <- work
Image   == INSTANCE Projection
Phone   == INSTANCE PhoneTracks WITH Classes <- PhoneClasses, Far <- Road, Ahead <- Sights, Merge <- TrackMerge,
               Ids <- TrackIds
Place   == INSTANCE PhonePlacement WITH here <- spot, Far <- Route, Ahead <- Sizes
Rounds  == INSTANCE ReconRoutes
Plan    == INSTANCE MissionPlan WITH MinRange <- GunMin, MaxRange <- GunMax, Match <- Same
Mission == INSTANCE Scenario2Run WITH place <- location

\* Ranges in their order, and the two targets the launch file falls back on are not one.
ASSUME PlanAssumption ==
    /\ Preferred \in DOMAIN Path /\ \A r \in DOMAIN Path : Path[r] \in Seq(Int \X Int) /\ Len(Path[r]) > 1
    /\ Spots \cup {FinalTank, Anchor, Firebase, LastBase} \subseteq Int \X Int
    /\ {GunMin, GunMax, Tactical, Exposed, Duplicate, Same, Fallbacks, MaxFound} \subseteq Nat
    /\ BestStatic \in Int /\ BestFinal \in Int /\ GunMin <= Tactical
    /\ Plan!Dist(Anchor, FinalTank) >= Duplicate

map       == <<view, frame, cloud, discovered, nextId>>
lidar     == <<filter, hits, work, todo, steep, obstacles, clusters>>
image     == <<strict, box, cluster, camera, fused>>
walls     == <<here, inject, tracks, made, wall, wallAge, real, realAge>>
place     == <<reference, center, spot, body, look, turret, imu>>
rounds    == <<leg, pc, tank, stack, mapper, report, disc, discFresh, terr, terrFresh,
             up, on, points, saving, reset, finalize, out, cleared>>
plan      == <<world, stage, results, route, engagements, shown, problems, shots>>
mission   == <<step, nodes, deciding, location, reached, seenAt, heard, enteredReturn, near, outcome>>
objects   == <<score, map, lidar, image, walls, place>>
missions  == <<rounds, plan, mission>>
fieldVars == <<layer, objects, missions>>

NoPlan == world = 0 /\ stage = "idle" /\ results = 0 /\ route = 0 /\ engagements = 0 /\ shown = 0
          /\ problems = 0 /\ shots = 0

\* Any start of the part that runs; the others do not matter.
FieldInit ==
    /\ layer \in {"match", "map", "lidar", "image", "wall", "place", "rounds", "plan", "mission"}
    /\ IF layer = "match" THEN Pairing!MatchInit ELSE score = [p \in MatchDets \X MatchClusters |-> 0]
    /\ layer # "map" => view = 0
    /\ Map!MapInit
    /\ layer # "lidar" => filter = FALSE
    /\ Lidar!LidarInit
    /\ IF layer = "image" THEN Image!ProjectionInit
       ELSE strict = FALSE /\ box = 0 /\ cluster = 0 /\ camera = 0 /\ fused = {Image!NotYet}
    /\ Phone!PhoneInit
    /\ layer # "place" => reference = "path" /\ center = "object"
    /\ Place!PlacementInit
    /\ layer # "rounds" => disc = 0 /\ terr = {} /\ up = TRUE /\ on = TRUE /\ points = {}
                           /\ report = [r \in {1, 2} |-> 0] /\ out = [r \in {1, 2} |-> [disc |-> 0, terr |-> {}]]
    /\ Rounds!RoutesInit
    /\ IF layer = "plan" THEN Plan!PlanInit ELSE NoPlan
    /\ layer # "mission" => nodes = "none" /\ deciding = "FORWARD" /\ location = "start" /\ reached = "none"
    /\ Mission!MissionInit

FieldNext ==
    \/ layer = "map" /\ Map!MapStep /\ UNCHANGED <<layer, score, lidar, image, walls, place, missions>>
    \/ layer = "lidar" /\ Lidar!LidarNext /\ UNCHANGED <<layer, score, map, image, walls, place, missions>>
    \/ layer = "image" /\ Image!ProjectionNext /\ UNCHANGED <<layer, score, map, lidar, walls, place, missions>>
    \/ /\ layer = "wall" /\ (Phone!PhoneStep \/ Phone!PhoneClock)
       /\ UNCHANGED <<layer, score, map, lidar, image, place, missions>>
    \/ layer = "place" /\ Place!PlacementNext /\ UNCHANGED <<layer, score, map, lidar, image, walls, missions>>
    \/ layer = "rounds" /\ Rounds!RoutesStep /\ UNCHANGED <<layer, objects, plan, mission>>
    \/ layer = "plan" /\ Plan!PlanNext /\ UNCHANGED <<layer, objects, rounds, mission>>
    \/ layer = "mission" /\ Mission!MissionStep /\ UNCHANGED <<layer, objects, rounds, plan>>

\* One part by itself.
PlanOnly == FieldInit /\ layer = "plan" /\ [][FieldNext]_fieldVars

FieldSpec == FieldInit /\ [][FieldNext]_fieldVars

-----------------------------------------------------------------------------
\* What rises is an obstacle whatever the order of the cells, and the clusters are those of the
\* hits (LidarClusters).
LidarSound == Lidar!WallsAreSeen /\ Lidar!ClustersSound

\* Greedy pairing gives every detection the best cluster it can have, or none (ClusterMatch), and
\* a box becomes an object at its own cluster or nowhere (Projection).
ObjectsAreOwn == (layer = "match" => Pairing!AssignmentSound) /\ Image!ObjectsAreOwn

\* Confirmed objects stay where they are and are not asked for again (LocalMap).
MapIsSteady == []Map!MapTypeOK /\ Map!MapIsSteady

\* The wall of a track stays where it was first put, what the cluster mux gives to the planner is
\* true of what the sensors said (PhoneTracks), and a wall for the way to come stands on it
\* (PhonePlacement).
PhoneWallsTrue ==
    [](Phone!PhoneTypeOK /\ Phone!MergedIsTrue /\ Place!WallAhead) /\ Phone!WallStays

\* What a run leaves or is judged by is its own: the files of a finished route (ReconRoutes), and
\* the report that makes a mission a success (Scenario2Run); with the types of both.
ArtifactsAreOwn ==
    /\ Rounds!RoutesTypeOK /\ Mission!MissionTypeOK
    /\ Rounds!ArtifactsAreOwn /\ Mission!SuccessIsOwn

\* Each target has the best kind of firing position it can have, and the turret is given two
\* shots, at the static tank and at the final enemy (MissionPlan).
PlanSound == Plan!PositionsSound /\ Plan!SequenceSound

\* The plan the operator reads agrees with the engagements that the launch file is given
\* (MissionPlan).
PlanShown == Plan!PlanInSync
=============================================================================
