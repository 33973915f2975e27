--------------------------- MODULE PhonePlacement ---------------------------
(***************************************************************************)
(* phone_virtual_obstacle_node.py: where an object that the phone sees is  *)
(* put.  The bearing comes from the look-ahead of the path, the turret,    *)
(* the phone or the body, each only while it is fresh enough, and the      *)
(* emergency wall may be moved to the look-ahead.  The tank drives along a *)
(* line of places, and a heading is 1 (along the route) or -1.             *)
(***************************************************************************)
EXTENDS Integers

CONSTANTS
    Far,                \* the last place of the route
    Ahead,              \* distances that the size of the box stands for
    Bias, MinPlace, MaxPlace,   \* placement_distance_bias_m and the limits of the placement
    MinWall, MaxWall,   \* emergency_wall_min_forward_m, emergency_wall_max_forward_m
    Lookahead,          \* how far ahead the planner's look-ahead is
    MinLook, Stale,     \* lookahead_min_distance_m, lookahead_stale_sec
    TurretStale         \* turret_stale_sec

VARIABLES
    reference,          \* bearing_reference_mode
    center,             \* emergency_wall_center_mode
    here, body,         \* player_pose
    look, turret, imu   \* the last look-ahead, turret heading and phone heading, with their ages

placement == <<reference, center, here, body, look, turret, imu>>

Headings == {-1, 1}
References == {"path", "turret", "phone", "body"}
Centers == {"object", "turret_snapshot", "lookahead_snapshot"}
None == [known |-> FALSE, value |-> 0, age |-> 0]

Gap(a, b) == IF a < b THEN b - a ELSE a - b
Clamp(n, low, high) == IF n < low THEN low ELSE IF n > high THEN high ELSE n
Toward(place) == IF place < here THEN -1 ELSE 1

PlacementInit ==
    /\ reference \in References /\ center \in Centers
    /\ here = 0 /\ body = 1 /\ look = None /\ turret = None /\ imu = None

Fresh(reading, limit) == reading.known /\ reading.age <= limit

\* A look-ahead that can be used: new, and not where the tank is.
Leads == Fresh(look, Stale) /\ Gap(here, look.value) >= MinLook

\* _bearing_base_yaw
Bearing ==
    CASE reference = "path" /\ Leads -> Toward(look.value)
      [] reference = "turret" /\ Fresh(turret, TurretStale) -> turret.value
      [] reference = "phone" /\ imu.known -> imu.value
      [] OTHER -> body

Placed(d) == Clamp(d + Bias, MinPlace, MaxPlace)

\* _lookahead_anchor_xy and _apply_emergency_anchor_to_candidate
Wall(d) ==
    CASE center = "object" -> here + Bearing * Placed(d)
      [] center = "lookahead_snapshot" /\ Leads ->
            here + Toward(look.value) * Clamp(Gap(here, look.value), MinWall, MaxWall)
      [] OTHER -> here + Bearing * Clamp(Placed(d), MinWall, MaxWall)

\* lookahead_pose_cb, turret_cb, imu_json_cb, player_pose_cb
Look ==
    /\ look' = [known |-> TRUE, value |-> IF here + Lookahead < Far THEN here + Lookahead ELSE Far, age |-> 0]
    /\ UNCHANGED <<reference, center, here, body, turret, imu>>
Turret ==
    /\ turret' \in [known : {TRUE}, value : Headings, age : {0}]
    /\ UNCHANGED <<reference, center, here, body, look, imu>>
Phone ==
    /\ imu' \in [known : {TRUE}, value : Headings, age : {0}]
    /\ UNCHANGED <<reference, center, here, body, look, turret>>
Turn == body' = -body /\ UNCHANGED <<reference, center, here, look, turret, imu>>

Older(reading, limit) == IF reading.known /\ reading.age <= limit THEN [reading EXCEPT !.age = @ + 1] ELSE reading
\* In a second the tank drives one place or none.
Second ==
    /\ here' \in {here, here + body} \cap (0 .. Far)
    /\ look' = Older(look, Stale) /\ turret' = Older(turret, TurretStale)
    /\ UNCHANGED <<reference, center, body, imu>>

PlacementNext == Look \/ Turret \/ Phone \/ Turn \/ Second
PlacementSpec == PlacementInit /\ [][PlacementNext]_placement

-----------------------------------------------------------------------------
\* Whenever a detection comes: the wall is near enough to matter and not on the tank; and it
\* stands on the way to come and not on the way behind, if the planner leads on and the wall is
\* meant for the path, whatever the tank and the turret have turned to since and though the
\* tank may have passed the look-ahead, or else if the tank and the turret look that way.
WallAhead ==
    LET reach   == IF center = "object" THEN MinPlace .. MaxPlace ELSE MinWall .. MaxWall
        onPath  == Leads /\ (center = "lookahead_snapshot" \/ reference = "path")
        forward == body = 1 /\ \A r \in {turret, imu} : r.known => r.value = 1
    IN  \A d \in Ahead : Gap(here, Wall(d)) \in reach /\ (onPath \/ forward => Wall(d) > here)
=============================================================================
