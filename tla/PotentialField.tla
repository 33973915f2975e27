--------------------------- MODULE PotentialField ---------------------------
(***************************************************************************)
(* The potential field node: three sources of obstacles, each replaced     *)
(* whole by its topic and without an age, the filter that leaves a few     *)
(* points of them, the counters that switch between the lookahead point    *)
(* and the force, and the advice to the controller.                        *)
(*                                                                         *)
(* Points are pairs of integers about a voxel apart.  The tank drives on   *)
(* the row 0 towards a lookahead point ahead of it.  The bridge publishes  *)
(* a pose without rotation, so that the bearing of an obstacle is measured *)
(* from the x axis of the map, whichever way the row runs on it.           *)
(* Of the forces only this is kept: whether they are above the threshold,  *)
(* which within the activation distance does not matter, and whether their *)
(* sum points away from the heading.                                       *)
(***************************************************************************)
EXTENDS Integers, FiniteSets

CONSTANTS
    Points,         \* where LiDAR hits and discovered objects are
    Boxes,          \* bounding boxes [lo, hi] of clusters and of known obstacles
    Threat,         \* a threat, on the row
    Length,         \* the last position of the drive
    MaxDistance, Corridor, SideSafety, ThreatRadius,
    Watch, Caution, Danger, SidePass, HardClose, Activate,
    North,          \* the row runs along the map's y axis, not its x axis
    MaxPoints, BlockedTicks, ClearTicks

VARIABLES
    x,              \* player_pos
    raw, clusters, discovered, ground,  \* the latest payload of each source
    blocked, cleared, active,           \* blocked_count, clear_count, apf_active
    mode, pivot,    \* the safety status: its mode, emergency_pivot_recommended
    quiet           \* history: ticks in a row with nothing near and no force, up to ClearTicks

sources == <<raw, clusters, discovered, ground>>
switch  == <<blocked, cleared, active>>
status  == <<mode, pivot, quiet>>
vars    == <<x, sources, switch, status>>

Abs(n) == IF n < 0 THEN -n ELSE n
Least(a, b) == IF a < b THEN a ELSE b
Clamped(v, lo, hi) == IF v < lo THEN lo ELSE IF v > hi THEN hi ELSE v

\* Relative to the tank, which looks along the row.
Ahead(p) == p[1] - x
Aside(p) == Abs(p[2])
Squared(p) == Ahead(p) * Ahead(p) + Aside(p) * Aside(p)
Within(p, d) == Squared(p) <= d * d

-----------------------------------------------------------------------------
(* The sources. *)

\* A cluster stands for the point of its box next to the tank.
Closest(b) == <<Clamped(x, b.lo[1], b.hi[1]), Clamped(0, b.lo[2], b.hi[2])>>
ClusterPoints == {Closest(b) : b \in clusters}

\* Neither behind nor off the corridor and the sector of 120 degrees; what is close stays.
Eligible(p) ==
    /\ Squared(p) > 0 /\ Within(p, MaxDistance) /\ Ahead(p) >= -1
    /\ \/ Within(p, SideSafety) /\ Ahead(p) >= 0
       \/ Aside(p) <= Corridor /\ Aside(p) * Aside(p) <= 3 * Ahead(p) * Ahead(p) /\ Ahead(p) > 0

\* As Before, the farthest first.
FarFirst(p, q) == Squared(p) > Squared(q) \/ (Squared(p) = Squared(q) /\ p[1] <= q[1])

\* The order of the sort; ties are in the order of the payload, here any.
Before(p, q) ==
    \/ Squared(p) < Squared(q)
    \/ Squared(p) = Squared(q) /\ (p[1] < q[1] \/ (p[1] = q[1] /\ p[2] <= q[2]))

Voxel(p) == <<p[1] \div 2, p[2] \div 2>>

\* filter_obstacles_for_apf: of each voxel the first, of these the first few.
Filter(S, limit) ==
    LET near  == {p \in S : Eligible(p)}
        first == {p \in near : \A q \in near : Voxel(q) = Voxel(p) => Before(p, q)}
    IN  {p \in first : Cardinality({q \in first : Before(q, p)}) <= limit}

\* choose_obstacles_for_apf: clusters, or raw points while no cluster is left; then the objects,
\* whose own limit of 20 is above what this instance has.
Base == IF Filter(ClusterPoints, MaxPoints) # {} THEN ClusterPoints ELSE raw
Chosen ==
    LET c == Filter(ClusterPoints, MaxPoints)
        b == IF c # {} THEN c ELSE Filter(raw, MaxPoints)
    IN  Filter(b \cup Filter(discovered, 20), MaxPoints)

Nearest(S) == CHOOSE p \in S : \A q \in S : Before(p, q)

\* is_threat_active: in range, and no known obstacle on the line but the one around the threat.
Covers(b, p) == \A i \in {1, 2} : b.lo[i] <= p[i] /\ p[i] <= b.hi[i]
OnLine(b) ==
    /\ b.lo[2] <= 0 /\ b.hi[2] >= 0
    /\ b.lo[1] <= Threat[1] /\ b.hi[1] >= x
InSight == Within(Threat, ThreatRadius) /\ \A b \in ground : Covers(b, Threat) \/ ~OnLine(b)

-----------------------------------------------------------------------------
(* The advice. *)

\* The bearing of the nearest obstacle from the map's x axis: at most 42 degrees, at least 58.
Along(p)   == IF North THEN p[2] ELSE Ahead(p)
Across(p)  == IF North THEN Abs(Ahead(p)) ELSE Aside(p)
InFront(p) == 10 * Across(p) <= 9 * Along(p)
Beside(p)  == 10 * Across(p) >= 16 * Along(p)

Blocks(p) == Within(p, HardClose) \/ InFront(p)
Passes(p) == Beside(p) /\ Squared(p) >= SidePass * SidePass /\ ~Within(p, HardClose)

ByDistance(p) ==
    IF Within(p, Danger) THEN "danger" ELSE IF Within(p, Caution) THEN "caution"
    ELSE IF Within(p, Watch) THEN "watch" ELSE "clear"

\* apf_heading_stop_distance and the caution distance, 7.5 and 8 m, are one here.
Pivots(p, askew) ==
    /\ Blocks(p) /\ ~Passes(p)
    /\ Within(p, Danger) \/ (active' /\ askew /\ Within(p, Caution))

\* publish_safety_status, of the obstacles that are left.
Advise(S, askew) ==
    IF S = {} THEN mode' = "clear" /\ pivot' = FALSE
    ELSE LET p == Nearest(S)
         IN  /\ pivot' = Pivots(p, askew)
             /\ mode' = IF Passes(p) /\ Within(p, Danger) THEN "caution"
                        ELSE IF pivot' THEN "danger" ELSE ByDistance(p)

-----------------------------------------------------------------------------
FieldInit ==
    /\ x = 0 /\ raw = {} /\ clusters = {} /\ discovered = {} /\ ground \in SUBSET Boxes
    /\ blocked = 0 /\ cleared = 0 /\ active = FALSE
    /\ mode = "clear" /\ pivot = FALSE /\ quiet = 0

PlayerMoves == x < Length /\ x' = x + 1 /\ UNCHANGED <<sources, switch, status>>

LidarCloud == raw' \in SUBSET Points /\ UNCHANGED <<x, clusters, discovered, ground, switch, status>>
LidarClusters == clusters' \in SUBSET Boxes /\ UNCHANGED <<x, raw, discovered, ground, switch, status>>
Discovered == discovered' \in SUBSET Points /\ UNCHANGED <<x, raw, clusters, ground, switch, status>>
GroundTruth == ground' \in SUBSET Boxes /\ UNCHANGED <<x, raw, clusters, discovered, switch, status>>

NearOf(S) == \E p \in S : Within(p, Activate)

\* Each kind of tick resets the count of the other; counted as far as it matters.
Count(b) ==
    /\ blocked' = IF b THEN Least(blocked + 1, BlockedTicks) ELSE 0
    /\ cleared' = IF b THEN 0 ELSE Least(cleared + 1, ClearTicks)

\* timer_cb.
Tick(S, strong, askew) ==
    /\ Count(NearOf(S) \/ strong)
    /\ active' = IF active THEN cleared' < ClearTicks ELSE blocked' >= BlockedTicks
    /\ quiet' = IF NearOf(S) \/ strong THEN 0 ELSE Least(quiet + 1, ClearTicks)
    /\ Advise(S, askew)
    /\ UNCHANGED <<x, sources>>

\* Whether a force is above the threshold: without an obstacle and a threat in sight, none is.
Strengths(S) == IF S = {} /\ ~InSight THEN {FALSE} ELSE BOOLEAN

Timer == LET S == Chosen IN \E strong \in Strengths(S), askew \in BOOLEAN : Tick(S, strong, askew)

FieldNext == PlayerMoves \/ LidarCloud \/ LidarClusters \/ Discovered \/ GroundTruth \/ Timer
FieldSpec == FieldInit /\ [][FieldNext]_vars

-----------------------------------------------------------------------------
\* Type invariant.
FieldTypeOK ==
    /\ x \in 0 .. Length /\ {raw, discovered} \subseteq SUBSET Points
    /\ {clusters, ground} \subseteq SUBSET Boxes
    /\ blocked \in 0 .. BlockedTicks /\ cleared \in 0 .. ClearTicks /\ {active, pivot} \subseteq BOOLEAN
    /\ mode \in {"clear", "watch", "caution", "danger"} /\ quiet \in 0 .. ClearTicks

\* Something of the sources in use that is on the way and within the danger distance is always
\* advised on: no voxel, limit or fallback between them hides the nearest obstacle.
AdvisedNow ==
    Timer => \A p \in Base \cup discovered :
               Eligible(p) /\ Within(p, Danger) => mode' \in {"danger", "caution"}

\* The force gives way to the lookahead point only after a row of ticks with nothing near and no
\* force, however the sources flicker.
PassThroughEarned == [][active /\ ~active' => quiet' = ClearTicks]_vars
=============================================================================
