--------------------------- MODULE LidarClusters ---------------------------
(***************************************************************************)
(* From the LiDAR hits of one request to the clusters everybody works      *)
(* with: the bridge keeps the detected hits, the processor separates       *)
(* terrain from obstacles on a grid, and the DBSCAN node groups what is    *)
(* left and publishes it, unless nothing is left.                          *)
(*                                                                         *)
(* The grid is a row of cells; a hit is its cell and its height.           *)
(***************************************************************************)
EXTENDS Integers, FiniteSets, FiniteSetsExt

CONSTANTS
    Cells,          \* the numbers of the cells
    Columns,        \* what may be hit in a cell: sets of heights
    Climb,          \* climb_limit
    MinHeight,      \* obstacle_min_height
    Eps, MinSamples, MinSize,   \* of DBSCAN; eps in cells
    MaxPoints       \* beyond it the DBSCAN node takes a random sample

VARIABLES
    filter,         \* ground_filter_enabled
    cloud,          \* the raw cloud: cell -> heights
    stage,
    todo, steep,    \* cells still to look at, cells found steep
    obstacles,      \* the obstacle cloud, after Cluster what the DBSCAN node took of it
    clusters        \* the last published clusters: sets of hits

lidarVars == <<filter, cloud, stage, todo, steep, obstacles, clusters>>

Occupied == {c \in Cells : cloud[c] # {}}
All == {p \in Cells \X UNION Columns : p[2] \in cloud[p[1]]}
Beside(c) == Occupied \cap {c - 1, c + 1}
Ground(c) == Min(cloud[c])
Gap(c, d) == IF Ground(c) < Ground(d) THEN Ground(d) - Ground(c) ELSE Ground(c) - Ground(d)

LidarInit ==
    /\ filter \in BOOLEAN /\ cloud = [c \in Cells |-> {}] /\ stage = "waiting"
    /\ todo = {} /\ steep = {} /\ obstacles = {} /\ clusters = {}

\* publish_lidar_from_info: the detected hits of the next request.
Scan ==
    /\ stage = "waiting" /\ cloud' \in [Cells -> Columns]
    /\ stage' = (IF filter THEN "grid" ELSE "all")
    /\ todo' = (IF filter THEN {c \in Cells : cloud'[c] # {}} ELSE {}) /\ obstacles' = {}
    /\ UNCHANGED <<filter, steep, clusters>>

\* raw_pc2_cb with the filter off.
PassAll ==
    /\ stage = "all" /\ stage' = "separated" /\ obstacles' = All
    /\ UNCHANGED <<filter, cloud, todo, steep, clusters>>

\* As SplitCell, looking at the cell alone.
SplitAlone ==
    /\ stage = "grid" /\ \E c \in todo :
         /\ todo' = todo \ {c}
         /\ steep' = IF Max(cloud[c]) - Ground(c) > Climb THEN steep \cup {c} ELSE steep
    /\ UNCHANGED <<filter, cloud, stage, obstacles, clusters>>

\* One cell of the loop, in the order of the first hit in each; a tall cell does not look at
\* its neighbours.
SplitCell ==
    /\ stage = "grid" /\ \E c \in todo :
         /\ todo' = todo \ {c}
         /\ steep' = steep \cup
              (IF Max(cloud[c]) - Ground(c) > Climb THEN {c}
               ELSE UNION {{c, d} : d \in {d \in Beside(c) : Gap(c, d) > Climb}})
    /\ UNCHANGED <<filter, cloud, stage, obstacles, clusters>>

\* Of a steep cell the hits well above the lowest ground in and next to it.
Separate ==
    /\ stage = "grid" /\ todo = {} /\ stage' = "separated"
    /\ obstacles' = {p \in All : p[1] \in steep
                        /\ p[2] > Min({Ground(d) : d \in {p[1]} \cup Beside(p[1])}) + MinHeight}
    /\ steep' = {}
    /\ UNCHANGED <<filter, cloud, todo, clusters>>

-----------------------------------------------------------------------------
(* DBSCAN on the plane: heights do not count. *)

Near(p, q) == p[1] - q[1] <= Eps /\ q[1] - p[1] <= Eps
Core(S) == {p \in S : Cardinality({q \in S : Near(p, q)}) >= MinSamples}

\* What is reached from p over core points: what no set can leave out that holds p and, with a
\* core point, all that is near it.
Closed(S, T) == \A r \in T \cap Core(S), q \in S : Near(q, r) => q \in T
Reached(S, p) == {q \in S : \A T \in SUBSET S : p \in T /\ Closed(S, T) => q \in T}

\* A point on the border of two clusters goes to the one that is found first, here either.
Groups(S) ==
    LET whole  == {Reached(S, p) : p \in Core(S)}
        border == {q \in UNION whole \ Core(S) : \E a, b \in whole : a # b /\ q \in a \cap b}
        first  == [border -> whole]
    IN  {{{q \in a : q \in border => f[q] = a} : a \in whole} :
            f \in {g \in first : \A q \in border : q \in g[q]}}

\* on_lidar: an empty cloud is not answered.
Cluster ==
    /\ stage = "separated" /\ stage' = "waiting"
    /\ cloud' = [c \in Cells |-> {}]
    /\ IF obstacles = {} THEN UNCHANGED <<obstacles, clusters>>
       ELSE \E s \in IF Cardinality(obstacles) > MaxPoints THEN kSubset(MaxPoints, obstacles) ELSE {obstacles} :
              /\ obstacles' = s
              /\ \E g \in Groups(s) : clusters' = {c \in g : Cardinality(c) >= MinSize}
    /\ UNCHANGED <<filter, todo, steep>>

LidarNext == Scan \/ PassAll \/ SplitCell \/ Separate \/ Cluster
LidarSpec == LidarInit /\ [][LidarNext]_lidarVars

-----------------------------------------------------------------------------
\* Whatever the order of the cells: a hit that rises above the limit over another of its cell,
\* or whose whole cell does over the ground next to it, is an obstacle; and a hit which has
\* nothing lower around it is none.
WallsAreSeen ==
    stage = "separated" /\ filter =>
      \A p \in All :
        /\ (\/ p[2] - Ground(p[1]) > Climb
            \/ \E d \in Beside(p[1]) : Ground(p[1]) - Ground(d) > Climb) => p \in obstacles
        /\ (\A q \in All : q[1] - p[1] \in -1 .. 1 => q[2] >= p[2]) => p \notin obstacles

\* The published clusters are disjoint and hold every hit that is not alone, hits next to each
\* other in one cluster and hits apart from all others of a cluster in none of it.
ClustersSound ==
    LET S == obstacles
        company(p) == {q \in S \ {p} : q[1] - p[1] \in -Eps .. Eps}
    IN  stage = "waiting" /\ S # {} =>
          /\ \A a, b \in clusters : a = b \/ a \cap b = {}
          /\ \A p \in S : (company(p) # {}) <=> p \in UNION clusters
          /\ \A c \in clusters : \A p \in c : company(p) \subseteq c /\ company(p) # {}
=============================================================================
