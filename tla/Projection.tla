----------------------------- MODULE Projection -----------------------------
(***************************************************************************)
(* local_path_node.py, compute_fused_objects_locked: boxes of the camera   *)
(* and clusters of the LiDAR are brought together on the image, paired by  *)
(* ClusterMatch, and what is paired becomes an object at the place of the  *)
(* cluster.  Without a pairing a strict node is silent; another one gives  *)
(* each box the nearest cluster or the nearest points in it.               *)
(*                                                                         *)
(* The image is a row of columns; a bearing b is seen in column b - camera *)
(* unless that is outside the image, or behind the camera.  (When no       *)
(* member of a cluster is ahead of the camera, neither is a corner of its  *)
(* box, so the fallback to the corners does not show in a row.)            *)
(***************************************************************************)
EXTENDS Integers, FiniteSets

CONSTANTS
    Width,              \* columns 0 .. Width - 1
    Behind,             \* columns farther out than that are behind the camera
    Dets,               \* indices of detections
    Boxes,              \* what may be detected: [lo, hi] in columns, and whether it is a person
    Clusters,           \* indices of clusters
    Shapes,             \* what may be a cluster: [center, members (bearings), distance]
    Cameras,            \* directions of the camera
    Margin,             \* cluster_bbox_margin_px
    MinHits,            \* cluster_projected_min_points_in_detection
    MinRange, MaxRange, \* of the fusion
    Limit, PersonLimit, \* cluster_match_max_center_norm and _person_x_limit, and
    MaxScore,           \*   cluster_match_max_score, in eighths of half a box
    Delta,              \* cluster_match_ambiguity_delta
    Points, MinPoints,  \* LiDAR points: [bearing, distance]; min_projected_points, min_lidar_points
    Gate                \* angle_gate_extra_deg, in columns

VARIABLES
    strict,             \* semantic_requires_cluster
    box, cluster,       \* of each index; NoCluster: the payload has fewer
    camera,
    fused               \* the objects: [det, cluster, at], cluster 0 when it is made of points

projection == <<strict, box, cluster, camera, fused>>

NoCluster == [center |-> 0, members |-> {}, distance |-> MaxRange + 1]
NotYet == [det |-> 0, cluster |-> 0, at |-> 0]

ProjectionInit ==
    /\ strict \in BOOLEAN /\ camera \in Cameras /\ fused = {NotYet}
    /\ box \in [Dets -> Boxes] /\ cluster \in [Clusters -> Shapes \cup {NoCluster}]

Column(bearing) == bearing - camera
Ahead(bearing) == Column(bearing) \in 0 - Behind .. Width - 1 + Behind
Visible(bearing) == Column(bearing) \in 0 .. Width - 1
InRange(distance) == distance \in MinRange .. MaxRange

\* _project_clusters: a cluster of which the centroid or a member is in the image.
Samples(c) == {b \in cluster[c].members : Ahead(b)}
Projected ==
    {c \in Clusters : InRange(cluster[c].distance)
        /\ \E b \in {cluster[c].center} \cup Samples(c) : Visible(b)}

Inside(bearing, d) ==
    Column(bearing) >= box[d].lo - Margin /\ Column(bearing) <= box[d].hi + Margin /\ Visible(bearing)

\* _cluster_detection_geometry: enough members in the box, or the centroid; where both miss, no
\* match.  The column that stands for the cluster, in halves of a column.
Hits(d, c) == {Column(b) : b \in {m \in Samples(c) : Inside(m, d)}}
EnoughHits(d, c) ==
    LET n == Cardinality(Hits(d, c))
    IN  n > 0 /\ (n >= MinHits \/ n >= Cardinality(Samples(c)))
Evident(d, c) == EnoughHits(d, c) \/ (Ahead(cluster[c].center) /\ Inside(cluster[c].center, d))
Nth(S, k)  == CHOOSE x \in S : Cardinality({y \in S : y < x}) = k
Middle(S)  == Nth(S, (Cardinality(S) - 1) \div 2) + Nth(S, Cardinality(S) \div 2)
Mark(d, c) == IF EnoughHits(d, c) THEN Middle(Hits(d, c)) ELSE 2 * Column(cluster[c].center)

\* _cluster_detection_candidate: how far the mark is from the middle of the box, in eighths of its
\* half width, and how far the cluster is away; MaxScore + 1 for what is no candidate.
OffCenter(d, c) ==
    LET off == Mark(d, c) - (box[d].lo + box[d].hi)
    IN  (8 * (IF off < 0 THEN -off ELSE off)) \div (box[d].hi - box[d].lo)
Most(d) == IF box[d].person THEN PersonLimit ELSE Limit
Score(d, c) ==
    LET sum == OffCenter(d, c) + cluster[c].distance + (box[d].hi - box[d].lo)
    IN  IF c \notin Projected \/ ~Evident(d, c) \/ OffCenter(d, c) > Most(d) \/ sum > MaxScore
        THEN MaxScore + 1 ELSE sum

Match == INSTANCE ClusterMatch WITH score <- [p \in Dets \X Clusters |-> Score(p[1], p[2])]

Object(d, c) == [det |-> d, cluster |-> c, at |-> cluster[c].center]

\* _fuse_from_projected_clusters: the nearest cluster that no box before had.
NearestOf(d, done) ==
    LET open == {c \in Projected : Evident(d, c) /\ c \notin {o.cluster : o \in done}}
    IN  {c \in open : \A e \in open :
            cluster[c].distance < cluster[e].distance \/ (cluster[c].distance = cluster[e].distance /\ c <= e)}

\* _project_raw_lidar_points and _fuse_from_projected_points: the points in the box;
\* _build_angle_lidar_points and _fuse_from_angle: the points about its middle, seen or not.
PointsIn(d) == {p \in Points : InRange(p.distance) /\ Ahead(p.bearing) /\ Inside(p.bearing, d)}
PointsAbout(d) ==
    {p \in Points : InRange(p.distance)
        /\ 2 * Column(p.bearing) - (box[d].lo + box[d].hi) \in
             0 - (box[d].hi - box[d].lo) - 2 * Gate .. (box[d].hi - box[d].lo) + 2 * Gate}
\* The nearest of enough points.
FromPoints(d, S) ==
    IF Cardinality(S) < MinPoints THEN {}
    ELSE {[det |-> d, cluster |-> 0, at |-> p.bearing] : p \in {p \in S : \A q \in S : p.distance <= q.distance}}

One(S) == IF S = {} THEN {} ELSE {CHOOSE x \in S : TRUE}
\* What one more box comes to.
FallBack(done, d) ==
    LET nearest == NearestOf(d, done)
        seen    == FromPoints(d, PointsIn(d))
    IN  done \cup (IF nearest # {} THEN One({Object(d, c) : c \in nearest})
                   ELSE IF seen # {} THEN One(seen) ELSE One(FromPoints(d, PointsAbout(d))))

\* One box after the other.
Last(S) == CHOOSE d \in S : \A e \in S : e <= d
FellBack[S \in SUBSET Dets] == IF S = {} THEN {} ELSE FallBack(FellBack[S \ {Last(S)}], Last(S))

Paired == {Object(p[1], p[2]) : p \in Match!Selected}

\* compute_fused_objects_locked
Fuse ==
    /\ fused = {NotYet}
    /\ fused' = IF Paired # {} THEN Paired
                ELSE IF strict THEN {}
                ELSE FellBack[Dets]
    /\ UNCHANGED <<strict, box, cluster, camera>>

ProjectionNext == Fuse
ProjectionSpec == ProjectionInit /\ [][ProjectionNext]_projection

-----------------------------------------------------------------------------
\* A cluster whose members all lie well inside a box.
Fills(c, d) ==
    LET S == {cluster[c].center} \cup cluster[c].members
    IN  \A b \in S : Visible(b) /\ Column(b) \in box[d].lo .. box[d].hi
\* A cluster that has nothing near a box.
Misses(c, d) ==
    LET S == {cluster[c].center} \cup cluster[c].members
    IN  \A b \in S : Column(b) < box[d].lo - Margin \/ Column(b) > box[d].hi + Margin

\* Every cluster fills one box and misses the others, and no box has two.
Plain ==
    LET there == {c \in Clusters : cluster[c] # NoCluster}
    IN  /\ \A c \in there : \E d \in Dets : Fills(c, d) /\ \A e \in Dets \ {d} : Misses(c, e)
        /\ \A d \in Dets : Cardinality({c \in there : Fills(c, d)}) <= 1

\* Where the image is plain, so is the result: an object for each box at its own cluster, unless
\* that is too far off to count, and none at another's.  In any case no two objects share a box
\* or a cluster, a box gets no cluster that misses it, and a strict node gives no object that
\* the LiDAR has no cluster for.
ObjectsAreOwn ==
    fused # {NotYet} =>
      /\ \A o, p \in fused : o # p => o.det # p.det /\ (o.cluster # p.cluster \/ o.cluster = 0)
      /\ \A o \in fused : IF o.cluster = 0 THEN ~strict ELSE ~Misses(o.cluster, o.det)
      /\ Plain => /\ \A o \in fused : o.cluster # 0 => Fills(o.cluster, o.det)
                  /\ \A d \in Dets, c \in Clusters :
                       Fills(c, d) /\ Score(d, c) <= MaxScore => Object(d, c) \in fused
=============================================================================
