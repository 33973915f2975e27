---------------------------- MODULE PhoneTracks -----------------------------
(***************************************************************************)
(* phone_virtual_obstacle_node.py: what the phone sees becomes tracks, and *)
(* the nearest track a wall of synthetic clusters across the path; and     *)
(* phone_cluster_mux_node.py, which merges the wall with the LiDAR's own   *)
(* clusters.  The tank drives along a line of places; a detection is       *)
(* placed ahead of it.  Of the gateway only the order of its frames and    *)
(* commands matters.                                                       *)
(***************************************************************************)
EXTENDS Integers, FiniteSets, FiniteSetsExt

CONSTANTS
    Classes, Far,       \* detector classes; the tank drives from place 0 to Far
    Ahead,              \* distances at which an object is placed
    Merge,              \* track_merge_distance_m, dedupe_merge_distance_m
    Ttl, LockTtl,       \* obstacle_ttl_sec, locked_obstacle_ttl_sec
    MaxTracks,          \* max_active_tracks
    Ids,                \* bound: tracks that are ever made
    Rocks,              \* places where the LiDAR sees something
    RealTtl, PhoneTtl   \* the mux's real_ttl_sec, phone_ttl_sec

VARIABLES
    here,           \* player_pose
    inject,         \* inject_enabled_state
    tracks,         \* active: [id, class, wall, dist, seen, left, locked]
    made,           \* next_track_id - 1
    wall, wallAge,  \* the mux's last phone clusters: places of the wall's track, and their age
    real, realAge   \* the mux's last real clusters

phone == <<here, inject, tracks, made, wall, wallAge, real, realAge>>

Near(a, b) == a - b <= Merge /\ b - a <= Merge

PhoneInit ==
    /\ here = 0 /\ inject = TRUE /\ tracks = {} /\ made = 0
    /\ wall = {} /\ wallAge = PhoneTtl + 1 /\ real = {} /\ realAge = RealTtl + 1

\* The track of the same class that is nearest, if one is near enough.
Match(class, place) ==
    LET near == {t \in tracks : t.class = class /\ Near(t.wall, place)}
        gap(t) == IF t.wall > place THEN t.wall - place ELSE place - t.wall
    IN  {t \in near : \A u \in near : gap(t) <= gap(u)}

MovedWall(old, place) == place
\* Preserve the first path-wall snapshot of a continuing track.
KeptWall(old, place)  == old.wall

Lifetime(locked) == IF locked THEN (IF LockTtl > Ttl THEN LockTtl ELSE Ttl) ELSE Ttl

\* _assign_track.  A lock that is asked for covers it; a locked track stays locked.
Continue(old, place, dist, lock) ==
    [old EXCEPT !.wall = KeptWall(old, place), !.dist = dist, !.seen = 0,
                !.locked = old.locked \/ lock, !.left = Lifetime(old.locked \/ lock)]

NewTrack(class, place, dist, lock) ==
    [id |-> made + 1, class |-> class, wall |-> place, dist |-> dist, seen |-> 0,
     locked |-> lock, left |-> Lifetime(lock)]

LockAll(lock) == {IF lock THEN [t EXCEPT !.locked = TRUE, !.left = Lifetime(TRUE)] ELSE t : t \in tracks}

Alive(ts) == {t \in ts : t.left > 0}

\* _prune_active, then _limit_active_tracks: the ones seen last stay.
Kept(ts) ==
    LET alive == Alive(ts)
    IN  IF Cardinality(alive) <= MaxTracks THEN {alive}
        ELSE {keep \in kSubset(MaxTracks, alive) : \A t \in keep, u \in alive \ keep : t.seen <= u.seen}

\* detections_cb with a frame that shows one object, perhaps with a lock request.  (Two objects
\* of a frame are two such steps at the same time, once _dedupe_candidates has merged them.)
Frame(class, dist, lock) ==
    LET place == here + dist
        match == Match(class, place)
    IN  /\ inject' = TRUE
        /\ \/ \E t \in match :
                /\ tracks' \in Kept({u \in LockAll(lock) : u.id # t.id} \cup {Continue(t, place, dist, lock)})
                /\ UNCHANGED made
           \/ /\ match = {} /\ made < Ids /\ made' = made + 1
              /\ tracks' \in Kept(LockAll(lock) \cup {NewTrack(class, place, dist, lock)})
        /\ UNCHANGED <<here, wall, wallAge, real, realAge>>

\* detections_cb with a frame or a command that shows nothing.
EmptyFrame(lock) ==
    /\ inject' = TRUE /\ tracks' \in Kept(LockAll(lock))
    /\ UNCHANGED <<here, made, wall, wallAge, real, realAge>>

\* detections_cb with a clear command or flag: it leaves before the injection is looked at.
Clear ==
    /\ tracks' = {} /\ UNCHANGED <<here, inject, made, wall, wallAge, real, realAge>>

\* detections_cb with inject_off, or a frame with inject_enabled = false (clear_on_inject_off = false).
InjectOff ==
    /\ inject' = FALSE /\ tracks' = Alive(tracks)
    /\ UNCHANGED <<here, made, wall, wallAge, real, realAge>>

\* _published_objects, nearest first, of which the wall takes the first.
Nearest(ts) == {t \in ts : \A u \in ts : t.dist <= u.dist}

\* timer_cb and the mux's _on_phone: with no object no cluster message is sent at all.
PublishWall ==
    /\ tracks' = IF inject THEN Alive(tracks) ELSE tracks
    /\ IF inject /\ tracks' # {} THEN (\E t \in Nearest(tracks') : wall' = {t}) /\ wallAge' = 0
       ELSE UNCHANGED <<wall, wallAge>>
    /\ UNCHANGED <<here, inject, made, real, realAge>>

\* _on_real: the phone's own clusters, which also go to the real topic, are not taken for real.
FromLidar(payload) == payload.source = "lidar"

OnReal(payload) ==
    /\ IF FromLidar(payload) THEN real' = payload.places /\ realAge' = 0 ELSE UNCHANGED <<real, realAge>>
    /\ UNCHANGED <<here, inject, tracks, made, wall, wallAge>>

Valid(age, ttl)   == age <= ttl

\* _merge, which the mux's timer publishes: real clusters that overlap the wall give way to it.
Merged ==
    LET walls == IF Valid(wallAge, PhoneTtl) THEN {t.wall : t \in wall} ELSE {}
        reals == IF Valid(realAge, RealTtl) THEN real ELSE {}
    IN  {[source |-> "phone", place |-> w] : w \in walls}
        \cup {[source |-> "lidar", place |-> r] : r \in {x \in reals : \A w \in walls : ~Near(x, w)}}

Drive == here < Far /\ here' = here + 1
         /\ UNCHANGED <<inject, tracks, made, wall, wallAge, real, realAge>>

Older(n, top) == IF n > top THEN n ELSE n + 1

PhoneClock ==
    /\ tracks' = {[t EXCEPT !.left = IF t.left = 0 THEN 0 ELSE t.left - 1,
                            !.seen = IF t.seen > Ttl THEN t.seen ELSE t.seen + 1] : t \in tracks}
    /\ wallAge' = Older(wallAge, PhoneTtl) /\ realAge' = Older(realAge, RealTtl)
    /\ UNCHANGED <<here, inject, made, wall, real>>

Payloads ==
    {[source |-> "lidar", places |-> p] : p \in SUBSET Rocks}
    \cup {[source |-> "phone", places |-> {t.wall}] : t \in wall}

PhoneStep ==
    \/ \E c \in Classes, d \in Ahead, lock \in BOOLEAN : Frame(c, d, lock)
    \/ \E lock \in BOOLEAN : EmptyFrame(lock)
    \/ Clear \/ InjectOff \/ PublishWall \/ Drive
    \/ \E p \in Payloads : OnReal(p)

-----------------------------------------------------------------------------
PhoneTypeOK ==
    /\ here \in 0 .. Far /\ inject \in BOOLEAN /\ made \in 0 .. Ids
    /\ \A t \in tracks : t.id \in 1 .. made /\ t.class \in Classes /\ t.left \in 0 .. Lifetime(TRUE)
    /\ Cardinality(tracks) <= MaxTracks
    /\ wallAge \in 0 .. PhoneTtl + 1 /\ realAge \in 0 .. RealTtl + 1

\* The wall of a track stays where it was first put, however the tank drives on and whatever
\* is locked or merged: it does not chase the path that the planner makes around it.
WallStays == [][\A t \in tracks, u \in tracks' : t.id = u.id => t.wall = u.wall]_phone

\* What the planner gets from the mux is true of what the sensors said lately: the wall of an
\* object that nobody locked leaves when the object has been out of sight for the life of a
\* track and the mux's TTL; the phone's wall never comes under the name of the LiDAR, though it
\* is also sent on the LiDAR's topic; and an obstacle that both see is one cluster.
MergedIsTrue ==
    \A m \in Merged :
        IF m.source = "phone"
        THEN \E t \in wall : t.wall = m.place /\ (t.locked \/ t.seen + wallAge < Ttl + PhoneTtl)
        ELSE m.place \in Rocks /\ \A n \in Merged : n.source = "phone" => ~Near(m.place, n.place)
=============================================================================
