------------------------------ MODULE LocalMap -------------------------------
(***************************************************************************)
(* local_path_node.py, the map of discovered objects.  The callbacks store *)
(* the last detections and the last clusters; the timer fuses whatever is  *)
(* stored, with the camera as it is turned now, and the fused objects      *)
(* become candidates, then confirmed and frozen objects.  Places lie on a  *)
(* line; a detection at pixel x, with the camera turned to v, lies at the  *)
(* cluster at v + x.                                                       *)
(***************************************************************************)
EXTENDS Integers, FiniteSets, FiniteSetsExt, Sequences

CONSTANTS
    Classes, Places, Pixels, Views,
    Merge,      \* merge_radius_by_class: 12 m for every class that is mapped
    Outlier,    \* candidate_outlier_reject_m: 6 m
    Confirm,    \* min_confirm_observations
    Decay,      \* memory_decay_sec, in ticks
    Known,      \* observe_classified_radius_m
    MaxIds      \* bound: objects that are ever made

VARIABLES
    view,       \* where the camera looks
    frame,      \* latest_detections_payload: [class, pixel] in its order
    cloud,      \* latest_clusters_payload: places of clusters
    discovered, \* [id, class, at, count, idle, confirmed]
    nextId

map == <<view, frame, cloud, discovered, nextId>>

Gap(p, q) == IF p > q THEN p - q ELSE q - p

MapInit == view \in Views /\ frame = <<>> /\ cloud = {} /\ discovered = {} /\ nextId = 1

Detections ==
    {<<>>} \cup {<<d>> : d \in [class : Classes, pixel : Pixels]}
    \cup {ds \in [1 .. 2 -> [class : Classes, pixel : Pixels]] : ds[1].pixel # ds[2].pixel}

\* detections_cb
Detect(ds) == frame' = ds /\ UNCHANGED <<view, cloud, discovered, nextId>>

\* lidar_clusters_cb
Cluster(ps) == cloud' = ps /\ UNCHANGED <<view, frame, discovered, nextId>>

Turn(v) == view' = v /\ UNCHANGED <<frame, cloud, discovered, nextId>>

\* compute_fused_objects_locked: where a detection lies.  The age of an asynchronous result is what
\* the frame says of itself, whatever the time is now.
Seen(d) == [class |-> d.class, at |-> view + d.pixel]

\* _find_existing_discovered: the nearest of any class, the older of two as near; the merge by
\* track asks for the same 12 m, so it finds no other.
Existing(objs, place) ==
    LET near == {o \in objs : Gap(o.at, place) <= Merge}
    IN  {o \in near : \A p \in near : Gap(o.at, place) < Gap(p.at, place)
                                      \/ (Gap(o.at, place) = Gap(p.at, place) /\ o.id <= p.id)}

\* _candidate_filtered_position, at most one place towards the measurement.
Filtered(o, place) ==
    {o.at, IF o.at < place THEN o.at + 1 ELSE IF o.at > place THEN o.at - 1 ELSE o.at}

\* An object that is seen again: its class, and what an observation that counts adds.
Voted(o, c) == [o EXCEPT !.class = c, !.idle = 0]
Moved(o, p) == [o EXCEPT !.at = p, !.count = o.count + 1, !.confirmed = (o.count + 1 >= Confirm)]

\* The vote of the class just seen can only win for that class.
Measured(o, s) ==
    LET votes == {Voted(o, c) : c \in {o.class, s.class}}
    IN  IF o.confirmed \/ Gap(o.at, s.at) > Outlier THEN votes
        ELSE {Moved(v, p) : v \in votes, p \in Filtered(o, s.at)}

New(id, s) == [id |-> id, class |-> s.class, at |-> s.at, count |-> 1, idle |-> 0, confirmed |-> Confirm <= 1]

\* update_discovered_map_locked for one fused object: the maps that may result.
Updated(m, s) ==
    LET old == Existing(m.objs, s.at)
    IN  IF old = {} THEN {[objs |-> m.objs \cup {New(m.next, s)}, next |-> m.next + 1]}
        ELSE {[objs |-> (m.objs \ old) \cup {o}, next |-> m.next] : o \in UNION {Measured(x, s) : x \in old}}

\* A detection without a cluster is not a semantic object.
Fused(maps, d) == IF Seen(d).at \in cloud THEN UNION {Updated(m, Seen(d)) : m \in maps} ELSE maps

DecayAll(o)  == o.idle < Decay
Remembered(o) == o.confirmed \/ o.idle < Decay

Longer(n) == IF n < Decay THEN n + 1 ELSE n
Aged(o)   == [o EXCEPT !.idle = Longer(o.idle)]

\* timer_cb
Tick ==
    LET aged == {[objs |-> {Aged(o) : o \in discovered}, next |-> nextId]}
        maps == CASE Len(frame) = 0 -> aged
                  [] Len(frame) = 1 -> Fused(aged, frame[1])
                  [] Len(frame) = 2 -> Fused(Fused(aged, frame[1]), frame[2])
    IN  \E m \in maps :
          /\ m.next <= MaxIds + 1
          /\ discovered' = {o \in m.objs : Remembered(o)} /\ nextId' = m.next
          /\ UNCHANGED <<view, frame, cloud>>

\* clear_service_cb: the numbers go on.
ClearMap == discovered' = {} /\ UNCHANGED <<view, frame, cloud, nextId>>

\* compute_observe_candidates_locked: clusters near nothing that is confirmed.
Candidates(objs, places) == {p \in places : \A o \in objs : o.confirmed => Gap(o.at, p) > Known}

MapStep ==
    \/ \E ds \in Detections : Detect(ds)
    \/ \E ps \in {s \in SUBSET Places : Cardinality(s) <= 2} : Cluster(ps)
    \/ \E v \in Views \ {view} : Turn(v)
    \/ Tick \/ ClearMap

-----------------------------------------------------------------------------
MapTypeOK ==
    /\ view \in Views /\ frame \in Detections /\ cloud \subseteq Places
    /\ nextId \in 1 .. MaxIds + 1
    /\ \A o \in discovered : o.id < nextId /\ o.class \in Classes /\ o.at \in Places
                             /\ o.count \in 1 .. Confirm /\ o.idle \in 0 .. Decay
    /\ \A o, p \in discovered : o.id = p.id => o = p

\* As long as the map is not cleared: what is confirmed stays, where it was confirmed, and a
\* place that is known is never asked for again; a candidate moves at most one place for each
\* observation that counts and goes only when it was out of sight for the whole decay time; no
\* number is given twice.
Steady ==
    \/ discovered' = {}
    \/ /\ \A o \in discovered : \E p \in discovered' \cup {[o EXCEPT !.idle = Decay]} :
            /\ p.id = o.id /\ Gap(p.at, o.at) <= p.count - o.count
            /\ o.confirmed => p \in discovered' /\ p.confirmed /\ p.at = o.at
            /\ p \notin discovered' => o.idle >= Decay - 1
       /\ \A p \in discovered' : p.id >= nextId \/ \E o \in discovered : o.id = p.id
       /\ Candidates(discovered', Places) \subseteq Candidates(discovered, Places)

\* Every step of the map is such a step (update_discovered_map_locked, timer_cb).
MapIsSteady == [][Steady]_map
=============================================================================
