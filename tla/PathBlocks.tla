----------------------------- MODULE PathBlocks -----------------------------
(***************************************************************************)
(* What map_astar_planner_node.py plans around and when it plans again:    *)
(* the LiDAR clusters in view, the memory of the ones seen lately, the     *)
(* history of points that is used when nothing is in view, the confirmed   *)
(* objects of the map, and the trigger with its hits, cooldowns and        *)
(* progress guard.  Obstacles and routes are places across the corridor,   *)
(* so that "inflated", "within the margin" and "merged" are distances.     *)
(***************************************************************************)
EXTENDS Integers, Sequences, FiniteSets, Functions

CONSTANTS
    Lanes,          \* where a route can pass
    Things,         \* where there are obstacles
    Inflate,        \* inflate, lidar_cluster_memory_inflate, discovered_obstacle_inflate
    Margin,         \* path_block_margin
    Merge,          \* lidar_cluster_memory_merge_distance
    Match,          \* lidar_cluster_persistent_match_margin_m
    Ttl,            \* lidar_cluster_memory_ttl_sec
    MaxMemory,      \* lidar_cluster_memory_max_count
    MaxHistory,     \* lidar_history_max_points
    Hits,           \* path_block_required_hits
    Cooldown,       \* dynamic_replan_cooldown_sec
    FastCooldown,   \* emergency_replan_cooldown_sec
    Guard           \* dynamic_replan_progress_guard_sec

VARIABLES
    clusters,       \* latest_cluster_bboxes
    known,          \* the confirmed objects: discovered_bboxes, and the static map if there is one
    memory,         \* lidar_cluster_memory: place and age
    history,        \* lidar_obstacles.history
    hits,           \* path_block_hit_count
    since, moved,   \* time since the last dynamic replan, 2 m made since
    lane,           \* the route
    job,            \* what the planning worker was started with; firm, due: history, for the property
    age,            \* history: time since a thing was last in view, and not given up since
    tried           \* history: the last tick started a plan

None == [costs |-> {}, firm |-> {}, due |-> {}, busy |-> FALSE]
blocks == <<clusters, known, memory, history, hits, since, moved, lane, job, age, tried>>

Cap == IF Cooldown > Guard THEN Cooldown ELSE Guard
Away(a, b) == IF a > b THEN a - b ELSE b - a
Older(n, top) == IF n >= top THEN top ELSE n + 1

BlocksInit ==
    /\ clusters = {} /\ known \in {{}} \cup {{t} : t \in Things} /\ memory = <<>> /\ history = <<>>
    /\ hits = 0 /\ since = Cap /\ moved = TRUE /\ lane \in Lanes
    /\ job = None /\ age = [t \in Things |-> Ttl + 1] /\ tried = FALSE

\* _filter_lidar_bboxes_against_persistent_map
Plannable(places) == {p \in places : \A k \in known : Away(p, k) > Match}

\* The elements of S in their order, and those of s whose places are in K.
InOrder(S, Before(_, _)) ==
    [n \in 1 .. Cardinality(S) |-> CHOOSE i \in S : Cardinality({j \in S : Before(j, i)}) = n - 1]
Sorted(S) == InOrder(S, LAMBDA i, j : i < j)
Keep(s, K) == [n \in 1 .. Cardinality(K) |-> s[Sorted(K)[n]]]

\* prune_lidar_cluster_memory: by age, then the newest ones.
Pruned(mem) ==
    LET young == {i \in DOMAIN mem : mem[i].age <= Ttl}
        newer == InOrder(young, LAMBDA i, j : \/ mem[i].age < mem[j].age
                                              \/ (mem[i].age = mem[j].age /\ i < j))
    IN  IF Cardinality(young) > MaxMemory THEN [n \in 1 .. MaxMemory |-> mem[newer[n]]] ELSE Keep(mem, young)

\* remember_lidar_cluster_bboxes: the memory closest to a cluster moves to where the cluster is.
Nearest(mem, p) ==
    CHOOSE i \in DOMAIN mem :
        \A j \in DOMAIN mem : Away(mem[i].at, p) < Away(mem[j].at, p) \/ (Away(mem[i].at, p) = Away(mem[j].at, p) /\ i <= j)
Remember(mem, p) ==
    IF mem # <<>> /\ Away(mem[Nearest(mem, p)].at, p) <= Merge
    THEN [mem EXCEPT ![Nearest(mem, p)] = [at |-> p, age |-> 0]]
    ELSE Append(mem, [at |-> p, age |-> 0])

\* _drop_lidar_memory_matching_persistent_map
Unknown(mem) == Keep(mem, {i \in DOMAIN mem : mem[i].at \in Plannable({mem[i].at})})

\* All clusters of a frame, one after the other.
Last(S) == CHOOSE p \in S : \A q \in S : q <= p
RememberAll(mem, places) ==
    LET after[S \in SUBSET places] ==
            IF S = {} THEN mem ELSE Remember(after[S \ {Last(S)}], Last(S))
    IN  after[places]

\* remember_lidar_cluster_bboxes and what prune and the persistent map take away again.
MemoryAfter(frame) ==
    Unknown(Pruned(IF Plannable(frame) = {} THEN memory
                   ELSE RememberAll(Pruned(memory), Plannable(frame))))

\* update_lidar_history: points seen for the first time push out those first seen longest ago.
HistoryAfter(frame) ==
    LET all == history \o Sorted(frame \ Range(history))
    IN  IF Len(all) > MaxHistory THEN SubSeq(all, Len(all) - MaxHistory + 1, Len(all)) ELSE all

\* lidar_clusters_cb, with lidar_cb of the same scan.
Scan(frame) ==
    /\ clusters' = frame /\ memory' = MemoryAfter(frame) /\ history' = HistoryAfter(frame)
    /\ age' = [t \in Things |-> IF t \in frame THEN 0 ELSE age[t]]
    /\ tried' = FALSE /\ UNCHANGED <<known, hits, since, moved, lane, job>>

\* discovered_cb: the objects confirmed now, all of them.  Where one is no longer (the map was
\* cleared, its node starts anew), what stood there has gone from the memory, and is as good as unseen.
Discovered(list) ==
    /\ list # known /\ known' = list
    /\ memory' = Keep(memory, {i \in DOMAIN memory : \A k \in list : Away(memory[i].at, k) > Match})
    /\ age' = [t \in Things |-> IF t \notin Plannable({t}) /\ \A k \in list : Away(t, k) > Match
                                THEN Ttl + 1 ELSE age[t]]
    /\ tried' = FALSE /\ UNCHANGED <<clusters, history, hits, since, moved, lane, job>>

\* build_lidar_cluster_memory_bboxes: not what is in view anyway.
MemoryBoxes(current) ==
    {m.at : m \in {m \in Range(Pruned(memory)) : \A c \in current : Away(m.at, c) > Merge}}

\* build_lidar_bboxes: without a cluster in view the whole history is clustered instead.
LidarBoxes ==
    LET current == IF clusters # {} THEN Plannable(clusters) ELSE Plannable(Range(history))
    IN  current \cup Plannable(MemoryBoxes(current))

Blocks(places) == \E p \in places : Away(lane, p) <= Margin

\* _request_plan_async for a dynamic replan.
Request ==
    IF job.busy THEN UNCHANGED job
    ELSE job' = [costs |-> known \cup (IF history # <<>> \/ clusters # {} THEN LidarBoxes ELSE {}),
                 firm |-> known, due |-> {t \in Things : age[t] <= Ttl}, busy |-> TRUE]

\* timer_cb with a route; close: a visible cluster blocks it in front of the tank.
Tick ==
    LET visible == Plannable(clusters)
        blocked == Blocks(visible \cup known)
        count   == IF blocked THEN Older(hits, Hits) ELSE 0
        freed   == since >= Guard \/ moved
        slow    == since >= Cooldown /\ count >= Hits
    IN  \E close \in {FALSE} \cup {Blocks(visible)} :
          /\ hits' = count
          /\ IF freed /\ ((close /\ since >= FastCooldown) \/ slow) THEN Request /\ tried' = ~job.busy
             ELSE UNCHANGED job /\ tried' = FALSE
          /\ UNCHANGED <<clusters, known, memory, history, since, moved, lane, age>>

\* _plan_worker: the lane nearest to the present one that the inflated obstacles leave.
Open(costs) == {l \in Lanes : \A p \in costs : Away(l, p) > Inflate}
Commit ==
    /\ job.busy /\ Open(job.costs) # {}
    /\ \E l \in Open(job.costs) : (\A k \in Open(job.costs) : Away(lane, l) <= Away(lane, k)) /\ lane' = l
    /\ hits' = 0 /\ since' = 0 /\ moved' = FALSE /\ job' = None /\ tried' = FALSE
    /\ UNCHANGED <<clusters, known, memory, history, age>>
\* (mutant) a worker that fails does not give the flag back.
FailsBusy ==
    /\ job.busy /\ Open(job.costs) = {} /\ tried' = FALSE
    /\ UNCHANGED <<clusters, known, memory, history, hits, since, moved, lane, job, age>>
PlanFails ==
    /\ job.busy /\ Open(job.costs) = {} /\ job' = None /\ tried' = FALSE
    /\ UNCHANGED <<clusters, known, memory, history, hits, since, moved, lane, age>>

Advance == ~moved /\ moved' = TRUE /\ tried' = FALSE
           /\ UNCHANGED <<clusters, known, memory, history, hits, since, lane, job, age>>

BlocksClock ==
    /\ since' = Older(since, Cap) /\ age' = [t \in Things |-> Older(age[t], Ttl + 1)]
    /\ memory' = [i \in DOMAIN memory |-> [memory[i] EXCEPT !.age = Older(memory[i].age, Ttl + 1)]]
    /\ tried' = FALSE /\ UNCHANGED <<clusters, known, history, hits, moved, lane, job>>

Worker == Commit \/ PlanFails
BlocksStep ==
    \/ \E frame \in SUBSET Things : Scan(frame)
    \/ \E list \in SUBSET Things : Discovered(list)
    \/ Tick \/ Worker \/ Advance \/ BlocksClock

-----------------------------------------------------------------------------
\* "A cluster that disappears from the frame stays in the cost map for its time to live": a plan
\* is made around everything that was in view within the TTL, or an object known then in its place.
PlanAvoidsSeen ==
    job.busy => \A t \in job.due : \E p \in job.costs : p = t \/ (p \in job.firm /\ Away(p, t) <= Match)

\* A route that stays blocked is planned again and again until it is not, although hits,
\* cooldowns and the progress guard hold each replan back.
Blocked         == Blocks(Plannable(clusters) \cup known)
=============================================================================
