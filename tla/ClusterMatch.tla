---------------------------- MODULE ClusterMatch -----------------------------
(***************************************************************************)
(* local_path_node.py, _fuse_with_global_cluster_assignment: detections    *)
(* and LiDAR clusters are paired greedily by score, and a detection that   *)
(* has a second cluster nearly as good is left out.  The scores are given. *)
(***************************************************************************)
EXTENDS Integers, FiniteSets

CONSTANTS
    Dets, Clusters,     \* indices of detections and clusters
    MaxScore,           \* cluster_match_max_score: worse pairs are no candidates
    Delta               \* cluster_match_ambiguity_delta

VARIABLE score          \* of every pair, lower is better

MatchInit == score \in [Dets \X Clusters -> 0 .. MaxScore + 1]

\* _cluster_detection_candidate
Pairs == {p \in Dets \X Clusters : score[p] <= MaxScore}

\* The order of the sort; among equals the smaller box and the larger cluster come first, which are
\* taken to have the smaller index.
Before(p, q) ==
    \/ score[p] < score[q]
    \/ score[p] = score[q] /\ (p[1] < q[1] \/ (p[1] = q[1] /\ p[2] < q[2]))

NeverClose(p, taken) == FALSE
\* Another cluster of the same detection that nobody has taken is nearly as good.
Close(p, taken) ==
    \E q \in Pairs : q[1] = p[1] /\ q[2] # p[2] /\ q[2] \notin taken /\ score[q] - score[p] < Delta

Nothing == [dets |-> {}, taken |-> {}, pairs |-> {}]
Choose(done, p) ==
    IF p[1] \in done.dets \/ p[2] \in done.taken THEN done
    ELSE [dets |-> done.dets \cup {p[1]},
          taken |-> IF Close(p, done.taken) THEN done.taken ELSE done.taken \cup {p[2]},
          pairs |-> IF Close(p, done.taken) THEN done.pairs ELSE done.pairs \cup {p}]

\* The last of some pairs, and what the pairs up to it, one after the other, have come to.
Last(S) == CHOOSE p \in S : \A q \in S \ {p} : Before(q, p)
Done[S \in SUBSET Pairs] == IF S = {} THEN Nothing ELSE Choose(Done[S \ {Last(S)}], Last(S))

Selected == Done[Pairs].pairs

-----------------------------------------------------------------------------
\* Pair q was to be had when p was looked at: nobody selected before p has its cluster.
OpenAt(p, q) == \A r \in Selected : r[2] = q[2] => ~Before(r, p)

\* A cluster is given to one detection and a detection one cluster; nobody gets a cluster that
\* one with a better claim has; what a detection gets is better, by the margin, than anything
\* else it could have had, so that a front cluster is not confused with one behind it; and a
\* detection goes without only if nothing was left for it or two clusters were as good.
AssignmentSound ==
    LET rivals(p) == {q \in Pairs : q[1] = p[1] /\ q # p /\ OpenAt(p, q)}
    IN  /\ \A p, q \in Selected : (p[1] = q[1]) <=> (p[2] = q[2])
        /\ \A p \in Selected : OpenAt(p, p) /\ \A q \in rivals(p) : score[q] >= score[p] + Delta
        /\ \A p \in Pairs :
             p[1] \notin {q[1] : q \in Selected} /\ OpenAt(p, p)
                => \E q \in Pairs : q[1] = p[1] /\ OpenAt(q, q) /\ \E r \in rivals(q) : score[r] < score[q] + Delta
=============================================================================
