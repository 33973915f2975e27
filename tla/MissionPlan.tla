---------------------------- MODULE MissionPlan ----------------------------
(***************************************************************************)
(* From the maps of the reconnaissance to the two shots of scenario 2:     *)
(* build_mission_plan.py looks for a firing position for each target on    *)
(* each route, chooses a route, writes the engagements and checks them;    *)
(* the launch file then makes exactly two engagements of what it reads.    *)
(*                                                                         *)
(* Lengths are whole units of about ten metres, rounded down; what the     *)
(* code keeps within a few metres of a point is that point.  A position is *)
(* flat or it is not, a ridge stops every arc over it, and a score is the  *)
(* same weighted sum of whole tenths.                                      *)
(***************************************************************************)
EXTENDS Integers, Sequences, FiniteSets, SequencesExt

CONSTANTS
    Path,           \* route id -> its points, the start first
    Spots,          \* where reconnaissance may have found a tank
    FinalTank,      \* the nominal place of the final enemy
    Walls, Ridges,  \* boxes [lo, hi] that may stand in the way
    Anchor,         \* the static tank the first shot is meant for
    Firebase,       \* the flat base the first shot is forced to
    LastBase,       \* the base of the final shot, the emergency base of the first
    MinRange, MaxRange, Tactical, BestStatic, BestFinal,
    Exposed,        \* within it a threat in sight exposes a position
    Duplicate,      \* a tank nearer than this to the final enemy is the final enemy
    Match,          \* a tank within this of the anchor is the static tank
    Fallbacks,      \* fallback goals of an engagement
    MaxFound,       \* bound of the model: tanks found
    Preferred       \* SCENARIO2_PREFERRED_ROUTE

VARIABLES
    world,          \* the maps: found, final, graded, tilted, walls, ridges
    stage,
    results,        \* route_results
    route,          \* route_recommended
    engagements,    \* plan["engagements"]
    shown,          \* plan["plan"]["targets"], what the operator reads
    problems,       \* the ids verify_plan complains about
    shots           \* the engagements the turret node is given

planVars == <<world, stage, results, route, engagements, shown, problems, shots>>

-----------------------------------------------------------------------------
(* Geometry. *)

Larger(a, b) == IF a < b THEN b ELSE a
Dist(p, q) ==
    LET s == (p[1] - q[1]) * (p[1] - q[1]) + (p[2] - q[2]) * (p[2] - q[2])
    IN  CHOOSE k \in 0 .. s : k * k <= s /\ s < (k + 1) * (k + 1)

Holds(b, p) == \A i \in {1, 2} : b.lo[i] <= p[i] /\ p[i] <= b.hi[i]

\* The segment meets the box: they overlap on both axes, and the line parts its corners.
Side(p, q, c) == (q[1] - p[1]) * (c[2] - p[2]) - (q[2] - p[2]) * (c[1] - p[1])
Corners(b) == {b.lo[1], b.hi[1]} \X {b.lo[2], b.hi[2]}
Meets(p, q, b) ==
    /\ \A i \in {1, 2} : ~(p[i] < b.lo[i] /\ q[i] < b.lo[i]) /\ ~(p[i] > b.hi[i] /\ q[i] > b.hi[i])
    /\ \E c \in Corners(b) : Side(p, q, c) >= 0
    /\ \E c \in Corners(b) : Side(p, q, c) <= 0

\* A box around the target does not hide it.
LineClear(p, q) == \A b \in world.walls : Holds(b, q) \/ ~Meets(p, q, b)
ArcClear(p, q) == world.graded => \A b \in world.ridges : ~Meets(p, q, b)

\* The elements of S in their order, and those of s whose places are in K.
InOrder(S, Before(_, _)) ==
    [n \in 1 .. Cardinality(S) |-> CHOOSE i \in S : Cardinality({j \in S : Before(j, i)}) = n - 1]
Keep(s, K) == LET at == InOrder(K, LAMBDA i, j : i < j) IN [n \in 1 .. Cardinality(K) |-> s[at[n]]]

-----------------------------------------------------------------------------
(* A firing position. *)

None == [at |-> <<0, 0>>, arc |-> 0]

Targets ==
    [i \in 1 .. Len(world.found) |-> [id |-> i, class |-> "static", at |-> world.found[i]]]
    \o IF world.final THEN <<[id |-> 0, class |-> "final", at |-> FinalTank]>> ELSE <<>>

BestRange(t) == IF t.class = "final" THEN BestFinal ELSE BestStatic
Flat(p) == world.graded => p \notin world.tilted

\* scan: the points of a route from which t can be shot at.
Candidates(r, t, flat, least) ==
    {i \in DOMAIN Path[r] :
        LET p == Path[r][i] d == Dist(p, t.at)
        IN  /\ least <= d /\ d <= MaxRange
            /\ LineClear(p, t.at) /\ ArcClear(p, t.at)
            /\ flat => Flat(p)}

Exposure(p, t) ==
    IF \E o \in Range(Targets) : o.at # t.at /\ Dist(p, o.at) <= Exposed /\ LineClear(p, o.at)
    THEN 10 ELSE 0

RangeScore(d, least, best) ==
    IF d <= best THEN 10 - (10 * (best - d)) \div Larger(1, best - least)
    ELSE 10 - (10 * (d - best)) \div Larger(1, MaxRange - best)

\* Range, exposure, flatness and the early part of the route, by their weights.
Score(r, t, least, i) ==
    LET p == Path[r][i]
    IN  4 * RangeScore(Dist(p, t.at), least, BestRange(t)) + 4 * (10 - Exposure(p, t))
        + (IF world.graded /\ Flat(p) THEN 90 ELSE 0)
        + 3 * (10 - (10 * (i - 1)) \div (Len(Path[r]) - 1))

\* The alternatives: best first, none nearer to the target than the position or its standoff.
Alternatives(r, t, S, score, i) ==
    LET far == {j \in S \ {i} : Dist(Path[r][j], t.at) >= Larger(Tactical, Dist(Path[r][i], t.at))}
        bare(j) == Exposure(Path[r][j], t)
        order == InOrder(far, LAMBDA j, k : \/ score[j] > score[k]
                                            \/ (score[j] = score[k] /\ bare(j) < bare(k))
                                            \/ (score[j] = score[k] /\ bare(j) = bare(k) /\ j < k))
    IN  [n \in 1 .. IF Cardinality(far) < Fallbacks THEN Cardinality(far) ELSE Fallbacks |-> Path[r][order[n]]]

\* The first point with the highest score.
Scan(r, t, flat, least) ==
    LET S == Candidates(r, t, flat, least)
        score == [i \in S |-> Score(r, t, least, i)]
        i == CHOOSE j \in S : \A k \in S : score[k] < score[j] \/ (score[k] = score[j] /\ j <= k)
    IN  IF S = {} THEN None
        ELSE [at |-> Path[r][i], arc |-> i, score |-> score[i], exposure |-> Exposure(Path[r][i], t),
              goals |-> Alternatives(r, t, S, score, i)]

\* best_firing_position: a flat point at the tactical standoff, then any at the standoff, then
\* any the gun reaches.
FiringPosition(r, t) ==
    LET a == Scan(r, t, world.graded, Tactical)
        b == IF a = None /\ world.graded THEN Scan(r, t, FALSE, Tactical) ELSE a
    IN  IF b = None THEN Scan(r, t, FALSE, MinRange) ELSE b

-----------------------------------------------------------------------------
(* A plan for each route, and the choice between them. *)

Covered(entries) == {i \in DOMAIN entries : entries[i].position # None}

\* Static targets along the route, the final one last.
EngageOrder(entries) ==
    LET last(i) == entries[i].class = "final"
        arc(i)  == entries[i].position.arc
    IN  [n \in 1 .. Cardinality(Covered(entries)) |->
           entries[InOrder(Covered(entries), LAMBDA i, j :
             \/ ~last(i) /\ last(j)
             \/ last(i) = last(j) /\ (arc(i) < arc(j) \/ (arc(i) = arc(j) /\ i < j)))[n]]]

\* late_statics: those whose position is beyond that of the final target.
Late(entries) ==
    {entries[i].id : i \in {i \in Covered(entries) : entries[i].class = "static" /\
        \E f \in Covered(entries) : entries[f].class = "final" /\ entries[f].position.arc < entries[i].position.arc}}

PlanRoute(r) == [i \in DOMAIN Targets |-> [id |-> Targets[i].id, class |-> Targets[i].class,
                                           at |-> Targets[i].at, position |-> FiringPosition(r, Targets[i])]]

\* recommend_route: feasible routes first, then coverage, score and cover.
Better(a, b) ==
    LET n(x)    == Cardinality(Covered(x))
        sum(x, f(_)) == MapThenSumSet(LAMBDA i : f(x[i].position), Covered(x))
        mean(x) == IF n(x) = 0 THEN 0 ELSE sum(x, LAMBDA p : p.score) \div n(x)
        bare(x) == IF n(x) = 0 THEN 0 ELSE sum(x, LAMBDA p : p.exposure) \div n(x)
        key(x)  == <<IF Late(x) = {} THEN 1 ELSE 0, n(x), mean(x), -bare(x)>>
    IN  \E k \in 1 .. 4 : key(a)[k] > key(b)[k] /\ \A m \in 1 .. k - 1 : key(a)[m] = key(b)[m]

\* recommend_route; of routes alike the first, which is the preferred one here.
Recommended(best) ==
    /\ \A o \in DOMAIN Path : /\ ~Better(results[o], results[best])
                              /\ o = Preferred /\ o # best => Better(results[best], results[o])
    /\ LET n(r) == Cardinality(Covered(results[r]))
       IN  route' = IF n(Preferred) >= n(best) /\ n(Preferred) > 0 THEN Preferred ELSE best

PlanRoutes ==
    /\ stage = "read"
    /\ IF Targets = <<>> THEN stage' = "nothing" /\ UNCHANGED results
       ELSE stage' = "planned" /\ results' = [r \in DOMAIN Path |-> PlanRoute(r)]
    /\ UNCHANGED <<world, route, engagements, shown, problems, shots>>

Recommend ==
    /\ stage = "planned" /\ stage' = "recommended" /\ \E best \in DOMAIN Path : Recommended(best)
    /\ UNCHANGED <<world, results, engagements, shown, problems, shots>>

-----------------------------------------------------------------------------
(* The engagements, what the operator reads of them, and the check. *)

\* The first, if static, is forced to the verified base and to the static tank.
Engagement(e, first) ==
    IF first /\ e.class = "static"
    THEN [id |-> e.id, live |-> FALSE, base |-> Firebase, target |-> Anchor, goals |-> <<Firebase>>]
    ELSE [id |-> e.id, live |-> e.class = "final", base |-> e.position.at, target |-> e.at,
          goals |-> e.position.goals]

BuildEngagements ==
    /\ stage = "recommended" /\ stage' = "built"
    /\ LET order == EngageOrder(results[route])
       IN  engagements' = [i \in DOMAIN order |-> Engagement(order[i], i = 1)]
    /\ UNCHANGED <<world, results, route, shown, problems, shots>>

\* The plan on the screen takes the base of each engagement, and the forced target for the
\* first of the order, whatever it is.
SyncPlan ==
    /\ stage = "built" /\ stage' = "synced"
    /\ shown' = [i \in DOMAIN results[route] |->
         LET e == results[route][i]
             s == {n \in DOMAIN engagements : engagements[n].id = e.id}
         IN  [id |-> e.id, covered |-> s # {},
              base |-> IF s = {} THEN <<0, 0>> ELSE engagements[CHOOSE n \in s : TRUE].base,
              at |-> IF 1 \in s THEN Anchor ELSE e.at]]
    /\ UNCHANGED <<world, results, route, engagements, problems, shots>>

\* verify_plan; its result is written with the plan, and nobody waits for it.
VerifyPlan ==
    /\ stage = "synced" /\ stage' = "written"
    /\ problems' = {e.id : e \in {s \in Range(shown) : s.covered /\
                      ~(/\ MinRange <= Dist(s.base, s.at) /\ Dist(s.base, s.at) <= MaxRange
                        /\ LineClear(s.base, s.at))}} \cup Late(results[route])
    /\ UNCHANGED <<world, results, route, engagements, shown, shots>>

-----------------------------------------------------------------------------
(* The launch file. *)

Default == <<[id |-> 1, live |-> FALSE, base |-> Firebase, target |-> Anchor, goals |-> <<>>],
             [id |-> 0, live |-> TRUE, base |-> LastBase, target |-> FinalTank, goals |-> <<>>]>>

FinalOf(engs) ==
    LET live == {i \in DOMAIN engs : engs[i].live}
    IN  IF live = {} THEN Default[2] ELSE engs[CHOOSE i \in live : \A j \in live : i <= j]

\* As StaticsOf, but a second detection of the final enemy stays.
StaticsWithDuplicates(engs) == {i \in DOMAIN engs : ~engs[i].live}

\* Where what is not the final enemy, nor a second detection of it, is.
StaticsOf(engs) ==
    {i \in DOMAIN engs : ~engs[i].live /\ Dist(engs[i].target, FinalOf(engs).target) >= Duplicate}

\* The nearest to the anchor; a distance of zero counts as infinite (`dist or inf`).
FromAnchor(e) == IF e.target = Anchor THEN 1000 ELSE Dist(e.target, Anchor)
StaticOf(engs) ==
    LET s == StaticsOf(engs)
    IN  IF s = {} THEN Default[1]
        ELSE engs[CHOOSE i \in s : \A j \in s : \/ FromAnchor(engs[i]) < FromAnchor(engs[j])
                                               \/ (FromAnchor(engs[i]) = FromAnchor(engs[j]) /\ i <= j)]

\* No fallback towards the target, nor the base itself.
Sanitized(e, base) ==
    Keep(e.goals, {i \in DOMAIN e.goals : /\ Dist(e.goals[i], e.target) >= Larger(MinRange, Dist(base, e.target))
                                          /\ e.goals[i] # base})

\* The first shot, near the anchor, is fired from the verified base or from next to it; its last resort is the
\* base of the second, unless that is too near.
FirstShot(e) ==
    LET near == Dist(e.target, Anchor) <= Match
        base == IF near THEN Firebase ELSE e.base
    IN  [e EXCEPT !.base = base,
                  !.goals = Sanitized(e, base) \o (IF near THEN <<Firebase>> ELSE <<>>)
                            \o (IF Dist(LastBase, e.target) >= MinRange THEN <<LastBase>> ELSE <<>>)]

LastShot(e) == [e EXCEPT !.base = LastBase, !.live = TRUE, !.goals = Sanitized(e, LastBase)]

\* _scenario2_engagements: without a plan, or with an empty one, there is no launch.
Launch ==
    /\ stage \in {"written", "nothing"}
    /\ \E usePlan \in BOOLEAN :
         IF ~usePlan THEN shots' = Default /\ stage' = "launched"
         ELSE IF engagements = <<>> THEN stage' = "refused" /\ UNCHANGED shots
         ELSE shots' = <<FirstShot(StaticOf(engagements)), LastShot(FinalOf(engagements))>>
              /\ stage' = "launched"
    /\ UNCHANGED <<world, results, route, engagements, shown, problems>>

-----------------------------------------------------------------------------
Positions == UNION {Range(Path[r]) : r \in DOMAIN Path}

PlanInit ==
    /\ world \in [found : UNION {[1 .. n -> Spots] : n \in 0 .. MaxFound}, final : BOOLEAN,
                  graded : {TRUE}, tilted : SUBSET Positions, walls : SUBSET Walls, ridges : SUBSET Ridges]
                 \cup [found : UNION {[1 .. n -> Spots] : n \in 0 .. MaxFound}, final : BOOLEAN,
                       graded : {FALSE}, tilted : {{}}, walls : SUBSET Walls, ridges : {{}}]
    /\ stage = "read" /\ results = <<>> /\ route = Preferred
    /\ engagements = <<>> /\ shown = <<>> /\ problems = {} /\ shots = <<>>

PlanNext == PlanRoutes \/ Recommend \/ BuildEngagements \/ SyncPlan \/ VerifyPlan \/ Launch
PlanSpec == PlanInit /\ [][PlanNext]_planVars

-----------------------------------------------------------------------------
\* A target has a position on a route whenever some point of it reaches the target, a flat one
\* at the standoff whenever there is one, and one nearer than the standoff only if no point at
\* the standoff will do; from it the line and the arc are clear.
PositionsSound ==
    stage = "planned" =>
      \A r \in DOMAIN Path : \A e \in Range(results[r]) :
        LET fits(p) == /\ Dist(p, e.at) <= MaxRange /\ LineClear(p, e.at) /\ ArcClear(p, e.at)
            far  == {p \in Range(Path[r]) : fits(p) /\ Dist(p, e.at) >= Tactical}
            any  == {p \in Range(Path[r]) : fits(p) /\ Dist(p, e.at) >= MinRange}
            flat == {p \in far : Flat(p)}
        IN  IF any = {} THEN e.position = None
            ELSE e.position # None /\ e.position.at \in (IF flat # {} THEN flat ELSE IF far # {} THEN far ELSE any)

\* The turret is given two shots: the first is not at the final enemy, not even under another
\* name, the second is; and no fallback but the last resort brings it nearer to the target.
SequenceSound ==
    stage = "launched" =>
      /\ Len(shots) = 2 /\ ~shots[1].live /\ shots[2].live
      /\ Dist(shots[1].target, shots[2].target) >= Duplicate
      /\ \A n \in 1 .. 2 : \A g \in Range(shots[n].goals) \ {LastBase} :
           Dist(g, shots[n].target) >= Dist(shots[n].base, shots[n].target)

\* What the operator reads is what the launch file is given: build_mission_plan.py says that the
\* plan is kept in sync with the engagements.
PlanInSync ==
    stage \in {"synced", "written", "launched"} =>
      \A n \in DOMAIN engagements : \A e \in Range(shown) :
        e.id = engagements[n].id => e.base = engagements[n].base /\ e.at = engagements[n].target

=============================================================================
