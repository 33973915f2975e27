----------------------------- MODULE GridSearch -----------------------------
(***************************************************************************)
(* How a route is searched: map_astar_planner_node.py straight to the goal *)
(* (mode "direct") and team_path_planning.py through the checkpoints (mode *)
(* "legs").  A* runs one expansion at a time over every small grid; each   *)
(* leg is smoothed and appended.  Costs and square roots are whole numbers *)
(* of a Unit, and a tie between two nodes of the heap is left open.        *)
(***************************************************************************)
EXTENDS Integers, Sequences, FiniteSets

CONSTANTS
    Cols, Rows,     \* the grid
    From, Via, To,  \* the tank, the checkpoint of mode "legs", the goal
    Budgets,        \* max_expansions of mode "direct"
    Desired,        \* CLEARANCE_DESIRED
    Weight,         \* route_clearance_weight
    Bound,          \* column that side "west" does not want to pass (_x_ref_at + SIDE_TOL)
    SideWeight,     \* SIDE_WEIGHT
    Rough,          \* cells of the terrain file, with terrain_weight * roughness 1
    Unit, Diagonal, \* what a straight step costs, and a diagonal one (1 and 1.414 or 1.41421356)
    Root,           \* Unit * sqrt, rounded down, of the squares of the distances on the grid
    Excess          \* by how much the straight line may exceed the cheapest steps along it

Cells == (0 .. Cols - 1) \X (0 .. Rows - 1)

VARIABLES
    mode, budget,
    grid,           \* the cells that add_obstacles has marked
    todo,           \* points still to be led to
    at,             \* where the next leg starts
    goal,           \* the goal of this leg after it was moved to a free cell
    frontier, came, cost, expansions,
    route,          \* the smoothed legs so far
    leg,            \* the last leg before and after smoothing
    step            \* leg, search, found, done

search == <<frontier, came, cost, expansions>>
gridVars == <<mode, budget, grid, todo, at, goal, search, route, leg, step>>

NoLeg == [cells |-> <<>>, smooth |-> <<>>]

SearchInit ==
    /\ grid \in SUBSET Cells /\ at = From /\ goal = From
    /\ \/ mode = "direct" /\ todo = <<To>> /\ budget \in Budgets
       \/ mode = "legs" /\ todo = <<Via, To>> /\ budget = Cols * Rows * Cols * Rows
    /\ frontier = {} /\ came = <<>> /\ cost = <<>> /\ expansions = 0
    /\ route = <<>> /\ leg = NoLeg /\ step = "leg"

Abs(n)     == IF n < 0 THEN -n ELSE n
Dx(p, q)   == Abs(p[1] - q[1])
Dy(p, q)   == Abs(p[2] - q[2])
Free       == Cells \ grid

\* (mutant) twice the distance.
Doubled(p, q) == 2 * Root[Dx(p, q) * Dx(p, q) + Dy(p, q) * Dy(p, q)]

Heuristic(p, q) == Root[Dx(p, q) * Dx(p, q) + Dy(p, q) * Dy(p, q)]

Neighbors(c) == {n \in Free : n # c /\ Dx(c, n) <= 1 /\ Dy(c, n) <= 1}

\* compute_clearance: the distance to the next marked cell along rows and columns.
Clearance(c) ==
    IF \E g \in grid : Dx(c, g) + Dy(c, g) < Desired
    THEN CHOOSE d \in 0 .. Desired - 1 :
           /\ \E g \in grid : Dx(c, g) + Dy(c, g) = d
           /\ \A g \in grid : Dx(c, g) + Dy(c, g) >= d
    ELSE Desired

\* _build_cost_map: away from walls, on the side of the route, off rough ground.
Extra(c) ==
    IF mode = "direct" THEN 0
    ELSE Weight * (Desired - Clearance(c))
         + (IF c[1] > Bound THEN SideWeight * (c[1] - Bound) ELSE 0)
         + (IF c \in Rough THEN Unit ELSE 0)

Stride(c, n) == IF Dx(c, n) + Dy(c, n) = 2 THEN Diagonal ELSE Unit
Move(c, n)   == Stride(c, n) + Extra(n)

\* find_nearest_free_grid: the nearest free cell of the nearest ring that has one.
NearestFree(c) ==
    LET Ring(n) == IF Dx(c, n) > Dy(c, n) THEN Dx(c, n) ELSE Dy(c, n)
        first   == {n \in Free : \A m \in Free : Ring(n) <= Ring(m)}
    IN  IF Free = {} THEN {c} ELSE {n \in first : \A m \in first : Heuristic(c, n) <= Heuristic(c, m)}

\* _snap_goal for side "west": nearest, with 4 m of preference for the own side.
SnapGoal(c) ==
    LET score(n) == Heuristic(c, n) - (IF n[1] < c[1] THEN 4 * Unit ELSE 0)
    IN  IF c \in Free \/ Free = {} THEN {c} ELSE {n \in Free : \A m \in Free : score(n) <= score(m)}

\* plan_global_path moves both ends; plan_path_through_waypoints only the goal.
StartLeg ==
    /\ step = "leg" /\ todo # <<>>
    /\ at' \in IF mode = "direct" THEN NearestFree(at) ELSE {at}
    /\ goal' \in IF mode = "direct" THEN NearestFree(Head(todo)) ELSE SnapGoal(Head(todo))
    /\ frontier' = {<<0, at'>>} /\ came' = [c \in {at'} |-> at'] /\ cost' = [c \in {at'} |-> 0]
    /\ expansions' = 0 /\ step' = "search"
    /\ UNCHANGED <<mode, budget, grid, todo, route, leg>>

Min1(e) == \A f \in frontier : e[1] <= f[1]

\* One turn of the loop of astar_search; an entry that a cheaper one has overtaken
\* is expanded again, to no effect.
Expand ==
    /\ step = "search" /\ frontier # {}
    /\ \E e \in frontier :
         LET c == e[2]
             better == {n \in Neighbors(c) : n \notin DOMAIN cost \/ cost[c] + Move(c, n) < cost[n]}
             new(n) == cost[c] + Move(c, n)
         IN  /\ Min1(e) /\ c # goal /\ expansions < budget
             /\ expansions' = expansions + 1
             /\ cost' = [n \in better \cup DOMAIN cost |-> IF n \in better THEN new(n) ELSE cost[n]]
             /\ came' = [n \in better \cup DOMAIN came |-> IF n \in better THEN c ELSE came[n]]
             /\ frontier' = (frontier \ {e}) \cup {<<new(n) + Heuristic(n, goal), n>> : n \in better}
    /\ UNCHANGED <<mode, budget, grid, todo, at, goal, route, leg, step>>

\* The goal is taken from the heap, the heap is empty or the budget is used up.
SearchEnds ==
    \/ frontier = {}
    \/ \E e \in frontier : Min1(e) /\ (e[2] = goal \/ expansions >= budget)

\* reconstruct_path; an end by the budget may have come upon the goal already.
Path ==
    LET back[c \in DOMAIN came] == IF c = at THEN <<c>> ELSE Append(back[came[c]], c)
    IN  IF goal \in DOMAIN came THEN back[goal] ELSE <<>>

\* has_line_of_sight: the cells of Bresenham's line from p to q, a step after the other.
Stepped(p, q, s) ==
    LET dx  == Dx(p, q)
        dy  == Dy(p, q)
        goX == 2 * s.err > -dy
        goY == 2 * s.err < dx
    IN  IF s.at = q THEN s
        ELSE [at  |-> <<s.at[1] + (IF ~goX THEN 0 ELSE IF p[1] < q[1] THEN 1 ELSE -1),
                        s.at[2] + (IF ~goY THEN 0 ELSE IF p[2] < q[2] THEN 1 ELSE -1)>>,
              err |-> s.err - (IF goX THEN dy ELSE 0) + (IF goY THEN dx ELSE 0)]
Line(p, q) ==
    LET steps == 0 .. Dx(p, q) + Dy(p, q)
        walk[n \in steps] ==
            IF n = 0 THEN [at |-> p, err |-> Dx(p, q) - Dy(p, q)] ELSE Stepped(p, q, walk[n - 1])
    IN  {walk[n].at : n \in steps}

Sees(p, q) == Line(p, q) \cap grid = {}

\* smooth_path: from each kept point to the last of the unbroken run that it sees.
Smooth(path) ==
    LET n == Len(path)
        Reach(i) == {j \in i + 1 .. n : \A k \in i + 2 .. j : Sees(path[i], path[k])}
        Furthest(i) == CHOOSE j \in Reach(i) : \A k \in Reach(i) : k <= j
        from[i \in 1 .. n] == IF i = n THEN <<path[n]>> ELSE <<path[i]>> \o from[Furthest(i)]
    IN  IF n <= 2 THEN path ELSE from[1]

\* The leg is appended; a leg without a path is skipped, and so is its checkpoint.
FinishLeg ==
    /\ step = "search" /\ SearchEnds
    /\ leg' = [cells |-> Path, smooth |-> Smooth(Path)]
    /\ route' = IF route = <<>> \/ Path = <<>> THEN route \o leg'.smooth ELSE route \o Tail(leg'.smooth)
    /\ at' = IF Path = <<>> THEN at ELSE goal
    /\ todo' = Tail(todo) /\ step' = IF todo' = <<>> THEN "done" ELSE "found"
    /\ UNCHANGED <<mode, budget, grid, goal, search>>

NextLeg ==
    /\ step = "found" /\ step' = "leg"
    /\ UNCHANGED <<mode, budget, grid, todo, at, goal, search, route, leg>>

SearchStep == StartLeg \/ Expand \/ FinishLeg \/ NextLeg

-----------------------------------------------------------------------------
\* The reference: pairs of a cell and the cost of the cheapest way to it, of one more step each time.
Cheapest(from) ==
    LET Ways(S, c) == {p[2] : p \in {p \in S : p[1] = c}}
                        \cup {p[2] + Move(p[1], c) : p \in {p \in S : c \in Neighbors(p[1])}}
        Least(W)   == {w \in W : \A v \in W : w <= v}
        Relaxed(S) == UNION {{c} \X Least(Ways(S, c)) : c \in Cells}
        within[n \in 0 .. Cols * Rows] == IF n = 0 THEN {<<from, 0>>} ELSE Relaxed(within[n - 1])
    IN  within[Cols * Rows]

\* A* finds the cheapest leg whenever there is one, up to what its estimate can be too high by,
\* and a budget that is used up may cost the leg but never makes it leave the free cells.  (The
\* code's diagonals are a little cheaper than their length, so on a long one the straight line is
\* not quite the lower bound that the docstring of astar_search calls it.)
LegIsCheapest ==
    LET s == leg.cells
    IN  step \in {"found", "done"} =>
          IF s = <<>> THEN expansions >= budget \/ \A p \in Cheapest(at) : p[1] # goal
          ELSE /\ \A i \in 2 .. Len(s) : s[i] \in Neighbors(s[i - 1])
               /\ s[Len(s)] = goal
               /\ expansions < budget => \A p \in Cheapest(s[1]) : p[1] = goal => cost[goal] <= p[2] + Excess

\* What a smoothed leg promises of the straight lines the tank drives: between two kept points
\* that are no neighbours, no marked cell has its middle closer than half a cell to the line,
\* measured across its longer axis (the rest is up to the inflation).
LegIsClear ==
    LET s == leg.smooth
        Across(p, q, c) ==      \* twice the distance, times the longer axis
            IF Dx(p, q) >= Dy(p, q)
            THEN 2 * Abs((c[2] - p[2]) * (q[1] - p[1]) - (q[2] - p[2]) * (c[1] - p[1]))
            ELSE 2 * Abs((c[1] - p[1]) * (q[2] - p[2]) - (q[1] - p[1]) * (c[2] - p[2]))
        Longer(p, q) == IF Dx(p, q) >= Dy(p, q) THEN Dx(p, q) ELSE Dy(p, q)
        Beside(p, q, c) ==
            IF Dx(p, q) >= Dy(p, q) THEN Dx(p, c) + Dx(c, q) = Dx(p, q) ELSE Dy(p, c) + Dy(c, q) = Dy(p, q)
    IN  \A i \in 2 .. Len(s) :
          LET p == s[i - 1]
              q == s[i]
          IN  Longer(p, q) > 1 => \A c \in grid : Beside(p, q, c) => Across(p, q, c) >= Longer(p, q)

\* The smoothed legs make one route: each goes on where the last one that has a path has ended.
RouteJoins == step = "done" /\ route # <<>> => route[Len(route)] = at /\ route[1] \in Free \cup {From}

\* The route search keeps its word (all three).
RouteSound == LegIsCheapest /\ LegIsClear /\ RouteJoins
=============================================================================
