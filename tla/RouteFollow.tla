----------------------------- MODULE RouteFollow -----------------------------
(***************************************************************************)
(* The lookahead point of map_astar_planner_node.py.  The timer reads the  *)
(* route and the progress along it field by field and without the lock     *)
(* under which the planning worker replaces them, so a replan may come     *)
(* between any two of its reads.  A route is its version and its number of *)
(* points.                                                                 *)
(***************************************************************************)
EXTENDS Integers

CONSTANTS
    Lengths,        \* how many points a route may have
    MaxVersion      \* bound: the replans of a behaviour

VARIABLES
    route,          \* self.route
    index,          \* self.route_index
    base,           \* self.route_index_floor
    worker,         \* the step of a commit
    timer,          \* publish_lookahead: its step, the index, the route of the point
    target,         \* the route and index of the last point that was published
    anew            \* history: publications left that a step of a commit may have disturbed

followVars == <<route, index, base, worker, timer, target, anew>>

Rest == [step |-> "rest", found |-> 0, point |-> 0]
NoTarget == [route |-> 0, at |-> 0]

FollowInit ==
    /\ route \in [version : {1}, length : Lengths] /\ index = 0 /\ base = 0
    /\ worker = "rest" /\ timer = Rest /\ target = NoTarget /\ anew = 0

Larger(a, b)  == IF a > b THEN a ELSE b
Smaller(a, b) == IF a < b THEN a ELSE b

\* find_lookahead_along_path: some segment, or the last point; this route's, whatever becomes of it.
Project ==
    /\ timer.step = "rest"
    /\ \E i \in 0 .. route.length - 1 :
         timer' = [step |-> "floor", found |-> i, point |-> route.version]
    /\ UNCHANGED <<route, index, base, worker, target, anew>>

\* (mutant) the index is whatever the projection has found.
HoldNothing ==
    /\ timer.step = "floor" /\ timer' = [timer EXCEPT !.step = "store"]
    /\ UNCHANGED <<route, index, base, worker, target, anew>>

\* The index is held up to the progress that is stored by now.
Floor == Larger(Smaller(index, route.length - 1), Smaller(base, route.length - 1))
HoldIndex ==
    /\ timer.step = "floor"
    /\ timer' = IF timer.found >= Floor THEN [timer EXCEPT !.step = "store"]
                ELSE [step |-> "store", found |-> Floor, point |-> route.version]
    /\ UNCHANGED <<route, index, base, worker, target, anew>>

StoreIndex ==
    /\ timer.step = "store"
    /\ index' = timer.found
    /\ timer' = [timer EXCEPT !.step = "raise"]
    /\ UNCHANGED <<route, base, worker, target, anew>>

RaiseFloor ==
    /\ timer.step = "raise"
    /\ base' = Larger(base, index) /\ target' = [route |-> timer.point, at |-> timer.found]
    /\ timer' = Rest /\ anew' = Larger(anew - 1, 0)
    /\ UNCHANGED <<route, index, worker>>

\* _plan_worker: the new route starts where the tank is, and its index at nought.
StoreRoute ==
    /\ worker = "rest" /\ route.version < MaxVersion
    /\ \E n \in Lengths : route' = [version |-> route.version + 1, length |-> n]
    /\ worker' = "index" /\ anew' = 2
    /\ UNCHANGED <<index, base, timer, target>>
ResetIndex ==
    /\ worker = "index" /\ index' = 0 /\ worker' = "base" /\ anew' = 2
    /\ UNCHANGED <<route, base, timer, target>>
ResetFloor ==
    /\ worker = "base" /\ base' = 0 /\ worker' = "rest"
    /\ UNCHANGED <<route, index, timer, target, anew>>

FollowStep == Project \/ HoldIndex \/ StoreIndex \/ RaiseFloor \/ StoreRoute \/ ResetIndex \/ ResetFloor

-----------------------------------------------------------------------------
\* While a route stays, the lookahead goes on along it, however the projection jumps between
\* its bends; only a commit between two of the timer's reads may take it back, and
\* only in the publication it disturbs and the next.
GoesOn     == target'.route = target.route /\ target'.at < target.at => anew > 0
NoStepBack == [][GoesOn]_followVars
=============================================================================
