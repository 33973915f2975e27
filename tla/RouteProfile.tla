---------------------------- MODULE RouteProfile ----------------------------
(***************************************************************************)
(* vehicle_path_geometry.py: the corners of a route are rounded where the  *)
(* turning circle fits, and each point gets a phase of speed.  A route is  *)
(* the lengths of its segments; a place on it is the way from its start,   *)
(* corners left as they are.                                               *)
(***************************************************************************)
EXTENDS Integers, Sequences

CONSTANTS
    Segments,       \* lengths a segment may have
    Corners,        \* corners of a route
    Tangents,       \* radius * tan(half the turn): where the circle touches the segments
    Brake           \* brake_distance_m

VARIABLES
    lengths,        \* of the segments
    bend,           \* per corner: how far from it the circle touches, 0 for (nearly) straight on or back
    free            \* per corner: the sampled arc hits no occupied cell

profileVars == <<lengths, bend, free>>

ProfileInit ==
    /\ lengths \in [1 .. Corners + 1 -> Segments]
    /\ bend \in [1 .. Corners -> Tangents \cup {0}] /\ free \in [1 .. Corners -> BOOLEAN]

\* Where corner i is.
At[i \in 0 .. Corners + 1] == IF i = 0 THEN 0 ELSE At[i - 1] + lengths[i]

\* The circle must not use more than 45 % of the segment before and after.
Fits(i) == 20 * bend[i] <= 9 * lengths[i] /\ 20 * bend[i] <= 9 * lengths[i + 1]

Rounded(i) == bend[i] > 0 /\ Fits(i) /\ free[i]

\* round_polyline_with_min_turn_radius, with one sample on the arc; the cut makes an arc of
\* bend 4 about 6 long.  gap: the way from the point before.
Point(at, kind, gap) == [at |-> at, kind |-> kind, gap |-> gap]
With(out, i) ==
    LET here == At[i]
        last == out[Len(out)].at
        half == (3 * bend[i]) \div 4
    IN  IF i <= Corners /\ Rounded(i)
        THEN out \o <<Point(here - bend[i], "straight", here - bend[i] - last),
                      Point(here, "arc", half), Point(here + bend[i], "arc", half)>>
        ELSE Append(out, Point(here, IF i <= Corners THEN "corner" ELSE "straight", here - last))
Rounding[i \in 0 .. Corners + 1] == IF i = 0 THEN <<Point(0, "straight", 0)>> ELSE With(Rounding[i - 1], i)

\* build_speed_profile: the way that remains decides before the kind of the point does.
Remaining(pts) ==
    LET way[i \in DOMAIN pts] == IF i = Len(pts) THEN 0 ELSE way[i + 1] + pts[i + 1].gap
    IN  way
Phase(pts, i) ==
    IF i = Len(pts) THEN "stop"
    ELSE IF Remaining(pts)[i] <= Brake THEN "brake"
    ELSE IF pts[i].kind = "arc" THEN "curve" ELSE "cruise"

-----------------------------------------------------------------------------
\* Circles at neighbouring corners never meet, so that the rounded route goes on from point to
\* point; inside the braking distance no later point takes a speed up again, and what is
\* faster than braking lies on no arc.
ProfileSound ==
    LET pts == Rounding[Corners + 1]
        n   == Len(pts)
    IN  /\ \A i \in 2 .. n : pts[i].gap > 0 /\ pts[i].at > pts[i - 1].at
        /\ pts[1].at = 0 /\ pts[n].at = At[Corners + 1]
        /\ \A i \in 1 .. n - 1 : Phase(pts, i) \in {"brake", "stop"} => Phase(pts, i + 1) \in {"brake", "stop"}
        /\ \A i \in 1 .. n : Phase(pts, i) = "cruise" => pts[i].kind # "arc"
=============================================================================
