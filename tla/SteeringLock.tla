---------------------------- MODULE SteeringLock ----------------------------
(***************************************************************************)
(* The A/D axis of tank_controller_node.py: the direction lock and, behind *)
(* it, the oscillation guard.  One step is one tick of the controller.     *)
(***************************************************************************)
EXTENDS Integers, FiniteSets

CONSTANTS Lock, Window, Threshold, Hold     \* the first two and the last in ticks

VARIABLES
    ad,                 \* what the last tick that steered published: A, D or none ("")
    lock, lockLeft,     \* _steering_direction_lock_cmd, _until - now
    last,               \* _last_effective_ad_cmd
    flips,              \* ages of _ad_flip_times
    hold, holdLeft,     \* _ad_oscillation_hold_cmd, _until - now
    turns,              \* history: ages of the reversals from one side straight to the other
    side, kept          \* history: the last side published, and for how long, at most Hold

vars == <<ad, lock, lockLeft, last, flips, hold, holdLeft, turns, side, kept>>

Sides   == {"A", "D"}
Down(n) == IF n = 0 THEN 0 ELSE n - 1
Aged(s) == {a + 1 : a \in {b \in s : b < Window}}

Init ==
    /\ ad = "none" /\ lock = "none" /\ lockLeft = 0 /\ last = "none" /\ flips = {}
    /\ hold = "none" /\ holdLeft = 0 /\ turns = {} /\ side = "none" /\ kept = Hold

\* apply_steering_direction_lock
Locked(want) == IF lockLeft > 1 /\ lock # "none" THEN lock ELSE want

KeepLock(want) ==
    \/ want = "none" /\ lock' = "none" /\ lockLeft' = 0
    \/ want # "none" /\ lockLeft > 1 /\ lock # "none" /\ lock' = lock /\ lockLeft' = lockLeft - 1
    \/ want # "none" /\ (lockLeft <= 1 \/ lock = "none") /\ lock' = want /\ lockLeft' = Lock

\* apply_ad_oscillation_guard; "steer" is the direction that the lock lets pass.
Counted(steer) == Aged(flips) \cup {0 : x \in {last} \ {"none", steer}}

Guard(steer) ==
    \/ /\ steer = "none" /\ ad' = "none" /\ last' = "none" /\ flips' = Aged(flips)
       /\ hold' = hold /\ holdLeft' = Down(holdLeft)
    \/ /\ steer # "none" /\ holdLeft > 1
       /\ ad' = hold /\ last' = hold /\ flips' = Aged(flips)
       /\ hold' = hold /\ holdLeft' = holdLeft - 1
    \/ /\ steer # "none" /\ holdLeft <= 1
       /\ IF Cardinality(Counted(steer)) >= Threshold
            THEN LET keep == IF last # "none" THEN last ELSE steer
                 IN  /\ hold' = keep /\ holdLeft' = Hold /\ flips' = {}
                     /\ ad' = keep /\ last' = keep
            ELSE /\ hold' = "none" /\ holdLeft' = 0 /\ flips' = Counted(steer)
                 /\ ad' = steer /\ last' = steer

\* A swing is a change of side, with or without ticks between that want none.
Longer == IF kept < Hold THEN kept + 1 ELSE kept

Note ==
    /\ turns' = Aged(turns) \cup (IF {ad, ad'} = Sides THEN {0} ELSE {})
    /\ side' = (IF ad' = "none" THEN side ELSE ad')
    /\ kept' = (IF {side, ad'} = Sides THEN 0 ELSE Longer)

\* A tick that steers: the path, or a pivot, wants the hull to turn this way.
Steer(want) ==
    /\ KeepLock(want)
    /\ Guard(IF want = "none" THEN "none" ELSE Locked(want))
    /\ Note

\* A tick that returns earlier (terminal stop, escape, no pose).
Skip ==
    /\ lockLeft' = Down(lockLeft) /\ holdLeft' = Down(holdLeft)
    /\ flips' = Aged(flips) /\ turns' = Aged(turns) /\ kept' = Longer
    /\ UNCHANGED <<ad, lock, last, hold, side>>

Next == (\E want \in Sides \cup {"none"} : Steer(want)) \/ Skip

Spec == Init /\ [][Next]_vars

-----------------------------------------------------------------------------
\* Type invariant.
TypeOK ==
    /\ {ad, lock, last, hold, side} \subseteq Sides \cup {"none"}
    /\ lockLeft \in 0 .. Lock /\ holdLeft \in 0 .. Hold /\ kept \in 0 .. Hold
    /\ flips \subseteq 0 .. Window /\ turns \subseteq 0 .. Window

\* Lock and guard together: however the wanted side flips, the published one goes from one
\* side straight to the other fewer than Threshold times within the window; and while the
\* guard holds a side, nothing changes it, not even by way of ticks that want no side.  Such a
\* tick clears lock and memory (1091-1094, 1143-1146), so swings by way of it are bounded in
\* a hold only.
FewReversals == Cardinality(turns) < Threshold /\ (holdLeft > 0 => kept + holdLeft > Hold)

=============================================================================
