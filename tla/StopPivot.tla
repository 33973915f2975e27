----------------------------- MODULE StopPivot -----------------------------
(***************************************************************************)
(* The two STOP pivots of tank_controller_node.py: in front of an obstacle *)
(* (APF) and in a sharp bend of the path.  Each has a longest time and a   *)
(* cooldown.  One step is one tick that steers; angles and distances are   *)
(* what the tick's input says of them.                                     *)
(***************************************************************************)
EXTENDS Integers

CONSTANTS ApfMax, ApfCool, SharpMax, SharpCool, AwayLock    \* in ticks

VARIABLES
    apfAge, apfLeft,        \* now - _apf_stop_pivot_start (-1: not set), cooldown
    sharpAge, sharpLeft,    \* the same for the sharp turn
    away, awayLeft,         \* _away_turn_lock_cmd, _until - now
    mode,       \* what the tick did: apf, sharp, slow or path
    turn,       \* apf_vector_control["turn_cmd"]
    apfRun, sharpRun,       \* history: ticks that this pivot has lasted
    calm        \* history: ticks since the turn changed

vars == <<apfAge, apfLeft, sharpAge, sharpLeft, away, awayLeft, mode, turn, apfRun, sharpRun, calm>>

Sides   == {"A", "D"}
Down(n) == IF n = 0 THEN 0 ELSE n - 1
Since(age) == IF age < 0 THEN 0 ELSE age + 1        \* the start is set, or stays

Init ==
    /\ apfAge = -1 /\ apfLeft = 0 /\ sharpAge = -1 /\ sharpLeft = 0
    /\ away = "none" /\ awayLeft = 0 /\ mode = "path" /\ turn = "none"
    /\ apfRun = 0 /\ sharpRun = 0 /\ calm = 0

\* heading_stop, ttc_stop or recommended_stop, with the loop guard.  "aligned" only
\* comes with the last two: heading_stop needs a larger angle than the release.
ApfPivot(wants, aligned, go) ==
    LET age == Since(apfAge)
    IN  \/ ~wants /\ ~go /\ apfAge' = -1 /\ apfLeft' = Down(apfLeft)
        \/ wants /\ apfLeft > 1 /\ ~go /\ apfLeft' = apfLeft - 1
             /\ apfAge' = IF apfAge < 0 THEN -1 ELSE age
        \/ wants /\ apfLeft <= 1 /\ (aligned \/ age >= ApfMax) /\ ~go /\ apfAge' = -1 /\ apfLeft' = ApfCool
        \/ wants /\ apfLeft <= 1 /\ ~aligned /\ age < ApfMax /\ go /\ apfAge' = age /\ apfLeft' = 0

\* sharp_turn_pivot_decision; "wants" has the angle, the distance and the side pass.
SharpPivot(wants, go) ==
    LET age == Since(sharpAge)
    IN  \/ (~wants \/ sharpLeft > 1) /\ ~go /\ sharpAge' = -1 /\ sharpLeft' = Down(sharpLeft)
        \/ wants /\ sharpLeft <= 1 /\ age >= SharpMax /\ ~go /\ sharpAge' = -1 /\ sharpLeft' = SharpCool
        \/ wants /\ sharpLeft <= 1 /\ age < SharpMax /\ go /\ sharpAge' = age /\ sharpLeft' = 0

Locked == awayLeft > 1

\* The side of the turn: the lock, away from the nearest obstacle ("none" if that is not
\* to be used), else what the field or the heading says.
TurnAway(near, field, avoiding) ==
    LET side == IF Locked THEN away ELSE IF near # "none" THEN near ELSE field
    IN  /\ turn' = side
        /\ IF ~avoiding THEN away' = "none" /\ awayLeft' = 0
           ELSE IF ~Locked /\ near # "none" THEN away' = near /\ awayLeft' = AwayLock
           ELSE away' = away /\ awayLeft' = Down(awayLeft)

Run(n, on, most) == IF on THEN (IF n > most THEN n ELSE n + 1) ELSE 0

Longer == IF calm = AwayLock THEN calm ELSE calm + 1

\* timer_cb: the APF pivot comes first, but the sharp turn is decided all the same.
Tick(apf, aligned, slow, sharp, near, field) ==
    \E goApf, goSharp \in BOOLEAN :
        /\ ApfPivot(apf, aligned, goApf)
        /\ SharpPivot(sharp, goSharp)
        /\ TurnAway(near, field, apf \/ slow)
        /\ mode' = IF goApf THEN "apf" ELSE IF goSharp THEN "sharp" ELSE IF apf \/ slow THEN "slow" ELSE "path"
        /\ apfRun' = Run(apfRun, goApf, ApfMax) /\ sharpRun' = Run(sharpRun, goSharp, SharpMax)
        /\ calm' = IF turn # turn' THEN 0 ELSE Longer

\* A tick that does not steer: time passes, the ages go on.
Skip ==
    /\ apfAge' = IF apfAge < 0 THEN -1 ELSE IF apfAge >= ApfMax THEN apfAge ELSE apfAge + 1
    /\ sharpAge' = IF sharpAge < 0 THEN -1 ELSE IF sharpAge >= SharpMax THEN sharpAge ELSE sharpAge + 1
    /\ apfLeft' = Down(apfLeft) /\ sharpLeft' = Down(sharpLeft) /\ awayLeft' = Down(awayLeft)
    /\ mode' = "path" /\ apfRun' = 0 /\ sharpRun' = 0 /\ calm' = Longer
    /\ UNCHANGED <<away, turn>>

Next ==
    \/ \E apf, aligned, slow, sharp \in BOOLEAN, near, field \in Sides \cup {"none"} :
          (aligned => apf) /\ Tick(apf, aligned, slow, sharp, near, field)
    \/ Skip

Spec == Init /\ [][Next]_vars

-----------------------------------------------------------------------------
\* Type invariant.
TypeOK ==
    /\ apfAge \in -1 .. ApfMax /\ apfLeft \in 0 .. ApfCool
    /\ sharpAge \in -1 .. SharpMax /\ sharpLeft \in 0 .. SharpCool
    /\ {away, turn} \subseteq Sides \cup {"none"} /\ awayLeft \in 0 .. AwayLock
    /\ mode \in {"apf", "sharp", "slow", "path"}

\* Neither pivot holds the hull for longer than its time.
PivotIsBrief == apfRun <= ApfMax /\ sharpRun <= SharpMax

\* Once the hull turns away from an obstacle, the turn is not reversed sooner than the
\* lock says, whichever pivot, cooldown or slow turn the ticks in between are.
TurnKept == [][awayLeft > 0 /\ {turn, turn'} = Sides => calm + 1 >= AwayLock]_vars
=============================================================================
