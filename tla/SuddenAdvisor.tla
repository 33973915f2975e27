--------------------------- MODULE SuddenAdvisor ---------------------------
(***************************************************************************)
(* mission/sudden_advisor_node.py with the judgement of                    *)
(* sudden_decision.py: at 2 Hz the new threats are judged, the judgement   *)
(* is committed when it has been the same for Hyst ticks, and a committed  *)
(* RETURN is latched and published as a goal and an abort until the node   *)
(* ends.  The geometry of the threats is reduced to the counts decide()    *)
(* looks at.  The status panel and the advice of the language model, which *)
(* is only displayed, are left out.                                        *)
(***************************************************************************)
EXTENDS Naturals, Sequences

CONSTANTS
    Hyst,           \* hysteresis_ticks
    MaxThreats,     \* bound of the model: new threats seen at once
    Home,           \* return_x, return_y: also the spawn point
    None,
    ExecuteReturn   \* execute_return

VARIABLES
    pos,            \* where the tank is; None before the first pose
    armed,          \* self.return_armed
    recent,         \* self._recent
    committed,      \* self._committed
    returning,      \* self.return_active
    skipped,        \* the last tick of the return was too soon for a heartbeat
    wire,           \* its goal and abort messages, on their way to a subscriber
    streak          \* history: armed ticks in a row that judged RETURN, up to Hyst

watch  == <<armed, recent, committed, streak>>
latch  == <<returning, skipped>>
vars   == <<pos, watch, latch, wire>>

Decisions == {"NONE", "ENGAGE", "BYPASS", "RETURN"}
Heartbeat == {"goal", "planner_abort", "turret_abort"}

Init ==
    /\ pos = None /\ armed = FALSE
    /\ recent = <<>> /\ committed = "NONE"
    /\ returning = FALSE /\ skipped = FALSE
    /\ wire = {} /\ streak = 0

-----------------------------------------------------------------------------
(* sudden_decision.decide over what build_mission_features counts: the new *)
(* threats, those in weapon range and sight, and whether one is so close   *)
(* and exposed that its risk passes the threshold.  Such a threat is       *)
(* nearer than the least weapon range.                                     *)

Features ==
    {f \in [n : 0 .. MaxThreats, engageable : 0 .. MaxThreats, hot : BOOLEAN] :
        f.engageable <= f.n /\ (f.hot => f.engageable < f.n)}

Overwhelmed(f) == f.n >= 2 /\ f.engageable < f.n
Exposed(f)     == f.hot /\ f.engageable = 0

Judge(f) ==
    IF f.n = 0 THEN "NONE"
    ELSE IF Overwhelmed(f) \/ Exposed(f) THEN "RETURN"
    ELSE IF f.engageable > 0 THEN "ENGAGE"
    ELSE "BYPASS"

Judgements == {Judge(f) : f \in Features}

Remember(a) ==
    LET r == Append(recent, a) IN IF Len(r) > Hyst THEN Tail(r) ELSE r

\* The last Hyst judgements if they agree, else what was committed before.
Commit(r) ==
    IF Len(r) = Hyst /\ \A i \in DOMAIN r : r[i] = r[1] THEN r[1] ELSE committed

-----------------------------------------------------------------------------
(* _tick.                                                                  *)

Located == pos # None

\* Armed for good once the tank is 35 m away, which it is not at home.
Departed(away) == armed \/ (away /\ pos # Home)

Counted(a) ==
    IF a = "RETURN"
    THEN IF streak < Hyst THEN streak + 1 ELSE streak
    ELSE 0

\* (mutant) a return is executed from the spawn point, too.
TickAtSpawnUnguarded(a) ==
    /\ Located /\ ~returning /\ ~armed
    /\ recent' = Remember(a) /\ committed' = Commit(recent')
    /\ returning' = (committed' = "RETURN")
    /\ wire' = IF returning' THEN wire \cup Heartbeat ELSE wire
    /\ streak' = 0
    /\ UNCHANGED <<pos, armed, skipped>>

\* Not yet departed: the judgement is shown, and none is remembered.
TickAtSpawn(a) ==
    /\ Located /\ ~returning /\ ~armed
    /\ recent' = <<>> /\ committed' = "NONE"
    /\ streak' = 0
    /\ UNCHANGED <<pos, armed, latch, wire>>

TickWatch(a, away) ==
    /\ Located /\ ~returning /\ Departed(away)
    /\ armed' = TRUE /\ streak' = Counted(a)
    /\ recent' = Remember(a) /\ committed' = Commit(Remember(a))
    /\ ~(ExecuteReturn /\ committed' = "RETURN")
    /\ UNCHANGED <<pos, latch, wire>>

\* _start_return: latched, and published at once.
TickStartReturn(a, away) ==
    /\ Located /\ ~returning /\ Departed(away)
    /\ ExecuteReturn /\ Commit(Remember(a)) = "RETURN"
    /\ armed' = TRUE /\ streak' = Counted(a)
    /\ committed' = "RETURN" /\ recent' = <<>>
    /\ returning' = TRUE /\ skipped' = FALSE
    /\ wire' = wire \cup Heartbeat
    /\ UNCHANGED pos

\* (mutant) goal and abort are published with the transition only.
TickReturnSilent(a) ==
    /\ Located /\ returning
    /\ committed' = "RETURN" /\ recent' = <<>> /\ streak' = Counted(a)
    /\ UNCHANGED <<pos, armed, latch, wire>>

\* Terminal: whatever is judged now, goal and abort are repeated every 0.5 s.  The
\* tick has the same period, so one of two may come too early.
TickReturn(a) ==
    /\ Located /\ returning
    /\ committed' = "RETURN" /\ recent' = <<>> /\ streak' = Counted(a)
    /\ \/ wire' = wire \cup Heartbeat /\ skipped' = FALSE
       \/ ~skipped /\ skipped' = TRUE /\ UNCHANGED wire
    /\ UNCHANGED <<pos, armed, returning>>

Tick ==
    \E a \in Judgements :
        \/ TickAtSpawn(a) \/ TickReturn(a)
        \/ \E away \in BOOLEAN : TickWatch(a, away) \/ TickStartReturn(a, away)

\* Type invariant.
TypeOK ==
    /\ armed \in BOOLEAN /\ returning \in BOOLEAN /\ skipped \in BOOLEAN
    /\ recent \in Seq(Decisions) /\ Len(recent) <= Hyst
    /\ committed \in Decisions /\ wire \subseteq Heartbeat /\ streak \in 0 .. Hyst
=============================================================================
