----------------------------- MODULE PhoneBrake -----------------------------
(***************************************************************************)
(* phone_emergency_brake_node.py.  A phone signal starts an emergency; the *)
(* 30 Hz timer then sends a STOP override for every tick, until the        *)
(* planner has a new route or the time is up.  Times are in clock units;   *)
(* the planner and the phone are the environment.                          *)
(***************************************************************************)
EXTENDS Naturals

CONSTANTS
    MinHold, MaxHold,   \* emergency_stop_min_sec, _max_sec
    SignalTtl,          \* phone_signal_ttl_sec
    Cooldown,           \* retrigger_cooldown_sec
    Depth,              \* override messages that can be on their way
    MaxPlans            \* bound: route versions of the planner

ASSUME BrakeAssumption ==
    /\ {MinHold, MaxHold, SignalTtl, Cooldown, Depth, MaxPlans} \subseteq Nat
    /\ MinHold < MaxHold /\ Cooldown > 0 /\ Depth > 0

NoPlan == MaxPlans + 1      \* route_version not known yet

VARIABLES
    active, age,        \* emergency_active; while it is, now - emergency_started_wall
    released,           \* now - last_release_wall, up to Cooldown
    signalLeft,         \* phone_active_until - now
    startRv, lastRv, changed,   \* start_route_version, last_route_version, route_changed_since_start
    wanting,            \* the last planner status: the route failed, or it is an emergency block
    due,                \* the 30 Hz timer has not run in this clock unit
    overrides,          \* messages on /tank/api/get_action/override
    plan                \* external: the planner's route_version

brake == <<active, age, released, signalLeft, startRv, lastRv, changed, wanting, due,
           overrides, plan>>

Down(n)    == IF n = 0 THEN 0 ELSE n - 1
Up(n, top) == IF n = top THEN n ELSE n + 1

BrakeInit ==
    /\ active = FALSE /\ age = 0 /\ released = Cooldown /\ signalLeft = 0
    /\ startRv = NoPlan /\ lastRv = NoPlan /\ changed = FALSE
    /\ wanting = FALSE /\ due = FALSE /\ overrides = 0
    /\ plan = 0

NewEmergency == ~active /\ released >= Cooldown

\* _activate_emergency, from a detection, a virtual obstacle or a cluster.
Signal ==
    /\ signalLeft' = SignalTtl
    /\ IF NewEmergency
       THEN active' = TRUE /\ age' = 0 /\ startRv' = lastRv /\ changed' = FALSE
       ELSE UNCHANGED <<active, age, startRv, changed>>
    /\ UNCHANGED <<released, lastRv, wanting, due, overrides, plan>>

\* detections_cb with a clear or an inject_off command.
ClearCommand ==
    /\ active' = FALSE /\ age' = 0 /\ signalLeft' = 0 /\ released' = 0
    /\ UNCHANGED <<startRv, lastRv, changed, wanting, due, overrides, plan>>

\* planner_status_cb: rv, then the reason and the emergency block.
PlannerStatus(fails, blocks) ==
    /\ lastRv' = plan
    /\ changed' = (changed \/ (active /\ startRv # NoPlan /\ plan # startRv))
    /\ wanting' = (fails \/ blocks)
    /\ UNCHANGED <<active, age, released, signalLeft, startRv, due, overrides, plan>>

HoldForEver == active

\* _should_stop
ShouldStop ==
    /\ active /\ age < MaxHold
    /\ age < MinHold \/ wanting \/ signalLeft > 0 \/ ~changed

\* timer_cb
BrakeTimer ==
    /\ due' = FALSE
    /\ IF ShouldStop THEN overrides' = Up(overrides, Depth) /\ UNCHANGED <<active, age, released>>
       ELSE /\ active' = FALSE /\ age' = 0 /\ UNCHANGED overrides
            /\ released' = IF active THEN 0 ELSE released
    /\ UNCHANGED <<signalLeft, startRv, lastRv, changed, wanting, plan>>

\* The planner commits a route (external).
Replan == plan < MaxPlans /\ plan' = plan + 1
          /\ UNCHANGED <<active, age, released, signalLeft, startRv, lastRv, changed, wanting,
                         due, overrides>>

\* Time passes; at 30 Hz the timer runs at least once in every unit.
BrakeClock ==
    /\ ~due /\ due' = TRUE
    /\ age' = IF active THEN Up(age, MaxHold + 1) ELSE age
    /\ released' = Up(released, Cooldown) /\ signalLeft' = Down(signalLeft)
    /\ UNCHANGED <<active, startRv, lastRv, changed, wanting, overrides, plan>>

BrakeStep ==
    \/ Signal \/ ClearCommand \/ BrakeTimer \/ Replan
    \/ \E fails, blocks \in BOOLEAN : PlannerStatus(fails, blocks)

-----------------------------------------------------------------------------
BrakeTypeOK ==
    /\ {active, changed, wanting, due} \subseteq BOOLEAN
    /\ age \in 0 .. MaxHold + 1 /\ released \in 0 .. Cooldown /\ signalLeft \in 0 .. SignalTtl
    /\ {startRv, lastRv} \subseteq 0 .. NoPlan /\ plan \in 0 .. MaxPlans
    /\ overrides \in 0 .. Depth

\* A route that the brake counts as new is one that the planner committed after the last
\* status before the emergency; a start without a status never counts one.
ChangeIsReal == changed => startRv # NoPlan /\ startRv < plan

\* "emergency_stop_max_sec ... cannot freeze the tank forever": no emergency outlasts its
\* maximum, and the timer that finds it over releases it in the same clock unit.
BrakeBounded == active => age <= MaxHold /\ (age = MaxHold => due)

\* A brake that lets go before its time is up was told to by the phone, or has held for the
\* minimum and knows a newer route than at its start.
ReleaseEarned ==
    [][active /\ ~active' /\ age < MaxHold =>
          \/ released' = 0 /\ signalLeft' = 0 /\ due' = due
          \/ age >= MinHold /\ startRv # NoPlan /\ startRv < plan]_brake
=============================================================================
