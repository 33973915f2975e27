---------------------------- MODULE DecisionFSM ----------------------------
(***************************************************************************)
(* The tactical FSM of mission/decision_node.py, talking to the turret of  *)
(* mission/mock_turret_node.py over the topics of engage_contract.py.      *)
(*                                                                         *)
(* FORWARD drives the route, ENGAGE waits for the result of an engagement  *)
(* request, RETURN is the terminal state that sends the tank home.  The    *)
(* decision node ticks at 2 Hz, which is the unit of time here.  What it   *)
(* compares with poses and boxes (range, line of sight, the risk score) is *)
(* observed: any set of targets may be in reach, any risk may be too high. *)
(***************************************************************************)
EXTENDS Integers, Sequences, FiniteSets, FiniteSetTheorems, TLAPS

CONSTANTS
    Targets,        \* prefabs of the map's known tanks, and "enemy_main"
    NoTarget,       \* None
    Cooldown,       \* engage_cooldown_sec, in ticks
    Timeout,        \* engage_timeout_sec, in ticks
    AimTime,        \* aim_sec of the turret, in ticks
    Outcomes,       \* what the turret can report; {TRUE} with always_hit
    MaxInFlight     \* bound of the model: a request beyond it is lost on the way

ASSUME DecisionAssumption ==
    /\ NoTarget \notin Targets
    /\ Cooldown \in Nat /\ Timeout \in Nat /\ AimTime \in Nat
    /\ Outcomes \subseteq BOOLEAN /\ MaxInFlight \in Nat

VARIABLES
    state,          \* self.state
    target,         \* self.engage_target_id
    age,            \* time since last_engage_request_wall = engage_started_wall
    killed,         \* self.killed
    posed,          \* self.player_xy is not None
    inReach,        \* candidates in engage_range_m with a line of sight
    risky,          \* worst_risk of the unmatched tanks > risk_threshold
    goal,           \* the goal pose the planner heard last
    requests,       \* /tank/engage/request
    pending,        \* the turret's self._pending
    results,        \* /tank/engage/result
    shots,          \* history: how often the turret fired at each target, up to 2
    prompt          \* history: the turret always hit, and no message or turret
                    \* timer was late for the next tick

turret   == <<pending, shots, prompt>>
scene    == <<posed, inReach, risky>>
decision == <<state, target, killed>>
vars     == <<decision, age, goal, scene, requests, results, turret>>

States  == {"FORWARD", "ENGAGE", "RETURN"}
Horizon == IF Cooldown > Timeout THEN Cooldown ELSE Timeout  \* age stops here

Init ==
    /\ state = "FORWARD" /\ target = NoTarget /\ killed = {}
    /\ age = Horizon                     \* the clock starts long before
    /\ posed = FALSE /\ inReach = {} /\ risky = FALSE
    /\ goal = "route"
    /\ requests = <<>> /\ pending = <<>> /\ results = <<>>
    /\ shots = [t \in Targets |-> 0] /\ prompt = TRUE

-----------------------------------------------------------------------------
(* _tick, one action for each branch that changes something.               *)

Alive == posed /\ state # "RETURN"

\* (mutant) the goal is sent once, with the transition only.
RepeatReturnOnce ==
    /\ posed /\ state = "RETURN"
    /\ UNCHANGED vars

\* RETURN is terminal: the goal is published again at every tick.
RepeatReturn ==
    /\ posed /\ state = "RETURN"
    /\ goal' = "home"
    /\ UNCHANGED <<decision, age, scene, requests, results, turret>>

\* An unknown tank is too close: the return outranks every engagement.
BeginReturn ==
    /\ Alive /\ risky
    /\ state' = "RETURN" /\ goal' = "home"
    /\ UNCHANGED <<target, killed, age, scene, requests, results, turret>>

InFlight == Len(requests) + Len(pending) + Len(results)
Published(t) == IF InFlight < MaxInFlight THEN Append(requests, t) ELSE requests

\* (mutant) the cooldown is not asked.
RequestAtOnce(t) ==
    /\ Alive /\ ~risky
    /\ t \in inReach \ killed
    /\ requests' = Published(t)
    /\ age' = 0 /\ target' = t /\ state' = "ENGAGE"
    /\ UNCHANGED <<killed, goal, scene, results, turret>>

\* The nearest live target in reach is requested, once per cooldown, and the wait
\* for its result starts again.
RequestEngagement(t) ==
    /\ Alive /\ ~risky
    /\ t \in inReach \ killed /\ age >= Cooldown
    /\ requests' = Published(t)
    /\ age' = 0 /\ target' = t /\ state' = "ENGAGE"
    /\ UNCHANGED <<killed, goal, scene, results, turret>>

\* (mutant) the timeout of the wait is never looked at.
EngageNoTimeout == FALSE /\ UNCHANGED vars

\* Only a tick without a live target in reach looks at the timeout.
EngageTimeout ==
    /\ Alive /\ ~risky /\ inReach \subseteq killed
    /\ state = "ENGAGE" /\ age >= Timeout
    /\ target' = NoTarget /\ state' = "FORWARD"
    /\ UNCHANGED <<killed, age, goal, scene, requests, results, turret>>

-----------------------------------------------------------------------------
(* The callbacks of the decision node.                                     *)

\* Poses, the enemy and the discovered tanks change what the next tick sees.
Observe(seen, risk) ==
    /\ posed' = TRUE /\ inReach' = seen /\ risky' = risk
    /\ UNCHANGED <<decision, age, goal, requests, results, turret>>

\* A success is booked in any state; it ends the wait for that very target.
EngageResult ==
    /\ results # <<>> /\ results' = Tail(results)
    /\ LET r == Head(results) IN
       /\ killed' = IF r.success THEN killed \cup {r.target} ELSE killed
       /\ IF r.success /\ state = "ENGAGE" /\ target = r.target
          THEN state' = "FORWARD" /\ target' = NoTarget
          ELSE UNCHANGED <<state, target>>
    /\ UNCHANGED <<age, goal, scene, requests, turret>>

-----------------------------------------------------------------------------
(* The turret: every request is queued, and fired on when its aim is done. *)

TurretRequest ==
    /\ requests # <<>> /\ requests' = Tail(requests)
    /\ pending' = Append(pending, [target |-> Head(requests), wait |-> AimTime])
    /\ UNCHANGED <<decision, age, goal, scene, results, shots, prompt>>

Due(p) == p.wait = 0

\* What the loop of _tick takes from the queue s, in its order: the entries that
\* are due, or the others.
Taken(s, due) ==
    LET taken[i \in 0 .. Len(s)] ==
          IF i = 0 THEN <<>>
          ELSE IF Due(s[i]) = due THEN Append(taken[i - 1], s[i]) ELSE taken[i - 1]
    IN  taken[Len(s)]

\* _tick: fire everything that is due, keep the rest.
TurretFire ==
    /\ \E i \in DOMAIN pending : Due(pending[i])
    /\ LET fired == Taken(pending, TRUE) IN
       /\ \E hits \in [DOMAIN fired -> Outcomes] :
            /\ results' = results \o [i \in DOMAIN fired |->
                             [target |-> fired[i].target, success |-> hits[i]]]
            /\ prompt' = (prompt /\ \A i \in DOMAIN fired : hits[i])
       /\ shots' = [t \in Targets |->
             LET n == shots[t] + Cardinality({i \in DOMAIN fired : fired[i].target = t})
             IN  IF n > 2 THEN 2 ELSE n]
       /\ pending' = Taken(pending, FALSE)
    /\ UNCHANGED <<decision, age, goal, scene, requests>>

\* Half a second passes, in time if nothing is still on its way or due.
InTime == requests = <<>> /\ results = <<>> /\ \A i \in DOMAIN pending : ~Due(pending[i])

Elapse ==
    /\ prompt' = (prompt /\ InTime)
    /\ age' = IF age < Horizon THEN age + 1 ELSE age
    /\ pending' = [i \in DOMAIN pending |->
          [target |-> pending[i].target,
           wait |-> IF pending[i].wait > 0 THEN pending[i].wait - 1 ELSE 0]]
    /\ UNCHANGED <<decision, goal, scene, requests, results, shots>>

\* The planner republishes its own goal on the shared topic.
PlannerGoal ==
    /\ goal' = "route"
    /\ UNCHANGED <<decision, age, scene, requests, results, turret>>

Tick ==
    \/ RepeatReturn \/ BeginReturn \/ EngageTimeout
    \/ \E t \in Targets : RequestEngagement(t)

Next ==
    \/ Tick
    \/ \E seen \in SUBSET Targets, risk \in BOOLEAN : Observe(seen, risk)
    \/ EngageResult \/ TurretRequest \/ TurretFire
    \/ Elapse \/ PlannerGoal

Spec == Init /\ [][Next]_vars

\* The 2 Hz timer and time itself go on.  Nothing is asked of the turret.
Fairness ==
    /\ WF_vars(Tick) /\ WF_vars(Elapse)

FairSpec == Spec /\ Fairness

-----------------------------------------------------------------------------
(* Properties.                                                             *)

Results  == [target : Targets, success : BOOLEAN]
Waiting  == [target : Targets, wait : 0 .. AimTime]

\* Type invariant.
TypeOK ==
    /\ state \in States /\ target \in Targets \cup {NoTarget}
    /\ age \in 0 .. Horizon /\ killed \subseteq Targets
    /\ posed \in BOOLEAN /\ inReach \subseteq Targets /\ risky \in BOOLEAN
    /\ goal \in {"route", "home"}
    /\ requests \in Seq(Targets) /\ pending \in Seq(Waiting) /\ results \in Seq(Results)
    /\ shots \in [Targets -> 0 .. 2] /\ prompt \in BOOLEAN

\* The tank never stands engaging nothing, or a target it has already destroyed,
\* in whatever order requests, results, timeouts and kills of other targets come.
EngagesLiveTarget ==
    /\ state = "ENGAGE"  => target \in Targets \ killed
    /\ state = "FORWARD" => target = NoTarget

\* RETURN is terminal: no late result and no target in reach revives the mission,
\* and nothing is requested any more.
ReturnIsTerminal ==
    [][state = "RETURN" => state' = "RETURN" /\ Len(requests') <= Len(requests)]_vars

\* While the turret hits and answers in time, no target is fired at twice: the
\* cooldown outlasts the engagement and the kill comes first.
OneShotEach == prompt => \A t \in Targets : shots[t] <= 1

\* Both, of values of their types.
EngagementsSound == TypeOK /\ EngagesLiveTarget /\ OneShotEach

\* Once every target is out of reach or destroyed for good, the wait ends.
DeadlineFreesTheTank ==
    <>[](posed /\ inReach \subseteq killed) => <>[](state # "ENGAGE")

\* In RETURN the planner hears the home goal again after any goal of its own.
ReturnReasserted == [](state = "RETURN" => <>(goal = "home"))

\* The return holds on both topics it uses: the engagements and the goal.
ReturnHolds == ReturnIsTerminal /\ ReturnReasserted

-----------------------------------------------------------------------------
(* Two of the properties for any targets, times and queues.                *)

Steady ==
    /\ state \in States
    /\ requests \in Seq(Targets)
    /\ EngagesLiveTarget

\* What the node and the turret do while the state stays what it is.
LEMMA OthersKeepDecision ==
  ASSUME RepeatReturn \/ TurretRequest \/ TurretFire \/ Elapse \/ PlannerGoal
           \/ (\E seen \in SUBSET Targets, risk \in BOOLEAN : Observe(seen, risk))
           \/ UNCHANGED vars
  PROVE  UNCHANGED decision /\ (requests' = requests \/ TurretRequest)
  BY DEF RepeatReturn, TurretRequest, TurretFire, Elapse, PlannerGoal, Observe, vars

LEMMA QueueOnlyShrinks ==
  ASSUME requests \in Seq(Targets), TurretRequest
  PROVE  requests' \in Seq(Targets) /\ Len(requests') <= Len(requests)
  BY DEF TurretRequest

LEMMA SteadyKept == Steady /\ [Next]_vars => Steady'
  <1> SUFFICES ASSUME Steady, [Next]_vars PROVE Steady'
    OBVIOUS
  <1>1. CASE RepeatReturn \/ TurretRequest \/ TurretFire \/ Elapse \/ PlannerGoal
               \/ (\E seen \in SUBSET Targets, risk \in BOOLEAN : Observe(seen, risk))
               \/ UNCHANGED vars
    BY <1>1, OthersKeepDecision, QueueOnlyShrinks DEF Steady, EngagesLiveTarget, decision
  <1>2. CASE BeginReturn \/ EngageTimeout
    BY <1>2 DEF BeginReturn, EngageTimeout, Alive, Steady, EngagesLiveTarget, States
  <1>3. ASSUME NEW t \in Targets, RequestEngagement(t) PROVE Steady'
    <2>1. Published(t) \in Seq(Targets)
      BY DEF Steady, Published
    <2> QED BY <1>3, <2>1 DEF RequestEngagement, Steady, EngagesLiveTarget, States
  <1>4. CASE EngageResult
    <2> DEFINE r == Head(results)
    <2>1. CASE r.success /\ state = "ENGAGE" /\ target = r.target
      BY <1>4, <2>1 DEF EngageResult, Steady, EngagesLiveTarget, States
    <2>2. CASE ~(r.success /\ state = "ENGAGE" /\ target = r.target)
      <3>1. UNCHANGED <<state, target, requests>>
        BY <1>4, <2>2 DEF EngageResult
      <3>2. killed' = IF r.success THEN killed \cup {r.target} ELSE killed
        BY <1>4 DEF EngageResult
      <3>3. state = "ENGAGE" => target \notin killed'
        BY <2>2, <3>2 DEF Steady, EngagesLiveTarget
      <3> QED BY <3>1, <3>3 DEF Steady, EngagesLiveTarget
    <2> QED BY <2>1, <2>2
  <1> QED BY <1>1, <1>2, <1>3, <1>4 DEF Next, Tick

LEMMA SteadyHolds == Spec => []Steady
  <1>1. Init => Steady
    BY DEF Init, Steady, EngagesLiveTarget, States
  <1> QED BY <1>1, SteadyKept, PTL DEF Spec

\* The tank never stands waiting for no target or for one it has destroyed, for any
\* targets, times, queue and turret (decision_node._tick and _engage_result_cb).
THEOREM LiveTargetsOnly == Spec => []EngagesLiveTarget
  BY SteadyHolds, PTL DEF Steady

\* No message, result or target takes the tank out of RETURN, and it asks for no engagement
\* there, for any targets, times, queue and turret (decision_node._tick).
THEOREM ReturnStaysTerminal == Spec => ReturnIsTerminal
  <1>1. Steady /\ [Next]_vars
          => [state = "RETURN" => state' = "RETURN" /\ Len(requests') <= Len(requests)]_vars
    <2> SUFFICES ASSUME Steady, [Next]_vars, state = "RETURN"
                 PROVE  state' = "RETURN" /\ Len(requests') <= Len(requests)
      OBVIOUS
    <2>1. CASE RepeatReturn \/ TurretRequest \/ TurretFire \/ Elapse \/ PlannerGoal
                 \/ (\E seen \in SUBSET Targets, risk \in BOOLEAN : Observe(seen, risk))
                 \/ UNCHANGED vars
      BY <2>1, OthersKeepDecision, QueueOnlyShrinks DEF Steady, decision
    <2>2. CASE EngageResult
      BY <2>2 DEF EngageResult, Steady
    <2>3. ~BeginReturn /\ ~EngageTimeout /\ ~(\E t \in Targets : RequestEngagement(t))
      BY DEF BeginReturn, EngageTimeout, RequestEngagement, Alive
    <2> QED BY <2>1, <2>2, <2>3 DEF Next, Tick
  <1> QED BY <1>1, SteadyHolds, PTL DEF Spec, ReturnIsTerminal
-----------------------------------------------------------------------------
(* Types, and one shot for each target, for any targets, times and queues. *)

\* Induction over the naturals: were n the end of a gap in T, taking one from each
\* member of the gap would squeeze it into itself without n.
LEMMA Induction ==
  ASSUME NEW T \in SUBSET Nat, 0 \in T, \A n \in T : n + 1 \in T
  PROVE  T = Nat
  <1> SUFFICES ASSUME NEW n \in Nat, n \notin T PROVE FALSE
    OBVIOUS
  <1> DEFINE D == {m \in 0 .. n : m \notin T}
             f == [m \in D |-> m - 1]
  <1>1. \A m \in D : m \in Nat \ {0} /\ m - 1 \in D \ {n}
    <2> SUFFICES ASSUME NEW m \in D PROVE m \in Nat \ {0} /\ m - 1 \in D \ {n}
      OBVIOUS
    <2>1. m \in Nat /\ m # 0 /\ m <= n
      OBVIOUS
    <2>2. m - 1 \in Nat /\ (m - 1) + 1 = m
      BY <2>1
    <2>3. m - 1 \notin T
      BY <2>2
    <2> QED BY <2>1, <2>2, <2>3
  <1>2. n \in D
    OBVIOUS
  <1>3. IsFiniteSet(D)
    <2>1. IsFiniteSet(0 .. n) /\ D \in SUBSET (0 .. n)
      BY FS_Interval
    <2> HIDE DEF D
    <2> QED BY <2>1, FS_Subset
  <1>4. IsFiniteSet(D \ {n}) /\ Cardinality(D \ {n}) < Cardinality(D)
    <2> HIDE DEF D
    <2>1. /\ IsFiniteSet(D \ {n})
          /\ Cardinality(D \ {n}) = Cardinality(D) - 1
      BY <1>2, <1>3, FS_RemoveElement, Zenon
    <2>2. Cardinality(D) \in Nat
      BY <1>3, FS_CardinalityType
    <2> QED BY <2>1, <2>2
  <1>5. f \in [D -> D \ {n}]
    BY <1>1
  <1>6. \E x, y \in D : x # y /\ f[x] = f[y]
    <2> HIDE DEF f, D
    <2> QED BY <1>3, <1>4, <1>5, FS_PigeonHole
  <1> QED BY <1>1, <1>6

\* One pass of the loop of _tick.
Pass(s, due, g, i) ==
    IF i = 0 THEN <<>>
    ELSE IF Due(s[i]) = due THEN Append(g[i - 1], s[i]) ELSE g[i - 1]

\* The loop of _tick ends, with entries of its queue only.
LEMMA LoopEnds ==
  ASSUME NEW W, NEW s \in Seq(W), NEW due \in BOOLEAN
  PROVE  \E g \in [0 .. Len(s) -> Seq(W)] : g = [i \in 0 .. Len(s) |-> Pass(s, due, g, i)]
  <1> DEFINE Upto(m, g) == g \in [0 .. m -> Seq(W)] /\ \A i \in 0 .. m : g[i] = Pass(s, due, g, i)
             T == {m \in Nat : m <= Len(s) => \E g : Upto(m, g)}
  <1>1. 0 \in T
    <2> DEFINE g == [i \in 0 .. 0 |-> <<>>]
    <2>1. Upto(0, g)
      BY DEF Pass
    <2> QED BY <2>1
  <1>2. ASSUME NEW m \in T PROVE m + 1 \in T
    <2>1. m \in Nat /\ (m <= Len(s) => \E g : Upto(m, g))
      OBVIOUS
    <2>2. ASSUME m + 1 <= Len(s) PROVE \E h : Upto(m + 1, h)
      <3>1. PICK g : Upto(m, g)
        <4> HIDE DEF Upto
        <4>1. m <= Len(s)
          BY <2>1, <2>2
        <4> QED BY <2>1, <4>1
      <3>2. s[m + 1] \in W
        BY <2>1, <2>2
      <3> DEFINE h == [i \in 0 .. m + 1 |-> IF i <= m THEN g[i] ELSE Pass(s, due, g, m + 1)]
      <3>3. Pass(s, due, g, m + 1) \in Seq(W)
        BY <2>1, <3>1, <3>2 DEF Pass
      <3>4. h \in [0 .. m + 1 -> Seq(W)]
        BY <2>1, <3>1, <3>3
      <3>5. ASSUME NEW i \in 0 .. m + 1 PROVE h[i] = Pass(s, due, h, i)
        <4>1. CASE i = 0
          BY <2>1, <3>1, <4>1 DEF Pass
        <4>2. CASE i \in 1 .. m
          <5>1. h[i] = g[i] /\ h[i - 1] = g[i - 1] /\ i # 0 /\ i \in 0 .. m
            BY <2>1, <4>2
          <5> QED BY <5>1, <3>1 DEF Pass
        <4>3. CASE i = m + 1
          <5>1. h[i] = Pass(s, due, g, i) /\ h[i - 1] = g[i - 1] /\ i # 0
            BY <2>1, <4>3
          <5> QED BY <5>1 DEF Pass
        <4> QED BY <2>1, <4>1, <4>2, <4>3
      <3> QED BY <3>4, <3>5
    <2> HIDE DEF Upto
    <2> QED BY <2>1, <2>2
  <1>3. T = Nat
    <2>1. T \in SUBSET Nat
      OBVIOUS
    <2> HIDE DEF T
    <2> QED BY <1>1, <1>2, <2>1, Induction
  <1>4. PICK g : Upto(Len(s), g)
    <2> HIDE DEF Upto
    <2>1. Len(s) \in T
      <3> HIDE DEF T
      <3> QED BY <1>3
    <2> QED BY <2>1
  <1> QED BY <1>4

\* What the loop takes are entries of the queue; of a queue of one, that entry if it passes.
LEMMA LoopTakes ==
  ASSUME NEW W, NEW s \in Seq(W), NEW due \in BOOLEAN
  PROVE  /\ Taken(s, due) \in Seq(W)
         /\ Len(s) = 1 => Taken(s, due) = IF Due(s[1]) = due THEN <<s[1]>> ELSE <<>>
  <1> DEFINE taken == CHOOSE g : g = [i \in 0 .. Len(s) |-> Pass(s, due, g, i)]
  <1>1. Taken(s, due) = taken[Len(s)]
    BY DEF Taken, Pass
  <1>2. taken \in [0 .. Len(s) -> Seq(W)]
        /\ \A i \in 0 .. Len(s) : taken[i] = Pass(s, due, taken, i)
    <2>1. PICK g \in [0 .. Len(s) -> Seq(W)] : g = [i \in 0 .. Len(s) |-> Pass(s, due, g, i)]
      BY LoopEnds
    <2>2. taken = [i \in 0 .. Len(s) |-> Pass(s, due, taken, i)]
      BY <2>1
    <2> HIDE DEF taken
    <2>3. \A i \in 0 .. Len(s) : taken[i] = Pass(s, due, taken, i)
      BY <2>2
    <2> DEFINE U == {m \in Nat : m <= Len(s) => taken[m] \in Seq(W)}
    <2>4. 0 \in U
      <3>1. taken[0] = Pass(s, due, taken, 0)
        BY <2>3
      <3>2. taken[0] = <<>>
        BY <3>1 DEF Pass
      <3>3. <<>> \in Seq(W)
        OBVIOUS
      <3> QED BY <3>2, <3>3
    <2>5. ASSUME NEW m \in U PROVE m + 1 \in U
      <3> SUFFICES ASSUME m + 1 <= Len(s) PROVE taken[m + 1] \in Seq(W)
        OBVIOUS
      <3>1. taken[m] \in Seq(W) /\ s[m + 1] \in W
        OBVIOUS
      <3>2. taken[m + 1] = Pass(s, due, taken, m + 1)
        BY <2>3
      <3> QED BY <3>1, <3>2 DEF Pass
    <2>6. U = Nat
      <3>1. U \in SUBSET Nat
        OBVIOUS
      <3> HIDE DEF U
      <3> QED BY <2>4, <2>5, <3>1, Induction
    <2>7. \A m \in 0 .. Len(s) : taken[m] \in Seq(W)
      BY <2>6
    <2> QED BY <2>2, <2>3, <2>7
  <1> HIDE DEF taken
  <1>3. Taken(s, due) \in Seq(W)
    BY <1>1, <1>2
  <1>4. ASSUME Len(s) = 1 PROVE Taken(s, due) = IF Due(s[1]) = due THEN <<s[1]>> ELSE <<>>
    <2>1. taken[0] = <<>>
      BY <1>2 DEF Pass
    <2>2. taken[1] = Pass(s, due, taken, 1)
      BY <1>2, <1>4
    <2>3. taken[1] = IF Due(s[1]) = due THEN Append(taken[0], s[1]) ELSE taken[0]
      BY <2>2 DEF Pass
    <2> QED BY <1>1, <1>4, <2>1, <2>3
  <1> QED BY <1>3, <1>4

LEMMA HorizonFacts ==
  /\ Cooldown \in Nat /\ Timeout \in Nat /\ AimTime \in Nat /\ Horizon \in Nat
  /\ Cooldown <= Horizon
  BY DecisionAssumption DEF Horizon

LEMMA IndexedIsSeq ==
  ASSUME NEW S, NEW n \in Nat, NEW f \in [1 .. n -> S]
  PROVE  f \in Seq(S) /\ Len(f) = n
  OBVIOUS

LEMMA TypeKept == TypeOK /\ [Next]_vars => TypeOK'
  <1> SUFFICES ASSUME TypeOK, [Next]_vars PROVE TypeOK'
    OBVIOUS
  <1> USE HorizonFacts
  <1>1. CASE RepeatReturn \/ PlannerGoal \/ UNCHANGED vars
    BY <1>1 DEF RepeatReturn, PlannerGoal, TypeOK, vars, decision, turret, scene
  <1>2. CASE BeginReturn \/ EngageTimeout
    BY <1>2 DEF BeginReturn, EngageTimeout, TypeOK, States, turret, scene
  <1>3. ASSUME NEW t \in Targets, RequestEngagement(t) PROVE TypeOK'
    <2>1. Published(t) \in Seq(Targets)
      BY DEF TypeOK, Published
    <2> QED BY <1>3, <2>1 DEF RequestEngagement, TypeOK, States, turret, scene
  <1>4. ASSUME NEW seen \in SUBSET Targets, NEW risk \in BOOLEAN, Observe(seen, risk)
        PROVE  TypeOK'
    BY <1>4 DEF Observe, TypeOK, decision, turret
  <1>5. CASE EngageResult
    <2>1. Head(results) \in Results /\ Tail(results) \in Seq(Results)
      BY <1>5 DEF EngageResult, TypeOK
    <2>2. killed' \subseteq Targets
      BY <1>5, <2>1 DEF EngageResult, TypeOK, Results
    <2>3. state' \in States /\ target' \in Targets \cup {NoTarget}
      BY <1>5 DEF EngageResult, TypeOK, States
    <2> QED BY <1>5, <2>1, <2>2, <2>3 DEF EngageResult, TypeOK, turret, scene
  <1>6. CASE TurretRequest
    <2>1. [target |-> Head(requests), wait |-> AimTime] \in Waiting /\ Tail(requests) \in Seq(Targets)
      BY <1>6 DEF TurretRequest, TypeOK, Waiting
    <2> QED BY <1>6, <2>1 DEF TurretRequest, TypeOK, decision, scene
  <1>7. CASE TurretFire
    <2> DEFINE fired == Taken(pending, TRUE)
    <2>1. fired \in Seq(Waiting) /\ Taken(pending, FALSE) \in Seq(Waiting)
      BY LoopTakes DEF TypeOK
    <2> HIDE DEF fired
    <2>2. pending' \in Seq(Waiting)
      BY <1>7, <2>1 DEF TurretFire
    <2>3. PICK hits \in [DOMAIN fired -> Outcomes] :
             /\ results' = results \o [i \in DOMAIN fired |->
                              [target |-> fired[i].target, success |-> hits[i]]]
             /\ prompt' = (prompt /\ \A i \in DOMAIN fired : hits[i])
      BY <1>7 DEF TurretFire, fired
    <2>4. [i \in DOMAIN fired |-> [target |-> fired[i].target, success |-> hits[i]]]
             \in Seq(Results)
      <3>1. ASSUME NEW i \in 1 .. Len(fired)
            PROVE  [target |-> fired[i].target, success |-> hits[i]] \in Results
        <4>1. fired[i] \in Waiting
          BY <2>1
        <4>2. hits[i] \in BOOLEAN
          BY <2>1, DecisionAssumption
        <4> QED BY <4>1, <4>2 DEF Results, Waiting
      <3> DEFINE reports == [i \in 1 .. Len(fired) |->
                               [target |-> fired[i].target, success |-> hits[i]]]
      <3>2. reports \in [1 .. Len(fired) -> Results]
        BY <3>1
      <3>3. Len(fired) \in Nat /\ DOMAIN fired = 1 .. Len(fired)
        BY <2>1
      <3>4. reports \in Seq(Results)
        <4> HIDE DEF reports
        <4> QED BY <3>2, <3>3, IndexedIsSeq
      <3> QED BY <3>3, <3>4
    <2>5. results' \in Seq(Results)
      BY <2>3, <2>4 DEF TypeOK
    <2>6. prompt' \in BOOLEAN
      BY <2>3
    <2>7. ASSUME NEW t \in Targets
          PROVE  Cardinality({i \in DOMAIN fired : fired[i].target = t}) \in Nat
      <3>1. IsFiniteSet(DOMAIN fired)
        BY <2>1, FS_Interval
      <3> DEFINE own == {i \in DOMAIN fired : fired[i].target = t}
      <3>2. own \in SUBSET DOMAIN fired
        OBVIOUS
      <3> HIDE DEF own
      <3>3. Cardinality(own) \in Nat
        BY <3>1, <3>2, FS_Subset, FS_CardinalityType
      <3> QED BY <3>3 DEF own
    <2>8. shots' \in [Targets -> 0 .. 2]
      <3> DEFINE n(t) == shots[t] + Cardinality({i \in DOMAIN fired : fired[i].target = t})
      <3>1. shots' = [t \in Targets |-> IF n(t) > 2 THEN 2 ELSE n(t)]
        BY <1>7 DEF TurretFire, fired
      <3>2. ASSUME NEW t \in Targets PROVE n(t) \in Nat
        BY <2>7 DEF TypeOK
      <3>3. ASSUME NEW t \in Targets PROVE (IF n(t) > 2 THEN 2 ELSE n(t)) \in 0 .. 2
        <4> HIDE DEF n
        <4> QED BY <3>2
      <3> HIDE DEF n
      <3> QED BY <3>1, <3>3
    <2> QED BY <1>7, <2>2, <2>5, <2>6, <2>8 DEF TurretFire, TypeOK, decision, scene
  <1>8. CASE Elapse
    <2>1. pending' \in Seq(Waiting)
      <3> DEFINE next(p) == [target |-> p.target, wait |-> IF p.wait > 0 THEN p.wait - 1 ELSE 0]
                 later == [i \in 1 .. Len(pending) |-> next(pending[i])]
      <3>1. ASSUME NEW p \in Waiting PROVE next(p) \in Waiting
        BY DEF Waiting
      <3>2. Len(pending) \in Nat /\ \A i \in 1 .. Len(pending) : pending[i] \in Waiting
        BY DEF TypeOK
      <3>3. pending' = later
        BY <1>8 DEF Elapse, TypeOK
      <3> HIDE DEF next
      <3>4. later \in [1 .. Len(pending) -> Waiting]
        BY <3>1, <3>2
      <3> HIDE DEF later
      <3> QED BY <3>2, <3>3, <3>4, IndexedIsSeq
    <2>2. age' \in 0 .. Horizon /\ prompt' \in BOOLEAN
      BY <1>8 DEF Elapse, TypeOK, InTime
    <2> QED BY <1>8, <2>1, <2>2 DEF Elapse, TypeOK, decision, scene
  <1> QED BY <1>1, <1>2, <1>3, <1>4, <1>5, <1>6, <1>7, <1>8 DEF Next, Tick

\* While the turret is prompt one engagement is under way at a time, and its stage
\* follows from the time since the request: so the cooldown ends after its result.
Single ==
    prompt =>
    /\ Len(requests) + Len(pending) + Len(results) <= 1
    /\ requests # <<>> => age = 0 /\ shots[requests[1]] = 0
    /\ pending # <<>>  => age + pending[1].wait = AimTime /\ shots[pending[1].target] = 0
    /\ results # <<>>  => age = AimTime /\ results[1].success
    /\ \A t \in Targets :
         \/ shots[t] = 0
         \/ shots[t] = 1 /\ (t \in killed \/ (results # <<>> /\ results[1].target = t))

LEMMA OneAtATime ==
  ASSUME TypeOK, Single, prompt
  PROVE  /\ requests # <<>> => Len(requests) = 1 /\ pending = <<>> /\ results = <<>>
         /\ pending # <<>>  => Len(pending) = 1 /\ requests = <<>> /\ results = <<>>
         /\ results # <<>>  => Len(results) = 1 /\ requests = <<>> /\ pending = <<>>
  <1>1. Len(requests) \in Nat /\ Len(pending) \in Nat /\ Len(results) \in Nat
    BY DEF TypeOK
  <1>2. /\ requests = <<>> <=> Len(requests) = 0
        /\ pending = <<>> <=> Len(pending) = 0
        /\ results = <<>> <=> Len(results) = 0
    BY DEF TypeOK
  <1>3. Len(requests) + Len(pending) + Len(results) <= 1
    BY DEF Single
  <1> DEFINE a == Len(requests)
             b == Len(pending)
             c == Len(results)
  <1>4. /\ a # 0 => a = 1 /\ b = 0 /\ c = 0
        /\ b # 0 => b = 1 /\ a = 0 /\ c = 0
        /\ c # 0 => c = 1 /\ a = 0 /\ b = 0
    <2>1. a \in Nat /\ b \in Nat /\ c \in Nat /\ a + b + c <= 1
      BY <1>1, <1>3
    <2> HIDE DEF a, b, c
    <2> QED BY <2>1
  <1> QED BY <1>2, <1>4

LEMMA SingleKept ==
  ASSUME AimTime < Cooldown, TypeOK, Single, [Next]_vars
  PROVE  Single'
  <1> SUFFICES ASSUME prompt' PROVE Single'
    BY DEF Single
  <1> USE HorizonFacts
  <1>1. CASE RepeatReturn \/ PlannerGoal \/ BeginReturn \/ EngageTimeout \/ UNCHANGED vars
               \/ (\E seen \in SUBSET Targets, risk \in BOOLEAN : Observe(seen, risk))
    <2>1. UNCHANGED <<requests, pending, results, shots, killed, age, prompt>>
      BY <1>1 DEF RepeatReturn, PlannerGoal, BeginReturn, EngageTimeout, Observe, vars, decision, turret
    <2> QED BY <2>1 DEF Single
  <1>2. ASSUME NEW t \in Targets, RequestEngagement(t) PROVE Single'
    <2>1. prompt /\ age >= Cooldown /\ t \notin killed /\ age' = 0
          /\ requests' = Published(t) /\ UNCHANGED <<pending, results, shots, killed, prompt>>
      BY <1>2 DEF RequestEngagement, turret
    <2>2. requests = <<>> /\ pending = <<>> /\ results = <<>>
      <3>1. requests = <<>> /\ results = <<>>
        BY <2>1 DEF Single, TypeOK
      <3>2. pending # <<>> => pending[1].wait \in Nat
        <4>1. pending # <<>> => pending[1] \in Waiting
          BY DEF TypeOK
        <4> QED BY <4>1 DEF Waiting
      <3> QED BY <2>1, <3>1, <3>2 DEF Single, TypeOK
    <2>3. shots[t] = 0
      BY <2>1, <2>2 DEF Single
    <2>4. requests' = <<t>> \/ requests' = <<>>
      BY <2>1, <2>2 DEF Published
    <2>5. Len(requests') + Len(pending') + Len(results') <= 1
      <3>1. Len(pending') = 0 /\ Len(results') = 0
        BY <2>1, <2>2
      <3>2. Len(requests') = 1 \/ Len(requests') = 0
        BY <2>4
      <3> DEFINE a == Len(requests')
                 b == Len(pending')
                 c == Len(results')
      <3> HIDE DEF a, b, c
      <3>3. (a = 1 \/ a = 0) /\ b = 0 /\ c = 0 => a + b + c <= 1
        OBVIOUS
      <3> QED BY <3>1, <3>2, <3>3 DEF a, b, c
    <2>6. requests' # <<>> => age' = 0 /\ shots'[requests'[1]] = 0
      BY <2>1, <2>3, <2>4
    <2>7. pending' = <<>> /\ results' = <<>>
      BY <2>1, <2>2
    <2>8. \A u \in Targets : shots'[u] = 0 \/ (shots'[u] = 1 /\ u \in killed')
      BY <2>1, <2>2 DEF Single
    <2> QED BY <2>5, <2>6, <2>7, <2>8 DEF Single
  <1>3. CASE EngageResult
    <2>1. prompt /\ results # <<>> /\ results' = Tail(results)
          /\ UNCHANGED <<requests, pending, age, shots, prompt>>
          /\ killed' = IF Head(results).success THEN killed \cup {Head(results).target} ELSE killed
      BY <1>3 DEF EngageResult, turret
    <2>2. requests = <<>> /\ pending = <<>> /\ results' = <<>>
      BY <2>1 DEF Single, TypeOK
    <2>3. Head(results) = results[1] /\ results[1].success
      BY <2>1 DEF Single, TypeOK
    <2>4. killed' = killed \cup {results[1].target}
      BY <2>1, <2>3
    <2> QED BY <2>1, <2>2, <2>4 DEF Single
  <1>4. CASE TurretRequest
    <2> DEFINE p == [target |-> Head(requests), wait |-> AimTime]
    <2>1. prompt /\ requests # <<>> /\ requests' = Tail(requests)
          /\ pending' = Append(pending, p)
          /\ UNCHANGED <<age, results, killed, shots, prompt>>
      BY <1>4 DEF TurretRequest, decision
    <2>2. pending = <<>> /\ results = <<>> /\ requests' = <<>> /\ Head(requests) = requests[1]
      BY <2>1 DEF Single, TypeOK
    <2>3. p.target = requests[1] /\ p.wait = AimTime
      BY <2>2
    <2> HIDE DEF p
    <2>4. Len(pending') = 1 /\ pending'[1] = p
      BY <2>1, <2>2
    <2> QED BY <2>1, <2>2, <2>3, <2>4 DEF Single
  <1>5. CASE TurretFire
    <2> DEFINE p == pending[1]
    <2>1. prompt /\ UNCHANGED <<age, requests, killed>>
      BY <1>5 DEF TurretFire, decision
    <2>2. Len(pending) = 1 /\ requests = <<>> /\ results = <<>> /\ p \in Waiting
          /\ Due(p) /\ age = AimTime /\ shots[p.target] = 0
      <3>1. PICK i \in DOMAIN pending : Due(pending[i])
        BY <1>5 DEF TurretFire
      <3>2. pending # <<>> /\ Len(pending) = 1 /\ requests = <<>> /\ results = <<>>
        BY <2>1, <3>1, OneAtATime DEF TypeOK
      <3>3. i = 1 /\ p \in Waiting
        BY <3>1, <3>2 DEF TypeOK
      <3> QED BY <2>1, <3>1, <3>2, <3>3 DEF Single, Due, TypeOK
    <2>3. Taken(pending, TRUE) = <<p>> /\ Taken(pending, FALSE) = <<>>
      BY <2>2, LoopTakes DEF TypeOK
    <2>4. PICK hits \in [DOMAIN <<p>> -> Outcomes] :
             /\ results' = results \o [i \in DOMAIN <<p>> |->
                              [target |-> <<p>>[i].target, success |-> hits[i]]]
             /\ prompt' = (prompt /\ \A i \in DOMAIN <<p>> : hits[i])
      BY <1>5, <2>3 DEF TurretFire
    <2>5. Len(results') = 1 /\ results'[1] = [target |-> p.target, success |-> hits[1]] /\ hits[1]
      <3>1. DOMAIN <<p>> = {1}
        OBVIOUS
      <3> DEFINE report == [i \in {1} |-> [target |-> <<p>>[i].target, success |-> hits[i]]]
      <3>2. report = <<[target |-> p.target, success |-> hits[1]]>>
        <4>1. {1} = 1 .. 1
          OBVIOUS
        <4> QED BY <4>1
      <3>3. results' = report /\ hits[1]
        <4> HIDE DEF p
        <4>1. results' = <<>> \o report
          BY <2>2, <2>4, <3>1
        <4>2. hits[1]
          BY <2>4, <3>1
        <4> HIDE DEF report
        <4> QED BY <3>2, <4>1, <4>2
      <3> QED BY <3>2, <3>3
    <2>6. ASSUME NEW t \in Targets
          PROVE  shots'[t] = IF t = p.target THEN 1 ELSE shots[t]
      <3> DEFINE own == {i \in DOMAIN <<p>> : <<p>>[i].target = t}
                 n == shots[t] + Cardinality(own)
      <3>1. shots'[t] = IF n > 2 THEN 2 ELSE n
        BY <1>5, <2>3 DEF TurretFire
      <3>2. CASE t = p.target
        <4>1. own = {1}
          BY <3>2
        <4> HIDE DEF own
        <4>2. Cardinality(own) = 1
          BY <4>1, FS_Singleton
        <4> QED BY <2>2, <3>1, <3>2, <4>2
      <3>3. CASE t # p.target
        <4>1. own = {}
          BY <3>3
        <4> HIDE DEF own
        <4>2. Cardinality(own) = 0
          BY <4>1, FS_EmptySet
        <4>3. shots[t] \in 0 .. 2
          BY DEF TypeOK
        <4> QED BY <3>1, <3>3, <4>2, <4>3
      <3> QED BY <3>2, <3>3
    <2>7. pending' = <<>>
      BY <1>5, <2>3 DEF TurretFire
    <2> QED BY <2>1, <2>2, <2>5, <2>6, <2>7 DEF Single
  <1>6. CASE Elapse
    <2>1. prompt /\ InTime /\ UNCHANGED <<requests, results, shots, killed>>
          /\ age' = (IF age < Horizon THEN age + 1 ELSE age)
          /\ pending' = [i \in DOMAIN pending |-> [target |-> pending[i].target,
                  wait |-> IF pending[i].wait > 0 THEN pending[i].wait - 1 ELSE 0]]
      BY <1>6 DEF Elapse, decision
    <2>2. requests = <<>> /\ results = <<>>
      BY <2>1 DEF InTime
    <2>3. CASE pending = <<>>
      <3>1. pending' = <<>>
        BY <2>1, <2>3
      <3> QED BY <2>1, <2>2, <3>1 DEF Single
    <2>4. CASE pending # <<>>
      <3>1. Len(pending) = 1 /\ pending[1] \in Waiting /\ ~Due(pending[1])
        BY <2>1, <2>4, OneAtATime DEF TypeOK, InTime
      <3>2. pending[1].wait \in 1 .. AimTime /\ age + pending[1].wait = AimTime
            /\ shots[pending[1].target] = 0
        BY <2>1, <2>4, <3>1 DEF Single, Waiting, Due
      <3>3. age' = age + 1 /\ age \in Nat
        BY <2>1, <3>2 DEF TypeOK
      <3>4. Len(pending') = 1 /\ pending'[1].target = pending[1].target
            /\ pending'[1].wait = pending[1].wait - 1
        BY <2>1, <3>1, <3>2 DEF TypeOK
      <3> QED BY <2>1, <2>2, <3>1, <3>2, <3>3, <3>4 DEF Single
    <2> QED BY <2>3, <2>4
  <1> QED BY <1>1, <1>2, <1>3, <1>4, <1>5, <1>6 DEF Next, Tick

\* The tank engages live targets only, and while the turret hits and answers in time no
\* target is fired at twice, for any targets and queues and for any times in which
\* an aim is shorter than the cooldown, as engage_cooldown_sec and aim_sec are.
THEOREM EngagementsAreSound ==
  ASSUME AimTime < Cooldown PROVE Spec => []EngagementsSound
  <1>1. Init => TypeOK /\ Single
    <2> SUFFICES ASSUME Init PROVE TypeOK /\ Single
      OBVIOUS
    <2>1. TypeOK
      <3>1. age \in 0 .. Horizon
        BY HorizonFacts DEF Init
      <3>2. shots \in [Targets -> 0 .. 2]
        BY DEF Init
      <3>3. requests \in Seq(Targets) /\ pending \in Seq(Waiting) /\ results \in Seq(Results)
        BY DEF Init
      <3> QED BY <3>1, <3>2, <3>3 DEF Init, TypeOK, States
    <2>2. Single
      BY DEF Init, Single
    <2> QED BY <2>1, <2>2
  <1>2. TypeOK /\ Single /\ [Next]_vars => (TypeOK /\ Single)'
    BY TypeKept, SingleKept
  <1>3. Single => OneShotEach
    BY DEF Single, OneShotEach
  <1> QED BY <1>1, <1>2, <1>3, LiveTargetsOnly, PTL DEF Spec, EngagementsSound
=============================================================================
