---------------------------- MODULE FireMission ----------------------------
(***************************************************************************)
(* The scenario-2 fire mission of control/ballistic_turret_node.py: an     *)
(* ordered list of engagements, each one approached, settled, aimed, fired *)
(* and recovered from, then the return home; and the mission abort that    *)
(* preempts all of it.                                                     *)
(*                                                                         *)
(* The node is single threaded: a timer runs _tick, and the callbacks of   *)
(* /tank/mission/abort and /tank/api/update_bullet/raw run between ticks.  *)
(* One branch of _tick, with everything it falls through to in the same    *)
(* call, is one action.  What a branch compares with a clock or a sensor   *)
(* (a timer has elapsed, the hull is flat, the gun is on target) is left   *)
(* open, so every outcome is explored at every tick; a tick whose branch   *)
(* only repeats the command it published before is a stutter.              *)
(***************************************************************************)
EXTENDS Integers, Sequences, FiniteSets

CONSTANTS
    NStages,        \* number of entries of engagements_json
    Homes,          \* return points that the parameters or an abort can name
    AlignStages,    \* pre_aim_body_align_stage_indices
    Fallbacks,      \* per stage: the usable fallback_goals (0: reposition off)
    MaxShots,       \* max_shots
    MaxRefire,      \* max_no_bullet_refire_attempts
    RequireBullet,  \* require_bullet_event_before_stage_complete
    LowerBarrel,    \* lower_barrel_after_engagement
    CenterTurret,   \* center_turret_after_engagement
    ReturnEnabled,  \* return_enabled
    ShotBound       \* bound of the model: fire pulses in one mission

Stages == 1 .. NStages

ASSUME MissionAssumption ==
    /\ NStages \in Nat \ {0}
    /\ Homes # {}
    /\ AlignStages \subseteq Stages
    /\ Fallbacks \in [Stages -> Nat]
    /\ MaxShots \in Nat \ {0}
    /\ MaxRefire \in Nat
    /\ ShotBound \in Nat
    /\ {RequireBullet, LowerBarrel, CenterTurret, ReturnEnabled} \subseteq BOOLEAN

VARIABLES
    phase,          \* self.phase
    stage,          \* self.stage_index + 1
    shot,           \* self.shot_count
    total,          \* self.total_shot_count
    refire,         \* self._no_bullet_refire_attempts
    repo,           \* self.reposition_attempts
    armed,          \* self.fire_started_wall is not None
    bulletSeen,     \* self._current_shot_bullet_seen
    dwell,          \* self.on_target_since_wall is not None
    why,            \* head of lowering_reason, kept by centering_reason
    lastResult,     \* self.last_result
    results,        \* self.stage_results
    returnGoalSent, \* self.return_goal_sent
    returnPoint,    \* self.return_point
    abort,          \* self.mission_abort_requested
    goal,           \* the last goal pose this node published
    ov,             \* the last /tank/turret/override this node published
    pos,            \* where the hull is (simulator)
    bullets,        \* shells in flight, by the shot they were fired for
    chambered,      \* the current fire pulse may still launch a shell
    pulses          \* history: fire pulses commanded in this stage

gun     == <<shot, total, refire, armed, bulletSeen, pulses>>
report  == <<why, lastResult, results>>
home    == <<returnGoalSent, returnPoint, abort>>
outside == <<pos, bullets, chambered>>
vars    == <<phase, stage, repo, dwell, goal, ov, gun, report, home, outside>>

-----------------------------------------------------------------------------
Terminal  == {"returning", "returned", "complete"}
Engaging  == {"firing", "wait_impact"}
Resolved  == {"hit", "miss", "impact_timeout"}
Recovery  == Resolved \cup {"lowering_barrel", "centering_turret"}
AimPhases == {"settling", "align_body", "aim", "aim_error"}
Phases    == {"approach", "reposition_for_shot"}
               \cup AimPhases \cup Engaging \cup Recovery \cup Terminal

Place(k, i)   == [kind |-> k, of |-> i]
Checkpoint(s) == Place("checkpoint", s)
FirePoint(s)  == Place("fallback", s)      \* a fallback_goals entry of stage s
Home(h)       == Place("home", h)
Nowhere       == Place("none", 0)
Goals  == {Checkpoint(s) : s \in Stages} \cup {FirePoint(s) : s \in Stages}
            \cup {Home(h) : h \in Homes}
Places == Goals \cup {Nowhere}             \* Nowhere: on the road between them

Released == [active |-> FALSE, hull |-> "free",  fire |-> FALSE]
Held     == [active |-> TRUE,  hull |-> "held",  fire |-> FALSE]
Pivot    == [active |-> TRUE,  hull |-> "pivot", fire |-> FALSE]
Shooting == [active |-> TRUE,  hull |-> "held",  fire |-> TRUE]
Overrides == [active : BOOLEAN, hull : {"free", "held", "pivot"}, fire : BOOLEAN]

NoImpact == [of |-> 0, hit |-> FALSE]
Impacts  == [of : Nat, hit : BOOLEAN]
Records  == [stage : Stages, reason : Resolved, impact : Impacts]

Init ==
    /\ phase = "approach" /\ stage = 1
    /\ shot = 0 /\ total = 0 /\ refire = 0 /\ repo = 0 /\ pulses = 0
    /\ armed = FALSE /\ bulletSeen = FALSE /\ dwell = FALSE
    /\ why = "none" /\ lastResult = NoImpact /\ results = <<>>
    /\ returnGoalSent = FALSE /\ abort = FALSE
    /\ returnPoint \in Homes
    /\ goal = Nowhere /\ ov = Released
    /\ pos = Home(returnPoint)             \* the spawn point is the return point
    /\ bullets = {} /\ chambered = FALSE

-----------------------------------------------------------------------------
(* The timer.  Running is the guard of every branch after the preemption.  *)

Running == ~abort /\ phase \notin Terminal

\* Outside the checkpoint: leave the hull to the drive controller.  The goal of
\* stage 1 is asserted again and again, because its topic is volatile.
Approach ==
    /\ Running /\ phase = "approach" /\ pos # Checkpoint(stage)
    /\ goal' = IF stage = 1 /\ ~returnGoalSent THEN Checkpoint(1) ELSE goal
    /\ ov' = Released
    /\ UNCHANGED <<phase, stage, repo, dwell, gun, report, home, outside>>

CaptureCheckpoint ==
    /\ Running /\ phase = "approach" /\ pos = Checkpoint(stage)
    /\ goal' = IF stage = 1 /\ ~returnGoalSent THEN Checkpoint(1) ELSE goal
    /\ phase' = "settling" /\ ov' = Held
    /\ UNCHANGED <<stage, repo, dwell, gun, report, home, outside>>

\* Settled on flat ground at a stage that turns the hull first.
BeginBodyAlign ==
    /\ Running /\ phase = "settling" /\ stage \in AlignStages
    /\ phase' = "align_body" /\ ov' = Pivot
    /\ UNCHANGED <<stage, repo, dwell, goal, gun, report, home, outside>>

\* The hull heading went stale while aligning: aim at the next tick.
AbandonBodyAlign ==
    /\ Running /\ phase = "align_body"
    /\ phase' = "aim" /\ ov' = Held
    /\ UNCHANGED <<stage, repo, dwell, goal, gun, report, home, outside>>

\* The aim loop: entered from settling, from a finished alignment, or again.
Aiming == Running /\ phase \in AimPhases
AimFrame == UNCHANGED <<stage, report, home, pos, bullets>>

\* _start_reposition_for_pitch_limit: drive to the next unused fallback goal.
StartReposition ==
    /\ repo < Fallbacks[stage]
    /\ repo' = repo + 1
    /\ phase' = "reposition_for_shot"
    /\ goal' = FirePoint(stage) /\ ov' = Released
    /\ dwell' = FALSE

\* The hull is tilted, or the gun is stalled against its pitch stop: move to a
\* fallback fire point, or hold in aim_error when none is left.
BadFirePose ==
    /\ Aiming
    /\ \/ StartReposition
       \/ /\ repo >= Fallbacks[stage]
          /\ phase' = "aim_error" /\ ov' = Held
          /\ UNCHANGED <<repo, goal, dwell>>
    /\ AimFrame /\ UNCHANGED <<gun, chambered>>

NoSolution ==
    /\ Aiming
    /\ phase' = "aim_error" /\ ov' = Held
    /\ AimFrame /\ UNCHANGED <<repo, goal, dwell, gun, chambered>>

\* Turret feedback is missing or old.  self.phase is not assigned here.
StaleFeedback ==
    /\ Aiming
    /\ phase' = IF phase = "aim_error" THEN "aim_error" ELSE "aim"
    /\ ov' = Held
    /\ dwell' = FALSE
    /\ AimFrame /\ UNCHANGED <<repo, goal, gun, chambered>>

OffTarget ==
    /\ Aiming
    /\ phase' = "aim" /\ ov' = Held
    /\ dwell' = FALSE
    /\ AimFrame /\ UNCHANGED <<repo, goal, gun, chambered>>

OnTarget ==
    /\ Aiming
    /\ phase' = "aim" /\ ov' = Held
    /\ dwell' = TRUE
    /\ AimFrame /\ UNCHANGED <<repo, goal, gun, chambered>>

\* On target, and on_target_since_wall lies aim_stable_sec back.
Fire ==
    /\ Aiming /\ dwell
    /\ total < ShotBound
    /\ shot' = shot + 1 /\ total' = total + 1 /\ pulses' = pulses + 1
    /\ phase' = "firing" /\ ov' = Shooting
    /\ armed' = TRUE /\ bulletSeen' = FALSE
    /\ dwell' = FALSE
    /\ chambered' = TRUE
    /\ AimFrame /\ UNCHANGED <<repo, goal, refire>>

RepositionArrived ==
    /\ Running /\ phase = "reposition_for_shot" /\ pos = FirePoint(stage)
    /\ phase' = "settling" /\ ov' = Held
    /\ UNCHANGED <<stage, repo, dwell, goal, gun, report, home, outside>>

\* (mutant) the recheck after a reposition timeout forgets to claim the hull.
RepositionTimeoutUnheld ==
    /\ Running /\ phase = "reposition_for_shot"
    /\ phase' = "aim" /\ ov' = Released /\ dwell' = FALSE
    /\ UNCHANGED <<stage, repo, goal, gun, report, home, outside>>

RepositionTimeout ==
    /\ Running /\ phase = "reposition_for_shot"
    /\ phase' = "aim" /\ ov' = Held /\ dwell' = FALSE
    /\ UNCHANGED <<stage, repo, goal, gun, report, home, outside>>

PulseEnds ==
    /\ Running /\ phase = "firing"
    /\ phase' = "wait_impact" /\ ov' = Held
    /\ UNCHANGED <<stage, repo, dwell, goal, gun, report, home, outside>>

\* impact_timeout_sec passed since the shot.
Overdue == Running /\ phase = "wait_impact" /\ armed
NoBullet == RequireBullet /\ ~bulletSeen

\* (mutant) the refire forgets to give the shot back.
NoBulletRefireCharged ==
    /\ Overdue /\ NoBullet /\ refire < MaxRefire
    /\ refire' = refire + 1 /\ shot' = shot
    /\ phase' = "aim" /\ ov' = Held
    /\ armed' = FALSE /\ bulletSeen' = FALSE /\ dwell' = FALSE
    /\ UNCHANGED <<stage, repo, goal, total, pulses, report, home, outside>>

\* No shell was seen: count the pulse as never delivered and fire it again.
NoBulletRefire ==
    /\ Overdue /\ NoBullet /\ refire < MaxRefire
    /\ refire' = refire + 1
    /\ shot' = IF shot > 0 THEN shot - 1 ELSE 0
    /\ phase' = "aim" /\ ov' = Held
    /\ armed' = FALSE /\ bulletSeen' = FALSE /\ dwell' = FALSE
    /\ UNCHANGED <<stage, repo, goal, total, pulses, report, home, outside>>

\* (mutant) the exhausted retries leave the phase alone.
NoBulletKeepWaiting ==
    /\ Overdue /\ NoBullet /\ refire >= MaxRefire
    /\ ov' = Held
    /\ UNCHANGED <<phase, stage, repo, dwell, goal, gun, report, home, outside>>

NoBulletGiveUp ==
    /\ Overdue /\ NoBullet /\ refire >= MaxRefire
    /\ phase' = "aim_error" /\ ov' = Held
    /\ UNCHANGED <<stage, repo, dwell, goal, gun, report, home, outside>>

\* (mutant) a wait that is over counts as a miss.
ImpactTimeoutMissed ==
    /\ Overdue /\ ~NoBullet
    /\ phase' = "miss" /\ ov' = Held
    /\ UNCHANGED <<stage, repo, dwell, goal, gun, report, home, outside>>

ImpactTimeout ==
    /\ Overdue /\ ~NoBullet
    /\ phase' = "impact_timeout" /\ ov' = Held
    /\ UNCHANGED <<stage, repo, dwell, goal, gun, report, home, outside>>

-----------------------------------------------------------------------------
(* The recovery after a shot is resolved, and the step to the next stage.  *)

\* post_fire_hold_sec passed: lower the barrel, or else center the turret.
BeginRecovery ==
    /\ Running /\ phase \in Resolved /\ (LowerBarrel \/ CenterTurret)
    /\ phase' = IF LowerBarrel THEN "lowering_barrel" ELSE "centering_turret"
    /\ why' = phase /\ ov' = Held
    /\ UNCHANGED <<stage, repo, dwell, goal, lastResult, results,
                   gun, home, outside>>

\* Barrel down and settled, or lower_barrel_timeout_sec passed.
BarrelLowered ==
    /\ Running /\ phase = "lowering_barrel" /\ CenterTurret
    /\ phase' = "centering_turret" /\ ov' = Held
    /\ UNCHANGED <<stage, repo, dwell, goal, gun, report, home, outside>>

\* _advance_or_return: append the stage's record, then reset the runtime of the
\* next stage, or send the final return goal.
NextGoal == IF stage < NStages THEN Checkpoint(stage + 1)
            ELSE IF ReturnEnabled /\ ~returnGoalSent THEN Home(returnPoint) ELSE goal
NextRepo == IF stage < NStages THEN 0 ELSE repo
\* (mutant) the mission ends with its first engagement.
NextPhaseEarly == IF ReturnEnabled THEN "returning" ELSE "complete"
NextPhase == IF stage < NStages THEN "approach"
             ELSE IF ReturnEnabled THEN "returning" ELSE "complete"

ResetStage ==
    /\ stage < NStages
    /\ stage' = stage + 1
    /\ shot' = 0 /\ refire' = 0 /\ pulses' = 0
    /\ armed' = FALSE /\ bulletSeen' = FALSE /\ dwell' = FALSE
    /\ why' = "none" /\ lastResult' = NoImpact
    /\ UNCHANGED returnGoalSent

BeginFinalReturn ==
    /\ stage = NStages
    /\ returnGoalSent' = (returnGoalSent \/ ReturnEnabled)
    /\ UNCHANGED <<stage, shot, refire, pulses, armed, bulletSeen, dwell, why, lastResult>>

AdvanceOrReturn(reason) ==
    /\ results' = Append(results,
                         [stage |-> stage, reason |-> reason, impact |-> lastResult])
    /\ ResetStage \/ BeginFinalReturn
    /\ UNCHANGED <<total, abort, returnPoint, outside>>

\* The last recovery step is done, or timed out: release the hull.
Advance ==
    /\ Running
    /\ \/ phase = "centering_turret"
       \/ phase = "lowering_barrel" /\ ~CenterTurret
    /\ AdvanceOrReturn(why)
    /\ phase' = NextPhase /\ goal' = NextGoal /\ repo' = NextRepo
    /\ ov' = Released

\* With both recovery steps switched off the same tick advances and then runs on
\* into the aim loop, which assigns the phase again.
AdvanceIntoAim ==
    /\ Running /\ phase \in Resolved /\ ~LowerBarrel /\ ~CenterTurret
    /\ AdvanceOrReturn(phase)
    /\ \/ /\ phase' \in {"aim", "aim_error"} /\ ov' = Held
          /\ goal' = NextGoal /\ repo' = NextRepo
       \/ /\ NextRepo < Fallbacks[stage'] /\ repo' = NextRepo + 1
          /\ phase' = "reposition_for_shot" /\ ov' = Released
          /\ goal' = FirePoint(stage')

\* mission_abort_requested preempts every phase but returned; then the terminal leg.
Preempted == abort /\ phase # "returned"
\* (mutant) the preemption relies on somebody else to send the return goal.
ReturnLegSilent ==
    /\ Preempted \/ phase \in Terminal
    /\ returnGoalSent' = (returnGoalSent \/ Preempted)
    /\ LET leg == IF Preempted THEN "returning" ELSE phase
       IN  phase' = IF leg = "returning" /\ pos = Home(returnPoint)
                    THEN "returned" ELSE leg
    /\ ov' = IF phase' = "returned" /\ returnGoalSent' THEN Held ELSE Released
    /\ UNCHANGED <<stage, repo, dwell, goal, gun, report, returnPoint, abort, outside>>

ReturnLeg ==
    /\ Preempted \/ phase \in Terminal
    /\ returnGoalSent' = (returnGoalSent \/ Preempted)
    /\ goal' = IF Preempted /\ ~returnGoalSent THEN Home(returnPoint) ELSE goal
    /\ LET leg == IF Preempted THEN "returning" ELSE phase
       IN  phase' = IF leg = "returning" /\ pos = Home(returnPoint)
                    THEN "returned" ELSE leg
    /\ ov' = IF phase' = "returned" /\ returnGoalSent' THEN Held ELSE Released
    /\ UNCHANGED <<stage, repo, dwell, gun, report, returnPoint, abort, outside>>

Tick ==
    \/ Approach \/ CaptureCheckpoint \/ BeginBodyAlign \/ AbandonBodyAlign
    \/ BadFirePose \/ NoSolution \/ StaleFeedback \/ OffTarget \/ OnTarget \/ Fire
    \/ RepositionArrived \/ RepositionTimeout
    \/ PulseEnds \/ NoBulletRefire \/ NoBulletGiveUp \/ ImpactTimeout
    \/ BeginRecovery \/ BarrelLowered \/ Advance \/ AdvanceIntoAim
    \/ ReturnLeg

-----------------------------------------------------------------------------
(* The callbacks.                                                          *)

\* _mission_abort_cb: a heartbeat; it may name another return point.
MissionAbort(h) ==
    /\ abort' = TRUE /\ returnPoint' = h
    /\ UNCHANGED <<phase, stage, repo, dwell, goal, ov, gun, report,
                   returnGoalSent, outside>>

\* _bullet_cb: an impact is credited to the shot being waited for, whichever
\* shell it was; at any other time it is dropped.
CreditImpact(b, hit) ==
    /\ bulletSeen' = TRUE
    /\ lastResult' = [of |-> b, hit |-> hit]
    /\ \/ hit /\ phase' = "hit" /\ UNCHANGED <<armed, dwell>>
       \/ /\ ~hit /\ shot < MaxShots
          /\ phase' = "aim" /\ armed' = FALSE /\ dwell' = FALSE
       \/ ~hit /\ shot >= MaxShots /\ phase' = "miss" /\ UNCHANGED <<armed, dwell>>

ImpactFrame(b) ==
    /\ b \in bullets
    /\ bullets' = bullets \ {b}
    /\ UNCHANGED <<stage, repo, goal, ov, shot, total, refire, pulses,
                   why, results, home, pos, chambered>>

DropImpact == UNCHANGED <<bulletSeen, lastResult, phase, armed, dwell>>

\* (mutants) only hits are stored; the phase is not asked.
BulletImpactHitsOnly(b, hit) ==
    /\ ImpactFrame(b)
    /\ IF armed /\ phase \in Engaging
       THEN /\ bulletSeen' = TRUE
            /\ lastResult' = IF hit THEN [of |-> b, hit |-> hit] ELSE lastResult
            /\ phase' = IF hit THEN "hit" ELSE "miss"
            /\ UNCHANGED <<armed, dwell>>
       ELSE DropImpact

BulletImpact(b, hit) ==
    /\ ImpactFrame(b)
    /\ IF armed /\ phase \in Engaging THEN CreditImpact(b, hit) ELSE DropImpact

(* The simulator and the drive stack, as this node depends on them.        *)

\* The pulse reaches the simulator: late or never, but one shell at most.
Launch ==
    /\ chambered
    /\ chambered' = FALSE
    /\ bullets' = bullets \cup {total}
    /\ UNCHANGED <<phase, stage, repo, dwell, goal, ov, gun, report, home, pos>>

\* Without a hold the hull may be driven anywhere.
Drive(p) ==
    /\ ov.hull = "free"
    /\ pos' = p
    /\ UNCHANGED <<phase, stage, repo, dwell, goal, ov, gun, report, home,
                   bullets, chambered>>

Next ==
    \/ Tick
    \/ \E h \in Homes : MissionAbort(h)
    \/ \E b \in bullets, hit \in BOOLEAN : BulletImpact(b, hit)
    \/ Launch
    \/ \E p \in Places : Drive(p)

Spec == Init /\ [][Next]_vars

\* The timer keeps running and every timeout elapses; the drive stack reaches
\* the goal it was given while the hull is free, and the timer runs while the
\* hull is inside the return radius (strong fairness: it may drift out again).
Fairness ==
    /\ WF_vars(PulseEnds)
    /\ WF_vars(NoBulletRefire \/ NoBulletGiveUp \/ ImpactTimeout)
    /\ WF_vars(BeginRecovery) /\ WF_vars(BarrelLowered)
    /\ WF_vars(Advance) /\ WF_vars(AdvanceIntoAim)
    /\ WF_vars(RepositionTimeout)
    /\ SF_vars(ReturnLeg)
    /\ WF_vars(Drive(goal))

FairSpec == Spec /\ Fairness

-----------------------------------------------------------------------------
(* Properties.                                                             *)

\* Type invariant: every field stays in the range the code gives it.
TypeOK ==
    /\ phase \in Phases /\ stage \in Stages
    /\ shot \in Nat /\ total \in Nat /\ refire \in Nat /\ repo \in Nat /\ pulses \in Nat
    /\ armed \in BOOLEAN /\ bulletSeen \in BOOLEAN
    /\ dwell \in BOOLEAN
    /\ why \in Resolved \cup {"none"}
    /\ lastResult \in Impacts /\ results \in Seq(Records)
    /\ returnGoalSent \in BOOLEAN /\ abort \in BOOLEAN /\ returnPoint \in Homes
    /\ goal \in Places /\ ov \in Overrides
    /\ pos \in Places /\ bullets \subseteq Nat /\ chambered \in BOOLEAN

\* A pulse counted as undelivered gives its shot back and nothing else does: the
\* shots charged to a stage and the refires always add up to the pulses it fired.
ShotAccounting == shot + refire = pulses

\* The engagements are recorded in their declared order, each once, and the node
\* works on the first one that has no record until all of them have one.
OrderedEngagements ==
    /\ \A i \in 1 .. Len(results) : results[i].stage = i
    /\ Len(results) = stage - 1 \/ (Len(results) = NStages /\ stage = NStages)

\* A reason "hit" stands on a credited hit, "miss" on a credited miss.
Truthful(reason, impact) ==
    /\ reason = "hit"  => impact.of # 0 /\ impact.hit
    /\ reason = "miss" => impact.of # 0 /\ ~impact.hit

\* The record of a stage tells the truth about the impact it was closed with.
ReportTruthful ==
    \A i \in 1 .. Len(results) : Truthful(results[i].reason, results[i].impact)

\* With require_bullet_event_before_stage_complete no stage is left on the
\* strength of a fire command alone: each record has an impact.
ImpactBeforeAdvance ==
    RequireBullet => \A i \in 1 .. Len(results) : results[i].impact.of # 0

\* One shell is never credited to two engagements, however late it lands.
ImpactCreditedOnce ==
    \A i, j \in 1 .. Len(results) :
        results[i].impact.of = results[j].impact.of /\ results[i].impact.of # 0 => i = j

\* What a report says of an engagement rests on that engagement: the records come in
\* the declared order, each with an impact of its own that is what the reason says.
ResultsEarned ==
    OrderedEngagements /\ ReportTruthful /\ ImpactBeforeAdvance /\ ImpactCreditedOnce

\* From the capture of a fire point until the stage is left the hull is held:
\* the shot, the wait for its impact and the recovery happen standing still.
HullHeld ==
    phase \in {"settling", "aim", "aim_error"} \cup Engaging \cup Recovery
        => ov.active /\ ov.hull = "held"

\* Without the impact requirement and the recovery steps, when a wait may end on its
\* timeout and the tick that ends an engagement runs on into the next aim loop, the shots
\* still add up, the hull is still held for them, and a record of a hit or a miss still
\* has that impact.
ShotsAreSound == ShotAccounting /\ HullHeld /\ ReportTruthful

\* The goal the planner was last given belongs to the leg the node is on: a
\* reposition goal never leaks into the next stage, a checkpoint never into the
\* return.
GoalMatchesLeg ==
    /\ phase = "approach" => goal = Checkpoint(stage) \/ (stage = 1 /\ goal = Nowhere)
    /\ phase = "reposition_for_shot" => goal = FirePoint(stage)
    /\ phase \in AimPhases \cup Engaging \cup Recovery
           => goal \in {Checkpoint(stage), FirePoint(stage)}
    /\ phase \in {"returning", "returned"} => goal \in {Home(h) : h \in Homes}

\* The planner and the drive controller are told what fits the phase the node is in,
\* whichever retry, timeout, late impact or abort brought it there.
LegsKept == HullHeld /\ GoalMatchesLeg

\* The terminal leg is final: once the return goal is out, no late impact, abort
\* or tick brings the gun back.
NeverReArm == returnGoalSent => phase \in {"returning", "returned"}

\* The terminal stop is earned: home is also the spawn point, and the node calls
\* the mission over only after every engagement has its record or an abort.
TerminalStopEarned ==
    phase \in Terminal => Len(results) = NStages \/ abort

\* The fire mission implements MissionLegs: a leg for each phase, and as many
\* engagements finished as there are records.
Leg == CASE phase = "returning" -> "return"
         [] phase = "returned"  -> "home"
         [] phase = "complete"  -> "over"
         [] OTHER               -> "engage"

Legs == INSTANCE MissionLegs WITH done <- Len(results), leg <- Leg

ImplementsLegs == Legs!Spec

\* A phase with a timeout ends, whatever the gun, the shell or the planner do.
TimedPhasesEnd ==
    \A p \in Engaging \cup Recovery \cup {"reposition_for_shot"} :
        phase = p ~> phase # p

\* An abort in any phase brings the tank home and the terminal stop out, unless a
\* later abort names another return point than the home already published.
AbortGoesHome ==
    abort ~> \/ phase = "returned" /\ ov = Held
             \/ returnGoalSent /\ \E h \in Homes \ {returnPoint} : goal = Home(h)
=============================================================================
