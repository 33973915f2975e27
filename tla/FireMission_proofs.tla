------------------------- MODULE FireMission_proofs -------------------------
(***************************************************************************)
(* Proofs about FireMission, for every number of stages, fallback points,  *)
(* shots and refires.  Each theorem strengthens a property to an invariant *)
(* that is inductive on its own or relative to the ones proved before it.  *)
(***************************************************************************)
EXTENDS FireMission, TLAPS

-----------------------------------------------------------------------------
(* Types.                                                                  *)

\* The commands and the goals the node publishes are of their types.
LEMMA Published ==
    /\ {Released, Held, Pivot, Shooting} \subseteq Overrides
    /\ Nowhere \in Places
    /\ \A s \in Stages : Checkpoint(s) \in Places /\ FirePoint(s) \in Places
    /\ \A h \in Homes : Home(h) \in Places
  BY DEF Released, Held, Pivot, Shooting, Overrides, Places, Goals

\* So are the impacts it credits and the records it appends.
LEMMA Recorded ==
    /\ NoImpact \in Impacts
    /\ \A b \in Nat, hit \in BOOLEAN : [of |-> b, hit |-> hit] \in Impacts
    /\ \A s \in Stages, r \in Resolved, i \in Impacts :
           [stage |-> s, reason |-> r, impact |-> i] \in Records
  BY DEF NoImpact, Impacts, Records

\* The counters, apart: they are the arithmetic part of the type invariant.
Counters ==
    shot \in Nat /\ total \in Nat /\ refire \in Nat /\ repo \in Nat /\ pulses \in Nat

\* The reason of the recovery under way is one that a record can carry.
ReasonKept == phase \in {"lowering_barrel", "centering_turret"} => why \in Resolved

TypeInv == TypeOK /\ ReasonKept

\* Type correctness with what makes it inductive.
LEMMA TypeInvariant == Spec => []TypeInv
<1>1. Init => TypeInv
  <2> SUFFICES ASSUME Init PROVE TypeInv
    OBVIOUS
  <2>1. Counters /\ stage \in Stages /\ bullets \subseteq Nat
    BY MissionAssumption DEF MissionAssumption, Counters, Init, Stages
  <2>2. results \in Seq(Records) /\ lastResult \in Impacts /\ goal \in Places /\ pos \in Places
    BY Published, Recorded DEF Init
  <2>3. ov \in Overrides /\ phase \in Phases /\ ReasonKept
    BY Published DEF Init, Phases, ReasonKept
  <2> QED
    BY <2>1, <2>2, <2>3 DEF Init, Counters, TypeInv, TypeOK
<1>2. TypeInv /\ [Next]_vars => TypeInv'
  <2> SUFFICES ASSUME TypeInv, [Next]_vars PROVE TypeInv'
    OBVIOUS
  <2> USE Published, Recorded
      DEF TypeInv, TypeOK, ReasonKept, Phases, AimPhases, Engaging, Recovery,
          Resolved, Terminal, gun, report, home, outside
  <2>1. CASE Approach \/ CaptureCheckpoint
    BY <2>1 DEF Approach, CaptureCheckpoint, Running
  <2>2. CASE BeginBodyAlign \/ AbandonBodyAlign \/ RepositionArrived \/ RepositionTimeout
    <3>1. CASE BeginBodyAlign
      BY <3>1 DEF BeginBodyAlign
    <3>2. CASE AbandonBodyAlign
      BY <3>2 DEF AbandonBodyAlign
    <3>3. CASE RepositionArrived
      BY <3>3 DEF RepositionArrived
    <3>4. CASE RepositionTimeout
      BY <3>4 DEF RepositionTimeout
    <3> QED
      BY <2>2, <3>1, <3>2, <3>3, <3>4
  <2>3. CASE BadFirePose
    <3>1. Counters'
      BY <2>3 DEF BadFirePose, StartReposition, Counters
    <3> QED
      BY <2>3, <3>1 DEF BadFirePose, StartReposition, AimFrame, Counters
  <2>4. CASE NoSolution \/ StaleFeedback \/ OffTarget \/ OnTarget
    <3>1. CASE NoSolution \/ StaleFeedback
      BY <3>1 DEF NoSolution, StaleFeedback, AimFrame
    <3>2. CASE OffTarget
      BY <3>2 DEF OffTarget, AimFrame
    <3>3. CASE OnTarget
      BY <3>3 DEF OnTarget, AimFrame
    <3> QED
      BY <2>4, <3>1, <3>2, <3>3
  <2>5. CASE Fire
    <3>1. Counters'
      BY <2>5 DEF Fire, Counters
    <3> QED
      BY <2>5, <3>1 DEF Fire, AimFrame, Counters
  <2>6. CASE PulseEnds \/ NoBulletGiveUp \/ ImpactTimeout
    <3>1. CASE PulseEnds
      BY <3>1 DEF PulseEnds
    <3>2. CASE NoBulletGiveUp
      BY <3>2 DEF NoBulletGiveUp
    <3>3. CASE ImpactTimeout
      BY <3>3 DEF ImpactTimeout
    <3> QED
      BY <2>6, <3>1, <3>2, <3>3
  <2>7. CASE NoBulletRefire
    <3>1. Counters'
      BY <2>7 DEF NoBulletRefire, Counters
    <3> QED
      BY <2>7, <3>1 DEF NoBulletRefire, Counters
  <2>8. CASE BeginRecovery \/ BarrelLowered
    BY <2>8 DEF BeginRecovery, BarrelLowered
  <2>9. ASSUME NEW reason \in Resolved, AdvanceOrReturn(reason)
        PROVE  /\ shot' \in Nat /\ total' \in Nat /\ refire' \in Nat /\ pulses' \in Nat
               /\ NextRepo \in Nat /\ stage' \in Stages /\ NextGoal \in Places
    BY <2>9, MissionAssumption
    DEF MissionAssumption, AdvanceOrReturn, ResetStage, BeginFinalReturn,
        NextGoal, NextRepo, Stages
  <2>10. ASSUME NEW reason \in Resolved, AdvanceOrReturn(reason)
         PROVE  /\ results' \in Seq(Records)
                /\ why' \in Resolved \cup {"none"} /\ lastResult' \in Impacts
                /\ returnPoint' \in Homes /\ pos' \in Places /\ bullets' \subseteq Nat
                /\ armed' \in BOOLEAN /\ bulletSeen' \in BOOLEAN /\ dwell' \in BOOLEAN
                /\ returnGoalSent' \in BOOLEAN /\ abort' \in BOOLEAN
                /\ chambered' \in BOOLEAN
    <3>1. [stage |-> stage, reason |-> reason, impact |-> lastResult] \in Records
      OBVIOUS
    <3>2. results' \in Seq(Records)
      BY <2>10, <3>1 DEF AdvanceOrReturn
    <3>3. why' \in Resolved \cup {"none"} /\ lastResult' \in Impacts
      BY <2>10 DEF AdvanceOrReturn, ResetStage, BeginFinalReturn
    <3>4. armed' \in BOOLEAN /\ bulletSeen' \in BOOLEAN /\ dwell' \in BOOLEAN
      BY <2>10 DEF AdvanceOrReturn, ResetStage, BeginFinalReturn
    <3>5. ReturnEnabled \in BOOLEAN
      BY MissionAssumption DEF MissionAssumption
    <3>6. returnGoalSent' \in BOOLEAN
      BY <2>10, <3>5 DEF AdvanceOrReturn, ResetStage, BeginFinalReturn
    <3> QED
      BY <2>10, <3>2, <3>3, <3>4, <3>6 DEF AdvanceOrReturn
  <2>11. CASE Advance
    BY <2>9, <2>10, <2>11 DEF Advance, NextPhase
  <2>12. CASE AdvanceIntoAim
    <3>1. repo' \in Nat /\ goal' \in Places
      BY <2>9, <2>12 DEF AdvanceIntoAim
    <3> QED
      BY <2>9, <2>10, <2>12, <3>1 DEF AdvanceIntoAim
  <2>13. CASE ReturnLeg
    BY <2>13 DEF ReturnLeg, Preempted
  <2>14. ASSUME NEW h \in Homes, MissionAbort(h) PROVE TypeInv'
    BY <2>14 DEF MissionAbort
  <2>15. ASSUME NEW b \in bullets, NEW hit \in BOOLEAN, BulletImpact(b, hit) PROVE TypeInv'
    <3>1. phase' \in Phases /\ (phase' = phase \/ phase' \notin {"lowering_barrel", "centering_turret"})
      BY <2>15 DEF BulletImpact, ImpactFrame, CreditImpact, DropImpact
    <3>2. lastResult' \in Impacts /\ bullets' \subseteq Nat
      BY <2>15 DEF BulletImpact, ImpactFrame, CreditImpact, DropImpact
    <3> QED
      BY <2>15, <3>1, <3>2 DEF BulletImpact, ImpactFrame, CreditImpact, DropImpact
  <2>16. CASE Launch
    BY <2>16 DEF Launch
  <2>17. ASSUME NEW p \in Places, Drive(p) PROVE TypeInv'
    BY <2>17 DEF Drive
  <2>18. CASE UNCHANGED vars
    BY <2>18 DEF vars
  <2> QED
    BY <2>1, <2>2, <2>3, <2>4, <2>5, <2>6, <2>7, <2>8, <2>11, <2>12, <2>13, <2>14,
       <2>15, <2>16, <2>17, <2>18 DEF Next, Tick
<1> QED
  BY <1>1, <1>2, PTL DEF Spec

\* Every field keeps its range: in particular each record appended to the
\* stage results has a stage, a reason and an impact.
THEOREM TypeCorrect == Spec => []TypeOK
<1>1. TypeInv => TypeOK
  BY DEF TypeInv
<1> QED
  BY <1>1, TypeInvariant, PTL

-----------------------------------------------------------------------------
(* The shots charged to a stage.                                           *)

\* A refire gives one shot back, so there has to be one: while a shot is fired
\* or waited for it is charged to the stage.
ShotInv == ShotAccounting /\ (phase \in Engaging => shot > 0)

\* shot_count and the refire counter account for every pulse of the stage, for
\* any number of refires; max(0, shot_count - 1) never clips.
THEOREM ShotsAccounted == Spec => []ShotAccounting
<1>1. Init => ShotInv
  BY DEF Init, ShotInv, ShotAccounting, Engaging
<1>2. TypeOK /\ ShotInv /\ [Next]_vars => ShotInv'
  <2> SUFFICES ASSUME TypeOK, ShotInv, [Next]_vars PROVE ShotInv'
    OBVIOUS
  <2>0. Counters
    BY DEF TypeOK, Counters
  <2> USE <2>0 DEF Counters, ShotInv, ShotAccounting, Engaging, gun, report, home, outside
  <2>1. CASE Approach \/ CaptureCheckpoint \/ BeginBodyAlign \/ AbandonBodyAlign
             \/ RepositionArrived \/ RepositionTimeout
    BY <2>1 DEF Approach, CaptureCheckpoint, BeginBodyAlign, AbandonBodyAlign,
                RepositionArrived, RepositionTimeout
  <2>2. CASE BadFirePose \/ NoSolution \/ StaleFeedback \/ OffTarget \/ OnTarget
    BY <2>2 DEF BadFirePose, StartReposition, NoSolution, StaleFeedback, OffTarget, OnTarget
  <2>3. CASE Fire
    BY <2>3 DEF Fire
  <2>4. CASE PulseEnds \/ NoBulletGiveUp \/ ImpactTimeout
    BY <2>4 DEF PulseEnds, NoBulletGiveUp, ImpactTimeout
  <2>5. CASE NoBulletRefire
    BY <2>5 DEF NoBulletRefire, Overdue
  <2>6. CASE BeginRecovery \/ BarrelLowered
    BY <2>6 DEF BeginRecovery, BarrelLowered
  <2>7. CASE Advance \/ AdvanceIntoAim
    BY <2>7 DEF Advance, AdvanceIntoAim, AdvanceOrReturn, ResetStage, BeginFinalReturn,
                NextPhase
  <2>8. CASE ReturnLeg
    BY <2>8 DEF ReturnLeg, Preempted, Terminal
  <2>9. ASSUME NEW b \in bullets, NEW hit \in BOOLEAN, BulletImpact(b, hit) PROVE ShotInv'
    BY <2>9 DEF BulletImpact, ImpactFrame, CreditImpact, DropImpact
  <2>10. CASE (\E h \in Homes : MissionAbort(h)) \/ Launch \/ (\E p \in Places : Drive(p))
    BY <2>10 DEF MissionAbort, Launch, Drive
  <2>11. CASE UNCHANGED vars
    BY <2>11 DEF vars
  <2> QED
    BY <2>1, <2>2, <2>3, <2>4, <2>5, <2>6, <2>7, <2>8, <2>9, <2>10, <2>11 DEF Next, Tick
<1>3. ShotInv => ShotAccounting
  BY DEF ShotInv
<1> QED
  BY <1>1, <1>2, <1>3, TypeCorrect, PTL DEF Spec

-----------------------------------------------------------------------------
(* The stage report.                                                       *)

\* What a record of this reason and impact may claim.
Backed(reason, impact) ==
    Truthful(reason, impact) /\ (RequireBullet => impact.of # 0)

\* A shot that is waited for has not been seen to land, which is why a required
\* impact is never replaced by a timeout; from the impact to the record the
\* reason and the impact stay together.
ReportInv ==
    /\ \A i \in 1 .. Len(results) : Backed(results[i].reason, results[i].impact)
    /\ phase \in Engaging => ~bulletSeen
    /\ phase \in Resolved => Backed(phase, lastResult)
    /\ phase \in {"lowering_barrel", "centering_turret"} => Backed(why, lastResult)
    /\ 0 \notin bullets /\ (chambered => total > 0)

LEMMA ReportInvariant == Spec => []ReportInv
<1>1. Init => ReportInv
  BY DEF Init, ReportInv, Engaging, Resolved
<1>2. TypeInv /\ ReportInv /\ [Next]_vars => ReportInv'
  <2> SUFFICES ASSUME TypeInv, ReportInv, [Next]_vars PROVE ReportInv'
    OBVIOUS
  <2>0. total \in Nat /\ results \in Seq(Records) /\ bullets \subseteq Nat
    BY DEF TypeInv, TypeOK
  <2> USE DEF ReportInv, Engaging, Resolved, gun, report, home, outside
  <2>1. CASE Approach \/ CaptureCheckpoint \/ BeginBodyAlign \/ AbandonBodyAlign
             \/ RepositionArrived \/ RepositionTimeout
    BY <2>1 DEF Approach, CaptureCheckpoint, BeginBodyAlign, AbandonBodyAlign,
                RepositionArrived, RepositionTimeout
  <2>2. CASE BadFirePose \/ NoSolution \/ StaleFeedback \/ OffTarget \/ OnTarget
    BY <2>2 DEF BadFirePose, StartReposition, NoSolution, StaleFeedback, OffTarget,
                OnTarget, AimFrame
  <2>3. CASE Fire
    BY <2>0, <2>3 DEF Fire, AimFrame
  <2>4. CASE PulseEnds \/ NoBulletGiveUp \/ NoBulletRefire
    BY <2>4 DEF PulseEnds, NoBulletGiveUp, NoBulletRefire
  <2>5. CASE ImpactTimeout
    BY <2>5 DEF ImpactTimeout, Overdue, NoBullet, Backed, Truthful
  <2>6. CASE BeginRecovery \/ BarrelLowered
    BY <2>6 DEF BeginRecovery, BarrelLowered
  <2>7. ASSUME NEW reason, Backed(reason, lastResult), AdvanceOrReturn(reason)
        PROVE  /\ \A i \in 1 .. Len(results)' : Backed(results'[i].reason, results'[i].impact)
               /\ 0 \notin bullets' /\ (chambered' => total' > 0)
    <3> DEFINE rec == [stage |-> stage, reason |-> reason, impact |-> lastResult]
    <3>1. results' = Append(results, rec) /\ UNCHANGED <<total, bullets, chambered>>
      BY <2>7 DEF AdvanceOrReturn
    <3>2. Backed(rec.reason, rec.impact)
      BY <2>7
    <3> QED
      BY <2>0, <3>1, <3>2
  <2>8. CASE Advance
    BY <2>7, <2>8 DEF Advance, NextPhase
  <2>9. CASE AdvanceIntoAim
    BY <2>7, <2>9 DEF AdvanceIntoAim
  <2>10. CASE ReturnLeg
    BY <2>10 DEF ReturnLeg, Preempted, Terminal
  <2>11. ASSUME NEW b \in bullets, NEW hit \in BOOLEAN, BulletImpact(b, hit)
         PROVE  ReportInv'
    BY <2>0, <2>11 DEF BulletImpact, ImpactFrame, CreditImpact, DropImpact, Backed, Truthful
  <2>12. CASE Launch
    BY <2>0, <2>12 DEF Launch
  <2>13. CASE (\E h \in Homes : MissionAbort(h)) \/ (\E p \in Places : Drive(p))
    BY <2>13 DEF MissionAbort, Drive
  <2>14. CASE UNCHANGED vars
    BY <2>14 DEF vars
  <2> QED
    BY <2>1, <2>2, <2>3, <2>4, <2>5, <2>6, <2>8, <2>9, <2>10, <2>11, <2>12, <2>13, <2>14
    DEF Next, Tick
<1> QED
  BY <1>1, <1>2, TypeInvariant, PTL DEF Spec

\* A record never claims a hit or a miss that was not credited to it.
THEOREM ReportsTruthful == Spec => []ReportTruthful
<1>1. ReportInv => ReportTruthful
  BY DEF ReportInv, ReportTruthful, Backed
<1> QED
  BY <1>1, ReportInvariant, PTL

\* With require_bullet_event_before_stage_complete a stage is only ever left with
\* an impact on record: the impact_timeout branch cannot be taken.
THEOREM ImpactsRequired == Spec => []ImpactBeforeAdvance
<1>1. ReportInv => ImpactBeforeAdvance
  BY DEF ReportInv, ImpactBeforeAdvance, Backed
<1> QED
  BY <1>1, ReportInvariant, PTL

-----------------------------------------------------------------------------
(* The hull.                                                               *)

\* No interleaving of ticks, impacts and aborts fires or recovers the gun under
\* an override that lets the hull drive.
THEOREM HullStaysHeld == Spec => []HullHeld
<1>1. Init => HullHeld
  BY DEF Init, HullHeld, Engaging, Recovery, Resolved
<1>2. HullHeld /\ [Next]_vars => HullHeld'
  <2> SUFFICES ASSUME HullHeld, [Next]_vars PROVE HullHeld'
    OBVIOUS
  <2> USE DEF HullHeld, Engaging, Recovery, Resolved, Held, Shooting, gun, report, home, outside
  <2>1. CASE Approach \/ CaptureCheckpoint \/ BeginBodyAlign \/ AbandonBodyAlign
             \/ RepositionArrived \/ RepositionTimeout
    BY <2>1 DEF Approach, CaptureCheckpoint, BeginBodyAlign, AbandonBodyAlign,
                RepositionArrived, RepositionTimeout
  <2>2. CASE BadFirePose \/ NoSolution \/ StaleFeedback \/ OffTarget \/ OnTarget \/ Fire
    BY <2>2 DEF BadFirePose, StartReposition, NoSolution, StaleFeedback, OffTarget,
                OnTarget, Fire
  <2>3. CASE PulseEnds \/ NoBulletRefire \/ NoBulletGiveUp \/ ImpactTimeout
    BY <2>3 DEF PulseEnds, NoBulletRefire, NoBulletGiveUp, ImpactTimeout
  <2>4. CASE BeginRecovery \/ BarrelLowered \/ Advance \/ AdvanceIntoAim
    BY <2>4 DEF BeginRecovery, BarrelLowered, Advance, AdvanceIntoAim, NextPhase
  <2>5. CASE ReturnLeg
    BY <2>5 DEF ReturnLeg, Preempted, Terminal
  <2>6. CASE \E b \in bullets, hit \in BOOLEAN : BulletImpact(b, hit)
    BY <2>6 DEF BulletImpact, ImpactFrame, CreditImpact, DropImpact
  <2>7. CASE (\E h \in Homes : MissionAbort(h)) \/ Launch \/ (\E p \in Places : Drive(p))
    BY <2>7 DEF MissionAbort, Launch, Drive
  <2>8. CASE UNCHANGED vars
    BY <2>8 DEF vars
  <2> QED
    BY <2>1, <2>2, <2>3, <2>4, <2>5, <2>6, <2>7, <2>8 DEF Next, Tick
<1> QED
  BY <1>1, <1>2, PTL DEF Spec

-----------------------------------------------------------------------------
(* The order of the mission.  These facts need one of the two recovery     *)
(* steps: with both switched off a tick runs on from the advance into the  *)
(* aim loop, which then takes the terminal leg back.                       *)

Recovers == LowerBarrel \/ CenterTurret

\* While the mission is on, the stage worked on is the first without a record.
MissionInv ==
    /\ NeverReArm /\ GoalMatchesLeg /\ TerminalStopEarned /\ OrderedEngagements
    /\ phase \notin Terminal => Len(results) = stage - 1

LEMMA MissionInvariant == ASSUME Recovers PROVE Spec => []MissionInv
<1>1. Init => MissionInv
  BY MissionAssumption
  DEF MissionAssumption, Init, MissionInv, NeverReArm, GoalMatchesLeg, TerminalStopEarned,
      OrderedEngagements, Terminal, AimPhases, Engaging, Recovery, Resolved
<1>2. TypeInv /\ MissionInv /\ [Next]_vars => MissionInv'
  <2> SUFFICES ASSUME TypeInv, MissionInv, [Next]_vars PROVE MissionInv'
    OBVIOUS
  <2>0. /\ stage \in 1 .. NStages /\ results \in Seq(Records) /\ returnPoint \in Homes
        /\ NStages \in Nat \ {0}
    BY MissionAssumption DEF MissionAssumption, TypeInv, TypeOK, Stages
  <2> USE DEF MissionInv, NeverReArm, GoalMatchesLeg, TerminalStopEarned, OrderedEngagements,
              Terminal, AimPhases, Engaging, Recovery, Resolved, gun, report, home, outside
  <2>1. CASE Approach \/ CaptureCheckpoint
    BY <2>1 DEF Approach, CaptureCheckpoint, Running
  <2>2. CASE BeginBodyAlign \/ AbandonBodyAlign \/ RepositionArrived \/ RepositionTimeout
    BY <2>2 DEF BeginBodyAlign, AbandonBodyAlign, RepositionArrived, RepositionTimeout, Running
  <2>3. CASE BadFirePose
    BY <2>3 DEF BadFirePose, StartReposition, AimFrame, Aiming, Running
  <2>4. CASE NoSolution \/ StaleFeedback \/ OffTarget \/ OnTarget \/ Fire
    BY <2>4 DEF NoSolution, StaleFeedback, OffTarget, OnTarget, Fire, AimFrame, Aiming, Running
  <2>5. CASE PulseEnds \/ NoBulletRefire \/ NoBulletGiveUp \/ ImpactTimeout
    BY <2>5 DEF PulseEnds, NoBulletRefire, NoBulletGiveUp, ImpactTimeout, Overdue, Running
  <2>6. CASE BeginRecovery \/ BarrelLowered
    BY <2>6 DEF BeginRecovery, BarrelLowered, Running
  <2>7. CASE Advance
    <3> DEFINE rec == [stage |-> stage, reason |-> why, impact |-> lastResult]
    <3>1. results' = Append(results, rec) /\ rec.stage = stage /\ Len(results) = stage - 1
      BY <2>7 DEF Advance, AdvanceOrReturn, Running
    <3>2. Len(results') = stage /\ \A i \in 1 .. Len(results') : results'[i].stage = i
      BY <2>0, <3>1
    <3>3. CASE stage < NStages
      BY <2>0, <2>7, <3>2, <3>3
      DEF Advance, AdvanceOrReturn, ResetStage, BeginFinalReturn, NextPhase, NextGoal, Running
    <3>4. CASE stage = NStages
      <4>1. ~returnGoalSent
        BY <2>7 DEF Advance
      <4>2. ~(stage < NStages)
        BY <2>0, <3>4
      <4>3. /\ stage' = stage /\ (returnGoalSent' => ReturnEnabled)
            /\ phase' = IF ReturnEnabled THEN "returning" ELSE "complete"
            /\ goal' = IF ReturnEnabled THEN Home(returnPoint) ELSE goal
        BY <2>7, <4>1, <4>2 DEF Advance, AdvanceOrReturn, ResetStage, BeginFinalReturn,
                                NextPhase, NextGoal
      <4> QED
        BY <2>0, <3>2, <3>4, <4>3
    <3> QED
      BY <2>0, <3>3, <3>4
  <2>8. ~AdvanceIntoAim
    BY DEF AdvanceIntoAim, Recovers
  <2>9. CASE ReturnLeg
    BY <2>0, <2>9 DEF ReturnLeg, Preempted
  <2>10. CASE \E b \in bullets, hit \in BOOLEAN : BulletImpact(b, hit)
    BY <2>10 DEF BulletImpact, ImpactFrame, CreditImpact, DropImpact
  <2>11. CASE (\E h \in Homes : MissionAbort(h)) \/ Launch \/ (\E p \in Places : Drive(p))
    BY <2>11 DEF MissionAbort, Launch, Drive
  <2>12. CASE UNCHANGED vars
    BY <2>12 DEF vars
  <2> QED
    BY <2>1, <2>2, <2>3, <2>4, <2>5, <2>6, <2>7, <2>8, <2>9, <2>10, <2>11, <2>12
    DEF Next, Tick
<1> QED
  BY <1>1, <1>2, TypeInvariant, PTL DEF Spec

\* Once a return goal is out the gun is never armed again.
THEOREM TerminalLegFinal == ASSUME Recovers PROVE Spec => []NeverReArm
<1>1. MissionInv => NeverReArm
  BY DEF MissionInv
<1> QED
  BY <1>1, MissionInvariant, PTL

\* The planner's goal is always the one of the current leg.
THEOREM GoalsMatchLegs == ASSUME Recovers PROVE Spec => []GoalMatchesLeg
<1>1. MissionInv => GoalMatchesLeg
  BY DEF MissionInv
<1> QED
  BY <1>1, MissionInvariant, PTL

\* The records are those of the stages 1, 2, ... in this order, each once.
THEOREM EngagementsOrdered == ASSUME Recovers PROVE Spec => []OrderedEngagements
<1>1. MissionInv => OrderedEngagements
  BY DEF MissionInv
<1> QED
  BY <1>1, MissionInvariant, PTL

\* The terminal phases are reached through all engagements or through an abort.
THEOREM StopEarned == ASSUME Recovers PROVE Spec => []TerminalStopEarned
<1>1. MissionInv => TerminalStopEarned
  BY DEF MissionInv
<1> QED
  BY <1>1, MissionInvariant, PTL

-----------------------------------------------------------------------------
(* One shell, one engagement.                                              *)

\* Shell identifiers are total_shot_count at launch.  A credited one is spent: it
\* is not in flight and not in the chamber; and while the mission is on, the
\* impact held for the current stage is not one of an earlier record.
CreditInv ==
    /\ \A b \in bullets : b <= total /\ (chambered => b # total)
    /\ lastResult.of <= total /\ lastResult.of \notin bullets
    /\ chambered => lastResult.of # total
    /\ \A i \in 1 .. Len(results) :
          /\ results[i].impact.of <= total /\ results[i].impact.of \notin bullets
          /\ chambered => results[i].impact.of # total
          /\ phase \notin Terminal /\ lastResult.of # 0
                => results[i].impact.of # lastResult.of
    /\ ImpactCreditedOnce

LEMMA CreditInvariant == ASSUME Recovers PROVE Spec => []CreditInv
<1>1. Init => CreditInv
  BY DEF Init, CreditInv, ImpactCreditedOnce, NoImpact
<1>2. TypeInv /\ ReportInv /\ CreditInv /\ [Next]_vars => CreditInv'
  <2> SUFFICES ASSUME TypeInv, ReportInv, CreditInv, [Next]_vars PROVE CreditInv'
    OBVIOUS
  <2>0. /\ total \in Nat /\ bullets \subseteq Nat /\ lastResult.of \in Nat
        /\ results \in Seq(Records)
        /\ \A i \in 1 .. Len(results) : results[i].impact.of \in Nat
        /\ 0 \notin bullets /\ (chambered => total > 0)
    <3>1. total \in Nat /\ bullets \subseteq Nat /\ lastResult \in Impacts /\ results \in Seq(Records)
      BY DEF TypeInv, TypeOK
    <3>2. \A i \in 1 .. Len(results) : results[i] \in Records
      BY <3>1
    <3>3. lastResult.of \in Nat /\ \A i \in 1 .. Len(results) : results[i].impact.of \in Nat
      BY <3>1, <3>2 DEF Impacts, Records
    <3> QED
      BY <3>1, <3>3 DEF ReportInv
  <2> USE DEF CreditInv, ImpactCreditedOnce, Terminal, AimPhases, Engaging, Recovery, Resolved,
              gun, report, home, outside
  <2>1. CASE Approach \/ CaptureCheckpoint \/ BeginBodyAlign \/ AbandonBodyAlign
             \/ RepositionArrived \/ RepositionTimeout
    BY <2>1 DEF Approach, CaptureCheckpoint, BeginBodyAlign, AbandonBodyAlign,
                RepositionArrived, RepositionTimeout, Running
  <2>2. CASE BadFirePose \/ NoSolution \/ StaleFeedback \/ OffTarget \/ OnTarget
    BY <2>2 DEF BadFirePose, StartReposition, NoSolution, StaleFeedback, OffTarget,
                OnTarget, AimFrame, Aiming, Running
  <2>3. CASE Fire
    <3>1. /\ total' = total + 1 /\ UNCHANGED <<bullets, lastResult, results>>
          /\ phase \notin Terminal
      BY <2>3 DEF Fire, AimFrame, Aiming, Running
    <3> QED
      BY <2>0, <3>1
  <2>4. CASE PulseEnds \/ NoBulletRefire \/ NoBulletGiveUp \/ ImpactTimeout
    BY <2>4 DEF PulseEnds, NoBulletRefire, NoBulletGiveUp, ImpactTimeout, Overdue, Running
  <2>5. CASE BeginRecovery \/ BarrelLowered
    BY <2>5 DEF BeginRecovery, BarrelLowered, Running
  <2>6. CASE Advance
    <3> DEFINE rec == [stage |-> stage, reason |-> why, impact |-> lastResult]
    <3>1. /\ results' = Append(results, rec) /\ rec.impact = lastResult
          /\ UNCHANGED <<total, bullets, chambered>> /\ phase \notin Terminal
          /\ \/ lastResult' = NoImpact
             \/ lastResult' = lastResult /\ phase' \in Terminal
      <4>1. /\ AdvanceOrReturn(why) /\ phase \notin Terminal
            /\ stage = NStages => phase' \in Terminal
        BY <2>6, MissionAssumption
        DEF Advance, NextPhase, Running, MissionAssumption
      <4> QED
        BY <4>1 DEF AdvanceOrReturn, ResetStage, BeginFinalReturn
    <3>2. /\ Len(results') = Len(results) + 1 /\ results'[Len(results) + 1] = rec
          /\ \A i \in 1 .. Len(results) : results'[i] = results[i]
      BY <2>0, <3>1
    <3>3. \A i \in 1 .. Len(results') :
             /\ results'[i].impact.of <= total /\ results'[i].impact.of \notin bullets
             /\ chambered => results'[i].impact.of # total
      BY <2>0, <3>1, <3>2
    <3>4. ImpactCreditedOnce'
      BY <2>0, <3>1, <3>2
    <3> QED
      BY <2>0, <3>1, <3>3, <3>4 DEF NoImpact
  <2>7. ~AdvanceIntoAim
    BY DEF AdvanceIntoAim, Recovers
  <2>8. CASE ReturnLeg
    BY <2>8 DEF ReturnLeg, Preempted
  <2>9. ASSUME NEW b \in bullets, NEW hit \in BOOLEAN, BulletImpact(b, hit)
        PROVE  CreditInv'
    <3>1. /\ bullets' = bullets \ {b} /\ UNCHANGED <<total, chambered, results>>
          /\ \/ lastResult'.of = b
             \/ UNCHANGED <<lastResult, phase>>
      BY <2>9 DEF BulletImpact, ImpactFrame, CreditImpact, DropImpact
    <3> QED
      BY <2>0, <3>1
  <2>10. CASE Launch
    <3>1. chambered /\ ~chambered' /\ bullets' = bullets \cup {total}
          /\ UNCHANGED <<total, lastResult, results, phase>>
      BY <2>10 DEF Launch
    <3> QED
      BY <2>0, <3>1
  <2>11. CASE (\E h \in Homes : MissionAbort(h)) \/ (\E p \in Places : Drive(p))
    BY <2>11 DEF MissionAbort, Drive
  <2>12. CASE UNCHANGED vars
    BY <2>12 DEF vars
  <2> QED
    BY <2>1, <2>2, <2>3, <2>4, <2>5, <2>6, <2>7, <2>8, <2>9, <2>10, <2>11, <2>12
    DEF Next, Tick
<1> QED
  BY <1>1, <1>2, TypeInvariant, ReportInvariant, PTL DEF Spec

\* However late a shell lands, no two records are closed with the same one.
THEOREM ImpactsCreditedOnce == ASSUME Recovers PROVE Spec => []ImpactCreditedOnce
<1>1. CreditInv => ImpactCreditedOnce
  BY DEF CreditInv
<1> QED
  BY <1>1, CreditInvariant, PTL

\* What the report says of an engagement rests on that engagement.
THEOREM ResultsAreEarned == ASSUME Recovers PROVE Spec => []ResultsEarned
<1>1. OrderedEngagements /\ ReportTruthful /\ ImpactBeforeAdvance /\ ImpactCreditedOnce => ResultsEarned
  BY DEF ResultsEarned
<1> QED
  BY <1>1, EngagementsOrdered, ReportsTruthful, ImpactsRequired, ImpactsCreditedOnce, PTL

\* Hull and goal fit the phase.
THEOREM LegsAreKept == ASSUME Recovers PROVE Spec => []LegsKept
<1>1. HullHeld /\ GoalMatchesLeg => LegsKept
  BY DEF LegsKept
<1> QED
  BY <1>1, HullStaysHeld, GoalsMatchLegs, PTL

-----------------------------------------------------------------------------
(* The refinement.                                                         *)

\* Every tick and callback of the fire mission is a step of MissionLegs or leaves
\* the leg and the number of finished engagements alone.
THEOREM FireMissionImplementsLegs == ASSUME Recovers PROVE Spec => ImplementsLegs
<1>1. Init => Legs!Init
  BY DEF Init, Legs!Init, Leg
<1>2. TypeInv /\ MissionInv /\ [Next]_vars => [Legs!Next]_(Legs!legs)
  <2> SUFFICES ASSUME TypeInv, MissionInv, [Next]_vars
               PROVE  Legs!Next \/ UNCHANGED <<Len(results), Leg>>
    BY DEF Legs!legs
  <2>0. stage \in 1 .. NStages /\ results \in Seq(Records) /\ NStages \in Nat \ {0}
    BY MissionAssumption DEF MissionAssumption, TypeInv, TypeOK, Stages
  <2> USE DEF Leg, Terminal, AimPhases, Engaging, Recovery, Resolved,
              gun, report, home, outside
  <2>1. CASE Approach \/ CaptureCheckpoint \/ BeginBodyAlign \/ AbandonBodyAlign
             \/ RepositionArrived \/ RepositionTimeout
    BY <2>1 DEF Approach, CaptureCheckpoint, BeginBodyAlign, AbandonBodyAlign,
                RepositionArrived, RepositionTimeout, Running
  <2>2. CASE BadFirePose \/ NoSolution \/ StaleFeedback \/ OffTarget \/ OnTarget \/ Fire
    BY <2>2 DEF BadFirePose, StartReposition, NoSolution, StaleFeedback, OffTarget,
                OnTarget, Fire, AimFrame, Aiming, Running
  <2>3. CASE PulseEnds \/ NoBulletRefire \/ NoBulletGiveUp \/ ImpactTimeout
    BY <2>3 DEF PulseEnds, NoBulletRefire, NoBulletGiveUp, ImpactTimeout, Overdue, Running
  <2>4. CASE BeginRecovery \/ BarrelLowered
    BY <2>4 DEF BeginRecovery, BarrelLowered, Running
  <2>5. CASE Advance
    <3>1. Leg = "engage" /\ Len(results) = stage - 1
      BY <2>5 DEF Advance, Running, MissionInv
    <3>2. Len(results') = stage
      BY <2>0, <2>5, <3>1 DEF Advance, AdvanceOrReturn
    <3>3. Leg' = IF stage < NStages THEN "engage"
                 ELSE IF ReturnEnabled THEN "return" ELSE "over"
      BY <2>5 DEF Advance, NextPhase
    <3> QED
      BY <2>0, <3>1, <3>2, <3>3 DEF Legs!Next, Legs!Finish
  <2>6. ~AdvanceIntoAim
    BY DEF AdvanceIntoAim, Recovers
  <2>7. CASE ReturnLeg
    <3>1. results' = results
      BY <2>7 DEF ReturnLeg
    <3>2. CASE Preempted
      <4>1. Leg # "home" /\ Leg' \in {"return", "home"}
        BY <2>7, <3>2 DEF ReturnLeg, Preempted
      <4> QED
        BY <3>1, <4>1 DEF Legs!Next, Legs!Recall
    <3>3. CASE ~Preempted
      <4>1. Leg' = Leg \/ (Leg = "return" /\ Leg' = "home")
        BY <2>7, <3>3 DEF ReturnLeg
      <4> QED
        BY <3>1, <4>1 DEF Legs!Next, Legs!Arrive
    <3> QED
      BY <3>2, <3>3
  <2>8. CASE \E b \in bullets, hit \in BOOLEAN : BulletImpact(b, hit)
    BY <2>8 DEF BulletImpact, ImpactFrame, CreditImpact, DropImpact
  <2>9. CASE (\E h \in Homes : MissionAbort(h)) \/ Launch \/ (\E p \in Places : Drive(p))
    BY <2>9 DEF MissionAbort, Launch, Drive
  <2>10. CASE UNCHANGED vars
    BY <2>10 DEF vars
  <2> QED
    BY <2>1, <2>2, <2>3, <2>4, <2>5, <2>6, <2>7, <2>8, <2>9, <2>10 DEF Next, Tick
<1> QED
  BY <1>1, <1>2, TypeInvariant, MissionInvariant, PTL DEF Spec, Legs!Spec, ImplementsLegs
-----------------------------------------------------------------------------
(* Whatever switches the launch file sets.                                 *)

\* The shots add up, the hull is held for them and the records of impacts are true, with or
\* without the impact requirement and the recovery steps.
THEOREM ShotsStaySound == Spec => []ShotsAreSound
<1>1. ShotAccounting /\ HullHeld /\ ReportTruthful => ShotsAreSound
  BY DEF ShotsAreSound
<1> QED
  BY <1>1, ShotsAccounted, HullStaysHeld, ReportsTruthful, PTL
=============================================================================
