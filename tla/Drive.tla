------------------------------- MODULE Drive -------------------------------
(***************************************************************************)
(* The parts of tank_controller_node.py side by side: a behaviour runs one *)
(* of them and leaves the others as they start, since they share no state: *)
(* what one part decides is an arbitrary input of the next one's tick.     *)
(***************************************************************************)
EXTENDS TankController

CONSTANTS
    Lock, Window, Threshold, Hold,                      \* SteeringLock
    ApfMax, ApfCool, SharpMax, SharpCool, AwayLock,     \* StopPivot
    Spots, Stale, Dwell, Cool, HomeDelay, ReverseHold   \* ReconObservation

\* A dwell lasts; any other interval may be too short to be seen.
ASSUME DriveAssumption ==
    /\ {Lock, Window, Threshold, Hold, ApfMax, ApfCool, SharpMax, SharpCool, AwayLock} \subseteq Nat
    /\ {Stale, Dwell, Cool, HomeDelay, ReverseHold} \subseteq Nat /\ Dwell > 0

VARIABLES
    layer,      \* the part that runs
    ad, lock, lockLeft, last, flips, hold, holdLeft, turns, side, kept,
    apfAge, apfLeft, sharpAge, sharpLeft, avoid, awayLeft, mode, turn, apfRun, sharpRun, calm,
    in, out,
    tick, spot, seen, seenAge, dwell, cool, dwelled, clearAge, qe, qeAge, ws, turretCmd, why,
    stops, owner

Steering == INSTANCE SteeringLock
Pivots   == INSTANCE StopPivot WITH away <- avoid
Speed    == INSTANCE SpeedChain WITH NoLimit <- None
Recon    == INSTANCE ReconObservation WITH due <- tick, turret <- turretCmd

steering == <<ad, lock, lockLeft, last, flips, hold, holdLeft, turns, side, kept>>
pivots   == <<apfAge, apfLeft, sharpAge, sharpLeft, avoid, awayLeft, mode, turn, apfRun, sharpRun, calm>>
speed    == <<in, out>>
recon    == <<tick, spot, seen, seenAge, dwell, cool, dwelled, clearAge, qe, qeAge, ws, turretCmd,
              why, stops, owner>>

DriveInit ==
    /\ layer \in {"drive", "steering", "pivots", "speed", "recon"}
    /\ Init /\ Steering!Init /\ Pivots!Init /\ Recon!Init
    /\ layer # "recon" => spot = CHOOSE s \in Spots : TRUE
    /\ IF layer = "speed" THEN Speed!Init ELSE in = None /\ out = None

DriveNext ==
    /\ UNCHANGED layer
    /\ \/ /\ layer = "drive" /\ Next
          /\ UNCHANGED <<steering, pivots, speed, recon>>
       \/ /\ layer = "steering" /\ Steering!Next
          /\ UNCHANGED <<vars, pivots, speed, recon>>
       \/ /\ layer = "pivots" /\ Pivots!Next
          /\ UNCHANGED <<vars, steering, speed, recon>>
       \/ /\ layer = "speed" /\ Speed!Tick
          /\ UNCHANGED <<vars, steering, pivots, recon>>
       \/ /\ layer = "recon" /\ Recon!Next
          /\ UNCHANGED <<vars, steering, pivots, speed>>

DriveSpec ==
    /\ DriveInit /\ [][DriveNext]_<<layer, vars, steering, pivots, speed, recon>>
    /\ (layer = "drive" => Fairness)

-----------------------------------------------------------------------------
\* The hull stands where a stop is due and no more: the terminal STOP and the stop before a
\* checkpoint (StopsDeserved), and the STOPs of a dwell, which add up to one at each place
\* (ReconObservation); with the types of every part.
HullStops ==
    /\ TypeOK /\ Steering!TypeOK /\ Pivots!TypeOK /\ Recon!TypeOK
    /\ StopsDeserved /\ Recon!DwelledOnce

\* Whatever alternates at the inputs of steering, the published side goes straight over to the
\* other fewer than Threshold times in a window and not at all in a hold, neither STOP pivot
\* outlasts its time, and a turn away from an obstacle is kept for the length of its lock.
\* Whatever layers speak, W stays in the safety limit, is never given at the goal, and stays
\* in the brake's weight but where a shot turns a reverse brake into driving on.
DriveIsSteady ==
    /\ []Steering!FewReversals /\ []Pivots!PivotIsBrief /\ Pivots!TurnKept
    /\ [](layer = "speed" /\ out.ws # "none" => Speed!SpeedIsCapped)
=============================================================================
