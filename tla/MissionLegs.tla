---------------------------- MODULE MissionLegs ----------------------------
(***************************************************************************)
(* What the fire mission promises to the rest of the stack, without guns,  *)
(* shells or timers: the engagements are finished one after the other, the *)
(* tank turns for home when all are finished or when it is told to, and    *)
(* home is final.                                                          *)
(***************************************************************************)
EXTENDS Integers

CONSTANTS NStages, ReturnEnabled

VARIABLES
    done,       \* engagements finished
    leg         \* "engage", "return", "home", or "over" without a return leg

legs == <<done, leg>>

Init == done = 0 /\ leg = "engage"

\* The engagement under way is finished; after the last one the tank leaves.
Finish ==
    /\ leg = "engage" /\ done < NStages
    /\ done' = done + 1
    /\ leg' = IF done' < NStages THEN "engage"
              ELSE IF ReturnEnabled THEN "return" ELSE "over"

\* An order to return, from any leg but home; the tank may be there already.
Recall ==
    /\ leg # "home"
    /\ leg' \in {"return", "home"}
    /\ UNCHANGED done

Arrive ==
    /\ leg = "return"
    /\ leg' = "home"
    /\ UNCHANGED done

Next == Finish \/ Recall \/ Arrive

Spec == Init /\ [][Next]_legs
=============================================================================
