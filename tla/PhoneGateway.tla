---------------------------- MODULE PhoneGateway ----------------------------
(***************************************************************************)
(* phone_yolo_gateway_node.py: every request of the phone has a thread of  *)
(* its own, and a command overtakes the frames that are still being        *)
(* detected.  Each payload carries the switch of the app as it was when    *)
(* the request was made, and phone_virtual_obstacle_node.py takes the      *)
(* switch of the last payload.  A refused request changes nothing; what a  *)
(* frame shows is left to PhoneTracks.                                     *)
(***************************************************************************)
EXTENDS Integers

CONSTANT Slots      \* server threads, that is requests at a time

VARIABLES
    switch,         \* whether the user of the app wants objects injected
    request,        \* of each thread
    inject          \* inject_enabled_state of the node

gateway == <<switch, request, inject>>

Idle == [stage |-> "idle", kind |-> "none", switch |-> FALSE]
Free == {s \in Slots : request[s] = Idle}

GatewayInit ==
    /\ switch = TRUE /\ request = [s \in Slots |-> Idle] /\ inject = TRUE

\* The app: a command tells a new choice, and every frame tells the choice that holds.
Command ==
    /\ switch' = ~switch /\ UNCHANGED inject
    /\ \E s \in Free :
         request' = [request EXCEPT ![s] = [stage |-> "detected", kind |-> "command", switch |-> ~switch]]
Shoot ==
    /\ \E s \in Free :
         request' = [request EXCEPT ![s] = [stage |-> "received", kind |-> "frame", switch |-> switch]]
    /\ UNCHANGED <<switch, inject>>

\* detect_bytes: one thread at a time predicts; another one, or one that comes within the
\* interval of the detector, gets the last result for its own and is done at once.
Predict(s) ==
    /\ request[s].stage = "received" /\ \A t \in Slots : request[t].stage # "predicting"
    /\ request' = [request EXCEPT ![s].stage = "predicting"]
    /\ UNCHANGED <<switch, inject>>
Predicted(s) ==
    /\ request[s].stage = "predicting" /\ request' = [request EXCEPT ![s].stage = "detected"]
    /\ UNCHANGED <<switch, inject>>
Cached(s) ==
    /\ request[s].stage = "received" /\ request' = [request EXCEPT ![s].stage = "detected"]
    /\ UNCHANGED <<switch, inject>>

TakeCommands(r) == inject' = (r.kind = "frame" \/ r.switch)
\* detections_cb: the metadata of a frame, or the command, has the switch.
TakeSwitch(r) == inject' = r.switch

\* The payload is published and the node has it.
Publish(s) ==
    /\ request[s].stage = "detected" /\ TakeSwitch(request[s])
    /\ request' = [request EXCEPT ![s] = Idle] /\ UNCHANGED switch

Work(s) == Predict(s) \/ Predicted(s) \/ Cached(s) \/ Publish(s)
GatewayNext == Command \/ Shoot \/ \E s \in Slots : Work(s)

\* Flask runs its threads and the app goes on to send frames.
GatewaySpec ==
    GatewayInit /\ [][GatewayNext]_gateway /\ WF_gateway(Shoot) /\ \A s \in Slots : WF_gateway(Work(s))

-----------------------------------------------------------------------------
=============================================================================
