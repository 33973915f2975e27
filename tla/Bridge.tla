------------------------------- MODULE Bridge -------------------------------
(***************************************************************************)
(* The simulator bridge with those who use it.  The emergency brake sends  *)
(* its overrides to the bridge, which answers the simulator with them      *)
(* (layer "stop").  Side by side with that, since they share no state at   *)
(* this level: the process with its request threads ("server"), the frames *)
(* that go through the detector ("camera"), the state topic ("state"), and *)
(* the phone's gateway ("gate").                                           *)
(***************************************************************************)
EXTENDS PhoneBrake, ApiBridge

CONSTANTS
    Kinds, Threads, MaxCalls,                                   \* BridgeServer
    Workers, PhoneThreads, MaxFrames, MaxPhone, Phone, NoPicture    \* Detection

\* The two sources have threads of their own, and NoPicture is nobody who could hold a lock.
ASSUME CameraAssumption ==
    /\ MaxFrames \in Nat
    /\ Workers \cap PhoneThreads = {} /\ NoPicture \notin Workers \cup PhoneThreads

VARIABLES
    layer,      \* the part that runs
    info, stored, copies, topic, pending, asked, told,
    switch, request, inject,
    ros, life, bridge, node, spins, fresh, calls, thread, newest, published, alias, copy,
    lock, latest, clock, horizon, call, frameSeq, processed, displayed, alive, picked, phoneSent

State  == INSTANCE BridgeState WITH MaxInfo <- 3
Gate   == INSTANCE PhoneGateway WITH Slots <- {1, 2, 3}
Server == INSTANCE BridgeServer WITH stored <- newest, topic <- published
Camera == INSTANCE Detection WITH None <- NoPicture, UseCache <- TRUE, shown <- displayed

state  == <<info, stored, copies, topic, pending, asked, told>>
gate   == <<switch, request, inject>>
server == <<ros, life, bridge, node, spins, fresh, calls, thread, newest, published, alias, copy>>
camera == <<lock, latest, clock, horizon, call, frameSeq, processed, displayed, alive, picked, phoneSent>>
stop   == <<brake, commands>>
all    == <<layer, stop, state, gate, server, camera>>

StopRests   == UNCHANGED <<layer, state, gate, server, camera>>
StateRests  == UNCHANGED <<layer, stop, gate, server, camera>>
GateRests   == UNCHANGED <<layer, stop, state, server, camera>>
ServerRests == UNCHANGED <<layer, stop, state, gate, camera>>
CameraRests == UNCHANGED <<layer, stop, state, gate, server>>

ProcessInit ==
    /\ layer \in {"stop", "state", "gate", "server", "camera"}
    /\ layer # "server" => ros = FALSE
    /\ BrakeInit /\ BridgeInit /\ State!StateInit /\ Gate!GatewayInit /\ Server!ServerInit /\ Camera!Init

\* An override message of the brake reaches the bridge.
DeliverOverride ==
    /\ overrides > 0 /\ overrides' = overrides - 1
    /\ OnOneShotOverride("stop")
    /\ UNCHANGED <<active, age, released, signalLeft, startRv, lastRv, changed, wanting, due, plan>>

Clock == BrakeClock /\ BridgeClock

StopStep ==
    \/ BrakeStep /\ UNCHANGED commands
    \/ BridgeStep /\ UNCHANGED brake
    \/ DeliverOverride \/ Clock

ProcessNext ==
    \/ layer = "stop" /\ StopStep /\ StopRests
    \/ layer = "state" /\ State!StateStep /\ StateRests
    \/ layer = "gate" /\ Gate!GatewayNext /\ GateRests
    \/ layer = "server" /\ Server!ServerNext /\ ServerRests
    \/ layer = "camera" /\ Camera!Next /\ CameraRests

\* The executor, Flask, timers and threads run what is there to run, the clock goes on, and a
\* detector that is asked again and again does not fail for ever.
Fairness ==
    /\ WF_all(layer = "stop" /\ due /\ BrakeTimer /\ UNCHANGED commands /\ StopRests)
    /\ WF_all(layer = "stop" /\ DeliverOverride /\ StopRests)
    /\ WF_all(layer = "stop" /\ Clock /\ StopRests)
    /\ WF_all(layer = "stop" /\ (\E w \in 0 .. 1 : SelectAction(w)) /\ UNCHANGED brake /\ StopRests)
    /\ WF_all(layer = "state" /\ State!StateWork /\ StateRests)
    /\ WF_all(layer = "gate" /\ Gate!Shoot /\ GateRests)
    /\ \A s \in 1 .. 3 : WF_all(layer = "gate" /\ Gate!Work(s) /\ GateRests)
    /\ WF_all(layer = "server" /\ Server!TakeCopy /\ ServerRests)
    /\ WF_all(layer = "server" /\ Server!PublishCopy /\ ServerRests)
    /\ \A t \in Threads : WF_all(layer = "server" /\ Server!Handle(t) /\ ServerRests)
    /\ \A w \in Workers : WF_all(layer = "camera" /\ Camera!Worker(w) /\ CameraRests)
    /\ \A c \in Camera!Callers : WF_all(layer = "camera" /\ Camera!DetectorStep(c) /\ CameraRests)
    /\ SF_all(\E w \in Workers :
                 layer = "camera" /\ Camera!Detector!Predict(w) /\ Camera!DetectorStep(w) /\ CameraRests)

ProcessSpec == ProcessInit /\ [][ProcessNext]_all /\ Fairness

-----------------------------------------------------------------------------
\* A STOP that the brake sends is answered to the simulator, though the controller's commands
\* go on and the answers take turns with them.
StopGetsThrough == (layer = "stop" /\ overrides > 0) ~> reply.source = "override"

\* The phone cannot freeze the tank: an emergency ends whatever the phone and the planner do, and
\* after the last one the simulator is answered with the controller's commands again.  It ends
\* early only when the phone says so or a newer route is known (ReleaseEarned).
BrakeLetsGo ==
    /\ [](BrakeTypeOK /\ BridgeTypeOK /\ BrakeBounded /\ ChangeIsReal) /\ ReleaseEarned
    /\ []<>(layer = "stop" => ~active)
    /\ <>[](layer = "stop" /\ ~active) => <>[](reply.source # "override")

\* A reader of the state topic ends up with the newest state, whatever copy overtook it, and each
\* word of episode control is told to the simulator once and in order.  While the executor runs,
\* whatever else the timer repeats comes to be what is stored, although the threads of two
\* requests publish in another order than they stored (BridgeServer).
StateTopicHeals ==
    /\ []State!StateTypeOK /\ []<>(layer = "state" => topic = stored \/ info \in {"called", "stored"})
    /\ <>[](layer = "server" /\ spins) => \A k \in Server!Repeated : <>[](alias[k] = newest[k])

\* A frame that was made before the user switched may be published after the command that told
\* of it and undo it for a while; but once the user leaves the switch alone, the node ends up
\* with it and stays there (PhoneGateway).
SwitchHeals ==
    /\ <>[](layer = "gate" /\ switch) => <>[]inject
    /\ <>[](layer = "gate" /\ ~switch) => <>[]~inject

\* Neither the node nor the detector's lock is misused: stop_ros waits for the timer, and no
\* thread leaves the lock behind (CallbacksMeetNode, LockIsUsed, with the types of the parts).
BridgeSafe == Server!ServerTypeOK /\ Server!CallbacksMeetNode /\ Camera!TypeOK

\* Frames are answered in order; and the last one is not forgotten when the stream stops: it is
\* processed although frames before it are dropped and predictions fail (Detection).
FramesAnswered ==
    /\ Camera!ResultsInOrder
    /\ <>[](layer = "camera" => processed = frameSeq)
=============================================================================
