---------------------------- MODULE BridgeServer ----------------------------
(***************************************************************************)
(* The process of the simulator bridge: main starts the ROS node and its   *)
(* executor, then Flask answers each request in a thread of its own, and   *)
(* stop_ros takes the node down while such threads may still run.  Without *)
(* ROS, or after the stop, the routes answer on their own.  A handler      *)
(* stores what arrived under _lock and publishes it after; a timer repeats *)
(* a part of the state.                                                    *)
(***************************************************************************)
EXTENDS Naturals

CONSTANTS
    Kinds,          \* the routes called: "bullet", "destination", "obstacle", "collision", "action"
    Threads,        \* request threads
    MaxCalls        \* requests the simulator sends

VARIABLES
    ros, life,      \* rclpy can be imported; how far main() is
    bridge, node,   \* ros_runtime.bridge is set; the ROS node itself
    spins, fresh,   \* the executor runs; _latest_command is within its TTL
    calls, thread,  \* requests sent so far; each thread's request and its answer
    stored, topic,  \* the newest call of a kind in _latest, and on its own topic
    alias, copy     \* the topics the timer repeats; the timer's copy of _latest

process == <<ros, life, bridge, node, spins>>
shown   == <<topic, alias>>
vars    == <<process, fresh, calls, thread, stored, shown, copy>>

\* What publish_latest_state repeats: the pose of /get_action, the obstacles.
Repeated == Kinds \cap {"action", "obstacle"}
None     == [k \in Repeated |-> 0]
NoCopy   == <<>>
Idle     == [at |-> "idle", kind |-> "none", call |-> 0, answer |-> "none"]
Request(k) == [at |-> "route", kind |-> k, call |-> calls', answer |-> "none"]

ServerInit ==
    /\ ros \in BOOLEAN /\ life = "off" /\ bridge = FALSE /\ node = "none"
    /\ spins = FALSE /\ fresh = FALSE
    /\ calls = 0 /\ thread = [t \in Threads |-> Idle]
    /\ stored = [k \in Kinds |-> 0] /\ topic = stored /\ alias = None /\ copy = NoCopy

-----------------------------------------------------------------------------
(* main(): start_ros, app.run, stop_ros. *)

Stays == UNCHANGED <<ros, fresh, calls, thread, stored, shown, copy>>

InitRos ==
    /\ life = "off" /\ life' = IF ros THEN "init" ELSE "serve"
    /\ UNCHANGED <<bridge, node, spins>> /\ Stays

MakeNode ==
    /\ life = "init" /\ life' = "node" /\ bridge' = TRUE /\ node' = "live"
    /\ UNCHANGED spins /\ Stays

Spin ==
    /\ life = "node" /\ life' = "serve" /\ spins' = TRUE
    /\ UNCHANGED <<bridge, node>> /\ Stays

\* app.run returns, on an interrupt: what its threads do goes on.
EndServe ==
    /\ life = "serve" /\ life' = "ended"
    /\ UNCHANGED <<bridge, node, spins>> /\ Stays

\* executor.shutdown starts no callback any more ...
Halt ==
    /\ life = "ended" /\ life' = "halting" /\ spins' = FALSE
    /\ UNCHANGED <<bridge, node>> /\ Stays

\* As Halted, if the shutdown did not wait for the callbacks that run.
HaltedAtOnce ==
    /\ life = "halting" /\ life' = "halted"
    /\ UNCHANGED <<bridge, node, spins>> /\ Stays

\* ... and waits for the one that runs.
Halted ==
    /\ life = "halting" /\ copy = NoCopy /\ life' = "halted"
    /\ UNCHANGED <<bridge, node, spins>> /\ Stays

DestroyNode ==
    /\ life = "halted" /\ life' = "destroyed"
    /\ node' = IF bridge THEN "destroyed" ELSE node
    /\ UNCHANGED <<bridge, spins>> /\ Stays

\* rclpy.shutdown, and the references are dropped.
Clear ==
    /\ life = "destroyed" /\ life' = "over" /\ bridge' = FALSE
    /\ UNCHANGED <<node, spins>> /\ Stays

-----------------------------------------------------------------------------
(* The callbacks of the node. *)

\* validate_action_command: every key, letters of that axis, weights of 0 to 1, a boolean fire.
Accepted(c) == c.keys = "all" /\ c.letters = "known" /\ c.weights = "in range" /\ c.fire = "bool"

Messages ==
    {[keys |-> k, letters |-> l, weights |-> w, fire |-> f] :
        k \in {"all", "some"}, l \in {"known", "other"}, w \in {"in range", "out"}, f \in {"bool", "other"}}

\* on_control_command: a refused command leaves the one before in force.
Command(c) ==
    /\ spins /\ fresh' = (fresh \/ Accepted(c))
    /\ UNCHANGED <<process, calls, thread, stored, shown, copy>>

Expire ==
    /\ fresh' = FALSE
    /\ UNCHANGED <<process, calls, thread, stored, shown, copy>>

\* publish_latest_state: the copy under the lock ...
TakeCopy ==
    /\ spins /\ copy = NoCopy /\ copy' = [k \in Repeated |-> stored[k]]
    /\ UNCHANGED <<process, fresh, calls, thread, stored, shown>>

\* ... and its publications; what has never been stored is left out.
PublishCopy ==
    /\ copy # NoCopy /\ copy' = NoCopy
    /\ alias' = [k \in Repeated |-> IF copy[k] = 0 THEN alias[k] ELSE copy[k]]
    /\ UNCHANGED <<process, fresh, calls, thread, stored, topic>>

-----------------------------------------------------------------------------
(* The routes. *)

Routed(t, place) == thread[t].at = place
Moves(t, place) == thread' = [thread EXCEPT ![t].at = place]
Answers(t, a) == thread' = [thread EXCEPT ![t].at = "done", ![t].answer = a]

\* The simulator sends requests in its order; a body that is no such object is refused.
Call(t, k) ==
    /\ life = "serve" /\ Routed(t, "idle") /\ calls < MaxCalls /\ calls' = calls + 1
    /\ thread' \in {[thread EXCEPT ![t] = Request(k)],
                    [thread EXCEPT ![t] = [Request(k) EXCEPT !.at = "done", !.answer = "refused"]]}
    /\ UNCHANGED <<process, fresh, stored, shown, copy>>

\* get_bridge(): what the thread goes by from here on.
GetBridge(t) ==
    /\ Routed(t, "route")
    /\ Moves(t, IF ~bridge THEN "alone" ELSE IF thread[t].kind = "action" THEN "select" ELSE "store")
    /\ UNCHANGED <<process, fresh, calls, stored, shown, copy>>

\* fallback_command, with AUTO_FALLBACK "stop".
Fallback == "stop"

\* Without a bridge: the stop command, or an OK for what nobody hears of.
Alone(t) ==
    /\ Routed(t, "alone") /\ Answers(t, IF thread[t].kind = "action" THEN Fallback ELSE "ok")
    /\ UNCHANGED <<process, fresh, calls, stored, shown, copy>>

\* select_action_command, under the lock.
Select(t) ==
    /\ Routed(t, "select")
    /\ thread' = [thread EXCEPT ![t].at = "store", ![t].answer = IF fresh THEN "command" ELSE Fallback]
    /\ UNCHANGED <<process, fresh, calls, stored, shown, copy>>

\* The handlers' block under the lock.
Store(t) ==
    /\ Routed(t, "store") /\ Moves(t, "publish")
    /\ stored' = [stored EXCEPT ![thread[t].kind] = thread[t].call]
    /\ UNCHANGED <<process, fresh, calls, shown, copy>>

\* Their publications; on a node that is gone they raise, and the request fails.
PublishCall(t) ==
    /\ Routed(t, "publish")
    /\ LET k == thread[t].kind  n == thread[t].call
       IN  IF node = "live"
              THEN /\ topic' = [topic EXCEPT ![k] = n]
                   /\ alias' = IF k \in Repeated THEN [alias EXCEPT ![k] = n] ELSE alias
                   /\ Answers(t, IF k = "action" THEN thread[t].answer ELSE "ok")
              ELSE UNCHANGED shown /\ Answers(t, "error")
    /\ UNCHANGED <<process, fresh, calls, stored, copy>>

Done(t) ==
    /\ Routed(t, "done") /\ thread' = [thread EXCEPT ![t] = Idle]
    /\ UNCHANGED <<process, fresh, calls, stored, shown, copy>>

Handle(t) == GetBridge(t) \/ Alone(t) \/ Select(t) \/ Store(t) \/ PublishCall(t) \/ Done(t)
Main == InitRos \/ MakeNode \/ Spin \/ EndServe \/ Halt \/ Halted \/ DestroyNode \/ Clear

ServerNext ==
    \/ Main \/ (\E c \in Messages : Command(c)) \/ Expire \/ TakeCopy \/ PublishCopy
    \/ \E t \in Threads : Handle(t) \/ \E k \in Kinds : Call(t, k)

\* Flask's threads and the executor are run by the system.
ServerFairness ==
    /\ WF_vars(TakeCopy) /\ WF_vars(PublishCopy)
    /\ \A t \in Threads : WF_vars(Handle(t))

ServerSpec == ServerInit /\ [][ServerNext]_vars /\ ServerFairness

-----------------------------------------------------------------------------
\* Type invariant.
ServerTypeOK ==
    /\ life \in {"off", "init", "node", "serve", "ended", "halting", "halted", "destroyed", "over"}
    /\ node \in {"none", "live", "destroyed"} /\ {bridge, spins, fresh} \subseteq BOOLEAN
    /\ \A t \in Threads : /\ thread[t].kind \in Kinds \cup {"none"} /\ thread[t].call <= calls
                          /\ thread[t].answer \in {"none", "refused", "stop", "command", "ok", "error"}
    /\ \A k \in Kinds : {stored[k], topic[k]} \subseteq 0 .. calls

\* stop_ros takes the node down only when no callback of it runs: a publication of the timer
\* never meets a destroyed node, whenever the interrupt comes.
CallbacksMeetNode == copy # NoCopy => node = "live"

=============================================================================
