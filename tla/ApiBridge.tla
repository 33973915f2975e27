----------------------------- MODULE ApiBridge ------------------------------
(***************************************************************************)
(* The command side of bridge_node.py: ROS callbacks of a reentrant group, *)
(* run by several executor threads, store commands and overrides; Flask    *)
(* threads answer the simulator's /get_action with one of them.  They meet *)
(* in _lock: every action below is one block under it.                     *)
(***************************************************************************)
EXTENDS Naturals

CONSTANT CmdTtl     \* COMMAND_TTL_SEC, in clock units

ASSUME BridgeAssumption == CmdTtl \in Nat

VARIABLES
    inHand,         \* commands taken from the topic, not yet stored: any of them may be next
    cmd, cmdAge,    \* _latest_command, now - _latest_command_stamp
    override,       \* _one_shot_override
    reply           \* what /get_action answered last: [source, command]

commands == <<inHand, cmd, cmdAge, override, reply>>

Wishes  == {"drive", "stop"}
NoReply == [source |-> "none", command |-> "none"]

BridgeInit == inHand = {} /\ cmd = "none" /\ cmdAge = 0 /\ override = "none" /\ reply = NoReply

\* The controller's tick publishes, an executor thread takes the message.
Publish(c) ==
    /\ inHand' = inHand \cup {c}
    /\ UNCHANGED <<cmd, cmdAge, override, reply>>

\* on_control_command, its block under the lock.
OnControlCommand(c) ==
    /\ c \in inHand /\ inHand' = inHand \ {c}
    /\ cmd' = c /\ cmdAge' = 0
    /\ UNCHANGED <<override, reply>>

\* on_one_shot_override: a newer one replaces one that waits.
OnOneShotOverride(c) ==
    /\ override' = c
    /\ UNCHANGED <<inHand, cmd, cmdAge, reply>>

\* age = now - stamp <= TTL, where now was read before the wait for the lock.
Fresh(waited) == cmd # "none" /\ cmdAge <= CmdTtl + waited

Consumed(answer) == override' = IF answer.source = "override" THEN "none" ELSE override

Fallback == [source |-> "fallback", command |-> "stop"]

CommandFirst(waited) ==
    IF Fresh(waited) THEN [source |-> "command", command |-> cmd]
    ELSE IF override # "none" THEN [source |-> "override", command |-> override] ELSE Fallback

\* select_action_command, auto mode, with the fallback "stop".
Answer(waited) ==
    IF override # "none" THEN [source |-> "override", command |-> override]
    ELSE IF Fresh(waited) THEN [source |-> "command", command |-> cmd] ELSE Fallback

\* handle_get_action, by a thread that read the clock and then waited for the lock, less than a
\* clock unit.
SelectAction(waited) ==
    /\ reply' = Answer(waited)
    /\ Consumed(reply')
    /\ UNCHANGED <<inHand, cmd, cmdAge>>

BridgeClock ==
    /\ cmdAge' = IF cmd = "none" \/ cmdAge > CmdTtl + 1 THEN cmdAge ELSE cmdAge + 1
    /\ UNCHANGED <<inHand, cmd, override, reply>>

BridgeStep ==
    \/ \E c \in Wishes : Publish(c) \/ OnControlCommand(c)
    \/ \E waited \in 0 .. 1 : SelectAction(waited)

-----------------------------------------------------------------------------
BridgeTypeOK ==
    /\ inHand \subseteq Wishes
    /\ cmd \in Wishes \cup {"none"} /\ cmdAge \in 0 .. CmdTtl + 2
    /\ override \in {"none", "stop"}
    /\ reply \in [source : {"none", "override", "command", "fallback"}, command : Wishes \cup {"none"}]
=============================================================================
