---------------------------- MODULE BridgeState -----------------------------
(***************************************************************************)
(* The state side of bridge_node.py: the thread of /info stores the new    *)
(* state under _lock and publishes it after; a timer of a reentrant group  *)
(* copies the latest state under the lock and publishes the copy after.    *)
(* Between lock and publication the others overtake.  The control word of  *)
(* the episode goes out with the answer to /info.                          *)
(***************************************************************************)
EXTENDS Naturals, Sequences

CONSTANT MaxInfo    \* bound: /info calls

VARIABLES
    info, stored,   \* the thread of /info: idle, called, stored, published; _latest["player_state"]
    copies,         \* what the timer callbacks that are running hold
    topic,          \* /tank/player/state: the state it shows
    pending,        \* _pending_episode_control: the number of the request, 0 for none
    asked, told     \* requests so far (at most 2); the set of those told to the simulator, in order

state == <<info, stored, copies, topic, pending, asked, told>>

StateInit == info = "idle" /\ stored = 0 /\ copies = {} /\ topic = 0 /\ pending = 0 /\ asked = 0 /\ told = <<>>

\* handle_info: the LiDAR cloud and the states are made before the lock.
Info ==
    /\ info = "idle" /\ stored < MaxInfo /\ info' = "called"
    /\ UNCHANGED <<stored, copies, topic, pending, asked, told>>

\* Its block under the lock.
StoreInfo ==
    /\ info = "called" /\ info' = "stored" /\ stored' = stored + 1
    /\ UNCHANGED <<copies, topic, pending, asked, told>>

\* Its publications.
PublishInfo ==
    /\ info = "stored" /\ info' = "published" /\ topic' = stored
    /\ UNCHANGED <<stored, copies, pending, asked, told>>

\* take_episode_control hands the waiting word out and forgets it.
TakeControl == pending' = 0

\* route_info's answer: take_episode_control.
AnswerInfo ==
    /\ info = "published" /\ info' = "idle"
    /\ told' = IF pending = 0 THEN told ELSE Append(told, pending)
    /\ TakeControl
    /\ UNCHANGED <<stored, copies, topic, asked>>

\* on_episode_control, with TANK_EPISODE_CONTROL on: a newer word replaces one that waits.
OnEpisodeControl ==
    /\ asked < 2 /\ asked' = asked + 1 /\ pending' = asked'
    /\ UNCHANGED <<info, stored, copies, topic, told>>

TakeFirst ==
    /\ stored > 0 /\ copies' = copies \cup {1} /\ copies' # copies
    /\ UNCHANGED <<info, stored, topic, pending, asked, told>>

\* publish_latest_state: the copy.
TakeSnapshot ==
    /\ stored > 0 /\ copies' = copies \cup {stored} /\ copies' # copies
    /\ UNCHANGED <<info, stored, topic, pending, asked, told>>

\* publish_latest_state: its publication.
PublishSnapshot(s) ==
    /\ s \in copies /\ copies' = copies \ {s} /\ topic' = s
    /\ UNCHANGED <<info, stored, pending, asked, told>>

StateStep ==
    \/ Info \/ StoreInfo \/ PublishInfo \/ AnswerInfo \/ OnEpisodeControl \/ TakeSnapshot
    \/ \E s \in copies : PublishSnapshot(s)

\* What the threads do once they are called, and the timer that goes on.
StateWork == StoreInfo \/ PublishInfo \/ TakeSnapshot \/ \E s \in copies : PublishSnapshot(s)

-----------------------------------------------------------------------------
StateTypeOK ==
    /\ info \in {"idle", "called", "stored", "published"} /\ {stored, topic} \subseteq 0 .. MaxInfo
    /\ copies \subseteq 1 .. MaxInfo /\ {pending, asked} \subseteq 0 .. 2 /\ told \in Seq(1 .. 2)
    /\ \A i, j \in DOMAIN told : i < j => told[i] < told[j]     \* no word is told twice
=============================================================================
