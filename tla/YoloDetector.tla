---------------------------- MODULE YoloDetector ----------------------------
(***************************************************************************)
(* The one detector of a process, vision/yolo_detector.py: detect_bytes as *)
(* several threads run it.  A call returns the cached result while that is *)
(* fresh, the latest result when another thread is predicting, and else    *)
(* its own; whatever it returns it also stores as the latest, with the     *)
(* time stamp it carries.  The state lock covers single reads and writes   *)
(* only.  The model is loaded; a picture stands for what is seen on it.    *)
(***************************************************************************)
EXTENDS Naturals

CONSTANTS
    Callers,        \* the threads that call
    Pictures,
    None,
    UseCache        \* enable_cache

VARIABLES
    lock,           \* who holds _predict_lock
    latest,         \* latest_detections and their time stamp
    clock,          \* the time stamps given out
    horizon,        \* the oldest time stamp that is within min_interval_sec
    call            \* for each thread: where it is, its picture, what it will return

Empty  == [of |-> None, stamp |-> 0]
Idle   == [at |-> "idle", of |-> None, result |-> Empty]
Points == {"idle", "try", "busy", "predict", "post", "write", "done", "error"}

Init ==
    /\ lock = None /\ latest = Empty
    /\ clock = 0 /\ horizon = 1
    /\ call = [c \in Callers |-> Idle]

At(c, where) == call[c].at = where
Go(c, where) == call' = [call EXCEPT ![c].at = where]
Fetch(c, r)  == call' = [call EXCEPT ![c].at = "write", ![c].result = r]

-----------------------------------------------------------------------------
(* _get_cached and the try for the lock.                                   *)

Fresh == UseCache /\ latest.stamp >= horizon

Enter(c, p) ==
    /\ At(c, "idle")
    /\ call' = [call EXCEPT ![c] =
            IF Fresh THEN [at |-> "write", of |-> p, result |-> latest]
            ELSE [at |-> "try", of |-> p, result |-> Empty]]
    /\ UNCHANGED <<lock, latest, clock, horizon>>

TryLock(c) ==
    /\ At(c, "try")
    /\ IF lock = None
       THEN lock' = c /\ Go(c, "predict")
       ELSE Go(c, "busy") /\ UNCHANGED lock
    /\ UNCHANGED <<latest, clock, horizon>>

\* _latest_for_busy.
BusyRead(c) ==
    /\ At(c, "busy") /\ Fetch(c, latest)
    /\ UNCHANGED <<lock, latest, clock, horizon>>

-----------------------------------------------------------------------------
(* The prediction, and the release of the lock however it ends.            *)

Predict(c) ==
    /\ At(c, "predict") /\ Go(c, "post")
    /\ lock' = None
    /\ UNCHANGED <<latest, clock, horizon>>

\* No frame in the bytes: nothing is returned and nothing is stored.
Undecodable(c) ==
    /\ At(c, "predict") /\ Go(c, "done")
    /\ lock' = None
    /\ UNCHANGED <<latest, clock, horizon>>

PredictError(c) ==
    /\ At(c, "predict") /\ Go(c, "error")
    /\ lock' = None
    /\ UNCHANGED <<latest, clock, horizon>>

\* The time stamp is taken before the state lock.
Stamp(c) ==
    /\ At(c, "post") /\ clock' = clock + 1
    /\ Fetch(c, [of |-> call[c].of, stamp |-> clock'])
    /\ UNCHANGED <<lock, latest, horizon>>

\* _update_state, on each of the three ways.
Store(c) ==
    /\ At(c, "write") /\ Go(c, "done")
    /\ latest' = call[c].result
    /\ UNCHANGED <<lock, clock, horizon>>

Leave(c) ==
    /\ call[c].at \in {"done", "error"}
    /\ call' = [call EXCEPT ![c] = Idle]
    /\ UNCHANGED <<lock, latest, clock, horizon>>

\* min_interval_sec goes by for the stamps below h.
Age ==
    /\ \E h \in horizon + 1 .. clock + 1 : horizon' = h
    /\ UNCHANGED <<lock, latest, clock, call>>

Step(c) ==
    \/ TryLock(c) \/ BusyRead(c)
    \/ Predict(c) \/ Undecodable(c) \/ PredictError(c)
    \/ Stamp(c) \/ Store(c)

-----------------------------------------------------------------------------

Results == [of : Pictures \cup {None}, stamp : 0 .. clock]

DetectorTypeOK ==
    /\ lock \in Callers \cup {None}
    /\ clock \in Nat /\ horizon \in 1 .. clock + 1
    /\ latest \in Results
    /\ call \in [Callers -> [at : Points, of : Pictures \cup {None}, result : Results]]
=============================================================================
