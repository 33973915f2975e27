----------------------------- MODULE AsyncYolo -----------------------------
(***************************************************************************)
(* ros_bridge/async_yolo.py: /detect leaves its frame and takes the last   *)
(* finished result; a worker thread, started with the first frame, has the *)
(* newest frame examined whenever there is one it has not processed.  A    *)
(* frame is its sequence number.  The counters shown in the metadata are   *)
(* left out.                                                               *)
(***************************************************************************)
EXTENDS Naturals

CONSTANTS
    Workers,        \* the threads start() may create
    MaxFrames,      \* bound of the model: frames the simulator sends
    None

VARIABLES
    frameSeq,       \* _latest_frame_seq; its image is _latest_image_bytes
    processed,      \* _processed_frame_seq
    shown,          \* _latest_detections: what /detect answers and publishes
    alive,          \* the threads running _worker_loop
    picked          \* seq_to_process of each of them; None while it waits

Init ==
    /\ frameSeq = 0 /\ processed = 0 /\ shown = None
    /\ alive = {} /\ picked = [w \in Workers |-> None]

Start ==
    IF alive # {} THEN UNCHANGED alive
    ELSE \E w \in Workers : alive' = {w}

Enqueue ==
    /\ frameSeq < MaxFrames
    /\ Start /\ frameSeq' = frameSeq + 1
    /\ UNCHANGED <<processed, shown, picked>>

\* The frame is chosen before the worker sleeps off min_interval_sec.
Pick(w) ==
    /\ w \in alive /\ picked[w] = None
    /\ frameSeq > processed
    /\ picked' = [picked EXCEPT ![w] = frameSeq]
    /\ UNCHANGED <<frameSeq, processed, shown, alive>>

Finish(w, r) ==
    /\ picked[w] # None
    /\ processed' = picked[w] /\ shown' = r
    /\ picked' = [picked EXCEPT ![w] = None]
    /\ UNCHANGED <<frameSeq, alive>>

\* (mutant) an exception ends the thread.
FailDead(w) ==
    /\ picked[w] # None
    /\ picked' = [picked EXCEPT ![w] = None]
    /\ alive' = {} /\ UNCHANGED <<frameSeq, processed, shown>>

\* Nothing is marked as processed: the newest frame is tried again.
Fail(w) ==
    /\ picked[w] # None
    /\ picked' = [picked EXCEPT ![w] = None]
    /\ UNCHANGED <<frameSeq, processed, shown, alive>>
=============================================================================
