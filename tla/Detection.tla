----------------------------- MODULE Detection -----------------------------
(***************************************************************************)
(* The detection path of the bridge process: the simulator's frames go     *)
(* through AsyncYolo, and the route /internal/phone_detect calls the same  *)
(* detector for pictures of the phone, on threads of its own.              *)
(***************************************************************************)
EXTENDS Naturals

CONSTANTS
    Workers, PhoneThreads,
    MaxFrames, MaxPhone,        \* bounds of the model: frames of each source
    Phone,                      \* any picture of the phone
    None, UseCache

Callers  == Workers \cup PhoneThreads
Pictures == 1 .. MaxFrames \cup {Phone}

VARIABLES
    lock, latest, clock, horizon, call,
    frameSeq, processed, shown, alive, picked,
    phoneSent       \* pictures the phone has sent

Detector == INSTANCE YoloDetector
Service  == INSTANCE AsyncYolo

detector == <<lock, latest, clock, horizon, call>>
service  == <<frameSeq, processed, shown, alive, picked>>
vars     == <<detector, service, phoneSent>>

Init == Detector!Init /\ Service!Init /\ phoneSent = 0

-----------------------------------------------------------------------------

\* POST /detect: never waits for the detector.
RouteDetect == Service!Enqueue /\ UNCHANGED <<detector, phoneSent>>

RoutePhone(p) ==
    /\ phoneSent < MaxPhone /\ phoneSent' = phoneSent + 1
    /\ Detector!Enter(p, Phone) /\ UNCHANGED service

PhoneAnswered(p) == Detector!Leave(p) /\ UNCHANGED <<service, phoneSent>>

WorkerPick(w) == Service!Pick(w) /\ UNCHANGED <<detector, phoneSent>>

WorkerDetect(w) ==
    /\ picked[w] # None
    /\ Detector!Enter(w, picked[w]) /\ UNCHANGED <<service, phoneSent>>

WorkerDone(w) ==
    /\ Detector!Leave(w)
    /\ IF Detector!At(w, "done") THEN Service!Finish(w, call[w].result.of) ELSE Service!Fail(w)
    /\ UNCHANGED phoneSent

DetectorStep(c) == Detector!Step(c) /\ UNCHANGED <<service, phoneSent>>
Time            == Detector!Age /\ UNCHANGED <<service, phoneSent>>

Worker(w) == WorkerPick(w) \/ WorkerDetect(w) \/ WorkerDone(w)

Next ==
    \/ RouteDetect \/ Time
    \/ \E p \in PhoneThreads : RoutePhone(p) \/ PhoneAnswered(p)
    \/ \E w \in Workers : Worker(w)
    \/ \E c \in Callers : DetectorStep(c)

\* Threads run, and a prediction that is tried again and again works in the end.
Fairness ==
    /\ \A w \in Workers : WF_vars(Worker(w))
    /\ \A c \in Callers :
        WF_vars(DetectorStep(c)) /\ SF_vars(Detector!Predict(c) /\ DetectorStep(c))

Spec == Init /\ [][Next]_vars /\ Fairness

-----------------------------------------------------------------------------
(* Properties.                                                             *)

\* The predict lock is held by a thread that is predicting and by no other: no way
\* out of detect_bytes leaves it behind, or every later call would be busy.
LockIsUsed == \A c \in Callers : lock = c <=> Detector!At(c, "predict")

\* Type invariant, with the use of the lock.
TypeOK ==
    /\ LockIsUsed
    /\ Detector!DetectorTypeOK
    /\ frameSeq \in 0 .. MaxFrames /\ processed \in 0 .. frameSeq
    /\ shown \in Pictures \cup {None}
    /\ alive \subseteq Workers /\ picked \in [Workers -> 1 .. MaxFrames \cup {None}]

\* However frames, predictions and failures fall together, results come in the
\* order of the frames; while the phone is silent the pictures shown do, too.
ResultsInOrder ==
    [][/\ processed' >= processed
       /\ phoneSent = 0 /\ shown # None /\ shown' # None => shown' >= shown]_vars

=============================================================================
