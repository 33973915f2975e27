--------------------------- MODULE Bridge_proofs ----------------------------
(***************************************************************************)
(* Theorems of Bridge: any routes and threads of the server, any workers,  *)
(* phone threads and frames of the camera, any times of the brake.  The    *)
(* parts share no state, so each has an invariant of its own, kept by its  *)
(* own steps and left alone by everybody else's.                           *)
(***************************************************************************)
EXTENDS Bridge, TLAPS

-----------------------------------------------------------------------------
(* The process: the node lives from the first spin to the last publication *)
(* of the timer, because stop_ros waits for the copy to be published.      *)

Lives   == {"off", "init", "node", "serve", "ended", "halting", "halted", "destroyed", "over"}
Places  == {"idle", "route", "alone", "select", "store", "publish", "done"}
Answers == {"none", "refused", "stop", "command", "ok", "error"}
Handled == [at : Places, kind : Kinds \cup {"none"}, call : Nat, answer : Answers]

ProcessInv ==
    /\ life \in Lives /\ node \in {"none", "live", "destroyed"}
    /\ bridge \in BOOLEAN /\ spins \in BOOLEAN
    /\ life = "node" => node = "live"
    /\ spins => node = "live" /\ life \in {"serve", "ended"}
    /\ copy # Server!NoCopy => node = "live" /\ life \in {"serve", "ended", "halting"}

\* No thread and no topic is ahead of the requests that were sent.
RequestInv ==
    /\ calls \in Nat /\ fresh \in BOOLEAN
    /\ thread \in [Threads -> Handled] /\ \A t \in Threads : thread[t].call <= calls
    /\ newest \in [Kinds -> Nat] /\ \A k \in Kinds : newest[k] <= calls
    /\ published \in [Kinds -> Nat] /\ \A k \in Kinds : published[k] <= calls

LEMMA ServerStarts == Server!ServerInit => ProcessInv /\ RequestInv
  <1> SUFFICES ASSUME Server!ServerInit PROVE ProcessInv /\ RequestInv
    OBVIOUS
  <1>1. ProcessInv
    BY DEF Server!ServerInit, ProcessInv, Lives
  <1>2. Server!Idle \in Handled /\ Server!Idle.call = 0
    BY DEF Server!Idle, Handled, Places, Answers
  <1>3. /\ calls = 0 /\ fresh = FALSE /\ thread = [t \in Threads |-> Server!Idle]
        /\ newest = [k \in Kinds |-> 0] /\ published = [k \in Kinds |-> 0]
    BY DEF Server!ServerInit
  <1>4. thread \in [Threads -> Handled] /\ \A t \in Threads : thread[t].call <= calls
    BY <1>2, <1>3
  <1>5. newest \in [Kinds -> Nat] /\ \A k \in Kinds : newest[k] <= calls
    BY <1>3
  <1>6. published \in [Kinds -> Nat] /\ \A k \in Kinds : published[k] <= calls
    BY <1>3
  <1>7. calls \in Nat /\ fresh \in BOOLEAN
    BY <1>3
  <1> QED BY <1>1, <1>4, <1>5, <1>6, <1>7 DEF RequestInv

LEMMA ProcessStep == ProcessInv /\ Server!ServerNext => ProcessInv'
  <1> SUFFICES ASSUME ProcessInv, Server!ServerNext PROVE ProcessInv'
    OBVIOUS
  <1> USE DEF ProcessInv
  <1>1. CASE Server!Main
    <2>1. CASE Server!InitRos
      BY <2>1 DEF Server!InitRos, Server!Stays, Lives
    <2>2. CASE Server!MakeNode
      BY <2>2 DEF Server!MakeNode, Server!Stays, Lives
    <2>3. CASE Server!Spin
      BY <2>3 DEF Server!Spin, Server!Stays, Lives
    <2>4. CASE Server!EndServe
      BY <2>4 DEF Server!EndServe, Server!Stays, Lives
    <2>5. CASE Server!Halt
      BY <2>5 DEF Server!Halt, Server!Stays, Lives
    <2>6. CASE Server!Halted
      BY <2>6 DEF Server!Halted, Server!Stays, Lives
    <2>7. CASE Server!DestroyNode
      BY <2>7 DEF Server!DestroyNode, Server!Stays, Lives
    <2>8. CASE Server!Clear
      BY <2>8 DEF Server!Clear, Server!Stays, Lives
    <2> QED BY <1>1, <2>1, <2>2, <2>3, <2>4, <2>5, <2>6, <2>7, <2>8 DEF Server!Main
  <1>2. CASE Server!TakeCopy
    BY <1>2 DEF Server!TakeCopy, Server!process
  <1>3. CASE Server!PublishCopy
    BY <1>3 DEF Server!PublishCopy, Server!process
  <1>4. CASE UNCHANGED <<Server!process, copy>>
    BY <1>4 DEF Server!process
  <1>5. ASSUME NEW c \in Server!Messages, Server!Command(c) PROVE UNCHANGED <<Server!process, copy>>
    BY <1>5 DEF Server!Command
  <1>6. CASE Server!Expire
    BY <1>4, <1>6 DEF Server!Expire
  <1>7. ASSUME NEW t \in Threads, Server!Handle(t) PROVE UNCHANGED <<Server!process, copy>>
    BY <1>7 DEF Server!Handle, Server!GetBridge, Server!Alone, Server!Select, Server!Store,
       Server!PublishCall, Server!Done
  <1>8. ASSUME NEW t \in Threads, NEW k \in Kinds, Server!Call(t, k)
        PROVE  UNCHANGED <<Server!process, copy>>
    BY <1>8 DEF Server!Call
  <1> QED BY <1>1, <1>2, <1>3, <1>4, <1>5, <1>6, <1>7, <1>8 DEF Server!ServerNext

\* A thread that goes on, with a request that has been sent.
LEMMA ThreadKeepsType ==
  ASSUME RequestInv, NEW t \in Threads, NEW r \in Handled, r.call <= calls',
         calls' \in Nat, calls <= calls', thread' = [thread EXCEPT ![t] = r]
  PROVE  thread' \in [Threads -> Handled] /\ \A u \in Threads : thread'[u].call <= calls'
  <1>1. \A u \in Threads : thread[u].call \in Nat /\ thread[u].call <= calls
    BY DEF RequestInv, Handled
  <1> QED BY <1>1 DEF RequestInv

LEMMA RequestStep == RequestInv /\ Server!ServerNext => RequestInv'
  <1> SUFFICES ASSUME RequestInv, Server!ServerNext PROVE RequestInv'
    OBVIOUS
  <1>1. CASE UNCHANGED <<calls, fresh, thread, newest, published>>
    BY <1>1 DEF RequestInv
  <1>2. CASE Server!Main \/ Server!TakeCopy \/ Server!PublishCopy
    BY <1>1, <1>2 DEF Server!Main, Server!InitRos, Server!MakeNode, Server!Spin, Server!EndServe,
       Server!Halt, Server!Halted, Server!DestroyNode, Server!Clear, Server!Stays,
       Server!TakeCopy, Server!PublishCopy, Server!shown
  <1>3. ASSUME fresh' \in BOOLEAN, UNCHANGED <<calls, thread, newest, published>> PROVE RequestInv'
    BY <1>3 DEF RequestInv
  <1>4. ASSUME NEW c \in Server!Messages, Server!Command(c) PROVE RequestInv'
    BY <1>3, <1>4 DEF Server!Command, Server!shown
  <1>5. CASE Server!Expire
    BY <1>3, <1>5 DEF Server!Expire, Server!shown
  <1>6. ASSUME NEW t \in Threads, NEW k \in Kinds, Server!Call(t, k) PROVE RequestInv'
    <2>1. calls \in Nat /\ calls' = calls + 1 /\ UNCHANGED <<fresh, newest, published>>
      BY <1>6 DEF Server!Call, RequestInv, Server!shown
    <2> DEFINE q == Server!Request(k)
               refused == [q EXCEPT !.at = "done", !.answer = "refused"]
    <2>2. q \in Handled /\ q.call = calls'
      <3>1. calls' \in Nat
        BY <2>1
      <3> QED BY <3>1 DEF Server!Request, Handled, Places, Answers
    <2>3. refused \in Handled /\ refused.call = calls'
      <3> HIDE DEF q
      <3> QED BY <2>2 DEF Handled, Places, Answers
    <2>4. thread' = [thread EXCEPT ![t] = q] \/ thread' = [thread EXCEPT ![t] = refused]
      BY <1>6 DEF Server!Call
    <2> HIDE DEF q, refused
    <2>5. thread' \in [Threads -> Handled] /\ \A u \in Threads : thread'[u].call <= calls'
      BY <2>1, <2>2, <2>3, <2>4, ThreadKeepsType
    <2>6. \A j \in Kinds : newest'[j] <= calls' /\ published'[j] <= calls'
      BY <2>1 DEF RequestInv
    <2> QED BY <2>1, <2>5, <2>6 DEF RequestInv
  <1>7. ASSUME NEW t \in Threads, Server!Handle(t) PROVE RequestInv'
    <2>1. UNCHANGED <<calls, fresh>>
      BY <1>7 DEF Server!Handle, Server!GetBridge, Server!Alone, Server!Select, Server!Store,
         Server!PublishCall, Server!Done
    <2> DEFINE r == thread[t]
    <2>2. r \in Handled /\ r.call \in Nat /\ r.call <= calls /\ calls \in Nat
      BY DEF RequestInv, Handled
    <2>3. \E s \in Handled : s.call <= calls /\ thread' = [thread EXCEPT ![t] = s]
      <3>1. ASSUME NEW a \in Places, NEW b \in Answers,
                   thread' = [thread EXCEPT ![t] = [r EXCEPT !.at = a, !.answer = b]]
            PROVE  \E s \in Handled : s.call <= calls /\ thread' = [thread EXCEPT ![t] = s]
        <4>1. [r EXCEPT !.at = a, !.answer = b] \in Handled
          BY <2>2 DEF Handled
        <4>2. [r EXCEPT !.at = a, !.answer = b].call = r.call
          BY <2>2 DEF Handled
        <4> QED BY <2>2, <3>1, <4>1, <4>2
      <3>2. ASSUME NEW a \in Places, thread' = [thread EXCEPT ![t].at = a]
            PROVE  \E s \in Handled : s.call <= calls /\ thread' = [thread EXCEPT ![t] = s]
        <4>1. [r EXCEPT !.at = a] = [r EXCEPT !.at = a, !.answer = r.answer]
          BY <2>2 DEF Handled
        <4>2. r.answer \in Answers
          BY <2>2 DEF Handled
        <4> QED BY <3>1, <3>2, <4>1, <4>2
      <3>3. CASE Server!GetBridge(t) \/ Server!Store(t)
        BY <3>2, <3>3 DEF Server!GetBridge, Server!Store, Server!Moves, Places
      <3>4. CASE Server!Alone(t)
        BY <3>1, <3>4 DEF Server!Alone, Server!Answers, Server!Fallback, Places, Answers
      <3>5. CASE Server!Select(t)
        BY <3>1, <3>5 DEF Server!Select, Server!Fallback, Places, Answers
      <3>6. CASE Server!PublishCall(t)
        <4>1. r.answer \in Answers /\ "ok" \in Answers /\ "error" \in Answers /\ "done" \in Places
          BY <2>2 DEF Handled, Answers, Places
        <4>2. \E b \in Answers : Server!Answers(t, b)
          BY <3>6, <4>1 DEF Server!PublishCall
        <4> QED BY <3>1, <4>1, <4>2 DEF Server!Answers
      <3>7. CASE Server!Done(t)
        <4>1. Server!Idle \in Handled /\ Server!Idle.call = 0
          BY DEF Server!Idle, Handled, Places, Answers
        <4>2. thread' = [thread EXCEPT ![t] = Server!Idle] /\ 0 <= calls
          BY <2>2, <3>7 DEF Server!Done
        <4> QED BY <4>1, <4>2
      <3> QED BY <1>7, <3>3, <3>4, <3>5, <3>6, <3>7 DEF Server!Handle
    <2>4. thread' \in [Threads -> Handled] /\ \A u \in Threads : thread'[u].call <= calls'
      <3>1. calls' \in Nat /\ calls <= calls'
        BY <2>1, <2>2
      <3>2. PICK s \in Handled : s.call <= calls' /\ thread' = [thread EXCEPT ![t] = s]
        BY <2>1, <2>3
      <3> QED BY <3>1, <3>2, ThreadKeepsType
    <2>5. newest' = newest \/ newest' = [newest EXCEPT ![r.kind] = r.call]
      BY <1>7 DEF Server!Handle, Server!GetBridge, Server!Alone, Server!Select, Server!Store,
         Server!PublishCall, Server!Done
    <2>6. published' = published \/ published' = [published EXCEPT ![r.kind] = r.call]
      BY <1>7 DEF Server!Handle, Server!GetBridge, Server!Alone, Server!Select, Server!Store,
         Server!PublishCall, Server!Done, Server!shown
    <2> HIDE DEF r
    <2>7. newest' \in [Kinds -> Nat] /\ \A k \in Kinds : newest'[k] <= calls
      BY <2>2, <2>5 DEF RequestInv
    <2>8. published' \in [Kinds -> Nat] /\ \A k \in Kinds : published'[k] <= calls
      BY <2>2, <2>6 DEF RequestInv
    <2> QED BY <2>1, <2>4, <2>7, <2>8 DEF RequestInv
  <1> QED BY <1>2, <1>4, <1>5, <1>6, <1>7 DEF Server!ServerNext
-----------------------------------------------------------------------------
(* The camera: the lock is held by the thread that predicts, and what the  *)
(* detector passes on is a picture it was given.                           *)

Calls == [at : Camera!Detector!Points, of : Camera!Pictures \cup {NoPicture},
          result : Camera!Detector!Results]

\* A worker has taken a frame that has arrived.
FrameInv ==
    /\ frameSeq \in 0 .. MaxFrames /\ processed \in 0 .. frameSeq
    /\ displayed \in Camera!Pictures \cup {NoPicture}
    /\ alive \subseteq Workers /\ picked \in [Workers -> 1 .. MaxFrames \cup {NoPicture}]
    /\ \A w \in Workers : picked[w] # NoPicture => picked[w] \in 1 .. frameSeq

LockInv == Camera!LockIsUsed /\ Camera!Detector!DetectorTypeOK

LEMMA NoCallerIsNone == \A c \in Camera!Callers : c # NoPicture
  BY CameraAssumption DEF Camera!Callers

LEMMA ResultsGrow ==
  ASSUME clock \in Nat, clock' \in Nat, clock <= clock'
  PROVE  Camera!Detector!Results \subseteq (Camera!Detector!Results)'
  BY DEF Camera!Detector!Results

\* One thread's call goes on; the lock is where it was, or with a thread that predicts.
LEMMA OneCallMoves ==
  ASSUME LockInv, NEW c \in Camera!Callers, NEW r \in Calls, call' = [call EXCEPT ![c] = r],
         UNCHANGED <<latest, clock, horizon>>,
         \/ lock' = lock /\ (r.at = "predict" <=> call[c].at = "predict")
         \/ lock = NoPicture /\ lock' = c /\ r.at = "predict"
         \/ lock = c /\ lock' = NoPicture /\ r.at # "predict"
  PROVE  LockInv'
  <1> USE DEF LockInv, Camera!LockIsUsed, Camera!Detector!At
  <1>1. call \in [Camera!Callers -> Calls]
    BY DEF Camera!Detector!DetectorTypeOK, Calls
  <1>2. call' \in [Camera!Callers -> Calls]
    BY <1>1
  <1>3. lock' \in Camera!Callers \cup {NoPicture}
    BY DEF Camera!Detector!DetectorTypeOK
  <1>4. Camera!Detector!DetectorTypeOK'
    BY <1>2, <1>3 DEF Camera!Detector!DetectorTypeOK, Camera!Detector!Results, Calls
  <1>5. Camera!LockIsUsed'
    <2>1. \A d \in Camera!Callers : d # c => call'[d] = call[d]
      BY <1>1
    <2>2. call'[c] = r
      BY <1>1
    <2> QED BY <2>1, <2>2, NoCallerIsNone
  <1> QED BY <1>4, <1>5

LEMMA EmptyIsResult == clock \in Nat => Camera!Detector!Empty \in Camera!Detector!Results
  BY DEF Camera!Detector!Empty, Camera!Detector!Results

\* What a call may become: elsewhere, with another result, or over.
LEMMA CallForms ==
  ASSUME LockInv, NEW c \in Camera!Callers
  PROVE  /\ call[c] \in Calls /\ clock \in Nat /\ latest \in Camera!Detector!Results
         /\ \A a \in Camera!Detector!Points : [call[c] EXCEPT !.at = a] \in Calls
         /\ \A a \in Camera!Detector!Points : [call[c] EXCEPT !.at = a].at = a
         /\ Camera!Detector!Idle \in Calls /\ Camera!Detector!Idle.at = "idle"
  <1>1. call[c] \in Calls /\ clock \in Nat /\ latest \in Camera!Detector!Results
    BY DEF LockInv, Camera!Detector!DetectorTypeOK, Calls
  <1>2. \A a \in Camera!Detector!Points :
           [call[c] EXCEPT !.at = a] \in Calls /\ [call[c] EXCEPT !.at = a].at = a
    BY <1>1 DEF Calls
  <1>3. Camera!Detector!Idle \in Calls /\ Camera!Detector!Idle.at = "idle"
    BY <1>1, EmptyIsResult DEF Calls, Camera!Detector!Idle, Camera!Detector!Points
  <1> QED BY <1>1, <1>2, <1>3

LEMMA EnterKeepsLock ==
  ASSUME LockInv, NEW c \in Camera!Callers, NEW p \in Camera!Pictures, Camera!Detector!Enter(c, p)
  PROVE  LockInv'
  <1> DEFINE r == IF Camera!Detector!Fresh THEN [at |-> "write", of |-> p, result |-> latest]
                  ELSE [at |-> "try", of |-> p, result |-> Camera!Detector!Empty]
  <1>1. r \in Calls /\ r.at # "predict"
    BY CallForms, EmptyIsResult DEF Calls, Camera!Detector!Points
  <1>2. call' = [call EXCEPT ![c] = r] /\ call[c].at = "idle"
        /\ UNCHANGED <<lock, latest, clock, horizon>>
    BY DEF Camera!Detector!Enter, Camera!Detector!At
  <1> HIDE DEF r
  <1> QED BY <1>1, <1>2, OneCallMoves

LEMMA LeaveKeepsLock ==
  ASSUME LockInv, NEW c \in Camera!Callers, Camera!Detector!Leave(c)
  PROVE  LockInv'
  BY CallForms, OneCallMoves DEF Camera!Detector!Leave

LEMMA AgeKeepsLock ==
  ASSUME LockInv, Camera!Detector!Age
  PROVE  LockInv'
  <1>1. UNCHANGED <<lock, latest, clock, call>> /\ horizon' \in 1 .. clock + 1
    BY DEF LockInv, Camera!Detector!DetectorTypeOK, Camera!Detector!Age
  <1> QED BY <1>1 DEF LockInv, Camera!LockIsUsed, Camera!Detector!At,
             Camera!Detector!DetectorTypeOK, Camera!Detector!Results

LEMMA StepKeepsLock ==
  ASSUME LockInv, NEW c \in Camera!Callers, Camera!Detector!Step(c)
  PROVE  LockInv'
  <1> USE DEF Camera!Detector!At
  <1> DEFINE r(a) == [call[c] EXCEPT !.at = a]
  <1>1. /\ call \in [Camera!Callers -> Calls] /\ lock \in Camera!Callers \cup {NoPicture}
        /\ (lock = c <=> call[c].at = "predict")
    BY DEF LockInv, Camera!LockIsUsed, Camera!Detector!DetectorTypeOK, Calls
  <1>2. \A a \in {"predict", "busy", "post", "done", "error"} : r(a) \in Calls /\ r(a).at = a
    BY CallForms DEF Camera!Detector!Points
  <1>3. ASSUME NEW a, Camera!Detector!Go(c, a) PROVE call' = [call EXCEPT ![c] = r(a)]
    BY <1>1, <1>3 DEF Camera!Detector!Go
  <1> HIDE DEF r
  <1>4. CASE Camera!Detector!TryLock(c)
    <2>1. UNCHANGED <<latest, clock, horizon>> /\ call[c].at = "try"
      BY <1>4 DEF Camera!Detector!TryLock
    <2>2. CASE lock = NoPicture
      <3>1. lock' = c /\ call' = [call EXCEPT ![c] = r("predict")]
        BY <1>3, <1>4, <2>2 DEF Camera!Detector!TryLock
      <3> QED BY <1>2, <2>1, <2>2, <3>1, OneCallMoves
    <2>3. CASE lock # NoPicture
      <3>1. lock' = lock /\ call' = [call EXCEPT ![c] = r("busy")]
        BY <1>3, <1>4, <2>3 DEF Camera!Detector!TryLock
      <3> QED BY <1>2, <2>1, <3>1, OneCallMoves
    <2> QED BY <2>2, <2>3
  <1>5. CASE Camera!Detector!Predict(c) \/ Camera!Detector!Undecodable(c)
             \/ Camera!Detector!PredictError(c)
    <2>1. UNCHANGED <<latest, clock, horizon>> /\ lock' = NoPicture /\ call[c].at = "predict"
      BY <1>5 DEF Camera!Detector!Predict, Camera!Detector!Undecodable, Camera!Detector!PredictError
    <2>2. \E a \in {"post", "done", "error"} : call' = [call EXCEPT ![c] = r(a)]
      BY <1>3, <1>5
         DEF Camera!Detector!Predict, Camera!Detector!Undecodable, Camera!Detector!PredictError
    <2> QED BY <1>1, <1>2, <2>1, <2>2, OneCallMoves
  <1>6. CASE Camera!Detector!BusyRead(c)
    <2> DEFINE b == [call[c] EXCEPT !.at = "write", !.result = latest]
    <2>1. b \in Calls /\ b.at = "write"
      BY CallForms DEF Calls, Camera!Detector!Points
    <2>2. call' = [call EXCEPT ![c] = b] /\ UNCHANGED <<lock, latest, clock, horizon>>
          /\ call[c].at = "busy"
      BY <1>1, <1>6 DEF Camera!Detector!BusyRead, Camera!Detector!Fetch
    <2> HIDE DEF b
    <2> QED BY <2>1, <2>2, OneCallMoves
  <1>7. CASE Camera!Detector!Stamp(c)
    <2>1. clock \in Nat /\ clock' = clock + 1 /\ UNCHANGED <<lock, latest, horizon>>
          /\ call[c].at = "post"
      BY <1>7 DEF Camera!Detector!Stamp, LockInv, Camera!Detector!DetectorTypeOK
    <2>2. clock' \in Nat /\ clock <= clock' /\ clock' \in 0 .. clock'
      BY <2>1
    <2>3. Camera!Detector!Results \subseteq (Camera!Detector!Results)'
      BY <2>1, <2>2, ResultsGrow
    <2> DEFINE n == [of |-> call[c].of, stamp |-> clock']
               b == [call[c] EXCEPT !.at = "write", !.result = n]
               Later == [at : Camera!Detector!Points, of : Camera!Pictures \cup {NoPicture},
                         result : (Camera!Detector!Results)']
    <2>4. n \in (Camera!Detector!Results)'
      BY <1>1, <2>2 DEF Camera!Detector!Results, Calls
    <2>5. call[c] \in Calls /\ Calls \subseteq Later
      BY <1>1, <2>3 DEF Calls
    <2>6. call' = [call EXCEPT ![c] = b]
      BY <1>1, <1>7 DEF Camera!Detector!Stamp, Camera!Detector!Fetch
    <2> HIDE DEF n
    <2>7. b \in Later /\ b.at = "write"
      BY <2>4, <2>5 DEF Calls, Camera!Detector!Points
    <2> HIDE DEF b
    <2>8. call \in [Camera!Callers -> Later]
      <3> HIDE DEF Later
      <3> QED BY <1>1, <2>5
    <2>9. call' \in [Camera!Callers -> Later]
      <3> HIDE DEF Later
      <3> QED BY <2>6, <2>7, <2>8
    <2>10. latest' \in (Camera!Detector!Results)'
      BY <2>1, <2>3 DEF LockInv, Camera!Detector!DetectorTypeOK
    <2>11. horizon' \in 1 .. clock' + 1
      BY <2>1 DEF LockInv, Camera!Detector!DetectorTypeOK
    <2>12. Camera!Detector!DetectorTypeOK'
      BY <1>1, <2>1, <2>2, <2>9, <2>10, <2>11 DEF Camera!Detector!DetectorTypeOK
    <2>13. Camera!LockIsUsed'
      <3>1. /\ \A d \in Camera!Callers : d # c => call'[d] = call[d]
            /\ call'[c] = b
        BY <1>1, <2>6
      <3> QED BY <1>1, <2>1, <2>7, <3>1 DEF LockInv, Camera!LockIsUsed
    <2> QED BY <2>12, <2>13 DEF LockInv
  <1>8. CASE Camera!Detector!Store(c)
    <2>1. call' = [call EXCEPT ![c] = r("done")] /\ UNCHANGED <<lock, clock, horizon>>
          /\ call[c].at = "write"
      BY <1>3, <1>8 DEF Camera!Detector!Store
    <2>2. latest' \in Camera!Detector!Results
      BY <1>1, <1>8 DEF Camera!Detector!Store, Calls
    <2>3. call' \in [Camera!Callers -> Calls]
      BY <1>1, <1>2, <2>1
    <2>4. Camera!Detector!DetectorTypeOK'
      BY <2>1, <2>2, <2>3 DEF LockInv, Camera!Detector!DetectorTypeOK, Camera!Detector!Results, Calls
    <2>5. Camera!LockIsUsed'
      <3>1. /\ \A d \in Camera!Callers : d # c => call'[d] = call[d]
            /\ call'[c].at = "done"
        BY <1>1, <1>2, <2>1
      <3> QED BY <1>1, <2>1, <3>1 DEF LockInv, Camera!LockIsUsed
    <2> QED BY <2>4, <2>5 DEF LockInv
  <1> QED BY <1>4, <1>5, <1>6, <1>7, <1>8 DEF Camera!Detector!Step

LEMMA CameraStarts == Camera!Init => FrameInv /\ LockInv
  <1> SUFFICES ASSUME Camera!Init PROVE FrameInv /\ LockInv
    OBVIOUS
  <1>1. /\ lock = NoPicture /\ latest = Camera!Detector!Empty /\ clock = 0 /\ horizon = 1
        /\ call = [c \in Camera!Callers |-> Camera!Detector!Idle]
        /\ frameSeq = 0 /\ processed = 0 /\ displayed = NoPicture /\ alive = {}
        /\ picked = [w \in Workers |-> NoPicture]
    BY DEF Camera!Init, Camera!Detector!Init, Camera!Service!Init
  <1>2. FrameInv
    BY <1>1, CameraAssumption DEF FrameInv
  <1>3. clock \in Nat /\ horizon \in 1 .. clock + 1 /\ latest \in Camera!Detector!Results
    BY <1>1, EmptyIsResult
  <1>4. Camera!Detector!Idle \in Calls /\ Camera!Detector!Idle.at = "idle"
    BY <1>3, EmptyIsResult DEF Calls, Camera!Detector!Idle, Camera!Detector!Points
  <1>5. call \in [Camera!Callers -> Calls] /\ \A c \in Camera!Callers : call[c].at = "idle"
    BY <1>1, <1>4
  <1>6. LockInv
    BY <1>1, <1>3, <1>5, NoCallerIsNone
       DEF LockInv, Camera!LockIsUsed, Camera!Detector!At, Camera!Detector!DetectorTypeOK, Calls
  <1> QED BY <1>2, <1>6

LEMMA LockStep == LockInv /\ FrameInv /\ Camera!Next => LockInv'
  <1> SUFFICES ASSUME LockInv, FrameInv, Camera!Next PROVE LockInv'
    OBVIOUS
  <1>1. CASE UNCHANGED Camera!detector
    BY <1>1 DEF Camera!detector, LockInv, Camera!LockIsUsed, Camera!Detector!At,
       Camera!Detector!DetectorTypeOK, Camera!Detector!Results
  <1>2. CASE Camera!RouteDetect
    BY <1>1, <1>2 DEF Camera!RouteDetect
  <1>3. CASE Camera!Time
    BY <1>3, AgeKeepsLock DEF Camera!Time
  <1>4. ASSUME NEW p \in PhoneThreads, Camera!RoutePhone(p) \/ Camera!PhoneAnswered(p) PROVE LockInv'
    <2>1. p \in Camera!Callers /\ Phone \in Camera!Pictures
      BY DEF Camera!Callers, Camera!Pictures
    <2> QED BY <1>4, <2>1, EnterKeepsLock, LeaveKeepsLock DEF Camera!RoutePhone, Camera!PhoneAnswered
  <1>5. ASSUME NEW w \in Workers, Camera!Worker(w) PROVE LockInv'
    <2>1. w \in Camera!Callers
      BY DEF Camera!Callers
    <2>2. CASE Camera!WorkerPick(w)
      BY <1>1, <2>2 DEF Camera!WorkerPick
    <2>3. CASE Camera!WorkerDetect(w)
      <3>1. picked[w] \in Camera!Pictures
        BY <2>3 DEF Camera!WorkerDetect, FrameInv, Camera!Pictures
      <3> QED BY <2>1, <2>3, <3>1, EnterKeepsLock DEF Camera!WorkerDetect
    <2>4. CASE Camera!WorkerDone(w)
      BY <2>1, <2>4, LeaveKeepsLock DEF Camera!WorkerDone
    <2> QED BY <1>5, <2>2, <2>3, <2>4 DEF Camera!Worker
  <1>6. ASSUME NEW c \in Camera!Callers, Camera!DetectorStep(c) PROVE LockInv'
    BY <1>6, StepKeepsLock DEF Camera!DetectorStep
  <1> QED BY <1>2, <1>3, <1>4, <1>5, <1>6 DEF Camera!Next

LEMMA FrameStep == LockInv /\ FrameInv /\ Camera!Next => FrameInv'
  <1> SUFFICES ASSUME LockInv, FrameInv, Camera!Next PROVE FrameInv'
    OBVIOUS
  <1> USE DEF FrameInv
  <1>1. CASE UNCHANGED Camera!service
    BY <1>1 DEF Camera!service, Camera!Pictures
  <1>2. CASE Camera!RouteDetect
    <2>1. frameSeq' = frameSeq + 1 /\ frameSeq < MaxFrames /\ UNCHANGED <<processed, displayed, picked>>
      BY <1>2 DEF Camera!RouteDetect, Camera!Service!Enqueue
    <2>2. alive' \subseteq Workers
      BY <1>2 DEF Camera!RouteDetect, Camera!Service!Enqueue, Camera!Service!Start
    <2> QED BY <2>1, <2>2, CameraAssumption
  <1>3. ASSUME NEW w \in Workers, Camera!WorkerPick(w) PROVE FrameInv'
    <2>1. frameSeq > processed /\ picked' = [picked EXCEPT ![w] = frameSeq]
          /\ UNCHANGED <<frameSeq, processed, displayed, alive>>
      BY <1>3 DEF Camera!WorkerPick, Camera!Service!Pick
    <2>2. frameSeq \in 1 .. MaxFrames /\ frameSeq \in 1 .. frameSeq
      BY <2>1, CameraAssumption
    <2>3. picked' \in [Workers -> 1 .. MaxFrames \cup {NoPicture}]
      BY <2>1, <2>2
    <2>4. \A v \in Workers : picked'[v] # NoPicture => picked'[v] \in 1 .. frameSeq
      BY <2>1, <2>2
    <2> QED BY <2>1, <2>3, <2>4
  <1>4. ASSUME NEW w \in Workers, Camera!WorkerDone(w) PROVE FrameInv'
    <2>1. w \in Camera!Callers
      BY DEF Camera!Callers
    <2>2. call[w].result.of \in Camera!Pictures \cup {NoPicture}
      BY <2>1, CallForms DEF Calls, Camera!Detector!Results
    <2>3. picked[w] # NoPicture /\ picked' = [picked EXCEPT ![w] = NoPicture]
          /\ UNCHANGED <<frameSeq, alive>>
          /\ \/ processed' = picked[w] /\ displayed' = call[w].result.of
             \/ UNCHANGED <<processed, displayed>>
      BY <1>4 DEF Camera!WorkerDone, Camera!Service!Finish, Camera!Service!Fail
    <2>4. processed' \in 0 .. frameSeq
      BY <2>3
    <2>5. displayed' \in Camera!Pictures \cup {NoPicture}
      BY <2>2, <2>3
    <2>6. picked' \in [Workers -> 1 .. MaxFrames \cup {NoPicture}]
          /\ \A v \in Workers : picked'[v] # NoPicture => picked'[v] \in 1 .. frameSeq
      BY <2>3
    <2> QED BY <2>3, <2>4, <2>5, <2>6
  <1>5. ASSUME NEW p \in PhoneThreads, Camera!RoutePhone(p) \/ Camera!PhoneAnswered(p)
        PROVE  UNCHANGED Camera!service
    BY <1>5 DEF Camera!RoutePhone, Camera!PhoneAnswered
  <1>6. ASSUME NEW w \in Workers, Camera!WorkerDetect(w) PROVE UNCHANGED Camera!service
    BY <1>6 DEF Camera!WorkerDetect
  <1>7. ASSUME NEW c \in Camera!Callers, Camera!DetectorStep(c) PROVE UNCHANGED Camera!service
    BY <1>7 DEF Camera!DetectorStep
  <1>8. ASSUME Camera!Time PROVE UNCHANGED Camera!service
    BY <1>8 DEF Camera!Time
  <1> QED BY <1>1, <1>2, <1>3, <1>4, <1>5, <1>6, <1>7, <1>8 DEF Camera!Next, Camera!Worker

-----------------------------------------------------------------------------
(* The process with all its parts. *)

ServerInv == ProcessInv /\ RequestInv
CameraInv == FrameInv /\ LockInv

LEMMA ServerKept == ServerInv /\ [ProcessNext]_all => ServerInv'
  <1> SUFFICES ASSUME ServerInv, [ProcessNext]_all PROVE ServerInv'
    OBVIOUS
  <1>1. CASE UNCHANGED server
    BY <1>1 DEF server, ServerInv, ProcessInv, RequestInv
  <1>2. CASE Server!ServerNext
    BY <1>2, ProcessStep, RequestStep DEF ServerInv
  <1> QED BY <1>1, <1>2 DEF ProcessNext, StopRests, StateRests, GateRests, CameraRests, all

LEMMA CameraKept == CameraInv /\ [ProcessNext]_all => CameraInv'
  <1> SUFFICES ASSUME CameraInv, [ProcessNext]_all PROVE CameraInv'
    OBVIOUS
  <1>1. CASE UNCHANGED camera
    BY <1>1 DEF camera, CameraInv, FrameInv, LockInv, Camera!LockIsUsed, Camera!Detector!At,
       Camera!Detector!DetectorTypeOK, Camera!Detector!Results, Camera!Pictures
  <1>2. CASE Camera!Next
    BY <1>2, LockStep, FrameStep DEF CameraInv
  <1> QED BY <1>1, <1>2 DEF ProcessNext, StopRests, StateRests, GateRests, ServerRests, all

LEMMA InvsAreSafe == ServerInv /\ CameraInv => BridgeSafe
  <1> SUFFICES ASSUME ServerInv, CameraInv PROVE BridgeSafe
    OBVIOUS
  <1>1. Server!CallbacksMeetNode
    BY DEF ServerInv, ProcessInv, Server!CallbacksMeetNode
  <1>2. Server!ServerTypeOK
    <2>1. \A t \in Threads : thread[t] \in Handled /\ thread[t].call <= calls
      BY DEF ServerInv, RequestInv
    <2>2. \A k \in Kinds : {newest[k], published[k]} \subseteq 0 .. calls
      BY DEF ServerInv, RequestInv
    <2>3. {bridge, spins, fresh} \subseteq BOOLEAN
      BY DEF ServerInv, ProcessInv, RequestInv
    <2>4. \A t \in Threads : /\ thread[t].kind \in Kinds \cup {"none"} /\ thread[t].call <= calls
                             /\ thread[t].answer \in Answers
      BY <2>1 DEF Handled
    <2> QED BY <2>2, <2>3, <2>4 DEF ServerInv, ProcessInv, Lives, Answers, Server!ServerTypeOK
  <1>3. Camera!TypeOK
    BY DEF CameraInv, FrameInv, LockInv, Camera!TypeOK
  <1> QED BY <1>1, <1>2, <1>3 DEF BridgeSafe

\* No callback of the timer meets a destroyed node and no way out of detect_bytes leaves the
\* lock behind, for any routes, threads and frames (bridge_node.stop_ros, yolo_detector.py).
THEOREM BridgeIsSafe == ProcessSpec => []BridgeSafe
  <1>1. ProcessInit => ServerInv /\ CameraInv
    BY ServerStarts, CameraStarts DEF ProcessInit, ServerInv, CameraInv
  <1> QED BY <1>1, ServerKept, CameraKept, InvsAreSafe, PTL DEF ProcessSpec

-----------------------------------------------------------------------------
(* The emergency brake.  A version it knows was committed by the planner,  *)
(* so one that differs from the version at the start is a newer one.       *)

FlagsTyped ==
    active \in BOOLEAN /\ changed \in BOOLEAN /\ wanting \in BOOLEAN /\ due \in BOOLEAN

TimesTyped ==
    /\ age \in 0 .. MaxHold + 1 /\ released \in 0 .. Cooldown /\ signalLeft \in 0 .. SignalTtl
    /\ startRv \in 0 .. NoPlan /\ lastRv \in 0 .. NoPlan /\ plan \in 0 .. MaxPlans
    /\ overrides \in 0 .. Depth

VersionsKnown ==
    /\ lastRv # NoPlan => lastRv <= plan
    /\ startRv # NoPlan => startRv <= plan

BrakeInv == FlagsTyped /\ TimesTyped /\ VersionsKnown /\ BrakeBounded /\ ChangeIsReal

Earned ==
    active /\ ~active' /\ age < MaxHold =>
        \/ released' = 0 /\ signalLeft' = 0 /\ due' = due
        \/ age >= MinHold /\ startRv # NoPlan /\ startRv < plan

LEMMA BrakeTimes ==
  /\ MinHold \in Nat /\ MaxHold \in Nat /\ SignalTtl \in Nat /\ Cooldown \in Nat
  /\ Depth \in Nat /\ MaxPlans \in Nat /\ MinHold < MaxHold /\ Cooldown > 0 /\ Depth > 0
  BY BrakeAssumption

LEMMA BrakeStarts == BrakeInit /\ BridgeInit => BrakeInv /\ BridgeTypeOK
  <1> SUFFICES ASSUME BrakeInit, BridgeInit PROVE BrakeInv /\ BridgeTypeOK
    OBVIOUS
  <1>1. FlagsTyped /\ ~active /\ ~changed
    BY DEF BrakeInit, FlagsTyped
  <1>2. TimesTyped /\ VersionsKnown
    BY BrakeTimes DEF BrakeInit, TimesTyped, VersionsKnown, NoPlan
  <1>3. BridgeTypeOK
    BY BridgeAssumption DEF BridgeInit, BridgeTypeOK, NoReply, Wishes
  <1> QED BY <1>1, <1>2, <1>3 DEF BrakeInv, BrakeBounded, ChangeIsReal

LEMMA BrakeWorks == BrakeInv /\ (BrakeStep \/ BrakeClock) => BrakeInv' /\ Earned
  <1> SUFFICES ASSUME BrakeInv, BrakeStep \/ BrakeClock PROVE BrakeInv' /\ Earned
    OBVIOUS
  <1> USE BrakeTimes DEF BrakeInv, NoPlan, Earned
  <1>1. CASE Signal
    <2>1. CASE NewEmergency
      <3>1. FlagsTyped'
        BY <1>1, <2>1 DEF Signal, NewEmergency, FlagsTyped
      <3>2. TimesTyped'
        BY <1>1, <2>1 DEF Signal, NewEmergency, TimesTyped
      <3>3. VersionsKnown' /\ BrakeBounded' /\ ChangeIsReal'
        BY <1>1, <2>1 DEF Signal, NewEmergency, FlagsTyped, TimesTyped, VersionsKnown, BrakeBounded, ChangeIsReal
      <3>4. Earned
        BY <1>1, <2>1 DEF Signal, NewEmergency, TimesTyped, ChangeIsReal
      <3> QED BY <3>1, <3>2, <3>3, <3>4
    <2>2. CASE ~NewEmergency
      <3>1. FlagsTyped'
        BY <1>1, <2>2 DEF Signal, FlagsTyped
      <3>2. TimesTyped'
        BY <1>1, <2>2 DEF Signal, TimesTyped
      <3>3. VersionsKnown' /\ BrakeBounded' /\ ChangeIsReal'
        BY <1>1, <2>2 DEF Signal, FlagsTyped, TimesTyped, VersionsKnown, BrakeBounded, ChangeIsReal
      <3>4. Earned
        BY <1>1, <2>2 DEF Signal, TimesTyped, ChangeIsReal
      <3> QED BY <3>1, <3>2, <3>3, <3>4
    <2> QED BY <2>1, <2>2
  <1>2. CASE ClearCommand
    <2>1. FlagsTyped'
      BY <1>2 DEF ClearCommand, FlagsTyped
    <2>2. TimesTyped'
      BY <1>2 DEF ClearCommand, TimesTyped
    <2>3. VersionsKnown' /\ BrakeBounded' /\ ChangeIsReal'
      BY <1>2 DEF ClearCommand, FlagsTyped, TimesTyped, VersionsKnown, BrakeBounded, ChangeIsReal
    <2>4. Earned
      BY <1>2 DEF ClearCommand, TimesTyped, ChangeIsReal
    <2> QED BY <2>1, <2>2, <2>3, <2>4
  <1>3. CASE BrakeTimer
    <2>1. CASE ShouldStop
      <3>1. /\ active /\ age < MaxHold /\ due' = FALSE /\ overrides' = Up(overrides, Depth)
            /\ UNCHANGED <<active, age, released, signalLeft, startRv, lastRv, changed, wanting, plan>>
        BY <1>3, <2>1 DEF BrakeTimer, ShouldStop
      <3>2. overrides' \in 0 .. Depth
        BY <3>1 DEF Up, TimesTyped
      <3>3. FlagsTyped' /\ TimesTyped'
        BY <3>1, <3>2 DEF FlagsTyped, TimesTyped
      <3>4. VersionsKnown' /\ BrakeBounded' /\ ChangeIsReal' /\ active'
        BY <3>1 DEF VersionsKnown, BrakeBounded, ChangeIsReal, TimesTyped
      <3> QED BY <3>3, <3>4
    <2>2. CASE ~ShouldStop
      <3>1. FlagsTyped'
        BY <1>3, <2>2 DEF BrakeTimer, ShouldStop, FlagsTyped
      <3>2. TimesTyped'
        BY <1>3, <2>2 DEF BrakeTimer, ShouldStop, TimesTyped
      <3>3. VersionsKnown' /\ BrakeBounded' /\ ChangeIsReal'
        BY <1>3, <2>2 DEF BrakeTimer, ShouldStop, FlagsTyped, TimesTyped, VersionsKnown, BrakeBounded, ChangeIsReal
      <3>4. Earned
        BY <1>3, <2>2 DEF BrakeTimer, ShouldStop, TimesTyped, ChangeIsReal
      <3> QED BY <3>1, <3>2, <3>3, <3>4
    <2> QED BY <2>1, <2>2
  <1>4. CASE Replan
    <2>1. FlagsTyped'
      BY <1>4 DEF Replan, FlagsTyped
    <2>2. TimesTyped'
      BY <1>4 DEF Replan, TimesTyped
    <2>3. VersionsKnown' /\ BrakeBounded' /\ ChangeIsReal'
      BY <1>4 DEF Replan, FlagsTyped, TimesTyped, VersionsKnown, BrakeBounded, ChangeIsReal
    <2>4. Earned
      BY <1>4 DEF Replan, TimesTyped, ChangeIsReal
    <2> QED BY <2>1, <2>2, <2>3, <2>4
  <1>5. ASSUME NEW fails \in BOOLEAN, NEW blocks \in BOOLEAN, PlannerStatus(fails, blocks)
        PROVE  BrakeInv' /\ Earned
    <2>1. FlagsTyped'
      BY <1>5 DEF PlannerStatus, FlagsTyped
    <2>2. TimesTyped'
      BY <1>5 DEF PlannerStatus, TimesTyped
    <2>3. VersionsKnown' /\ BrakeBounded' /\ ChangeIsReal'
      BY <1>5 DEF PlannerStatus, FlagsTyped, TimesTyped, VersionsKnown, BrakeBounded, ChangeIsReal
    <2>4. Earned
      BY <1>5 DEF PlannerStatus, TimesTyped, ChangeIsReal
    <2> QED BY <2>1, <2>2, <2>3, <2>4
  <1>6. CASE BrakeClock
    <2>1. FlagsTyped'
      BY <1>6 DEF BrakeClock, Up, Down, FlagsTyped
    <2>2. TimesTyped'
      BY <1>6 DEF BrakeClock, Up, Down, TimesTyped
    <2>3. VersionsKnown' /\ BrakeBounded' /\ ChangeIsReal'
      BY <1>6 DEF BrakeClock, Up, Down, FlagsTyped, TimesTyped, VersionsKnown, BrakeBounded, ChangeIsReal
    <2>4. Earned
      BY <1>6 DEF BrakeClock, Up, Down, TimesTyped, ChangeIsReal
    <2> QED BY <2>1, <2>2, <2>3, <2>4
  <1> QED BY <1>1, <1>2, <1>3, <1>4, <1>5, <1>6 DEF BrakeStep

LEMMA AnswersAreTyped ==
  BridgeTypeOK /\ (BridgeStep \/ BridgeClock \/ OnOneShotOverride("stop")) => BridgeTypeOK'
  <1> SUFFICES ASSUME BridgeTypeOK, BridgeStep \/ BridgeClock \/ OnOneShotOverride("stop")
               PROVE  BridgeTypeOK'
    OBVIOUS
  <1> USE BridgeAssumption DEF BridgeTypeOK
  <1>1. ASSUME NEW c \in Wishes, Publish(c) \/ OnControlCommand(c) PROVE BridgeTypeOK'
    BY <1>1 DEF Publish, OnControlCommand
  <1>2. ASSUME NEW waited \in 0 .. 1, SelectAction(waited) PROVE BridgeTypeOK'
    BY <1>2 DEF SelectAction, Answer, Consumed, Fallback, Wishes
  <1>3. CASE BridgeClock
    BY <1>3 DEF BridgeClock
  <1>4. CASE OnOneShotOverride("stop")
    BY <1>4 DEF OnOneShotOverride
  <1> QED BY <1>1, <1>2, <1>3, <1>4 DEF BridgeStep

LEMMA BrakeKept == BrakeInv /\ BridgeTypeOK /\ [ProcessNext]_all =>
                      BrakeInv' /\ BridgeTypeOK' /\ [Earned]_brake
  <1> SUFFICES ASSUME BrakeInv, BridgeTypeOK, [ProcessNext]_all
               PROVE  BrakeInv' /\ BridgeTypeOK' /\ [Earned]_brake
    OBVIOUS
  <1>1. CASE UNCHANGED stop
    BY <1>1 DEF stop, brake, commands, BrakeInv, FlagsTyped, TimesTyped, VersionsKnown, BrakeBounded,
       ChangeIsReal, BridgeTypeOK
  <1>2. CASE BrakeStep /\ UNCHANGED commands
    BY <1>2, BrakeWorks DEF commands, BridgeTypeOK
  <1>3. CASE BridgeStep /\ UNCHANGED brake
    BY <1>3, AnswersAreTyped DEF brake, BrakeInv, FlagsTyped, TimesTyped, VersionsKnown,
       BrakeBounded, ChangeIsReal
  <1>4. CASE DeliverOverride
    <2>1. BrakeInv' /\ UNCHANGED active
      BY <1>4, BrakeTimes
         DEF DeliverOverride, BrakeInv, FlagsTyped, TimesTyped, VersionsKnown, BrakeBounded,
             ChangeIsReal
    <2>2. BridgeTypeOK'
      BY <1>4, AnswersAreTyped DEF DeliverOverride
    <2> QED BY <2>1, <2>2 DEF Earned
  <1>5. CASE Clock
    BY <1>5, BrakeWorks, AnswersAreTyped DEF Clock
  <1> QED BY <1>1, <1>2, <1>3, <1>4, <1>5
      DEF ProcessNext, StopStep, StateRests, GateRests, ServerRests, CameraRests, all

\* The safety half of BrakeLetsGo, for any times: no emergency outlasts its maximum, a route
\* that counts as new is new, and nothing but the phone or such a route ends one early
\* (phone_emergency_brake_node.timer_cb, planner_status_cb).
THEOREM BrakeIsBounded ==
  ProcessSpec => [](BrakeTypeOK /\ BridgeTypeOK /\ BrakeBounded /\ ChangeIsReal) /\ ReleaseEarned
  <1>1. ProcessInit => BrakeInv /\ BridgeTypeOK
    BY BrakeStarts DEF ProcessInit
  <1>2. BrakeInv => BrakeTypeOK /\ BrakeBounded /\ ChangeIsReal
    BY DEF BrakeInv, FlagsTyped, TimesTyped, BrakeTypeOK
  <1>3. BrakeInv /\ BridgeTypeOK /\ [ProcessNext]_all => [Earned]_brake
    BY BrakeKept
  <1> QED BY <1>1, <1>2, <1>3, BrakeKept, PTL DEF ProcessSpec, ReleaseEarned, Earned

-----------------------------------------------------------------------------
(* The order of results.  There is one worker, its frame is never older    *)
(* than what is processed; while the phone is silent nobody else touches   *)
(* the detector, so its latest result is never newer than that frame, and  *)
(* what /detect shows is never newer than the latest result.               *)

Busy(w) == picked[w] # NoPicture

WorkerInv ==
    /\ phoneSent \in Nat
    /\ \A v, w \in alive : v = w
    /\ \A w \in Workers : Busy(w) => alive = {w} /\ processed <= picked[w]

CallInOrder(w) ==
    /\ call[w].at # "idle" => Busy(w) /\ call[w].of = picked[w]
    /\ call[w].at \in {"try", "busy", "predict", "post"} => call[w].result.of = NoPicture
    /\ call[w].at = "write" => call[w].result.of \in {latest.of, call[w].of}
    /\ call[w].at = "done" => call[w].result.of \in {NoPicture, latest.of}

LatestInOrder ==
    latest.of # NoPicture =>
        latest.of \in 1 .. frameSeq /\ \A w \in Workers : Busy(w) => latest.of <= picked[w]

ShownInOrder ==
    displayed # NoPicture => latest.of \in 1 .. frameSeq /\ displayed \in 1 .. latest.of
                             /\ latest.of # NoPicture

Silent ==
    /\ \A p \in PhoneThreads : call[p].at = "idle"
    /\ \A w \in Workers : CallInOrder(w)
    /\ LatestInOrder /\ ShownInOrder

OrderInv == WorkerInv /\ (phoneSent = 0 => Silent)

InOrder ==
    /\ processed' >= processed
    /\ phoneSent = 0 /\ displayed # NoPicture /\ displayed' # NoPicture => displayed' >= displayed

LEMMA WorkerStep ==
  ASSUME CameraInv, WorkerInv, Camera!Next
  PROVE  WorkerInv' /\ processed' >= processed
  <1> USE DEF CameraInv, FrameInv, WorkerInv, Busy
  <1>1. CASE UNCHANGED Camera!service /\ phoneSent' \in Nat
    BY <1>1 DEF Camera!service
  <1>2. CASE Camera!RouteDetect
    <2>1. UNCHANGED <<processed, picked, phoneSent>>
      BY <1>2 DEF Camera!RouteDetect, Camera!Service!Enqueue
    <2>2. alive' = alive \/ (alive = {} /\ \E w \in Workers : alive' = {w})
      BY <1>2 DEF Camera!RouteDetect, Camera!Service!Enqueue, Camera!Service!Start
    <2> QED BY <2>1, <2>2
  <1>3. ASSUME NEW w \in Workers, Camera!WorkerPick(w) PROVE WorkerInv' /\ processed' >= processed
    <2>1. /\ w \in alive /\ frameSeq > processed /\ picked' = [picked EXCEPT ![w] = frameSeq]
          /\ UNCHANGED <<processed, alive, phoneSent>>
      BY <1>3 DEF Camera!WorkerPick, Camera!Service!Pick
    <2>2. alive = {w}
      BY <2>1
    <2>3. \A v \in Workers : v # w => picked'[v] = picked[v] /\ picked[v] = NoPicture
      BY <2>1, <2>2
    <2>4. picked'[w] = frameSeq
      BY <2>1
    <2> QED BY <2>1, <2>2, <2>3, <2>4
  <1>4. ASSUME NEW w \in Workers, Camera!WorkerDone(w) PROVE WorkerInv' /\ processed' >= processed
    <2>1. /\ Busy(w) /\ picked' = [picked EXCEPT ![w] = NoPicture] /\ UNCHANGED <<alive, phoneSent>>
          /\ processed' = picked[w] \/ processed' = processed
      BY <1>4 DEF Camera!WorkerDone, Camera!Service!Finish, Camera!Service!Fail
    <2>2. \A v \in Workers : v # w => picked[v] = NoPicture
      BY <2>1
    <2>3. \A v \in Workers : picked'[v] = NoPicture
      BY <2>1, <2>2
    <2> QED BY <2>1, <2>3
  <1>5. ASSUME NEW p \in PhoneThreads, Camera!RoutePhone(p) \/ Camera!PhoneAnswered(p)
        PROVE  UNCHANGED Camera!service /\ phoneSent' \in Nat
    BY <1>5 DEF Camera!RoutePhone, Camera!PhoneAnswered
  <1>6. ASSUME NEW w \in Workers, Camera!WorkerDetect(w)
        PROVE  UNCHANGED Camera!service /\ phoneSent' \in Nat
    BY <1>6 DEF Camera!WorkerDetect
  <1>7. ASSUME NEW c \in Camera!Callers, Camera!DetectorStep(c)
        PROVE  UNCHANGED Camera!service /\ phoneSent' \in Nat
    BY <1>7 DEF Camera!DetectorStep
  <1>8. ASSUME Camera!Time PROVE UNCHANGED Camera!service /\ phoneSent' \in Nat
    BY <1>8 DEF Camera!Time
  <1> QED BY <1>1, <1>2, <1>3, <1>4, <1>5, <1>6, <1>7, <1>8 DEF Camera!Next, Camera!Worker

\* While the phone is silent only the worker of the newest frame has a call under way.
LEMMA OthersAreIdle ==
  ASSUME WorkerInv, Silent, NEW w \in Workers, Busy(w), NEW c \in Camera!Callers, c # w
  PROVE  call[c].at = "idle" /\ (c \in Workers => ~Busy(c))
  <1>1. CASE c \in PhoneThreads
    BY <1>1, CameraAssumption DEF Silent
  <1>2. CASE c \in Workers
    <2>1. ~Busy(c)
      BY <1>2 DEF WorkerInv
    <2> QED BY <1>2, <2>1, CameraAssumption DEF Silent, CallInOrder
  <1> QED BY <1>1, <1>2 DEF Camera!Callers

\* One call goes on; all the others are idle.
LEMMA CallsStayInOrder ==
  ASSUME CameraInv, WorkerInv, Silent, NEW w \in Workers, Busy(w), NEW r,
         call' = [call EXCEPT ![w] = r], UNCHANGED picked, CallInOrder(w)'
  PROVE  /\ \A p \in PhoneThreads : call'[p].at = "idle"
         /\ \A v \in Workers : CallInOrder(v)'
  <1>1. call \in [Camera!Callers -> Calls]
    BY DEF CameraInv, LockInv, Camera!Detector!DetectorTypeOK, Calls
  <1>2. \A c \in Camera!Callers : c # w => call'[c] = call[c] /\ call[c].at = "idle"
    BY <1>1, OthersAreIdle
  <1>3. \A p \in PhoneThreads : p \in Camera!Callers /\ p # w
    BY CameraAssumption DEF Camera!Callers
  <1>4. \A v \in Workers : v # w => CallInOrder(v)'
    BY <1>2 DEF CallInOrder, Camera!Callers
  <1> QED BY <1>2, <1>3, <1>4

LEMMA SilentDetector ==
  ASSUME CameraInv, WorkerInv, Silent, NEW w \in Workers, Camera!DetectorStep(w)
  PROVE  Silent'
  <1> USE DEF Camera!Detector!At
  <1>1. /\ UNCHANGED <<frameSeq, picked, displayed>> /\ Camera!Detector!Step(w) /\ w \in Camera!Callers
    BY DEF Camera!DetectorStep, Camera!service, Camera!Callers
  <1>2. call \in [Camera!Callers -> Calls] /\ call[w] \in Calls
    BY <1>1 DEF CameraInv, LockInv, Camera!Detector!DetectorTypeOK, Calls
  <1>3. call[w].at # "idle"
    BY <1>1 DEF Camera!Detector!Step, Camera!Detector!TryLock, Camera!Detector!BusyRead,
       Camera!Detector!Predict, Camera!Detector!Undecodable, Camera!Detector!PredictError,
       Camera!Detector!Stamp, Camera!Detector!Store
  <1>4. Busy(w) /\ call[w].of = picked[w] /\ CallInOrder(w)
    BY <1>3 DEF Silent, CallInOrder
  <1>5. ASSUME UNCHANGED latest, NEW r, call' = [call EXCEPT ![w] = r], CallInOrder(w)' PROVE Silent'
    <2>1. LatestInOrder' /\ ShownInOrder'
      BY <1>1, <1>5 DEF Silent, LatestInOrder, ShownInOrder, Busy
    <2> QED BY <1>1, <1>4, <1>5, <2>1, CallsStayInOrder DEF Silent
  <1>6. ASSUME NEW a \in {"predict", "busy", "post", "done", "error"}, Camera!Detector!Go(w, a)
        PROVE  /\ call' = [call EXCEPT ![w] = [call[w] EXCEPT !.at = a]]
               /\ call'[w].at = a /\ call'[w].of = call[w].of /\ call'[w].result = call[w].result
    BY <1>1, <1>2, <1>6 DEF Camera!Detector!Go, Calls
  <1>7. CASE Camera!Detector!TryLock(w) \/ Camera!Detector!Predict(w)
             \/ Camera!Detector!Undecodable(w) \/ Camera!Detector!PredictError(w)
    <2>1. UNCHANGED latest /\ call[w].at \in {"try", "predict"}
          /\ \E a \in {"predict", "busy", "post", "done", "error"} : Camera!Detector!Go(w, a)
      BY <1>7 DEF Camera!Detector!TryLock, Camera!Detector!Predict, Camera!Detector!Undecodable,
         Camera!Detector!PredictError
    <2>2. PICK a \in {"predict", "busy", "post", "done", "error"} : Camera!Detector!Go(w, a)
      BY <2>1
    <2>3. CallInOrder(w)'
      BY <1>1, <1>4, <1>6, <2>1, <2>2 DEF CallInOrder, Busy
    <2> QED BY <1>5, <1>6, <2>1, <2>2, <2>3
  <1>8. ASSUME NEW n, Camera!Detector!Fetch(w, n)
        PROVE  /\ call' = [call EXCEPT ![w] = [call[w] EXCEPT !.at = "write", !.result = n]]
               /\ call'[w].at = "write" /\ call'[w].of = call[w].of /\ call'[w].result = n
    BY <1>1, <1>2, <1>8 DEF Camera!Detector!Fetch, Calls
  <1>9. CASE Camera!Detector!BusyRead(w)
    <2>1. UNCHANGED latest /\ Camera!Detector!Fetch(w, latest)
      BY <1>9 DEF Camera!Detector!BusyRead
    <2>2. CallInOrder(w)'
      BY <1>1, <1>4, <1>8, <2>1 DEF CallInOrder, Busy
    <2> QED BY <1>5, <1>8, <2>1, <2>2
  <1>10. CASE Camera!Detector!Stamp(w)
    <2> DEFINE n == [of |-> call[w].of, stamp |-> clock']
    <2>1. UNCHANGED latest /\ Camera!Detector!Fetch(w, n) /\ n.of = call[w].of
      BY <1>10 DEF Camera!Detector!Stamp
    <2> HIDE DEF n
    <2>2. CallInOrder(w)'
      BY <1>1, <1>4, <1>8, <2>1 DEF CallInOrder, Busy
    <2> QED BY <1>5, <1>8, <2>1, <2>2
  <1>11. CASE Camera!Detector!Store(w)
    <2>1. call[w].at = "write" /\ Camera!Detector!Go(w, "done") /\ latest' = call[w].result
      BY <1>11 DEF Camera!Detector!Store
    <2>2. latest'.of = latest.of \/ latest'.of = picked[w]
      BY <1>4, <2>1 DEF CallInOrder
    <2>3. picked[w] \in 1 .. frameSeq /\ frameSeq \in Nat
      BY <1>4 DEF Busy, CameraInv, FrameInv
    <2>4. CallInOrder(w)'
      BY <1>1, <1>4, <1>6, <2>1 DEF CallInOrder, Busy
    <2>5. \A v \in Workers : Busy(v) => v = w
      BY <1>4 DEF WorkerInv
    <2>6. LatestInOrder'
      BY <1>1, <2>2, <2>3, <2>5 DEF Silent, LatestInOrder, Busy
    <2>7. ShownInOrder'
      BY <1>1, <1>4, <2>2, <2>3 DEF Silent, LatestInOrder, ShownInOrder, Busy
    <2> QED BY <1>1, <1>4, <1>6, <2>1, <2>4, <2>6, <2>7, CallsStayInOrder DEF Silent
  <1> QED BY <1>1, <1>7, <1>9, <1>10, <1>11 DEF Camera!Detector!Step

LEMMA SilentFrames ==
  ASSUME CameraInv, WorkerInv, Silent, Camera!RouteDetect
  PROVE  Silent'
  <1>1. /\ UNCHANGED <<latest, call, picked, displayed>> /\ frameSeq' = frameSeq + 1
        /\ frameSeq \in Nat
    BY DEF Camera!RouteDetect, Camera!Service!Enqueue, Camera!detector, CameraInv, FrameInv
  <1>2. LatestInOrder' /\ ShownInOrder'
    BY <1>1 DEF Silent, LatestInOrder, ShownInOrder, Busy
  <1> QED BY <1>1, <1>2 DEF Silent, CallInOrder, Busy

LEMMA SilentWorker ==
  ASSUME CameraInv, WorkerInv, Silent, NEW w \in Workers, Camera!Worker(w)
  PROVE  Silent' /\ (displayed # NoPicture /\ displayed' # NoPicture => displayed' >= displayed)
  <1> USE DEF Camera!Detector!At
  <1>1. w \in Camera!Callers /\ call \in [Camera!Callers -> Calls] /\ call[w] \in Calls
        /\ picked \in [Workers -> 1 .. MaxFrames \cup {NoPicture}]
        /\ frameSeq \in Nat
    BY DEF CameraInv, FrameInv, LockInv, Camera!Detector!DetectorTypeOK, Calls, Camera!Callers
  <1>2. CASE Camera!WorkerPick(w)
    <2>1. /\ ~Busy(w) /\ w \in alive /\ picked' = [picked EXCEPT ![w] = frameSeq]
          /\ UNCHANGED <<latest, call, frameSeq, displayed>>
      BY <1>2 DEF Camera!WorkerPick, Camera!Service!Pick, Camera!detector, Busy
    <2>2. \A v \in Workers : ~Busy(v)
      BY <2>1 DEF WorkerInv
    <2>3. \A v \in Workers : call[v].at = "idle"
      BY <2>2 DEF Silent, CallInOrder
    <2>4. \A v \in Workers : CallInOrder(v)'
      BY <2>1, <2>3 DEF CallInOrder
    <2>5. \A v \in Workers : Busy(v)' => picked'[v] = frameSeq
      BY <1>1, <2>1, <2>2 DEF Busy
    <2>6. LatestInOrder' /\ ShownInOrder'
      BY <1>1, <2>1, <2>5 DEF Silent, LatestInOrder, ShownInOrder
    <2>7. displayed # NoPicture => displayed' >= displayed
      BY <2>1 DEF Silent, ShownInOrder
    <2> QED BY <2>1, <2>4, <2>6, <2>7 DEF Silent
  <1>3. CASE Camera!WorkerDetect(w)
    <2> DEFINE r == IF Camera!Detector!Fresh
                    THEN [at |-> "write", of |-> picked[w], result |-> latest]
                    ELSE [at |-> "try", of |-> picked[w], result |-> Camera!Detector!Empty]
    <2>1. /\ Busy(w) /\ call' = [call EXCEPT ![w] = r]
          /\ UNCHANGED <<latest, picked, frameSeq, displayed>>
      BY <1>3 DEF Camera!WorkerDetect, Camera!Detector!Enter, Camera!service, Busy
    <2>2. /\ r.at \in {"write", "try"} /\ r.of = picked[w]
          /\ r.at = "write" => r.result.of = latest.of
          /\ r.at = "try" => r.result.of = NoPicture
      BY DEF Camera!Detector!Empty
    <2> HIDE DEF r
    <2>3. CallInOrder(w)'
      BY <1>1, <2>1, <2>2 DEF CallInOrder, Busy
    <2>4. LatestInOrder' /\ ShownInOrder'
      BY <2>1 DEF Silent, LatestInOrder, ShownInOrder, Busy
    <2>5. displayed # NoPicture => displayed' >= displayed
      BY <2>1 DEF Silent, ShownInOrder
    <2> QED BY <2>1, <2>3, <2>4, <2>5, CallsStayInOrder DEF Silent
  <1>4. CASE Camera!WorkerDone(w)
    <2>1. /\ Busy(w) /\ picked' = [picked EXCEPT ![w] = NoPicture]
          /\ call' = [call EXCEPT ![w] = Camera!Detector!Idle]
          /\ UNCHANGED <<latest, frameSeq>>
          /\ \/ displayed' = displayed
             \/ call[w].at = "done" /\ displayed' = call[w].result.of
      BY <1>4 DEF Camera!WorkerDone, Camera!Detector!Leave, Camera!Service!Finish,
         Camera!Service!Fail, Busy
    <2>2. Camera!Detector!Idle.at = "idle"
      BY DEF Camera!Detector!Idle
    <2>3. \A c \in Camera!Callers : call'[c].at = "idle"
      <3>1. call'[w].at = "idle"
        BY <1>1, <2>1, <2>2
      <3>2. \A c \in Camera!Callers : c # w => call'[c] = call[c] /\ call[c].at = "idle"
        BY <1>1, <2>1, OthersAreIdle
      <3> QED BY <3>1, <3>2
    <2>4. \A v \in Workers : CallInOrder(v)'
      BY <2>3 DEF CallInOrder, Camera!Callers
    <2>5. LatestInOrder'
      BY <1>1, <2>1 DEF Silent, LatestInOrder, Busy
    <2>6. displayed' \in {displayed, NoPicture, latest.of}
      BY <2>1 DEF Silent, CallInOrder
    <2>7. ShownInOrder'
      BY <1>1, <2>1, <2>6 DEF Silent, ShownInOrder, LatestInOrder
    <2>8. displayed # NoPicture /\ displayed' # NoPicture => displayed' >= displayed
      BY <2>6 DEF Silent, ShownInOrder
    <2> QED BY <2>3, <2>4, <2>5, <2>7, <2>8 DEF Silent, Camera!Callers
  <1> QED BY <1>2, <1>3, <1>4 DEF Camera!Worker

LEMMA OrderStep == CameraInv /\ OrderInv /\ Camera!Next => OrderInv' /\ InOrder
  <1> SUFFICES ASSUME CameraInv, OrderInv, Camera!Next PROVE OrderInv' /\ InOrder
    OBVIOUS
  <1> DEFINE Shown == displayed # NoPicture /\ displayed' # NoPicture => displayed' >= displayed
  <1>1. WorkerInv /\ WorkerInv' /\ processed' >= processed /\ phoneSent \in Nat
    BY WorkerStep DEF OrderInv, WorkerInv
  <1>2. ASSUME Silent, UNCHANGED displayed PROVE Shown
    BY <1>2 DEF Silent, ShownInOrder
  <1>3. ASSUME Silent, phoneSent = 0 PROVE (phoneSent' = 0 => Silent') /\ Shown
    <2>1. CASE Camera!RouteDetect
      <3>1. UNCHANGED displayed
        BY <2>1 DEF Camera!RouteDetect, Camera!Service!Enqueue
      <3> QED BY <1>1, <1>2, <1>3, <2>1, <3>1, SilentFrames
    <2>2. CASE Camera!Time
      <3>1. UNCHANGED <<displayed, latest, call, frameSeq, picked>>
        BY <2>2 DEF Camera!Time, Camera!Detector!Age, Camera!service
      <3> QED BY <1>2, <1>3, <3>1 DEF Silent, CallInOrder, LatestInOrder, ShownInOrder, Busy
    <2>3. ASSUME NEW p \in PhoneThreads, Camera!RoutePhone(p)
          PROVE  (phoneSent' = 0 => Silent') /\ Shown
      <3>1. phoneSent' # 0 /\ UNCHANGED displayed
        BY <1>3, <2>3 DEF Camera!RoutePhone, Camera!service
      <3> QED BY <1>2, <1>3, <3>1
    <2>4. ASSUME NEW p \in PhoneThreads, Camera!PhoneAnswered(p) PROVE FALSE
      BY <1>3, <2>4 DEF Camera!PhoneAnswered, Camera!Detector!Leave, Silent
    <2>5. ASSUME NEW w \in Workers, Camera!Worker(w) PROVE Silent' /\ Shown
      BY <1>1, <1>3, <2>5, SilentWorker
    <2>6. ASSUME NEW c \in Camera!Callers, Camera!DetectorStep(c) PROVE Silent' /\ Shown
      <3>1. UNCHANGED displayed
        BY <2>6 DEF Camera!DetectorStep, Camera!service
      <3>2. c \in Workers
        <4>1. c \notin PhoneThreads
          BY <1>3, <2>6 DEF Silent, Camera!DetectorStep, Camera!Detector!Step, Camera!Detector!At,
             Camera!Detector!TryLock, Camera!Detector!BusyRead, Camera!Detector!Predict,
             Camera!Detector!Undecodable, Camera!Detector!PredictError, Camera!Detector!Stamp,
             Camera!Detector!Store
        <4> QED BY <4>1 DEF Camera!Callers
      <3> QED BY <1>1, <1>2, <1>3, <2>6, <3>1, <3>2, SilentDetector
    <2> QED BY <2>1, <2>2, <2>3, <2>4, <2>5, <2>6 DEF Camera!Next
  <1>4. ASSUME phoneSent # 0 PROVE phoneSent' # 0
    <2>1. phoneSent' = phoneSent \/ phoneSent' = phoneSent + 1
      BY DEF Camera!Next, Camera!RouteDetect, Camera!Time, Camera!RoutePhone, Camera!PhoneAnswered,
         Camera!Worker, Camera!WorkerPick, Camera!WorkerDetect, Camera!WorkerDone, Camera!DetectorStep
    <2> QED BY <1>1, <1>4, <2>1
  <1> HIDE DEF Shown
  <1>5. phoneSent' = 0 => Silent'
    BY <1>3, <1>4 DEF OrderInv
  <1>6. phoneSent = 0 => Shown
    BY <1>3 DEF OrderInv
  <1> QED BY <1>1, <1>5, <1>6 DEF OrderInv, InOrder, Shown

LEMMA OrderKept == CameraInv /\ OrderInv /\ [ProcessNext]_all => OrderInv' /\ [InOrder]_(Camera!vars)
  <1> SUFFICES ASSUME CameraInv, OrderInv, [ProcessNext]_all
               PROVE  OrderInv' /\ [InOrder]_(Camera!vars)
    OBVIOUS
  <1>1. CASE UNCHANGED camera
    BY <1>1 DEF camera, OrderInv, WorkerInv, Silent, CallInOrder, LatestInOrder, ShownInOrder, Busy,
       Camera!vars, Camera!detector, Camera!service
  <1>2. CASE Camera!Next
    BY <1>2, OrderStep
  <1> QED BY <1>1, <1>2 DEF ProcessNext, StopRests, StateRests, GateRests, ServerRests, all

\* The safety half of FramesAnswered, for any workers, phone threads and frames: results come in
\* the order of the frames, and while the phone is silent so do the pictures shown, whatever is
\* dropped, cached or failed on the way (async_yolo._worker_loop, yolo_detector.detect_bytes).
THEOREM ResultsStayInOrder == ProcessSpec => Camera!ResultsInOrder
  <1>1. ProcessInit => CameraInv /\ OrderInv
    <2> SUFFICES ASSUME ProcessInit PROVE CameraInv /\ OrderInv
      OBVIOUS
    <2>1. Camera!Init
      BY DEF ProcessInit
    <2>2. /\ latest = Camera!Detector!Empty /\ phoneSent = 0 /\ displayed = NoPicture /\ alive = {}
          /\ call = [c \in Camera!Callers |-> Camera!Detector!Idle]
          /\ picked = [w \in Workers |-> NoPicture]
      BY <2>1 DEF Camera!Init, Camera!Detector!Init, Camera!Service!Init
    <2>3. \A c \in Camera!Callers : call[c].at = "idle"
      BY <2>2 DEF Camera!Detector!Idle
    <2>4. latest.of = NoPicture
      BY <2>2 DEF Camera!Detector!Empty
    <2>5. WorkerInv
      BY <2>2 DEF WorkerInv, Busy
    <2>6. Silent
      BY <2>2, <2>3, <2>4 DEF Silent, CallInOrder, LatestInOrder, ShownInOrder, Camera!Callers
    <2> QED BY <2>1, <2>5, <2>6, CameraStarts DEF CameraInv, OrderInv
  <1>2. CameraInv /\ OrderInv /\ [ProcessNext]_all => [InOrder]_(Camera!vars)
    BY OrderKept
  <1> QED BY <1>1, <1>2, CameraKept, OrderKept, PTL
          DEF ProcessSpec, Camera!ResultsInOrder, InOrder
=============================================================================
