---------------------------- MODULE Field_proofs ----------------------------
(***************************************************************************)
(* Theorems of Field.  The parts share no state, so each has an invariant  *)
(* of its own, kept by its own steps and left alone by everybody else's.   *)
(***************************************************************************)
EXTENDS Field, FiniteSetTheorems, TLAPS

-----------------------------------------------------------------------------
(* The files of a reconnaissance: what belongs to the leg that runs, from  *)
(* the step of the manager that makes it so.                               *)

Numbers == {0, 1, 2, 3}
Copies  == [disc : 0 .. 4, terr : SUBSET (1 .. 4)]

RoundsTypes ==
    /\ leg \in {1, 2} /\ stack \in {0, leg} /\ (mapper => stack # 0)
    /\ pc \in {"prepare", "reset", "drive", "save", "finalize", "copy", "check", "copy_terrain", "kill",
               "back", "done", "aborted"}
    /\ disc \in Numbers /\ report \in [{1, 2} -> Numbers]
    /\ terr \in SUBSET {1, 2, 3} /\ points \in SUBSET {1, 2, 3}
    /\ reset \in {0, 1} /\ finalize \in {0, 1, 2} /\ out \in [{1, 2} -> Copies] /\ cleared \in BOOLEAN

Filed == {"save", "finalize", "copy", "check", "copy_terrain"}
Copied == {"check", "copy_terrain", "kill", "back", "done"}

\* What is new since the leg's t_start is the leg's; what the recorder has since it was cleared is too.
OwnInv ==
    /\ pc = "back" => leg = 1
    /\ pc \in {"prepare", "reset", "back", "done", "aborted"} => stack = 0
    /\ pc \notin {"prepare", "aborted"} => report[leg] \in {0, leg}
    /\ leg = 2 => report[1] \in {0, 1} /\ out[1].disc \in {0, 1, 4}
    /\ pc \in Filed /\ discFresh => disc = leg
    /\ pc \in Copied => out[leg].disc \in {0, leg, 4}
    /\ cleared /\ pc \notin {"prepare", "aborted"} => points \subseteq {leg} /\ (saving => terr \subseteq {leg})
    /\ cleared /\ pc \in Filed /\ terrFresh => terr \subseteq {leg}
    /\ pc = "copy_terrain" => terrFresh
    /\ cleared /\ pc \in {"kill", "back", "done"} =>
           out[leg].terr \subseteq {leg} \/ out[leg].terr = {4}

RoundsInv == RoundsTypes /\ OwnInv

LEMMA RoundsStart == Rounds!RoutesInit => RoundsInv
  <1> SUFFICES ASSUME Rounds!RoutesInit PROVE RoundsInv
    OBVIOUS
  <1> USE DEF Rounds!RoutesInit, Rounds!Routes, Rounds!Nothing, Rounds!Old
  <1>1. PICK o \in {0, 3} : out = [r \in {1, 2} |-> [disc |-> o, terr |-> {o} \ {0}]]
    OBVIOUS
  <1>2. out \in [{1, 2} -> Copies]
    BY <1>1 DEF Copies, Numbers
  <1>3. RoundsTypes
    BY <1>2 DEF RoundsTypes, Numbers
  <1>4. OwnInv
    BY DEF OwnInv, Filed, Copied
  <1> QED BY <1>3, <1>4 DEF RoundsInv

\* A terrain that is removed is gone, or is known to have resisted.
LEMMA TerrainGoes ==
  ASSUME leg \in {1, 2}, out \in [{1, 2} -> Copies], NEW there, Rounds!RemoveTerrain(there)
  PROVE  /\ out' \in [{1, 2} -> Copies]
         /\ out'[leg].terr = {} \/ out'[leg].terr = {4}
         /\ \A r \in {1, 2} : out'[r].disc = out[r].disc
  BY DEF Rounds!RemoveTerrain, Rounds!Resisted, Copies

LEMMA RoundsStep == RoundsInv /\ Rounds!RoutesStep => RoundsInv'
  <1> SUFFICES ASSUME RoundsInv, Rounds!RoutesStep PROVE RoundsInv'
    OBVIOUS
  <1> USE DEF RoundsInv, RoundsTypes, OwnInv, Filed, Copied, Numbers, Rounds!Nothing, Rounds!Old, Rounds!files, Rounds!recorder
  <1>1. CASE Rounds!Prepare
    BY <1>1 DEF Rounds!Prepare
  <1>2. CASE Rounds!Launch
    BY <1>2 DEF Rounds!Launch
  <1>3. CASE Rounds!Arrive
    BY <1>3 DEF Rounds!Arrive
  <1>4. CASE Rounds!GiveUp
    <2>1. RoundsTypes'
      BY <1>4 DEF Rounds!GiveUp
    <2>2. OwnInv'
      BY <1>4 DEF Rounds!GiveUp
    <2> QED BY <2>1, <2>2
  <1>5. CASE Rounds!Save
    BY <1>5 DEF Rounds!Save
  <1>6. CASE Rounds!CallFinalize
    BY <1>6 DEF Rounds!CallFinalize
  <1>7. CASE Rounds!CopyDisc
    <2>1. /\ out' \in [{1, 2} -> Copies] /\ out'[leg].disc \in {0, leg, 4}
          /\ \A r \in {1, 2} \ {leg} : out'[r] = out[r]
      BY <1>7 DEF Rounds!CopyDisc, Rounds!RemoveDisc, Rounds!Resisted, Rounds!GoodDisc, Copies
    <2> QED BY <1>7, <2>1 DEF Rounds!CopyDisc
  <1>8. CASE Rounds!CheckTerrain
    <2>1. CASE pc' = "copy_terrain" /\ UNCHANGED out
      BY <1>8, <2>1 DEF Rounds!CheckTerrain
    <2>2. CASE pc' = "kill" /\ Rounds!RemoveTerrain(out[leg].terr # {})
      BY <1>8, <2>2, TerrainGoes DEF Rounds!CheckTerrain
    <2> QED BY <1>8, <2>1, <2>2 DEF Rounds!CheckTerrain
  <1>9. CASE Rounds!CopyTerrain
    <2>1. CASE Rounds!RemoveTerrain(TRUE)
      <3>1. /\ out' \in [{1, 2} -> Copies]
            /\ out'[leg].terr = {} \/ out'[leg].terr = {4}
            /\ \A r \in {1, 2} : out'[r].disc = out[r].disc
        BY <2>1, TerrainGoes
      <3>2. pc' = "kill" /\ UNCHANGED <<leg, stack, mapper, report, disc, discFresh, terr, terrFresh, points, reset, finalize, saving, cleared>>
        BY <1>9 DEF Rounds!CopyTerrain
      <3>3. RoundsTypes'
        BY <3>1, <3>2
      <3>4. OwnInv'
        BY <1>9, <3>1, <3>2 DEF Rounds!CopyTerrain
      <3> QED BY <3>3, <3>4
    <2>2. CASE ~saving /\ out' = [out EXCEPT ![leg].terr = terr]
      <3>1. /\ out' \in [{1, 2} -> Copies] /\ out'[leg].terr = terr
            /\ \A r \in {1, 2} : out'[r].disc = out[r].disc
        BY <2>2 DEF Copies
      <3> QED BY <1>9, <2>2, <3>1 DEF Rounds!CopyTerrain
    <2> QED BY <1>9, <2>1, <2>2 DEF Rounds!CopyTerrain
  <1>10. CASE Rounds!Kill
    BY <1>10 DEF Rounds!Kill
  <1>11. CASE Rounds!Back
    BY <1>11 DEF Rounds!Back
  <1>12. CASE Rounds!Drive
    BY <1>12 DEF Rounds!Drive
  <1>13. CASE Rounds!Restart
    BY <1>13 DEF Rounds!Restart
  <1>14. CASE Rounds!Report
    BY <1>14 DEF Rounds!Report
  <1>15. CASE Rounds!MapperDies
    BY <1>15 DEF Rounds!MapperDies
  <1>16. CASE Rounds!Record
    BY <1>16 DEF Rounds!Record
  <1>17. CASE Rounds!ResetService
    <2>1. RoundsTypes'
      BY <1>17 DEF Rounds!ResetService
    <2>2. OwnInv'
      BY <1>17 DEF Rounds!ResetService
    <2> QED BY <2>1, <2>2
  <1>18. CASE Rounds!FinalizeService
    <2>1. finalize' \in {0, 1, 2}
      BY <1>18 DEF Rounds!FinalizeService
    <2>2. UNCHANGED <<leg, pc, stack, mapper, report, disc, discFresh, points, reset, out, cleared>>
      BY <1>18 DEF Rounds!FinalizeService
    <2>3. CASE UNCHANGED <<saving, terr, terrFresh>>
      <3>1. RoundsTypes'
        BY <2>1, <2>2, <2>3
      <3>2. OwnInv'
        BY <2>2, <2>3
      <3> QED BY <3>1, <3>2
    <2>4. CASE saving' /\ terr' = points /\ terrFresh'
      <3>1. RoundsTypes'
        BY <2>1, <2>2, <2>4
      <3>2. OwnInv'
        BY <2>2, <2>4
      <3> QED BY <3>1, <3>2
    <2> QED BY <1>18, <2>3, <2>4 DEF Rounds!FinalizeService
  <1>19. CASE Rounds!Saved
    BY <1>19 DEF Rounds!Saved
  <1>20. CASE Rounds!RecorderFails
    <2>1. RoundsTypes'
      BY <1>20 DEF Rounds!RecorderFails
    <2>2. UNCHANGED <<leg, pc, stack, report, disc, discFresh, terrFresh, out>>
      BY <1>20 DEF Rounds!RecorderFails
    <2>3. points' = {} /\ ~saving' /\ terr' \subseteq terr
      BY <1>20 DEF Rounds!RecorderFails
    <2>4. pc \notin {"reset", "drive"} => UNCHANGED cleared
      BY <1>20 DEF Rounds!RecorderFails
    <2>5. OwnInv'
      <3>1. CASE pc \in {"reset", "drive"}
        BY <2>2, <2>3, <3>1
      <3>2. CASE pc \notin {"reset", "drive"}
        <4>1. UNCHANGED <<leg, pc, stack, report, disc, discFresh, terrFresh, out, cleared>>
          BY <2>2, <2>4, <3>2
        <4>2. /\ (pc = "back" => leg = 1)'
              /\ (pc \in {"prepare", "reset", "back", "done", "aborted"} => stack = 0)'
              /\ (pc \notin {"prepare", "aborted"} => report[leg] \in {0, leg})'
              /\ (leg = 2 => report[1] \in {0, 1} /\ out[1].disc \in {0, 1, 4})'
              /\ (pc \in Filed /\ discFresh => disc = leg)'
              /\ (pc \in Copied => out[leg].disc \in {0, leg, 4})'
              /\ (pc = "copy_terrain" => terrFresh)'
              /\ (cleared /\ pc \in {"kill", "back", "done"} =>
                     out[leg].terr \subseteq {leg} \/ out[leg].terr = {4})'
          BY <4>1
        <4>3. (cleared /\ pc \in Filed /\ terrFresh => terr \subseteq {leg})'
          BY <2>3, <4>1
        <4>4. (cleared /\ pc \notin {"prepare", "aborted"} => points \subseteq {leg} /\ (saving => terr \subseteq {leg}))'
          BY <2>3
        <4> QED BY <4>2, <4>3, <4>4
      <3> QED BY <3>1, <3>2
    <2> QED BY <2>1, <2>5
  <1>21. CASE Rounds!RecorderStarts
    BY <1>21 DEF Rounds!RecorderStarts
  <1> QED
    BY <1>1, <1>2, <1>3, <1>4, <1>5, <1>6, <1>7, <1>8, <1>9, <1>10, <1>11, <1>12, <1>13, <1>14, <1>15,
       <1>16, <1>17, <1>18, <1>19, <1>20, <1>21 DEF Rounds!RoutesStep, Rounds!Manager

LEMMA RoundsHold == RoundsInv => Rounds!RoutesTypeOK /\ Rounds!ArtifactsAreOwn
  <1> SUFFICES ASSUME RoundsInv PROVE Rounds!RoutesTypeOK /\ Rounds!ArtifactsAreOwn
    OBVIOUS
  <1>1. Rounds!RoutesTypeOK
    BY DEF RoundsInv, RoundsTypes, Numbers, Rounds!RoutesTypeOK, Rounds!Routes, Rounds!Nothing, Rounds!Old
  <1>2. Rounds!ArtifactsAreOwn
    BY DEF RoundsInv, RoundsTypes, OwnInv, Filed, Copied, Copies, Numbers, Rounds!ArtifactsAreOwn, Rounds!Finished,
           Rounds!Own, Rounds!Routes, Rounds!Nothing, Rounds!Resisted
  <1> QED BY <1>1, <1>2

-----------------------------------------------------------------------------
(* The judgement: nothing old is left once the stack of the mission runs.  *)

MissionInv ==
    /\ step \in {"clean", "remove", "launch", "watch", "done"} /\ nodes \in {"none", "old", "own"}
    /\ reached \in {"none", "old", "own"} /\ near \in 0 .. Stable + 1
    /\ outcome \in {"none", "success", "aborted", "timeout"} /\ (outcome = "none" <=> step # "done")
    /\ step # "clean" => nodes # "old"
    /\ step \notin {"clean", "remove"} => reached # "old"

LEMMA MissionStarts == Mission!MissionInit => MissionInv
  BY FieldAssumption DEF Mission!MissionInit, MissionInv

LEMMA MissionKept == MissionInv /\ Mission!MissionStep => MissionInv'
  <1> SUFFICES ASSUME MissionInv, Mission!MissionStep PROVE MissionInv'
    OBVIOUS
  <1> USE FieldAssumption DEF MissionInv, Mission!world, Mission!watcher, Mission!judge
  <1>1. CASE Mission!Prepare
    BY <1>1 DEF Mission!Prepare, Mission!CleanUp, Mission!RemoveResults
  <1>2. CASE Mission!LaunchStack
    BY <1>2 DEF Mission!LaunchStack
  <1>3. CASE Mission!Poll
    BY <1>3 DEF Mission!Poll, Mission!End
  <1>4. CASE Mission!TimeOut
    BY <1>4 DEF Mission!TimeOut, Mission!End
  <1>5. CASE Mission!Pose \/ Mission!Status \/ Mission!Move \/ Mission!Retreat
    BY <1>5 DEF Mission!Pose, Mission!Status, Mission!Move, Mission!Retreat
  <1>6. CASE Mission!Arrived
    BY <1>6 DEF Mission!Arrived
  <1> QED BY <1>1, <1>2, <1>3, <1>4, <1>5, <1>6 DEF Mission!MissionStep

-----------------------------------------------------------------------------
(* The tracks of the phone, and what the mux makes of them.                *)

Lives == 0 .. Phone!Lifetime(TRUE)
Track == [id : Nat, class : PhoneClasses, wall : Int, dist : Int, seen : 0 .. Ttl + 1, left : Lives, locked : BOOLEAN]

\* A set of tracks of which the first n numbers are given.
Sound(ts, n) ==
    /\ ts \subseteq Track /\ IsFiniteSet(ts)
    /\ \A t \in ts : t.id \in 1 .. n
    /\ \A t, u \in ts : t.id = u.id => t = u
    /\ \A t \in ts : t.locked \/ t.left = 0 \/ t.seen + t.left <= Ttl

\* Every track of ts goes on a track of old ones, with its wall, or has a new number.
GoesOn(old, n, ts) == \A u \in ts : u.id > n \/ \E t \in old : t.id = u.id /\ t.wall = u.wall

Few(ts) == Cardinality(ts) <= MaxTracks

PhoneInv ==
    /\ here \in 0 .. Road /\ inject \in BOOLEAN /\ made \in 0 .. TrackIds
    /\ Sound(tracks, made) /\ Few(tracks)
    /\ wallAge \in 0 .. PhoneTtl + 1 /\ realAge \in 0 .. RealTtl + 1 /\ real \subseteq Rocks
    /\ wall \subseteq Track /\ \A t \in wall : t.locked \/ t.seen < Ttl

LEMMA LifetimeFacts ==
    /\ Phone!Lifetime(FALSE) = Ttl /\ Ttl \in Lives /\ Phone!Lifetime(TRUE) \in Lives
    /\ Phone!Lifetime(TRUE) \in Nat
  BY FieldAssumption DEF Phone!Lifetime, Lives

LEMMA SoundSubset ==
  ASSUME NEW ts, NEW n, Sound(ts, n), NEW S \in SUBSET ts
  PROVE  Sound(S, n)
  <1>1. IsFiniteSet(S)
    BY FS_Subset DEF Sound
  <1> QED BY <1>1 DEF Sound

LEMMA TrackOf ==
  ASSUME NEW i \in Nat, NEW c \in PhoneClasses, NEW w \in Int, NEW d \in Int, NEW s \in 0 .. Ttl + 1,
         NEW l \in Lives, NEW b \in BOOLEAN
  PROVE  [id |-> i, class |-> c, wall |-> w, dist |-> d, seen |-> s, left |-> l, locked |-> b] \in Track
  BY DEF Track

LEMMA LockAllSound ==
  ASSUME NEW n \in Nat, Sound(tracks, n), NEW lock \in BOOLEAN
  PROVE  Sound(Phone!LockAll(lock), n) /\ GoesOn(tracks, n, Phone!LockAll(lock))
         /\ Cardinality(Phone!LockAll(lock)) <= Cardinality(tracks)
  <1> DEFINE L == Phone!LockAll(lock)
             F(t) == IF lock THEN [t EXCEPT !.locked = TRUE, !.left = Phone!Lifetime(TRUE)] ELSE t
             f == [t \in tracks |-> F(t)]
  <1>1. L = {F(t) : t \in tracks}
    BY DEF Phone!LockAll
  <1>2. \A t \in tracks : F(t) \in Track /\ F(t).id = t.id /\ F(t).wall = t.wall /\ F(t).seen = t.seen
                          /\ (F(t).locked \/ (F(t) = t))
    <2> SUFFICES ASSUME NEW t \in tracks
                 PROVE  F(t) \in Track /\ F(t).id = t.id /\ F(t).wall = t.wall /\ F(t).seen = t.seen
                          /\ (F(t).locked \/ (F(t) = t))
      OBVIOUS
    <2>1. t \in Track
      BY DEF Sound
    <2>2. CASE lock
      <3>1. F(t) = [id |-> t.id, class |-> t.class, wall |-> t.wall, dist |-> t.dist, seen |-> t.seen,
                    left |-> Phone!Lifetime(TRUE), locked |-> TRUE]
        BY <2>1, <2>2 DEF Track
      <3> HIDE DEF F
      <3>2. F(t).id = t.id /\ F(t).wall = t.wall /\ F(t).seen = t.seen /\ F(t).locked
        BY <3>1
      <3>3. F(t) \in Track
        <4>1. /\ t.id \in Nat /\ t.class \in PhoneClasses /\ t.wall \in Int /\ t.dist \in Int
              /\ t.seen \in 0 .. Ttl + 1
          BY <2>1 DEF Track
        <4> DEFINE life == Phone!Lifetime(TRUE)
                   long == [id |-> t.id, class |-> t.class, wall |-> t.wall, dist |-> t.dist, seen |-> t.seen,
                            left |-> life, locked |-> TRUE]
        <4>2. life \in Lives /\ F(t) = long
          BY <3>1, LifetimeFacts
        <4> HIDE DEF life
        <4>3. long \in Track
          BY <4>1, <4>2, TrackOf
        <4> HIDE DEF long
        <4> QED BY <4>2, <4>3
      <3> QED BY <3>2, <3>3
    <2>3. CASE ~lock
      BY <2>1, <2>3
    <2> QED BY <2>2, <2>3
  <1> HIDE DEF F
  <1>3. f \in Surjection(tracks, L)
    BY <1>1 DEF Surjection
  <1>4. IsFiniteSet(L) /\ Cardinality(L) <= Cardinality(tracks)
    BY <1>3, FS_Surjection DEF Sound
  <1>5. Sound(L, n)
    <2>1. \A t, u \in L : t.id = u.id => t = u
      BY <1>1, <1>2 DEF Sound
    <2>2. \A t \in L : t.locked \/ t.left = 0 \/ t.seen + t.left <= Ttl
      BY <1>1, <1>2 DEF Sound
    <2> HIDE DEF L
    <2> QED BY <1>1, <1>2, <1>4, <2>1, <2>2 DEF Sound
  <1>6. GoesOn(tracks, n, L)
    BY <1>1, <1>2 DEF GoesOn
  <1> QED BY <1>4, <1>5, <1>6

LEMMA SameCardinality == \A S : Phone!Cardinality(S) = Cardinality(S)
  BY DEF Phone!Cardinality, Phone!IsFiniteSet, Cardinality, IsFiniteSet

\* What is kept of sound tracks is sound, and few.
LEMMA KeptSound ==
  ASSUME NEW n \in Nat, NEW ts, Sound(ts, n), NEW keep \in Phone!Kept(ts)
  PROVE  Sound(keep, n) /\ Few(keep) /\ keep \subseteq ts
  <1>1. Phone!Alive(ts) \subseteq ts
    BY DEF Phone!Alive
  <1>2. keep \subseteq Phone!Alive(ts) /\ Few(keep)
    <2>1. CASE Cardinality(Phone!Alive(ts)) <= MaxTracks
      BY <2>1, SameCardinality DEF Phone!Kept, Few
    <2>2. CASE ~(Cardinality(Phone!Alive(ts)) <= MaxTracks)
      <3>1. keep \in Phone!kSubset(MaxTracks, Phone!Alive(ts))
        BY <2>2, SameCardinality DEF Phone!Kept
      <3>2. keep \subseteq Phone!Alive(ts) /\ Phone!Cardinality(keep) = MaxTracks
        BY <3>1 DEF Phone!kSubset
      <3> QED BY <3>2, SameCardinality, FieldAssumption DEF Few
    <2> QED BY <2>1, <2>2
  <1> QED BY <1>1, <1>2, SoundSubset

\* A track that is seen again keeps its number and its wall.
LEMMA ContinueKeeps ==
  ASSUME NEW t \in Track, NEW spotted \in Int, NEW dist \in Int, NEW lock \in BOOLEAN
  PROVE  LET c == Phone!Continue(t, spotted, dist, lock)
         IN  c \in Track /\ c.id = t.id /\ c.wall = t.wall /\ (c.locked \/ c.seen + c.left <= Ttl)
  <1> DEFINE c == Phone!Continue(t, spotted, dist, lock)
             locked == t.locked \/ lock
             life == Phone!Lifetime(locked)
             new == [id |-> t.id, class |-> t.class, wall |-> t.wall, dist |-> dist, seen |-> 0,
                     left |-> life, locked |-> locked]
  <1>1. locked \in BOOLEAN /\ life \in Lives /\ (locked \/ life = Ttl)
    <2>1. CASE locked = TRUE
      BY <2>1, LifetimeFacts
    <2>2. CASE locked = FALSE
      BY <2>2, LifetimeFacts
    <2>3. t.locked \in BOOLEAN
      BY DEF Track
    <2> QED BY <2>1, <2>2, <2>3
  <1> HIDE DEF locked, life
  <1>2. c = new
    <2>1. c = [t EXCEPT !.wall = t.wall, !.dist = dist, !.seen = 0, !.locked = locked, !.left = life]
      BY DEF Phone!Continue, Phone!KeptWall, locked, life
    <2> HIDE DEF c
    <2> QED BY <2>1 DEF Track
  <1>3. /\ t.id \in Nat /\ t.class \in PhoneClasses /\ t.wall \in Int /\ 0 \in 0 .. Ttl + 1
    BY FieldAssumption DEF Track
  <1>4. new \in Track
    BY <1>1, <1>3, TrackOf
  <1>5. new.id = t.id /\ new.wall = t.wall /\ new.locked = locked /\ new.seen = 0 /\ new.left = life
    OBVIOUS
  <1>6. new.locked \/ new.seen + new.left <= Ttl
    BY <1>1, <1>5, FieldAssumption
  <1> HIDE DEF c, new
  <1> QED BY <1>2, <1>4, <1>5, <1>6 DEF c

LEMMA NewTrackKeeps ==
  ASSUME NEW class \in PhoneClasses, NEW spotted \in Int, NEW dist \in Int, NEW lock \in BOOLEAN, made \in Nat
  PROVE  LET c == Phone!NewTrack(class, spotted, dist, lock)
         IN  c \in Track /\ c.id = made + 1 /\ (c.locked \/ c.seen + c.left <= Ttl)
  <1> DEFINE c == Phone!NewTrack(class, spotted, dist, lock)
             life == Phone!Lifetime(lock)
             new == [id |-> made + 1, class |-> class, wall |-> spotted, dist |-> dist, seen |-> 0,
                     left |-> life, locked |-> lock]
  <1>1. life \in Lives /\ (lock \/ life = Ttl)
    <2>1. CASE lock = TRUE
      BY <2>1, LifetimeFacts
    <2>2. CASE lock = FALSE
      BY <2>2, LifetimeFacts
    <2> QED BY <2>1, <2>2
  <1>2. c = new
    BY DEF Phone!NewTrack
  <1> HIDE DEF life
  <1>3. made + 1 \in Nat /\ 0 \in 0 .. Ttl + 1
    BY FieldAssumption
  <1>4. new \in Track
    BY <1>1, <1>3, TrackOf
  <1>5. new.id = made + 1 /\ new.locked = lock /\ new.seen = 0 /\ new.left = life
    OBVIOUS
  <1>6. new.locked \/ new.seen + new.left <= Ttl
    BY <1>1, <1>5, FieldAssumption
  <1> HIDE DEF c, new
  <1> QED BY <1>2, <1>4, <1>5, <1>6 DEF c

\* One more, or another in the place of one, is sound.
LEMMA SoundWith ==
  ASSUME NEW n \in Nat, NEW ts, Sound(ts, n), NEW c \in Track, c.locked \/ c.seen + c.left <= Ttl,
         c.id \in 1 .. n, \A t \in ts : t.id # c.id
  PROVE  Sound(ts \cup {c}, n)
  <1>1. IsFiniteSet(ts \cup {c})
    BY FS_AddElement DEF Sound
  <1>2. /\ ts \cup {c} \subseteq Track
        /\ \A t \in ts \cup {c} : t.id \in 1 .. n
        /\ \A t, u \in ts \cup {c} : t.id = u.id => t = u
        /\ \A t \in ts \cup {c} : t.locked \/ t.left = 0 \/ t.seen + t.left <= Ttl
    BY DEF Sound
  <1> QED BY <1>1, <1>2 DEF Sound

LEMMA SoundMore ==
  ASSUME NEW n \in Nat, NEW ts, Sound(ts, n)
  PROVE  Sound(ts, n + 1)
  <1>1. 1 .. n \subseteq 1 .. n + 1
    OBVIOUS
  <1> QED BY <1>1 DEF Sound

LEMMA FrameKeeps ==
  ASSUME PhoneInv, NEW c \in PhoneClasses, NEW d \in Sights, NEW lock \in BOOLEAN, Phone!Frame(c, d, lock)
  PROVE  PhoneInv' /\ GoesOn(tracks, made, tracks')
  <1> DEFINE spotted == here + d
             L == Phone!LockAll(lock)
  <1>1. spotted \in Int /\ d \in Int /\ made \in Nat /\ made + 1 \in Nat
    BY FieldAssumption DEF PhoneInv
  <1>2. Sound(L, made) /\ GoesOn(tracks, made, L)
    BY <1>1, LockAllSound DEF PhoneInv
  <1>3. UNCHANGED <<here, wall, wallAge, real, realAge>> /\ inject' = TRUE
    BY DEF Phone!Frame
  <1>4. ASSUME NEW t \in Phone!Match(c, spotted),
               tracks' \in Phone!Kept({u \in L : u.id # t.id} \cup {Phone!Continue(t, spotted, d, lock)}),
               UNCHANGED made
        PROVE  PhoneInv' /\ GoesOn(tracks, made, tracks')
    <2> DEFINE new == Phone!Continue(t, spotted, d, lock)
               rest == {u \in L : u.id # t.id}
    <2>1. t \in tracks /\ t \in Track /\ t.id \in 1 .. made
      BY DEF Phone!Match, PhoneInv, Sound
    <2>2. new \in Track /\ new.id = t.id /\ new.wall = t.wall /\ (new.locked \/ new.seen + new.left <= Ttl)
      BY <1>1, <2>1, ContinueKeeps
    <2>3. Sound(rest, made)
      BY <1>2, SoundSubset
    <2> HIDE DEF L
    <2>4. \A u \in rest : u.id # t.id
      OBVIOUS
    <2>5. rest \subseteq L
      OBVIOUS
    <2> HIDE DEF new, rest
    <2>6. Sound(rest \cup {new}, made)
      BY <1>1, <2>1, <2>2, <2>3, <2>4, SoundWith
    <2>7. GoesOn(tracks, made, rest \cup {new})
      BY <1>2, <2>1, <2>2, <2>5 DEF GoesOn
    <2>8. tracks' \in Phone!Kept(rest \cup {new})
      BY <1>4 DEF rest, new
    <2>9. Sound(tracks', made) /\ Few(tracks') /\ tracks' \subseteq rest \cup {new}
      BY <1>1, <2>6, <2>8, KeptSound
    <2>10. GoesOn(tracks, made, tracks')
      BY <2>7, <2>9 DEF GoesOn
    <2>11. PhoneInv'
      BY <1>3, <1>4, <2>9 DEF PhoneInv, Sound, Few
    <2> QED BY <2>10, <2>11
  <1>5. ASSUME made < TrackIds, made' = made + 1,
               tracks' \in Phone!Kept(L \cup {Phone!NewTrack(c, spotted, d, lock)})
        PROVE  PhoneInv' /\ GoesOn(tracks, made, tracks')
    <2> DEFINE new == Phone!NewTrack(c, spotted, d, lock)
    <2>1. new \in Track /\ new.id = made + 1 /\ (new.locked \/ new.seen + new.left <= Ttl)
      BY <1>1, NewTrackKeeps
    <2> HIDE DEF new, L
    <2>2. Sound(L, made + 1) /\ \A u \in L : u.id # made + 1
      <3>1. \A u \in L : u.id \in 1 .. made
        BY <1>2 DEF Sound
      <3> QED BY <1>1, <1>2, <3>1, SoundMore
    <2>3. made + 1 \in 1 .. made + 1
      BY <1>1
    <2>4. Sound(L \cup {new}, made + 1)
      BY <1>1, <2>1, <2>2, <2>3, SoundWith
    <2>5. GoesOn(tracks, made, L \cup {new})
      BY <1>1, <1>2, <2>1 DEF GoesOn
    <2>6. tracks' \in Phone!Kept(L \cup {new})
      BY <1>5 DEF L, new
    <2>7. Sound(tracks', made + 1) /\ Few(tracks') /\ tracks' \subseteq L \cup {new}
      BY <1>1, <2>4, <2>6, KeptSound
    <2>8. GoesOn(tracks, made, tracks')
      BY <2>5, <2>7 DEF GoesOn
    <2>9. made' \in 0 .. TrackIds
      BY <1>1, <1>5, FieldAssumption
    <2>10. PhoneInv'
      BY <1>3, <1>5, <2>7, <2>9 DEF PhoneInv, Sound, Few
    <2> QED BY <2>8, <2>10
  <1> HIDE DEF spotted, L
  <1>6. \/ \E t \in Phone!Match(c, spotted) :
             /\ tracks' \in Phone!Kept({u \in L : u.id # t.id} \cup {Phone!Continue(t, spotted, d, lock)})
             /\ UNCHANGED made
        \/ /\ made < TrackIds /\ made' = made + 1
           /\ tracks' \in Phone!Kept(L \cup {Phone!NewTrack(c, spotted, d, lock)})
    BY DEF Phone!Frame, spotted, L
  <1> QED BY <1>4, <1>5, <1>6

LEMMA PublishKeeps ==
  ASSUME PhoneInv, Phone!PublishWall
  PROVE  PhoneInv' /\ GoesOn(tracks, made, tracks')
  <1>1. made \in Nat
    BY FieldAssumption DEF PhoneInv
  <1>2. tracks' \subseteq tracks /\ (inject => tracks' = Phone!Alive(tracks))
    BY DEF Phone!PublishWall, Phone!Alive
  <1>3. UNCHANGED <<here, inject, made, real, realAge>>
    BY DEF Phone!PublishWall
  <1>4. Sound(tracks', made) /\ Few(tracks') /\ GoesOn(tracks, made, tracks')
    <2>1. Sound(tracks', made)
      BY <1>2, SoundSubset DEF PhoneInv
    <2>2. Cardinality(tracks') <= Cardinality(tracks) /\ Cardinality(tracks) \in Nat /\ Cardinality(tracks') \in Nat
      BY <1>2, <2>1, FS_Subset, FS_CardinalityType DEF PhoneInv, Sound
    <2>3. Few(tracks')
      BY <2>2, FieldAssumption DEF Few, PhoneInv
    <2>4. GoesOn(tracks, made, tracks')
      BY <1>2 DEF GoesOn
    <2> QED BY <2>1, <2>3, <2>4
  <1>5. CASE UNCHANGED <<wall, wallAge>>
    BY <1>3, <1>4, <1>5 DEF PhoneInv, Sound, Few
  <1>6. ASSUME inject, NEW t \in Phone!Nearest(tracks'), wall' = {t}, wallAge' = 0
        PROVE  PhoneInv'
    <2>1. t \in tracks /\ t.left > 0
      BY <1>2, <1>6 DEF Phone!Nearest, Phone!Alive
    <2>2. t \in Track /\ (t.locked \/ t.seen + t.left <= Ttl)
      BY <2>1 DEF PhoneInv, Sound
    <2>3. t.locked \/ t.seen < Ttl
      BY <2>1, <2>2, LifetimeFacts, FieldAssumption DEF Track, Lives
    <2>4. wallAge' \in 0 .. PhoneTtl + 1
      BY <1>6, FieldAssumption
    <2> QED BY <1>3, <1>4, <1>6, <2>2, <2>3, <2>4 DEF PhoneInv, Sound, Few
  <1> QED BY <1>4, <1>5, <1>6 DEF Phone!PublishWall

\* A second of every track.
LEMMA ClockKeeps ==
  ASSUME PhoneInv, Phone!PhoneClock
  PROVE  PhoneInv' /\ GoesOn(tracks, made, tracks')
  <1> DEFINE F(t) == [t EXCEPT !.left = IF t.left = 0 THEN 0 ELSE t.left - 1,
                               !.seen = IF t.seen > Ttl THEN t.seen ELSE t.seen + 1]
             f == [t \in tracks |-> F(t)]
  <1>1. tracks' = {F(t) : t \in tracks}
    BY DEF Phone!PhoneClock
  <1>2. \A t \in tracks : /\ F(t) \in Track /\ F(t).id = t.id /\ F(t).wall = t.wall
                          /\ F(t).locked \/ F(t).left = 0 \/ F(t).seen + F(t).left <= Ttl
    <2> SUFFICES ASSUME NEW t \in tracks
                 PROVE  /\ F(t) \in Track /\ F(t).id = t.id /\ F(t).wall = t.wall
                        /\ F(t).locked \/ F(t).left = 0 \/ F(t).seen + F(t).left <= Ttl
      OBVIOUS
    <2> DEFINE l == IF t.left = 0 THEN 0 ELSE t.left - 1
               s == IF t.seen > Ttl THEN t.seen ELSE t.seen + 1
               new == [id |-> t.id, class |-> t.class, wall |-> t.wall, dist |-> t.dist, seen |-> s,
                       left |-> l, locked |-> t.locked]
    <2>1. t \in Track /\ (t.locked \/ t.left = 0 \/ t.seen + t.left <= Ttl)
      BY DEF PhoneInv, Sound
    <2>2. /\ t.id \in Nat /\ t.class \in PhoneClasses /\ t.wall \in Int /\ t.dist \in Int
          /\ t.seen \in 0 .. Ttl + 1 /\ t.left \in Lives /\ t.locked \in BOOLEAN
      BY <2>1 DEF Track
    <2>3. l \in Lives /\ s \in 0 .. Ttl + 1
      <3> DEFINE top == Phone!Lifetime(TRUE)
      <3>1. top \in Nat /\ t.left \in 0 .. top
        BY <2>2, LifetimeFacts DEF Lives
      <3> HIDE DEF top
      <3>2. l \in 0 .. top
        BY <3>1
      <3>3. l \in Lives
        BY <3>2 DEF Lives, top
      <3>4. s \in 0 .. Ttl + 1
        BY <2>2, FieldAssumption
      <3> QED BY <3>3, <3>4
    <2>4. t.locked \/ l = 0 \/ s + l <= Ttl
      <3>1. t.left \in Nat /\ t.seen \in Nat
        BY <2>2, LifetimeFacts, FieldAssumption DEF Lives
      <3> QED BY <2>1, <3>1, FieldAssumption
    <2>5. F(t) = [t EXCEPT !.left = l, !.seen = s]
      OBVIOUS
    <2> HIDE DEF l, s, F
    <2>6. F(t) = new
      BY <2>1, <2>5 DEF Track
    <2>7. new \in Track
      BY <2>2, <2>3, TrackOf
    <2>8. new.id = t.id /\ new.wall = t.wall /\ new.locked = t.locked /\ new.left = l /\ new.seen = s
      OBVIOUS
    <2> HIDE DEF new
    <2> QED BY <2>4, <2>6, <2>7, <2>8
  <1> HIDE DEF F
  <1>3. f \in Surjection(tracks, tracks')
    BY <1>1 DEF Surjection
  <1>4. IsFiniteSet(tracks') /\ Cardinality(tracks') <= Cardinality(tracks)
    BY <1>3, FS_Surjection DEF PhoneInv, Sound
  <1>5. Few(tracks')
    BY <1>4, FS_CardinalityType, FieldAssumption DEF Few, PhoneInv, Sound
  <1>6. Sound(tracks', made)
    <2>1. \A t, u \in tracks' : t.id = u.id => t = u
      BY <1>1, <1>2 DEF PhoneInv, Sound
    <2>2. \A t \in tracks' : t \in Track /\ t.id \in 1 .. made
      BY <1>1, <1>2 DEF PhoneInv, Sound
    <2>3. \A t \in tracks' : t.locked \/ t.left = 0 \/ t.seen + t.left <= Ttl
      BY <1>1, <1>2
    <2> QED BY <1>4, <2>1, <2>2, <2>3 DEF Sound
  <1>7. GoesOn(tracks, made, tracks')
    BY <1>1, <1>2 DEF GoesOn
  <1>8. /\ UNCHANGED <<here, inject, made, wall, real>>
        /\ wallAge' \in 0 .. PhoneTtl + 1 /\ realAge' \in 0 .. RealTtl + 1
    <2>1. wallAge' = Phone!Older(wallAge, PhoneTtl) /\ realAge' = Phone!Older(realAge, RealTtl)
          /\ UNCHANGED <<here, inject, made, wall, real>>
      BY DEF Phone!PhoneClock
    <2>2. wallAge \in 0 .. PhoneTtl + 1 /\ realAge \in 0 .. RealTtl + 1
      BY DEF PhoneInv
    <2> QED BY <2>1, <2>2, FieldAssumption DEF Phone!Older
  <1> QED BY <1>5, <1>6, <1>7, <1>8 DEF PhoneInv, Sound, Few

LEMMA PhoneKeeps == PhoneInv /\ (Phone!PhoneStep \/ Phone!PhoneClock) => PhoneInv' /\ GoesOn(tracks, made, tracks')
  <1> SUFFICES ASSUME PhoneInv, Phone!PhoneStep \/ Phone!PhoneClock
               PROVE  PhoneInv' /\ GoesOn(tracks, made, tracks')
    OBVIOUS
  <1>0. made \in Nat /\ GoesOn(tracks, made, tracks)
    BY FieldAssumption DEF PhoneInv, GoesOn
  <1>1. CASE \E c \in PhoneClasses, d \in Sights, lock \in BOOLEAN : Phone!Frame(c, d, lock)
    BY <1>1, FrameKeeps
  <1>2. ASSUME NEW lock \in BOOLEAN, Phone!EmptyFrame(lock)
        PROVE  PhoneInv' /\ GoesOn(tracks, made, tracks')
    <2> DEFINE L == Phone!LockAll(lock)
    <2>1. Sound(L, made) /\ GoesOn(tracks, made, L)
      BY <1>0, LockAllSound DEF PhoneInv
    <2>2. tracks' \in Phone!Kept(L) /\ inject' = TRUE
          /\ UNCHANGED <<here, made, wall, wallAge, real, realAge>>
      BY <1>2 DEF Phone!EmptyFrame
    <2> HIDE DEF L
    <2>3. Sound(tracks', made) /\ Few(tracks') /\ tracks' \subseteq L
      BY <1>0, <2>1, <2>2, KeptSound
    <2>4. GoesOn(tracks, made, tracks')
      BY <2>1, <2>3 DEF GoesOn
    <2> QED BY <2>2, <2>3, <2>4 DEF PhoneInv, Sound, Few
  <1>3. CASE Phone!Clear
    <2>1. Sound({}, made) /\ Few({})
      BY FS_EmptySet, FieldAssumption DEF Sound, Few
    <2>2. tracks' = {} /\ UNCHANGED <<here, inject, made, wall, wallAge, real, realAge>>
      BY <1>3 DEF Phone!Clear
    <2>3. GoesOn(tracks, made, tracks')
      BY <2>2 DEF GoesOn
    <2> QED BY <2>1, <2>2, <2>3 DEF PhoneInv, Sound, Few
  <1>4. CASE Phone!InjectOff
    <2>1. tracks' \subseteq tracks /\ inject' = FALSE /\ UNCHANGED <<here, made, wall, wallAge, real, realAge>>
      BY <1>4 DEF Phone!InjectOff, Phone!Alive
    <2>2. Sound(tracks', made)
      BY <2>1, SoundSubset DEF PhoneInv
    <2>3. Cardinality(tracks') <= Cardinality(tracks) /\ Cardinality(tracks) \in Nat /\ Cardinality(tracks') \in Nat
      BY <2>1, <2>2, FS_Subset, FS_CardinalityType DEF PhoneInv, Sound
    <2>4. Few(tracks')
      BY <2>3, FieldAssumption DEF Few, PhoneInv
    <2>5. GoesOn(tracks, made, tracks')
      BY <2>1 DEF GoesOn
    <2> QED BY <2>1, <2>2, <2>4, <2>5 DEF PhoneInv, Sound, Few
  <1>5. CASE Phone!PublishWall
    BY <1>5, PublishKeeps
  <1>6. CASE Phone!Drive
    <2>1. here' \in 0 .. Road /\ UNCHANGED <<inject, tracks, made, wall, wallAge, real, realAge>>
      BY <1>6, FieldAssumption DEF Phone!Drive, PhoneInv
    <2> QED BY <1>0, <2>1 DEF PhoneInv, Sound, Few, GoesOn
  <1>7. ASSUME NEW p \in Phone!Payloads, Phone!OnReal(p)
        PROVE  PhoneInv' /\ GoesOn(tracks, made, tracks')
    <2>1. p.source = "lidar" => p.places \subseteq Rocks
      BY DEF Phone!Payloads
    <2>2. real' \subseteq Rocks /\ realAge' \in 0 .. RealTtl + 1
      <3>1. CASE p.source = "lidar"
        BY <1>7, <2>1, <3>1, FieldAssumption DEF Phone!OnReal, Phone!FromLidar
      <3>2. CASE p.source # "lidar"
        BY <1>7, <3>2 DEF Phone!OnReal, Phone!FromLidar, PhoneInv
      <3> QED BY <3>1, <3>2
    <2>3. UNCHANGED <<here, inject, tracks, made, wall, wallAge>>
      BY <1>7 DEF Phone!OnReal
    <2> QED BY <1>0, <2>2, <2>3 DEF PhoneInv, Sound, Few, GoesOn
  <1>8. CASE Phone!PhoneClock
    BY <1>8, ClockKeeps
  <1> QED BY <1>1, <1>2, <1>3, <1>4, <1>5, <1>6, <1>7, <1>8 DEF Phone!PhoneStep

LEMMA PhoneStarts == Phone!PhoneInit => PhoneInv
  <1> SUFFICES ASSUME Phone!PhoneInit PROVE PhoneInv
    OBVIOUS
  <1>1. Sound({}, 0) /\ Few({})
    BY FS_EmptySet, FieldAssumption DEF Sound, Few
  <1> QED BY <1>1, FieldAssumption DEF Phone!PhoneInit, PhoneInv

LEMMA PhoneHolds == PhoneInv => Phone!PhoneTypeOK /\ Phone!MergedIsTrue
  <1> SUFFICES ASSUME PhoneInv PROVE Phone!PhoneTypeOK /\ Phone!MergedIsTrue
    OBVIOUS
  <1>1. Phone!PhoneTypeOK
    <2>1. Phone!Cardinality(tracks) <= MaxTracks
      BY SameCardinality DEF PhoneInv, Few
    <2>2. \A t \in tracks : t.id \in 1 .. made /\ t.class \in PhoneClasses /\ t.left \in 0 .. Phone!Lifetime(TRUE)
      BY DEF PhoneInv, Sound, Track, Lives
    <2> QED BY <2>1, <2>2 DEF PhoneInv, Phone!PhoneTypeOK
  <1>2. ASSUME NEW m \in Phone!Merged, m.source = "phone"
        PROVE  \E t \in wall : t.wall = m.place /\ (t.locked \/ t.seen + wallAge < Ttl + PhoneTtl)
    <2>1. Phone!Valid(wallAge, PhoneTtl) /\ \E t \in wall : t.wall = m.place
      BY <1>2 DEF Phone!Merged
    <2>2. \A t \in wall : t.locked \/ (t.seen < Ttl /\ t.seen \in Nat)
      BY FieldAssumption DEF PhoneInv, Track
    <2>3. wallAge \in Nat /\ wallAge <= PhoneTtl
      BY <2>1, FieldAssumption DEF PhoneInv, Phone!Valid
    <2>4. \A t \in wall : t.locked \/ t.seen + wallAge < Ttl + PhoneTtl
      BY <2>2, <2>3, FieldAssumption
    <2> QED BY <2>1, <2>4
  <1>3. ASSUME NEW m \in Phone!Merged, m.source # "phone"
        PROVE  m.place \in Rocks /\ \A n \in Phone!Merged : n.source = "phone" => ~Phone!Near(m.place, n.place)
    BY <1>3 DEF Phone!Merged, PhoneInv
  <1>4. Phone!MergedIsTrue
    BY <1>2, <1>3 DEF Phone!MergedIsTrue
  <1> QED BY <1>1, <1>4

\* Sound tracks that go on keep their walls.
LEMMA WallsStay == PhoneInv /\ GoesOn(tracks, made, tracks') => \A t \in tracks, u \in tracks' : t.id = u.id => t.wall = u.wall
  <1> SUFFICES ASSUME PhoneInv, GoesOn(tracks, made, tracks'), NEW t \in tracks, NEW u \in tracks', t.id = u.id
               PROVE  t.wall = u.wall
    OBVIOUS
  <1>1. t.id \in 1 .. made /\ made \in Int
    BY FieldAssumption DEF PhoneInv, Sound
  <1>2. PICK v \in tracks : v.id = u.id /\ v.wall = u.wall
    BY <1>1 DEF GoesOn
  <1> QED BY <1>2 DEF PhoneInv, Sound

-----------------------------------------------------------------------------

\* What a run leaves or is judged by is its own, or a copy that could not be removed, however
\* long the mission may stand at the goal.
THEOREM ArtifactsStayOwn == FieldSpec => []ArtifactsAreOwn
  <1>1. FieldInit => RoundsInv /\ MissionInv
    BY RoundsStart, MissionStarts DEF FieldInit
  <1>2. RoundsInv /\ MissionInv /\ [FieldNext]_fieldVars => (RoundsInv /\ MissionInv)'
    <2> SUFFICES ASSUME RoundsInv, MissionInv, [FieldNext]_fieldVars PROVE (RoundsInv /\ MissionInv)'
      OBVIOUS
    <2>1. Rounds!RoutesStep \/ UNCHANGED rounds
      BY DEF FieldNext, fieldVars, missions
    <2>2. Mission!MissionStep \/ UNCHANGED mission
      BY DEF FieldNext, fieldVars, missions
    <2>3. RoundsInv'
      <3>1. CASE UNCHANGED rounds
        BY <3>1 DEF rounds, RoundsInv, RoundsTypes, OwnInv
      <3> QED BY <2>1, <3>1, RoundsStep
    <2>4. MissionInv'
      <3>1. CASE UNCHANGED mission
        BY <3>1 DEF mission, MissionInv
      <3> QED BY <2>2, <3>1, MissionKept
    <2> QED BY <2>3, <2>4
  <1>3. RoundsInv /\ MissionInv => ArtifactsAreOwn
    <2>1. MissionInv => Mission!MissionTypeOK /\ Mission!SuccessIsOwn
      BY DEF MissionInv, Mission!MissionTypeOK, Mission!SuccessIsOwn
    <2> QED BY <2>1, RoundsHold DEF ArtifactsAreOwn
  <1> QED BY <1>1, <1>2, <1>3, PTL DEF FieldSpec

-----------------------------------------------------------------------------
(* The placement: how far the tank can have come to a look-ahead, or past  *)
(* it, while that is fresh.                                                *)

Reading == [known : BOOLEAN, value : Int, age : Nat]

\* The tank has driven a place in a second at most since the look-ahead came.
Ahead == look.known /\ look.age <= Stale => look.value = Route \/ spot - look.value <= look.age - Lookahead

PlaceInv ==
    /\ reference \in Place!References /\ center \in Place!Centers
    /\ spot \in 0 .. Route /\ body \in {-1, 1}
    /\ look \in Reading /\ turret \in Reading /\ imu \in Reading
    /\ turret.known => turret.value \in {-1, 1}
    /\ imu.known => imu.value \in {-1, 1}
    /\ Ahead

LEMMA OlderReading ==
  ASSUME NEW r \in Reading, NEW limit \in Nat
  PROVE  LET o == Place!Older(r, limit)
         IN  /\ o \in Reading /\ o.known = r.known /\ o.value = r.value
             /\ o.known /\ o.age <= limit => o.age = r.age + 1
  <1> DEFINE o == Place!Older(r, limit)
             next == [known |-> r.known, value |-> r.value, age |-> r.age + 1]
  <1>1. CASE r.known /\ r.age <= limit
    <2>1. o = [r EXCEPT !.age = r.age + 1]
      BY <1>1 DEF Place!Older
    <2>2. o = next
      BY <2>1 DEF Reading
    <2>3. next \in Reading /\ next.known = r.known /\ next.value = r.value /\ next.age = r.age + 1
      BY DEF Reading
    <2> HIDE DEF next, o
    <2> QED BY <2>2, <2>3 DEF o
  <1>2. CASE ~(r.known /\ r.age <= limit)
    BY <1>2 DEF Place!Older
  <1> QED BY <1>1, <1>2

LEMMA PlaceStarts == Place!PlacementInit => PlaceInv
  <1> SUFFICES ASSUME Place!PlacementInit PROVE PlaceInv
    OBVIOUS
  <1>1. /\ reference \in Place!References /\ center \in Place!Centers /\ spot = 0 /\ body = 1
        /\ look = Place!None /\ turret = Place!None /\ imu = Place!None
    BY DEF Place!PlacementInit
  <1>2. Place!None \in Reading /\ ~Place!None.known
    BY DEF Place!None, Reading
  <1> QED BY <1>1, <1>2, FieldAssumption DEF PlaceInv, Ahead

LEMMA PlaceKept == PlaceInv /\ Place!PlacementNext => PlaceInv'
  <1> SUFFICES ASSUME PlaceInv, Place!PlacementNext PROVE PlaceInv'
    OBVIOUS
  <1>1. CASE Place!Look
    <2> DEFINE v == IF spot + Lookahead < Route THEN spot + Lookahead ELSE Route
               r == [known |-> TRUE, value |-> v, age |-> 0]
    <2>1. look' = r /\ UNCHANGED <<reference, center, spot, body, turret, imu>>
      BY <1>1 DEF Place!Look
    <2>2. v \in Int /\ (v = Route \/ spot - v <= 0 - Lookahead)
      BY FieldAssumption DEF PlaceInv
    <2> HIDE DEF v
    <2>3. r \in Reading /\ r.value = v /\ r.age = 0
      BY <2>2 DEF Reading
    <2> HIDE DEF r
    <2> QED BY <2>1, <2>2, <2>3 DEF PlaceInv, Ahead
  <1>2. CASE Place!Turret \/ Place!Phone
    <2>1. /\ turret' \in Reading /\ (turret'.known => turret'.value \in {-1, 1})
          /\ imu' \in Reading /\ (imu'.known => imu'.value \in {-1, 1})
      <3>1. \A r : r \in [known : {TRUE}, value : Place!Headings, age : {0}] => r \in Reading /\ r.value \in {-1, 1}
        <4> SUFFICES ASSUME NEW r \in [known : {TRUE}, value : {-1, 1}, age : {0}]
                     PROVE  r \in Reading /\ r.value \in {-1, 1}
          BY DEF Place!Headings
        <4>1. r.known \in {TRUE} /\ r.value \in {-1, 1} /\ r.age \in {0}
              /\ r = [known |-> r.known, value |-> r.value, age |-> r.age]
          OBVIOUS
        <4>2. r.known \in BOOLEAN
          BY <4>1
        <4>3. r.value \in Int /\ r.age \in Nat
          BY <4>1
        <4> QED BY <4>1, <4>2, <4>3 DEF Reading
      <3>2. CASE Place!Turret
        BY <3>1, <3>2 DEF Place!Turret, PlaceInv
      <3>3. CASE Place!Phone
        BY <3>1, <3>3 DEF Place!Phone, PlaceInv
      <3> QED BY <1>2, <3>2, <3>3
    <2>2. UNCHANGED <<reference, center, spot, body, look>>
      BY <1>2 DEF Place!Turret, Place!Phone
    <2> QED BY <2>1, <2>2 DEF PlaceInv, Ahead
  <1>3. CASE Place!Turn
    BY <1>3 DEF Place!Turn, PlaceInv, Ahead
  <1>4. CASE Place!Second
    <2>1. /\ spot' \in 0 .. Route /\ spot' <= spot + 1
          /\ look' = Place!Older(look, Stale) /\ turret' = Place!Older(turret, TurretStale)
          /\ UNCHANGED <<reference, center, body, imu>>
      BY <1>4, FieldAssumption DEF Place!Second, PlaceInv
    <2>2. /\ look' \in Reading /\ look'.known = look.known /\ look'.value = look.value
          /\ look'.known /\ look'.age <= Stale => look'.age = look.age + 1
      BY <2>1, OlderReading, FieldAssumption DEF PlaceInv
    <2>3. turret' \in Reading /\ turret'.known = turret.known /\ turret'.value = turret.value
      BY <2>1, OlderReading, FieldAssumption DEF PlaceInv
    <2>4. look.age \in Nat /\ look.value \in Int /\ spot \in Int /\ spot' \in Int
      BY <2>1, FieldAssumption DEF PlaceInv, Reading
    <2>5. Ahead'
      BY <2>1, <2>2, <2>4, FieldAssumption DEF PlaceInv, Ahead
    <2> QED BY <2>1, <2>2, <2>3, <2>5 DEF PlaceInv
  <1> QED BY <1>1, <1>2, <1>3, <1>4 DEF Place!PlacementNext

\* A clamp stays between its limits.
LEMMA ClampLimits ==
  ASSUME NEW n \in Int, NEW low \in Int, NEW high \in Int, low <= high
  PROVE  Place!Clamp(n, low, high) \in low .. high
  BY DEF Place!Clamp

Limits == 0 < MinPlace /\ MinPlace <= MaxPlace /\ 0 < MinWall /\ MinWall <= MaxWall

LEMMA WallIsAhead ==
  ASSUME PlaceInv, Limits, Stale < Lookahead + MinLook
  PROVE  Place!WallAhead
  <1> SUFFICES ASSUME NEW d \in Sizes
               PROVE  LET reach == IF center = "object" THEN MinPlace .. MaxPlace ELSE MinWall .. MaxWall
                          onPath == Place!Leads /\ (center = "lookahead_snapshot" \/ reference = "path")
                          forward == body = 1 /\ \A r \in {turret, imu} : r.known => r.value = 1
                      IN  Place!Gap(spot, Place!Wall(d)) \in reach /\ (onPath \/ forward => Place!Wall(d) > spot)
    BY DEF Place!WallAhead
  <1> DEFINE placed == Place!Placed(d)
             far == Place!Clamp(placed, MinWall, MaxWall)
             lead == Place!Clamp(Place!Gap(spot, look.value), MinWall, MaxWall)
             way == Place!Bearing
             onPath == Place!Leads /\ (center = "lookahead_snapshot" \/ reference = "path")
             forward == body = 1 /\ \A r \in {turret, imu} : r.known => r.value = 1
  <1>1. spot \in Int /\ look.value \in Int /\ look.age \in Nat /\ d \in Int
    BY FieldAssumption DEF PlaceInv, Reading
  <1>2. placed \in MinPlace .. MaxPlace
    <2>1. MinPlace \in Int /\ MaxPlace \in Int /\ MinPlace <= MaxPlace /\ d + Bias \in Int
      BY <1>1, FieldAssumption DEF Limits
    <2> QED BY <2>1, ClampLimits DEF Place!Placed
  <1> HIDE DEF placed
  <1>2a. MinWall \in Int /\ MaxWall \in Int /\ MinWall <= MaxWall /\ placed \in Int
    BY <1>2, FieldAssumption DEF Limits
  <1>3. far \in MinWall .. MaxWall
    BY <1>2a, ClampLimits
  <1>4. Place!Gap(spot, look.value) \in Int
    BY <1>1 DEF Place!Gap
  <1>5. lead \in MinWall .. MaxWall
    BY <1>2a, <1>4, ClampLimits
  <1>6. Place!Leads => look.value >= spot
    <2> SUFFICES ASSUME Place!Leads, look.value < spot PROVE FALSE
      BY <1>1
    <2>1. look.known /\ look.age <= Stale /\ Place!Gap(spot, look.value) >= MinLook
      BY DEF Place!Leads, Place!Fresh
    <2>2. look.value = Route \/ spot - look.value <= look.age - Lookahead
      BY <2>1 DEF PlaceInv, Ahead
    <2>3. spot - look.value >= MinLook
      BY <1>1, <2>1 DEF Place!Gap
    <2> QED BY <1>1, <2>1, <2>2, <2>3, FieldAssumption DEF PlaceInv
  <1>7. Place!Leads => Place!Toward(look.value) = 1
    BY <1>1, <1>6 DEF Place!Toward
  <1>8. way \in {-1, 1} /\ (forward \/ (Place!Leads /\ reference = "path") => way = 1)
    <2>1. CASE reference = "path" /\ Place!Leads
      BY <1>7, <2>1 DEF Place!Bearing
    <2>2. CASE ~(reference = "path" /\ Place!Leads) /\ reference = "turret" /\ Place!Fresh(turret, TurretStale)
      BY <2>2 DEF Place!Bearing, Place!Fresh, PlaceInv
    <2>3. CASE /\ ~(reference = "path" /\ Place!Leads) /\ ~(reference = "turret" /\ Place!Fresh(turret, TurretStale))
               /\ reference = "phone" /\ imu.known
      BY <2>3 DEF Place!Bearing, PlaceInv
    <2>4. CASE /\ ~(reference = "path" /\ Place!Leads) /\ ~(reference = "turret" /\ Place!Fresh(turret, TurretStale))
               /\ ~(reference = "phone" /\ imu.known)
      BY <2>4 DEF Place!Bearing, PlaceInv
    <2> QED BY <2>1, <2>2, <2>3, <2>4
  <1> HIDE DEF far, lead, way, forward
  <1>9. CASE center = "object"
    <2>1. Place!Wall(d) = spot + way * placed
      BY <1>9 DEF Place!Wall, way, placed
    <2>2. ~(center = "lookahead_snapshot")
      BY <1>9
    <2> QED BY <1>1, <1>2, <1>8, <1>9, <2>1, <2>2, FieldAssumption DEF Place!Gap, Limits, forward
  <1>10. CASE center = "lookahead_snapshot" /\ Place!Leads
    <2>1. Place!Wall(d) = spot + Place!Toward(look.value) * lead
      BY <1>10 DEF Place!Wall, lead
    <2> QED BY <1>1, <1>5, <1>7, <1>10, <2>1, FieldAssumption DEF Place!Gap, Limits
  <1>11. CASE center # "object" /\ ~(center = "lookahead_snapshot" /\ Place!Leads)
    <2>1. Place!Wall(d) = spot + way * far
      BY <1>11 DEF Place!Wall, way, far, placed
    <2> QED BY <1>1, <1>3, <1>8, <1>11, <2>1, FieldAssumption DEF Place!Gap, Limits, forward
  <1> QED BY <1>9, <1>10, <1>11

-----------------------------------------------------------------------------

\* The walls of the phone and of the mux, whatever the tank does: they stay where they were put,
\* are true of what the sensors said, and stand on the way to come, if the limits of the placement
\* are in order and a look-ahead is stale before the tank has passed it by the least distance.
THEOREM PhoneWallsStayTrue ==
  ASSUME Limits, Stale < Lookahead + MinLook
  PROVE  FieldSpec => PhoneWallsTrue
  <1> DEFINE Inv == PhoneInv /\ PlaceInv
             Stays == \A t \in tracks, u \in tracks' : t.id = u.id => t.wall = u.wall
  <1>1. FieldInit => Inv
    BY PhoneStarts, PlaceStarts DEF FieldInit
  <1>2. Inv /\ [FieldNext]_fieldVars => Inv' /\ [Stays]_walls
    <2> SUFFICES ASSUME Inv, [FieldNext]_fieldVars PROVE Inv' /\ [Stays]_walls
      OBVIOUS
    <2>1. Phone!PhoneStep \/ Phone!PhoneClock \/ UNCHANGED walls
      BY DEF FieldNext, fieldVars, objects
    <2>2. Place!PlacementNext \/ UNCHANGED place
      BY DEF FieldNext, fieldVars, objects
    <2>3. PhoneInv' /\ [Stays]_walls
      <3>1. CASE UNCHANGED walls
        BY <3>1 DEF walls, PhoneInv, Sound, Few
      <3>2. CASE Phone!PhoneStep \/ Phone!PhoneClock
        BY <3>2, PhoneKeeps, WallsStay
      <3> QED BY <2>1, <3>1, <3>2
    <2>4. PlaceInv'
      <3>1. CASE UNCHANGED place
        BY <3>1 DEF place, PlaceInv, Ahead
      <3> QED BY <2>2, <3>1, PlaceKept
    <2> QED BY <2>3, <2>4
  <1>3. Inv => Phone!PhoneTypeOK /\ Phone!MergedIsTrue /\ Place!WallAhead
    BY PhoneHolds, WallIsAhead
  <1>4. [Stays]_walls => [\A t \in tracks, u \in tracks' : t.id = u.id => t.wall = u.wall]_(Phone!phone)
    BY DEF walls, Phone!phone
  <1> HIDE DEF Inv, Stays
  <1>5. FieldSpec => []Inv /\ [][Stays]_walls
    BY <1>1, <1>2, PTL DEF FieldSpec
  <1>6. FieldSpec => [](Phone!PhoneTypeOK /\ Phone!MergedIsTrue /\ Place!WallAhead)
    BY <1>3, <1>5, PTL
  <1>7. FieldSpec => Phone!WallStays
    BY <1>4, <1>5, PTL DEF Phone!WallStays
  <1> QED BY <1>6, <1>7 DEF PhoneWallsTrue

-----------------------------------------------------------------------------
(* The grid of the LiDAR and its clusters.                                 *)

LEMMA Induction ==
  ASSUME NEW T \in SUBSET Nat, 0 \in T, \A n \in T : n + 1 \in T
  PROVE  T = Nat
  <1> SUFFICES ASSUME NEW n \in Nat, n \notin T PROVE FALSE
    OBVIOUS
  <1> DEFINE D == {m \in 0 .. n : m \notin T}
             f == [m \in D |-> m - 1]
  <1>1. \A m \in D : m \in Nat \ {0} /\ m - 1 \in D \ {n}
    <2> SUFFICES ASSUME NEW m \in D PROVE m \in Nat \ {0} /\ m - 1 \in D \ {n}
      OBVIOUS
    <2>1. m \in Nat /\ m # 0 /\ m <= n
      OBVIOUS
    <2>2. m - 1 \in Nat /\ (m - 1) + 1 = m
      BY <2>1
    <2>3. m - 1 \notin T
      BY <2>2
    <2> QED BY <2>1, <2>2, <2>3
  <1>2. n \in D
    OBVIOUS
  <1>3. IsFiniteSet(D)
    <2>1. IsFiniteSet(0 .. n) /\ D \in SUBSET (0 .. n)
      BY FS_Interval
    <2> HIDE DEF D
    <2> QED BY <2>1, FS_Subset
  <1>4. IsFiniteSet(D \ {n}) /\ Cardinality(D \ {n}) < Cardinality(D)
    <2> HIDE DEF D
    <2>1. IsFiniteSet(D \ {n}) /\ Cardinality(D \ {n}) = Cardinality(D) - 1
      BY <1>2, <1>3, FS_RemoveElement, Zenon
    <2>2. Cardinality(D) \in Nat
      BY <1>3, FS_CardinalityType
    <2> QED BY <2>1, <2>2
  <1>5. f \in [D -> D \ {n}]
    BY <1>1
  <1>6. \E x, y \in D : x # y /\ f[x] = f[y]
    <2> HIDE DEF f, D
    <2> QED BY <1>3, <1>4, <1>5, FS_PigeonHole
  <1> QED BY <1>1, <1>6

\* A finite set of heights has a lowest one.
LEMMA HasMin ==
  ASSUME NEW S \in SUBSET Int, IsFiniteSet(S), S # {}
  PROVE  Lidar!Min(S) \in S /\ \A y \in S : Lidar!Min(S) <= y
  <1> DEFINE Low(U) == \E m \in U : \A y \in U : m <= y
             T == {n \in Nat : \A U \in SUBSET Int : IsFiniteSet(U) /\ Cardinality(U) = n /\ U # {} => Low(U)}
  <1>1. 0 \in T
    BY FS_EmptySet
  <1>2. ASSUME NEW n \in T PROVE n + 1 \in T
    <2> SUFFICES ASSUME NEW U \in SUBSET Int, IsFiniteSet(U), Cardinality(U) = n + 1, U # {} PROVE Low(U)
      OBVIOUS
    <2>1. PICK x \in U : TRUE
      OBVIOUS
    <2>2. IsFiniteSet(U \ {x}) /\ Cardinality(U \ {x}) = n
      <3>1. IsFiniteSet(U \ {x}) /\ Cardinality(U \ {x}) = Cardinality(U) - 1
        BY <2>1, FS_RemoveElement, Zenon
      <3>2. n \in Nat
        OBVIOUS
      <3> QED BY <3>1, <3>2
    <2>3. CASE U \ {x} = {}
      BY <2>1, <2>3
    <2>4. CASE U \ {x} # {}
      <3>1. PICK m \in U \ {x} : \A y \in U \ {x} : m <= y
        BY <1>2, <2>2, <2>4
      <3>2. m \in Int /\ x \in Int
        OBVIOUS
      <3>3. CASE m <= x
        BY <3>1, <3>2, <3>3
      <3>4. CASE x < m
        <4>1. \A y \in U : x <= y
          BY <3>1, <3>2, <3>4
        <4> QED BY <4>1
      <3> QED BY <3>2, <3>3, <3>4
    <2> QED BY <2>3, <2>4
  <1>3. T = Nat
    <2> HIDE DEF T
    <2>1. T \subseteq Nat
      BY DEF T
    <2> QED BY <1>1, <1>2, <2>1, Induction
  <1>4. Cardinality(S) \in T
    BY <1>3, FS_CardinalityType
  <1>5. Low(S)
    BY <1>4
  <1> QED BY <1>5 DEF Lidar!Min

LEMMA HasMax ==
  ASSUME NEW S \in SUBSET Int, NEW x \in S, IsFiniteSet(S)
  PROVE  Lidar!Max(S) \in S /\ Lidar!Max(S) >= x
  <1> DEFINE N == {0 - y : y \in S}
             f == [y \in S |-> 0 - y]
  <1>1. f \in Surjection(S, N)
    BY DEF Surjection
  <1>2. IsFiniteSet(N) /\ N \in SUBSET Int /\ N # {}
    <2>1. N \in SUBSET Int /\ N # {}
      <3>1. \A y \in S : 0 - y \in Int
        OBVIOUS
      <3>2. 0 - x \in N
        OBVIOUS
      <3> HIDE DEF f
      <3> QED BY <3>1, <3>2
    <2> HIDE DEF N, f
    <2> QED BY <1>1, <2>1, FS_Surjection
  <1>3. \E m \in N : \A y \in N : m <= y
    <2> HIDE DEF N
    <2> QED BY <1>2, HasMin
  <1>4. \E m \in S : \A y \in S : m >= y
    <2>1. PICK z \in N : \A y \in N : z <= y
      BY <1>3
    <2>2. PICK m \in S : z = 0 - m
      OBVIOUS
    <2>3. ASSUME NEW y \in S PROVE m >= y
      BY <2>1, <2>2
    <2> QED BY <2>3
  <1> QED BY <1>4 DEF Lidar!Max

Heights == UNION Columns

\* A cell that should be found steep: it rises inside, or over the ground next to it.
Steep(c) ==
    \/ Lidar!Max(hits[c]) - Lidar!Ground(c) > Climb
    \/ \E d \in Lidar!Beside(c) : Lidar!Ground(c) - Lidar!Ground(d) > Climb

GridInv ==
    /\ filter \in BOOLEAN /\ (filter => work # "all") /\ work \in {"waiting", "grid", "all", "separated"}
    /\ hits \in [Cells -> SUBSET Heights]
    /\ todo \subseteq Lidar!Occupied /\ (work # "grid" => todo = {})
    /\ work = "grid" => \A c \in Lidar!Occupied \ todo : Steep(c) => c \in steep
    /\ obstacles \subseteq Cells \X Heights /\ IsFiniteSet(obstacles)
    /\ Lidar!WallsAreSeen /\ Lidar!ClustersSound

LEMMA GroundOf ==
  ASSUME GridInv, NEW c \in Lidar!Occupied
  PROVE  /\ c \in Cells /\ Lidar!Ground(c) \in hits[c] /\ Lidar!Ground(c) \in Int
         /\ hits[c] \subseteq Int /\ IsFiniteSet(hits[c])
         /\ \A h \in hits[c] : Lidar!Ground(c) <= h
  <1>1. c \in Cells /\ hits[c] # {} /\ hits[c] \in SUBSET Heights
    BY DEF Lidar!Occupied, GridInv
  <1>2. hits[c] \in SUBSET Int /\ IsFiniteSet(hits[c])
    BY <1>1, FS_Subset, FieldAssumption DEF Heights
  <1> QED BY <1>1, <1>2, HasMin DEF Lidar!Ground

LEMMA AllHits ==
  ASSUME GridInv
  PROVE  /\ Lidar!All \subseteq Cells \X Heights /\ IsFiniteSet(Lidar!All)
         /\ \A p \in Lidar!All : p[1] \in Lidar!Occupied /\ p[2] \in hits[p[1]]
         /\ \A c \in Lidar!Occupied : \A h \in hits[c] : <<c, h>> \in Lidar!All
  <1>1. Lidar!All \subseteq Cells \X Heights
    BY DEF Lidar!All, Heights
  <1>2. IsFiniteSet(Cells \X Heights)
    BY FS_Product, FieldAssumption DEF Heights
  <1>3. IsFiniteSet(Lidar!All)
    BY <1>1, <1>2, FS_Subset
  <1>4. \A p \in Lidar!All : p[1] \in Lidar!Occupied /\ p[2] \in hits[p[1]]
    BY DEF Lidar!All, Lidar!Occupied
  <1>5. \A c \in Lidar!Occupied : \A h \in hits[c] : <<c, h>> \in Lidar!All
    BY DEF Lidar!All, Lidar!Occupied, GridInv, Heights
  <1> QED BY <1>1, <1>3, <1>4, <1>5

LEMMA GridStarts == Lidar!LidarInit => GridInv
  <1> SUFFICES ASSUME Lidar!LidarInit PROVE GridInv
    OBVIOUS
  <1>1. /\ filter \in BOOLEAN /\ hits = [c \in Cells |-> {}] /\ work = "waiting" /\ todo = {} /\ obstacles = {}
    BY DEF Lidar!LidarInit
  <1> QED BY <1>1, FS_EmptySet DEF GridInv, Lidar!WallsAreSeen, Lidar!ClustersSound

LEMMA SplitKeeps ==
  ASSUME GridInv, Lidar!SplitCell
  PROVE  GridInv'
  <1>1. PICK c \in todo :
          /\ todo' = todo \ {c}
          /\ steep' = steep \cup
               (IF Lidar!Max(hits[c]) - Lidar!Ground(c) > Climb THEN {c}
                ELSE UNION {{c, d} : d \in {d \in Lidar!Beside(c) : Lidar!Gap(c, d) > Climb}})
    BY DEF Lidar!SplitCell
  <1>2. work = "grid" /\ UNCHANGED <<filter, hits, work, obstacles, clusters>>
    BY DEF Lidar!SplitCell
  <1>3. Lidar!Occupied' = Lidar!Occupied /\ \A x : Steep(x)' = Steep(x)
    BY <1>2 DEF Lidar!Occupied, Steep, Lidar!Ground, Lidar!Beside
  <1>4. c \in Lidar!Occupied
    BY DEF GridInv
  <1>5. Steep(c) => c \in steep'
    <2>1. CASE Lidar!Max(hits[c]) - Lidar!Ground(c) > Climb
      BY <1>1, <2>1
    <2>2. ASSUME ~(Lidar!Max(hits[c]) - Lidar!Ground(c) > Climb), NEW d \in Lidar!Beside(c),
                 Lidar!Ground(c) - Lidar!Ground(d) > Climb
          PROVE  c \in steep'
      <3>1. Lidar!Ground(c) \in Int /\ Lidar!Ground(d) \in Int
        BY <1>4, GroundOf DEF Lidar!Beside
      <3>2. Lidar!Gap(c, d) > Climb
        BY <2>2, <3>1, FieldAssumption DEF Lidar!Gap
      <3> QED BY <1>1, <2>2, <3>2
    <2> QED BY <2>1, <2>2 DEF Steep
  <1>6. \A e \in Lidar!Occupied' \ todo' : Steep(e)' => e \in steep'
    BY <1>1, <1>2, <1>3, <1>5 DEF GridInv
  <1>7. todo' \subseteq Lidar!Occupied'
    BY <1>1, <1>3 DEF GridInv
  <1>8. Lidar!WallsAreSeen' /\ Lidar!ClustersSound'
    BY <1>2 DEF Lidar!WallsAreSeen, Lidar!ClustersSound
  <1> QED BY <1>2, <1>6, <1>7, <1>8 DEF GridInv

LEMMA SeparateKeeps ==
  ASSUME GridInv, Lidar!Separate, MinHeight <= Climb
  PROVE  GridInv'
  <1> DEFINE low(c) == Lidar!Min({Lidar!Ground(d) : d \in {c} \cup Lidar!Beside(c)})
  <1>1. /\ work = "grid" /\ todo = {} /\ work' = "separated"
        /\ obstacles' = {p \in Lidar!All : p[1] \in steep /\ p[2] > low(p[1]) + MinHeight}
        /\ UNCHANGED <<filter, hits, todo, clusters>>
    BY DEF Lidar!Separate
  <1>2. ASSUME NEW c \in Lidar!Occupied
        PROVE  /\ low(c) \in Int
               /\ \A d \in {c} \cup Lidar!Beside(c) : low(c) <= Lidar!Ground(d)
               /\ \E d \in {c} \cup Lidar!Beside(c) : low(c) = Lidar!Ground(d)
    <2> DEFINE N == {c} \cup Lidar!Beside(c)
               G == {Lidar!Ground(d) : d \in N}
               f == [d \in N |-> Lidar!Ground(d)]
    <2>1. N \subseteq Lidar!Occupied /\ N \subseteq Cells
      BY DEF Lidar!Beside, Lidar!Occupied
    <2>2. \A d \in N : Lidar!Ground(d) \in Int
      BY <2>1, GroundOf
    <2>3. IsFiniteSet(N)
      BY <2>1, FS_Subset, FieldAssumption
    <2>4. f \in Surjection(N, G)
      BY DEF Surjection
    <2>5. G \in SUBSET Int /\ G # {}
      BY <2>2
    <2>6. IsFiniteSet(G)
      <3> HIDE DEF N, G, f
      <3> QED BY <2>3, <2>4, FS_Surjection
    <2>7. Lidar!Min(G) \in G /\ \A y \in G : Lidar!Min(G) <= y
      <3> HIDE DEF G
      <3> QED BY <2>5, <2>6, HasMin
    <2> QED BY <2>2, <2>7
  <1> HIDE DEF low
  <1>3. Lidar!All' = Lidar!All /\ (\A c : Lidar!Ground(c)' = Lidar!Ground(c) /\ Lidar!Beside(c)' = Lidar!Beside(c))
    BY <1>1 DEF Lidar!All, Lidar!Ground, Lidar!Beside, Lidar!Occupied
  <1>4. ASSUME NEW p \in Lidar!All,
               \/ p[2] - Lidar!Ground(p[1]) > Climb
               \/ \E d \in Lidar!Beside(p[1]) : Lidar!Ground(p[1]) - Lidar!Ground(d) > Climb
        PROVE  p \in obstacles'
    <2> DEFINE c == p[1]
    <2>1. c \in Lidar!Occupied /\ p[2] \in hits[c]
      BY AllHits
    <2> HIDE DEF c
    <2>2. /\ Lidar!Ground(c) \in Int /\ p[2] \in Int /\ Lidar!Ground(c) <= p[2]
          /\ hits[c] \subseteq Int /\ IsFiniteSet(hits[c])
      BY <2>1, GroundOf
    <2>3. low(c) \in Int /\ low(c) <= Lidar!Ground(c) /\ \A d \in Lidar!Beside(c) : low(c) <= Lidar!Ground(d)
      BY <1>2, <2>1
    <2>4. CASE p[2] - Lidar!Ground(c) > Climb
      <3>1. Lidar!Max(hits[c]) \in Int /\ Lidar!Max(hits[c]) >= p[2]
        BY <2>1, <2>2, HasMax
      <3>2. Steep(c)
        BY <2>2, <2>4, <3>1, FieldAssumption DEF Steep
      <3>3. c \in steep
        BY <1>1, <2>1, <3>2 DEF GridInv
      <3>4. p[2] > low(c) + MinHeight
        BY <2>2, <2>3, <2>4, FieldAssumption
      <3> QED BY <1>1, <3>3, <3>4 DEF c
    <2>5. ASSUME NEW d \in Lidar!Beside(c), Lidar!Ground(c) - Lidar!Ground(d) > Climb
          PROVE  p \in obstacles'
      <3>1. Steep(c)
        BY <2>5 DEF Steep
      <3>2. c \in steep
        BY <1>1, <2>1, <3>1 DEF GridInv
      <3>3. Lidar!Ground(d) \in Int
        BY GroundOf DEF Lidar!Beside
      <3>4. p[2] > low(c) + MinHeight
        BY <2>2, <2>3, <2>5, <3>3, FieldAssumption
      <3> QED BY <1>1, <3>2, <3>4 DEF c
    <2> QED BY <1>4, <2>4, <2>5 DEF c
  <1>5. ASSUME NEW p \in Lidar!All, \A q \in Lidar!All : q[1] - p[1] \in -1 .. 1 => q[2] >= p[2]
        PROVE  p \notin obstacles'
    <2>1. p[1] \in Lidar!Occupied /\ p[2] \in hits[p[1]] /\ p[1] \in Int
      BY AllHits, FieldAssumption DEF Lidar!Occupied
    <2>2. PICK d \in {p[1]} \cup Lidar!Beside(p[1]) : low(p[1]) = Lidar!Ground(d)
      BY <1>2, <2>1
    <2>3. d \in Lidar!Occupied /\ d - p[1] \in -1 .. 1
      BY <2>1 DEF Lidar!Beside
    <2>4. Lidar!Ground(d) \in hits[d] /\ Lidar!Ground(d) \in Int
      BY <2>3, GroundOf
    <2>5. <<d, Lidar!Ground(d)>> \in Lidar!All
      BY <2>3, <2>4, AllHits
    <2>6. Lidar!Ground(d) >= p[2]
      BY <1>5, <2>3, <2>5
    <2>7. p[2] \in Int
      BY <2>1, GroundOf
    <2> QED BY <1>1, <2>2, <2>4, <2>6, <2>7, FieldAssumption
  <1>6. Lidar!WallsAreSeen'
    BY <1>3, <1>4, <1>5 DEF Lidar!WallsAreSeen
  <1>7. Lidar!ClustersSound'
    BY <1>1 DEF Lidar!ClustersSound
  <1>8. obstacles' \subseteq Lidar!All /\ IsFiniteSet(obstacles')
    <2>1. obstacles' \subseteq Lidar!All
      BY <1>1
    <2> QED BY <2>1, AllHits, FS_Subset
  <1>9. todo' \subseteq Lidar!Occupied'
    BY <1>1
  <1> QED BY <1>1, <1>6, <1>7, <1>8, <1>9, AllHits DEF GridInv

\* The hits that a hit is not alone with.
Company(S, p) == {q \in S \ {p} : q[1] - p[1] \in -Eps .. Eps}

LEMMA LidarCardinality == \A S : Lidar!Cardinality(S) = Cardinality(S)
  BY DEF Lidar!Cardinality, Lidar!IsFiniteSet, Cardinality, IsFiniteSet

LEMMA NearIsCompany ==
  ASSUME NEW S \in SUBSET (Cells \X Heights), NEW p \in S, NEW q \in S
  PROVE  /\ Lidar!Near(p, q) <=> q = p \/ q \in Company(S, p)
         /\ Lidar!Near(p, q) <=> Lidar!Near(q, p)
  <1>1. p[1] \in Int /\ q[1] \in Int
    BY FieldAssumption
  <1> QED BY <1>1, FieldAssumption DEF Lidar!Near, Company

\* With two points enough for a core, the core points are those that are not alone.
LEMMA CoreIsCompany ==
  ASSUME NEW S \in SUBSET (Cells \X Heights), IsFiniteSet(S), MinSamples = 2
  PROVE  Lidar!Core(S) = {p \in S : Company(S, p) # {}}
  <1> SUFFICES ASSUME NEW p \in S
               PROVE  Cardinality({q \in S : Lidar!Near(p, q)}) >= 2 <=> Company(S, p) # {}
    BY LidarCardinality DEF Lidar!Core
  <1> DEFINE C == Company(S, p)
  <1>1. {q \in S : Lidar!Near(p, q)} = C \cup {p}
    BY NearIsCompany DEF Company
  <1>2. IsFiniteSet(C) /\ p \notin C
    <2>1. C \in SUBSET S /\ p \notin C
      BY DEF Company
    <2> QED BY <2>1, FS_Subset
  <1> HIDE DEF C
  <1>3. Cardinality(C \cup {p}) = Cardinality(C) + 1
    BY <1>2, FS_AddElement
  <1>4. Cardinality(C) \in Nat /\ (Cardinality(C) = 0 <=> C = {})
    BY <1>2, FS_CardinalityType, FS_EmptySet
  <1>5. Cardinality(C \cup {p}) >= 2 <=> C # {}
    BY <1>3, <1>4
  <1> QED BY <1>1, <1>5 DEF C

\* What is reached from a core point is closed, holds core points only, and is what is reached
\* from any other of its points.
LEMMA ReachedFacts ==
  ASSUME NEW S \in SUBSET (Cells \X Heights), IsFiniteSet(S), MinSamples = 2, NEW p \in Lidar!Core(S)
  PROVE  LET R == Lidar!Reached(S, p)
         IN  /\ R \subseteq Lidar!Core(S) /\ p \in R
             /\ \A r \in R, q \in S : Lidar!Near(q, r) => q \in R
             /\ \A q \in R : Lidar!Reached(S, q) = R
  <1> DEFINE core == Lidar!Core(S)
             Closed(T) == \A r \in T \cap core, q \in S : Lidar!Near(q, r) => q \in T
             R(x) == {q \in S : \A T \in SUBSET S : x \in T /\ Closed(T) => q \in T}
  <1>1. \A x : Lidar!Reached(S, x) = R(x)
    BY DEF Lidar!Reached, Lidar!Closed
  <1>2. core \subseteq S /\ \A r \in core, q \in S : Lidar!Near(q, r) => q \in core
    <2>1. core = {x \in S : Company(S, x) # {}}
      BY CoreIsCompany
    <2> SUFFICES ASSUME NEW r \in core, NEW q \in S, Lidar!Near(q, r) PROVE q \in core
      BY <2>1
    <2> HIDE DEF core
    <2>2. r \in S
      BY <2>1
    <2>3. q = r \/ r \in Company(S, q)
      BY <2>2, NearIsCompany
    <2> QED BY <2>1, <2>3
  <1> HIDE DEF core
  <1>3. \A x, y \in S : Lidar!Near(x, y) <=> Lidar!Near(y, x)
    BY NearIsCompany
  <1>4. ASSUME NEW x \in core
        PROVE  /\ R(x) \subseteq core /\ x \in R(x) /\ Closed(R(x))
               /\ \A T \in SUBSET S : x \in T /\ Closed(T) => R(x) \subseteq T
    <2>1. Closed(core) /\ core \in SUBSET S
      BY <1>2
    <2>2. R(x) \subseteq core
      BY <2>1, <1>4
    <2>3. x \in R(x)
      BY <1>2, <1>4
    <2>4. Closed(R(x))
      OBVIOUS
    <2>5. \A T \in SUBSET S : x \in T /\ Closed(T) => R(x) \subseteq T
      OBVIOUS
    <2> QED BY <2>2, <2>3, <2>4, <2>5
  <1>5. p \in core
    BY DEF core
  <1>6. ASSUME NEW q \in R(p) PROVE R(q) = R(p)
    <2>1. q \in core /\ p \in core
      BY <1>4, <1>5
    <2>2. R(q) \subseteq R(p)
      <3>1. R(p) \in SUBSET S /\ q \in R(p) /\ Closed(R(p))
        BY <1>4, <1>5, <1>6
      <3> HIDE DEF R, Closed
      <3> QED BY <1>4, <2>1, <3>1
    <2>3. p \in R(q)
      <3> SUFFICES ASSUME p \notin R(q) PROVE FALSE
        OBVIOUS
      <3> DEFINE T == R(p) \ R(q)
      <3>1. R(p) \subseteq core /\ R(q) \subseteq core /\ Closed(R(p)) /\ Closed(R(q)) /\ q \in R(q)
        BY <1>4, <2>1
      <3>2. Closed(T)
        <4> SUFFICES ASSUME NEW r \in T, NEW s \in S, Lidar!Near(s, r) PROVE s \in T
          OBVIOUS
        <4> HIDE DEF R
        <4>1. s \in R(p) /\ r \in core
          BY <3>1
        <4>2. s \notin R(q)
          <5> SUFFICES ASSUME s \in R(q) PROVE FALSE
            OBVIOUS
          <5>1. Lidar!Near(r, s) /\ r \in S
            BY <1>2, <1>3, <4>1
          <5> QED BY <3>1, <5>1
        <4> QED BY <4>1, <4>2
      <3>3. p \in T /\ T \in SUBSET S
        <4>1. p \in R(p) /\ R(p) \subseteq S
          BY <1>4, <2>1
        <4> QED BY <4>1
      <3> HIDE DEF R, Closed, T
      <3>4. R(p) \subseteq T
        BY <1>4, <2>1, <3>2, <3>3
      <3> QED BY <1>6, <3>1, <3>4 DEF T
    <2>4. R(p) \subseteq R(q)
      <3>1. R(q) \in SUBSET S /\ Closed(R(q))
        BY <1>4, <2>1
      <3> HIDE DEF R, Closed
      <3> QED BY <1>4, <2>1, <2>3, <3>1
    <2> HIDE DEF R
    <2> QED BY <2>2, <2>4
  <1>7. R(p) \subseteq core /\ p \in R(p) /\ \A r \in R(p), q \in S : Lidar!Near(q, r) => q \in R(p)
    BY <1>4, <1>5
  <1> HIDE DEF R
  <1> QED BY <1>1, <1>6, <1>7 DEF core

\* No point is on the border of a cluster, so there is one way to group them.
LEMMA GroupsFacts ==
  ASSUME NEW S \in SUBSET (Cells \X Heights), IsFiniteSet(S), MinSamples = 2, NEW g \in Lidar!Groups(S)
  PROVE  g = {Lidar!Reached(S, p) : p \in Lidar!Core(S)}
  <1> DEFINE whole == {Lidar!Reached(S, p) : p \in Lidar!Core(S)}
             border == {q \in UNION whole \ Lidar!Core(S) : \E a, b \in whole : a # b /\ q \in a \cap b}
  <1>1. border = {}
    BY ReachedFacts
  <1>2. PICK f \in [border -> whole] : g = {{q \in a : q \in border => f[q] = a} : a \in whole}
    BY DEF Lidar!Groups
  <1> HIDE DEF border, whole
  <1>3. \A a \in whole : {q \in a : q \in border => f[q] = a} = a
    BY <1>1
  <1>4. g = whole
    <2>1. ASSUME NEW b \in g PROVE b \in whole
      <3>1. PICK a \in whole : b = {q \in a : q \in border => f[q] = a}
        BY <1>2
      <3> QED BY <1>3, <3>1
    <2>2. \A a \in whole : a \in g
      BY <1>2, <1>3
    <2> QED BY <2>1, <2>2
  <1> QED BY <1>4 DEF whole

LEMMA ClusterKeeps ==
  ASSUME GridInv, Lidar!Cluster, MinSamples = 2, MinSize = 2
  PROVE  GridInv'
  <1>1. /\ work = "separated" /\ work' = "waiting" /\ hits' = [c \in Cells |-> {}]
        /\ UNCHANGED <<filter, todo, steep>>
    BY DEF Lidar!Cluster
  <1>2. CASE obstacles = {}
    <2>1. UNCHANGED <<obstacles, clusters>>
      BY <1>2 DEF Lidar!Cluster
    <2>2. todo' = {} /\ hits' \in [Cells -> SUBSET Heights]
      BY <1>1 DEF GridInv
    <2> QED BY <1>1, <1>2, <2>1, <2>2 DEF GridInv, Lidar!WallsAreSeen, Lidar!ClustersSound
  <1>3. CASE obstacles # {}
    <2>1. PICK s : /\ s \in IF Lidar!Cardinality(obstacles) > MaxPoints THEN Lidar!kSubset(MaxPoints, obstacles) ELSE {obstacles}
                   /\ obstacles' = s
                   /\ \E g \in Lidar!Groups(s) : clusters' = {c \in g : Lidar!Cardinality(c) >= MinSize}
      BY <1>3 DEF Lidar!Cluster
    <2>2. s \subseteq obstacles
      BY <2>1 DEF Lidar!kSubset
    <2>3. s \in SUBSET (Cells \X Heights) /\ IsFiniteSet(s)
      BY <2>2, FS_Subset DEF GridInv
    <2>4. PICK g \in Lidar!Groups(s) : clusters' = {c \in g : Cardinality(c) >= 2}
      BY <2>1, LidarCardinality
    <2>5. g = {Lidar!Reached(s, p) : p \in Lidar!Core(s)}
      BY <2>3, GroupsFacts
    <2>6. ASSUME NEW p \in Lidar!Core(s)
          PROVE  /\ Company(s, p) # {} /\ Company(s, p) \subseteq Lidar!Reached(s, p)
                 /\ Cardinality(Lidar!Reached(s, p)) >= 2
      <3> DEFINE R == Lidar!Reached(s, p)
      <3>1. p \in s /\ Company(s, p) # {}
        BY <2>3, CoreIsCompany
      <3>2. R \subseteq Lidar!Core(s) /\ p \in R /\ \A r \in R, q \in s : Lidar!Near(q, r) => q \in R
        BY <2>3, ReachedFacts
      <3> HIDE DEF R
      <3>3. Company(s, p) \subseteq R
        <4> SUFFICES ASSUME NEW q \in Company(s, p) PROVE q \in R
          OBVIOUS
        <4>1. q \in s /\ Lidar!Near(q, p)
          BY <2>3, <3>1, NearIsCompany DEF Company
        <4> QED BY <3>2, <4>1
      <3>4. PICK q \in Company(s, p) : TRUE
        BY <3>1
      <3>5. {p, q} \subseteq R /\ p # q
        BY <3>2, <3>3, <3>4 DEF Company
      <3>6. R \subseteq s
        BY <3>2 DEF Lidar!Core
      <3>7. IsFiniteSet(R)
        BY <2>3, <3>6, FS_Subset
      <3>8. Cardinality({p, q}) = 2
        <4>1. {p, q} = {p} \cup {q} /\ q \notin {p}
          BY <3>5
        <4>2. IsFiniteSet({p}) /\ Cardinality({p}) = 1
          BY FS_Singleton
        <4>3. Cardinality({p} \cup {q}) = Cardinality({p}) + 1
          BY <4>1, <4>2, FS_AddElement
        <4> QED BY <4>1, <4>2, <4>3
      <3>9. Cardinality({p, q}) <= Cardinality(R) /\ Cardinality(R) \in Nat
        BY <3>5, <3>7, FS_Subset, FS_CardinalityType
      <3> QED BY <3>1, <3>3, <3>8, <3>9 DEF R
    <2>7. clusters' = {Lidar!Reached(s, p) : p \in Lidar!Core(s)}
      BY <2>4, <2>5, <2>6
    <2>8. \A a, b \in clusters' : a = b \/ a \cap b = {}
      BY <2>3, <2>7, ReachedFacts
    <2>9. ASSUME NEW p \in s PROVE Company(s, p) # {} <=> p \in UNION clusters'
      <3>1. Company(s, p) # {} <=> p \in Lidar!Core(s)
        BY <2>3, CoreIsCompany
      <3>2. p \in Lidar!Core(s) => p \in UNION clusters'
        BY <2>3, <2>7, ReachedFacts
      <3>3. p \in UNION clusters' => p \in Lidar!Core(s)
        BY <2>3, <2>7, ReachedFacts
      <3> QED BY <3>1, <3>2, <3>3
    <2>10. ASSUME NEW c \in clusters', NEW p \in c PROVE Company(s, p) \subseteq c /\ Company(s, p) # {}
      <3>1. PICK r \in Lidar!Core(s) : c = Lidar!Reached(s, r)
        BY <2>7, <2>10
      <3>2. p \in Lidar!Core(s) /\ c = Lidar!Reached(s, p)
        BY <2>3, <2>10, <3>1, ReachedFacts
      <3> QED BY <2>6, <3>2
    <2>11. Lidar!ClustersSound'
      BY <2>1, <2>8, <2>9, <2>10 DEF Lidar!ClustersSound, Company
    <2>12. todo' = {} /\ hits' \in [Cells -> SUBSET Heights]
      BY <1>1 DEF GridInv
    <2>13. obstacles' \subseteq Cells \X Heights /\ IsFiniteSet(obstacles')
      BY <2>1, <2>3
    <2> QED BY <1>1, <2>11, <2>12, <2>13 DEF GridInv, Lidar!WallsAreSeen
  <1> QED BY <1>2, <1>3

LEMMA GridKeeps ==
  ASSUME GridInv, Lidar!LidarNext, MinHeight <= Climb, MinSamples = 2, MinSize = 2
  PROVE  GridInv'
  <1>1. CASE Lidar!Scan
    <2>1. /\ work' \in {"grid", "all"} /\ (filter => work' = "grid") /\ hits' \in [Cells -> Columns]
          /\ todo' \subseteq Lidar!Occupied' /\ (work' = "grid" => todo' = Lidar!Occupied') /\ obstacles' = {}
          /\ UNCHANGED <<filter, steep, clusters>>
      BY <1>1 DEF Lidar!Scan, Lidar!Occupied, GridInv
    <2>2. hits' \in [Cells -> SUBSET Heights]
      BY <2>1 DEF Heights
    <2>3. IsFiniteSet(obstacles') /\ obstacles' \subseteq Cells \X Heights
      BY <2>1, FS_EmptySet
    <2>4. Lidar!WallsAreSeen' /\ Lidar!ClustersSound'
      BY <2>1 DEF Lidar!WallsAreSeen, Lidar!ClustersSound
    <2>5. work' # "grid" => todo' = {}
      <3>1. CASE filter = TRUE
        BY <2>1, <3>1
      <3>2. CASE filter = FALSE
        BY <1>1, <3>2 DEF Lidar!Scan
      <3> QED BY <3>1, <3>2 DEF GridInv
    <2>6. work' = "grid" => \A c \in Lidar!Occupied' \ todo' : Steep(c)' => c \in steep'
      BY <2>1
    <2>7. filter' \in BOOLEAN /\ (filter' => work' # "all") /\ work' \in {"waiting", "grid", "all", "separated"}
      BY <2>1 DEF GridInv
    <2> QED BY <2>1, <2>2, <2>3, <2>4, <2>5, <2>6, <2>7 DEF GridInv
  <1>2. CASE Lidar!PassAll
    <2>1. work = "all" /\ work' = "separated" /\ obstacles' = Lidar!All /\ UNCHANGED <<filter, hits, todo, steep, clusters>>
      BY <1>2 DEF Lidar!PassAll
    <2>2. Lidar!Occupied' = Lidar!Occupied
      BY <2>1 DEF Lidar!Occupied
    <2> QED BY <2>1, <2>2, AllHits DEF GridInv, Lidar!WallsAreSeen, Lidar!ClustersSound
  <1>3. CASE Lidar!SplitCell
    BY <1>3, SplitKeeps
  <1>4. CASE Lidar!Separate
    BY <1>4, SeparateKeeps
  <1>5. CASE Lidar!Cluster
    BY <1>5, ClusterKeeps
  <1> QED BY <1>1, <1>2, <1>3, <1>4, <1>5 DEF Lidar!LidarNext

-----------------------------------------------------------------------------

\* Obstacles rise and clusters are those of the hits, for any row of cells and any hits in them, if
\* what is an obstacle need not rise as much as what is steep, and with the least points of a cluster
\* that the launch file sets.
THEOREM LidarStaysSound ==
  ASSUME MinHeight <= Climb, MinSamples = 2, MinSize = 2
  PROVE  FieldSpec => []LidarSound
  <1>1. FieldInit => GridInv
    BY GridStarts DEF FieldInit
  <1>2. GridInv /\ [FieldNext]_fieldVars => GridInv'
    <2> SUFFICES ASSUME GridInv, [FieldNext]_fieldVars PROVE GridInv'
      OBVIOUS
    <2>1. Lidar!LidarNext \/ UNCHANGED lidar
      BY DEF FieldNext, fieldVars, objects
    <2>2. CASE UNCHANGED lidar
      <3>1. UNCHANGED <<filter, hits, work, todo, steep, obstacles, clusters>>
        BY <2>2 DEF lidar
      <3>2. Lidar!Occupied' = Lidar!Occupied /\ Lidar!All' = Lidar!All /\ \A x : Steep(x)' = Steep(x)
        BY <3>1 DEF Lidar!Occupied, Lidar!All, Steep, Lidar!Ground, Lidar!Beside
      <3>3. Lidar!WallsAreSeen' /\ Lidar!ClustersSound'
        BY <3>1 DEF GridInv, Lidar!WallsAreSeen, Lidar!ClustersSound, Lidar!All, Lidar!Ground, Lidar!Beside, Lidar!Occupied
      <3> QED BY <3>1, <3>2, <3>3 DEF GridInv
    <2> QED BY <2>1, <2>2, GridKeeps
  <1>3. GridInv => LidarSound
    BY DEF GridInv, LidarSound
  <1> QED BY <1>1, <1>2, <1>3, PTL DEF FieldSpec
-----------------------------------------------------------------------------
(* The map of discovered objects: a tick takes the detections of the frame *)
(* one after the other, and what each leaves still follows from the map    *)
(* before the tick.                                                        *)

Objects == [id : Nat, class : Classes, at : Places, count : 1 .. Confirm, idle : 0 .. Decay, confirmed : BOOLEAN]

Numbered(objs, next) ==
    /\ objs \subseteq Objects
    /\ \A o \in objs : o.id < next /\ (o.confirmed \/ o.count < Confirm)
    /\ \A o, p \in objs : o.id = p.id => o = p

MapInv ==
    /\ view \in Views /\ frame \in Map!Detections /\ cloud \subseteq Places
    /\ nextId \in 1 .. MaxIds + 1 /\ Numbered(discovered, nextId)

\* The same object later.
Follows(p, o) ==
    /\ p.id = o.id /\ Map!Gap(p.at, o.at) <= p.count - o.count
    /\ o.confirmed => p.confirmed /\ p.at = o.at
    /\ p.idle \in {0, Map!Longer(o.idle)}

\* A map that a tick may come to from the present one.
Kept(objs, next) ==
    /\ next \in Int /\ next >= nextId /\ Numbered(objs, next)
    /\ \A o \in discovered : \E p \in objs : Follows(p, o)
    /\ \A p \in objs : p.id >= nextId \/ \E o \in discovered : o.id = p.id

LEMMA ObjectNumbers ==
  ASSUME NEW o \in Objects
  PROVE  /\ o.id \in Nat /\ o.class \in Classes /\ o.at \in Places /\ o.count \in 1 .. Confirm
         /\ o.idle \in 0 .. Decay /\ o.confirmed \in BOOLEAN /\ o.at \in Int /\ o.count \in Int
  <1>1. o.id \in Nat /\ o.class \in Classes /\ o.at \in Places /\ o.count \in 1 .. Confirm
    BY DEF Objects
  <1>2. o.idle \in 0 .. Decay /\ o.confirmed \in BOOLEAN
    BY DEF Objects
  <1>3. \A p \in Places : p \in Int
    BY FieldAssumption
  <1>4. Confirm \in Int
    BY FieldAssumption
  <1> QED BY <1>1, <1>2, <1>3, <1>4

LEMMA AgedKept == MapInv => Kept({Map!Aged(o) : o \in discovered}, nextId)
  <1> SUFFICES ASSUME MapInv PROVE Kept({Map!Aged(o) : o \in discovered}, nextId)
    OBVIOUS
  <1> DEFINE objs == {Map!Aged(o) : o \in discovered}
  <1>1. nextId \in Int /\ Numbered(discovered, nextId) /\ Places \subseteq Int /\ Confirm \in Nat /\ Decay \in Nat
    BY FieldAssumption DEF MapInv
  <1>2. ASSUME NEW o \in discovered
        PROVE  LET a == Map!Aged(o) IN
               /\ a \in Objects /\ a.id = o.id /\ a.at = o.at /\ a.count = o.count
               /\ a.confirmed = o.confirmed /\ a.idle = Map!Longer(o.idle)
    <2> DEFINE n == Map!Longer(o.idle)
    <2>1. o \in Objects
      BY <1>1 DEF Numbered
    <2>2. n \in 0 .. Decay
      BY <1>1, <2>1 DEF Map!Longer, Objects
    <2> HIDE DEF n
    <2>3. Map!Aged(o) = [o EXCEPT !.idle = n]
      BY DEF Map!Aged, n
    <2> QED BY <2>1, <2>2, <2>3 DEF Objects, n
  <1>3. Numbered(objs, nextId)
    BY <1>1, <1>2 DEF Numbered
  <1>4. ASSUME NEW o \in discovered PROVE Follows(Map!Aged(o), o) /\ Map!Aged(o) \in objs
    <2>1. o \in Objects
      BY <1>1 DEF Numbered
    <2>2. o.at \in Int /\ o.count \in Int
      BY <2>1, ObjectNumbers
    <2> QED BY <1>2, <2>2 DEF Follows, Map!Gap
  <1>5. ASSUME NEW p \in objs PROVE \E o \in discovered : o.id = p.id
    BY <1>2
  <1> HIDE DEF objs
  <1>6. Kept(objs, nextId)
    BY <1>1, <1>3, <1>4, <1>5 DEF Kept
  <1> QED BY <1>6 DEF objs

\* What is seen again stays itself; if it is confirmed, it stays where it is.
LEMMA MeasuredFacts ==
  ASSUME NEW o \in Objects, o.confirmed \/ o.count < Confirm,
         NEW s \in [class : Classes, at : Places], NEW q \in Map!Measured(o, s)
  PROVE  /\ q \in Objects /\ q.id = o.id /\ q.idle = 0 /\ Map!Gap(q.at, o.at) <= q.count - o.count
         /\ o.confirmed => q.confirmed /\ q.at = o.at
         /\ q.confirmed \/ q.count < Confirm
  <1>1. /\ Places \subseteq Int /\ (\A a, b \in Places : a .. b \subseteq Places)
        /\ Confirm \in Nat \ {0} /\ Decay \in Nat /\ Outlier \in Nat
    BY FieldAssumption
  <1>2. /\ o.id \in Nat /\ o.class \in Classes /\ o.at \in Places /\ o.count \in 1 .. Confirm
        /\ o.idle \in 0 .. Decay /\ o.confirmed \in BOOLEAN /\ s.class \in Classes /\ s.at \in Places
        /\ o.at \in Int /\ s.at \in Int /\ o.count \in Int
    <2>1. s.class \in Classes /\ s.at \in Places /\ \A p \in Places : p \in Int
      BY <1>1
    <2> QED BY <2>1, ObjectNumbers
  <1>3. CASE o.confirmed \/ Map!Gap(o.at, s.at) > Outlier
    <2>1. PICK c \in {o.class, s.class} : q = Map!Voted(o, c)
      BY <1>3 DEF Map!Measured
    <2>2. q = [id |-> o.id, class |-> c, at |-> o.at, count |-> o.count, idle |-> 0, confirmed |-> o.confirmed]
      BY <2>1 DEF Objects, Map!Voted
    <2> QED BY <1>1, <1>2, <2>2 DEF Objects, Map!Gap
  <1>4. CASE ~(o.confirmed \/ Map!Gap(o.at, s.at) > Outlier)
    <2>0. PICK v \in {Map!Voted(o, c) : c \in {o.class, s.class}}, p \in Map!Filtered(o, s.at) : q = Map!Moved(v, p)
      BY <1>4 DEF Map!Measured
    <2>1. PICK c \in {o.class, s.class} : v = Map!Voted(o, c)
      OBVIOUS
    <2> DEFINE f == o.count + 1 >= Confirm
    <2>6. v = [id |-> o.id, class |-> c, at |-> o.at, count |-> o.count, idle |-> 0, confirmed |-> o.confirmed]
      BY <2>1 DEF Objects, Map!Voted
    <2>2. q = [id |-> o.id, class |-> c, at |-> p, count |-> o.count + 1, idle |-> 0, confirmed |-> f]
      BY <2>0, <2>6 DEF Map!Moved
    <2>3. p \in Places /\ p \in Int /\ Map!Gap(p, o.at) <= 1
      <3>1. p = o.at \/ (o.at < s.at /\ p = o.at + 1) \/ (o.at > s.at /\ p = o.at - 1)
        BY <1>2 DEF Map!Filtered
      <3>2. p \in o.at .. s.at \/ p \in s.at .. o.at
        BY <1>2, <3>1
      <3> QED BY <1>1, <1>2, <3>1, <3>2 DEF Map!Gap
    <2>4. o.count + 1 \in 1 .. Confirm /\ f \in BOOLEAN /\ (f \/ o.count + 1 < Confirm)
      BY <1>1, <1>2, <1>4
    <2> HIDE DEF f
    <2>5. q \in Objects /\ q.id = o.id /\ q.idle = 0 /\ q.at = p /\ q.count = o.count + 1 /\ q.confirmed = f
      BY <1>1, <1>2, <2>2, <2>3, <2>4 DEF Objects
    <2> QED BY <1>2, <1>4, <2>3, <2>4, <2>5
  <1> QED BY <1>3, <1>4

LEMMA Farther ==
  ASSUME NEW a \in Int, NEW b \in Int, NEW c \in Int
  PROVE  Map!Gap(a, c) <= Map!Gap(a, b) + Map!Gap(b, c)
  BY DEF Map!Gap

\* One detection.
LEMMA UpdatedKept ==
  ASSUME MapInv, NEW m, Kept(m.objs, m.next), NEW s \in [class : Classes, at : Places],
         NEW n \in Map!Updated(m, s)
  PROVE  Kept(n.objs, n.next)
  <1>1. /\ m.next \in Int /\ m.next >= nextId /\ Numbered(m.objs, m.next) /\ nextId \in 1 .. MaxIds + 1
        /\ Numbered(discovered, nextId) /\ MaxIds \in Nat
    BY FieldAssumption DEF Kept, MapInv
  <1>2. Places \subseteq Int /\ Confirm \in Nat \ {0} /\ Decay \in Nat
    BY FieldAssumption
  <1>3. \A o \in m.objs \cup discovered : o \in Objects /\ o.at \in Int /\ o.count \in Int /\ o.id \in Int
    BY <1>1, ObjectNumbers DEF Numbered
  <1>9. s.at \in Int
    BY <1>2
  <1> DEFINE old == Map!Existing(m.objs, s.at)
  <1>4. old \subseteq m.objs
    BY DEF Map!Existing
  <1>5. CASE old = {}
    <2> DEFINE first == Confirm <= 1
               new == [id |-> m.next, class |-> s.class, at |-> s.at, count |-> 1, idle |-> 0, confirmed |-> first]
    <2>1. n = [objs |-> m.objs \cup {new}, next |-> m.next + 1]
      BY <1>5 DEF Map!Updated, Map!New
    <2>2. first \in BOOLEAN /\ (first \/ 1 < Confirm)
      BY <1>2
    <2> HIDE DEF first
    <2>3. new \in Objects /\ new.id = m.next /\ new.confirmed = first /\ new.count = 1
      BY <1>1, <1>2, <2>2 DEF Objects
    <2> HIDE DEF new
    <2>4. Numbered(n.objs, n.next)
      BY <1>1, <1>3, <2>1, <2>2, <2>3 DEF Numbered
    <2> QED BY <1>1, <2>1, <2>3, <2>4 DEF Kept
  <1>6. CASE old # {}
    <2>0. PICK q \in UNION {Map!Measured(x, s) : x \in old} : n = [objs |-> (m.objs \ old) \cup {q}, next |-> m.next]
      BY <1>6 DEF Map!Updated
    <2>1. PICK x \in old : q \in Map!Measured(x, s)
      OBVIOUS
    <2>2. x \in m.objs /\ x \in Objects /\ (x.confirmed \/ x.count < Confirm) /\ x.id < m.next /\ x.id \in Int
      BY <1>1, <1>3, <1>4 DEF Numbered
    <2>3. old = {x}
      <3> SUFFICES ASSUME NEW y \in old PROVE y = x
        OBVIOUS
      <3>1. y \in m.objs /\ Map!Gap(x.at, s.at) \in Int /\ Map!Gap(y.at, s.at) \in Int /\ y.id \in Int
        BY <1>3, <1>4, <1>9 DEF Map!Gap
      <3>2. x.id = y.id
        BY <2>2, <3>1 DEF Map!Existing
      <3> QED BY <1>1, <2>2, <3>1, <3>2 DEF Numbered
    <2>4. /\ q \in Objects /\ q.id = x.id /\ q.idle = 0 /\ Map!Gap(q.at, x.at) <= q.count - x.count
          /\ x.confirmed => q.confirmed /\ q.at = x.at
          /\ q.confirmed \/ q.count < Confirm
      BY <2>1, <2>2, MeasuredFacts
    <2>5. n.objs = (m.objs \ {x}) \cup {q} /\ n.next = m.next
      BY <2>0, <2>3
    <2>6. Numbered(n.objs, n.next)
      BY <1>1, <2>2, <2>4, <2>5 DEF Numbered
    <2>7. ASSUME NEW o \in discovered PROVE \E p \in n.objs : Follows(p, o)
      <3>1. PICK p \in m.objs : Follows(p, o)
        BY DEF Kept
      <3>2. CASE p = x
        <4>1. q.at \in Int /\ q.count \in Int /\ x.at \in Int /\ x.count \in Int /\ o.at \in Int /\ o.count \in Int
          BY <1>3, <2>2, <2>4, ObjectNumbers
        <4>2. Map!Gap(x.at, o.at) <= x.count - o.count
          BY <3>1, <3>2 DEF Follows
        <4>3. Map!Gap(q.at, x.at) \in Int /\ Map!Gap(x.at, o.at) \in Int /\ Map!Gap(q.at, o.at) \in Int
          BY <4>1 DEF Map!Gap
        <4>4. Map!Gap(q.at, o.at) <= q.count - o.count
          BY <2>4, <4>1, <4>2, <4>3, Farther
        <4> QED BY <2>4, <2>5, <3>1, <3>2, <4>4 DEF Follows
      <3>3. CASE p # x
        BY <2>5, <3>1, <3>3
      <3> QED BY <3>2, <3>3
    <2>8. ASSUME NEW p \in n.objs PROVE p.id >= nextId \/ \E o \in discovered : o.id = p.id
      BY <2>2, <2>4, <2>5 DEF Kept
    <2> QED BY <1>1, <2>5, <2>6, <2>7, <2>8 DEF Kept
  <1> QED BY <1>5, <1>6

\* The detections of a frame lie at clusters, or are left out.
LEMMA FusedKept ==
  ASSUME MapInv, NEW maps, \A m \in maps : Kept(m.objs, m.next),
         NEW d \in [class : Classes, pixel : Pixels], NEW n \in Map!Fused(maps, d)
  PROVE  Kept(n.objs, n.next)
  <1>1. CASE Map!Seen(d).at \in cloud
    <2>1. PICK m \in maps : n \in Map!Updated(m, Map!Seen(d))
      BY <1>1 DEF Map!Fused
    <2>2. Map!Seen(d) \in [class : Classes, at : Places]
      BY <1>1 DEF Map!Seen, MapInv
    <2> QED BY <2>1, <2>2, UpdatedKept
  <1>2. CASE Map!Seen(d).at \notin cloud
    BY <1>2 DEF Map!Fused
  <1> QED BY <1>1, <1>2

LEMMA TickKept ==
  ASSUME MapInv, Map!Tick
  PROVE  \E objs, next : /\ Kept(objs, next) /\ next <= MaxIds + 1
                         /\ discovered' = {o \in objs : Map!Remembered(o)} /\ nextId' = next
  <1> DEFINE start == {[objs |-> {Map!Aged(o) : o \in discovered}, next |-> nextId]}
             maps == CASE Len(frame) = 0 -> start
                       [] Len(frame) = 1 -> Map!Fused(start, frame[1])
                       [] Len(frame) = 2 -> Map!Fused(Map!Fused(start, frame[1]), frame[2])
  <1>0. PICK m \in maps : /\ m.next <= MaxIds + 1
                          /\ discovered' = {o \in m.objs : Map!Remembered(o)} /\ nextId' = m.next
    BY DEF Map!Tick
  <1>1. \A k \in start : Kept(k.objs, k.next)
    <2> DEFINE objs == {Map!Aged(o) : o \in discovered}
    <2>1. Kept(objs, nextId)
      BY AgedKept
    <2> HIDE DEF objs
    <2>2. start = {[objs |-> objs, next |-> nextId]}
      BY DEF objs
    <2> HIDE DEF start
    <2> QED BY <2>1, <2>2
  <1> HIDE DEF start
  <1> DEFINE D == [class : Classes, pixel : Pixels]
  <1>2. \/ Len(frame) = 0
        \/ Len(frame) = 1 /\ frame[1] \in D
        \/ Len(frame) = 2 /\ frame[1] \in D /\ frame[2] \in D
    BY DEF MapInv, Map!Detections
  <1>3. Kept(m.objs, m.next)
    <2>1. CASE Len(frame) = 0
      BY <1>0, <1>1, <2>1
    <2>2. CASE Len(frame) = 1 /\ frame[1] \in D
      <3>1. m \in Map!Fused(start, frame[1])
        BY <1>0, <2>2
      <3> QED BY <1>1, <2>2, <3>1, FusedKept
    <2>3. CASE Len(frame) = 2 /\ frame[1] \in D /\ frame[2] \in D
      <3>1. m \in Map!Fused(Map!Fused(start, frame[1]), frame[2])
        BY <1>0, <2>3
      <3>2. \A k \in Map!Fused(start, frame[1]) : Kept(k.objs, k.next)
        BY <1>1, <2>3, FusedKept
      <3> QED BY <2>3, <3>1, <3>2, FusedKept
    <2> QED BY <1>2, <2>1, <2>2, <2>3
  <1> QED BY <1>0, <1>3

LEMMA Unmoved == MapInv /\ discovered' = discovered => Map!Steady
  <1> SUFFICES ASSUME MapInv, discovered' = discovered PROVE Map!Steady
    OBVIOUS
  <1>1. ASSUME NEW o \in discovered PROVE Map!Gap(o.at, o.at) <= o.count - o.count
    <2>1. o.at \in Int /\ o.count \in Int
      BY ObjectNumbers DEF MapInv, Numbered
    <2> QED BY <2>1 DEF Map!Gap
  <1> QED BY <1>1 DEF Map!Steady

LEMMA TickSteady == MapInv /\ Map!Tick => MapInv' /\ Map!Steady
  <1> SUFFICES ASSUME MapInv, Map!Tick PROVE MapInv' /\ Map!Steady
    OBVIOUS
  <1>1. PICK objs, next : /\ Kept(objs, next) /\ next <= MaxIds + 1
                          /\ discovered' = {o \in objs : Map!Remembered(o)} /\ nextId' = next
    BY TickKept
  <1>2. /\ nextId \in 1 .. MaxIds + 1 /\ MaxIds \in Nat /\ Decay \in Nat /\ Places \subseteq Int /\ Confirm \in Nat
        /\ Numbered(discovered, nextId)
    BY FieldAssumption DEF MapInv
  <1>3. MapInv'
    <2>1. Numbered(objs, next) /\ next \in Int /\ next >= nextId
      BY <1>1 DEF Kept
    <2>2. Numbered(discovered', nextId')
      BY <1>1, <2>1 DEF Numbered
    <2>3. nextId' \in 1 .. MaxIds + 1
      BY <1>1, <1>2, <2>1
    <2> QED BY <2>2, <2>3 DEF MapInv, Map!Tick, Map!Detections, Numbered
  <1>4. ASSUME NEW o \in discovered
        PROVE  \E p \in discovered' \cup {[o EXCEPT !.idle = Decay]} :
                 /\ p.id = o.id /\ Map!Gap(p.at, o.at) <= p.count - o.count
                 /\ o.confirmed => p \in discovered' /\ p.confirmed /\ p.at = o.at
                 /\ p \notin discovered' => o.idle >= Decay - 1
    <2>1. PICK p \in objs : Follows(p, o)
      BY <1>1 DEF Kept
    <2>2. CASE p \in discovered'
      BY <2>1, <2>2 DEF Follows
    <2>3. CASE p \notin discovered'
      <3>1. ~p.confirmed /\ ~(p.idle < Decay)
        BY <1>1, <2>3 DEF Map!Remembered
      <3>2. o \in Objects /\ o.idle \in 0 .. Decay /\ o.at \in Int /\ o.count \in Int
        BY <1>2, ObjectNumbers DEF Numbered
      <3>3. p.idle \in {0, Map!Longer(o.idle)}
        BY <2>1 DEF Follows
      <3>4. ~o.confirmed /\ o.idle >= Decay - 1
        BY <1>2, <2>1, <3>1, <3>2, <3>3 DEF Follows, Map!Longer
      <3> DEFINE a == [o EXCEPT !.idle = Decay]
      <3>5. a.id = o.id /\ a.at = o.at /\ a.count = o.count
        BY <3>2 DEF Objects
      <3>6. Map!Gap(a.at, o.at) <= a.count - o.count
        BY <3>2, <3>5 DEF Map!Gap
      <3> QED BY <3>4, <3>5, <3>6
    <2> QED BY <2>2, <2>3
  <1>5. \A p \in discovered' : p.id >= nextId \/ \E o \in discovered : o.id = p.id
    BY <1>1 DEF Kept
  <1>6. Map!Candidates(discovered', Places) \subseteq Map!Candidates(discovered, Places)
    <2> SUFFICES ASSUME NEW c \in Map!Candidates(discovered', Places), NEW o \in discovered, o.confirmed
                 PROVE  Map!Gap(o.at, c) > Known
      BY DEF Map!Candidates
    <2>1. PICK p \in discovered' : p.confirmed /\ p.at = o.at
      BY <1>4
    <2> QED BY <2>1 DEF Map!Candidates
  <1> QED BY <1>3, <1>4, <1>5, <1>6 DEF Map!Steady

LEMMA MapStarts == Map!MapInit => MapInv
  BY FieldAssumption DEF Map!MapInit, MapInv, Map!Detections, Numbered

LEMMA MapSteps == MapInv /\ Map!MapStep => MapInv' /\ Map!Steady
  <1> SUFFICES ASSUME MapInv, Map!MapStep PROVE MapInv' /\ Map!Steady
    OBVIOUS
  <1>1. ASSUME NEW ds \in Map!Detections, Map!Detect(ds) PROVE MapInv' /\ discovered' = discovered
    BY <1>1 DEF Map!Detect, MapInv, Map!Detections, Numbered
  <1>2. ASSUME NEW ps \in SUBSET Places, Map!Cluster(ps) PROVE MapInv' /\ discovered' = discovered
    BY <1>2 DEF Map!Cluster, MapInv, Map!Detections, Numbered
  <1>3. ASSUME NEW v \in Views, Map!Turn(v) PROVE MapInv' /\ discovered' = discovered
    BY <1>3 DEF Map!Turn, MapInv, Map!Detections, Numbered
  <1>4. CASE Map!Tick
    BY <1>4, TickSteady
  <1>5. CASE Map!ClearMap
    BY <1>5 DEF Map!ClearMap, MapInv, Map!Detections, Numbered, Map!Steady
  <1> QED BY <1>1, <1>2, <1>3, <1>4, <1>5, Unmoved DEF Map!MapStep

LEMMA MapHolds == MapInv => Map!MapTypeOK
  BY FieldAssumption DEF MapInv, Numbered, Objects, Map!MapTypeOK

LEMMA MapRests == MapInv /\ UNCHANGED map => MapInv'
  BY DEF MapInv, map, Map!Detections, Numbered

\* What is confirmed stays where it is and is not asked for again, for any frames, clusters and
\* turns of the camera in any order, any radii, number of confirming observations and decay.
THEOREM MapStaysSteady == FieldSpec => MapIsSteady
  <1>1. FieldInit => MapInv
    BY MapStarts DEF FieldInit
  <1>2. MapInv /\ [FieldNext]_fieldVars => MapInv' /\ [Map!Steady]_map
    <2> SUFFICES ASSUME MapInv, [FieldNext]_fieldVars PROVE MapInv' /\ [Map!Steady]_map
      OBVIOUS
    <2>1. CASE layer = "map" /\ Map!MapStep
      BY <2>1, MapSteps
    <2>2. CASE UNCHANGED map
      BY <2>2, MapRests
    <2> QED BY <2>1, <2>2 DEF FieldNext, fieldVars, objects
  <1>3. MapInv => Map!MapTypeOK
    BY MapHolds
  <1>4. [Map!Steady]_map => [Map!Steady]_(Map!map)
    BY DEF map, Map!map
  <1> QED BY <1>1, <1>2, <1>3, <1>4, PTL DEF FieldSpec, MapIsSteady, Map!MapIsSteady
-----------------------------------------------------------------------------
(* The objects of an image: greedy pairing takes the pairs one after the   *)
(* other, and what a box without a pairing falls back to is taken one box  *)
(* after the other.  Both are folds over a finite set, so that what they   *)
(* come to follows by induction on the sets of what has been taken.        *)

\* The pairing of any detections and clusters by any scores.
Any(D, C, most, delta, sc) ==
    INSTANCE ClusterMatch WITH Dets <- D, Clusters <- C, MaxScore <- most, Delta <- delta, score <- sc

\* The element that a set gives up first, of every set of some elements.
Picks(pick, S) == \A T \in SUBSET S : T # {} => pick[T] \in T
\* What holds of a set if it holds of what is left when one has been picked.
Climbs(X, pick, S) == {} \in X /\ \A T \in SUBSET S : T # {} /\ T \ {pick[T]} \in X => T \in X
\* What the elements come to, one after the other, from a first value on.
Folds(g, S, pick, base, op) ==
    \A T \in SUBSET S : g[T] = IF T = {} THEN base ELSE op[<<g[T \ {pick[T]}], pick[T]>>]

\* What takes the elements of a finite set one after the other, in any order, has a value for every subset.
LEMMA SubsetRecursion ==
  ASSUME NEW S, IsFiniteSet(S), NEW V, NEW base \in V, NEW pick, Picks(pick, S), NEW op \in [V \X S -> V]
  PROVE  \E g \in [SUBSET S -> V] : Folds(g, S, pick, base, op)
  <1> DEFINE Small(n) == {T \in SUBSET S : Cardinality(T) <= n}
             Goes(g, T) == g[T] = IF T = {} THEN base ELSE op[<<g[T \ {pick[T]}], pick[T]>>]
             N == {n \in Nat : \E g \in [Small(n) -> V] : \A T \in Small(n) : Goes(g, T)}
  <1>1. \A T \in SUBSET S : IsFiniteSet(T) /\ Cardinality(T) \in Nat /\ (Cardinality(T) = 0 <=> T = {})
    BY FS_Subset, FS_CardinalityType, FS_EmptySet
  <1>2. 0 \in N
    <2>1. \A T \in Small(0) : T = {}
      BY <1>1
    <2>2. PICK g : g = [T \in Small(0) |-> base]
      OBVIOUS
    <2>3. g \in [Small(0) -> V] /\ \A T \in Small(0) : Goes(g, T)
      BY <2>1, <2>2
    <2> QED BY <2>3
  <1>3. ASSUME NEW n \in N PROVE n + 1 \in N
    <2>1. PICK g \in [Small(n) -> V] : \A T \in Small(n) : Goes(g, T)
      OBVIOUS
    <2>0. n \in Nat
      OBVIOUS
    <2>2. ASSUME NEW T \in Small(n + 1), T # {}
          PROVE  pick[T] \in T /\ pick[T] \in S /\ T \ {pick[T]} \in Small(n)
      <3>0. T \in SUBSET S
        OBVIOUS
      <3>1. pick[T] \in T /\ T \in SUBSET S /\ n \in Nat
        BY <2>0, <2>2, <3>0 DEF Picks
      <3>2. Cardinality(T \ {pick[T]}) = Cardinality(T) - 1
        BY <1>1, <3>1, FS_RemoveElement
      <3> QED BY <1>1, <3>1, <3>2
    <2>3. PICK h : h = [T \in Small(n + 1) |-> IF T = {} THEN base ELSE op[<<g[T \ {pick[T]}], pick[T]>>]]
      OBVIOUS
    <2>4. h \in [Small(n + 1) -> V]
      <3>1. ASSUME NEW T \in Small(n + 1) PROVE h[T] \in V
        <4>1. CASE T = {}
          BY <2>3, <4>1
        <4>2. CASE T # {}
          <5>1. g[T \ {pick[T]}] \in V /\ pick[T] \in S
            BY <2>2, <4>2
          <5> QED BY <2>3, <4>2, <5>1
        <4> QED BY <4>1, <4>2
      <3> QED BY <2>3, <3>1
    <2>5. \A T \in Small(n) : T \in Small(n + 1) /\ h[T] = g[T]
      <3> SUFFICES ASSUME NEW T \in Small(n) PROVE T \in Small(n + 1) /\ h[T] = g[T]
        OBVIOUS
      <3>1. T \in Small(n + 1)
        BY <1>1
      <3> QED BY <2>1, <2>3, <3>1
    <2>6. ASSUME NEW T \in Small(n + 1) PROVE Goes(h, T)
      <3>1. CASE T = {}
        BY <2>3, <3>1
      <3>2. CASE T # {}
        BY <2>2, <2>3, <2>5, <3>2
      <3> QED BY <3>1, <3>2
    <2> HIDE DEF Small, Goes
    <2> QED BY <2>4, <2>6
  <1>4. N = Nat
    <2>1. N \in SUBSET Nat
      OBVIOUS
    <2> HIDE DEF N
    <2> QED BY <1>2, <1>3, <2>1, Induction
  <1>5. Small(Cardinality(S)) = SUBSET S
    <2>1. \A T \in SUBSET S : Cardinality(T) <= Cardinality(S)
      BY FS_Subset
    <2> QED BY <2>1
  <1>6. Cardinality(S) \in N
    BY <1>4, FS_CardinalityType
  <1> QED BY <1>5, <1>6 DEF Folds

\* What holds of no elements, and of some if it held before the last of them, holds of all.
LEMMA SubsetInduction ==
  ASSUME NEW S, IsFiniteSet(S), NEW pick, Picks(pick, S), NEW X, Climbs(X, pick, S)
  PROVE  \A T \in SUBSET S : T \in X
  <1> DEFINE N == {n \in Nat : \A T \in SUBSET S : Cardinality(T) <= n => T \in X}
  <1>1. \A T \in SUBSET S : IsFiniteSet(T) /\ Cardinality(T) \in Nat /\ (Cardinality(T) = 0 <=> T = {})
    BY FS_Subset, FS_CardinalityType, FS_EmptySet
  <1>2. 0 \in N
    BY <1>1 DEF Climbs
  <1>3. ASSUME NEW n \in N PROVE n + 1 \in N
    <2>0. n \in Nat
      OBVIOUS
    <2>1. ASSUME NEW T \in SUBSET S, Cardinality(T) <= n + 1, T # {} PROVE T \in X
      <3>1. Cardinality(T \ {pick[T]}) = Cardinality(T) - 1 /\ T \ {pick[T]} \in SUBSET S
        BY <1>1, <2>1, FS_RemoveElement DEF Picks
      <3>2. Cardinality(T \ {pick[T]}) <= n
        BY <1>1, <2>0, <2>1, <3>1
      <3> QED BY <2>1, <3>1, <3>2 DEF Climbs
    <2>2. \A T \in SUBSET S : Cardinality(T) <= n + 1 => T \in X
      BY <2>1 DEF Climbs
    <2> QED BY <2>0, <2>2
  <1>4. N = Nat
    <2>1. N \in SUBSET Nat
      OBVIOUS
    <2> HIDE DEF N
    <2> QED BY <1>2, <1>3, <2>1, Induction
  <1>5. Cardinality(S) \in N /\ \A T \in SUBSET S : Cardinality(T) <= Cardinality(S)
    BY <1>4, FS_CardinalityType, FS_Subset
  <1> QED BY <1>5

\* A finite set that is ordered has a last element.
LEMMA HasLast ==
  ASSUME NEW S, IsFiniteSet(S), NEW R, \A p, q \in S : p # q => <<p, q>> \in R \/ <<q, p>> \in R,
         \A p, q, r \in S : <<p, q>> \in R /\ <<q, r>> \in R => <<p, r>> \in R
  PROVE  \A T \in SUBSET S : T # {} => \E p \in T : \A q \in T \ {p} : <<q, p>> \in R
  <1> DEFINE Has(T) == T # {} => \E p \in T : \A q \in T \ {p} : <<q, p>> \in R
             N == {n \in Nat : \A T \in SUBSET S : Cardinality(T) <= n => Has(T)}
  <1>1. \A T \in SUBSET S : IsFiniteSet(T) /\ Cardinality(T) \in Nat /\ (Cardinality(T) = 0 <=> T = {})
    BY FS_Subset, FS_CardinalityType, FS_EmptySet
  <1>2. 0 \in N
    BY <1>1
  <1>3. ASSUME NEW n \in N PROVE n + 1 \in N
    <2> SUFFICES ASSUME NEW T \in SUBSET S, Cardinality(T) <= n + 1, T # {}
                 PROVE  \E p \in T : \A q \in T \ {p} : <<q, p>> \in R
      OBVIOUS
    <2>1. PICK x : x \in T
      OBVIOUS
    <2> DEFINE U == T \ {x}
    <2>2. U \in SUBSET S /\ Cardinality(U) <= n
      <3>1. Cardinality(U) = Cardinality(T) - 1 /\ n \in Nat
        BY <1>1, <2>1, FS_RemoveElement
      <3> QED BY <1>1, <3>1
    <2>3. Has(U)
      BY <2>2
    <2>4. CASE U = {}
      BY <2>1, <2>4
    <2>5. CASE U # {}
      <3>1. PICK p \in U : \A q \in U \ {p} : <<q, p>> \in R
        BY <2>3, <2>5
      <3>2. CASE <<x, p>> \in R
        BY <2>1, <3>1, <3>2
      <3>3. CASE <<p, x>> \in R
        <4>1. \A q \in T \ {x} : <<q, x>> \in R
          BY <2>1, <3>1, <3>3
        <4> QED BY <2>1, <4>1
      <3> QED BY <2>1, <3>1, <3>2, <3>3
    <2> QED BY <2>4, <2>5
  <1>4. N = Nat
    <2>1. N \in SUBSET Nat
      OBVIOUS
    <2> HIDE DEF N
    <2> QED BY <1>2, <1>3, <2>1, Induction
  <1>5. Cardinality(S) \in N /\ \A T \in SUBSET S : Cardinality(T) <= Cardinality(S)
    BY <1>4, FS_CardinalityType, FS_Subset
  <1> QED BY <1>5

\* Every detection gets the best cluster that is left for it when its turn comes, by the margin,
\* or none: for any scores.
LEMMA AnyAssignment ==
  ASSUME NEW D \in SUBSET Int, IsFiniteSet(D), NEW C \in SUBSET Int, IsFiniteSet(C),
         NEW most \in Int, NEW delta \in Int, NEW sc \in [D \X C -> Int]
  PROVE  /\ Any(D, C, most, delta, sc)!AssignmentSound
         /\ Any(D, C, most, delta, sc)!Selected \subseteq Any(D, C, most, delta, sc)!Pairs
  <1> DEFINE P == Any(D, C, most, delta, sc)!Pairs
             Bef(p, q) == Any(D, C, most, delta, sc)!Before(p, q)
             Cl(p, taken) == Any(D, C, most, delta, sc)!Close(p, taken)
             last(T) == Any(D, C, most, delta, sc)!Last(T)
             next(v, p) == Any(D, C, most, delta, sc)!Choose(v, p)
             done == Any(D, C, most, delta, sc)!Done
             none == Any(D, C, most, delta, sc)!Nothing
  <1>1. /\ P \subseteq D \X C /\ IsFiniteSet(P)
        /\ \A p \in P : p[1] \in D /\ p[2] \in C /\ p[1] \in Int /\ p[2] \in Int /\ sc[p] \in Int
        /\ \A p, q \in P : p[1] = q[1] /\ p[2] = q[2] => p = q
    <2>1. P \subseteq D \X C
      BY DEF Any!Pairs
    <2>2. IsFiniteSet(P)
      <3>1. IsFiniteSet(D \X C)
        BY FS_Product
      <3> HIDE DEF P
      <3> QED BY <2>1, <3>1, FS_Subset
    <2>3. ASSUME NEW p \in P PROVE p[1] \in D /\ p[2] \in C /\ p[1] \in Int /\ p[2] \in Int /\ sc[p] \in Int
      BY <2>1
    <2>4. ASSUME NEW p \in P, NEW q \in P, p[1] = q[1], p[2] = q[2] PROVE p = q
      BY <2>1, <2>4
    <2> QED BY <2>1, <2>2, <2>3, <2>4
  <1>2. /\ \A p \in P : ~Bef(p, p)
        /\ \A p, q \in P : p # q => Bef(p, q) \/ Bef(q, p)
        /\ \A p, q, r \in P : Bef(p, q) /\ Bef(q, r) => Bef(p, r)
    <2> HIDE DEF P
    <2>1. \A p \in P : ~Bef(p, p)
      BY <1>1 DEF Any!Before
    <2>2. ASSUME NEW p \in P, NEW q \in P, p # q PROVE Bef(p, q) \/ Bef(q, p)
      BY <1>1, <2>2 DEF Any!Before
    <2>3. ASSUME NEW p \in P, NEW q \in P, NEW r \in P, Bef(p, q), Bef(q, r) PROVE Bef(p, r)
      BY <1>1, <2>3 DEF Any!Before
    <2> QED BY <2>1, <2>2, <2>3
  <1>3. \A T \in SUBSET P : T # {} => last(T) \in T /\ \A q \in T \ {last(T)} : Bef(q, last(T))
    <2> DEFINE R == {e \in P \X P : Bef(e[1], e[2])}
    <2> HIDE DEF P, Bef
    <2>1. \A p, q \in P : <<p, q>> \in R <=> Bef(p, q)
      OBVIOUS
    <2> HIDE DEF R
    <2>2. \A T \in SUBSET P : T # {} => \E p \in T : \A q \in T \ {p} : <<q, p>> \in R
      <3>1. \A p, q \in P : p # q => <<p, q>> \in R \/ <<q, p>> \in R
        BY <1>2, <2>1
      <3>2. \A p, q, r \in P : <<p, q>> \in R /\ <<q, r>> \in R => <<p, r>> \in R
        BY <1>2, <2>1
      <3> QED BY <1>1, <3>1, <3>2, HasLast
    <2> SUFFICES ASSUME NEW T \in SUBSET P, T # {}
                 PROVE  last(T) \in T /\ \A q \in T \ {last(T)} : Bef(q, last(T))
      OBVIOUS
    <2>3. PICK p \in T : \A q \in T \ {p} : Bef(q, p)
      BY <2>1, <2>2
    <2>4. last(T) = CHOOSE x \in T : \A q \in T \ {x} : Bef(q, x)
      BY DEF Any!Last, Bef
    <2> QED BY <2>3, <2>4
  <1> DEFINE St == [dets : SUBSET D, taken : SUBSET C, pairs : SUBSET P]
  <1>4. none \in St /\ none.dets = {} /\ none.taken = {} /\ none.pairs = {}
    BY DEF Any!Nothing
  <1>5. ASSUME NEW v \in St, NEW p \in P
        PROVE  /\ next(v, p) \in St
               /\ p[1] \in v.dets \/ p[2] \in v.taken => next(v, p) = v
               /\ ~(p[1] \in v.dets \/ p[2] \in v.taken) =>
                    /\ next(v, p).dets = v.dets \cup {p[1]}
                    /\ Cl(p, v.taken) => next(v, p).taken = v.taken /\ next(v, p).pairs = v.pairs
                    /\ ~Cl(p, v.taken) => /\ next(v, p).taken = v.taken \cup {p[2]}
                                          /\ next(v, p).pairs = v.pairs \cup {p}
    <2> HIDE DEF P, Cl
    <2>1. next(v, p) = IF p[1] \in v.dets \/ p[2] \in v.taken THEN v
                       ELSE [dets |-> v.dets \cup {p[1]},
                             taken |-> IF Cl(p, v.taken) THEN v.taken ELSE v.taken \cup {p[2]},
                             pairs |-> IF Cl(p, v.taken) THEN v.pairs ELSE v.pairs \cup {p}]
      BY DEF Any!Choose, Cl
    <2> HIDE DEF next
    <2>2. p[1] \in D /\ p[2] \in C
      BY <1>1
    <2>3. CASE p[1] \in v.dets \/ p[2] \in v.taken
      BY <2>1, <2>3
    <2>4. CASE ~(p[1] \in v.dets \/ p[2] \in v.taken) /\ Cl(p, v.taken)
      <3>1. next(v, p) = [dets |-> v.dets \cup {p[1]}, taken |-> v.taken, pairs |-> v.pairs]
        BY <2>1, <2>4
      <3> QED BY <2>2, <2>4, <3>1
    <2>5. CASE ~(p[1] \in v.dets \/ p[2] \in v.taken) /\ ~Cl(p, v.taken)
      <3>1. next(v, p) = [dets |-> v.dets \cup {p[1]}, taken |-> v.taken \cup {p[2]}, pairs |-> v.pairs \cup {p}]
        BY <2>1, <2>5
      <3> QED BY <2>2, <2>5, <3>1
    <2> QED BY <2>3, <2>4, <2>5
  <1>6. /\ done \in [SUBSET P -> St]
        /\ \A T \in SUBSET P : done[T] = IF T = {} THEN none ELSE next(done[T \ {last(T)}], last(T))
    <2> DEFINE pick == [T \in SUBSET P |-> last(T)]
               op == [e \in St \X P |-> next(e[1], e[2])]
    <2>0. done = CHOOSE g : g = [T \in SUBSET P |-> IF T = {} THEN none ELSE next(g[T \ {last(T)}], last(T))]
      BY DEF Any!Done
    <2> HIDE DEF P, St, last, next, none, done
    <2>1. \A T \in SUBSET P : T # {} => pick[T] \in T
      BY <1>3
    <2>2. op \in [St \X P -> St]
      <3>1. ASSUME NEW e \in St \X P PROVE next(e[1], e[2]) \in St
        BY <1>5
      <3> QED BY <3>1
    <2>3. \A v \in St, p \in P : op[<<v, p>>] = next(v, p)
      OBVIOUS
    <2>4. \A T \in SUBSET P : pick[T] = last(T)
      OBVIOUS
    <2> HIDE DEF op, pick
    <2>12. IsFiniteSet(P) /\ none \in St
      BY <1>1, <1>4
    <2>13. Picks(pick, P)
      BY <2>1 DEF Picks
    <2>14. PICK g \in [SUBSET P -> St] : Folds(g, P, pick, none, op)
      BY <2>12, <2>13, <2>2, SubsetRecursion
    <2>5. \A T \in SUBSET P : g[T] = IF T = {} THEN none ELSE op[<<g[T \ {pick[T]}], pick[T]>>]
      BY <2>14 DEF Folds
    <2>6. ASSUME NEW T \in SUBSET P
          PROVE  g[T] = IF T = {} THEN none ELSE next(g[T \ {last(T)}], last(T))
      <3>1. CASE T = {}
        BY <2>5, <3>1
      <3>2. CASE T # {}
        <4>1. last(T) \in P /\ T \ {last(T)} \in SUBSET P
          BY <1>3, <3>2
        <4>2. g[T \ {last(T)}] \in St
          BY <4>1
        <4>3. g[T] = op[<<g[T \ {last(T)}], last(T)>>]
          BY <2>4, <2>5, <3>2
        <4> QED BY <2>3, <3>2, <4>1, <4>2, <4>3
      <3> QED BY <3>1, <3>2
    <2>7. g = [T \in SUBSET P |-> IF T = {} THEN none ELSE next(g[T \ {last(T)}], last(T))]
      BY <2>6
    <2>8. done = [T \in SUBSET P |-> IF T = {} THEN none ELSE next(done[T \ {last(T)}], last(T))]
      BY <2>0, <2>7
    <2>9. \A T \in SUBSET P : done[T] = IF T = {} THEN none ELSE next(done[T \ {last(T)}], last(T))
      BY <2>8
    <2>10. \A T \in SUBSET P : T \in {U \in SUBSET P : done[U] \in St}
      <3> DEFINE X == {U \in SUBSET P : done[U] \in St}
      <3>1. {} \in X
        BY <1>4, <2>9
      <3>2. ASSUME NEW T \in SUBSET P, T # {}, T \ {pick[T]} \in X PROVE T \in X
        <4>1. done[T \ {last(T)}] \in St /\ last(T) \in P
          BY <1>3, <2>4, <3>2
        <4>2. done[T] = next(done[T \ {last(T)}], last(T))
          BY <2>9, <3>2
        <4> QED BY <1>5, <4>1, <4>2
      <3>3. Climbs(X, pick, P)
        BY <3>1, <3>2 DEF Climbs
      <3> HIDE DEF X
      <3>4. \A T \in SUBSET P : T \in X
        BY <2>12, <2>13, <3>3, SubsetInduction
      <3> QED BY <3>4 DEF X
    <2>11. done \in [SUBSET P -> St]
      BY <2>8, <2>10
    <2> QED BY <2>9, <2>11
  <1>7. /\ IsFiniteSet(P)
        /\ \A p, q \in P : p[1] = q[1] /\ p[2] = q[2] => p = q
        /\ \A p \in P, taken \in SUBSET C : Cl(p, taken) <=>
              \E q \in P : q[1] = p[1] /\ q[2] # p[2] /\ q[2] \notin taken /\ sc[q] - sc[p] < delta
        /\ \A p \in P : sc[p] \in Int
    <2>1. \A p \in P, taken \in SUBSET C : Cl(p, taken) <=>
              \E q \in P : q[1] = p[1] /\ q[2] # p[2] /\ q[2] \notin taken /\ sc[q] - sc[p] < delta
      BY DEF Any!Close
    <2> HIDE DEF P, Cl
    <2> QED BY <1>1, <2>1
  <1> DEFINE Free(w, p, q) == \A r \in w : r[2] = q[2] => ~Bef(r, p)
             Held(T, v) == /\ v.pairs \subseteq T
                           /\ \A c : c \in v.taken <=> \E q \in v.pairs : q[2] = c
                           /\ \A q \in v.pairs : q[1] \in v.dets
             Looked(T, v) == \A q \in T : q[1] \in v.dets \/ \E r \in v.pairs : r[2] = q[2] /\ Bef(r, q)
             Fair(T, v) == \A d \in v.dets : \E q \in T :
                             /\ q[1] = d /\ Free(v.pairs, q, q)
                             /\ q \in v.pairs \/ \E r \in P : /\ r[1] = d /\ r[2] # q[2] /\ Free(v.pairs, q, r)
                                                              /\ sc[r] - sc[q] < delta
             Best(v) == \A q \in v.pairs :
                             /\ Free(v.pairs, q, q)
                             /\ \A r \in P : r[1] = q[1] /\ r[2] # q[2] /\ Free(v.pairs, q, r) => ~(sc[r] - sc[q] < delta)
             Single(v) == \A q, r \in v.pairs : (q[1] = r[1]) <=> (q[2] = r[2])
             Settled(T, v) == Held(T, v) /\ Looked(T, v) /\ Fair(T, v) /\ Best(v) /\ Single(v)
  <1>8. Settled({}, none)
    <2> HIDE DEF P, Bef, none
    <2> QED BY <1>4
  <1>9. ASSUME NEW T \in SUBSET P, T # {}, Settled(T \ {last(T)}, done[T \ {last(T)}])
        PROVE  Settled(T, done[T])
    <2> DEFINE p == last(T)
               U == T \ {p}
               u == done[U]
               v == done[T]
    <2> HIDE DEF P, Bef, Cl, none, next, done, last
    <2>1. p \in P /\ p \in T /\ U \in SUBSET P /\ u \in St /\ v = next(u, p) /\ T = U \cup {p} /\ p \notin U
      BY <1>3, <1>6, <1>9
    <2>2. \A q \in U : Bef(q, p) /\ ~Bef(p, q)
      BY <1>2, <1>3, <1>9, <2>1
    <2>3. Held(U, u) /\ Looked(U, u) /\ Fair(U, u) /\ Best(u) /\ Single(u)
      BY <1>9
    <2>4. u.taken \in SUBSET C /\ u.pairs \subseteq U /\ u.pairs \in SUBSET P
      BY <2>1, <2>3
    <2> HIDE DEF p, U, u, v
    <2>5. ~Bef(p, p)
      BY <1>2, <2>1
    <2>6. CASE p[1] \in u.dets \/ p[2] \in u.taken
      <3>1. v = u
        BY <1>5, <2>1, <2>6
      <3>2. Held(T, v)
        BY <2>1, <2>3, <3>1
      <3>3. Looked(T, v)
        BY <2>1, <2>2, <2>3, <2>4, <2>6, <3>1
      <3>4. Fair(T, v)
        <4>1. \A d \in u.dets : \E q \in U :
                             /\ q[1] = d /\ Free(u.pairs, q, q)
                             /\ q \in u.pairs \/ \E r \in P : /\ r[1] = d /\ r[2] # q[2] /\ Free(u.pairs, q, r)
                                                              /\ sc[r] - sc[q] < delta
          BY <2>3
        <4> HIDE DEF Free
        <4> QED BY <2>1, <3>1, <4>1
      <3>5. Best(v) /\ Single(v)
        BY <2>3, <3>1
      <3> QED BY <3>2, <3>3, <3>4, <3>5 DEF v
    <2>7. CASE ~(p[1] \in u.dets \/ p[2] \in u.taken) /\ Cl(p, u.taken)
      <3>1. v.dets = u.dets \cup {p[1]} /\ v.taken = u.taken /\ v.pairs = u.pairs
        BY <1>5, <2>1, <2>7
      <3>2. Held(T, v)
        BY <2>1, <2>3, <3>1
      <3>3. Looked(T, v)
        BY <2>1, <2>3, <3>1
      <3>4. Fair(T, v)
        <4>1. \A d \in u.dets : \E q \in U :
                             /\ q[1] = d /\ Free(u.pairs, q, q)
                             /\ q \in u.pairs \/ \E r \in P : /\ r[1] = d /\ r[2] # q[2] /\ Free(u.pairs, q, r)
                                                              /\ sc[r] - sc[q] < delta
          BY <2>3
        <4>2. Free(u.pairs, p, p)
          BY <2>3, <2>7
        <4>3. PICK r \in P : r[1] = p[1] /\ r[2] # p[2] /\ r[2] \notin u.taken /\ sc[r] - sc[p] < delta
          BY <1>7, <2>1, <2>4, <2>7
        <4>4. Free(u.pairs, p, r)
          BY <2>3, <4>3
        <4> HIDE DEF Free
        <4> QED BY <2>1, <3>1, <4>1, <4>2, <4>3, <4>4
      <3>5. Best(v) /\ Single(v)
        BY <2>3, <3>1
      <3> QED BY <3>2, <3>3, <3>4, <3>5 DEF v
    <2>8. CASE ~(p[1] \in u.dets \/ p[2] \in u.taken) /\ ~Cl(p, u.taken)
      <3>1. v.dets = u.dets \cup {p[1]} /\ v.taken = u.taken \cup {p[2]} /\ v.pairs = u.pairs \cup {p}
        BY <1>5, <2>1, <2>8
      <3>2. Held(T, v)
        BY <2>1, <2>3, <3>1
      <3>3. Looked(T, v)
        BY <2>1, <2>3, <3>1
      <3>4. \A q \in U : \A r : Free(u.pairs, q, r) => Free(v.pairs, q, r)
        BY <2>2, <3>1
      <3>5. \A q, r : Free(v.pairs, q, r) => Free(u.pairs, q, r)
        BY <3>1
      <3>6. Free(v.pairs, p, p)
        BY <2>3, <2>5, <2>8, <3>1
      <3>7. Fair(T, v)
        <4>1. \A d \in u.dets : \E q \in U :
                             /\ q[1] = d /\ Free(u.pairs, q, q)
                             /\ q \in u.pairs \/ \E r \in P : /\ r[1] = d /\ r[2] # q[2] /\ Free(u.pairs, q, r)
                                                              /\ sc[r] - sc[q] < delta
          BY <2>3
        <4> HIDE DEF Free
        <4>2. ASSUME NEW d \in u.dets
              PROVE  \E q \in T : /\ q[1] = d /\ Free(v.pairs, q, q)
                                  /\ q \in v.pairs \/ \E r \in P : /\ r[1] = d /\ r[2] # q[2] /\ Free(v.pairs, q, r)
                                                                   /\ sc[r] - sc[q] < delta
          BY <2>1, <3>1, <3>4, <4>1
        <4>3. p \in T /\ p[1] = p[1] /\ Free(v.pairs, p, p) /\ p \in v.pairs
          BY <2>1, <3>1, <3>6
        <4> QED BY <3>1, <4>2, <4>3
      <3>8. Best(v)
        <4>1. ASSUME NEW q \in u.pairs
              PROVE  /\ Free(v.pairs, q, q)
                     /\ \A r \in P : r[1] = q[1] /\ r[2] # q[2] /\ Free(v.pairs, q, r) => ~(sc[r] - sc[q] < delta)
          <5>1. q \in U /\ Free(u.pairs, q, q)
            BY <2>3, <2>4
          <5>2. \A r \in P : r[1] = q[1] /\ r[2] # q[2] /\ Free(u.pairs, q, r) => ~(sc[r] - sc[q] < delta)
            BY <2>3
          <5> HIDE DEF Free
          <5> QED BY <3>4, <3>5, <5>1, <5>2
        <4>2. ASSUME NEW r \in P, r[1] = p[1], r[2] # p[2], Free(v.pairs, p, r)
              PROVE  ~(sc[r] - sc[p] < delta)
          <5>1. r[2] \notin u.taken
            BY <2>2, <2>3, <2>4, <3>5, <4>2
          <5> QED BY <1>7, <2>1, <2>4, <2>8, <4>2, <5>1
        <4> HIDE DEF Free
        <4> QED BY <3>1, <3>6, <4>1, <4>2
      <3>9. Single(v)
        BY <2>3, <2>8, <3>1
      <3> QED BY <3>2, <3>3, <3>7, <3>8, <3>9 DEF v
    <2> QED BY <2>6, <2>7, <2>8
  <1>10. Settled(P, done[P])
    <2> DEFINE X == {U \in SUBSET P : Settled(U, done[U])}
               pick == [T \in SUBSET P |-> last(T)]
    <2> HIDE DEF P, Sound, none, next, done, last
    <2>1. {} \in X
      BY <1>6, <1>8
    <2>2. \A T \in SUBSET P : pick[T] = last(T)
      OBVIOUS
    <2> HIDE DEF pick
    <2>3. \A T \in SUBSET P : T # {} => pick[T] \in T
      BY <1>3, <2>2
    <2>4. ASSUME NEW T \in SUBSET P, T # {}, T \ {pick[T]} \in X PROVE T \in X
      <3>1. Settled(T \ {last(T)}, done[T \ {last(T)}])
        BY <2>2, <2>4
      <3>2. Settled(T, done[T])
        BY <1>9, <2>4, <3>1
      <3> QED BY <3>2
    <2>5. Climbs(X, pick, P)
      BY <2>1, <2>4 DEF Climbs
    <2>8. Picks(pick, P)
      BY <2>3 DEF Picks
    <2>6. IsFiniteSet(P)
      BY <1>1
    <2> HIDE DEF X
    <2>7. \A T \in SUBSET P : T \in X
      BY <2>5, <2>6, <2>8, SubsetInduction
    <2> QED BY <2>7 DEF X
  <1> DEFINE sel == Any(D, C, most, delta, sc)!Selected
  <1>11. sel = done[P].pairs /\ sel \subseteq P
    <2>1. sel = done[P].pairs
      BY DEF Any!Selected
    <2> HIDE DEF P, done, sel
    <2> QED BY <1>10, <2>1
  <1>12. \A p, q : Any(D, C, most, delta, sc)!OpenAt(p, q) <=> Free(sel, p, q)
    BY DEF Any!OpenAt
  <1>13. \A p, q \in sel : (p[1] = q[1]) <=> (p[2] = q[2])
    <2> HIDE DEF P, done, sel, Bef
    <2> QED BY <1>10, <1>11
  <1>14. ASSUME NEW p \in sel
         PROVE  /\ Free(sel, p, p)
                /\ \A q \in P : q[1] = p[1] /\ q # p /\ Free(sel, p, q) => sc[q] >= sc[p] + delta
    <2> HIDE DEF P, done, sel, Bef
    <2>0. Free(sel, p, p) /\ \A r \in P : r[1] = p[1] /\ r[2] # p[2] /\ Free(sel, p, r) => ~(sc[r] - sc[p] < delta)
      BY <1>10, <1>11
    <2> HIDE DEF Free
    <2>1. ASSUME NEW q \in P, q[1] = p[1], q # p, Free(sel, p, q) PROVE sc[q] >= sc[p] + delta
      <3>1. p \in P /\ q[2] # p[2]
        BY <1>7, <1>11, <2>1
      <3>2. sc[q] \in Int /\ sc[p] \in Int
        BY <1>7, <3>1
      <3>3. ~(sc[q] - sc[p] < delta)
        BY <2>0, <2>1, <3>1
      <3> QED BY <3>2, <3>3
    <2> QED BY <2>0, <2>1
  <1>15. ASSUME NEW p \in P, \A q \in sel : q[1] # p[1], Free(sel, p, p)
         PROVE  \E q \in P : /\ q[1] = p[1] /\ Free(sel, q, q)
                             /\ \E r \in P : r[1] = q[1] /\ r # q /\ Free(sel, q, r) /\ sc[r] < sc[q] + delta
    <2> HIDE DEF P, done, sel, Bef
    <2>1. p[1] \in done[P].dets
      BY <1>10, <1>11, <1>15
    <2>2. PICK q \in P : /\ q[1] = p[1] /\ Free(sel, q, q)
                         /\ q \in sel \/ \E r \in P : /\ r[1] = p[1] /\ r[2] # q[2] /\ Free(sel, q, r)
                                                      /\ sc[r] - sc[q] < delta
      BY <1>10, <1>11, <2>1
    <2> HIDE DEF Free
    <2>3. PICK r \in P : r[1] = p[1] /\ r[2] # q[2] /\ Free(sel, q, r) /\ sc[r] - sc[q] < delta
      BY <1>15, <2>2
    <2>4. sc[r] \in Int /\ sc[q] \in Int
      BY <1>7
    <2>5. sc[r] < sc[q] + delta
      BY <2>3, <2>4
    <2> QED BY <2>2, <2>3, <2>5
  <1> HIDE DEF Free
  <1>16. Any(D, C, most, delta, sc)!AssignmentSound
    BY <1>12, <1>13, <1>14, <1>15 DEF Any!AssignmentSound
  <1> QED BY <1>11, <1>16

\* What the image makes of every pair.
Scores == [p \in Dets \X Clusters |-> Image!Score(p[1], p[2])]

\* The pairing of the image is the pairing of those scores.
LEMMA MatchIsAny ==
  /\ Image!Match!Pairs = Any(Dets, Clusters, MaxScore, Delta, Scores)!Pairs
  /\ Image!Match!Selected = Any(Dets, Clusters, MaxScore, Delta, Scores)!Selected
  /\ Image!Match!AssignmentSound <=> Any(Dets, Clusters, MaxScore, Delta, Scores)!AssignmentSound
  <1>1. Image!Match!Pairs = Any(Dets, Clusters, MaxScore, Delta, Scores)!Pairs
    BY DEF Image!Match!Pairs, Any!Pairs, Scores
  <1>2. Image!Match!Selected = Any(Dets, Clusters, MaxScore, Delta, Scores)!Selected
    BY DEF Image!Match!Selected, Any!Selected, Image!Match!Done, Any!Done, Image!Match!Pairs, Any!Pairs, Scores,
           Image!Match!Choose, Any!Choose, Image!Match!Close, Any!Close, Image!Match!Last, Any!Last,
           Image!Match!Before, Any!Before, Image!Match!Nothing, Any!Nothing
  <1>3. Image!Match!AssignmentSound <=> Any(Dets, Clusters, MaxScore, Delta, Scores)!AssignmentSound
    BY <1>1, <1>2 DEF Image!Match!AssignmentSound, Any!AssignmentSound, Image!Match!OpenAt, Any!OpenAt, 
           Image!Match!Before, Any!Before, Scores
  <1> QED BY <1>1, <1>2, <1>3

\* A finite set of integers has a greatest element.
LEMMA HasGreatest ==
  ASSUME NEW S \in SUBSET Int, IsFiniteSet(S)
  PROVE  \A T \in SUBSET S : T # {} => \E m \in T : \A q \in T : q <= m
  <1> DEFINE R == {e \in S \X S : e[1] <= e[2]}
  <1>1. \A p, q \in S : <<p, q>> \in R <=> p <= q
    OBVIOUS
  <1> HIDE DEF R
  <1>2. \A p \in S : p \in Int
    OBVIOUS
  <1>3. /\ \A p, q \in S : p # q => <<p, q>> \in R \/ <<q, p>> \in R
        /\ \A p, q, r \in S : <<p, q>> \in R /\ <<q, r>> \in R => <<p, r>> \in R
    BY <1>1, <1>2
  <1>4. \A T \in SUBSET S : T # {} => \E p \in T : \A q \in T \ {p} : <<q, p>> \in R
    BY <1>3, HasLast
  <1>5. ASSUME NEW T \in SUBSET S, T # {} PROVE \E m \in T : \A q \in T : q <= m
    <2>1. PICK m \in T : \A q \in T \ {m} : <<q, m>> \in R
      BY <1>4, <1>5
    <2>2. ASSUME NEW q \in T PROVE q <= m
      <3>1. q \in S /\ m \in S /\ q \in Int /\ m \in Int
        BY <1>2, <1>5, <2>1
      <3>2. q # m => <<q, m>> \in R
        BY <2>1
      <3> QED BY <1>1, <3>1, <3>2
    <2> QED BY <2>2
  <1> QED BY <1>5

\* A finite set of integers has an element of every rank.
LEMMA HasRank ==
  ASSUME NEW S \in SUBSET Int, IsFiniteSet(S), NEW k \in Nat, k < Cardinality(S)
  PROVE  \E x \in S : Cardinality({y \in S : y < x}) = k
  <1> DEFINE Ranked(T) == \A n \in Nat : n < Cardinality(T) => \E x \in T : Cardinality({y \in T : y < x}) = n
             X == {T \in SUBSET S : Ranked(T)}
             greatest(T) == CHOOSE m \in T : \A q \in T : q <= m
             pick == [T \in SUBSET S |-> greatest(T)]
  <1>1. \A T \in SUBSET S : T # {} => greatest(T) \in T /\ \A q \in T : q <= greatest(T)
    BY HasGreatest
  <1>2. \A T \in SUBSET S : pick[T] = greatest(T)
    OBVIOUS
  <1>3. \A T \in SUBSET S : IsFiniteSet(T) /\ Cardinality(T) \in Nat
    BY FS_Subset, FS_CardinalityType
  <1>4. {} \in X
    <2>1. Cardinality({}) = 0
      BY FS_EmptySet
    <2> QED BY <2>1
  <1>5. ASSUME NEW T \in SUBSET S, T # {}, Ranked(T \ {greatest(T)}) PROVE Ranked(T)
    <2> DEFINE m == greatest(T)
               U == T \ {m}
    <2>1. m \in T /\ (\A q \in T : q <= m) /\ U \in SUBSET S /\ T \in SUBSET Int /\ m \in Int
      BY <1>1, <1>5
    <2> HIDE DEF m
    <2>2. Cardinality(U) = Cardinality(T) - 1
      BY <1>3, <2>1, FS_RemoveElement
    <2>3. ASSUME NEW n \in Nat, n < Cardinality(T) PROVE \E x \in T : Cardinality({y \in T : y < x}) = n
      <3>1. CASE n < Cardinality(U)
        <4>1. PICK x \in U : Cardinality({y \in U : y < x}) = n
          BY <1>5, <3>1 DEF m
        <4>2. {y \in U : y < x} = {y \in T : y < x}
          BY <2>1
        <4> QED BY <4>1, <4>2
      <3>2. CASE ~(n < Cardinality(U))
        <4>1. n = Cardinality(U)
          BY <1>3, <2>1, <2>2, <2>3, <3>2
        <4>2. {y \in T : y < m} = U
          <5>1. ASSUME NEW y \in T PROVE y < m <=> y # m
            BY <2>1
          <5> HIDE DEF U
          <5>2. U = {y \in T : y # m}
            BY DEF U
          <5> QED BY <5>1, <5>2
        <4> QED BY <2>1, <4>1, <4>2
      <3> QED BY <3>1, <3>2
    <2> QED BY <2>3
  <1> HIDE DEF greatest, Ranked
  <1>6. Picks(pick, S)
    BY <1>1, <1>2 DEF Picks
  <1>7. Climbs(X, pick, S)
    <2>1. ASSUME NEW T \in SUBSET S, T # {}, T \ {pick[T]} \in X PROVE T \in X
      BY <1>2, <1>5, <2>1
    <2> QED BY <1>4, <2>1 DEF Climbs
  <1> HIDE DEF X, pick
  <1>8. \A T \in SUBSET S : T \in X
    BY <1>6, <1>7, SubsetInduction
  <1> QED BY <1>8 DEF X, Ranked

\* An instance has the library's Cardinality.
LEMMA ImageCardinality == \A S : Image!Cardinality(S) = Cardinality(S)
  BY DEF Image!Cardinality, Image!IsFiniteSet, Cardinality, IsFiniteSet

\* What the camera and the boxes are, and the clusters.
ImageTyped ==
    /\ strict \in BOOLEAN /\ camera \in Int
    /\ box \in [Dets -> Boxes] /\ cluster \in [Clusters -> Shapes \cup {Image!NoCluster}]

\* With the assumptions on the constants: boxes have a width, clusters finitely many members, and no
\* index is 0, which stands for points.
LEMMA ImageFacts ==
  ASSUME ImageTyped
  PROVE  /\ camera \in Int /\ Margin \in Nat /\ MaxScore \in Int /\ Delta \in Int /\ MaxRange \in Nat /\ MinRange \in Nat
         /\ \A d \in Dets : d \in Int /\ box[d].lo \in Int /\ box[d].hi \in Int /\ box[d].lo < box[d].hi
         /\ \A c \in Clusters : /\ c \in Int /\ c # 0 /\ cluster[c].center \in Int /\ cluster[c].distance \in Int
                                /\ cluster[c].members \in SUBSET Int /\ IsFiniteSet(cluster[c].members)
  <1>1. \A b \in Boxes : b.lo \in Int /\ b.hi \in Int /\ b.lo < b.hi
    BY FieldAssumption
  <1>2. \A c \in Shapes : /\ c.center \in Int /\ c.distance \in Int
                          /\ c.members \in SUBSET Int /\ IsFiniteSet(c.members)
    BY FieldAssumption
  <1>3. /\ Image!NoCluster.center \in Int /\ Image!NoCluster.distance \in Int
        /\ Image!NoCluster.members \in SUBSET Int /\ IsFiniteSet(Image!NoCluster.members)
    BY FieldAssumption, FS_EmptySet DEF Image!NoCluster
  <1>4. \A d \in Dets : d \in Int /\ box[d] \in Boxes
    BY FieldAssumption DEF ImageTyped
  <1>5. \A c \in Clusters : c \in Int /\ c # 0 /\ cluster[c] \in Shapes \cup {Image!NoCluster}
    BY FieldAssumption DEF ImageTyped
  <1>6. camera \in Int /\ Margin \in Nat /\ MaxScore \in Int /\ Delta \in Int /\ MaxRange \in Nat /\ MinRange \in Nat
    BY FieldAssumption DEF ImageTyped
  <1>7. ASSUME NEW c \in Clusters
        PROVE  /\ cluster[c].center \in Int /\ cluster[c].distance \in Int
               /\ cluster[c].members \in SUBSET Int /\ IsFiniteSet(cluster[c].members)
    BY <1>2, <1>3, <1>5
  <1> QED BY <1>1, <1>4, <1>5, <1>6, <1>7

\* The score of a pair is an integer: enough columns in the box have a middle.
LEMMA ScoreTyped ==
  ASSUME ImageTyped, NEW d \in Dets, NEW c \in Clusters
  PROVE  Image!Score(d, c) \in Int
  <1>1. /\ camera \in Int /\ MaxScore \in Int /\ box[d].lo \in Int /\ box[d].hi \in Int /\ box[d].lo < box[d].hi
        /\ cluster[c].center \in Int /\ cluster[c].distance \in Int
        /\ cluster[c].members \in SUBSET Int /\ IsFiniteSet(cluster[c].members)
    BY ImageFacts
  <1> DEFINE H == Image!Hits(d, c)
             M == {m \in Image!Samples(c) : Image!Inside(m, d)}
  <1>2. M \in SUBSET cluster[c].members
    BY DEF Image!Samples
  <1>3. H = {Image!Column(b) : b \in M}
    BY DEF Image!Hits
  <1>4. H \in SUBSET Int /\ IsFiniteSet(H)
    <2>1. \A b \in M : Image!Column(b) \in 0 .. Width - 1
      BY DEF Image!Inside, Image!Visible
    <2> HIDE DEF M, H
    <2>2. H \in SUBSET (0 .. Width - 1)
      BY <1>3, <2>1
    <2>3. Width \in Int /\ 0 \in Int
      BY FieldAssumption
    <2>4. IsFiniteSet(0 .. Width - 1)
      BY <2>3, FS_Interval
    <2>5. IsFiniteSet(H)
      BY <2>2, <2>4, FS_Subset
    <2> QED BY <2>2, <2>3, <2>5
  <1> HIDE DEF H, M
  <1>5. Cardinality(H) \in Nat
    BY <1>4, FS_CardinalityType
  <1>6. ASSUME Cardinality(H) > 0 PROVE Image!Middle(H) \in Int
    <2> DEFINE n == Cardinality(H)
    <2>1. (n - 1) \div 2 \in Nat /\ n \div 2 \in Nat /\ (n - 1) \div 2 < n /\ n \div 2 < n
      BY <1>5, <1>6
    <2>2. ASSUME NEW k \in Nat, k < n PROVE Image!Nth(H, k) \in Int
      <3>1. \E x \in H : Cardinality({y \in H : y < x}) = k
        BY <1>4, <2>2, HasRank
      <3>2. \E x \in H : Image!Cardinality({y \in H : y < x}) = k
        BY <3>1, ImageCardinality
      <3>3. Image!Nth(H, k) \in H
        BY <3>2 DEF Image!Nth
      <3> QED BY <1>4, <3>3
    <2>3. Image!Nth(H, (n - 1) \div 2) \in Int /\ Image!Nth(H, n \div 2) \in Int
      BY <2>1, <2>2
    <2>4. Image!Middle(H) = Image!Nth(H, (n - 1) \div 2) + Image!Nth(H, n \div 2)
      BY ImageCardinality DEF Image!Middle
    <2> QED BY <2>3, <2>4
  <1>7. Image!Mark(d, c) \in Int
    <2>1. CASE Image!EnoughHits(d, c)
      <3>1. Cardinality(H) > 0
        BY <2>1, ImageCardinality DEF Image!EnoughHits, H
      <3> QED BY <1>6, <2>1, <3>1 DEF Image!Mark, H
    <2>2. CASE ~Image!EnoughHits(d, c)
      BY <1>1, <2>2 DEF Image!Mark, Image!Column
    <2> QED BY <2>1, <2>2
  <1>8. Image!OffCenter(d, c) \in Int
    <2> DEFINE off == Image!Mark(d, c) - (box[d].lo + box[d].hi)
               far == 8 * (IF off < 0 THEN -off ELSE off)
               wide == box[d].hi - box[d].lo
    <2>1. off \in Int /\ wide \in Nat /\ wide > 0
      BY <1>1, <1>7
    <2>2. far \in Nat
      BY <2>1
    <2> HIDE DEF far, wide
    <2>3. far \div wide \in Int
      BY <2>1, <2>2
    <2> QED BY <2>3 DEF far, wide, Image!OffCenter
  <1> QED BY <1>1, <1>8 DEF Image!Score

\* Only a cluster that is seen, and evident in the box, makes a candidate (_cluster_detection_candidate).
LEMMA PairIsEvident ==
  ASSUME ImageTyped, NEW d \in Dets, NEW c \in Clusters, Image!Score(d, c) <= MaxScore
  PROVE  c \in Image!Projected /\ Image!Evident(d, c)
  BY ImageFacts DEF Image!Score

\* An index without a cluster is out of range.
LEMMA ProjectedIsThere ==
  ASSUME ImageTyped, NEW c \in Image!Projected
  PROVE  c \in Clusters /\ cluster[c] # Image!NoCluster
  <1>1. c \in Clusters /\ cluster[c].distance \in MinRange .. MaxRange
    BY DEF Image!Projected, Image!InRange
  <1>2. Image!NoCluster.distance = MaxRange + 1
    BY DEF Image!NoCluster
  <1> QED BY <1>1, <1>2, ImageFacts

\* What is evident in a box has its centroid or a member at it (_cluster_detection_geometry).
LEMMA EvidentDoesNotMiss ==
  ASSUME ImageTyped, NEW d \in Dets, NEW c \in Clusters, Image!Evident(d, c)
  PROVE  ~Image!Misses(c, d)
  <1>1. \E b \in {cluster[c].center} \cup cluster[c].members : Image!Inside(b, d)
    <2>1. CASE Image!EnoughHits(d, c)
      <3>1. Cardinality(Image!Hits(d, c)) > 0
        BY <2>1, ImageCardinality DEF Image!EnoughHits
      <3>2. Image!Hits(d, c) # {}
        BY <3>1, FS_EmptySet
      <3> QED BY <3>2 DEF Image!Hits, Image!Samples
    <2>2. CASE ~Image!EnoughHits(d, c)
      BY <2>2 DEF Image!Evident
    <2> QED BY <2>1, <2>2
  <1>2. PICK b \in {cluster[c].center} \cup cluster[c].members : Image!Inside(b, d)
    BY <1>1
  <1>3. Image!Column(b) \in Int /\ box[d].lo - Margin \in Int /\ box[d].hi + Margin \in Int
    BY ImageFacts DEF Image!Column
  <1>4. Image!Column(b) >= box[d].lo - Margin /\ Image!Column(b) <= box[d].hi + Margin
    BY <1>2 DEF Image!Inside
  <1> QED BY <1>2, <1>3, <1>4 DEF Image!Misses

\* A cluster that lies in a box does not miss it.
LEMMA FillsDoesNotMiss ==
  ASSUME ImageTyped, NEW d \in Dets, NEW c \in Clusters, Image!Fills(c, d)
  PROVE  ~Image!Misses(c, d)
  <1> DEFINE b == cluster[c].center
  <1>1. Image!Column(b) \in box[d].lo .. box[d].hi
    BY DEF Image!Fills
  <1>2. box[d].lo \in Int /\ box[d].hi \in Int /\ Margin \in Nat /\ Image!Column(b) \in Int
    BY ImageFacts DEF Image!Column
  <1>3. ~(Image!Column(b) < box[d].lo - Margin \/ Image!Column(b) > box[d].hi + Margin)
    BY <1>1, <1>2
  <1> QED BY <1>3 DEF Image!Misses

\* In a plain image a cluster that does not miss a box fills it.
LEMMA PlainFills ==
  ASSUME ImageTyped, Image!Plain, NEW d \in Dets, NEW c \in Image!Projected, ~Image!Misses(c, d)
  PROVE  Image!Fills(c, d)
  <1>1. c \in {e \in Clusters : cluster[e] # Image!NoCluster}
    BY ProjectedIsThere
  <1> QED BY <1>1 DEF Image!Plain

\* In a plain image one cluster fills a box.
LEMMA PlainOne ==
  ASSUME ImageTyped, Image!Plain, NEW d \in Dets, NEW c \in Image!Projected, NEW e \in Image!Projected,
         Image!Fills(c, d), Image!Fills(e, d)
  PROVE  c = e
  <1> SUFFICES ASSUME c # e PROVE FALSE
    OBVIOUS
  <1> DEFINE there == {x \in Clusters : cluster[x] # Image!NoCluster}
             F == {x \in there : Image!Fills(x, d)}
  <1>1. {c} \cup {e} \in SUBSET F /\ F \in SUBSET Clusters
    BY ProjectedIsThere
  <1>2. Cardinality(F) <= 1
    BY ImageCardinality DEF Image!Plain
  <1> HIDE DEF F
  <1>3. IsFiniteSet(F)
    BY <1>1, FieldAssumption, FS_Subset
  <1>4. IsFiniteSet({c}) /\ Cardinality({c}) = 1
    BY FS_Singleton
  <1>5. Cardinality({c} \cup {e}) = 2
    BY <1>4, FS_AddElement
  <1>6. Cardinality({c} \cup {e}) <= Cardinality(F)
    BY <1>1, <1>3, FS_Subset
  <1>7. Cardinality(F) \in Nat
    BY <1>3, FS_CardinalityType
  <1> QED BY <1>2, <1>5, <1>6, <1>7

\* In a plain image a cluster fills one box.
LEMMA PlainOwner ==
  ASSUME ImageTyped, Image!Plain, NEW d \in Dets, NEW e \in Dets, NEW c \in Image!Projected,
         Image!Fills(c, d), Image!Fills(c, e)
  PROVE  d = e
  <1>1. c \in {x \in Clusters : cluster[x] # Image!NoCluster}
    BY ProjectedIsThere
  <1>2. PICK o \in Dets : \A x \in Dets \ {o} : Image!Misses(c, x)
    BY <1>1 DEF Image!Plain
  <1>3. ~Image!Misses(c, d) /\ ~Image!Misses(c, e)
    BY <1>1, FillsDoesNotMiss
  <1> QED BY <1>2, <1>3

\* What greedy pairing comes to on the image.
LEMMA PairsOfImage ==
  ASSUME ImageTyped
  PROVE  /\ \A p : p \in Image!Match!Pairs <=>
               p \in Dets \X Clusters /\ Image!Score(p[1], p[2]) <= MaxScore
         /\ Image!Match!Selected \subseteq Image!Match!Pairs
         /\ \A p, q \in Image!Match!Selected : (p[1] = q[1]) <=> (p[2] = q[2])
         /\ \A p \in Image!Match!Pairs :
              p[1] \notin {q[1] : q \in Image!Match!Selected} /\ Image!Match!OpenAt(p, p)
                => \E q, r \in Image!Match!Pairs : q[1] = p[1] /\ r[1] = p[1] /\ r # q
  <1>1. Scores \in [Dets \X Clusters -> Int]
    <2>1. ASSUME NEW p \in Dets \X Clusters PROVE Image!Score(p[1], p[2]) \in Int
      BY ScoreTyped
    <2> QED BY <2>1 DEF Scores
  <1>2. /\ Any(Dets, Clusters, MaxScore, Delta, Scores)!AssignmentSound
        /\ Any(Dets, Clusters, MaxScore, Delta, Scores)!Selected
             \subseteq Any(Dets, Clusters, MaxScore, Delta, Scores)!Pairs
    <2>1. Dets \in SUBSET Int /\ IsFiniteSet(Dets) /\ Clusters \in SUBSET Int /\ IsFiniteSet(Clusters)
          /\ MaxScore \in Int /\ Delta \in Int
      BY FieldAssumption
    <2> QED BY <1>1, <2>1, AnyAssignment
  <1>3. Image!Match!AssignmentSound
    BY <1>2, MatchIsAny
  <1>4. \A p : p \in Image!Match!Pairs <=>
               p \in Dets \X Clusters /\ Image!Score(p[1], p[2]) <= MaxScore
    BY DEF Image!Match!Pairs
  <1>5. Image!Match!Selected \subseteq Image!Match!Pairs
    BY <1>2, MatchIsAny
  <1> QED BY <1>3, <1>4, <1>5 DEF Image!Match!AssignmentSound

\* ObjectsAreOwn of what the fusion is about to give.
Own(f) ==
    /\ \A o, p \in f : o # p => o.det # p.det /\ (o.cluster # p.cluster \/ o.cluster = 0)
    /\ \A o \in f : IF o.cluster = 0 THEN ~strict ELSE ~Image!Misses(o.cluster, o.det)
    /\ Image!Plain => /\ \A o \in f : o.cluster # 0 => Image!Fills(o.cluster, o.det)
                      /\ \A d \in Dets, c \in Clusters :
                           Image!Fills(c, d) /\ Image!Score(d, c) <= MaxScore => Image!Object(d, c) \in f

\* A candidate pairs a box with a cluster that does not miss it.
LEMMA PairIsPlaced ==
  ASSUME ImageTyped, NEW p \in Image!Match!Pairs
  PROVE  /\ p[1] \in Dets /\ p[2] \in Image!Projected /\ p[2] \in Clusters /\ p = <<p[1], p[2]>>
         /\ ~Image!Misses(p[2], p[1])
         /\ Image!Plain => Image!Fills(p[2], p[1])
  <1>1. p \in Dets \X Clusters /\ Image!Score(p[1], p[2]) <= MaxScore
    BY PairsOfImage
  <1>2. p[1] \in Dets /\ p[2] \in Clusters /\ p = <<p[1], p[2]>>
    BY <1>1
  <1>3. p[2] \in Image!Projected /\ Image!Evident(p[1], p[2])
    BY <1>1, <1>2, PairIsEvident
  <1>4. ~Image!Misses(p[2], p[1])
    BY <1>2, <1>3, EvidentDoesNotMiss
  <1> QED BY <1>2, <1>3, <1>4, PlainFills

\* In a plain image the pair of a box and its own cluster has no rival, so that it is selected.
LEMMA PlainIsPaired ==
  ASSUME ImageTyped, Image!Plain, NEW d \in Dets, NEW c \in Clusters,
         Image!Fills(c, d), Image!Score(d, c) <= MaxScore
  PROVE  Image!Object(d, c) \in Image!Paired
  <1> DEFINE p == <<d, c>>
  <1>1. p \in Image!Match!Pairs
    BY PairsOfImage
  <1>2. c \in Image!Projected
    BY PairIsEvident
  <1>3. ASSUME NEW q \in Image!Match!Pairs, q[1] = d PROVE q = p
    <2>1. q = <<d, q[2]>> /\ q[2] \in Image!Projected /\ Image!Fills(q[2], d)
      BY <1>3, PairIsPlaced
    <2>2. q[2] = c
      BY <1>2, <2>1, PlainOne
    <2> QED BY <2>1, <2>2
  <1>4. ASSUME NEW q \in Image!Match!Pairs, q[2] = c PROVE q = p
    <2>1. q = <<q[1], c>> /\ q[1] \in Dets /\ Image!Fills(c, q[1])
      BY <1>4, PairIsPlaced
    <2>2. q[1] = d
      BY <1>2, <2>1, PlainOwner
    <2> QED BY <2>1, <2>2
  <1>5. p \in Image!Match!Selected
    <2> SUFFICES ASSUME p \notin Image!Match!Selected PROVE FALSE
      OBVIOUS
    <2>1. \A q \in Image!Match!Selected : q \in Image!Match!Pairs /\ q # p
      BY PairsOfImage
    <2>2. p[1] \notin {q[1] : q \in Image!Match!Selected}
      BY <1>3, <2>1
    <2>3. Image!Match!OpenAt(p, p)
      BY <1>4, <2>1 DEF Image!Match!OpenAt
    <2>4. PICK q, r \in Image!Match!Pairs : q[1] = p[1] /\ r[1] = p[1] /\ r # q
      BY <1>1, <2>2, <2>3, PairsOfImage
    <2> QED BY <1>3, <2>4
  <1> QED BY <1>5 DEF Image!Paired

\* The objects of a pairing are their own (_fuse_with_global_cluster_assignment).
LEMMA PairedIsOwn ==
  ASSUME ImageTyped
  PROVE  Own(Image!Paired)
  <1>1. ASSUME NEW o \in Image!Paired
        PROVE  \E p \in Image!Match!Selected : /\ o = Image!Object(p[1], p[2]) /\ o.det = p[1] /\ o.cluster = p[2]
                                               /\ p \in Image!Match!Pairs /\ p[2] # 0
    <2>1. PICK p \in Image!Match!Selected : o = Image!Object(p[1], p[2])
      BY DEF Image!Paired
    <2>2. p \in Image!Match!Pairs
      BY PairsOfImage
    <2>3. p[2] # 0
      BY <2>2, PairIsPlaced, ImageFacts
    <2> QED BY <2>1, <2>2, <2>3 DEF Image!Object
  <1>2. ASSUME NEW o \in Image!Paired, NEW e \in Image!Paired, o # e
        PROVE  o.det # e.det /\ o.cluster # e.cluster
    <2>1. PICK p \in Image!Match!Selected : /\ o = Image!Object(p[1], p[2]) /\ o.det = p[1] /\ o.cluster = p[2]
      BY <1>1
    <2>2. PICK q \in Image!Match!Selected : /\ e = Image!Object(q[1], q[2]) /\ e.det = q[1] /\ e.cluster = q[2]
      BY <1>1
    <2>3. ~(p[1] = q[1] /\ p[2] = q[2])
      BY <1>2, <2>1, <2>2
    <2>4. (p[1] = q[1]) <=> (p[2] = q[2])
      BY PairsOfImage
    <2> QED BY <2>1, <2>2, <2>3, <2>4
  <1>3. ASSUME NEW o \in Image!Paired
        PROVE  /\ o.cluster # 0 /\ ~Image!Misses(o.cluster, o.det)
               /\ Image!Plain => Image!Fills(o.cluster, o.det)
    BY <1>1, PairIsPlaced
  <1> QED BY <1>2, <1>3, PlainIsPaired DEF Own

\* What the boxes have come to, one after the other: an object for one of them each, at a
\* cluster that nobody else has and that is evident in the box, or at points.
Shared(S, f) ==
    /\ \A o \in f : o.det \in S /\ (o.cluster = 0 \/ (o.cluster \in Image!Projected /\ Image!Evident(o.det, o.cluster)))
    /\ \A o, p \in f : o # p => o.det # p.det /\ (o.cluster # p.cluster \/ o.cluster = 0)

\* One more box keeps that (_fuse_from_projected_clusters takes no cluster that a box before has).
LEMMA OneMore ==
  ASSUME ImageTyped, NEW S \in SUBSET Dets, NEW d \in Dets, d \notin S, NEW f, Shared(S, f)
  PROVE  Shared(S \cup {d}, Image!FallBack(f, d))
  <1> DEFINE g == Image!FallBack(f, d)
             nearby == {Image!Object(d, c) : c \in Image!NearestOf(d, f)}
             New(o) == /\ o.det = d
                       /\ \/ o.cluster = 0
                          \/ /\ o.cluster \in Image!Projected /\ Image!Evident(d, o.cluster)
                             /\ \A p \in f : p.cluster # o.cluster
  <1>1. \A o \in nearby : New(o)
    BY DEF Image!NearestOf, Image!Object
  <1>2. \A P : \A o \in Image!FromPoints(d, P) : New(o)
    BY DEF Image!FromPoints
  <1>3. \A P : Image!One(P) \subseteq P /\ \A x, y \in Image!One(P) : x = y
    BY DEF Image!One
  <1>4. \E P : g = f \cup Image!One(P) /\ \A o \in P : New(o)
    <2> HIDE DEF New
    <2> QED BY <1>1, <1>2 DEF Image!FallBack
  <1>5. PICK P : g = f \cup Image!One(P) /\ \A o \in P : New(o)
    BY <1>4
  <1> HIDE DEF g, New
  <1>6. \A o \in Image!One(P) : New(o)
    BY <1>3, <1>5
  <1>7. ASSUME NEW o \in g
        PROVE  /\ o.det \in S \cup {d}
               /\ o.cluster = 0 \/ (o.cluster \in Image!Projected /\ Image!Evident(o.det, o.cluster))
    <2>1. CASE o \in f
      BY <2>1 DEF Shared
    <2>2. CASE o \in Image!One(P)
      BY <1>6, <2>2 DEF New
    <2> QED BY <1>5, <2>1, <2>2
  <1>8. ASSUME NEW o \in g, NEW p \in g, o # p
        PROVE  o.det # p.det /\ (o.cluster # p.cluster \/ o.cluster = 0)
    <2>1. CASE o \in f /\ p \in f
      BY <1>8, <2>1 DEF Shared
    <2>2. CASE o \in f /\ p \in Image!One(P)
      BY <1>6, <2>2 DEF New, Shared
    <2>3. CASE o \in Image!One(P) /\ p \in f
      BY <1>6, <2>3 DEF New, Shared
    <2>4. CASE o \in Image!One(P) /\ p \in Image!One(P)
      BY <1>3, <1>8, <2>4
    <2> QED BY <1>5, <2>1, <2>2, <2>3, <2>4
  <1> QED BY <1>7, <1>8 DEF Shared, g

\* Some boxes have a last one.
LEMMA LastIsIn ==
  ASSUME ImageTyped
  PROVE  \A S \in SUBSET Dets : S # {} => Image!Last(S) \in S
  <1>1. Dets \in SUBSET Int /\ IsFiniteSet(Dets)
    BY FieldAssumption
  <1>2. \A S \in SUBSET Dets : S # {} => \E m \in S : \A q \in S : q <= m
    BY <1>1, HasGreatest
  <1>3. ASSUME NEW S \in SUBSET Dets, S # {} PROVE Image!Last(S) \in S
    <2>1. \E m \in S : \A q \in S : q <= m
      BY <1>2, <1>3
    <2> QED BY <2>1 DEF Image!Last
  <1> QED BY <1>3

\* What an object may be.
Object == [det : Dets, cluster : Clusters \cup {0}, at : Int]

\* One more box adds at most an object.
LEMMA FallBackTyped ==
  ASSUME ImageTyped, NEW f \in SUBSET Object, NEW d \in Dets
  PROVE  Image!FallBack(f, d) \in SUBSET Object
  <1> DEFINE nearby == {Image!Object(d, c) : c \in Image!NearestOf(d, f)}
  <1>1. \A c \in Clusters : cluster[c].center \in Int
    BY ImageFacts
  <1>2. nearby \subseteq Object
    <2>1. \A c \in Image!NearestOf(d, f) : c \in Clusters
      BY DEF Image!NearestOf, Image!Projected
    <2> QED BY <1>1, <2>1 DEF Image!Object, Object
  <1>3. ASSUME NEW P \in SUBSET Points PROVE Image!FromPoints(d, P) \subseteq Object
    <2>1. \A p \in P : p.bearing \in Int
      BY FieldAssumption
    <2>2. \A p \in P : [det |-> d, cluster |-> 0, at |-> p.bearing] \in Object
      BY <2>1 DEF Object
    <2> HIDE DEF Object
    <2> QED BY <2>2 DEF Image!FromPoints
  <1>4. \A P : Image!One(P) \subseteq P
    BY DEF Image!One
  <1>5. Image!PointsIn(d) \in SUBSET Points /\ Image!PointsAbout(d) \in SUBSET Points
    BY DEF Image!PointsIn, Image!PointsAbout
  <1>6. \E P \in {nearby, Image!FromPoints(d, Image!PointsIn(d)), Image!FromPoints(d, Image!PointsAbout(d))} :
           Image!FallBack(f, d) = f \cup Image!One(P)
    BY DEF Image!FallBack
  <1> HIDE DEF nearby, Object
  <1> QED BY <1>2, <1>3, <1>4, <1>5, <1>6

\* What the boxes fall back to, one after the other, has a value for some of them and so for all.
LEMMA FellBackRuns ==
  ASSUME ImageTyped
  PROVE  \A S \in SUBSET Dets :
            Image!FellBack[S] = IF S = {} THEN {} ELSE Image!FallBack(Image!FellBack[S \ {Image!Last(S)}], Image!Last(S))
  <1> DEFINE pick == [S \in SUBSET Dets |-> Image!Last(S)]
             op == [e \in (SUBSET Object) \X Dets |-> Image!FallBack(e[1], e[2])]
  <1>1. \A S \in SUBSET Dets : pick[S] = Image!Last(S)
    OBVIOUS
  <1>2. op \in [(SUBSET Object) \X Dets -> SUBSET Object]
    <2>1. ASSUME NEW e \in (SUBSET Object) \X Dets PROVE Image!FallBack(e[1], e[2]) \in SUBSET Object
      BY FallBackTyped
    <2> QED BY <2>1
  <1>3. \A f \in SUBSET Object, d \in Dets : op[<<f, d>>] = Image!FallBack(f, d)
    OBVIOUS
  <1> HIDE DEF pick, op
  <1>4. Picks(pick, Dets)
    BY <1>1, LastIsIn DEF Picks
  <1>5. IsFiniteSet(Dets) /\ {} \in SUBSET Object
    BY FieldAssumption
  <1>6. PICK g \in [SUBSET Dets -> SUBSET Object] : Folds(g, Dets, pick, {}, op)
    BY <1>2, <1>4, <1>5, SubsetRecursion
  <1>7. ASSUME NEW S \in SUBSET Dets
        PROVE  g[S] = IF S = {} THEN {} ELSE Image!FallBack(g[S \ {Image!Last(S)}], Image!Last(S))
    <2>1. CASE S = {}
      BY <1>6, <2>1 DEF Folds
    <2>2. CASE S # {}
      <3>1. Image!Last(S) \in Dets /\ g[S \ {Image!Last(S)}] \in SUBSET Object
        BY <2>2, LastIsIn
      <3>2. g[S] = op[<<g[S \ {Image!Last(S)}], Image!Last(S)>>]
        BY <1>1, <1>6, <2>2 DEF Folds
      <3> QED BY <1>3, <2>2, <3>1, <3>2
    <2> QED BY <2>1, <2>2
  <1>8. g = [S \in SUBSET Dets |-> IF S = {} THEN {} ELSE Image!FallBack(g[S \ {Image!Last(S)}], Image!Last(S))]
    BY <1>7
  <1>9. Image!FellBack = CHOOSE h : h = [S \in SUBSET Dets |-> IF S = {} THEN {}
                                          ELSE Image!FallBack(h[S \ {Image!Last(S)}], Image!Last(S))]
    BY DEF Image!FellBack
  <1>10. Image!FellBack = [S \in SUBSET Dets |-> IF S = {} THEN {}
                             ELSE Image!FallBack(Image!FellBack[S \ {Image!Last(S)}], Image!Last(S))]
    BY <1>8, <1>9
  <1> QED BY <1>10

\* All of the boxes share in the clusters.
LEMMA FellBackShares ==
  ASSUME ImageTyped
  PROVE  Shared(Dets, Image!FellBack[Dets])
  <1> DEFINE X == {S \in SUBSET Dets : Shared(S, Image!FellBack[S])}
             pick == [S \in SUBSET Dets |-> Image!Last(S)]
  <1>1. \A S \in SUBSET Dets : pick[S] = Image!Last(S)
    OBVIOUS
  <1> HIDE DEF pick
  <1>2. Picks(pick, Dets)
    BY <1>1, LastIsIn DEF Picks
  <1>3. {} \in X
    <2>1. Image!FellBack[{}] = {}
      BY FellBackRuns
    <2> QED BY <2>1 DEF Shared
  <1>4. ASSUME NEW S \in SUBSET Dets, S # {}, S \ {pick[S]} \in X PROVE S \in X
    <2> DEFINE d == Image!Last(S)
               f == Image!FellBack[S \ {d}]
    <2>1. d \in S /\ d \in Dets /\ S \ {d} \in SUBSET Dets /\ d \notin S \ {d} /\ Shared(S \ {d}, f)
      BY <1>1, <1>4, LastIsIn
    <2>2. Image!FellBack[S] = Image!FallBack(f, d)
      BY <1>4, FellBackRuns
    <2> HIDE DEF d, f
    <2>3. Shared((S \ {d}) \cup {d}, Image!FallBack(f, d))
      BY <2>1, OneMore
    <2>4. (S \ {d}) \cup {d} = S
      BY <2>1
    <2> QED BY <2>2, <2>3, <2>4
  <1>5. Climbs(X, pick, Dets)
    BY <1>3, <1>4 DEF Climbs
  <1>6. IsFiniteSet(Dets)
    BY FieldAssumption
  <1> HIDE DEF X
  <1>7. \A S \in SUBSET Dets : S \in X
    BY <1>2, <1>5, <1>6, SubsetInduction
  <1> QED BY <1>7 DEF X

\* Whatever the fusion gives is own, with a pairing, in a strict node or by falling back
\* (compute_fused_objects_locked).
LEMMA FusedIsOwn ==
  ASSUME ImageTyped, Image!Fuse
  PROVE  Own(fused')
  <1>1. CASE Image!Paired # {}
    BY <1>1, PairedIsOwn DEF Image!Fuse
  <1>2. CASE Image!Paired = {} /\ strict
    <2>1. fused' = {}
      BY <1>2 DEF Image!Fuse
    <2> QED BY <1>2, <2>1, PlainIsPaired DEF Own
  <1>3. CASE Image!Paired = {} /\ ~strict
    <2> DEFINE f == Image!FellBack[Dets]
    <2>1. fused' = f
      BY <1>3 DEF Image!Fuse
    <2>2. Shared(Dets, f)
      BY FellBackShares
    <2> HIDE DEF f
    <2>3. ASSUME NEW o \in f, o.cluster # 0
          PROVE  ~Image!Misses(o.cluster, o.det) /\ (Image!Plain => Image!Fills(o.cluster, o.det))
      <3>1. o.det \in Dets /\ o.cluster \in Image!Projected /\ Image!Evident(o.det, o.cluster)
        BY <2>2, <2>3 DEF Shared
      <3>2. o.cluster \in Clusters
        BY <3>1 DEF Image!Projected
      <3>3. ~Image!Misses(o.cluster, o.det)
        BY <3>1, <3>2, EvidentDoesNotMiss
      <3> QED BY <3>1, <3>3, PlainFills
    <2>4. \A o, p \in f : o # p => o.det # p.det /\ (o.cluster # p.cluster \/ o.cluster = 0)
      BY <2>2 DEF Shared
    <2>5. Image!Plain => \A d \in Dets, c \in Clusters :
              ~(Image!Fills(c, d) /\ Image!Score(d, c) <= MaxScore)
      BY <1>3, PlainIsPaired
    <2> QED BY <1>3, <2>1, <2>3, <2>4, <2>5 DEF Own
  <1> QED BY <1>1, <1>2, <1>3 DEF ImageTyped

\* The fusion leaves boxes, clusters and camera alone, so that what is own stays so.
LEMMA OwnIsKept ==
  ASSUME UNCHANGED <<strict, box, cluster, camera>>, Own(fused')
  PROVE  Image!ObjectsAreOwn'
  <1>1. \A c, d : Image!Misses(c, d)' <=> Image!Misses(c, d)
    BY DEF Image!Misses, Image!Column
  <1>2. \A c, d : Image!Fills(c, d)' <=> Image!Fills(c, d)
    BY DEF Image!Fills, Image!Visible, Image!Column
  <1>3. Image!Plain' <=> Image!Plain
    BY <1>1, <1>2 DEF Image!Plain
  <1>4. \A d, c : Image!Score(d, c)' = Image!Score(d, c)
    BY DEF Image!Score, Image!Most, Image!OffCenter, Image!Mark, Image!Middle, Image!Nth,
           Image!Hits, Image!Samples, Image!Ahead, Image!Inside, Image!Visible, Image!Column, Image!EnoughHits, Image!Evident, Image!Projected, Image!InRange
  <1>5. \A d, c : Image!Object(d, c)' = Image!Object(d, c)
    BY DEF Image!Object
  <1> QED BY <1>1, <1>2, <1>3, <1>4, <1>5 DEF Own, Image!ObjectsAreOwn

\* The scores and the scene are given once; nothing is fused where the image does not run.
ImageInv ==
    /\ layer = "match" => score \in [MatchDets \X MatchClusters -> Int]
    /\ layer = "image" => ImageTyped
    /\ layer # "image" => fused = {Image!NotYet}
    /\ Image!ObjectsAreOwn

\* It holds at first.
LEMMA ImageInit == FieldInit => ImageInv
  <1> SUFFICES ASSUME FieldInit PROVE ImageInv
    OBVIOUS
  <1>1. fused = {Image!NotYet}
    BY DEF FieldInit, Image!ProjectionInit
  <1>2. layer = "match" => score \in [MatchDets \X MatchClusters -> Int]
    BY FieldAssumption DEF FieldInit, Pairing!MatchInit
  <1>3. layer = "image" => ImageTyped
    BY FieldAssumption DEF FieldInit, Image!ProjectionInit, ImageTyped
  <1> QED BY <1>1, <1>2, <1>3 DEF ImageInv, Image!ObjectsAreOwn

\* Every step keeps it: the fusion by FusedIsOwn, the others leave the image alone.
LEMMA ImageStep == ImageInv /\ [FieldNext]_fieldVars => ImageInv'
  <1> SUFFICES ASSUME ImageInv, [FieldNext]_fieldVars PROVE ImageInv'
    OBVIOUS
  <1>1. UNCHANGED <<layer, score>>
    BY DEF FieldNext, fieldVars, objects
  <1>2. CASE UNCHANGED image
    <2>1. UNCHANGED <<strict, box, cluster, camera, fused>>
      BY <1>2 DEF image
    <2>2. Image!ObjectsAreOwn'
      <3>1. CASE fused = {Image!NotYet}
        BY <2>1, <3>1 DEF Image!ObjectsAreOwn, Image!NotYet
      <3>2. CASE fused # {Image!NotYet}
        <4>1. Own(fused')
          BY <2>1, <3>2 DEF ImageInv, Image!ObjectsAreOwn, Own
        <4> QED BY <2>1, <4>1, OwnIsKept
      <3> QED BY <3>1, <3>2
    <2> QED BY <1>1, <2>1, <2>2 DEF ImageInv, ImageTyped, Image!NotYet, Image!NoCluster
  <1>3. CASE layer = "image" /\ Image!Fuse
    <2>1. UNCHANGED <<strict, box, cluster, camera>>
      BY <1>3 DEF Image!Fuse
    <2>2. Image!ObjectsAreOwn'
      BY <1>3, <2>1, FusedIsOwn, OwnIsKept DEF ImageInv
    <2> QED BY <1>1, <1>3, <2>1, <2>2 DEF ImageInv, ImageTyped, Image!NotYet, Image!NoCluster
  <1> QED BY <1>2, <1>3 DEF FieldNext, fieldVars, objects, Image!ProjectionNext

\* The pairing by itself is sound for whatever scores it starts with.
LEMMA PairingIsSound == ASSUME score \in [MatchDets \X MatchClusters -> Int] PROVE Pairing!AssignmentSound
  <1>1. /\ MatchDets \in SUBSET Int /\ IsFiniteSet(MatchDets) /\ MatchClusters \in SUBSET Int /\ IsFiniteSet(MatchClusters)
        /\ MatchMax \in Int /\ MatchDelta \in Int
    BY FieldAssumption
  <1>2. Any(MatchDets, MatchClusters, MatchMax, MatchDelta, score)!AssignmentSound
    BY <1>1, AnyAssignment
  <1>3. Pairing!Pairs = Any(MatchDets, MatchClusters, MatchMax, MatchDelta, score)!Pairs
    BY DEF Pairing!Pairs, Any!Pairs
  <1>4. Pairing!Selected = Any(MatchDets, MatchClusters, MatchMax, MatchDelta, score)!Selected
    BY DEF Pairing!Selected, Any!Selected, Pairing!Done, Any!Done, Pairing!Pairs, Any!Pairs,
           Pairing!Choose, Any!Choose, Pairing!Close, Any!Close, Pairing!Last, Any!Last,
           Pairing!Before, Any!Before, Pairing!Nothing, Any!Nothing
  <1> QED BY <1>2, <1>3, <1>4 DEF Pairing!AssignmentSound, Any!AssignmentSound, Pairing!OpenAt, Any!OpenAt,
           Pairing!Before, Any!Before

\* In the fusion of local_path_node.py, for any image, boxes, clusters and scores: greedy pairing gives
\* a detection the best cluster that is left for it, by the margin, or none; no two objects share a box
\* or a cluster; no box gets a cluster that misses it; and where every cluster fills a box of its own,
\* each box gets it.
THEOREM ObjectsStayOwn == FieldSpec => []ObjectsAreOwn
  <1>1. ImageInv => ObjectsAreOwn
    BY PairingIsSound DEF ImageInv, ObjectsAreOwn
  <1> QED BY <1>1, ImageInit, ImageStep, PTL DEF FieldSpec

-----------------------------------------------------------------------------
(* The plan.                                                                 *)

Plane == Int \X Int

LEMMA PlanCardinality == \A S : Plan!Cardinality(S) = Cardinality(S)
  BY DEF Plan!Cardinality, Plan!IsFiniteSet, Cardinality, IsFiniteSet

\* Every natural number has a whole root.
LEMMA HasRoot ==
  ASSUME NEW s \in Nat
  PROVE  \E k \in 0 .. s : k * k <= s /\ s < (k + 1) * (k + 1)
  <1> DEFINE D == {k \in 0 .. s : k * k <= s}
  <1>1. IsFiniteSet(0 .. s) /\ (0 .. s) \in SUBSET Int
    BY FS_Interval
  <1>2. D \in SUBSET (0 .. s) /\ 0 \in D
    OBVIOUS
  <1>3. PICK m \in D : \A q \in D : q <= m
    <2> HIDE DEF D
    <2>1. D # {}
      BY <1>2
    <2> QED BY <1>1, <1>2, <2>1, HasGreatest
  <1>4. m \in 0 .. s /\ m * m <= s
    BY <1>3
  <1>5. s < (m + 1) * (m + 1)
    <2>1. CASE m + 1 <= s
      <3>1. m + 1 \in 0 .. s /\ m + 1 \notin D
        <4>1. m \in Int /\ ~(m + 1 <= m)
          BY <1>4
        <4> QED BY <1>3, <1>4, <2>1, <4>1
      <3>2. ~((m + 1) * (m + 1) <= s)
        BY <3>1
      <3>3. (m + 1) * (m + 1) \in Int
        BY <1>4
      <3> QED BY <3>2, <3>3
    <2>2. CASE ~(m + 1 <= s)
      <3>1. m = s
        BY <1>4, <2>2
      <3>2. (s + 1) * (s + 1) = s * s + s + s + 1 /\ s * s \in Nat
        OBVIOUS
      <3> QED BY <3>1, <3>2
    <2> QED BY <2>1, <2>2
  <1> QED BY <1>4, <1>5

\* Distances are whole numbers.
LEMMA DistNatural == \A p, q \in Plane : Plan!Dist(p, q) \in Nat
  <1> SUFFICES ASSUME NEW p \in Plane, NEW q \in Plane PROVE Plan!Dist(p, q) \in Nat
    OBVIOUS
  <1> DEFINE a == p[1] - q[1]
             b == p[2] - q[2]
             s == a * a + b * b
  <1>1. a \in Int /\ b \in Int
    BY DEF Plane
  <1>2. \A n \in Int : n * n \in Nat
    OBVIOUS
  <1> HIDE DEF a, b
  <1>3. s \in Nat
    BY <1>1, <1>2
  <1> HIDE DEF s
  <1>4. \E k \in 0 .. s : k * k <= s /\ s < (k + 1) * (k + 1)
    BY <1>3, HasRoot
  <1>5. Plan!Dist(p, q) = CHOOSE k \in 0 .. s : k * k <= s /\ s < (k + 1) * (k + 1)
    BY DEF Plan!Dist, s, a, b
  <1>6. Plan!Dist(p, q) \in 0 .. s
    BY <1>4, <1>5
  <1> QED BY <1>3, <1>6

\* In a finite set with a strict order R there is one with n - 1 before it, for every n.
AheadOf(S, R, x) == {y \in S : <<y, x>> \in R}

LEMMA HasPlace ==
  ASSUME NEW S, IsFiniteSet(S), NEW R,
         \A p, q \in S : p # q => <<p, q>> \in R \/ <<q, p>> \in R,
         \A p, q, r \in S : <<p, q>> \in R /\ <<q, r>> \in R => <<p, r>> \in R,
         \A p, q \in S : ~(<<p, q>> \in R /\ <<q, p>> \in R)
  PROVE  \A n \in 1 .. Cardinality(S) : \E x \in S : Cardinality(AheadOf(S, R, x)) = n - 1
  <1> DEFINE Ranked(T) == \A n \in Nat : n < Cardinality(T) => \E x \in T : Cardinality({y \in T : <<y, x>> \in R}) = n
             X == {T \in SUBSET S : Ranked(T)}
             last(T) == CHOOSE m \in T : \A q \in T \ {m} : <<q, m>> \in R
             pick == [T \in SUBSET S |-> last(T)]
  <1>1. \A T \in SUBSET S : T # {} => last(T) \in T /\ \A q \in T \ {last(T)} : <<q, last(T)>> \in R
    <2>1. \A T \in SUBSET S : T # {} => \E p \in T : \A q \in T \ {p} : <<q, p>> \in R
      BY HasLast
    <2> QED BY <2>1
  <1>2. \A T \in SUBSET S : pick[T] = last(T)
    OBVIOUS
  <1>3. \A T \in SUBSET S : IsFiniteSet(T) /\ Cardinality(T) \in Nat
    BY FS_Subset, FS_CardinalityType
  <1>4. {} \in X
    <2>1. Cardinality({}) = 0
      BY FS_EmptySet
    <2> QED BY <2>1
  <1>5. ASSUME NEW T \in SUBSET S, T # {}, Ranked(T \ {last(T)}) PROVE Ranked(T)
    <2> DEFINE m == last(T)
               U == T \ {m}
    <2>1. m \in T /\ (\A q \in U : <<q, m>> \in R) /\ U \in SUBSET S
      BY <1>1, <1>5
    <2> HIDE DEF m
    <2>2. Cardinality(U) = Cardinality(T) - 1
      BY <1>3, <2>1, FS_RemoveElement
    <2>3. ASSUME NEW n \in Nat, n < Cardinality(T) PROVE \E x \in T : Cardinality({y \in T : <<y, x>> \in R}) = n
      <3>1. CASE n < Cardinality(U)
        <4>1. PICK x \in U : Cardinality({y \in U : <<y, x>> \in R}) = n
          BY <1>5, <3>1 DEF m
        <4>2. {y \in U : <<y, x>> \in R} = {y \in T : <<y, x>> \in R}
          BY <2>1
        <4> QED BY <4>1, <4>2
      <3>2. CASE ~(n < Cardinality(U))
        <4>1. n = Cardinality(U)
          BY <1>3, <2>1, <2>2, <2>3, <3>2
        <4>2. {y \in T : <<y, m>> \in R} = U
          <5>1. ASSUME NEW y \in T PROVE <<y, m>> \in R <=> y # m
            BY <2>1
          <5> HIDE DEF U
          <5>2. U = {y \in T : y # m}
            BY DEF U
          <5> QED BY <5>1, <5>2
        <4> QED BY <2>1, <4>1, <4>2
      <3> QED BY <3>1, <3>2
    <2> QED BY <2>3
  <1> HIDE DEF last, Ranked
  <1>6. Picks(pick, S)
    BY <1>1, <1>2 DEF Picks
  <1>7. Climbs(X, pick, S)
    <2>1. ASSUME NEW T \in SUBSET S, T # {}, T \ {pick[T]} \in X PROVE T \in X
      BY <1>2, <1>5, <2>1
    <2> QED BY <1>4, <2>1 DEF Climbs
  <1> HIDE DEF X, pick
  <1>8. \A T \in SUBSET S : T \in X
    BY <1>6, <1>7, SubsetInduction
  <1>9. Ranked(S)
    BY <1>8 DEF X
  <1>10. ASSUME NEW n \in 1 .. Cardinality(S) PROVE n - 1 \in Nat /\ n - 1 < Cardinality(S)
    BY <1>3
  <1> QED BY <1>9, <1>10 DEF Ranked, AheadOf

\* What is kept of a sequence is some of it.
LEMMA KeptPart ==
  ASSUME NEW s, NEW K \in SUBSET Int, IsFiniteSet(K)
  PROVE  /\ Plan!Keep(s, K) = [n \in 1 .. Cardinality(K) |-> Plan!Keep(s, K)[n]] /\ Cardinality(K) \in Nat
         /\ \A n \in 1 .. Cardinality(K) : \E i \in K : Plan!Keep(s, K)[n] = s[i]
  <1> DEFINE at == [n \in 1 .. Plan!Cardinality(K) |-> CHOOSE i \in K : Plan!Cardinality({j \in K : j < i}) = n - 1]
  <1>1. Plan!Keep(s, K) = [n \in 1 .. Plan!Cardinality(K) |-> s[at[n]]]
    BY DEF Plan!Keep, Plan!InOrder
  <1>2. Cardinality(K) \in Nat
    BY FS_CardinalityType
  <1>3. ASSUME NEW n \in 1 .. Cardinality(K) PROVE at[n] \in K
    <2>1. n - 1 \in Nat /\ n - 1 < Cardinality(K)
      BY <1>2
    <2>2. PICK i \in K : Cardinality({j \in K : j < i}) = n - 1
      BY <2>1, HasRank
    <2>3. Plan!Cardinality({j \in K : j < i}) = n - 1 /\ Plan!Cardinality(K) = Cardinality(K)
      BY <2>2, PlanCardinality
    <2>4. at[n] = CHOOSE k \in K : Plan!Cardinality({j \in K : j < k}) = n - 1
      BY <2>3
    <2> HIDE DEF at
    <2> QED BY <2>3, <2>4
  <1> HIDE DEF at
  <1>4. Plan!Cardinality(K) = Cardinality(K)
    BY PlanCardinality
  <1> QED BY <1>1, <1>2, <1>3, <1>4

-----------------------------------------------------------------------------
\* A world the maps can tell of, and a target in it.
WorldTyped == world.found \in Seq(Spots) /\ world.final \in BOOLEAN /\ world.graded \in BOOLEAN
Target == {t \in [id : Nat, class : {"static", "final"}, at : Plane] : t.class = "final" => t.at = FinalTank}

LEMMA PlaneFacts ==
  /\ Spots \subseteq Plane /\ FinalTank \in Plane /\ Anchor \in Plane /\ Firebase \in Plane /\ LastBase \in Plane
  /\ \A r \in DOMAIN Path : /\ Path[r] \in Seq(Plane) /\ Len(Path[r]) \in Nat /\ Len(Path[r]) > 1
                            /\ DOMAIN Path[r] = 1 .. Len(Path[r]) /\ IsFiniteSet(DOMAIN Path[r])
                            /\ \A i \in DOMAIN Path[r] : Path[r][i] \in Plane /\ i \in Nat \ {0}
  <1>1. Spots \cup {FinalTank, Anchor, Firebase, LastBase} \subseteq Plane
    BY PlanAssumption DEF Plane
  <1>2. ASSUME NEW r \in DOMAIN Path
        PROVE  /\ Path[r] \in Seq(Plane) /\ Len(Path[r]) \in Nat /\ Len(Path[r]) > 1
               /\ DOMAIN Path[r] = 1 .. Len(Path[r]) /\ IsFiniteSet(DOMAIN Path[r])
               /\ \A i \in DOMAIN Path[r] : Path[r][i] \in Plane /\ i \in Nat \ {0}
    <2>1. Path[r] \in Seq(Plane) /\ Len(Path[r]) > 1
      BY PlanAssumption DEF Plane
    <2>2. Len(Path[r]) \in Nat /\ DOMAIN Path[r] = 1 .. Len(Path[r]) /\ \A i \in DOMAIN Path[r] : Path[r][i] \in Plane
      BY <2>1
    <2>3. IsFiniteSet(1 .. Len(Path[r]))
      BY <2>2, FS_Interval
    <2>4. \A i \in 1 .. Len(Path[r]) : i \in Nat \ {0}
      OBVIOUS
    <2> QED BY <2>1, <2>2, <2>3, <2>4
  <1> QED BY <1>1, <1>2

LEMMA TargetsTyped == ASSUME WorldTyped PROVE Plan!Targets \in Seq(Target)
  <1> DEFINE f == [i \in 1 .. Len(world.found) |-> [id |-> i, class |-> "static", at |-> world.found[i]]]
             g == IF world.final THEN <<[id |-> 0, class |-> "final", at |-> FinalTank]>> ELSE <<>>
  <1>1. world.found \in Seq(Spots) /\ Len(world.found) \in Nat /\ \A i \in 1 .. Len(world.found) : world.found[i] \in Spots
    BY DEF WorldTyped
  <1>2. f \in Seq(Target)
    <2>1. ASSUME NEW i \in 1 .. Len(world.found) PROVE f[i] \in Target
      <3>1. world.found[i] \in Plane /\ i \in Nat
        BY <1>1, PlaneFacts
      <3> QED BY <3>1 DEF Target
    <2>2. f = [i \in 1 .. Len(world.found) |-> f[i]]
      OBVIOUS
    <2> HIDE DEF f
    <2> QED BY <1>1, <2>1, <2>2
  <1>3. g \in Seq(Target)
    <2> DEFINE e == [id |-> 0, class |-> "final", at |-> FinalTank]
    <2>1. e \in Target
      BY PlaneFacts DEF Target
    <2> HIDE DEF e
    <2>2. <<e>> \in Seq(Target) /\ <<>> \in Seq(Target)
      BY <2>1
    <2>3. g = <<e>> \/ g = <<>>
      BY DEF e
    <2> HIDE DEF g
    <2> QED BY <2>2, <2>3
  <1>4. Plan!Targets = f \o g
    BY DEF Plan!Targets
  <1> HIDE DEF f, g
  <1> QED BY <1>2, <1>3, <1>4

\* Scores are whole numbers, and so is the exposure.
LEMMA ScoreTypes ==
  ASSUME WorldTyped, NEW r \in DOMAIN Path, NEW t \in Target, NEW least \in Nat, NEW i \in DOMAIN Path[r]
  PROVE  Plan!Exposure(Path[r][i], t) \in Nat /\ Plan!Score(r, t, least, i) \in Int
  <1> DEFINE p == Path[r][i]
             d == Plan!Dist(p, t.at)
             best == Plan!BestRange(t)
  <1>1. Plan!Exposure(p, t) \in Nat
    BY DEF Plan!Exposure
  <1>2. d \in Nat
    BY PlaneFacts, DistNatural DEF Target
  <1>3. best \in Int /\ GunMax \in Nat
    BY PlanAssumption DEF Plan!BestRange
  <1> HIDE DEF d, best
  <1>4. \A n \in Int : Plan!Larger(1, n) \in Nat \ {0}
    BY DEF Plan!Larger
  <1>5. Plan!RangeScore(d, least, best) \in Int
    <2>1. Plan!Larger(1, best - least) \in Nat \ {0} /\ Plan!Larger(1, GunMax - best) \in Nat \ {0}
      BY <1>3, <1>4
    <2>2. (10 * (best - d)) \div Plan!Larger(1, best - least) \in Int
      BY <1>2, <1>3, <2>1
    <2>3. (10 * (d - best)) \div Plan!Larger(1, GunMax - best) \in Int
      BY <1>2, <1>3, <2>1
    <2> QED BY <2>2, <2>3 DEF Plan!RangeScore
  <1>6. (10 * (i - 1)) \div (Len(Path[r]) - 1) \in Int
    <2>1. Len(Path[r]) - 1 \in Nat \ {0} /\ i \in Int
      BY PlaneFacts
    <2>2. 10 * (i - 1) \in Int
      BY <2>1
    <2>3. \A a \in Int, n \in Nat \ {0} : a \div n \in Int
      OBVIOUS
    <2> QED BY <2>1, <2>2, <2>3
  <1>7. Plan!Score(r, t, least, i) =
          4 * Plan!RangeScore(d, least, best) + 4 * (10 - Plan!Exposure(p, t))
          + (IF world.graded /\ Plan!Flat(p) THEN 90 ELSE 0) + 3 * (10 - (10 * (i - 1)) \div (Len(Path[r]) - 1))
    BY DEF Plan!Score, d, best
  <1>8. (IF world.graded /\ Plan!Flat(p) THEN 90 ELSE 0) \in Int
    OBVIOUS
  <1> HIDE DEF p
  <1> QED BY <1>1, <1>5, <1>6, <1>7, <1>8 DEF p

\* The scan: no position without a candidate, the best of the candidates otherwise.
Position == [at : Plane, arc : Nat \ {0}, score : Int, exposure : Nat, goals : Seq(Plane)]

LEMMA CandidatesFinite ==
  ASSUME NEW r \in DOMAIN Path, NEW t, NEW flat, NEW least
  PROVE  /\ Plan!Candidates(r, t, flat, least) \subseteq DOMAIN Path[r]
         /\ IsFiniteSet(Plan!Candidates(r, t, flat, least))
  <1>1. Plan!Candidates(r, t, flat, least) \in SUBSET DOMAIN Path[r]
    BY DEF Plan!Candidates
  <1> QED BY <1>1, PlaneFacts, FS_Subset

LEMMA AlternativesTyped ==
  ASSUME WorldTyped, NEW r \in DOMAIN Path, NEW t \in Target, NEW S \in SUBSET DOMAIN Path[r],
         NEW worth \in [S -> Int], NEW i \in S
  PROVE  Plan!Alternatives(r, t, S, worth, i) \in Seq(Plane)
  <1> DEFINE far == {j \in S \ {i} : Plan!Dist(Path[r][j], t.at) >= Plan!Larger(Tactical, Plan!Dist(Path[r][i], t.at))}
             bare(j) == Plan!Exposure(Path[r][j], t)
             Less(j, k) == \/ worth[j] > worth[k]
                           \/ (worth[j] = worth[k] /\ bare(j) < bare(k))
                           \/ (worth[j] = worth[k] /\ bare(j) = bare(k) /\ j < k)
             R == {e \in far \X far : Less(e[1], e[2])}
             at == [n \in 1 .. Plan!Cardinality(far) |-> CHOOSE k \in far : Plan!Cardinality({j \in far : Less(j, k)}) = n - 1]
             N == IF Plan!Cardinality(far) < Fallbacks THEN Plan!Cardinality(far) ELSE Fallbacks
  <1>1. Plan!Alternatives(r, t, S, worth, i) = [n \in 1 .. N |-> Path[r][at[n]]]
    BY DEF Plan!Alternatives, Plan!InOrder
  <1>2. far \in SUBSET DOMAIN Path[r] /\ IsFiniteSet(far) /\ Cardinality(far) \in Nat
    <2>1. far \in SUBSET DOMAIN Path[r]
      OBVIOUS
    <2> HIDE DEF far
    <2> QED BY <2>1, PlaneFacts, FS_Subset, FS_CardinalityType
  <1>3. \A j \in far : worth[j] \in Int /\ bare(j) \in Nat /\ j \in Nat
    <2>1. \A j \in far : worth[j] \in Int
      OBVIOUS
    <2>2. \A j \in far : j \in Nat /\ bare(j) \in Nat
      BY <1>2, PlaneFacts, ScoreTypes, PlanAssumption
    <2> QED BY <2>1, <2>2
  <1>4. \A j, k \in far : <<j, k>> \in R <=> Less(j, k)
    OBVIOUS
  <1> HIDE DEF far, R, bare
  <1>5. ASSUME NEW n \in 1 .. Plan!Cardinality(far) PROVE at[n] \in far
    <2>1. \A j, k \in far : j # k => <<j, k>> \in R \/ <<k, j>> \in R
      BY <1>3, <1>4
    <2>2. \A j, k, l \in far : <<j, k>> \in R /\ <<k, l>> \in R => <<j, l>> \in R
      BY <1>3, <1>4
    <2>3. \A j, k \in far : ~(<<j, k>> \in R /\ <<k, j>> \in R)
      <3> SUFFICES ASSUME NEW j \in far, NEW k \in far PROVE ~(Less(j, k) /\ Less(k, j))
        BY <1>4
      <3>1. worth[j] \in Int /\ bare(j) \in Int /\ j \in Int /\ worth[k] \in Int /\ bare(k) \in Int /\ k \in Int
        BY <1>3
      <3>2. \A a, b \in Int : ~(a > b /\ b > a)
        OBVIOUS
      <3> QED BY <3>1, <3>2
    <2>4. n \in 1 .. Cardinality(far)
      BY PlanCardinality
    <2> HIDE DEF Less
    <2>a. \A m \in 1 .. Cardinality(far) : \E k \in far : Cardinality(AheadOf(far, R, k)) = m - 1
      <3> HIDE DEF at
      <3> QED BY <1>2, <2>1, <2>2, <2>3, HasPlace
    <2>5. PICK k \in far : Cardinality(AheadOf(far, R, k)) = n - 1
      BY <2>4, <2>a
    <2>6. AheadOf(far, R, k) = {j \in far : Less(j, k)}
      BY <1>4 DEF AheadOf
    <2>7. Plan!Cardinality({j \in far : Less(j, k)}) = n - 1
      BY <2>5, <2>6, PlanCardinality
    <2>8. at[n] = CHOOSE l \in far : Plan!Cardinality({j \in far : Less(j, l)}) = n - 1
      OBVIOUS
    <2> HIDE DEF at
    <2> QED BY <2>7, <2>8
  <1>6. Plan!Cardinality(far) \in Nat /\ N \in Nat /\ N <= Plan!Cardinality(far)
    <2>1. Plan!Cardinality(far) = Cardinality(far)
      BY PlanCardinality
    <2>2. Fallbacks \in Nat
      BY PlanAssumption
    <2> QED BY <1>2, <2>1, <2>2
  <1> HIDE DEF at, N
  <1>7. ASSUME NEW n \in 1 .. N PROVE Path[r][at[n]] \in Plane
    <2>1. at[n] \in far
      BY <1>5, <1>6
    <2> QED BY <1>2, <2>1, PlaneFacts
  <1> QED BY <1>1, <1>6, <1>7

LEMMA ScanFacts ==
  ASSUME WorldTyped, NEW r \in DOMAIN Path, NEW t \in Target, NEW flat \in BOOLEAN, NEW least \in Nat
  PROVE  LET S == Plan!Candidates(r, t, flat, least)
             x == Plan!Scan(r, t, flat, least)
         IN  \/ S = {} /\ x = Plan!None
             \/ S # {} /\ x \in Position /\ x # Plan!None /\ \E i \in S : x.at = Path[r][i]
  <1> DEFINE S == Plan!Candidates(r, t, flat, least)
             worth == [i \in S |-> Plan!Score(r, t, least, i)]
             Best(j) == \A k \in S : worth[k] < worth[j] \/ (worth[k] = worth[j] /\ j <= k)
             i == CHOOSE j \in S : Best(j)
             x == [at |-> Path[r][i], arc |-> i, score |-> worth[i], exposure |-> Plan!Exposure(Path[r][i], t),
                   goals |-> Plan!Alternatives(r, t, S, worth, i)]
  <1>1. Plan!Scan(r, t, flat, least) = IF S = {} THEN Plan!None ELSE x
    BY DEF Plan!Scan
  <1>2. S \in SUBSET DOMAIN Path[r] /\ IsFiniteSet(S)
    BY CandidatesFinite
  <1> HIDE DEF S
  <1>3. worth \in [S -> Int] /\ \A j \in S : j \in Nat \ {0}
    BY <1>2, ScoreTypes, PlaneFacts
  <1> HIDE DEF worth
  <1>4. ASSUME S # {} PROVE i \in S
    <2> DEFINE Before(k, j) == worth[k] < worth[j] \/ (worth[k] = worth[j] /\ j <= k)
               R == {e \in S \X S : Before(e[1], e[2])}
    <2>1. \A k, j \in S : <<k, j>> \in R <=> Before(k, j)
      OBVIOUS
    <2>2. \A k \in S : worth[k] \in Int /\ k \in Nat
      BY <1>3
    <2> HIDE DEF R
    <2>3. \A p, q \in S : p # q => <<p, q>> \in R \/ <<q, p>> \in R
      BY <2>1, <2>2
    <2>4. \A p, q, l \in S : <<p, q>> \in R /\ <<q, l>> \in R => <<p, l>> \in R
      BY <2>1, <2>2
    <2>5. PICK p \in S : \A q \in S \ {p} : <<q, p>> \in R
      <3>1. \A T \in SUBSET S : T # {} => \E p \in T : \A q \in T \ {p} : <<q, p>> \in R
        BY <1>2, <2>3, <2>4, HasLast
      <3> QED BY <1>4, <3>1
    <2>6. Best(p)
      <3> SUFFICES ASSUME NEW k \in S PROVE Before(k, p)
        OBVIOUS
      <3>1. CASE k = p
        BY <2>2, <3>1
      <3>2. CASE k # p
        BY <2>1, <2>5, <3>2
      <3> QED BY <3>1, <3>2
    <2> QED BY <2>6
  <1> HIDE DEF Best, i
  <1>5. ASSUME S # {} PROVE x \in Position /\ x # Plan!None
    <2>1. i \in S /\ i \in DOMAIN Path[r] /\ i \in Nat \ {0} /\ worth[i] \in Int
      BY <1>2, <1>3, <1>4, <1>5
    <2>2. Path[r][i] \in Plane /\ Plan!Exposure(Path[r][i], t) \in Nat
      BY <2>1, PlaneFacts, ScoreTypes
    <2>3. Plan!Alternatives(r, t, S, worth, i) \in Seq(Plane)
      BY <1>2, <1>3, <2>1, AlternativesTyped
    <2>4. x \in Position
      BY <2>1, <2>2, <2>3 DEF Position
    <2>5. x.arc = i /\ Plan!None.arc = 0 /\ i # 0
      BY <2>1 DEF Plan!None
    <2> HIDE DEF x
    <2> QED BY <2>4, <2>5
  <1>6. x.at = Path[r][i]
    OBVIOUS
  <1> HIDE DEF x
  <1>7. S = {} \/ (i \in S /\ x \in Position /\ x # Plan!None)
    BY <1>4, <1>5
  <1> QED BY <1>1, <1>6, <1>7 DEF S

\* The points of a route from which t can be shot at, a flat one where that is asked for.
Fitting(r, t, flat, least) ==
    {p \in Plan!Range(Path[r]) : /\ Plan!Dist(p, t.at) <= GunMax /\ Plan!LineClear(p, t.at) /\ Plan!ArcClear(p, t.at)
                                 /\ Plan!Dist(p, t.at) >= least /\ (flat => Plan!Flat(p))}

LEMMA ScanFits ==
  ASSUME WorldTyped, NEW r \in DOMAIN Path, NEW t \in Target, NEW flat \in BOOLEAN, NEW least \in Nat
  PROVE  LET F == Fitting(r, t, flat, least)
             x == Plan!Scan(r, t, flat, least)
         IN  (F = {} /\ x = Plan!None) \/ (F # {} /\ x # Plan!None /\ x \in Position /\ x.at \in F)
  <1> DEFINE F == Fitting(r, t, flat, least)
             S == Plan!Candidates(r, t, flat, least)
             x == Plan!Scan(r, t, flat, least)
  <1>1. \A i \in DOMAIN Path[r] : Plan!Dist(Path[r][i], t.at) \in Nat
    BY PlaneFacts, DistNatural DEF Target
  <1>2. \A i \in DOMAIN Path[r] : i \in S <=> Path[r][i] \in F
    <2> SUFFICES ASSUME NEW i \in DOMAIN Path[r] PROVE i \in S <=> Path[r][i] \in F
      OBVIOUS
    <2> DEFINE d == Plan!Dist(Path[r][i], t.at)
    <2>1. Path[r][i] \in Plan!Range(Path[r])
      BY DEF Plan!Range
    <2>2. i \in S <=> /\ least <= d /\ d <= GunMax
                      /\ Plan!LineClear(Path[r][i], t.at) /\ Plan!ArcClear(Path[r][i], t.at)
                      /\ (flat => Plan!Flat(Path[r][i]))
      BY DEF Plan!Candidates
    <2>3. Path[r][i] \in F <=> /\ d <= GunMax /\ Plan!LineClear(Path[r][i], t.at) /\ Plan!ArcClear(Path[r][i], t.at)
                               /\ d >= least /\ (flat => Plan!Flat(Path[r][i]))
      BY <2>1 DEF Fitting
    <2>4. d >= least <=> least <= d
      BY <1>1
    <2> HIDE DEF d, S, F
    <2> QED BY <2>2, <2>3, <2>4
  <1>3. \A p \in F : \E i \in DOMAIN Path[r] : p = Path[r][i]
    BY DEF Fitting, Plan!Range
  <1>4. S \subseteq DOMAIN Path[r]
    BY DEF Plan!Candidates
  <1>5. (S = {} /\ x = Plan!None) \/ (S # {} /\ x \in Position /\ x # Plan!None /\ \E i \in S : x.at = Path[r][i])
    BY ScanFacts
  <1> HIDE DEF F, S, x
  <1>6. S = {} <=> F = {}
    BY <1>2, <1>3, <1>4
  <1>7. (F = {} /\ x = Plan!None) \/ (F # {} /\ x # Plan!None /\ x \in Position /\ x.at \in F)
    BY <1>2, <1>4, <1>5, <1>6
  <1> QED BY <1>7 DEF F, x

\* What the position x of a target at q on route r has to be.
PositionSound(r, q, x) ==
    LET fits(p) == /\ Plan!Dist(p, q) <= GunMax /\ Plan!LineClear(p, q) /\ Plan!ArcClear(p, q)
        far  == {p \in Plan!Range(Path[r]) : fits(p) /\ Plan!Dist(p, q) >= Tactical}
        any  == {p \in Plan!Range(Path[r]) : fits(p) /\ Plan!Dist(p, q) >= GunMin}
        flat == {p \in far : Plan!Flat(p)}
    IN  IF any = {} THEN x = Plan!None
        ELSE x # Plan!None /\ x.at \in (IF flat # {} THEN flat ELSE IF far # {} THEN far ELSE any)

\* A flat point at the standoff, then any point at the standoff, then any the gun reaches.
LEMMA FiringPositionSound ==
  ASSUME WorldTyped, NEW r \in DOMAIN Path, NEW t \in Target
  PROVE  /\ PositionSound(r, t.at, Plan!FiringPosition(r, t))
         /\ Plan!FiringPosition(r, t) \in Position \cup {Plan!None}
  <1> DEFINE flat == Fitting(r, t, TRUE, Tactical)
             far  == Fitting(r, t, FALSE, Tactical)
             any  == Fitting(r, t, FALSE, GunMin)
             a == Plan!Scan(r, t, world.graded, Tactical)
             b == Plan!Scan(r, t, FALSE, Tactical)
             c == Plan!Scan(r, t, FALSE, GunMin)
             x == Plan!FiringPosition(r, t)
  <1>1. world.graded \in BOOLEAN /\ Tactical \in Nat /\ GunMin \in Nat /\ GunMin <= Tactical
    BY PlanAssumption DEF WorldTyped
  <1>2. (far = {} /\ b = Plan!None) \/ (far # {} /\ b # Plan!None /\ b \in Position /\ b.at \in far)
    BY <1>1, ScanFits
  <1>3. (any = {} /\ c = Plan!None) \/ (any # {} /\ c # Plan!None /\ c \in Position /\ c.at \in any)
    BY <1>1, ScanFits
  <1> DEFINE Graded == /\ x \in Position \cup {Plan!None}
                       /\ \/ flat # {} /\ x # Plan!None /\ x.at \in flat
                          \/ flat = {} /\ far # {} /\ x # Plan!None /\ x.at \in far
                          \/ flat = {} /\ far = {} /\ any # {} /\ x # Plan!None /\ x.at \in any
                          \/ flat = {} /\ far = {} /\ any = {} /\ x = Plan!None
  <1>4. ASSUME world.graded PROVE Graded
    <2>1. a = Plan!Scan(r, t, TRUE, Tactical)
      BY <1>1, <1>4
    <2>2. (flat = {} /\ a = Plan!None) \/ (flat # {} /\ a # Plan!None /\ a \in Position /\ a.at \in flat)
      BY <1>1, <2>1, ScanFits
    <2>3. x = IF a # Plan!None THEN a ELSE IF b # Plan!None THEN b ELSE c
      BY <1>4 DEF Plan!FiringPosition
    <2> HIDE DEF a, b, c, x, flat, far, any
    <2> QED BY <1>2, <1>3, <2>2, <2>3
  <1>5. ASSUME ~world.graded PROVE Graded
    <2>1. x = IF b # Plan!None THEN b ELSE c
      <3>1. a = b
        BY <1>1, <1>5
      <3> QED BY <1>5, <3>1 DEF Plan!FiringPosition
    <2>2. \A p : Plan!Flat(p)
      BY <1>5 DEF Plan!Flat
    <2>3. flat = far
      BY <2>2 DEF Fitting
    <2> HIDE DEF a, b, c, x, flat, far, any
    <2> QED BY <1>2, <1>3, <2>1, <2>3
  <1>6. Graded
    BY <1>4, <1>5
  <1> DEFINE fits(p) == /\ Plan!Dist(p, t.at) <= GunMax /\ Plan!LineClear(p, t.at) /\ Plan!ArcClear(p, t.at)
             theFar  == {p \in Plan!Range(Path[r]) : fits(p) /\ Plan!Dist(p, t.at) >= Tactical}
             theAny  == {p \in Plan!Range(Path[r]) : fits(p) /\ Plan!Dist(p, t.at) >= GunMin}
             theFlat == {p \in theFar : Plan!Flat(p)}
  <1>7. far = theFar /\ any = theAny /\ flat = theFlat
    BY DEF Fitting
  <1>8. far \subseteq any /\ flat \subseteq far
    <2>1. \A p \in Plan!Range(Path[r]) : Plan!Dist(p, t.at) \in Nat
      <3>1. \A p \in Plan!Range(Path[r]) : p \in Plane
        BY PlaneFacts DEF Plan!Range
      <3> QED BY <3>1, DistNatural DEF Target
    <2>2. \A p \in Plan!Range(Path[r]) : Plan!Dist(p, t.at) >= Tactical => Plan!Dist(p, t.at) >= GunMin
      BY <1>1, <2>1
    <2> QED BY <2>2 DEF Fitting
  <1>9. PositionSound(r, t.at, x) <=> IF theAny = {} THEN x = Plan!None
          ELSE x # Plan!None /\ x.at \in (IF theFlat # {} THEN theFlat ELSE IF theFar # {} THEN theFar ELSE theAny)
    BY DEF PositionSound
  <1> HIDE DEF x, flat, far, any, theFlat, theFar, theAny
  <1> QED BY <1>6, <1>7, <1>8, <1>9 DEF x

\* What a plan says of a target, and what the engagements say.
Entry == {e \in [id : Nat, class : {"static", "final"}, at : Plane, position : Position \cup {Plan!None}] :
            e.class = "final" => e.at = FinalTank}
Engaged == {e \in [id : Nat, live : BOOLEAN, base : Plane, target : Plane, goals : Seq(Plane)] :
              e.live => e.target = FinalTank}

LEMMA PlanRouteSound ==
  ASSUME WorldTyped, NEW r \in DOMAIN Path
  PROVE  /\ Plan!PlanRoute(r) \in Seq(Entry)
         /\ \A e \in Plan!Range(Plan!PlanRoute(r)) : PositionSound(r, e.at, e.position)
  <1> DEFINE ts == Plan!Targets
             entry(t) == [id |-> t.id, class |-> t.class, at |-> t.at, position |-> Plan!FiringPosition(r, t)]
             plan_ == Plan!PlanRoute(r)
  <1>1. ts \in Seq(Target) /\ Len(ts) \in Nat /\ DOMAIN ts = 1 .. Len(ts) /\ \A i \in DOMAIN ts : ts[i] \in Target
    <2>1. ts \in Seq(Target)
      BY TargetsTyped
    <2> HIDE DEF ts
    <2> QED BY <2>1
  <1>2. plan_ = [i \in DOMAIN ts |-> entry(ts[i])]
    BY DEF Plan!PlanRoute
  <1>3. ASSUME NEW t \in Target PROVE entry(t) \in Entry /\ PositionSound(r, entry(t).at, entry(t).position)
    <2>1. Plan!FiringPosition(r, t) \in Position \cup {Plan!None} /\ PositionSound(r, t.at, Plan!FiringPosition(r, t))
      BY FiringPositionSound
    <2>2. t.id \in Nat /\ t.class \in {"static", "final"} /\ t.at \in Plane /\ (t.class = "final" => t.at = FinalTank)
      BY DEF Target
    <2> QED BY <2>1, <2>2 DEF Entry
  <1> HIDE DEF ts, entry, plan_
  <1>4. plan_ \in Seq(Entry)
    BY <1>1, <1>2, <1>3
  <1>5. ASSUME NEW e \in Plan!Range(plan_) PROVE PositionSound(r, e.at, e.position)
    <2>1. PICK i \in DOMAIN ts : e = entry(ts[i])
      BY <1>2 DEF Plan!Range
    <2> QED BY <1>1, <1>3, <2>1
  <1> QED BY <1>4, <1>5 DEF plan_

\* The engagements are those of targets with a position.
LEMMA EngageOrderTyped ==
  ASSUME NEW entries \in Seq(Entry)
  PROVE  /\ Plan!EngageOrder(entries) \in Seq(Entry)
         /\ \A n \in DOMAIN Plan!EngageOrder(entries) : Plan!EngageOrder(entries)[n].position \in Position
  <1> DEFINE S == Plan!Covered(entries)
             last(i) == entries[i].class = "final"
             arc(i)  == entries[i].position.arc
             Less(i, j) == \/ ~last(i) /\ last(j)
                           \/ last(i) = last(j) /\ (arc(i) < arc(j) \/ (arc(i) = arc(j) /\ i < j))
             R == {e \in S \X S : Less(e[1], e[2])}
             at == [n \in 1 .. Plan!Cardinality(S) |-> CHOOSE k \in S : Plan!Cardinality({j \in S : Less(j, k)}) = n - 1]
             order == Plan!EngageOrder(entries)
  <1>1. order = [n \in 1 .. Plan!Cardinality(S) |-> entries[at[n]]]
    BY DEF Plan!EngageOrder, Plan!InOrder
  <1>2. /\ S \in SUBSET DOMAIN entries /\ IsFiniteSet(S) /\ Cardinality(S) \in Nat
        /\ \A i \in S : entries[i] \in Entry /\ entries[i].position \in Position /\ i \in Int
    <2>1. Len(entries) \in Nat /\ DOMAIN entries = 1 .. Len(entries) /\ IsFiniteSet(1 .. Len(entries))
      BY FS_Interval
    <2>2. S \in SUBSET DOMAIN entries /\ \A i \in S : entries[i].position # Plan!None
      BY DEF Plan!Covered
    <2> HIDE DEF S
    <2>3. \A i \in S : entries[i] \in Entry /\ i \in Int
      BY <2>1, <2>2
    <2>4. \A e \in Entry : e.position \in Position \cup {Plan!None}
      BY DEF Entry
    <2> QED BY <2>1, <2>2, <2>3, <2>4, FS_Subset, FS_CardinalityType
  <1>3. \A i \in S : arc(i) \in Int /\ i \in Int /\ last(i) \in BOOLEAN
    <2>1. \A p \in Position : p.arc \in Int
      BY DEF Position
    <2> HIDE DEF S
    <2> QED BY <1>2, <2>1
  <1>4. \A j, k \in S : <<j, k>> \in R <=> Less(j, k)
    OBVIOUS
  <1> HIDE DEF S, R, arc, last
  <1>5. ASSUME NEW n \in 1 .. Plan!Cardinality(S) PROVE at[n] \in S
    <2>1. \A j, k \in S : j # k => <<j, k>> \in R \/ <<k, j>> \in R
      BY <1>3, <1>4
    <2>2. \A j, k, l \in S : <<j, k>> \in R /\ <<k, l>> \in R => <<j, l>> \in R
      BY <1>3, <1>4
    <2>3. \A j, k \in S : ~(<<j, k>> \in R /\ <<k, j>> \in R)
      <3> SUFFICES ASSUME NEW j \in S, NEW k \in S PROVE ~(Less(j, k) /\ Less(k, j))
        BY <1>4
      <3>1. arc(j) \in Int /\ j \in Int /\ arc(k) \in Int /\ k \in Int
        BY <1>3
      <3> QED BY <3>1
    <2>4. n \in 1 .. Cardinality(S)
      BY PlanCardinality
    <2> HIDE DEF Less
    <2>5. \A m \in 1 .. Cardinality(S) : \E k \in S : Cardinality(AheadOf(S, R, k)) = m - 1
      <3> HIDE DEF at
      <3> QED BY <1>2, <2>1, <2>2, <2>3, HasPlace
    <2>6. PICK k \in S : Cardinality(AheadOf(S, R, k)) = n - 1
      BY <2>4, <2>5
    <2>7. AheadOf(S, R, k) = {j \in S : Less(j, k)}
      BY <1>4 DEF AheadOf
    <2>8. Plan!Cardinality({j \in S : Less(j, k)}) = n - 1
      BY <2>6, <2>7, PlanCardinality
    <2>9. at[n] = CHOOSE l \in S : Plan!Cardinality({j \in S : Less(j, l)}) = n - 1
      OBVIOUS
    <2> HIDE DEF at
    <2> QED BY <2>8, <2>9
  <1> HIDE DEF at, order
  <1>6. Plan!Cardinality(S) \in Nat /\ DOMAIN order = 1 .. Plan!Cardinality(S)
    BY <1>1, <1>2, PlanCardinality
  <1>7. \A n \in DOMAIN order : order[n] \in Entry /\ order[n].position \in Position
    BY <1>1, <1>2, <1>5, <1>6
  <1>8. order = [n \in 1 .. Plan!Cardinality(S) |-> order[n]]
    BY <1>1, <1>6
  <1>9. order \in Seq(Entry)
    BY <1>6, <1>7, <1>8
  <1> QED BY <1>7, <1>9 DEF order

LEMMA EngagementTyped ==
  ASSUME NEW e \in Entry, e.position \in Position, NEW first \in BOOLEAN
  PROVE  Plan!Engagement(e, first) \in Engaged
  <1>1. e.id \in Nat /\ e.class \in {"static", "final"} /\ e.at \in Plane /\ (e.class = "final" => e.at = FinalTank)
    BY DEF Entry
  <1>2. e.position.at \in Plane /\ e.position.goals \in Seq(Plane)
    BY DEF Position
  <1>3. Firebase \in Plane /\ Anchor \in Plane /\ <<Firebase>> \in Seq(Plane)
    <2>1. Firebase \in Plane /\ Anchor \in Plane
      BY PlaneFacts
    <2> HIDE DEF Plane
    <2> QED BY <2>1
  <1> QED BY <1>1, <1>2, <1>3 DEF Plan!Engagement, Engaged

LEMMA HasLeast ==
  ASSUME NEW S \in SUBSET Int, IsFiniteSet(S), S # {}
  PROVE  \E m \in S : \A q \in S : m <= q
  <1> DEFINE R == {e \in S \X S : e[1] >= e[2]}
  <1>1. \A p, q \in S : <<p, q>> \in R <=> p >= q
    OBVIOUS
  <1> HIDE DEF R
  <1>2. \A p, q \in S : p # q => <<p, q>> \in R \/ <<q, p>> \in R
    BY <1>1
  <1>3. \A p, q, r \in S : <<p, q>> \in R /\ <<q, r>> \in R => <<p, r>> \in R
    BY <1>1
  <1>4. \A T \in SUBSET S : T # {} => \E p \in T : \A q \in T \ {p} : <<q, p>> \in R
    BY <1>2, <1>3, HasLast
  <1>5. PICK m \in S : \A q \in S \ {m} : <<q, m>> \in R
    BY <1>4
  <1>6. \A q \in S : m <= q
    <2> SUFFICES ASSUME NEW q \in S PROVE m <= q
      OBVIOUS
    <2>1. CASE q = m
      BY <2>1
    <2>2. CASE q # m
      BY <1>1, <1>5, <2>2
    <2> QED BY <2>1, <2>2
  <1> QED BY <1>6

LEMMA DefaultTyped ==
  /\ Plan!Default[1] \in Engaged /\ ~Plan!Default[1].live /\ Plan!Dist(Plan!Default[1].target, FinalTank) >= Duplicate
  /\ Plan!Default[2] \in Engaged /\ Plan!Default[2].live
  <1>1. <<>> \in Seq(Plane) /\ FinalTank \in Plane /\ Anchor \in Plane /\ Firebase \in Plane /\ LastBase \in Plane
    <2>1. FinalTank \in Plane /\ Anchor \in Plane /\ Firebase \in Plane /\ LastBase \in Plane
      BY PlaneFacts
    <2> HIDE DEF Plane
    <2> QED BY <2>1
  <1>2. Plan!Dist(Anchor, FinalTank) >= Duplicate
    BY PlanAssumption
  <1> HIDE DEF Plane
  <1> QED BY <1>1, <1>2 DEF Plan!Default, Engaged

\* The engagement taken for the final enemy is at its nominal place.
LEMMA FinalIsFinal ==
  ASSUME NEW engs \in Seq(Engaged)
  PROVE  Plan!FinalOf(engs) \in Engaged /\ Plan!FinalOf(engs).live /\ Plan!FinalOf(engs).target = FinalTank
  <1> DEFINE live == {i \in DOMAIN engs : engs[i].live}
             i == CHOOSE i \in live : \A j \in live : i <= j
  <1>1. Len(engs) \in Nat /\ DOMAIN engs = 1 .. Len(engs) /\ \A n \in DOMAIN engs : engs[n] \in Engaged
    OBVIOUS
  <1>2. live \in SUBSET Int /\ IsFiniteSet(live)
    <2>1. live \in SUBSET (1 .. Len(engs)) /\ IsFiniteSet(1 .. Len(engs))
      BY <1>1, FS_Interval
    <2> HIDE DEF live
    <2>2. \A T : T \in SUBSET (1 .. Len(engs)) => IsFiniteSet(T)
      BY <2>1, FS_Subset
    <2>3. 1 .. Len(engs) \subseteq Int
      OBVIOUS
    <2> QED BY <2>1, <2>2, <2>3
  <1>3. Plan!FinalOf(engs) = IF live = {} THEN Plan!Default[2] ELSE engs[i]
    BY DEF Plan!FinalOf
  <1>4. ASSUME live # {} PROVE i \in live
    <2>1. \E m \in live : \A q \in live : m <= q
      <3> HIDE DEF live
      <3> QED BY <1>2, <1>4, HasLeast
    <2> HIDE DEF live
    <2> QED BY <2>1
  <1>5. ASSUME live # {} PROVE engs[i] \in Engaged /\ engs[i].live
    <2>1. i \in live
      BY <1>4, <1>5
    <2> HIDE DEF i
    <2> QED BY <1>1, <2>1
  <1>6. \A e \in Engaged : e.live => e.target = FinalTank
    BY DEF Engaged
  <1> HIDE DEF i, live
  <1> QED BY <1>3, <1>5, <1>6, DefaultTyped

\* The engagement taken for the static tank is not at the final enemy.
LEMMA StaticIsStatic ==
  ASSUME NEW engs \in Seq(Engaged)
  PROVE  LET e == Plan!StaticOf(engs)
         IN  e \in Engaged /\ ~e.live /\ Plan!Dist(e.target, FinalTank) >= Duplicate
  <1> DEFINE S == Plan!StaticsOf(engs)
             far(i) == Plan!FromAnchor(engs[i])
             Best(i) == \A j \in S : \/ far(i) < far(j) \/ (far(i) = far(j) /\ i <= j)
             i == CHOOSE i \in S : Best(i)
             e == Plan!StaticOf(engs)
  <1>1. Len(engs) \in Nat /\ DOMAIN engs = 1 .. Len(engs) /\ \A n \in DOMAIN engs : engs[n] \in Engaged
    OBVIOUS
  <1>2. S \in SUBSET DOMAIN engs /\ \A n \in S : ~engs[n].live /\ Plan!Dist(engs[n].target, FinalTank) >= Duplicate
    BY FinalIsFinal DEF Plan!StaticsOf
  <1>3. e = IF S = {} THEN Plan!Default[1] ELSE engs[i]
    BY DEF Plan!StaticOf
  <1>4. \A x \in Engaged : Plan!FromAnchor(x) \in Int
    <2> SUFFICES ASSUME NEW x \in Engaged PROVE Plan!FromAnchor(x) \in Int
      OBVIOUS
    <2>1. x.target \in Plane
      BY DEF Engaged
    <2>2. Plan!Dist(x.target, Anchor) \in Int
      BY <2>1, PlaneFacts, DistNatural
    <2> QED BY <2>1, <2>2 DEF Plan!FromAnchor
  <1> HIDE DEF S
  <1>5. ASSUME S # {} PROVE i \in S
    <2> DEFINE Before(k, j) == far(k) > far(j) \/ (far(k) = far(j) /\ k >= j)
               R == {x \in S \X S : Before(x[1], x[2])}
    <2>1. \A k, j \in S : <<k, j>> \in R <=> Before(k, j)
      OBVIOUS
    <2>2. \A k \in S : far(k) \in Int /\ k \in Int
      BY <1>1, <1>2, <1>4
    <2> HIDE DEF R, far
    <2>3. \A p, q \in S : p # q => <<p, q>> \in R \/ <<q, p>> \in R
      BY <2>1, <2>2
    <2>4. \A p, q, l \in S : <<p, q>> \in R /\ <<q, l>> \in R => <<p, l>> \in R
      BY <2>1, <2>2
    <2>5. PICK p \in S : \A q \in S \ {p} : <<q, p>> \in R
      <3>1. IsFiniteSet(S)
        <4>1. IsFiniteSet(1 .. Len(engs))
          BY <1>1, FS_Interval
        <4> QED BY <1>1, <1>2, <4>1, FS_Subset
      <3>2. \A T \in SUBSET S : T # {} => \E p \in T : \A q \in T \ {p} : <<q, p>> \in R
        BY <2>3, <2>4, <3>1, HasLast
      <3> QED BY <1>5, <3>2
    <2>6. Best(p)
      <3> SUFFICES ASSUME NEW k \in S PROVE \/ far(p) < far(k) \/ (far(p) = far(k) /\ p <= k)
        OBVIOUS
      <3>1. CASE k = p
        BY <2>2, <3>1
      <3>2. CASE k # p
        <4>1. Before(k, p)
          BY <2>1, <2>5, <3>2
        <4>2. far(k) \in Int /\ far(p) \in Int /\ k \in Int /\ p \in Int
          BY <2>2
        <4> QED BY <4>1, <4>2
      <3> QED BY <3>1, <3>2
    <2> QED BY <2>6
  <1> HIDE DEF Best, i
  <1>6. ASSUME S # {}
        PROVE engs[i] \in Engaged /\ ~engs[i].live /\ Plan!Dist(engs[i].target, FinalTank) >= Duplicate
    <2>1. i \in S
      BY <1>5, <1>6
    <2> QED BY <1>1, <1>2, <2>1
  <1> HIDE DEF e
  <1> QED BY <1>3, <1>6, DefaultTyped DEF e

\* What is left of the fallback goals is no nearer to the target than the base.
LEMMA SanitizedFar ==
  ASSUME NEW e, e.goals \in Seq(Plane), e.target \in Plane, NEW base \in Plane
  PROVE  /\ Plan!Sanitized(e, base) \in Seq(Plane)
         /\ \A g \in Plan!Range(Plan!Sanitized(e, base)) : Plan!Dist(g, e.target) >= Plan!Dist(base, e.target)
  <1> DEFINE far == Plan!Larger(GunMin, Plan!Dist(base, e.target))
             K == {i \in DOMAIN e.goals : /\ Plan!Dist(e.goals[i], e.target) >= far /\ e.goals[i] # base}
             kept == Plan!Keep(e.goals, K)
  <1>1. Plan!Sanitized(e, base) = kept
    BY DEF Plan!Sanitized
  <1>2. \A i \in DOMAIN e.goals : e.goals[i] \in Plane
    BY DEF Plane
  <1>3. far \in Nat /\ far >= Plan!Dist(base, e.target) /\ Plan!Dist(base, e.target) \in Nat
    <2>1. Plan!Dist(base, e.target) \in Nat /\ GunMin \in Nat
      BY DistNatural, PlanAssumption
    <2> QED BY <2>1 DEF Plan!Larger
  <1> HIDE DEF far
  <1>4. \A i \in K : e.goals[i] \in Plane /\ Plan!Dist(e.goals[i], e.target) >= Plan!Dist(base, e.target)
    <2> SUFFICES ASSUME NEW i \in K
                 PROVE  e.goals[i] \in Plane /\ Plan!Dist(e.goals[i], e.target) >= Plan!Dist(base, e.target)
      OBVIOUS
    <2>1. e.goals[i] \in Plane /\ Plan!Dist(e.goals[i], e.target) >= far
      BY <1>2
    <2>2. Plan!Dist(e.goals[i], e.target) \in Nat
      BY <2>1, DistNatural
    <2> QED BY <1>3, <2>1, <2>2
  <1>5. K \in SUBSET Int /\ IsFiniteSet(K)
    <2>1. Len(e.goals) \in Nat /\ DOMAIN e.goals = 1 .. Len(e.goals)
      BY DEF Plane
    <2>2. IsFiniteSet(1 .. Len(e.goals)) /\ K \in SUBSET (1 .. Len(e.goals))
      BY <2>1, FS_Interval
    <2> HIDE DEF K
    <2>3. \A T : T \in SUBSET (1 .. Len(e.goals)) => IsFiniteSet(T)
      BY <2>2, FS_Subset
    <2>4. 1 .. Len(e.goals) \subseteq Int
      BY <2>1
    <2> QED BY <2>2, <2>3, <2>4
  <1> HIDE DEF K
  <1>6. /\ kept = [n \in 1 .. Cardinality(K) |-> kept[n]] /\ Cardinality(K) \in Nat
        /\ \A n \in 1 .. Cardinality(K) : \E i \in K : kept[n] = e.goals[i]
    BY <1>5, KeptPart
  <1> HIDE DEF kept, Plane
  <1>7. \A n \in 1 .. Cardinality(K) : kept[n] \in Plane /\ Plan!Dist(kept[n], e.target) >= Plan!Dist(base, e.target)
    BY <1>4, <1>6
  <1>8. DOMAIN kept = 1 .. Cardinality(K)
    BY <1>6
  <1>9. kept \in Seq(Plane)
    BY <1>6, <1>7
  <1>10. \A g \in Plan!Range(kept) : Plan!Dist(g, e.target) >= Plan!Dist(base, e.target)
    BY <1>7, <1>8 DEF Plan!Range
  <1> QED BY <1>1, <1>9, <1>10

\* Two shots that the turret may be given.
ShotsSound(s) ==
    /\ Len(s) = 2 /\ ~s[1].live /\ s[2].live
    /\ Plan!Dist(s[1].target, s[2].target) >= Duplicate
    /\ \A n \in 1 .. 2 : \A g \in Plan!Range(s[n].goals) \ {LastBase} :
         Plan!Dist(g, s[n].target) >= Plan!Dist(s[n].base, s[n].target)

LEMMA DefaultSound == ShotsSound(Plan!Default)
  <1>1. /\ Len(Plan!Default) = 2 /\ ~Plan!Default[1].live /\ Plan!Default[2].live
        /\ Plan!Default[1].target = Anchor /\ Plan!Default[2].target = FinalTank
        /\ \A n \in 1 .. 2 : Plan!Default[n].goals = <<>>
    BY DEF Plan!Default
  <1>2. Plan!Dist(Anchor, FinalTank) >= Duplicate
    BY PlanAssumption
  <1>3. Plan!Range(<<>>) = {}
    BY DEF Plan!Range
  <1> QED BY <1>1, <1>2, <1>3 DEF ShotsSound

LEMMA LaunchSound ==
  ASSUME NEW engs \in Seq(Engaged)
  PROVE  ShotsSound(<<Plan!FirstShot(Plan!StaticOf(engs)), Plan!LastShot(Plan!FinalOf(engs))>>)
  <1> DEFINE e == Plan!StaticOf(engs)
             f == Plan!FinalOf(engs)
             close == Plan!Dist(e.target, Anchor) <= Same
             base == IF close THEN Firebase ELSE e.base
             extra == IF close THEN <<Firebase>> ELSE <<>>
             resort == IF Plan!Dist(LastBase, e.target) >= GunMin THEN <<LastBase>> ELSE <<>>
             a == Plan!FirstShot(e)
             b == Plan!LastShot(f)
  <1>1. e \in Engaged /\ ~e.live /\ Plan!Dist(e.target, FinalTank) >= Duplicate
    BY StaticIsStatic
  <1>2. f \in Engaged /\ f.target = FinalTank /\ f.live
    BY FinalIsFinal
  <1>3. FinalTank \in Plane /\ LastBase \in Plane /\ Firebase \in Plane
    BY PlaneFacts
  <1>4. \A x \in Engaged : /\ x = [id |-> x.id, live |-> x.live, base |-> x.base, target |-> x.target, goals |-> x.goals]
                           /\ x.target \in Plane /\ x.goals \in Seq(Plane) /\ x.base \in Plane
    BY DEF Engaged
  <1>5. a = [e EXCEPT !.base = base, !.goals = Plan!Sanitized(e, base) \o extra \o resort]
    BY DEF Plan!FirstShot
  <1>6. b = [f EXCEPT !.base = LastBase, !.live = TRUE, !.goals = Plan!Sanitized(f, LastBase)]
    BY DEF Plan!LastShot
  <1> HIDE DEF e, f, close, a, b, resort, Engaged, Plane
  <1>7. base \in Plane
    BY <1>1, <1>3, <1>4
  <1>8. /\ a.live = e.live /\ a.target = e.target /\ a.base = base
        /\ a.goals = Plan!Sanitized(e, base) \o extra \o resort
    <2> HIDE DEF base, extra
    <2> QED BY <1>1, <1>4, <1>5
  <1>9. b.live = TRUE /\ b.target = f.target /\ b.base = LastBase /\ b.goals = Plan!Sanitized(f, LastBase)
    BY <1>2, <1>4, <1>6
  <1>10. \A g \in Plan!Range(a.goals) \ {LastBase} : Plan!Dist(g, a.target) >= Plan!Dist(a.base, a.target)
    <2> DEFINE s == Plan!Sanitized(e, base)
    <2>1. s \in Seq(Plane) /\ \A g \in Plan!Range(s) : Plan!Dist(g, e.target) >= Plan!Dist(base, e.target)
      BY <1>1, <1>4, <1>7, SanitizedFar
    <2>2. resort \in Seq({LastBase}) /\ extra \in Seq({Firebase}) /\ (~close => extra = <<>>)
      <3>1. resort = <<LastBase>> \/ resort = <<>>
        BY DEF resort
      <3>2. (close /\ extra = <<Firebase>>) \/ (~close /\ extra = <<>>)
        OBVIOUS
      <3>3. \A x : <<x>> \in Seq({x}) /\ <<>> \in Seq({x})
        OBVIOUS
      <3> HIDE DEF extra, resort, close
      <3> QED BY <3>1, <3>2, <3>3
    <2> HIDE DEF s, extra
    <2>3. ASSUME NEW u \in Seq(Plane \cup {LastBase, Firebase}), NEW v \in Seq(Plane \cup {LastBase, Firebase})
          PROVE  /\ u \o v \in Seq(Plane \cup {LastBase, Firebase})
                 /\ Plan!Range(u \o v) \subseteq Plan!Range(u) \cup Plan!Range(v)
      <3>1. u \o v \in Seq(Plane \cup {LastBase, Firebase}) /\ Len(u) \in Nat /\ Len(v) \in Nat
            /\ DOMAIN (u \o v) = 1 .. Len(u) + Len(v) /\ DOMAIN u = 1 .. Len(u) /\ DOMAIN v = 1 .. Len(v)
        OBVIOUS
      <3>2. ASSUME NEW n \in DOMAIN (u \o v) PROVE (u \o v)[n] \in Plan!Range(u) \cup Plan!Range(v)
        <4>1. CASE n <= Len(u)
          <5>1. n \in DOMAIN u /\ (u \o v)[n] = u[n]
            BY <3>1, <4>1
          <5> QED BY <5>1 DEF Plan!Range
        <4>2. CASE ~(n <= Len(u))
          <5>1. n - Len(u) \in DOMAIN v /\ (u \o v)[n] = v[n - Len(u)]
            BY <3>1, <4>2
          <5> QED BY <5>1 DEF Plan!Range
        <4> QED BY <4>1, <4>2
      <3> QED BY <3>1, <3>2 DEF Plan!Range
    <2>4. Plan!Range(a.goals) \subseteq Plan!Range(s) \cup Plan!Range(extra) \cup Plan!Range(resort)
      <3>1. /\ s \in Seq(Plane \cup {LastBase, Firebase}) /\ extra \in Seq(Plane \cup {LastBase, Firebase})
            /\ resort \in Seq(Plane \cup {LastBase, Firebase})
        BY <2>1, <2>2
      <3>2. a.goals = (s \o extra) \o resort
        BY <1>8 DEF s
      <3> QED BY <2>3, <3>1, <3>2
    <2>5. Plan!Range(resort) \subseteq {LastBase}
      BY <2>2 DEF Plan!Range
    <2>6. Plan!Range(extra) \subseteq {Firebase} /\ (~close => Plan!Range(extra) = {})
      BY <2>2 DEF Plan!Range
    <2>7. close => base = Firebase
      OBVIOUS
    <2>8. Plan!Dist(base, e.target) >= Plan!Dist(base, e.target)
      <3>1. Plan!Dist(base, e.target) \in Nat
        BY <1>1, <1>4, <1>7, DistNatural
      <3> HIDE DEF base
      <3> QED BY <3>1
    <2> HIDE DEF base
    <2> QED BY <1>8, <2>1, <2>4, <2>5, <2>6, <2>7, <2>8
  <1>11. \A g \in Plan!Range(b.goals) : Plan!Dist(g, b.target) >= Plan!Dist(b.base, b.target)
    BY <1>2, <1>3, <1>4, <1>9, SanitizedFar
  <1>12. Len(<<a, b>>) = 2 /\ <<a, b>>[1] = a /\ <<a, b>>[2] = b
    OBVIOUS
  <1>13. \A n \in 1 .. 2 : n = 1 \/ n = 2
    OBVIOUS
  <1> HIDE DEF base, extra
  <1> QED BY <1>1, <1>2, <1>8, <1>9, <1>10, <1>11, <1>12, <1>13 DEF ShotsSound, a, b, e, f

-----------------------------------------------------------------------------
\* What the plan has done so far, in the order of its stages.
PlanInv ==
    /\ layer # "plan" => stage = "idle"
    /\ layer = "plan" =>
         /\ WorldTyped /\ engagements \in Seq(Engaged)
         /\ stage \in {"planned", "recommended"} => results \in [DOMAIN Path -> Seq(Entry)]
         /\ stage = "recommended" => route \in DOMAIN Path
    /\ stage = "planned" => \A r \in DOMAIN Path : \A e \in Plan!Range(results[r]) : PositionSound(r, e.at, e.position)
    /\ stage = "launched" => ShotsSound(shots)

\* It is what PlanSound says, and more.
LEMMA PlanInvSound == PlanInv => PlanSound
  <1> SUFFICES ASSUME PlanInv PROVE PlanSound
    OBVIOUS
  <1>1. Plan!PositionsSound
    BY DEF PlanInv, Plan!PositionsSound, PositionSound
  <1>2. Plan!SequenceSound
    BY DEF PlanInv, Plan!SequenceSound, ShotsSound
  <1> QED BY <1>1, <1>2 DEF PlanSound

LEMMA PlanInit == FieldInit => PlanInv
  <1> SUFFICES ASSUME FieldInit PROVE PlanInv
    OBVIOUS
  <1>1. CASE layer # "plan"
    BY <1>1 DEF FieldInit, NoPlan, PlanInv
  <1>2. CASE layer = "plan"
    <2>1. Plan!PlanInit
      BY <1>2 DEF FieldInit
    <2>2. stage = "read" /\ engagements = <<>>
      BY <2>1 DEF Plan!PlanInit
    <2>3. WorldTyped
      <3>1. world.found \in UNION {[1 .. n -> Spots] : n \in 0 .. MaxFound} /\ world.final \in BOOLEAN
            /\ world.graded \in BOOLEAN
        BY <2>1 DEF Plan!PlanInit
      <3>2. PICK n \in 0 .. MaxFound : world.found \in [1 .. n -> Spots]
        BY <3>1
      <3>3. n \in Nat
        BY PlanAssumption
      <3> QED BY <3>1, <3>2, <3>3 DEF WorldTyped
    <2>4. <<>> \in Seq(Engaged)
      OBVIOUS
    <2> QED BY <1>2, <2>2, <2>3, <2>4 DEF PlanInv
  <1> QED BY <1>1, <1>2

\* While the maps do not change, what is sound of a position stays so.
LEMMA PositionStays ==
  ASSUME world' = world
  PROVE  \A r, q, x : PositionSound(r, q, x)' <=> PositionSound(r, q, x)
  <1>1. \A p, q : Plan!LineClear(p, q)' <=> Plan!LineClear(p, q)
    BY DEF Plan!LineClear
  <1>2. \A p, q : Plan!ArcClear(p, q)' <=> Plan!ArcClear(p, q)
    BY DEF Plan!ArcClear
  <1>3. \A p : Plan!Flat(p)' <=> Plan!Flat(p)
    BY DEF Plan!Flat
  <1> QED BY <1>1, <1>2, <1>3 DEF PositionSound

LEMMA PlanStep == PlanInv /\ [FieldNext]_fieldVars => PlanInv'
  <1> SUFFICES ASSUME PlanInv, [FieldNext]_fieldVars PROVE PlanInv'
    OBVIOUS
  <1>1. UNCHANGED layer
    BY DEF FieldNext, fieldVars
  <1>2. CASE UNCHANGED plan
    <2>1. UNCHANGED <<world, stage, results, route, engagements, shots>>
      BY <1>2 DEF plan
    <2>2. WorldTyped' <=> WorldTyped
      BY <2>1 DEF WorldTyped
    <2>3. ASSUME stage' = "planned"
          PROVE  \A r \in DOMAIN Path : \A e \in Plan!Range(results'[r]) : PositionSound(r, e.at, e.position)'
      BY <2>1, <2>3, PositionStays DEF PlanInv
    <2> QED BY <1>1, <2>1, <2>2, <2>3 DEF PlanInv
  <1>3. CASE layer = "plan" /\ Plan!PlanNext
    <2>1. CASE Plan!PlanRoutes
      <3>1. UNCHANGED <<world, route, engagements, shots>> /\ WorldTyped /\ engagements \in Seq(Engaged)
        BY <1>3, <2>1 DEF Plan!PlanRoutes, PlanInv
      <3>2. WorldTyped'
        BY <3>1 DEF WorldTyped
      <3>3. CASE stage' = "nothing"
        BY <1>1, <1>3, <3>1, <3>2, <3>3 DEF PlanInv
      <3>4. CASE stage' # "nothing"
        <4>1. stage' = "planned" /\ results' = [r \in DOMAIN Path |-> Plan!PlanRoute(r)]
          BY <2>1, <3>4 DEF Plan!PlanRoutes
        <4>2. results' \in [DOMAIN Path -> Seq(Entry)]
          BY <3>1, <4>1, PlanRouteSound
        <4>3. \A r \in DOMAIN Path : \A e \in Plan!Range(results'[r]) : PositionSound(r, e.at, e.position)'
          BY <3>1, <4>1, PlanRouteSound, PositionStays
        <4> QED BY <1>1, <1>3, <3>1, <3>2, <4>1, <4>2, <4>3 DEF PlanInv
      <3> QED BY <3>3, <3>4
    <2>2. CASE Plan!Recommend
      <3>1. UNCHANGED <<world, results, engagements>> /\ stage = "planned" /\ stage' = "recommended"
        BY <2>2 DEF Plan!Recommend
      <3>2. route' \in DOMAIN Path
        BY <2>2, PlanAssumption DEF Plan!Recommend, Plan!Recommended
      <3>3. WorldTyped' <=> WorldTyped
        BY <3>1 DEF WorldTyped
      <3> QED BY <1>1, <1>3, <3>1, <3>2, <3>3 DEF PlanInv
    <2>3. CASE Plan!BuildEngagements
      <3> DEFINE order == Plan!EngageOrder(results[route])
      <3>1. UNCHANGED world /\ stage = "recommended" /\ stage' = "built"
            /\ engagements' = [i \in DOMAIN order |-> Plan!Engagement(order[i], i = 1)]
        BY <2>3 DEF Plan!BuildEngagements
      <3>2. results[route] \in Seq(Entry)
        BY <1>3, <3>1 DEF PlanInv
      <3>3. order \in Seq(Entry) /\ \A n \in DOMAIN order : order[n].position \in Position
        BY <3>2, EngageOrderTyped
      <3> HIDE DEF order
      <3>4. Len(order) \in Nat /\ DOMAIN order = 1 .. Len(order) /\ \A n \in DOMAIN order : order[n] \in Entry
        BY <3>3
      <3>5. \A n \in DOMAIN order : Plan!Engagement(order[n], n = 1) \in Engaged
        BY <3>3, <3>4, EngagementTyped
      <3>6. engagements' \in Seq(Engaged)
        BY <3>1, <3>4, <3>5
      <3>7. WorldTyped' <=> WorldTyped
        BY <3>1 DEF WorldTyped
      <3> QED BY <1>1, <1>3, <3>1, <3>6, <3>7 DEF PlanInv
    <2>4. CASE Plan!SyncPlan \/ Plan!VerifyPlan
      <3>1. UNCHANGED <<world, engagements>> /\ stage' \in {"synced", "written"}
        BY <2>4 DEF Plan!SyncPlan, Plan!VerifyPlan
      <3>2. WorldTyped' <=> WorldTyped
        BY <3>1 DEF WorldTyped
      <3> QED BY <1>1, <1>3, <3>1, <3>2 DEF PlanInv
    <2>5. CASE Plan!Launch
      <3>1. UNCHANGED <<world, engagements>> /\ engagements \in Seq(Engaged)
            /\ stage' \in {"launched", "refused"}
        BY <1>3, <2>5 DEF Plan!Launch, PlanInv
      <3>2. stage' = "launched" => \/ shots' = Plan!Default
                                   \/ shots' = <<Plan!FirstShot(Plan!StaticOf(engagements)), Plan!LastShot(Plan!FinalOf(engagements))>>
        BY <2>5 DEF Plan!Launch
      <3>3. stage' = "launched" => ShotsSound(shots')
        BY <3>1, <3>2, DefaultSound, LaunchSound
      <3>4. ShotsSound(shots)' <=> ShotsSound(shots')
        BY DEF ShotsSound
      <3>5. WorldTyped' <=> WorldTyped
        BY <3>1 DEF WorldTyped
      <3> QED BY <1>1, <1>3, <3>1, <3>3, <3>4, <3>5 DEF PlanInv
    <2> QED BY <1>3, <2>1, <2>2, <2>3, <2>4, <2>5 DEF Plan!PlanNext
  <1> QED BY <1>2, <1>3 DEF FieldNext, fieldVars, missions

\* In build_mission_plan.py and the launch file, for any maps, routes and ranges: each target has the
\* best kind of firing position it can have, and of the two shots the turret is given the first is not
\* at the final enemy, the second is, and no fallback but the last resort is nearer to the target.
THEOREM PlanStaysSound == FieldSpec => []PlanSound
  BY PlanInit, PlanStep, PlanInvSound, PTL DEF FieldSpec
=============================================================================
