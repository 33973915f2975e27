---------------------------- MODULE Routes_proofs ----------------------------
(***************************************************************************)
(* Theorems of Routes: what its parts keep for any map, any distances and  *)
(* any bounds.  No step of a part changes what another part is about, so   *)
(* an invariant of a part is one of the whole.                             *)
(***************************************************************************)
EXTENDS Routes, FiniteSetTheorems, SequenceTheorems, TLAPS

-----------------------------------------------------------------------------
(* The lookahead.  FollowInv says what the timer knows between two of its reads, by how many of *)
(* its publications lie between it and the last step of a commit.                               *)

Steps == {"rest", "floor", "store", "raise"}

FollowTyped ==
    /\ route \in [version : Nat \ {0}, length : Nat \ {0}] /\ index \in Nat /\ base \in Nat
    /\ timer \in [step : Steps, found : Nat, point : Nat] /\ target \in [route : Nat, at : Nat]
    /\ anew \in 0 .. 2

\* What is published or about to be is of the route that is there, ...
OfThisRoute ==
    /\ anew <= 1 /\ timer.step # "rest" => timer.point = route.version /\ timer.found < route.length
    /\ anew = 0 => target.at < route.length

\* ... and the progress that is stored is the last publication's, or what the next will be.
Stored ==
    /\ anew <= 1 /\ timer.step = "raise" => index = timer.found
    /\ anew = 0 /\ timer.step # "raise" => index = target.at
    /\ anew = 0 /\ timer.step \in {"store", "raise"} => timer.found >= target.at

FollowInv == FollowTyped /\ OfThisRoute /\ Stored

LEMMA FollowStarts == Follow!FollowInit => FollowInv
  <1> SUFFICES ASSUME Follow!FollowInit PROVE FollowInv
    OBVIOUS
  <1>1. route \in [version : Nat \ {0}, length : Nat \ {0}]
    <2>1. route \in [version : {1}, length : Lengths]
      BY DEF Follow!FollowInit
    <2>2. route = [version |-> route.version, length |-> route.length]
          /\ route.version = 1 /\ route.length \in Lengths
      BY <2>1
    <2>3. route.length \in Nat \ {0} /\ route.version \in Nat \ {0}
      BY <2>2, FollowAssumption
    <2> QED BY <2>2, <2>3
  <1>2. timer.step = "rest" /\ timer \in [step : Steps, found : Nat, point : Nat]
    BY DEF Follow!FollowInit, Follow!Rest, Steps
  <1>3. index = 0 /\ base = 0 /\ anew = 0 /\ target = [route |-> 0, at |-> 0]
    BY DEF Follow!FollowInit, Follow!NoTarget
  <1> QED BY <1>1, <1>2, <1>3 DEF FollowInv, FollowTyped, OfThisRoute, Stored

LEMMA FollowSteps == FollowInv /\ Follow!FollowStep => FollowInv' /\ Follow!GoesOn
  <1> SUFFICES ASSUME FollowInv, Follow!FollowStep PROVE FollowInv' /\ Follow!GoesOn
    OBVIOUS
  <1> USE DEF FollowInv, FollowTyped, Steps
  <1>0. UNCHANGED target => Follow!GoesOn
    BY DEF Follow!GoesOn
  <1>1. CASE Follow!Project
    <2>1. PICK i \in 0 .. route.length - 1 : timer' = [step |-> "floor", found |-> i, point |-> route.version]
      BY <1>1 DEF Follow!Project
    <2>2. i \in Nat /\ i < route.length
      BY <2>1
    <2>3. timer'.step = "floor" /\ timer'.found = i /\ timer'.point = route.version
      BY <2>1
    <2>4. FollowTyped'
      BY <1>1, <2>1, <2>2 DEF Follow!Project
    <2>5. (OfThisRoute /\ Stored)'
      BY <1>1, <2>2, <2>3 DEF Follow!Project, OfThisRoute, Stored
    <2> QED BY <1>0, <1>1, <2>4, <2>5 DEF Follow!Project
  <1>2. CASE Follow!HoldIndex
    <2>1. Follow!Floor \in Nat /\ Follow!Floor < route.length /\ (index < route.length => Follow!Floor >= index)
      BY DEF Follow!Floor, Follow!Larger, Follow!Smaller
    <2>2. timer.step = "floor" /\ UNCHANGED <<route, index, base, worker, target, anew>>
      BY <1>2 DEF Follow!HoldIndex
    <2>3. /\ timer' \in [step : {"store"}, found : Nat, point : Nat]
          /\ timer'.found >= Follow!Floor
          /\ \/ timer'.found = timer.found /\ timer'.point = timer.point
             \/ timer'.found = Follow!Floor /\ timer'.point = route.version
      <3>1. CASE timer.found >= Follow!Floor
        BY <1>2, <2>1, <3>1 DEF Follow!HoldIndex
      <3>2. CASE ~(timer.found >= Follow!Floor)
        BY <1>2, <2>1, <3>2 DEF Follow!HoldIndex
      <3> QED BY <3>1, <3>2
    <2>4. FollowTyped'
      BY <2>2, <2>3
    <2>5. OfThisRoute'
      BY <2>1, <2>2, <2>3 DEF OfThisRoute
    <2>6. Stored'
      BY <2>1, <2>2, <2>3 DEF OfThisRoute, Stored
    <2> QED BY <1>0, <2>2, <2>4, <2>5, <2>6
  <1>3. CASE Follow!StoreIndex
    <2>1. timer' = [timer EXCEPT !.step = "raise"] /\ index' = timer.found /\ timer.step = "store"
          /\ UNCHANGED <<route, base, worker, target, anew>>
      BY <1>3 DEF Follow!StoreIndex
    <2>2. timer'.step = "raise" /\ timer'.found = timer.found /\ timer'.point = timer.point
      BY <2>1
    <2>3. FollowTyped'
      BY <2>1
    <2> QED BY <1>0, <2>1, <2>2, <2>3 DEF OfThisRoute, Stored
  <1>4. CASE Follow!RaiseFloor
    <2>1. /\ timer.step = "raise" /\ base' = Follow!Larger(base, index)
          /\ target' = [route |-> timer.point, at |-> timer.found]
          /\ timer' = Follow!Rest /\ anew' = Follow!Larger(anew - 1, 0)
          /\ UNCHANGED <<route, index, worker>>
      BY <1>4 DEF Follow!RaiseFloor
    <2>2. target'.route = timer.point /\ target'.at = timer.found /\ timer'.step = "rest"
      BY <2>1 DEF Follow!Rest
    <2>3. anew' \in 0 .. 2 /\ (anew' = 0 => anew <= 1)
      BY <2>1 DEF Follow!Larger
    <2>4. FollowTyped'
      BY <2>1, <2>3 DEF Follow!Rest, Follow!Larger
    <2>5. (OfThisRoute /\ Stored)'
      BY <2>1, <2>2, <2>3 DEF OfThisRoute, Stored
    <2>6. Follow!GoesOn
      BY <2>1, <2>2 DEF Follow!GoesOn, Stored
    <2> QED BY <2>4, <2>5, <2>6
  <1>5. CASE Follow!StoreRoute \/ Follow!ResetIndex
    <2>1. anew' = 2 /\ UNCHANGED <<base, timer, target>>
      BY <1>5 DEF Follow!StoreRoute, Follow!ResetIndex
    <2>2. route' \in [version : Nat \ {0}, length : Nat \ {0}] /\ index' \in Nat
      <3>1. CASE Follow!StoreRoute
        <4>1. PICK n \in Lengths : route' = [version |-> route.version + 1, length |-> n]
          BY <3>1 DEF Follow!StoreRoute
        <4>2. n \in Nat \ {0} /\ route.version + 1 \in Nat \ {0}
          BY <4>1, FollowAssumption
        <4> QED BY <3>1, <4>1, <4>2 DEF Follow!StoreRoute
      <3>2. CASE Follow!ResetIndex
        BY <3>2 DEF Follow!ResetIndex
      <3> QED BY <1>5, <3>1, <3>2
    <2> QED BY <1>0, <2>1, <2>2 DEF OfThisRoute, Stored
  <1>6. CASE Follow!ResetFloor
    BY <1>0, <1>6 DEF Follow!ResetFloor, OfThisRoute, Stored
  <1> QED BY <1>1, <1>2, <1>3, <1>4, <1>5, <1>6 DEF Follow!FollowStep

LEMMA FollowRests == FollowInv /\ UNCHANGED <<ofFollow, route, index>> => FollowInv' /\ Follow!GoesOn
  BY DEF ofFollow, FollowInv, FollowTyped, OfThisRoute, Stored, Follow!GoesOn

\* A behaviour runs one part from the start.
LEMMA PartStays == [RoutesNext]_routesVars => layer' = layer
  BY DEF RoutesNext, SearchRuns, BlocksRun, BlocksRest, LegsRun, FollowRuns, FieldRuns, ChoiceRuns, ChoiceRest,
         routesVars

\* While a route stays, the lookahead goes on along it: only a commit between two of the timer's
\* reads may take it back, and only in the publication it disturbs and the next.
THEOREM LookaheadGoesOn == RoutesSpec => NoStepBack
  <1> DEFINE Inv == layer = "follow" => FollowInv
             Goes == layer = "follow" => Follow!GoesOn
  <1>1. RoutesInit => Inv
    BY FollowStarts DEF RoutesInit, PlansInit
  <1>2. Inv /\ [RoutesNext]_routesVars => Inv' /\ Goes
    <2> SUFFICES ASSUME layer = "follow", FollowInv, [RoutesNext]_routesVars PROVE FollowInv' /\ Follow!GoesOn
      BY PartStays
    <2>1. Follow!FollowStep \/ UNCHANGED <<ofFollow, route, index>>
      BY DEF RoutesNext, SearchRuns, BlocksRun, LegsRun, FollowRuns, FieldRuns, ChoiceRuns, ChoiceRest,
             routesVars, plans, shared
    <2> QED BY <2>1, FollowSteps, FollowRests
  <1> HIDE DEF Inv, Goes
  <1>3. RoutesSpec => [][Goes]_routesVars
    BY <1>1, <1>2, PTL DEF RoutesSpec
  <1> QED BY <1>3 DEF NoStepBack, Goes

-----------------------------------------------------------------------------
(* Finite sets in an order.                                                *)

LEMMA Induction ==
  ASSUME NEW T \in SUBSET Nat, 0 \in T, \A n \in T : n + 1 \in T
  PROVE  T = Nat
  <1> SUFFICES ASSUME NEW n \in Nat, n \notin T PROVE FALSE
    OBVIOUS
  <1> DEFINE D == {m \in 0 .. n : m \notin T}
             f == [m \in D |-> m - 1]
  <1>1. \A m \in D : m \in Nat \ {0} /\ m - 1 \in D \ {n}
    <2> SUFFICES ASSUME NEW m \in D PROVE m \in Nat \ {0} /\ m - 1 \in D \ {n}
      OBVIOUS
    <2>1. m \in Nat /\ m # 0 /\ m <= n
      OBVIOUS
    <2>2. m - 1 \in Nat /\ (m - 1) + 1 = m
      BY <2>1
    <2>3. m - 1 \notin T
      BY <2>2
    <2> QED BY <2>1, <2>2, <2>3
  <1>2. n \in D
    OBVIOUS
  <1>3. IsFiniteSet(D)
    <2>1. IsFiniteSet(0 .. n) /\ D \in SUBSET (0 .. n)
      BY FS_Interval
    <2> HIDE DEF D
    <2> QED BY <2>1, FS_Subset
  <1>4. IsFiniteSet(D \ {n}) /\ Cardinality(D \ {n}) < Cardinality(D)
    <2> HIDE DEF D
    <2>1. IsFiniteSet(D \ {n}) /\ Cardinality(D \ {n}) = Cardinality(D) - 1
      BY <1>2, <1>3, FS_RemoveElement, Zenon
    <2>2. Cardinality(D) \in Nat
      BY <1>3, FS_CardinalityType
    <2> QED BY <2>1, <2>2
  <1>5. f \in [D -> D \ {n}]
    BY <1>1
  <1>6. \E k, m \in D : k # m /\ f[k] = f[m]
    <2> HIDE DEF f, D
    <2> QED BY <1>3, <1>4, <1>5, FS_PigeonHole
  <1> QED BY <1>1, <1>6

\* A finite set that is ordered has a last element.
LEMMA HasLast ==
  ASSUME NEW S, IsFiniteSet(S), NEW R, \A p, q \in S : p # q => <<p, q>> \in R \/ <<q, p>> \in R,
         \A p, q, r \in S : <<p, q>> \in R /\ <<q, r>> \in R => <<p, r>> \in R
  PROVE  \A T \in SUBSET S : T # {} => \E p \in T : \A q \in T \ {p} : <<q, p>> \in R
  <1> DEFINE Has(T) == T # {} => \E p \in T : \A q \in T \ {p} : <<q, p>> \in R
             N == {n \in Nat : \A T \in SUBSET S : Cardinality(T) <= n => Has(T)}
  <1>1. \A T \in SUBSET S : IsFiniteSet(T) /\ Cardinality(T) \in Nat /\ (Cardinality(T) = 0 <=> T = {})
    BY FS_Subset, FS_CardinalityType, FS_EmptySet
  <1>2. 0 \in N
    BY <1>1
  <1>3. ASSUME NEW n \in N PROVE n + 1 \in N
    <2> SUFFICES ASSUME NEW T \in SUBSET S, Cardinality(T) <= n + 1, T # {}
                 PROVE  \E p \in T : \A q \in T \ {p} : <<q, p>> \in R
      OBVIOUS
    <2>1. PICK e : e \in T
      OBVIOUS
    <2> DEFINE U == T \ {e}
    <2>2. U \in SUBSET S /\ Cardinality(U) <= n
      <3>1. Cardinality(U) = Cardinality(T) - 1 /\ n \in Nat
        BY <1>1, <2>1, FS_RemoveElement
      <3> QED BY <1>1, <3>1
    <2>3. Has(U)
      BY <2>2
    <2>4. CASE U = {}
      BY <2>1, <2>4
    <2>5. CASE U # {}
      <3>1. PICK p \in U : \A q \in U \ {p} : <<q, p>> \in R
        BY <2>3, <2>5
      <3>2. CASE <<e, p>> \in R
        BY <2>1, <3>1, <3>2
      <3>3. CASE <<p, e>> \in R
        <4>1. \A q \in T \ {e} : <<q, e>> \in R
          BY <2>1, <3>1, <3>3
        <4> QED BY <2>1, <4>1
      <3> QED BY <2>1, <3>1, <3>2, <3>3
    <2> QED BY <2>4, <2>5
  <1>4. N = Nat
    <2>1. N \in SUBSET Nat
      OBVIOUS
    <2> HIDE DEF N
    <2> QED BY <1>2, <1>3, <2>1, Induction
  <1>5. Cardinality(S) \in N /\ \A T \in SUBSET S : Cardinality(T) <= Cardinality(S)
    BY <1>4, FS_CardinalityType, FS_Subset
  <1> QED BY <1>5

-----------------------------------------------------------------------------
(* The potential field.                                                    *)

\* The force is away exactly as long as the count of free ticks runs.
FieldInv == Field!FieldTypeOK /\ quiet = cleared

LEMMA CountNumbers ==
  /\ \A n \in 0 .. BlockedTicks : Field!Least(n + 1, BlockedTicks) \in 0 .. BlockedTicks
  /\ \A n \in 0 .. ClearTicks : Field!Least(n + 1, ClearTicks) \in 0 .. ClearTicks
  /\ 0 \in 0 .. BlockedTicks /\ 0 \in 0 .. ClearTicks
  BY FieldAssumption DEF Field!Least

LEMMA FieldStarts == Field!FieldInit => FieldInv
  <1> SUFFICES ASSUME Field!FieldInit PROVE FieldInv
    OBVIOUS
  <1>1. x \in 0 .. Length /\ blocked \in 0 .. BlockedTicks /\ cleared \in 0 .. ClearTicks /\ quiet = cleared
    BY CountNumbers, FieldAssumption DEF Field!FieldInit
  <1>2. {raw, discovered} \subseteq SUBSET Points /\ {boxes, ground} \subseteq SUBSET Boxes
    BY DEF Field!FieldInit
  <1>3. {active, pivot} \subseteq BOOLEAN /\ warning \in {"clear", "watch", "caution", "danger"}
    BY DEF Field!FieldInit
  <1> QED BY <1>1, <1>2, <1>3 DEF FieldInv, Field!FieldTypeOK

LEMMA AdviceTyped ==
  ASSUME NEW S, NEW askew \in BOOLEAN, active' \in BOOLEAN, Field!Advise(S, askew)
  PROVE  warning' \in {"clear", "watch", "caution", "danger"} /\ pivot' \in BOOLEAN
  BY DEF Field!Advise, Field!ByDistance, Field!Pivots

LEMMA TickKeeps ==
  ASSUME FieldInv, NEW S, NEW strong \in BOOLEAN, NEW askew \in BOOLEAN, Field!Tick(S, strong, askew)
  PROVE  FieldInv' /\ (active /\ ~active' => quiet' = ClearTicks)
  <1> DEFINE b == Field!NearOf(S) \/ strong
  <1>1. /\ Field!Count(b)
        /\ active' = IF active THEN cleared' < ClearTicks ELSE blocked' >= BlockedTicks
        /\ quiet' = IF b THEN 0 ELSE Field!Least(quiet + 1, ClearTicks)
        /\ Field!Advise(S, askew)
        /\ UNCHANGED <<x, raw, boxes, discovered, ground>>
    BY DEF Field!Tick, Field!sources
  <1> HIDE DEF b
  <1>2. quiet' = cleared' /\ cleared' \in 0 .. ClearTicks /\ blocked' \in 0 .. BlockedTicks
    BY <1>1, CountNumbers DEF FieldInv, Field!FieldTypeOK, Field!Count
  <1>3. active' \in BOOLEAN /\ (active /\ ~active' => ~(cleared' < ClearTicks))
    <2>1. CASE active
      <3>1. active' = (cleared' < ClearTicks)
        BY <1>1, <2>1
      <3>2. (cleared' < ClearTicks) \in BOOLEAN
        OBVIOUS
      <3> QED BY <3>1, <3>2
    <2>2. CASE ~active
      BY <1>1, <2>2
    <2> QED BY <2>1, <2>2
  <1>4. warning' \in {"clear", "watch", "caution", "danger"} /\ pivot' \in BOOLEAN
    BY <1>1, <1>3, AdviceTyped
  <1>5. FieldInv'
    BY <1>1, <1>2, <1>3, <1>4 DEF FieldInv, Field!FieldTypeOK
  <1>6. active /\ ~active' => quiet' = ClearTicks
    <2>1. ClearTicks \in Nat
      BY FieldAssumption
    <2> QED BY <1>2, <1>3, <2>1
  <1> QED BY <1>5, <1>6

LEMMA FieldSteps == FieldInv /\ Field!FieldNext => FieldInv' /\ (active /\ ~active' => quiet' = ClearTicks)
  <1> SUFFICES ASSUME FieldInv, Field!FieldNext PROVE FieldInv' /\ (active /\ ~active' => quiet' = ClearTicks)
    OBVIOUS
  <1>1. CASE Field!PlayerMoves
    BY <1>1, FieldAssumption DEF Field!PlayerMoves, Field!sources, Field!switch, Field!status, FieldInv,
           Field!FieldTypeOK
  <1>2. CASE Field!LidarCloud \/ Field!LidarClusters \/ Field!Discovered \/ Field!GroundTruth
    BY <1>2 DEF Field!LidarCloud, Field!LidarClusters, Field!Discovered, Field!GroundTruth,
                Field!switch, Field!status, FieldInv, Field!FieldTypeOK
  <1>3. CASE Field!Timer
    BY <1>3, TickKeeps DEF Field!Timer, Field!Strengths
  <1> QED BY <1>1, <1>2, <1>3 DEF Field!FieldNext

Places2 == Int \X Int

LEMMA Distances == ASSUME x \in Int, NEW p \in Places2 PROVE Field!Squared(p) \in Int
  BY DEF Places2, Field!Squared, Field!Ahead, Field!Aside, Field!Abs

\* Points are in a total order.
LEMMA OrderOfPoints ==
  ASSUME x \in Int
  PROVE  /\ \A p, q \in Places2 : Field!Before(p, q) \/ Field!Before(q, p)
         /\ \A p, q \in Places2 : Field!Before(p, q) /\ Field!Before(q, p) => p = q
         /\ \A p, q, r \in Places2 : Field!Before(p, q) /\ Field!Before(q, r) => Field!Before(p, r)
  <1>1. \A p \in Places2 : Field!Squared(p) \in Int /\ p[1] \in Int /\ p[2] \in Int /\ p = <<p[1], p[2]>>
    BY Distances DEF Places2
  <1> QED BY <1>1 DEF Field!Before

LEMMA HasFirst ==
  ASSUME x \in Int, NEW S \in SUBSET Places2, IsFiniteSet(S), S # {}
  PROVE  \E m \in S : \A q \in S : Field!Before(m, q)
  <1> DEFINE R == {e \in S \X S : Field!Before(e[2], e[1])}
  <1>1. \A p, q \in S : <<p, q>> \in R <=> Field!Before(q, p)
    OBVIOUS
  <1> HIDE DEF R
  <1>2. \A p \in S : p \in Places2
    OBVIOUS
  <1>3. /\ \A p, q \in S : p # q => <<p, q>> \in R \/ <<q, p>> \in R
        /\ \A p, q, r \in S : <<p, q>> \in R /\ <<q, r>> \in R => <<p, r>> \in R
    BY <1>1, <1>2, OrderOfPoints
  <1>4. PICK m \in S : \A q \in S \ {m} : <<q, m>> \in R
    <2>1. \A T \in SUBSET S : T # {} => \E p \in T : \A q \in T \ {p} : <<q, p>> \in R
      BY <1>3, HasLast
    <2> QED BY <2>1
  <1>5. \A q \in S : Field!Before(m, q)
    BY <1>1, <1>2, <1>4, OrderOfPoints
  <1> QED BY <1>5

LEMMA FieldCardinality == \A S : Field!Cardinality(S) = Cardinality(S)
  BY DEF Field!Cardinality, Cardinality, Field!IsFiniteSet, IsFiniteSet

\* What is left are points of the set that are on the way, the nearest of them in any case.
LEMMA FilterKeepsFirst ==
  ASSUME x \in Int, NEW S \in SUBSET Places2, NEW limit \in Nat \ {0}
  PROVE  /\ Field!Filter(S, limit) \subseteq {p \in S : Field!Eligible(p)}
         /\ \A m \in S : Field!Eligible(m) /\ (\A q \in S : Field!Eligible(q) => Field!Before(m, q))
                         => m \in Field!Filter(S, limit)
  <1> DEFINE near  == {p \in S : Field!Eligible(p)}
             first == {p \in near : \A q \in near : Field!Voxel(q) = Field!Voxel(p) => Field!Before(p, q)}
  <1>1. Field!Filter(S, limit) = {p \in first : Cardinality({q \in first : Field!Before(q, p)}) <= limit}
    BY FieldCardinality DEF Field!Filter
  <1>2. ASSUME NEW m \in S, Field!Eligible(m), \A q \in S : Field!Eligible(q) => Field!Before(m, q)
        PROVE  m \in Field!Filter(S, limit)
    <2>1. m \in first
      BY <1>2
    <2>2. \A q \in first : Field!Before(q, m) <=> q = m
      <3>1. \A q \in first : q \in Places2 /\ Field!Before(m, q)
        BY <1>2
      <3> QED BY <2>1, <3>1, OrderOfPoints
    <2>3. {q \in first : Field!Before(q, m)} = {m}
      BY <2>1, <2>2
    <2>4. Cardinality({m}) <= limit
      BY FS_Singleton
    <2> QED BY <1>1, <2>1, <2>3, <2>4
  <1> QED BY <1>1, <1>2

LEMMA SourcesArePoints ==
  ASSUME FieldInv
  PROVE  /\ x \in Int
         /\ Field!ClusterPoints \in SUBSET Places2 /\ IsFiniteSet(Field!ClusterPoints)
         /\ raw \in SUBSET Places2 /\ IsFiniteSet(raw)
         /\ discovered \in SUBSET Places2 /\ IsFiniteSet(discovered)
  <1>1. x \in Int /\ raw \in SUBSET Points /\ discovered \in SUBSET Points /\ boxes \in SUBSET Boxes
    BY FieldAssumption DEF FieldInv, Field!FieldTypeOK
  <1>2. raw \in SUBSET Places2 /\ discovered \in SUBSET Places2
    BY <1>1, FieldAssumption DEF Places2
  <1>3. IsFiniteSet(raw) /\ IsFiniteSet(discovered) /\ IsFiniteSet(boxes)
    BY <1>1, FieldAssumption, FS_Subset
  <1>4. \A b \in boxes : Field!Closest(b) \in Places2
    <2> SUFFICES ASSUME NEW b \in boxes PROVE Field!Closest(b) \in Places2
      OBVIOUS
    <2>1. b \in [lo : Int \X Int, hi : Int \X Int]
      BY <1>1, FieldAssumption
    <2>2. b.lo[1] \in Int /\ b.lo[2] \in Int /\ b.hi[1] \in Int /\ b.hi[2] \in Int
      BY <2>1
    <2> QED BY <1>1, <2>2 DEF Field!Closest, Field!Clamped, Places2
  <1>5. IsFiniteSet(Field!ClusterPoints)
    <2> DEFINE f == [b \in boxes |-> Field!Closest(b)]
    <2>1. f \in Surjection(boxes, Field!ClusterPoints)
      BY DEF Field!ClusterPoints, Surjection
    <2> HIDE DEF f
    <2> QED BY <1>3, <2>1, FS_Surjection
  <1>6. Field!ClusterPoints \in SUBSET Places2
    BY <1>4 DEF Field!ClusterPoints
  <1> QED BY <1>1, <1>2, <1>3, <1>5, <1>6

\* The first of everything that is on the way is among what is advised on.
LEMMA ChosenHasFirst ==
  ASSUME FieldInv, NEW p \in Field!Base \cup discovered, Field!Eligible(p)
  PROVE  \E m \in Field!Chosen : Field!Before(m, p) /\ \A q \in Field!Chosen : Field!Before(m, q)
  <1> DEFINE all  == Field!Base \cup discovered
             near == {q \in all : Field!Eligible(q)}
             b    == Field!Filter(Field!Base, MaxPoints)
             d    == Field!Filter(discovered, 20)
  <1>0. x \in Int /\ MaxPoints \in Nat \ {0} /\ 20 \in Nat \ {0}
    BY SourcesArePoints, FieldAssumption
  <1>1. Field!Base \in SUBSET Places2 /\ IsFiniteSet(Field!Base)
    BY SourcesArePoints DEF Field!Base
  <1>2. discovered \in SUBSET Places2 /\ all \in SUBSET Places2 /\ IsFiniteSet(all)
    BY <1>1, SourcesArePoints, FS_Union
  <1>3. near \in SUBSET Places2 /\ near \in SUBSET all /\ IsFiniteSet(near) /\ p \in near
    BY <1>2, FS_Subset
  <1>4. Field!Chosen = Field!Filter(b \cup d, MaxPoints)
    BY DEF Field!Chosen, Field!Base
  <1> HIDE DEF b, d, near, all
  <1>5. PICK m \in near : \A q \in near : Field!Before(m, q)
    BY <1>0, <1>3, HasFirst
  <1>6. b \subseteq {q \in Field!Base : Field!Eligible(q)} /\ (m \in Field!Base => m \in b)
    BY <1>0, <1>1, <1>5, FilterKeepsFirst DEF b, near, all
  <1>7. d \subseteq {q \in discovered : Field!Eligible(q)} /\ (m \in discovered => m \in d)
    BY <1>0, <1>2, <1>5, FilterKeepsFirst DEF d, near, all
  <1>8. m \in b \cup d /\ b \cup d \subseteq near
    BY <1>5, <1>6, <1>7 DEF near, all
  <1>9. Field!Eligible(m) /\ b \cup d \in SUBSET Places2
    BY <1>3, <1>5, <1>8 DEF near
  <1>10. Field!Chosen \subseteq b \cup d /\ m \in Field!Chosen
    BY <1>0, <1>4, <1>5, <1>8, <1>9, FilterKeepsFirst
  <1> QED BY <1>3, <1>5, <1>8, <1>10

LEMMA AdviceIsGiven == ASSUME FieldInv PROVE Field!AdvisedNow
  <1> SUFFICES ASSUME Field!Timer, NEW p \in Field!Base \cup discovered, Field!Eligible(p), Field!Within(p, Danger)
               PROVE  warning' \in {"danger", "caution"}
    BY DEF Field!AdvisedNow
  <1>1. PICK m \in Field!Chosen : Field!Before(m, p) /\ \A q \in Field!Chosen : Field!Before(m, q)
    BY ChosenHasFirst
  <1> DEFINE n == Field!Nearest(Field!Chosen)
  <1>2. n \in Field!Chosen /\ Field!Before(n, m)
    BY <1>1 DEF Field!Nearest
  <1>3. Field!Within(n, Danger)
    <2>1. Field!Chosen \in SUBSET Places2 /\ p \in Places2 /\ x \in Int
      <3>1. Field!Base \in SUBSET Places2 /\ discovered \in SUBSET Places2 /\ x \in Int
        BY SourcesArePoints DEF Field!Base
      <3>2. MaxPoints \in Nat \ {0} /\ 20 \in Nat \ {0}
        BY FieldAssumption
      <3>3. /\ Field!Filter(Field!Base, MaxPoints) \in SUBSET Places2
            /\ Field!Filter(discovered, 20) \in SUBSET Places2
        BY <3>1, <3>2, FilterKeepsFirst
      <3>4. Field!Filter(Field!Filter(Field!Base, MaxPoints) \cup Field!Filter(discovered, 20), MaxPoints) \in SUBSET Places2
        BY <3>1, <3>2, <3>3, FilterKeepsFirst
      <3>5. Field!Chosen = Field!Filter(Field!Filter(Field!Base, MaxPoints) \cup Field!Filter(discovered, 20), MaxPoints)
        BY DEF Field!Chosen, Field!Base
      <3> QED BY <3>1, <3>4, <3>5
    <2>2. Field!Squared(n) \in Int /\ Field!Squared(m) \in Int /\ Field!Squared(p) \in Int
      BY <1>1, <1>2, <2>1, Distances
    <2>3. Field!Squared(n) <= Field!Squared(m) /\ Field!Squared(m) <= Field!Squared(p)
      BY <1>1, <1>2, <2>2 DEF Field!Before
    <2>4. Danger * Danger \in Int /\ Field!Squared(p) <= Danger * Danger
      BY FieldAssumption DEF Field!Within
    <2> HIDE DEF n
    <2> QED BY <2>2, <2>3, <2>4 DEF Field!Within
  <1>4. PICK strong \in BOOLEAN, askew \in BOOLEAN : Field!Tick(Field!Chosen, strong, askew)
    BY DEF Field!Timer, Field!Strengths
  <1>5. Field!Advise(Field!Chosen, askew)
    BY <1>4 DEF Field!Tick
  <1>6. warning' = IF Field!Passes(n) /\ Field!Within(n, Danger) THEN "caution"
                   ELSE IF pivot' THEN "danger" ELSE Field!ByDistance(n)
    BY <1>1, <1>5 DEF Field!Advise
  <1>7. Field!ByDistance(n) = "danger"
    BY <1>3 DEF Field!ByDistance
  <1> QED BY <1>6, <1>7

\* The nearest obstacle on the way is advised on whatever voxels, limits and fallbacks hide, and
\* the force gives way only after a row of ticks with nothing near and no force.
THEOREM AdviceStaysEarned == RoutesSpec => AdviceIsEarned
  <1> DEFINE Advised == layer = "field" => Field!AdvisedNow
             Gives   == active /\ ~active' => quiet' = ClearTicks
  <1>1. RoutesInit => FieldInv
    BY FieldStarts DEF RoutesInit, Beside
  <1>2. FieldInv /\ UNCHANGED ofField => FieldInv' /\ Gives
    BY DEF ofField, FieldInv, Field!FieldTypeOK
  <1>3. [RoutesNext]_routesVars => Field!FieldNext \/ UNCHANGED ofField
    BY DEF RoutesNext, SearchRuns, BlocksRun, BlocksRest, LegsRun, FollowRuns, FieldRuns, ChoiceRuns,
           ChoiceRest,
           routesVars, beside
  <1>4. FieldInv /\ [RoutesNext]_routesVars => FieldInv' /\ Gives /\ Advised
    BY <1>2, <1>3, FieldSteps, AdviceIsGiven
  <1>5. FieldInv => Field!FieldTypeOK
    BY DEF FieldInv
  <1> HIDE DEF Advised, Gives
  <1>6. RoutesSpec => []FieldInv /\ [][Advised]_routesVars /\ [][Gives]_routesVars
    BY <1>1, <1>4, PTL DEF RoutesSpec
  <1>7. [Gives]_routesVars => [active /\ ~active' => quiet' = ClearTicks]_(Field!vars)
    BY DEF Gives, routesVars, beside, ofField, Field!vars, Field!sources, Field!switch, Field!status
  <1>8. RoutesSpec => []Field!FieldTypeOK /\ Field!PassThroughEarned
    BY <1>5, <1>6, <1>7, PTL DEF Field!PassThroughEarned
  <1> QED BY <1>6, <1>8 DEF AdviceIsEarned, Advised

-----------------------------------------------------------------------------
(* The choice of the route.                                                *)

Reports  == [kind : {"none", "bad", "ok"}, of : Nat]
Analysts == [at : {"off", "load", "think", "open", "write", "publish"}, report : Reports]
Seen     == [kind : {"none", "open", "masked", "bad", "ok", "torn", "interim"}, of : Nat]

\* A report under way is about a comparison that was made, and the payload under construction
\* shows what the screen may show.
ChoiceInv ==
    /\ Choice!DecisionTypeOK /\ Choice!ShownIsValidated
    /\ comparison \in Nat /\ thread \in Analysts /\ node \in Analysts
    /\ thread.report.of <= comparison /\ node.report.of <= comparison
    /\ file \in Seen /\ held \in Seen /\ latest \in Seen /\ shown \in Seen /\ built \in Seen
    /\ built.kind \in {"none", "open", "masked"} \/ (built.kind = "ok" /\ ~forced)

LEMMA ChoiceStarts == Choice!DecisionInit => ChoiceInv
  BY DEF Choice!DecisionInit, Choice!Nothing, Choice!Off, ChoiceInv, Choice!DecisionTypeOK,
         Choice!ShownIsValidated,
         Reports, Analysts, Seen

\* What is shown of any report in the files is open, masked, or validated and not forced.
LEMMA DisplayIsValidated ==
  ASSUME ChoiceInv
  PROVE  LET r == Choice!Display(Choice!Chosen)
         IN  r \in Seen /\ (r.kind \in {"open", "masked"} \/ (r.kind = "ok" /\ ~forced))
  <1> DEFINE c == Choice!Chosen
  <1>1. c \in Seen /\ c.kind \in {"open", "ok"}
    BY DEF ChoiceInv, Choice!Chosen, Choice!Saved, Choice!NoChoice, Seen
  <1> HIDE DEF c
  <1>2. [c EXCEPT !.kind = "masked"] \in Seen /\ [c EXCEPT !.kind = "masked"].kind = "masked"
    BY <1>1 DEF Seen
  <1> QED BY <1>1, <1>2 DEF Choice!Display, c

\* The analysis starts, or everything about it stays.
LEMMA AutoRunKeeps ==
  ASSUME ChoiceInv, Choice!AutoRun
  PROVE  /\ thread' \in Analysts /\ thread'.report.of <= comparison
         /\ thread'.at \in {"off", "load", "think", "open", "write"} /\ (running' <=> thread'.at # "off")
  <1>1. CASE Choice!Start
    BY <1>1 DEF Choice!Start, Choice!At, Choice!Nothing, Analysts, Reports, ChoiceInv
  <1>2. CASE UNCHANGED Choice!analyst
    BY <1>2 DEF Choice!analyst, ChoiceInv, Choice!DecisionTypeOK
  <1> QED BY <1>1, <1>2 DEF Choice!AutoRun

LEMMA VerdictKeeps ==
  ASSUME NEW who \in Analysts, NEW next, NEW k \in {"ok", "bad"},
         next = Choice!At("open", [who.report EXCEPT !.kind = k])
  PROVE  next \in Analysts /\ next.at = "open" /\ next.report.of = who.report.of
  BY DEF Choice!At, Analysts, Reports

LEMMA ChoiceSteps == ChoiceInv /\ Choice!DecisionNext => ChoiceInv'
  <1> SUFFICES ASSUME ChoiceInv, Choice!DecisionNext PROVE ChoiceInv'
    OBVIOUS
  <1> USE DEF ChoiceInv, Choice!DecisionTypeOK, Choice!ShownIsValidated
  <1>1. CASE Choice!Compare \/ Choice!Ask \/ Choice!Idle \/ Choice!Stop
    BY <1>1 DEF Choice!Compare, Choice!Ask, Choice!Idle, Choice!Stop, Choice!files, Choice!analyst,
           Choice!screen,
                Analysts, Reports, Seen
  <1>2. CASE Choice!Answer
    <2>1. Choice!Start \/ UNCHANGED Choice!analyst
      BY <1>2 DEF Choice!Answer
    <2>2. CASE Choice!Start
      BY <1>2, <2>2 DEF Choice!Answer, Choice!Start, Choice!At, Choice!Nothing, Choice!files, Choice!screen,
             Analysts, Reports
    <2>3. CASE UNCHANGED Choice!analyst
      BY <1>2, <2>3 DEF Choice!Answer, Choice!analyst, Choice!files, Choice!screen
    <2> QED BY <2>1, <2>2, <2>3
  <1>3. CASE Choice!Load
    <2>1. thread.at = "load" /\ UNCHANGED <<comparison, file, held, latest, node, built, shown, forced>>
      BY <1>3 DEF Choice!Load, Choice!files, Choice!screen
    <2>2. CASE comparison = 0
      <3>1. running' = FALSE /\ thread' = [at |-> "off", report |-> [kind |-> "none", of |-> 0]]
        BY <1>3, <2>2 DEF Choice!Load, Choice!Finish, Choice!Off, Choice!Nothing
      <3> QED BY <2>1, <3>1 DEF Analysts, Reports
    <2>3. CASE comparison # 0
      <3>1. running' = running /\ thread' = [at |-> "think", report |-> [kind |-> "none", of |-> comparison]]
        BY <1>3, <2>3 DEF Choice!Load, Choice!At, Choice!Report
      <3> QED BY <2>1, <3>1 DEF Analysts, Reports
    <2> QED BY <2>2, <2>3
  <1>4. CASE Choice!Think
    <2>1. PICK k \in {"ok", "bad"} : thread' = Choice!At("open", [thread.report EXCEPT !.kind = k])
      BY <1>4 DEF Choice!Think, Choice!Verdict
    <2>2. thread' \in Analysts /\ thread'.at = "open" /\ thread'.report.of = thread.report.of
      BY <2>1, VerdictKeeps
    <2>3. running
      BY <1>4 DEF Choice!Think
    <2> QED BY <1>4, <2>2, <2>3 DEF Choice!Think, Choice!files, Choice!screen
  <1>5. CASE Choice!Open
    BY <1>5 DEF Choice!Open, Choice!At, Choice!screen, Analysts, Reports, Seen
  <1>6. CASE Choice!Write
    BY <1>6 DEF Choice!Write, Choice!Finish, Choice!Off, Choice!Nothing, Choice!Left, Choice!screen, Analysts,
           Reports, Seen
  <1>7. CASE Choice!NodeStart
    BY <1>7 DEF Choice!NodeStart, Choice!At, Choice!Report, Choice!analyst, Choice!screen, Analysts, Reports,
           Seen
  <1>8. CASE Choice!NodeThink
    <2>1. PICK k \in {"ok", "bad"} : node' = Choice!At("open", [node.report EXCEPT !.kind = k])
      BY <1>8 DEF Choice!NodeThink, Choice!Verdict
    <2>2. node' \in Analysts /\ node'.at = "open" /\ node'.report.of = node.report.of
      BY <2>1, VerdictKeeps
    <2> QED BY <1>8, <2>2 DEF Choice!NodeThink, Choice!files, Choice!analyst, Choice!screen
  <1>9. CASE Choice!NodeOpen \/ Choice!NodeWrite \/ Choice!NodePublish \/ Choice!NodeStops
    BY <1>9 DEF Choice!NodeOpen, Choice!NodeWrite, Choice!NodePublish, Choice!NodeStops, Choice!Left,
           Choice!At, Choice!Off,
                Choice!Nothing, Choice!files, Choice!analyst, Choice!screen, Analysts, Reports, Seen
  <1>10. ASSUME UNCHANGED Choice!analyst
         PROVE  UNCHANGED <<attempted, running, thread>>
    BY <1>10 DEF Choice!analyst
  <1>11. CASE Choice!Poll
    <2>1. UNCHANGED <<comparison, file, held, latest, node, built, forced>>
      BY <1>11 DEF Choice!Poll, Choice!files
    <2>2. \/ shown' = Choice!Display(Choice!Chosen) /\ Choice!AutoRun
          \/ UNCHANGED shown /\ (Choice!AutoRun \/ UNCHANGED Choice!analyst)
      BY <1>11 DEF Choice!Poll
    <2>3. CASE shown' = Choice!Display(Choice!Chosen) /\ Choice!AutoRun
      BY <2>1, <2>3, DisplayIsValidated, AutoRunKeeps
    <2>4. CASE UNCHANGED shown /\ Choice!AutoRun
      BY <2>1, <2>4, AutoRunKeeps
    <2>5. CASE UNCHANGED shown /\ UNCHANGED Choice!analyst
      BY <1>10, <2>1, <2>5
    <2> QED BY <2>2, <2>3, <2>4, <2>5
  <1>12. CASE Choice!Build
    BY <1>12, DisplayIsValidated, AutoRunKeeps DEF Choice!Build, Choice!files
  <1>13. CASE Choice!BuildFails
    <2>1. UNCHANGED <<comparison, file, held, latest, node, built, shown, forced>>
      BY <1>13 DEF Choice!BuildFails, Choice!files
    <2>2. CASE Choice!AutoRun
      BY <2>1, <2>2, AutoRunKeeps
    <2>3. CASE UNCHANGED Choice!analyst
      BY <1>10, <2>1, <2>3
    <2> QED BY <1>13, <2>2, <2>3 DEF Choice!BuildFails
  <1>14. CASE Choice!Swap
    BY <1>14 DEF Choice!Swap, Choice!files, Choice!analyst, Choice!Nothing, Seen
  <1> QED BY <1>1, <1>2, <1>3, <1>4, <1>5, <1>6, <1>7, <1>8, <1>9, <1>11, <1>12, <1>13, <1>14 DEF Choice!DecisionNext

\* Whoever writes and publishes, and however the writers mix: the screen marks only a choice that
\* was validated, and never the forced one.
THEOREM ChoiceStaysValidated == RoutesSpec => [](Choice!DecisionTypeOK /\ Choice!ShownIsValidated)
  <1>1. RoutesInit => ChoiceInv
    BY ChoiceStarts DEF RoutesInit, Beside
  <1>2. ChoiceInv /\ UNCHANGED ofChoice => ChoiceInv'
    BY DEF ofChoice, ChoiceInv, Choice!DecisionTypeOK, Choice!ShownIsValidated
  <1>3. [RoutesNext]_routesVars => Choice!DecisionNext \/ UNCHANGED ofChoice
    BY DEF RoutesNext, SearchRuns, BlocksRun, BlocksRest, LegsRun, FollowRuns, FieldRuns, ChoiceRuns,
           ChoiceRest,
           routesVars, beside
  <1>4. ChoiceInv /\ [RoutesNext]_routesVars => ChoiceInv'
    BY <1>2, <1>3, ChoiceSteps
  <1>5. ChoiceInv => Choice!DecisionTypeOK /\ Choice!ShownIsValidated
    BY DEF ChoiceInv
  <1> QED BY <1>1, <1>4, <1>5, PTL DEF RoutesSpec

-----------------------------------------------------------------------------
(* The points a route leads through.                                       *)

\* What counts as behind is what the progress has passed, whoever resets it when.
LegsInv ==
    /\ pos \in Places2 /\ goal \in Places2 /\ {temp, ret} \subseteq BOOLEAN /\ index \in 0 .. Len(Waypoints)
    /\ job \in [on : BOOLEAN, start : Places2, goal : Places2, direct : BOOLEAN]
    /\ behind \subseteq {Waypoints[i] : i \in 1 .. index}
    /\ Legs!LegsServeGoal

LEMMA HasLeast ==
  ASSUME NEW D \in SUBSET Int, IsFiniteSet(D), D # {}
  PROVE  \E n \in D : \A k \in D : n <= k
  <1> DEFINE R == {e \in D \X D : e[2] <= e[1]}
  <1>1. \A p, q \in D : p \in Int /\ (<<p, q>> \in R <=> q <= p)
    OBVIOUS
  <1> HIDE DEF R
  <1>2. /\ \A p, q \in D : p # q => <<p, q>> \in R \/ <<q, p>> \in R
        /\ \A p, q, r \in D : <<p, q>> \in R /\ <<q, r>> \in R => <<p, r>> \in R
    BY <1>1
  <1>3. \A T \in SUBSET D : T # {} => \E p \in T : \A q \in T \ {p} : <<q, p>> \in R
    BY <1>2, HasLast
  <1>4. PICK n \in D : \A q \in D \ {n} : <<q, n>> \in R
    BY <1>3
  <1>5. ASSUME NEW k \in D PROVE n <= k
    <2>1. n \in Int /\ k \in Int
      OBVIOUS
    <2>2. CASE k = n
      BY <2>1, <2>2
    <2>3. CASE k # n
      BY <1>1, <1>4, <2>3
    <2> QED BY <2>2, <2>3
  <1> QED BY <1>5

\* The progress goes on from where it was.
LEMMA ProgressGoesOn ==
  ASSUME index \in 0 .. Len(Waypoints), NEW start
  PROVE  Legs!Progress(start) \in index .. Len(Waypoints)
  <1> DEFINE D == {n \in index .. Len(Waypoints) : n < Len(Waypoints) => ~Legs!Ruled(start, n + 1)}
             Fits(n) == (\A i \in index + 1 .. n : Legs!Ruled(start, i))
                        /\ (n < Len(Waypoints) => ~Legs!Ruled(start, n + 1))
  <1>0. Len(Waypoints) \in Nat /\ index \in Int
    BY LegsAssumption, LenProperties
  <1>1. Len(Waypoints) \in D
    BY <1>0
  <1>2. PICK m \in D : \A k \in D : m <= k
    <2>1. D \in SUBSET (index .. Len(Waypoints)) /\ D # {}
      BY <1>1
    <2> HIDE DEF D
    <2>2. D \in SUBSET Int /\ IsFiniteSet(D)
      <3>1. IsFiniteSet(index .. Len(Waypoints)) /\ (index .. Len(Waypoints)) \subseteq Int
        BY <1>0, FS_Interval
      <3> QED BY <2>1, <3>1, FS_Subset
    <2> QED BY <2>1, <2>2, HasLeast
  <1>3. ASSUME NEW i \in index + 1 .. m PROVE Legs!Ruled(start, i)
    <2>1. i - 1 \in index .. Len(Waypoints) /\ i - 1 < m /\ (i - 1) + 1 = i /\ m \in Int
      BY <1>0, <1>2
    <2>2. i - 1 \notin D
      <3>1. \A k \in D : m <= k
        BY <1>2
      <3>2. i - 1 \in Int /\ ~(m <= i - 1)
        BY <1>0, <2>1
      <3> HIDE DEF D
      <3> QED BY <3>1, <3>2
    <2>3. ~(i - 1 < Len(Waypoints) => ~Legs!Ruled(start, (i - 1) + 1))
      BY <2>1, <2>2
    <2> QED BY <2>1, <2>3
  <1>4. m \in index .. Len(Waypoints) /\ Fits(m)
    BY <1>2, <1>3
  <1>5. Legs!Progress(start) = CHOOSE n \in index .. Len(Waypoints) : Fits(n)
    BY DEF Legs!Progress
  <1> HIDE DEF Fits
  <1> QED BY <1>4, <1>5

\* The checkpoints are cut before the first beyond the goal.
LEMMA ClippedFacts ==
  ASSUME NEW pts \in Seq(Places2), NEW from, NEW to
  PROVE  \E n \in 0 .. Len(pts) : /\ Legs!Clipped(pts, from, to) = SubSeq(pts, 1, n)
                                  /\ \A i \in 1 .. n : ~Legs!Beyond(pts[i], from, to)
  <1> DEFINE Cut(n) == \/ n = Len(pts)
                       \/ n > 0 /\ Legs!Within(pts[n], to, Reached)
                       \/ Legs!Beyond(pts[n + 1], from, to)
             ends == {n \in 0 .. Len(pts) : Cut(n)}
             n0   == CHOOSE n \in ends : \A k \in ends : n <= k
  <1>0. Len(pts) \in Nat
    BY LenProperties
  <1>1. Legs!Clipped(pts, from, to) = SubSeq(pts, 1, n0)
    BY DEF Legs!Clipped
  <1>2. ends \in SUBSET (0 .. Len(pts)) /\ ends # {}
    BY <1>0
  <1>3. \A n \in 0 .. Len(pts) : Legs!Beyond(pts[n + 1], from, to) => n \in ends
    OBVIOUS
  <1>4. n0 \in ends /\ \A k \in ends : n0 <= k
    <2> HIDE DEF ends
    <2>1. ends \in SUBSET Int /\ IsFiniteSet(ends)
      <3>1. IsFiniteSet(0 .. Len(pts)) /\ (0 .. Len(pts)) \subseteq Int
        BY <1>0, FS_Interval
      <3> QED BY <1>2, <3>1, FS_Subset
    <2>2. \E n \in ends : \A k \in ends : n <= k
      BY <1>2, <2>1, HasLeast
    <2> QED BY <2>2
  <1> HIDE DEF n0, ends
  <1>5. n0 \in 0 .. Len(pts)
    BY <1>2, <1>4
  <1>6. ASSUME NEW i \in 1 .. n0 PROVE ~Legs!Beyond(pts[i], from, to)
    <2>1. i - 1 \in 0 .. Len(pts) /\ ~(n0 <= i - 1) /\ (i - 1) + 1 = i
      BY <1>0, <1>5
    <2>2. i - 1 \notin ends
      BY <1>4, <2>1
    <2> QED BY <1>3, <2>1, <2>2
  <1> QED BY <1>1, <1>5, <1>6

\* They end at the goal, or with the goal.
LEMMA ThroughFacts ==
  ASSUME NEW pts \in Seq(Places2), NEW to \in Places2
  PROVE  LET all == Legs!Through(pts, to)
         IN  /\ all \in Seq(Places2) /\ Len(all) \in Nat \ {0}
             /\ all[Len(all)] = to \/ Legs!Within(all[Len(all)], to, Reached)
             /\ \A i \in 1 .. Len(all) - 1 : i \in 1 .. Len(pts) /\ all[i] = pts[i]
  <1>0. Len(pts) \in Nat
    BY LenProperties
  <1>1. CASE pts = <<>> \/ ~Legs!Within(pts[Len(pts)], to, Reached)
    <2>1. Legs!Through(pts, to) = Append(pts, to)
      BY <1>1 DEF Legs!Through
    <2>2. Append(pts, to) \in Seq(Places2) /\ Len(Append(pts, to)) = Len(pts) + 1 /\ Append(pts, to)[Len(pts) + 1] = to
          /\ \A i \in 1 .. Len(pts) : Append(pts, to)[i] = pts[i]
      BY AppendProperties
    <2> QED BY <1>0, <2>1, <2>2
  <1>2. CASE pts # <<>> /\ Legs!Within(pts[Len(pts)], to, Reached)
    <2>1. Legs!Through(pts, to) = pts
      BY <1>2 DEF Legs!Through
    <2>2. Len(pts) # 0
      BY <1>2, EmptySeq
    <2> QED BY <1>0, <1>2, <2>1, <2>2
  <1> QED BY <1>1, <1>2

LEMMA WithinTen ==
  ASSUME NEW p \in Places2, NEW q \in Places2
  PROVE  Legs!Within(p, p, 10) /\ (Legs!Within(p, q, Reached) => Legs!Within(p, q, 10))
  <1>1. Reached * Reached \in Int /\ Reached * Reached <= 100
    BY LegsAssumption
  <1>2. Legs!Within(p, p, 10)
    BY DEF Legs!Within, Places2
  <1>3. ASSUME NEW d \in Int, d <= Reached * Reached PROVE d <= 100
    BY <1>1, <1>3
  <1>4. (p[1] - q[1]) * (p[1] - q[1]) + (p[2] - q[2]) * (p[2] - q[2]) \in Int
    BY DEF Places2
  <1>5. 10 * 10 = 100
    OBVIOUS
  <1> QED BY <1>2, <1>3, <1>4, <1>5 DEF Legs!Within

\* Points that end at the goal, lead neither back nor beyond it and were not passed before make a
\* route that serves the goal, whichever legs are found.
LEMMA PlanServes ==
  ASSUME job.start \in Places2, job.goal \in Places2,
         NEW pts \in Seq(Places2), Len(pts) \in Nat \ {0}, NEW legs \in SUBSET DOMAIN pts, NEW next,
         pts[Len(pts)] = job.goal \/ Legs!Within(pts[Len(pts)], job.goal, Reached),
         \A i \in legs \ {Len(pts)} : /\ pts[i] \notin behind /\ ~Legs!Beyond(pts[i], job.start, job.goal)
                                      /\ pts[i][2] >= job.start[2] - PassedTol,
         Legs!Plan(pts, legs, next), Legs!LegsServeGoal
  PROVE  Legs!LegsServeGoal'
  <1>1. PICK found \in SUBSET legs :
          LET led == {pts[i] : i \in found \ {Len(pts)}}
          IN  IF found # {}
              THEN /\ route' = {pts[i] : i \in found}
                   /\ plan' = [from |-> job.start, to |-> job.goal, led |-> led, back |-> led \cap behind,
                               end |-> IF Len(pts) \in found THEN pts[Len(pts)] ELSE Legs!NoPoint]
              ELSE \/ route' = {job.goal} /\ plan' = Legs!NoPlan
                   \/ UNCHANGED <<route, plan>>
    BY DEF Legs!Plan
  <1> DEFINE led == {pts[i] : i \in found \ {Len(pts)}}
  <1>2. CASE found # {}
    <2>1. /\ plan'.from = job.start /\ plan'.to = job.goal /\ plan'.led = led /\ plan'.back = led \cap behind
          /\ plan'.end = IF Len(pts) \in found THEN pts[Len(pts)] ELSE Legs!NoPoint
      BY <1>1, <1>2
    <2>2. plan'.back = {}
      BY <2>1
    <2>3. ASSUME plan'.end # Legs!NoPoint PROVE Legs!Within(plan'.end, job.goal, 10)
      <3>1. plan'.end = pts[Len(pts)]
        BY <2>1, <2>3
      <3>2. pts[Len(pts)] \in Places2
        BY LenProperties
      <3>3. Legs!Within(job.goal, job.goal, 10)
        BY WithinTen
      <3>4. Legs!Within(pts[Len(pts)], job.goal, Reached) => Legs!Within(pts[Len(pts)], job.goal, 10)
        BY <3>2, WithinTen
      <3> QED BY <3>1, <3>3, <3>4
    <2>4. ASSUME NEW w \in led, job.goal[2] - job.start[2] >= Legs!Abs(job.goal[1] - job.start[1])
          PROVE  job.start[2] - PassedTol <= w[2] /\ w[2] <= job.goal[2] + Passed
      <3>1. PICK i \in found \ {Len(pts)} : w = pts[i]
        OBVIOUS
      <3>2. w[2] >= job.start[2] - PassedTol /\ ~Legs!Beyond(w, job.start, job.goal) /\ w \in Places2
        BY <3>1, LenProperties
      <3>3. /\ w[2] \in Int /\ job.start[1] \in Int /\ job.start[2] \in Int /\ job.goal[1] \in Int /\ job.goal[2] \in Int
            /\ Passed \in Nat /\ PassedTol \in Nat
        BY <3>2, LegsAssumption DEF Places2
      <3>4. /\ Legs!Abs(job.goal[2] - job.start[2]) >= Legs!Abs(job.goal[1] - job.start[1])
            /\ job.goal[2] >= job.start[2]
        BY <2>4, <3>3 DEF Legs!Abs
      <3>5. ~((w[2] - job.goal[2]) * 1 > Passed)
        BY <3>2, <3>4 DEF Legs!Beyond
      <3> QED BY <3>2, <3>3, <3>5
    <2> HIDE DEF led
    <2>5. Legs!RouteEndsAtGoal' /\ Legs!NeverLedBack'
      BY <2>1, <2>2, <2>3, <2>4 DEF Legs!RouteEndsAtGoal, Legs!NeverLedBack
    <2> QED BY <2>5 DEF Legs!LegsServeGoal
  <1>3. CASE found = {}
    <2>1. CASE plan' = Legs!NoPlan
      BY <2>1 DEF Legs!NoPlan, Legs!LegsServeGoal, Legs!RouteEndsAtGoal, Legs!NeverLedBack
    <2>2. CASE UNCHANGED plan
      BY <2>2 DEF Legs!LegsServeGoal, Legs!RouteEndsAtGoal, Legs!NeverLedBack
    <2> QED BY <1>1, <1>3, <2>1, <2>2
  <1> QED BY <1>2, <1>3

LEMMA WorkerServes == LegsInv /\ Legs!Worker => LegsInv'
  <1> SUFFICES ASSUME LegsInv, Legs!Worker PROVE LegsInv'
    OBVIOUS
  <1>1. job.start \in Places2 /\ job.goal \in Places2 /\ index \in 0 .. Len(Waypoints)
    BY DEF LegsInv
  <1>2. Waypoints \in Seq(Places2) /\ Len(Waypoints) \in Nat
    BY LegsAssumption, LenProperties DEF Places2
  <1>3. pos' \in Places2 /\ goal' \in Places2 /\ {temp', ret'} \subseteq BOOLEAN
        /\ job' \in [on : BOOLEAN, start : Places2, goal : Places2, direct : BOOLEAN]
    BY DEF LegsInv, Legs!Worker, Legs!NoJob, Legs!NoPoint, Places2
  <1>4. CASE job.direct
    <2>1. index' = index /\ Legs!Plan(<<job.goal>>, {1}, 0)
      BY <1>4 DEF Legs!Worker
    <2> DEFINE pts == <<job.goal>>
    <2>2. pts \in Seq(Places2) /\ Len(pts) = 1 /\ pts[1] = job.goal /\ {1} \in SUBSET DOMAIN pts
      BY <1>1
    <2> HIDE DEF pts
    <2>3. Legs!LegsServeGoal'
      <3>1. Legs!Plan(pts, {1}, 0)
        BY <2>1 DEF pts
      <3>2. /\ pts[Len(pts)] = job.goal /\ Len(pts) \in Nat \ {0} /\ {1} \ {Len(pts)} = {}
            /\ Legs!LegsServeGoal
        BY <2>2 DEF LegsInv
      <3>3. \A i \in {1} \ {Len(pts)} : /\ pts[i] \notin behind /\ ~Legs!Beyond(pts[i], job.start, job.goal)
                                        /\ pts[i][2] >= job.start[2] - PassedTol
        BY <3>2
      <3> QED BY <1>1, <2>2, <3>1, <3>2, <3>3, PlanServes
    <2>4. behind' = behind
      BY <2>1 DEF Legs!Plan
    <2> QED BY <1>1, <1>3, <2>1, <2>3, <2>4 DEF LegsInv
  <1>5. CASE ~job.direct
    <2> DEFINE next == Legs!Progress(job.start)
               rest == SubSeq(Waypoints, next + 1, Len(Waypoints))
               cut  == Legs!Clipped(rest, job.start, job.goal)
               pts  == Legs!Through(cut, job.goal)
               legs == Legs!Ahead(pts, job.start)
    <2>1. index' = next /\ Legs!Plan(pts, legs, next)
      BY <1>5 DEF Legs!Worker
    <2>2. next \in index .. Len(Waypoints)
      BY <1>1, ProgressGoesOn
    <2> HIDE DEF next
    <2>3. rest \in Seq(Places2) /\ Len(rest) = Len(Waypoints) - next
          /\ \A i \in 1 .. Len(rest) : next + i \in next + 1 .. Len(Waypoints) /\ rest[i] = Waypoints[next + i]
      <3>1. next \in Int /\ 0 <= next /\ next <= Len(Waypoints)
        BY <1>1, <1>2, <2>2
      <3>2. \A i \in next + 1 .. Len(Waypoints) : Waypoints[i] \in Places2
        BY <1>2, <3>1, LenProperties
      <3>3. /\ rest \in Seq(Places2)
            /\ Len(rest) = IF next + 1 <= Len(Waypoints) THEN Len(Waypoints) - (next + 1) + 1 ELSE 0
            /\ \A i \in 1 .. Len(Waypoints) - (next + 1) + 1 : rest[i] = Waypoints[next + 1 + i - 1]
        BY <1>2, <3>1, <3>2, SubSeqProperties
      <3> HIDE DEF rest
      <3>4. Len(rest) = Len(Waypoints) - next
        BY <1>2, <3>1, <3>3
      <3>5. ASSUME NEW i \in 1 .. Len(rest)
            PROVE  next + i \in next + 1 .. Len(Waypoints) /\ rest[i] = Waypoints[next + i]
        <4>1. i \in 1 .. Len(Waypoints) - (next + 1) + 1 /\ next + 1 + i - 1 = next + i
          BY <1>2, <3>1, <3>4
        <4> QED BY <1>2, <3>1, <3>3, <4>1
      <3> QED BY <3>3, <3>4, <3>5
    <2> HIDE DEF rest
    <2>4. PICK n \in 0 .. Len(rest) : /\ cut = SubSeq(rest, 1, n)
                                      /\ \A i \in 1 .. n : ~Legs!Beyond(rest[i], job.start, job.goal)
      BY <2>3, ClippedFacts
    <2> HIDE DEF cut
    <2>5. cut \in Seq(Places2) /\ Len(cut) = n /\ \A i \in 1 .. n : cut[i] = rest[i]
      <3>1. n \in Nat /\ n <= Len(rest) /\ Len(rest) \in Nat
        BY <2>3, <2>4, LenProperties
      <3>2. \A i \in 1 .. n : rest[i] \in Places2
        BY <2>3, <3>1, LenProperties
      <3>3. /\ SubSeq(rest, 1, n) \in Seq(Places2)
            /\ Len(SubSeq(rest, 1, n)) = IF 1 <= n THEN n - 1 + 1 ELSE 0
            /\ \A i \in 1 .. n - 1 + 1 : SubSeq(rest, 1, n)[i] = rest[1 + i - 1]
        BY <3>1, <3>2, SubSeqProperties
      <3> QED BY <2>4, <3>1, <3>3
    <2>6. /\ pts \in Seq(Places2) /\ Len(pts) \in Nat \ {0}
          /\ pts[Len(pts)] = job.goal \/ Legs!Within(pts[Len(pts)], job.goal, Reached)
          /\ \A i \in 1 .. Len(pts) - 1 : i \in 1 .. Len(cut) /\ pts[i] = cut[i]
      BY <1>1, <2>5, ThroughFacts
    <2> HIDE DEF pts
    <2>7. legs \in SUBSET DOMAIN pts
      BY DEF Legs!Ahead
    <2>8. ASSUME NEW i \in legs \ {Len(pts)}
          PROVE  /\ pts[i] \notin behind /\ ~Legs!Beyond(pts[i], job.start, job.goal)
                 /\ pts[i][2] >= job.start[2] - PassedTol
      <3>1. i \in 1 .. Len(pts) - 1
        BY <2>6, <2>7, LenProperties
      <3>2. i \in 1 .. n /\ i \in 1 .. Len(rest) /\ pts[i] = rest[i]
        BY <2>3, <2>4, <2>5, <2>6, <3>1
      <3>3. next + i \in next + 1 .. Len(Waypoints) /\ pts[i] = Waypoints[next + i]
        BY <2>3, <3>2
      <3>4. pts[i] \notin behind
        <4>1. ASSUME NEW k \in 1 .. index PROVE Waypoints[k] # Waypoints[next + i]
          <5>1. k # next + i /\ k \in 1 .. Len(Waypoints) /\ next + i \in 1 .. Len(Waypoints)
            BY <1>1, <1>2, <2>2, <3>3
          <5>2. k \in DOMAIN Waypoints /\ next + i \in DOMAIN Waypoints
            BY <1>2, <5>1, LenProperties
          <5> QED BY <5>1, <5>2, LegsAssumption, Zenon
        <4> QED BY <3>3, <4>1 DEF LegsInv
      <3>5. pts[i][2] >= job.start[2] - PassedTol
        BY <2>8 DEF Legs!Ahead
      <3> QED BY <2>4, <3>2, <3>4, <3>5
    <2> HIDE DEF legs
    <2>9. Legs!LegsServeGoal'
      BY <1>1, <2>1, <2>6, <2>7, <2>8, PlanServes DEF LegsInv
    <2>10. behind' \subseteq {Waypoints[i] : i \in 1 .. next} /\ next \in 0 .. Len(Waypoints)
      BY <1>1, <1>2, <2>1, <2>2 DEF Legs!Plan, LegsInv
    <2> QED BY <1>3, <2>1, <2>9, <2>10 DEF LegsInv
  <1> QED BY <1>4, <1>5

LEMMA LegsStart == Legs!LegsInit => LegsInv
  <1> SUFFICES ASSUME Legs!LegsInit PROVE LegsInv
    OBVIOUS
  <1>1. pos \in Places2 /\ Len(Waypoints) \in Nat
    BY LegsAssumption, LenProperties DEF Legs!LegsInit, Places2
  <1>2. goal \in Places2 /\ job \in [on : BOOLEAN, start : Places2, goal : Places2, direct : BOOLEAN]
    BY DEF Legs!LegsInit, Legs!NoPoint, Legs!NoJob, Places2
  <1>3. Legs!LegsServeGoal
    BY DEF Legs!LegsInit, Legs!NoPlan, Legs!LegsServeGoal, Legs!RouteEndsAtGoal, Legs!NeverLedBack
  <1>4. {temp, ret} \subseteq BOOLEAN /\ index = 0 /\ behind = {}
    BY DEF Legs!LegsInit
  <1> QED BY <1>1, <1>2, <1>3, <1>4 DEF LegsInv

\* Whoever sets a goal keeps what is behind with the progress, or resets both.
LEMMA SetGoalKeeps ==
  ASSUME LegsInv, NEW g \in Places2, NEW preserve \in BOOLEAN, NEW force \in BOOLEAN, Legs!SetGoal(g, preserve, force),
         UNCHANGED <<pos, job, plan>>, {temp', ret'} \subseteq BOOLEAN
  PROVE  LegsInv'
  <1>1. Len(Waypoints) \in Nat
    BY LegsAssumption, LenProperties
  <1>2. goal' \in Places2 /\ ((index' = index /\ behind' = behind) \/ (index' = 0 /\ behind' = {}))
    BY DEF Legs!SetGoal, LegsInv
  <1>3. Legs!LegsServeGoal'
    BY DEF LegsInv, Legs!LegsServeGoal, Legs!RouteEndsAtGoal, Legs!NeverLedBack
  <1> QED BY <1>1, <1>2, <1>3 DEF LegsInv

LEMMA LegsSteps == LegsInv /\ Legs!LegsStep => LegsInv'
  <1> SUFFICES ASSUME LegsInv, Legs!LegsStep PROVE LegsInv'
    OBVIOUS
  <1>0. Places \subseteq Places2 /\ Missions \subseteq Places2 /\ Detours \subseteq Places2 /\ Home \in Places2
    BY LegsAssumption DEF Places2
  <1>1. CASE Legs!MissionGoal
    BY <1>0, <1>1, SetGoalKeeps DEF Legs!MissionGoal, LegsInv
  <1>2. CASE Legs!Detour
    BY <1>0, <1>2, SetGoalKeeps DEF Legs!Detour, LegsInv
  <1>3. CASE Legs!Abort
    <2>1. (~ret) \in BOOLEAN
      OBVIOUS
    <2> QED BY <1>0, <1>3, <2>1, SetGoalKeeps DEF Legs!Abort, LegsInv
  <1>4. CASE Legs!DriveTo \/ Legs!Teleport
    <2>1. Len(Waypoints) \in Nat
      BY LegsAssumption, LenProperties
    <2>2. /\ pos' \in Places2 /\ UNCHANGED <<goal, temp, ret, job, plan>>
          /\ (index' = index /\ behind' = behind) \/ (index' = 0 /\ behind' = {})
      BY <1>0, <1>4 DEF Legs!DriveTo, Legs!Teleport
    <2> QED BY <2>1, <2>2 DEF LegsInv, Legs!LegsServeGoal, Legs!RouteEndsAtGoal, Legs!NeverLedBack
  <1>5. CASE Legs!Request
    <2>1. (temp \/ ret) \in BOOLEAN
      OBVIOUS
    <2> QED BY <1>5, <2>1 DEF Legs!Request, LegsInv, Legs!LegsServeGoal, Legs!RouteEndsAtGoal, Legs!NeverLedBack
  <1>6. CASE Legs!Worker
    BY <1>6, WorkerServes
  <1> QED BY <1>1, <1>2, <1>3, <1>4, <1>5, <1>6 DEF Legs!LegsStep

LEMMA LegsRest == LegsInv /\ UNCHANGED <<ofLegs, shared>> => LegsInv'
  BY DEF ofLegs, shared, LegsInv, Legs!LegsServeGoal, Legs!RouteEndsAtGoal, Legs!NeverLedBack

\* Checkpoints serve the goal: a route that could be found ends where it counts as arrived, leads
\* neither back nor past the goal, and to no checkpoint that was behind at an earlier plan.
THEOREM LegsStayServing == RoutesSpec => []LegsServeGoal
  <1> DEFINE Inv == layer = "legs" => LegsInv
  <1>1. RoutesInit => Inv
    BY LegsStart DEF RoutesInit, PlansInit
  <1>2. Inv /\ [RoutesNext]_routesVars => Inv'
    <2> SUFFICES ASSUME layer = "legs", LegsInv, [RoutesNext]_routesVars PROVE LegsInv'
      BY PartStays
    <2>1. Legs!LegsStep \/ UNCHANGED <<ofLegs, shared>>
      BY DEF RoutesNext, SearchRuns, BlocksRun, LegsRun, FollowRuns, FieldRuns, ChoiceRuns, ChoiceRest,
             routesVars, plans
    <2> QED BY <2>1, LegsSteps, LegsRest
  <1>3. Inv => LegsServeGoal
    BY DEF LegsInv, LegsServeGoal
  <1> HIDE DEF Inv
  <1> QED BY <1>1, <1>2, <1>3, PTL DEF RoutesSpec

-----------------------------------------------------------------------------
(* What is done with the elements of a finite set one after the other.     *)

\* The element that a set gives up first, of every set of some elements.
Picks(pick, S) == \A T \in SUBSET S : T # {} => pick[T] \in T
\* What holds of a set if it holds of what is left when one has been picked.
Climbs(X, pick, S) == {} \in X /\ \A T \in SUBSET S : T # {} /\ T \ {pick[T]} \in X => T \in X
\* What the elements come to, one after the other, from a first value on.
Folds(g, S, pick, first, op) ==
    \A T \in SUBSET S : g[T] = IF T = {} THEN first ELSE op[<<g[T \ {pick[T]}], pick[T]>>]

\* What takes the elements of a finite set one after the other, in any order, has a value for every subset.
LEMMA SubsetRecursion ==
  ASSUME NEW S, IsFiniteSet(S), NEW V, NEW first \in V, NEW pick, Picks(pick, S), NEW op \in [V \X S -> V]
  PROVE  \E g \in [SUBSET S -> V] : Folds(g, S, pick, first, op)
  <1> DEFINE Small(n) == {T \in SUBSET S : Cardinality(T) <= n}
             Goes(g, T) == g[T] = IF T = {} THEN first ELSE op[<<g[T \ {pick[T]}], pick[T]>>]
             N == {n \in Nat : \E g \in [Small(n) -> V] : \A T \in Small(n) : Goes(g, T)}
  <1>1. \A T \in SUBSET S : IsFiniteSet(T) /\ Cardinality(T) \in Nat /\ (Cardinality(T) = 0 <=> T = {})
    BY FS_Subset, FS_CardinalityType, FS_EmptySet
  <1>2. 0 \in N
    <2>1. \A T \in Small(0) : T = {}
      BY <1>1
    <2>2. PICK g : g = [T \in Small(0) |-> first]
      OBVIOUS
    <2>3. g \in [Small(0) -> V] /\ \A T \in Small(0) : Goes(g, T)
      BY <2>1, <2>2
    <2> QED BY <2>3
  <1>3. ASSUME NEW n \in N PROVE n + 1 \in N
    <2>1. PICK g \in [Small(n) -> V] : \A T \in Small(n) : Goes(g, T)
      OBVIOUS
    <2>0. n \in Nat
      OBVIOUS
    <2>2. ASSUME NEW T \in Small(n + 1), T # {}
          PROVE  pick[T] \in T /\ pick[T] \in S /\ T \ {pick[T]} \in Small(n)
      <3>0. T \in SUBSET S
        OBVIOUS
      <3>1. pick[T] \in T /\ T \in SUBSET S /\ n \in Nat
        BY <2>0, <2>2, <3>0 DEF Picks
      <3>2. Cardinality(T \ {pick[T]}) = Cardinality(T) - 1
        BY <1>1, <3>1, FS_RemoveElement
      <3> QED BY <1>1, <3>1, <3>2
    <2>3. PICK h : h = [T \in Small(n + 1) |-> IF T = {} THEN first ELSE op[<<g[T \ {pick[T]}], pick[T]>>]]
      OBVIOUS
    <2>4. h \in [Small(n + 1) -> V]
      <3>1. ASSUME NEW T \in Small(n + 1) PROVE h[T] \in V
        <4>1. CASE T = {}
          BY <2>3, <4>1
        <4>2. CASE T # {}
          <5>1. g[T \ {pick[T]}] \in V /\ pick[T] \in S
            BY <2>2, <4>2
          <5> QED BY <2>3, <4>2, <5>1
        <4> QED BY <4>1, <4>2
      <3> QED BY <2>3, <3>1
    <2>5. \A T \in Small(n) : T \in Small(n + 1) /\ h[T] = g[T]
      <3> SUFFICES ASSUME NEW T \in Small(n) PROVE T \in Small(n + 1) /\ h[T] = g[T]
        OBVIOUS
      <3>1. T \in Small(n + 1)
        BY <1>1
      <3> QED BY <2>1, <2>3, <3>1
    <2>6. ASSUME NEW T \in Small(n + 1) PROVE Goes(h, T)
      <3>1. CASE T = {}
        BY <2>3, <3>1
      <3>2. CASE T # {}
        BY <2>2, <2>3, <2>5, <3>2
      <3> QED BY <3>1, <3>2
    <2> HIDE DEF Small, Goes
    <2> QED BY <2>4, <2>6
  <1>4. N = Nat
    <2>1. N \in SUBSET Nat
      OBVIOUS
    <2> HIDE DEF N
    <2> QED BY <1>2, <1>3, <2>1, Induction
  <1>5. Small(Cardinality(S)) = SUBSET S
    <2>1. \A T \in SUBSET S : Cardinality(T) <= Cardinality(S)
      BY FS_Subset
    <2> QED BY <2>1
  <1>6. Cardinality(S) \in N
    BY <1>4, FS_CardinalityType
  <1> QED BY <1>5, <1>6 DEF Folds

\* What holds of no elements, and of some if it held before the last of them, holds of all.
LEMMA SubsetInduction ==
  ASSUME NEW S, IsFiniteSet(S), NEW pick, Picks(pick, S), NEW X, Climbs(X, pick, S)
  PROVE  \A T \in SUBSET S : T \in X
  <1> DEFINE N == {n \in Nat : \A T \in SUBSET S : Cardinality(T) <= n => T \in X}
  <1>1. \A T \in SUBSET S : IsFiniteSet(T) /\ Cardinality(T) \in Nat /\ (Cardinality(T) = 0 <=> T = {})
    BY FS_Subset, FS_CardinalityType, FS_EmptySet
  <1>2. 0 \in N
    BY <1>1 DEF Climbs
  <1>3. ASSUME NEW n \in N PROVE n + 1 \in N
    <2>0. n \in Nat
      OBVIOUS
    <2>1. ASSUME NEW T \in SUBSET S, Cardinality(T) <= n + 1, T # {} PROVE T \in X
      <3>1. Cardinality(T \ {pick[T]}) = Cardinality(T) - 1 /\ T \ {pick[T]} \in SUBSET S
        BY <1>1, <2>1, FS_RemoveElement DEF Picks
      <3>2. Cardinality(T \ {pick[T]}) <= n
        BY <1>1, <2>0, <2>1, <3>1
      <3> QED BY <2>1, <3>1, <3>2 DEF Climbs
    <2>2. \A T \in SUBSET S : Cardinality(T) <= n + 1 => T \in X
      BY <2>1 DEF Climbs
    <2> QED BY <2>0, <2>2
  <1>4. N = Nat
    <2>1. N \in SUBSET Nat
      OBVIOUS
    <2> HIDE DEF N
    <2> QED BY <1>2, <1>3, <2>1, Induction
  <1>5. Cardinality(S) \in N /\ \A T \in SUBSET S : Cardinality(T) <= Cardinality(S)
    BY <1>4, FS_CardinalityType, FS_Subset
  <1> QED BY <1>5

\* A finite set of integers has a greatest element.
LEMMA HasGreatest ==
  ASSUME NEW S \in SUBSET Int, IsFiniteSet(S)
  PROVE  \A T \in SUBSET S : T # {} => \E m \in T : \A q \in T : q <= m
  <1> DEFINE R == {d \in S \X S : d[1] <= d[2]}
  <1>1. \A p, q \in S : <<p, q>> \in R <=> p <= q
    OBVIOUS
  <1> HIDE DEF R
  <1>2. \A p \in S : p \in Int
    OBVIOUS
  <1>3. /\ \A p, q \in S : p # q => <<p, q>> \in R \/ <<q, p>> \in R
        /\ \A p, q, r \in S : <<p, q>> \in R /\ <<q, r>> \in R => <<p, r>> \in R
    BY <1>1, <1>2
  <1>4. \A T \in SUBSET S : T # {} => \E p \in T : \A q \in T \ {p} : <<q, p>> \in R
    BY <1>3, HasLast
  <1>5. ASSUME NEW T \in SUBSET S, T # {} PROVE \E m \in T : \A q \in T : q <= m
    <2>1. PICK m \in T : \A q \in T \ {m} : <<q, m>> \in R
      BY <1>4, <1>5
    <2>2. ASSUME NEW q \in T PROVE q <= m
      <3>1. q \in S /\ m \in S /\ q \in Int /\ m \in Int
        BY <1>2, <1>5, <2>1
      <3>2. q # m => <<q, m>> \in R
        BY <2>1
      <3> QED BY <1>1, <3>1, <3>2
    <2> QED BY <2>2
  <1> QED BY <1>5

\* A finite set of integers has an element of every rank.
LEMMA HasRank ==
  ASSUME NEW S \in SUBSET Int, IsFiniteSet(S), NEW k \in Nat, k < Cardinality(S)
  PROVE  \E e \in S : Cardinality({y \in S : y < e}) = k
  <1> DEFINE Ranked(T) == \A n \in Nat : n < Cardinality(T) => \E e \in T : Cardinality({y \in T : y < e}) = n
             X == {T \in SUBSET S : Ranked(T)}
             greatest(T) == CHOOSE m \in T : \A q \in T : q <= m
             pick == [T \in SUBSET S |-> greatest(T)]
  <1>1. \A T \in SUBSET S : T # {} => greatest(T) \in T /\ \A q \in T : q <= greatest(T)
    BY HasGreatest
  <1>2. \A T \in SUBSET S : pick[T] = greatest(T)
    OBVIOUS
  <1>3. \A T \in SUBSET S : IsFiniteSet(T) /\ Cardinality(T) \in Nat
    BY FS_Subset, FS_CardinalityType
  <1>4. {} \in X
    <2>1. Cardinality({}) = 0
      BY FS_EmptySet
    <2> QED BY <2>1
  <1>5. ASSUME NEW T \in SUBSET S, T # {}, Ranked(T \ {greatest(T)}) PROVE Ranked(T)
    <2> DEFINE m == greatest(T)
               U == T \ {m}
    <2>1. m \in T /\ (\A q \in T : q <= m) /\ U \in SUBSET S /\ T \in SUBSET Int /\ m \in Int
      BY <1>1, <1>5
    <2> HIDE DEF m
    <2>2. Cardinality(U) = Cardinality(T) - 1
      BY <1>3, <2>1, FS_RemoveElement
    <2>3. ASSUME NEW n \in Nat, n < Cardinality(T) PROVE \E e \in T : Cardinality({y \in T : y < e}) = n
      <3>1. CASE n < Cardinality(U)
        <4>1. PICK e \in U : Cardinality({y \in U : y < e}) = n
          BY <1>5, <3>1 DEF m
        <4>2. {y \in U : y < e} = {y \in T : y < e}
          BY <2>1
        <4> QED BY <4>1, <4>2
      <3>2. CASE ~(n < Cardinality(U))
        <4>1. n = Cardinality(U)
          BY <1>3, <2>1, <2>2, <2>3, <3>2
        <4>2. {y \in T : y < m} = U
          <5>1. ASSUME NEW y \in T PROVE y < m <=> y # m
            BY <2>1
          <5> HIDE DEF U
          <5>2. U = {y \in T : y # m}
            BY DEF U
          <5> QED BY <5>1, <5>2
        <4> QED BY <2>1, <4>1, <4>2
      <3> QED BY <3>1, <3>2
    <2> QED BY <2>3
  <1> HIDE DEF greatest, Ranked
  <1>6. Picks(pick, S)
    BY <1>1, <1>2 DEF Picks
  <1>7. Climbs(X, pick, S)
    <2>1. ASSUME NEW T \in SUBSET S, T # {}, T \ {pick[T]} \in X PROVE T \in X
      BY <1>2, <1>5, <2>1
    <2> QED BY <1>4, <2>1 DEF Climbs
  <1> HIDE DEF X, pick
  <1>8. \A T \in SUBSET S : T \in X
    BY <1>6, <1>7, SubsetInduction
  <1> QED BY <1>8 DEF X, Ranked


-----------------------------------------------------------------------------
(* What is planned around.                                                 *)

LEMMA BlocksCardinality == \A S : Blocks!Cardinality(S) = Cardinality(S)
  BY DEF Blocks!Cardinality, Blocks!IsFiniteSet, Cardinality, IsFiniteSet

\* A finite set of numbers in its order.
LEMMA SortedFacts ==
  ASSUME NEW K \in SUBSET Int, IsFiniteSet(K)
  PROVE  /\ Cardinality(K) \in Nat /\ Blocks!Sorted(K) \in [1 .. Cardinality(K) -> K]
         /\ \A m, n \in 1 .. Cardinality(K) : Blocks!Sorted(K)[m] = Blocks!Sorted(K)[n] => m = n
         /\ \A i \in K : \E n \in 1 .. Cardinality(K) : Blocks!Sorted(K)[n] = i
  <1> DEFINE c == Cardinality(K)
             Below(i) == {j \in K : j < i}
             f == Blocks!Sorted(K)
  <1>1. c \in Nat /\ \A i \in K : IsFiniteSet(Below(i)) /\ Cardinality(Below(i)) \in Nat
    <2>1. \A i \in K : Below(i) \in SUBSET K
      OBVIOUS
    <2> HIDE DEF Below
    <2> QED BY <2>1, FS_Subset, FS_CardinalityType
  <1>2. f = [n \in 1 .. Blocks!Cardinality(K) |-> CHOOSE i \in K : Blocks!Cardinality(Below(i)) = n - 1]
    BY DEF Blocks!Sorted, Blocks!InOrder
  <1>3. \A n \in 1 .. c : \E i \in K : Cardinality(Below(i)) = n - 1
    <2> SUFFICES ASSUME NEW n \in 1 .. c PROVE \E i \in K : Cardinality(Below(i)) = n - 1
      OBVIOUS
    <2>1. n - 1 \in Nat /\ n - 1 < Cardinality(K)
      BY <1>1
    <2> QED BY <2>1, HasRank
  <1>4. \A i, k \in K : i < k => Cardinality(Below(i)) < Cardinality(Below(k))
    <2> SUFFICES ASSUME NEW i \in K, NEW k \in K, i < k PROVE Cardinality(Below(i)) < Cardinality(Below(k))
      OBVIOUS
    <2>1. i \in Int /\ k \in Int /\ \A j \in K : j \in Int
      OBVIOUS
    <2>2. \A j \in K : j < i => j < k
      <3> SUFFICES ASSUME NEW j \in K, j < i PROVE j < k
        OBVIOUS
      <3>1. j \in Int /\ i \in Int /\ k \in Int /\ i < k
        BY <2>1
      <3> HIDE DEF Below
      <3> QED BY <3>1
    <2>3. ~(i < i)
      BY <2>1
    <2>4. Below(i) \in SUBSET Below(k) /\ i \in Below(k) /\ i \notin Below(i)
      BY <2>2, <2>3
    <2> HIDE DEF Below
    <2>5. Cardinality(Below(i)) <= Cardinality(Below(k)) /\ Cardinality(Below(i)) # Cardinality(Below(k))
      BY <1>1, <2>4, FS_Subset
    <2> QED BY <1>1, <2>5
  <1>5. \A i \in K : Cardinality(Below(i)) < c
    <2> SUFFICES ASSUME NEW i \in K PROVE Cardinality(Below(i)) < c
      OBVIOUS
    <2>1. Below(i) \in SUBSET K /\ i \notin Below(i)
      OBVIOUS
    <2> HIDE DEF Below
    <2>2. Cardinality(Below(i)) <= c /\ Cardinality(Below(i)) # c
      BY <2>1, FS_Subset
    <2> QED BY <1>1, <2>2
  <1> DEFINE rank(i) == Blocks!Cardinality(Below(i))
  <1>6. \A i \in K : rank(i) = Cardinality(Below(i)) /\ rank(i) \in Nat /\ rank(i) < c
    BY <1>1, <1>5, BlocksCardinality
  <1>7. \A i, k \in K : rank(i) = rank(k) => i = k
    <2>1. \A i, k \in K : i # k => i < k \/ k < i
      OBVIOUS
    <2>2. \A i, k \in K : i < k => rank(i) < rank(k)
      BY <1>4, <1>6
    <2> HIDE DEF rank
    <2>3. \A i, k \in K : rank(i) = rank(k) => ~(i < k) /\ ~(k < i)
      <3> SUFFICES ASSUME NEW i \in K, NEW k \in K, rank(i) = rank(k) PROVE ~(i < k) /\ ~(k < i)
        OBVIOUS
      <3>0. rank(i) \in Nat /\ rank(k) \in Nat
        BY <1>6
      <3>1. ~(rank(i) < rank(k)) /\ ~(rank(k) < rank(i))
        BY <3>0
      <3> QED BY <2>2, <3>1
    <2> QED BY <2>1, <2>3
  <1>8. f = [n \in 1 .. c |-> CHOOSE i \in K : rank(i) = n - 1] /\ \A n \in 1 .. c : \E i \in K : rank(i) = n - 1
    <2> HIDE DEF f, Below
    <2> QED BY <1>2, <1>3, BlocksCardinality
  <1> HIDE DEF c, rank, f
  <1>9. \A n \in 1 .. c : f[n] \in K /\ rank(f[n]) = n - 1
    BY <1>8
  <1>10. f \in [1 .. c -> K]
    BY <1>8, <1>9
  <1>11. \A m, n \in 1 .. c : f[m] = f[n] => m = n
    <2> SUFFICES ASSUME NEW m \in 1 .. c, NEW n \in 1 .. c, f[m] = f[n] PROVE m = n
      OBVIOUS
    <2>1. m - 1 = n - 1
      BY <1>9
    <2> QED BY <1>1, <2>1 DEF c
  <1>12. ASSUME NEW i \in K PROVE \E n \in 1 .. c : f[n] = i
    <2>1. rank(i) + 1 \in 1 .. c /\ (rank(i) + 1) - 1 = rank(i)
      <3>1. rank(i) \in Nat /\ rank(i) < c /\ c \in Nat
        BY <1>1, <1>6 DEF c
      <3> HIDE DEF c
      <3> QED BY <3>1
    <2>2. rank(f[rank(i) + 1]) = rank(i) /\ f[rank(i) + 1] \in K
      BY <1>9, <2>1
    <2> QED BY <1>7, <2>1, <2>2
  <1> QED BY <1>1, <1>10, <1>11, <1>12 DEF c, f

\* No place is remembered twice.
Remembered == [at : Things, age : 0 .. Ttl + 1]
Memories   == {m \in Seq(Remembered) : \A i, k \in DOMAIN m : m[i].at = m[k].at => i = k}
Has(m, t, a) == \E i \in DOMAIN m : m[i].at = t /\ m[i].age = a

LEMMA MemoryFacts ==
  ASSUME NEW m \in Memories
  PROVE  /\ Len(m) \in Nat /\ DOMAIN m = 1 .. Len(m) /\ IsFiniteSet(DOMAIN m) /\ DOMAIN m \in SUBSET Int
         /\ \A i \in DOMAIN m : m[i] \in Remembered /\ m[i].at \in Things /\ m[i].at \in Int /\ m[i].age \in 0 .. Ttl + 1
         /\ \A i, k \in DOMAIN m : m[i].at = m[k].at => i = k
  <1>1. m \in Seq(Remembered) /\ \A i, k \in DOMAIN m : m[i].at = m[k].at => i = k
    BY DEF Memories
  <1>2. Len(m) \in Nat /\ DOMAIN m = 1 .. Len(m) /\ \A i \in DOMAIN m : m[i] \in Remembered
    BY <1>1
  <1>3. IsFiniteSet(1 .. Len(m)) /\ 1 .. Len(m) \in SUBSET Int
    BY <1>2, FS_Interval
  <1>4. \A i \in DOMAIN m : m[i].at \in Things /\ m[i].at \in Int /\ m[i].age \in 0 .. Ttl + 1
    BY <1>2, BlocksAssumption DEF Remembered
  <1> QED BY <1>1, <1>2, <1>3, <1>4

LEMMA KeptMemory ==
  ASSUME NEW m \in Memories, NEW K \in SUBSET DOMAIN m
  PROVE  /\ Blocks!Keep(m, K) \in Memories
         /\ \A t, a : Has(Blocks!Keep(m, K), t, a) <=> \E i \in K : m[i].at = t /\ m[i].age = a
  <1> DEFINE k == Blocks!Keep(m, K)
             c == Cardinality(K)
  <1>1. K \in SUBSET Int /\ IsFiniteSet(K)
    BY MemoryFacts, FS_Subset
  <1> DEFINE f == Blocks!Sorted(K)
  <1>2. /\ c \in Nat /\ f \in [1 .. c -> K]
        /\ \A i, n \in 1 .. c : f[i] = f[n] => i = n
        /\ \A i \in K : \E n \in 1 .. c : f[n] = i
    BY <1>1, SortedFacts
  <1>0. k = [n \in 1 .. c |-> m[f[n]]]
    BY BlocksCardinality DEF Blocks!Keep
  <1> HIDE DEF k, c, f
  <1>3. DOMAIN k = 1 .. c /\ \A n \in 1 .. c : k[n] = m[f[n]] /\ f[n] \in DOMAIN m
    BY <1>0, <1>2
  <1>4. \A n \in 1 .. c : k[n] \in Remembered
    BY <1>3, MemoryFacts
  <1>5. k \in Seq(Remembered)
    <2>1. k = [n \in 1 .. c |-> k[n]]
      BY <1>0, <1>3
    <2> QED BY <1>2, <1>4, <2>1
  <1>6. \A i, n \in 1 .. c : k[i].at = k[n].at => i = n
    BY <1>2, <1>3, MemoryFacts
  <1>7. k \in Memories
    BY <1>3, <1>5, <1>6 DEF Memories
  <1>8. \A t, a : Has(k, t, a) <=> \E i \in K : m[i].at = t /\ m[i].age = a
    BY <1>2, <1>3 DEF Has
  <1> QED BY <1>7, <1>8 DEF k

\* What there is stands further apart than what is taken for one, and all of it can be remembered.
Apart == (\A s, t \in Things : s # t => Blocks!Away(s, t) > Merge) /\ Cardinality(Things) <= MaxMemory

LEMMA MemoryFits ==
  ASSUME Apart, NEW m \in Memories, NEW K \in SUBSET DOMAIN m
  PROVE  Cardinality(K) \in Nat /\ Cardinality(K) <= MaxMemory
  <1> DEFINE f == [i \in K |-> m[i].at]
  <1>1. IsFiniteSet(K) /\ Cardinality(K) \in Nat /\ IsFiniteSet(Things) /\ Cardinality(Things) \in Nat /\ MaxMemory \in Nat
    BY MemoryFacts, FS_Subset, FS_CardinalityType, BlocksAssumption
  <1>2. f \in [K -> Things] /\ \A i, n \in K : f[i] = f[n] => i = n
    BY MemoryFacts
  <1> HIDE DEF f
  <1>3. ~(Cardinality(Things) < Cardinality(K))
    BY <1>1, <1>2, FS_PigeonHole
  <1> QED BY <1>1, <1>3 DEF Apart

LEMMA PrunedMemory ==
  ASSUME Apart, NEW m \in Memories
  PROVE  /\ Blocks!Pruned(m) \in Memories
         /\ \A t, a : Has(Blocks!Pruned(m), t, a) <=> Has(m, t, a) /\ a <= Ttl
  <1> DEFINE K == {i \in DOMAIN m : m[i].age <= Ttl}
  <1>1. K \in SUBSET DOMAIN m
    OBVIOUS
  <1>2. ~(Cardinality(K) > MaxMemory)
    <2> HIDE DEF K
    <2>1. Cardinality(K) \in Nat /\ Cardinality(K) <= MaxMemory /\ MaxMemory \in Nat
      BY <1>1, MemoryFits, BlocksAssumption
    <2> QED BY <2>1
  <1>3. Blocks!Pruned(m) = Blocks!Keep(m, K)
    BY <1>2, BlocksCardinality DEF Blocks!Pruned
  <1>4. \A t, a : (\E i \in K : m[i].at = t /\ m[i].age = a) <=> Has(m, t, a) /\ a <= Ttl
    BY DEF Has
  <1> HIDE DEF K
  <1> QED BY <1>1, <1>3, <1>4, KeptMemory

\* What is near a known object is forgotten.
Near(t, known_) == \E k \in known_ : Blocks!Away(t, k) <= Match

LEMMA UnknownMemory ==
  ASSUME known \subseteq Things, NEW m \in Memories
  PROVE  /\ Blocks!Unknown(m) \in Memories
         /\ \A t, a : Has(Blocks!Unknown(m), t, a) <=> Has(m, t, a) /\ ~Near(t, known)
  <1> DEFINE K == {i \in DOMAIN m : m[i].at \in Blocks!Plannable({m[i].at})}
  <1>1. K \in SUBSET DOMAIN m /\ Blocks!Unknown(m) = Blocks!Keep(m, K)
    BY DEF Blocks!Unknown
  <1>2. \A s, t \in Int : Blocks!Away(s, t) \in Nat
    BY DEF Blocks!Away
  <1>3. \A i \in DOMAIN m : i \in K <=> ~Near(m[i].at, known)
    <2> SUFFICES ASSUME NEW i \in DOMAIN m PROVE i \in K <=> ~Near(m[i].at, known)
      OBVIOUS
    <2>1. \A k \in known : Blocks!Away(m[i].at, k) \in Nat /\ Match \in Nat
      BY <1>2, MemoryFacts, BlocksAssumption
    <2>2. i \in K <=> \A k \in known : Blocks!Away(m[i].at, k) > Match
      BY DEF Blocks!Plannable
    <2>3. \A k \in known : Blocks!Away(m[i].at, k) > Match <=> ~(Blocks!Away(m[i].at, k) <= Match)
      BY <2>1
    <2> HIDE DEF K
    <2> QED BY <2>2, <2>3 DEF Near
  <1>4. \A t, a : (\E i \in K : m[i].at = t /\ m[i].age = a) <=> Has(m, t, a) /\ ~Near(t, known)
    BY <1>1, <1>3 DEF Has
  <1> HIDE DEF K
  <1> QED BY <1>1, <1>4, KeptMemory

\* The cluster at p is remembered where it is, and nothing else is forgotten for it.
LEMMA RememberKeeps ==
  ASSUME Apart, NEW m \in Memories, NEW p \in Things
  PROVE  /\ Blocks!Remember(m, p) \in Memories /\ Has(Blocks!Remember(m, p), p, 0)
         /\ \A t, a : t # p /\ Has(m, t, a) => Has(Blocks!Remember(m, p), t, a)
  <1> DEFINE n == Blocks!Nearest(m, p)
             r == [at |-> p, age |-> 0]
             after == Blocks!Remember(m, p)
             near_ == m # <<>> /\ Blocks!Away(m[n].at, p) <= Merge
  <1>1. r \in Remembered /\ p \in Int /\ Merge \in Nat
    BY BlocksAssumption DEF Remembered
  <1>2. \A s, t \in Int : Blocks!Away(s, t) \in Nat /\ (s = t => Blocks!Away(s, t) = 0)
    BY DEF Blocks!Away
  <1>3. after = IF near_ THEN [m EXCEPT ![n] = r] ELSE Append(m, r)
    BY DEF Blocks!Remember
  <1>4. ASSUME m # <<>>
        PROVE  n \in DOMAIN m /\ \A k \in DOMAIN m : Blocks!Away(m[n].at, p) <= Blocks!Away(m[k].at, p)
    <2> DEFINE far(i) == Blocks!Away(m[i].at, p)
               Best(i) == \A j \in DOMAIN m : far(i) < far(j) \/ (far(i) = far(j) /\ i <= j)
               R == {d \in (DOMAIN m) \X (DOMAIN m) : far(d[1]) > far(d[2]) \/ (far(d[1]) = far(d[2]) /\ d[1] >= d[2])}
    <2>1. \A k, j \in DOMAIN m : <<k, j>> \in R <=> far(k) > far(j) \/ (far(k) = far(j) /\ k >= j)
      OBVIOUS
    <2>2. \A k \in DOMAIN m : far(k) \in Nat /\ k \in Int
      BY <1>1, <1>2, MemoryFacts
    <2> HIDE DEF R, far
    <2>3. \A i, j \in DOMAIN m : i # j => <<i, j>> \in R \/ <<j, i>> \in R
      BY <2>1, <2>2
    <2>4. \A i, j, l \in DOMAIN m : <<i, j>> \in R /\ <<j, l>> \in R => <<i, l>> \in R
      BY <2>1, <2>2
    <2>5. PICK i \in DOMAIN m : \A j \in DOMAIN m \ {i} : <<j, i>> \in R
      <3>1. IsFiniteSet(DOMAIN m) /\ DOMAIN m # {}
        <4>1. Len(m) \in Nat /\ Len(m) # 0
          BY <1>4 DEF Memories
        <4> QED BY <4>1, MemoryFacts
      <3>2. \A T \in SUBSET DOMAIN m : T # {} => \E i \in T : \A j \in T \ {i} : <<j, i>> \in R
        BY <2>3, <2>4, <3>1, HasLast
      <3> QED BY <3>1, <3>2
    <2>6. Best(i)
      <3> SUFFICES ASSUME NEW j \in DOMAIN m PROVE far(i) < far(j) \/ (far(i) = far(j) /\ i <= j)
        OBVIOUS
      <3>1. CASE j = i
        BY <2>2, <3>1
      <3>2. CASE j # i
        <4>1. far(j) > far(i) \/ (far(j) = far(i) /\ j >= i)
          BY <2>1, <2>5, <3>2
        <4>2. far(j) \in Int /\ far(i) \in Int /\ j \in Int /\ i \in Int
          BY <2>2
        <4> QED BY <4>1, <4>2
      <3> QED BY <3>1, <3>2
    <2>7. n = CHOOSE i_ \in DOMAIN m : Best(i_)
      BY DEF Blocks!Nearest, far
    <2> HIDE DEF n, Best
    <2>8. n \in DOMAIN m /\ Best(n)
      BY <2>6, <2>7
    <2>9. \A k \in DOMAIN m : far(n) <= far(k)
      BY <2>2, <2>8 DEF Best
    <2> QED BY <2>8, <2>9 DEF far
  <1> HIDE DEF n
  <1>5. CASE near_
    <2>1. n \in DOMAIN m /\ m[n].at = p
      <3>1. n \in DOMAIN m /\ m[n].at \in Things /\ m[n].at \in Int /\ Blocks!Away(m[n].at, p) <= Merge
        BY <1>4, <1>5, MemoryFacts
      <3>0. Blocks!Away(m[n].at, p) \in Nat /\ Merge \in Nat
        BY <1>1, <1>2, <3>1
      <3>2. ~(Blocks!Away(m[n].at, p) > Merge)
        BY <3>0, <3>1
      <3> QED BY <3>1, <3>2 DEF Apart
    <2>2. after = [m EXCEPT ![n] = r] /\ DOMAIN after = DOMAIN m /\ after[n] = r
          /\ \A k \in DOMAIN m \ {n} : after[k] = m[k]
      BY <1>3, <1>5, <2>1
    <2> HIDE DEF after
    <2>3. after \in Seq(Remembered)
      <3>1. m \in Seq(Remembered)
        BY DEF Memories
      <3> QED BY <1>1, <2>1, <2>2, <3>1
    <2>4. \A k \in DOMAIN m : after[k].at = m[k].at
      BY <2>1, <2>2
    <2>5. after \in Memories
      BY <2>2, <2>3, <2>4, MemoryFacts DEF Memories
    <2>6. Has(after, p, 0) /\ \A t, a : t # p /\ Has(m, t, a) => Has(after, t, a)
      BY <2>1, <2>2 DEF Has
    <2> QED BY <2>5, <2>6 DEF after
  <1>6. CASE ~near_
    <2> DEFINE c == Len(m)
    <2>1. c \in Nat /\ DOMAIN m = 1 .. c /\ m \in Seq(Remembered)
      BY MemoryFacts DEF Memories
    <2>2. \A k \in DOMAIN m : m[k].at # p
      <3> SUFFICES ASSUME NEW k \in DOMAIN m, m[k].at = p PROVE FALSE
        OBVIOUS
      <3>1. m # <<>>
        BY <2>1
      <3>2. Blocks!Away(m[n].at, p) <= Blocks!Away(m[k].at, p) /\ Blocks!Away(m[k].at, p) = 0 /\ m[n].at \in Int
        BY <1>1, <1>2, <1>4, <3>1, MemoryFacts
      <3>4. Blocks!Away(m[n].at, p) \in Nat /\ Blocks!Away(m[n].at, p) <= 0
        BY <1>1, <1>2, <3>2
      <3>3. Blocks!Away(m[n].at, p) <= Merge
        BY <1>1, <3>4
      <3> QED BY <1>6, <3>1, <3>3
    <2>3. after = Append(m, r) /\ after \in Seq(Remembered) /\ Len(after) = c + 1 /\ DOMAIN after = 1 .. c + 1
          /\ after[c + 1] = r /\ \A k \in 1 .. c : after[k] = m[k]
      BY <1>1, <1>3, <1>6, <2>1
    <2> HIDE DEF after, c
    <2>4. \A k \in 1 .. c + 1 : k \in 1 .. c \/ k = c + 1
      BY <2>1
    <2>5. \A i, k \in DOMAIN after : after[i].at = after[k].at => i = k
      <3> SUFFICES ASSUME NEW i \in DOMAIN after, NEW k \in DOMAIN after, after[i].at = after[k].at PROVE i = k
        OBVIOUS
      <3>1. CASE i \in 1 .. c /\ k \in 1 .. c
        BY <2>1, <2>3, <3>1, MemoryFacts
      <3>2. CASE i = c + 1 /\ k \in 1 .. c
        BY <2>1, <2>2, <2>3, <3>2
      <3>3. CASE i \in 1 .. c /\ k = c + 1
        BY <2>1, <2>2, <2>3, <3>3
      <3>4. CASE i = c + 1 /\ k = c + 1
        BY <3>4
      <3> QED BY <2>3, <2>4, <3>1, <3>2, <3>3, <3>4
    <2>6. after \in Memories
      BY <2>3, <2>5 DEF Memories
    <2>7. c + 1 \in DOMAIN after /\ \A k \in DOMAIN m : k \in DOMAIN after
      BY <2>1, <2>3
    <2>8. Has(after, p, 0) /\ \A t, a : t # p /\ Has(m, t, a) => Has(after, t, a)
      BY <2>1, <2>3, <2>7 DEF Has
    <2> QED BY <2>6, <2>8 DEF after
  <1> HIDE DEF near_, after
  <1> QED BY <1>5, <1>6 DEF after

\* All clusters of a frame are remembered where they are, and nothing else is forgotten for them.
LEMMA AllRemembered ==
  ASSUME Apart, NEW m \in Memories, NEW P \in SUBSET Things
  PROVE  LET after == Blocks!RememberAll(m, P)
         IN  /\ after \in Memories /\ \A t \in P : Has(after, t, 0)
             /\ \A t, a : t \notin P /\ Has(m, t, a) => Has(after, t, a)
  <1> DEFINE pick == [S \in SUBSET P |-> Blocks!Last(S)]
             op == [e \in Memories \X P |-> Blocks!Remember(e[1], e[2])]
             Runs(g) == g = [S \in SUBSET P |-> IF S = {} THEN m ELSE Blocks!Remember(g[S \ {Blocks!Last(S)}], Blocks!Last(S))]
             run == CHOOSE g : Runs(g)
  <1>1. IsFiniteSet(P) /\ P \in SUBSET Int
    BY FS_Subset, BlocksAssumption
  <1>2. \A S \in SUBSET P : pick[S] = Blocks!Last(S)
    OBVIOUS
  <1>3. \A S \in SUBSET P : S # {} => Blocks!Last(S) \in S
    BY <1>1, HasGreatest DEF Blocks!Last
  <1>4. op \in [Memories \X P -> Memories]
    <2>1. ASSUME NEW e \in Memories \X P PROVE Blocks!Remember(e[1], e[2]) \in Memories
      BY RememberKeeps
    <2> QED BY <2>1
  <1>5. \A e \in Memories, p \in P : op[<<e, p>>] = Blocks!Remember(e, p)
    OBVIOUS
  <1> HIDE DEF pick, op
  <1>6. Picks(pick, P)
    BY <1>2, <1>3 DEF Picks
  <1>7. PICK g \in [SUBSET P -> Memories] : Folds(g, P, pick, m, op)
    BY <1>1, <1>4, <1>6, SubsetRecursion
  <1>8. Runs(g)
    <2>1. ASSUME NEW S \in SUBSET P
          PROVE  g[S] = IF S = {} THEN m ELSE Blocks!Remember(g[S \ {Blocks!Last(S)}], Blocks!Last(S))
      <3>1. CASE S = {}
        BY <1>7, <3>1 DEF Folds
      <3>2. CASE S # {}
        <4>1. Blocks!Last(S) \in P /\ g[S \ {Blocks!Last(S)}] \in Memories
          BY <1>3, <1>7, <3>2
        <4>2. g[S] = op[<<g[S \ {Blocks!Last(S)}], Blocks!Last(S)>>]
          BY <1>2, <1>7, <3>2 DEF Folds
        <4> QED BY <1>5, <3>2, <4>1, <4>2
      <3> QED BY <3>1, <3>2
    <2> QED BY <2>1, <1>7
  <1>9. Runs(run)
    BY <1>8
  <1>10. Blocks!RememberAll(m, P) = run[P]
    BY DEF Blocks!RememberAll
  <1> HIDE DEF run
  <1>11. \A S \in SUBSET P : run[S] = IF S = {} THEN m ELSE Blocks!Remember(run[S \ {Blocks!Last(S)}], Blocks!Last(S))
    BY <1>9
  <1> HIDE DEF Runs
  <1> DEFINE Kept(S, after) == /\ after \in Memories /\ \A t \in S : Has(after, t, 0)
                               /\ \A t, a : t \notin S /\ Has(m, t, a) => Has(after, t, a)
             X == {S \in SUBSET P : Kept(S, run[S])}
  <1>12. Kept({}, m)
    OBVIOUS
  <1>13. ASSUME NEW S \in SUBSET P, NEW p \in P, p \in S, NEW e, Kept(S \ {p}, e)
         PROVE  Kept(S, Blocks!Remember(e, p))
    <2>1. /\ Blocks!Remember(e, p) \in Memories /\ Has(Blocks!Remember(e, p), p, 0)
          /\ \A t, a : t # p /\ Has(e, t, a) => Has(Blocks!Remember(e, p), t, a)
      BY <1>13, RememberKeeps
    <2>2. \A t \in S : Has(Blocks!Remember(e, p), t, 0)
      BY <1>13, <2>1
    <2>3. \A t, a : t \notin S /\ Has(m, t, a) => Has(Blocks!Remember(e, p), t, a)
      BY <1>13, <2>1
    <2> QED BY <2>1, <2>2, <2>3
  <1> HIDE DEF Kept
  <1>14. Climbs(X, pick, P)
    <2>1. {} \in X
      BY <1>11, <1>12
    <2>2. ASSUME NEW S \in SUBSET P, S # {}, S \ {pick[S]} \in X PROVE S \in X
      <3>1. Blocks!Last(S) \in S /\ pick[S] = Blocks!Last(S)
        BY <1>2, <1>3, <2>2
      <3>2. Kept(S, run[S])
        BY <1>11, <1>13, <2>2, <3>1
      <3> QED BY <3>2
    <2> HIDE DEF X
    <2> QED BY <2>1, <2>2 DEF Climbs
  <1> HIDE DEF X
  <1>15. P \in X
    BY <1>1, <1>6, <1>14, SubsetInduction
  <1> QED BY <1>10, <1>15 DEF X, Kept

\* The history is never empty once something was in view.
LEMMA HistoryFacts ==
  ASSUME history \in Seq(Things), NEW frame \in SUBSET Things
  PROVE  /\ Blocks!HistoryAfter(frame) \in Seq(Things)
         /\ frame # {} \/ history # <<>> => Blocks!HistoryAfter(frame) # <<>>
  <1> DEFINE K == frame \ Range(history)
             c == Cardinality(K)
             all == history \o Blocks!Sorted(K)
             n == Len(all)
  <1>1. IsFiniteSet(K) /\ K \in SUBSET Int /\ K \in SUBSET Things
    BY FS_Subset, BlocksAssumption
  <1>2. c \in Nat /\ Blocks!Sorted(K) \in [1 .. c -> K]
    BY <1>1, SortedFacts
  <1>3. Blocks!Sorted(K) \in Seq(Things) /\ Len(Blocks!Sorted(K)) = c
    <2> DEFINE f == Blocks!Sorted(K)
    <2>1. f = [i \in 1 .. c |-> f[i]] /\ \A i \in 1 .. c : f[i] \in Things
      BY <1>1, <1>2
    <2>2. c \in Nat
      BY <1>2
    <2> HIDE DEF f, c
    <2>3. \E g \in [1 .. c -> Things] : f = [i \in 1 .. c |-> g[i]]
      BY <2>1
    <2>4. PICK g \in [1 .. c -> Things] : f = [i \in 1 .. c |-> g[i]]
      BY <2>3
    <2>5. \A i \in 1 .. c : g[i] \in Things
      OBVIOUS
    <2>6. f \in Seq(Things)
      BY <2>2, <2>4, <2>5
    <2> QED BY <2>2, <2>4, <2>6 DEF f
  <1>4. all \in Seq(Things) /\ n = Len(history) + c /\ Len(history) \in Nat
    <2> DEFINE f == Blocks!Sorted(K)
    <2>1. f \in Seq(Things) /\ Len(f) = c /\ history \in Seq(Things)
      BY <1>3
    <2> HIDE DEF f, c
    <2>2. history \o f \in Seq(Things) /\ Len(history \o f) = Len(history) + Len(f)
      BY <2>1, ConcatProperties
    <2> QED BY <2>1, <2>2 DEF f
  <1>5. frame # {} \/ history # <<>> => n > 0
    <2>1. CASE history # <<>>
      <3>1. Len(history) > 0
        BY <2>1
      <3> QED BY <1>2, <1>4, <3>1
    <2>2. CASE history = <<>> /\ frame # {}
      <3>1. K # {}
        BY <2>2 DEF Range
      <3>2. c # 0
        BY <1>1, <3>1, FS_EmptySet
      <3> QED BY <1>2, <1>4, <3>2
    <2> QED BY <2>1, <2>2
  <1>6. Blocks!HistoryAfter(frame) = IF n > MaxHistory THEN SubSeq(all, n - MaxHistory + 1, n) ELSE all
    BY DEF Blocks!HistoryAfter, Blocks!Range, Range
  <1> HIDE DEF all, c
  <1>7. CASE n > MaxHistory
    <2>1. MaxHistory \in Nat /\ MaxHistory >= 1 /\ n \in Nat
      BY <1>4, BlocksAssumption
    <2> DEFINE b == n - MaxHistory + 1
    <2>2. b \in Int /\ n \in Int /\ b >= 1 /\ b <= n /\ n - b + 1 = MaxHistory
      BY <1>7, <2>1
    <2>4. \A i \in 1 .. n : all[i] \in Things
      BY <1>4
    <2>5. \A i \in b .. n : all[i] \in Things
      <3> SUFFICES ASSUME NEW i \in b .. n PROVE all[i] \in Things
        OBVIOUS
      <3>1. i \in 1 .. n
        BY <2>2
      <3> QED BY <2>4, <3>1
    <2> HIDE DEF b, n
    <2>3. SubSeq(all, b, n) \in Seq(Things) /\ Len(SubSeq(all, b, n)) = MaxHistory
      BY <2>2, <2>5, SubSeqProperties
    <2>6. \A s : s = <<>> => Len(s) = 0
      OBVIOUS
    <2>9. MaxHistory # 0
      BY <2>1
    <2>7. SubSeq(all, b, n) # <<>>
      BY <2>3, <2>6, <2>9, Zenon
    <2>8. Blocks!HistoryAfter(frame) = SubSeq(all, b, n)
      BY <1>6, <1>7 DEF b
    <2> QED BY <2>3, <2>7, <2>8
  <1>8. CASE ~(n > MaxHistory)
    BY <1>4, <1>5, <1>6, <1>8
  <1> QED BY <1>7, <1>8

\* What was in view lately is a known object's, or remembered with the time that has passed.
Recalled == \A t \in Things : age[t] <= Ttl => history # <<>> /\ (Near(t, known) \/ Has(memory, t, age[t]))

BlocksInv ==
  /\ {clusters, known} \subseteq SUBSET Things /\ memory \in Memories /\ history \in Seq(Things)
  /\ age \in [Things -> 0 .. Ttl + 1] /\ Recalled
  /\ Blocks!PlanAvoidsSeen

LEMMA BlocksStart == Blocks!BlocksInit => BlocksInv
  <1> SUFFICES ASSUME Blocks!BlocksInit PROVE BlocksInv
    OBVIOUS
  <1>1. Ttl \in Nat /\ Ttl + 1 \in 0 .. Ttl + 1 /\ ~(Ttl + 1 <= Ttl)
    BY BlocksAssumption
  <1>2. {clusters, known} \subseteq SUBSET Things
    BY DEF Blocks!BlocksInit
  <1>3. memory \in Memories /\ history \in Seq(Things)
    BY DEF Blocks!BlocksInit, Memories
  <1>4. age \in [Things -> 0 .. Ttl + 1] /\ Recalled
    BY <1>1 DEF Blocks!BlocksInit, Recalled
  <1>5. Blocks!PlanAvoidsSeen
    BY DEF Blocks!BlocksInit, Blocks!PlanAvoidsSeen, Blocks!None
  <1> QED BY <1>2, <1>3, <1>4, <1>5 DEF BlocksInv

\* Each frame is remembered, and what is known is forgotten.
LEMMA FrameRemembered ==
  ASSUME Apart, known \subseteq Things, memory \in Memories, NEW F \in SUBSET Things
  PROVE  /\ Blocks!MemoryAfter(F) \in Memories
         /\ \A t \in F : Near(t, known) \/ Has(Blocks!MemoryAfter(F), t, 0)
         /\ \A t \in Things \ F : \A a : a <= Ttl /\ Has(memory, t, a) /\ ~Near(t, known) => Has(Blocks!MemoryAfter(F), t, a)
  <1> DEFINE P == Blocks!Plannable(F)
             m == Blocks!Pruned(memory)
             after == IF P = {} THEN memory ELSE Blocks!RememberAll(m, P)
             kept == Blocks!Pruned(after)
  <1>1. m \in Memories /\ \A t, a : Has(m, t, a) <=> Has(memory, t, a) /\ a <= Ttl
    BY PrunedMemory
  <1>2. P \in SUBSET Things /\ P \in SUBSET F
    BY DEF Blocks!Plannable
  <1>3. \A t \in F : Near(t, known) \/ t \in P
    <2>1. \A s, t \in Int : Blocks!Away(s, t) \in Nat
      BY DEF Blocks!Away
    <2>2. ASSUME NEW t \in F, ~Near(t, known), NEW k \in known PROVE Blocks!Away(t, k) > Match
      <3>1. Blocks!Away(t, k) \in Nat /\ Match \in Nat
        BY <2>1, BlocksAssumption
      <3> QED BY <2>2, <3>1 DEF Near
    <2> QED BY <2>2 DEF Blocks!Plannable
  <1> HIDE DEF P, m
  <1>4. /\ after \in Memories /\ \A t \in P : Has(after, t, 0)
        /\ \A t, a : a <= Ttl /\ t \notin P /\ Has(memory, t, a) => Has(after, t, a)
    <2>1. CASE P = {}
      BY <2>1
    <2>2. CASE P # {}
      BY <1>1, <1>2, <2>2, AllRemembered
    <2> QED BY <2>1, <2>2
  <1> HIDE DEF after
  <1>5. kept \in Memories /\ \A t, a : Has(kept, t, a) <=> Has(after, t, a) /\ a <= Ttl
    BY <1>4, PrunedMemory
  <1> HIDE DEF kept
  <1>6. Blocks!MemoryAfter(F) = Blocks!Unknown(kept)
    BY DEF Blocks!MemoryAfter, P, m, after, kept
  <1>7. /\ Blocks!MemoryAfter(F) \in Memories
        /\ \A t, a : Has(Blocks!MemoryAfter(F), t, a) <=> Has(kept, t, a) /\ ~Near(t, known)
    BY <1>5, <1>6, UnknownMemory
  <1>8. 0 <= Ttl
    BY BlocksAssumption
  <1>9. \A t \in F : Near(t, known) \/ Has(Blocks!MemoryAfter(F), t, 0)
    BY <1>3, <1>4, <1>5, <1>7, <1>8
  <1>10. \A t \in Things \ F : \A a : a <= Ttl /\ Has(memory, t, a) /\ ~Near(t, known) => Has(Blocks!MemoryAfter(F), t, a)
    BY <1>2, <1>4, <1>5, <1>7
  <1> QED BY <1>7, <1>9, <1>10

LEMMA ScanKeeps ==
  ASSUME Apart, BlocksInv, NEW F \in SUBSET Things, Blocks!Scan(F)
  PROVE  BlocksInv'
  <1>1. /\ clusters' = F /\ memory' = Blocks!MemoryAfter(F) /\ history' = Blocks!HistoryAfter(F)
        /\ age' = [t \in Things |-> IF t \in F THEN 0 ELSE age[t]] /\ UNCHANGED <<known, job>>
    BY DEF Blocks!Scan
  <1>2. known \subseteq Things /\ memory \in Memories /\ history \in Seq(Things) /\ age \in [Things -> 0 .. Ttl + 1]
    BY DEF BlocksInv
  <1>3. /\ memory' \in Memories /\ \A t \in F : Near(t, known) \/ Has(memory', t, 0)
        /\ \A t \in Things \ F : \A a : a <= Ttl /\ Has(memory, t, a) /\ ~Near(t, known) => Has(memory', t, a)
    BY <1>1, <1>2, FrameRemembered
  <1>4. history' \in Seq(Things) /\ (F # {} \/ history # <<>> => history' # <<>>)
    BY <1>1, <1>2, HistoryFacts
  <1>5. age' \in [Things -> 0 .. Ttl + 1]
    <2>1. 0 \in 0 .. Ttl + 1
      BY BlocksAssumption
    <2> QED BY <1>1, <1>2, <2>1
  <1>6. Recalled'
    <2> SUFFICES ASSUME NEW t \in Things, age'[t] <= Ttl
                 PROVE  history' # <<>> /\ (Near(t, known)' \/ Has(memory', t, age'[t]))
      BY DEF Recalled
    <2>1. Near(t, known)' <=> Near(t, known)
      BY <1>1 DEF Near
    <2>2. CASE t \in F
      BY <1>1, <1>3, <1>4, <2>1, <2>2
    <2>3. CASE t \notin F
      <3>1. age'[t] = age[t]
        BY <1>1, <2>3
      <3>2. history # <<>> /\ (Near(t, known) \/ Has(memory, t, age[t]))
        BY <3>1 DEF BlocksInv, Recalled
      <3> QED BY <1>3, <1>4, <2>1, <2>3, <3>1, <3>2
    <2> QED BY <2>2, <2>3
  <1>7. Blocks!PlanAvoidsSeen'
    BY <1>1 DEF BlocksInv, Blocks!PlanAvoidsSeen
  <1> QED BY <1>1, <1>2, <1>3, <1>4, <1>5, <1>6, <1>7 DEF BlocksInv

LEMMA DiscoveredKeeps ==
  ASSUME BlocksInv, NEW list \in SUBSET Things, Blocks!Discovered(list)
  PROVE  BlocksInv'
  <1> DEFINE K == {i \in DOMAIN memory : \A k \in known' : Blocks!Away(memory[i].at, k) > Match}
  <1>1. /\ known' = list /\ memory' = Blocks!Keep(memory, K) /\ UNCHANGED <<clusters, history, job>>
        /\ age' = [t \in Things |-> IF t \notin Blocks!Plannable({t}) /\ \A k \in list : Blocks!Away(t, k) > Match
                                    THEN Ttl + 1 ELSE age[t]]
    BY DEF Blocks!Discovered
  <1>2. known \subseteq Things /\ clusters \subseteq Things /\ memory \in Memories /\ known' \subseteq Things
    BY <1>1 DEF BlocksInv
  <1>3. K \in SUBSET DOMAIN memory
    OBVIOUS
  <1>4. ASSUME NEW i \in DOMAIN memory, i \notin K PROVE Near(memory[i].at, known')
    <2>1. PICK k \in known' : ~(Blocks!Away(memory[i].at, k) > Match)
      BY <1>4
    <2>2. Blocks!Away(memory[i].at, k) \in Nat /\ Match \in Nat
      <3>1. memory[i].at \in Int /\ k \in Int
        BY <1>2, MemoryFacts, BlocksAssumption
      <3> QED BY <3>1, BlocksAssumption DEF Blocks!Away
    <2> QED BY <2>1, <2>2 DEF Near
  <1> HIDE DEF K
  <1>5. memory' \in Memories /\ \A t, a : Has(memory', t, a) <=> \E i \in K : memory[i].at = t /\ memory[i].age = a
    BY <1>1, <1>2, <1>3, KeptMemory
  <1>6. Ttl \in Nat /\ Ttl + 1 \in 0 .. Ttl + 1 /\ ~(Ttl + 1 <= Ttl)
    BY BlocksAssumption
  <1>7. age' \in [Things -> 0 .. Ttl + 1]
    BY <1>1, <1>6 DEF BlocksInv
  <1>8. Recalled'
    <2> SUFFICES ASSUME NEW t \in Things, age'[t] <= Ttl
                 PROVE  history # <<>> /\ (Near(t, known') \/ Has(memory', t, age'[t]))
      BY <1>1 DEF Recalled, Near
    <2>1. age'[t] = age[t] /\ ~(t \notin Blocks!Plannable({t}) /\ \A k \in list : Blocks!Away(t, k) > Match)
      BY <1>1, <1>6
    <2>2. history # <<>> /\ (Near(t, known) \/ Has(memory, t, age[t]))
      BY <2>1 DEF BlocksInv, Recalled
    <2>3. t \in Int /\ known \subseteq Int /\ list \subseteq Int /\ Match \in Nat
      BY <1>2, BlocksAssumption
    <2>4. \A k \in Int : Blocks!Away(t, k) \in Nat
      BY <2>3 DEF Blocks!Away
    <2>5. Near(t, known) => t \notin Blocks!Plannable({t})
      BY <2>3, <2>4 DEF Near, Blocks!Plannable
    <2>6. ~(\A k \in list : Blocks!Away(t, k) > Match) => Near(t, known')
      BY <1>1, <2>3, <2>4 DEF Near
    <2>7. Has(memory, t, age[t]) => Near(t, known') \/ Has(memory', t, age[t])
      BY <1>4, <1>5 DEF Has
    <2> QED BY <2>1, <2>2, <2>5, <2>6, <2>7
  <1>9. Blocks!PlanAvoidsSeen'
    BY <1>1 DEF BlocksInv, Blocks!PlanAvoidsSeen
  <1> QED BY <1>1, <1>2, <1>5, <1>7, <1>8, <1>9 DEF BlocksInv

LEMMA ClockKeeps ==
  ASSUME BlocksInv, Blocks!BlocksClock
  PROVE  BlocksInv'
  <1> DEFINE older(n) == Blocks!Older(n, Ttl + 1)
  <1>1. /\ age' = [t \in Things |-> older(age[t])] /\ UNCHANGED <<clusters, known, history, job>>
        /\ memory' = [i \in DOMAIN memory |-> [memory[i] EXCEPT !.age = older(memory[i].age)]]
    BY DEF Blocks!BlocksClock
  <1>2. memory \in Memories /\ age \in [Things -> 0 .. Ttl + 1] /\ Ttl \in Nat
    BY BlocksAssumption DEF BlocksInv
  <1>3. \A n \in 0 .. Ttl + 1 : older(n) \in 0 .. Ttl + 1 /\ (older(n) <= Ttl => n <= Ttl)
    BY <1>2 DEF Blocks!Older
  <1> HIDE DEF older
  <1>4. /\ Len(memory) \in Nat /\ DOMAIN memory' = DOMAIN memory /\ DOMAIN memory = 1 .. Len(memory)
        /\ \A i \in DOMAIN memory : memory'[i] \in Remembered /\ memory'[i].at = memory[i].at
                                  /\ memory'[i].age = older(memory[i].age)
    <2>1. ASSUME NEW i \in DOMAIN memory
          PROVE  memory'[i] \in Remembered /\ memory'[i].at = memory[i].at /\ memory'[i].age = older(memory[i].age)
      <3>1. memory'[i] = [memory[i] EXCEPT !.age = older(memory[i].age)] /\ memory[i] \in Remembered
        BY <1>1, <1>2, MemoryFacts
      <3>2. older(memory[i].age) \in 0 .. Ttl + 1
        BY <1>3, <3>1 DEF Remembered
      <3> QED BY <3>1, <3>2 DEF Remembered
    <2> QED BY <1>1, <1>2, <2>1, MemoryFacts
  <1>5. memory' \in Memories
    <2>1. memory' = [i \in 1 .. Len(memory) |-> memory'[i]]
      BY <1>1, <1>4
    <2>2. memory' \in Seq(Remembered)
      BY <1>4, <2>1
    <2> QED BY <1>2, <1>4, <2>2, MemoryFacts DEF Memories
  <1>6. age' \in [Things -> 0 .. Ttl + 1]
    BY <1>1, <1>2, <1>3
  <1>7. Recalled'
    <2> SUFFICES ASSUME NEW t \in Things, age'[t] <= Ttl
                 PROVE  history # <<>> /\ (Near(t, known) \/ Has(memory', t, age'[t]))
      BY <1>1 DEF Recalled, Near
    <2>1. age[t] \in 0 .. Ttl + 1 /\ age'[t] = older(age[t])
      BY <1>1, <1>2
    <2>2. history # <<>> /\ (Near(t, known) \/ Has(memory, t, age[t]))
      BY <1>3, <2>1 DEF BlocksInv, Recalled
    <2>3. Has(memory, t, age[t]) => Has(memory', t, age'[t])
      BY <1>4, <2>1 DEF Has
    <2> QED BY <2>2, <2>3
  <1>8. Blocks!PlanAvoidsSeen'
    BY <1>1 DEF BlocksInv, Blocks!PlanAvoidsSeen
  <1> QED BY <1>1, <1>5, <1>6, <1>7, <1>8 DEF BlocksInv

\* A plan is made around everything that was in view lately: what is remembered of it is left out
\* only for a cluster in view, which, so close, is the thing itself.
LEMMA RequestAvoids ==
  ASSUME Apart, BlocksInv, Blocks!Request, UNCHANGED known
  PROVE  Blocks!PlanAvoidsSeen'
  <1>1. CASE job.busy
    BY <1>1 DEF Blocks!Request, BlocksInv, Blocks!PlanAvoidsSeen
  <1>2. CASE ~job.busy
    <2>1. job' = [costs |-> known \cup (IF history # <<>> \/ clusters # {} THEN Blocks!LidarBoxes ELSE {}),
                  firm |-> known, due |-> {t \in Things : age[t] <= Ttl}, busy |-> TRUE]
      BY <1>2 DEF Blocks!Request
    <2> SUFFICES ASSUME NEW t \in Things, age[t] <= Ttl
                 PROVE  \E p \in job'.costs : p = t \/ (p \in known /\ Blocks!Away(p, t) <= Match)
      BY <2>1 DEF Blocks!PlanAvoidsSeen
    <2>2. history # <<>> /\ (Near(t, known) \/ Has(memory, t, age[t]))
      BY DEF BlocksInv, Recalled
    <2>3. job'.costs = known \cup Blocks!LidarBoxes
      BY <2>1, <2>2
    <2>4. known \subseteq Int /\ t \in Int /\ \A s, u \in Int : Blocks!Away(s, u) = Blocks!Away(u, s) /\ Blocks!Away(s, u) \in Nat
      <3>1. known \subseteq Int /\ t \in Int
        <4>1. known \subseteq Things /\ Things \subseteq Int
          BY BlocksAssumption DEF BlocksInv
        <4> QED BY <4>1
      <3>2. ASSUME NEW s \in Int, NEW u \in Int
            PROVE  Blocks!Away(s, u) = Blocks!Away(u, s) /\ Blocks!Away(s, u) \in Nat
        BY DEF Blocks!Away
      <3> QED BY <3>1, <3>2
    <2>5. CASE Near(t, known)
      BY <2>3, <2>4, <2>5 DEF Near
    <2>6. CASE ~Near(t, known)
      <3> DEFINE current == IF clusters # {} THEN Blocks!Plannable(clusters) ELSE Blocks!Plannable(Range(history))
                 pruned == Blocks!Pruned(memory)
      <3>1. Blocks!LidarBoxes = current \cup Blocks!Plannable(Blocks!MemoryBoxes(current))
        BY DEF Blocks!LidarBoxes, Blocks!Range, Range
      <3>2. current \subseteq Things
        <4>1. Range(history) \subseteq Things
          BY DEF BlocksInv, Range
        <4> QED BY <4>1 DEF BlocksInv, Blocks!Plannable
      <3>3. pruned \in Memories /\ Has(pruned, t, age[t])
        <4>1. memory \in Memories /\ Has(memory, t, age[t])
          BY <2>2, <2>6 DEF BlocksInv
        <4> QED BY <4>1, PrunedMemory
      <3> HIDE DEF current
      <3>4. CASE t \in current
        BY <2>3, <3>1, <3>4
      <3>5. CASE t \notin current
        <4>1. \A c \in current : Blocks!Away(t, c) > Merge
          BY <3>2, <3>5 DEF Apart
        <4>2. PICK i \in DOMAIN pruned : pruned[i].at = t
          BY <3>3 DEF Has
        <4>3. t \in Blocks!MemoryBoxes(current)
          BY <4>1, <4>2 DEF Blocks!MemoryBoxes, Blocks!Range
        <4>4. \A k \in known : Blocks!Away(t, k) > Match
          <5> SUFFICES ASSUME NEW k \in known PROVE Blocks!Away(t, k) > Match
            OBVIOUS
          <5>1. Blocks!Away(t, k) \in Nat /\ Match \in Nat /\ ~(Blocks!Away(t, k) <= Match)
            BY <2>4, <2>6, BlocksAssumption DEF Near
          <5> QED BY <5>1
        <4>5. t \in Blocks!Plannable(Blocks!MemoryBoxes(current))
          BY <4>3, <4>4 DEF Blocks!Plannable
        <4> QED BY <2>3, <3>1, <4>5
      <3> QED BY <3>4, <3>5
    <2> QED BY <2>5, <2>6
  <1> QED BY <1>1, <1>2

\* What does not touch the frame, the memory or what is known.
LEMMA Frameless ==
  ASSUME BlocksInv, UNCHANGED <<clusters, known, memory, history, age>>, Blocks!PlanAvoidsSeen'
  PROVE  BlocksInv'
  BY DEF BlocksInv, Recalled, Near, Has

LEMMA BlocksSteps == Apart /\ BlocksInv /\ Blocks!BlocksStep => BlocksInv'
  <1> SUFFICES ASSUME Apart, BlocksInv, Blocks!BlocksStep PROVE BlocksInv'
    OBVIOUS
  <1>1. ASSUME NEW F \in SUBSET Things, Blocks!Scan(F) PROVE BlocksInv'
    BY <1>1, ScanKeeps
  <1>2. ASSUME NEW list \in SUBSET Things, Blocks!Discovered(list) PROVE BlocksInv'
    BY <1>2, DiscoveredKeeps
  <1>3. CASE Blocks!Tick
    <2>1. UNCHANGED <<clusters, known, memory, history, age>> /\ (Blocks!Request \/ UNCHANGED job)
      BY <1>3 DEF Blocks!Tick
    <2>2. Blocks!PlanAvoidsSeen'
      <3>1. CASE Blocks!Request
        BY <2>1, <3>1, RequestAvoids
      <3>2. CASE UNCHANGED job
        BY <2>1, <3>2 DEF BlocksInv, Blocks!PlanAvoidsSeen
      <3> QED BY <2>1, <3>1, <3>2
    <2> QED BY <2>1, <2>2, Frameless
  <1>4. CASE Blocks!Worker
    <2>1. UNCHANGED <<clusters, known, memory, history, age>> /\ job' = Blocks!None
      BY <1>4 DEF Blocks!Worker, Blocks!Commit, Blocks!PlanFails
    <2>2. Blocks!PlanAvoidsSeen'
      BY <2>1 DEF Blocks!None, Blocks!PlanAvoidsSeen
    <2> QED BY <2>1, <2>2, Frameless
  <1>5. CASE Blocks!Advance
    <2>1. UNCHANGED <<clusters, known, memory, history, age, job>>
      BY <1>5 DEF Blocks!Advance
    <2>2. Blocks!PlanAvoidsSeen'
      BY <2>1 DEF BlocksInv, Blocks!PlanAvoidsSeen
    <2> QED BY <2>1, <2>2, Frameless
  <1>6. CASE Blocks!BlocksClock
    BY <1>6, ClockKeeps
  <1> QED BY <1>1, <1>2, <1>3, <1>4, <1>5, <1>6 DEF Blocks!BlocksStep

LEMMA BlocksRested == BlocksInv /\ UNCHANGED <<ofBlocks, shared>> => BlocksInv'
  <1> SUFFICES ASSUME BlocksInv, UNCHANGED <<ofBlocks, shared>> PROVE BlocksInv'
    OBVIOUS
  <1>1. UNCHANGED <<clusters, known, memory, history, age, job>>
    BY DEF ofBlocks, shared
  <1>2. Blocks!PlanAvoidsSeen'
    BY <1>1 DEF BlocksInv, Blocks!PlanAvoidsSeen
  <1> QED BY <1>1, <1>2, Frameless

\* A plan is made around everything that was in view within the time to live, or around a known
\* object in its place: whatever stands apart enough not to be merged and is not too much to remember.
THEOREM PlansAvoidSeen == ASSUME Apart PROVE RoutesSpec => [](layer = "blocks" => Blocks!PlanAvoidsSeen)
  <1> DEFINE Inv == layer = "blocks" => BlocksInv
  <1>1. RoutesInit => Inv
    BY BlocksStart DEF RoutesInit, PlansInit
  <1>2. Inv /\ [RoutesNext]_routesVars => Inv'
    <2> SUFFICES ASSUME layer = "blocks", BlocksInv, [RoutesNext]_routesVars PROVE BlocksInv'
      BY PartStays
    <2>1. Blocks!BlocksStep \/ UNCHANGED <<ofBlocks, shared>>
      BY DEF RoutesNext, SearchRuns, BlocksRun, LegsRun, FollowRuns, FieldRuns, ChoiceRuns, ChoiceRest,
             routesVars, plans
    <2> QED BY <2>1, BlocksSteps, BlocksRested
  <1>3. Inv => (layer = "blocks" => Blocks!PlanAvoidsSeen)
    BY DEF BlocksInv
  <1> HIDE DEF Inv
  <1> QED BY <1>1, <1>2, <1>3, PTL DEF RoutesSpec

-----------------------------------------------------------------------------
(* What is worked out one after the other along chains that end.           *)

\* From every element the one before it leads on to an end, at most B steps away.
Chain(D, Ends, before, rank, B) ==
  /\ B \in Nat /\ rank \in [D -> 0 .. B] /\ Ends \subseteq D
  /\ \A d \in D \ Ends : before[d] \in D /\ rank[before[d]] < rank[d]

\* What follows for an element from the value of the element before, and what a step works with.
Follows(f, D, Ends, before, first, op) ==
  \A d \in D : f[d] = IF d \in Ends THEN first[d] ELSE op[<<f[before[d]], d>>]
StepsOf(V, D) == V \X D

\* It exists for every element.
LEMMA ChainRecursion ==
  ASSUME NEW D, NEW Ends, NEW before, NEW rank, NEW B, Chain(D, Ends, before, rank, B),
         NEW V, NEW first \in [D -> V], NEW op \in [StepsOf(V, D \ Ends) -> V]
  PROVE  \E f \in [D -> V] : Follows(f, D, Ends, before, first, op)
  <1> DEFINE Goes(f, d) == f[d] = IF d \in Ends THEN first[d] ELSE op[<<f[before[d]], d>>]
             N == {n \in Nat : \E f \in [D -> V] : \A d \in D : rank[d] <= n => Goes(f, d)}
  <1>0. B \in Nat /\ Ends \subseteq D /\ \A d \in D : rank[d] \in Nat /\ rank[d] <= B
    BY DEF Chain
  <1>1. 0 \in N
    <2>1. ASSUME NEW d \in D, rank[d] <= 0 PROVE Goes(first, d)
      <3>1. d \in Ends
        BY <1>0, <2>1 DEF Chain
      <3> QED BY <3>1
    <2> QED BY <2>1
  <1>2. ASSUME NEW n \in N PROVE n + 1 \in N
    <2>0. n \in Nat
      OBVIOUS
    <2>1. PICK f \in [D -> V] : \A d \in D : rank[d] <= n => Goes(f, d)
      OBVIOUS
    <2>2. PICK h : h = [d \in D |-> IF d \in Ends THEN first[d] ELSE op[<<f[before[d]], d>>]]
      OBVIOUS
    <2>3. h \in [D -> V]
      BY <2>2 DEF Chain, StepsOf
    <2>4. ASSUME NEW d \in D, rank[d] <= n + 1 PROVE Goes(h, d)
      <3>1. CASE d \in Ends
        BY <2>2, <3>1
      <3>2. CASE d \notin Ends
        <4>1. before[d] \in D /\ rank[before[d]] < rank[d]
          BY <3>2 DEF Chain
        <4>2. rank[before[d]] <= n
          BY <1>0, <2>0, <2>4, <4>1
        <4>3. h[before[d]] = f[before[d]]
          BY <2>1, <2>2, <4>1, <4>2
        <4> QED BY <2>2, <3>2, <4>3
      <3> QED BY <3>1, <3>2
    <2> HIDE DEF Goes
    <2> QED BY <2>0, <2>3, <2>4
  <1>3. N = Nat
    <2>1. N \in SUBSET Nat
      OBVIOUS
    <2> HIDE DEF N
    <2> QED BY <1>1, <1>2, <2>1, Induction
  <1>4. B \in N
    BY <1>0, <1>3
  <1> QED BY <1>0, <1>4 DEF Follows

\* What holds of the ends, and of an element if of the one before, holds of every element.
LEMMA ChainInduction ==
  ASSUME NEW D, NEW Ends, NEW before, NEW rank, NEW B, Chain(D, Ends, before, rank, B),
         NEW X, Ends \subseteq X, \A d \in D \ Ends : before[d] \in X => d \in X
  PROVE  D \subseteq X
  <1> DEFINE N == {n \in Nat : \A d \in D : rank[d] <= n => d \in X}
  <1>0. B \in Nat /\ Ends \subseteq D /\ \A d \in D : rank[d] \in Nat /\ rank[d] <= B
    BY DEF Chain
  <1>1. 0 \in N
    <2>1. ASSUME NEW d \in D, rank[d] <= 0 PROVE d \in X
      <3>1. d \in Ends
        BY <1>0, <2>1 DEF Chain
      <3> QED BY <3>1
    <2> QED BY <2>1
  <1>2. ASSUME NEW n \in N PROVE n + 1 \in N
    <2>0. n \in Nat
      OBVIOUS
    <2>1. ASSUME NEW d \in D, rank[d] <= n + 1 PROVE d \in X
      <3>1. CASE d \in Ends
        BY <3>1
      <3>2. CASE d \notin Ends
        <4>1. before[d] \in D /\ rank[before[d]] < rank[d]
          BY <3>2 DEF Chain
        <4>2. rank[before[d]] <= n
          BY <1>0, <2>0, <2>1, <4>1
        <4> QED BY <3>2, <4>1, <4>2
      <3> QED BY <3>1, <3>2
    <2> QED BY <2>0, <2>1
  <1>3. N = Nat
    <2>1. N \in SUBSET Nat
      OBVIOUS
    <2> HIDE DEF N
    <2> QED BY <1>1, <1>2, <2>1, Induction
  <1>4. B \in N
    BY <1>0, <1>3
  <1> QED BY <1>0, <1>4

\* Counting up from 0 is such a chain, and down from n.
Up(n)   == [i \in 1 .. n |-> i - 1]
Down(n) == [i \in 1 .. n |-> i + 1]

LEMMA Counting ==
  ASSUME NEW n \in Nat
  PROVE  /\ Chain(0 .. n, {0}, Up(n), [i \in 0 .. n |-> i], n)
         /\ n > 0 => Chain(1 .. n, {n}, Down(n), [i \in 1 .. n |-> n - i], n)
  BY DEF Chain, Up, Down

\* What is worked out from a first value on.
Counts(f, n, v, op) == \A i \in 0 .. n : f[i] = IF i = 0 THEN v ELSE op[<<f[i - 1], i>>]

LEMMA CountRecursion ==
  ASSUME NEW n \in Nat, NEW V, NEW v \in V, NEW op \in [StepsOf(V, 1 .. n) -> V]
  PROVE  \E f \in [0 .. n -> V] : Counts(f, n, v, op)
  <1> DEFINE D == 0 .. n
             Ends == {0}
             first == [i \in D |-> v]
             rank == [i \in D |-> i]
  <1>1. first \in [D -> V] /\ D \ Ends = 1 .. n
    OBVIOUS
  <1>2. Chain(D, Ends, Up(n), rank, n)
    BY Counting
  <1>3. op \in [StepsOf(V, D \ Ends) -> V]
    BY <1>1
  <1>4. \A d \in D \ Ends : Up(n)[d] = d - 1
    BY <1>1 DEF Up
  <1>5. \A d \in D : first[d] = v /\ (d \in Ends <=> d = 0)
    OBVIOUS
  <1> HIDE DEF D, Ends, first, rank
  <1>6. PICK f \in [D -> V] : Follows(f, D, Ends, Up(n), first, op)
    BY <1>1, <1>2, <1>3, ChainRecursion
  <1>7. \A i \in D : f[i] = IF i = 0 THEN v ELSE op[<<f[i - 1], i>>]
    BY <1>4, <1>5, <1>6 DEF Follows
  <1> QED BY <1>7 DEF D, Counts

LEMMA CountInduction ==
  ASSUME NEW n \in Nat, NEW X, 0 \in X, \A i \in 1 .. n : i - 1 \in X => i \in X
  PROVE  0 .. n \subseteq X
  <1>1. Chain(0 .. n, {0}, Up(n), [i \in 0 .. n |-> i], n)
    BY Counting
  <1>2. \A d \in 0 .. n \ {0} : Up(n)[d] \in X => d \in X
    BY DEF Up
  <1> QED BY <1>1, <1>2, ChainInduction

-----------------------------------------------------------------------------
(* The corners.  Circles at neighbouring corners take less than the segment between them.       *)

\* A point of the rounded path, and what there is of one: at least its start.
Pt     == [at : Int, kind : {"straight", "arc", "corner"}, gap : Int]
Parts  == {s \in Seq(Pt) : s # <<>>}

LEMMA AtFacts ==
  ASSUME lengths \in [1 .. Corners + 1 -> Segments]
  PROVE  /\ \A i \in 0 .. Corners + 1 : Profile!At[i] \in Nat
         /\ Profile!At[0] = 0 /\ \A i \in 1 .. Corners + 1 : Profile!At[i] = Profile!At[i - 1] + lengths[i]
  <1> DEFINE N == Corners + 1
             op == [e \in StepsOf(Nat, 1 .. N) |-> e[1] + lengths[e[2]]]
             Runs(g) == g = [i \in 0 .. N |-> IF i = 0 THEN 0 ELSE g[i - 1] + lengths[i]]
  <1>1. N \in Nat /\ \A i \in 1 .. N : lengths[i] \in Nat
    <2>1. Corners + 1 \in Nat /\ \A l \in Segments : l \in Nat
      BY ProfileAssumption
    <2> HIDE DEF N
    <2>2. \A i \in 1 .. N : lengths[i] \in Segments
      BY DEF N
    <2> QED BY <2>1, <2>2 DEF N
  <1>2. op \in [StepsOf(Nat, 1 .. N) -> Nat] /\ \A a \in Nat, i \in 1 .. N : op[<<a, i>>] = a + lengths[i]
    BY <1>1 DEF StepsOf
  <1> HIDE DEF op
  <1> HIDE DEF N
  <1>3. PICK g \in [0 .. N -> Nat] : Counts(g, N, 0, op)
    <2>1. 0 \in Nat
      OBVIOUS
    <2> QED BY <1>1, <1>2, <2>1, CountRecursion
  <1>4. \A i \in 0 .. N : g[i] = IF i = 0 THEN 0 ELSE g[i - 1] + lengths[i]
    <2> SUFFICES ASSUME NEW i \in 0 .. N, i # 0 PROVE g[i] = g[i - 1] + lengths[i]
      BY <1>3 DEF Counts
    <2>1. i \in 1 .. N /\ i - 1 \in 0 .. N
      BY <1>1
    <2> QED BY <1>2, <1>3, <2>1 DEF Counts
  <1>5. Runs(g)
    BY <1>3, <1>4
  <1>6. Profile!At = CHOOSE f : Runs(f)
    BY DEF Profile!At, N
  <1>7. Runs(Profile!At)
    BY <1>5, <1>6
  <1> DEFINE A == Profile!At
  <1> HIDE DEF A
  <1>8. A[0] = 0 /\ \A i \in 1 .. N : A[i] = A[i - 1] + lengths[i]
    <2>1. \A i \in 0 .. N : A[i] = IF i = 0 THEN 0 ELSE A[i - 1] + lengths[i]
      BY <1>7 DEF A
    <2>2. 0 \in 0 .. N /\ \A i \in 1 .. N : i \in 0 .. N /\ i # 0
      BY <1>1
    <2> QED BY <2>1, <2>2
  <1> DEFINE X == {i \in 0 .. N : A[i] \in Nat}
  <1>9. 0 \in X /\ \A i \in 1 .. N : i - 1 \in X => i \in X
    <2>1. 0 \in 0 .. N /\ \A i \in 1 .. N : i \in 0 .. N /\ lengths[i] \in Nat
      BY <1>1
    <2> QED BY <1>8, <2>1
  <1> HIDE DEF X
  <1>10. 0 .. N \subseteq X
    BY <1>1, <1>9, CountInduction
  <1>11. \A i \in 0 .. N : A[i] \in Nat
    BY <1>10 DEF X
  <1> QED BY <1>8, <1>11 DEF A, N

\* How far the route has come once corner i is done.
Past(i) == IF i \in 1 .. Corners /\ Profile!Rounded(i) THEN Profile!At[i] + bend[i] ELSE Profile!At[i]

\* Segments and tangents are of their kinds; a corner that is no bend has no tangent.
ProfileTyped ==
  /\ lengths \in [1 .. Corners + 1 -> Segments] /\ bend \in [1 .. Corners -> Tangents \cup {0}]

LEMMA ArcFits ==
  ASSUME ProfileTyped, NEW i \in 1 .. Corners + 1
  PROVE  /\ Profile!At[i] \in Int /\ Past(i - 1) \in Int /\ Past(i - 1) < Profile!At[i]
         /\ i <= Corners /\ Profile!Rounded(i) =>
              bend[i] \in Nat /\ bend[i] >= 2 /\ Past(i - 1) < Profile!At[i] - bend[i] /\ Past(i) = Profile!At[i] + bend[i]
         /\ ~(i <= Corners /\ Profile!Rounded(i)) => Past(i) = Profile!At[i]
  <1> DEFINE a == Profile!At[i - 1]
             b == Profile!At[i]
             l == lengths[i]
  <1>1. i \in Int /\ Corners \in Nat /\ i - 1 \in 0 .. Corners + 1 /\ i \in 0 .. Corners + 1
    BY ProfileAssumption
  <1>2. l \in Nat /\ l > 0
    <2>1. l \in Segments
      BY DEF ProfileTyped
    <2>2. \A s \in Segments : s \in Nat /\ s > 0
      BY ProfileAssumption
    <2> QED BY <2>1, <2>2
  <1>3. a \in Nat /\ b \in Nat /\ b = a + l
    BY <1>1, AtFacts DEF ProfileTyped
  <1>4. ASSUME NEW k \in 1 .. Corners, bend[k] > 0 PROVE bend[k] \in Nat /\ bend[k] >= 2
    <2>1. bend[k] \in Tangents \cup {0}
      BY DEF ProfileTyped
    <2>2. bend[k] # 0
      BY <1>4
    <2>3. bend[k] \in Nat \ {0, 1}
      BY <2>1, <2>2, ProfileAssumption
    <2> QED BY <2>3
  <1>5. /\ Past(i - 1) \in Int /\ Past(i - 1) >= a
        /\ 20 * (Past(i - 1) - a) <= 9 * l
    <2>1. CASE i - 1 \in 1 .. Corners /\ Profile!Rounded(i - 1)
      <3> DEFINE k == i - 1
      <3>1. bend[k] > 0 /\ 20 * bend[k] <= 9 * lengths[k + 1] /\ k + 1 = i
        BY <1>1, <2>1 DEF Profile!Rounded, Profile!Fits
      <3>2. bend[k] \in Nat
        BY <1>4, <2>1, <3>1
      <3>3. Past(k) = a + bend[k]
        BY <2>1 DEF Past
      <3> HIDE DEF a, b, k
      <3>4. 20 * bend[k] <= 9 * l
        BY <3>1
      <3> HIDE DEF l
      <3>5. Past(k) \in Int /\ Past(k) >= a /\ 20 * (Past(k) - a) <= 9 * l
        BY <1>2, <1>3, <3>2, <3>3, <3>4
      <3> QED BY <3>5 DEF k
    <2>2. CASE ~(i - 1 \in 1 .. Corners /\ Profile!Rounded(i - 1))
      <3>1. Past(i - 1) = a
        BY <2>2 DEF Past
      <3> HIDE DEF a, l
      <3> QED BY <1>2, <1>3, <3>1
    <2> QED BY <2>1, <2>2
  <1> HIDE DEF a, l
  <1>6. Past(i - 1) < b
    <2> HIDE DEF b
    <2> QED BY <1>2, <1>3, <1>5
  <1>7. ASSUME i <= Corners, Profile!Rounded(i)
        PROVE  bend[i] \in Nat /\ bend[i] >= 2 /\ Past(i - 1) < b - bend[i] /\ Past(i) = b + bend[i]
    <2>1. i \in 1 .. Corners
      BY <1>1, <1>7
    <2>2. bend[i] > 0 /\ 20 * bend[i] <= 9 * l
      BY <1>7 DEF Profile!Rounded, Profile!Fits, l
    <2>3. bend[i] \in Nat /\ bend[i] >= 2
      BY <1>4, <2>1, <2>2
    <2>4. Past(i) = b + bend[i]
      BY <1>7, <2>1 DEF Past
    <2> HIDE DEF b
    <2> QED BY <1>2, <1>3, <1>5, <2>2, <2>3, <2>4
  <1>8. ASSUME ~(i <= Corners /\ Profile!Rounded(i)) PROVE Past(i) = b
    BY <1>1, <1>8 DEF Past
  <1> QED BY <1>3, <1>5, <1>6, <1>7, <1>8

\* A part of the route that leads on from point to point as far as corner i.
LeadsOn(out, i) ==
  /\ out \in Parts /\ out[1].at = 0 /\ out[Len(out)].at = Past(i)
  /\ \A k \in 2 .. Len(out) : out[k].gap > 0 /\ out[k].at > out[k - 1].at

LEMMA AppendLeads ==
  ASSUME NEW out \in Parts, NEW p \in Pt
  PROVE  /\ Append(out, p) \in Parts /\ Len(Append(out, p)) = Len(out) + 1 /\ Len(out) \in Nat /\ Len(out) >= 1
         /\ Append(out, p)[Len(out) + 1] = p /\ \A k \in 1 .. Len(out) : Append(out, p)[k] = out[k]
         /\ out[Len(out)] \in Pt
  <1>1. out \in Seq(Pt) /\ out # <<>>
    BY DEF Parts
  <1>2. Len(out) \in Nat /\ Len(out) >= 1
    BY <1>1
  <1>3. Append(out, p) \in Seq(Pt) /\ Append(out, p) # <<>>
    BY <1>1
  <1> QED BY <1>1, <1>2, <1>3 DEF Parts

LEMMA WithLeads ==
  ASSUME ProfileTyped, NEW i \in 1 .. Corners + 1, NEW out, LeadsOn(out, i - 1)
  PROVE  LeadsOn(Profile!With(out, i), i)
  <1> DEFINE b == Profile!At[i]
             n == Len(out)
             half == (3 * bend[i]) \div 4
             last == out[n].at
             r == Profile!With(out, i)
             arc == i <= Corners /\ Profile!Rounded(i)
  <1>1. /\ out \in Parts /\ out \in Seq(Pt) /\ n \in Nat /\ n >= 1 /\ last = Past(i - 1) /\ out[1].at = 0
        /\ \A k \in 2 .. n : out[k].gap > 0 /\ out[k].at > out[k - 1].at
    BY DEF LeadsOn, Parts
  <1>2. /\ b \in Int /\ last \in Int /\ last < b
        /\ arc => bend[i] \in Nat /\ bend[i] >= 2 /\ last < b - bend[i] /\ Past(i) = b + bend[i]
        /\ ~arc => Past(i) = b
    BY <1>1, ArcFits
  <1>3. CASE arc
    <2> DEFINE p1 == Profile!Point(b - bend[i], "straight", b - bend[i] - last)
               p2 == Profile!Point(b, "arc", half)
               p3 == Profile!Point(b + bend[i], "arc", half)
               t == <<p1, p2, p3>>
    <2>1. half \in Int /\ half > 0
      BY <1>2, <1>3
    <2>2. /\ p1 \in Pt /\ p1.at = b - bend[i] /\ p1.gap = b - bend[i] - last
          /\ p2 \in Pt /\ p2.at = b /\ p2.gap = half /\ p3 \in Pt /\ p3.at = b + bend[i] /\ p3.gap = half
      <3> HIDE DEF half, b, last
      <3> QED BY <1>2, <1>3, <2>1 DEF Pt, Profile!Point
    <2>3. r = out \o t
      BY <1>3 DEF Profile!With
    <2> HIDE DEF p1, p2, p3, r
    <2>4. t \in Seq(Pt) /\ Len(t) = 3 /\ t[1] = p1 /\ t[2] = p2 /\ t[3] = p3
      BY <2>2
    <2> HIDE DEF t
    <2>5. /\ r \in Seq(Pt) /\ Len(r) = n + 3
          /\ \A k \in 1 .. n + 3 : r[k] = IF k <= n THEN out[k] ELSE t[k - n]
      <3>1. out \in Seq(Pt) /\ t \in Seq(Pt) /\ Len(t) = 3 /\ n \in Nat
        BY <1>1, <2>4
      <3> HIDE DEF n
      <3>2. /\ out \o t \in Seq(Pt) /\ Len(out \o t) = n + Len(t)
            /\ \A k \in 1 .. n + Len(t) : (out \o t)[k] = IF k <= n THEN out[k] ELSE t[k - n]
        BY <3>1, ConcatProperties DEF n
      <3> QED BY <2>3, <3>1, <3>2
    <2> HIDE DEF n
    <2>6. /\ \A k \in 1 .. n : r[k] = out[k]
          /\ r[n + 1] = p1 /\ r[n + 2] = p2 /\ r[n + 3] = p3
      <3>1. \A k \in 1 .. n : k \in 1 .. n + 3 /\ k <= n
        BY <1>1
      <3>2. \A k \in 1 .. 3 : n + k \in 1 .. n + 3 /\ ~(n + k <= n) /\ (n + k) - n = k
        BY <1>1
      <3>3. \A k \in 1 .. 3 : r[n + k] = t[k]
        BY <2>5, <3>2
      <3> QED BY <2>4, <2>5, <3>1, <3>3
    <2>7. ASSUME NEW k \in 2 .. n + 3 PROVE r[k].gap > 0 /\ r[k].at > r[k - 1].at
      <3>1. CASE k \in 2 .. n
        <4>1. k \in 1 .. n /\ k - 1 \in 1 .. n
          BY <1>1, <3>1
        <4> QED BY <1>1, <2>6, <3>1, <4>1
      <3>2. CASE k = n + 1
        <4>1. k - 1 = n /\ n \in 1 .. n
          BY <1>1, <3>2
        <4>2. r[k] = p1 /\ r[k - 1].at = last
          BY <2>6, <3>2, <4>1 DEF n
        <4> HIDE DEF b, last
        <4> QED BY <1>2, <1>3, <2>2, <4>2
      <3>3. CASE k = n + 2
        <4>1. k - 1 = n + 1
          BY <1>1, <3>3
        <4> HIDE DEF b, last, half
        <4> QED BY <1>2, <1>3, <2>1, <2>2, <2>6, <3>3, <4>1
      <3>4. CASE k = n + 3
        <4>1. k - 1 = n + 2
          BY <1>1, <3>4
        <4> HIDE DEF b, last, half
        <4> QED BY <1>2, <1>3, <2>1, <2>2, <2>6, <3>4, <4>1
      <3>5. k \in 2 .. n \/ k = n + 1 \/ k = n + 2 \/ k = n + 3
        <4>1. n \in Nat
          BY <1>1
        <4> QED BY <4>1
      <3> QED BY <3>1, <3>2, <3>3, <3>4, <3>5
    <2>8. r \in Parts /\ r[1].at = 0 /\ r[Len(r)].at = Past(i)
      <3>1. r # <<>> /\ 1 \in 1 .. n
        BY <1>1, <2>5
      <3> QED BY <1>1, <1>2, <1>3, <2>2, <2>5, <2>6, <3>1 DEF Parts
    <2> QED BY <2>5, <2>7, <2>8 DEF r, LeadsOn
  <1>4. CASE ~arc
    <2> DEFINE kind == IF i <= Corners THEN "corner" ELSE "straight"
               p == Profile!Point(b, kind, b - last)
    <2>1. p \in Pt /\ p.at = b /\ p.gap = b - last
      <3> HIDE DEF b, last
      <3> QED BY <1>2 DEF Pt, Profile!Point
    <2>2. r = Append(out, p)
      BY <1>4 DEF Profile!With
    <2> HIDE DEF p, r
    <2>3. /\ r \in Parts /\ Len(r) = n + 1 /\ r[n + 1] = p /\ \A k \in 1 .. n : r[k] = out[k]
      BY <1>1, <2>1, <2>2, AppendLeads
    <2> HIDE DEF n
    <2>4. ASSUME NEW k \in 2 .. n + 1 PROVE r[k].gap > 0 /\ r[k].at > r[k - 1].at
      <3>1. CASE k \in 2 .. n
        <4>1. k \in 1 .. n /\ k - 1 \in 1 .. n
          BY <1>1, <3>1
        <4> QED BY <1>1, <2>3, <3>1, <4>1
      <3>2. CASE k = n + 1
        <4>1. k - 1 = n /\ n \in 1 .. n
          BY <1>1, <3>2
        <4>2. r[k] = p /\ r[k - 1].at = last
          BY <2>3, <3>2, <4>1 DEF n
        <4> HIDE DEF b, last
        <4> QED BY <1>2, <2>1, <4>2
      <3>3. k \in 2 .. n \/ k = n + 1
        BY <1>1
      <3> QED BY <3>1, <3>2, <3>3
    <2>5. 1 \in 1 .. n
      BY <1>1
    <2> QED BY <1>1, <1>2, <1>4, <2>1, <2>3, <2>4, <2>5 DEF r, LeadsOn
  <1> QED BY <1>3, <1>4

LEMMA WithTyped ==
  ASSUME ProfileTyped, NEW i \in 1 .. Corners + 1, NEW out \in Parts
  PROVE  Profile!With(out, i) \in Parts
  <1> DEFINE b == Profile!At[i]
             n == Len(out)
             half == (3 * bend[i]) \div 4
             last == out[n].at
             r == Profile!With(out, i)
             arc == i <= Corners /\ Profile!Rounded(i)
  <1>1. out \in Seq(Pt) /\ out # <<>> /\ n \in Nat /\ n >= 1 /\ last \in Int
    <2>1. out \in Seq(Pt) /\ out # <<>>
      BY DEF Parts
    <2>2. n \in Nat /\ n >= 1 /\ out[n] \in Pt
      BY <2>1
    <2> QED BY <2>1, <2>2 DEF Pt
  <1>2. b \in Int /\ (arc => bend[i] \in Nat /\ half \in Int)
    BY ArcFits
  <1> HIDE DEF b, half, last
  <1>3. CASE arc
    <2> DEFINE p1 == Profile!Point(b - bend[i], "straight", b - bend[i] - last)
               p2 == Profile!Point(b, "arc", half)
               p3 == Profile!Point(b + bend[i], "arc", half)
               t == <<p1, p2, p3>>
    <2>1. p1 \in Pt /\ p2 \in Pt /\ p3 \in Pt
      BY <1>1, <1>2, <1>3 DEF Pt, Profile!Point
    <2>2. r = out \o t
      BY <1>3 DEF Profile!With, b, half, last
    <2> HIDE DEF p1, p2, p3, r
    <2>3. t \in Seq(Pt) /\ Len(t) = 3
      BY <2>1
    <2> HIDE DEF t
    <2>4. r \in Seq(Pt) /\ Len(r) = n + 3
      BY <1>1, <2>2, <2>3, ConcatProperties
    <2>5. r # <<>>
      BY <1>1, <2>4
    <2> QED BY <2>4, <2>5 DEF Parts, r
  <1>4. CASE ~arc
    <2> DEFINE kind == IF i <= Corners THEN "corner" ELSE "straight"
               p == Profile!Point(b, kind, b - last)
    <2>1. p \in Pt
      BY <1>1, <1>2 DEF Pt, Profile!Point
    <2>2. r = Append(out, p)
      BY <1>4 DEF Profile!With, b, last
    <2> HIDE DEF p, r
    <2> QED BY <2>1, <2>2, AppendLeads DEF r
  <1> QED BY <1>3, <1>4

\* The rounded route leads on from point to point.
LEMMA RoundingLeads ==
  ASSUME ProfileTyped
  PROVE  LeadsOn(Profile!Rounding[Corners + 1], Corners + 1)
  <1> DEFINE N == Corners + 1
             start == <<Profile!Point(0, "straight", 0)>>
             op == [e \in StepsOf(Parts, 1 .. N) |-> Profile!With(e[1], e[2])]
             Runs(g) == g = [i \in 0 .. N |-> IF i = 0 THEN start ELSE Profile!With(g[i - 1], i)]
  <1>1. N \in Nat /\ start \in Parts /\ start[1].at = 0 /\ Len(start) = 1
    <2>1. Profile!Point(0, "straight", 0) \in Pt /\ Profile!Point(0, "straight", 0).at = 0
      BY DEF Pt, Profile!Point
    <2>2. N \in Nat
      BY ProfileAssumption
    <2> HIDE DEF N
    <2>3. start \in Seq(Pt) /\ start # <<>> /\ Len(start) = 1 /\ start[1] = Profile!Point(0, "straight", 0)
      BY <2>1
    <2> QED BY <2>1, <2>2, <2>3 DEF Parts
  <1>2. op \in [StepsOf(Parts, 1 .. N) -> Parts] /\ \A out \in Parts, i \in 1 .. N : op[<<out, i>>] = Profile!With(out, i)
    <2>1. ASSUME NEW e \in StepsOf(Parts, 1 .. N) PROVE Profile!With(e[1], e[2]) \in Parts
      <3>1. e[1] \in Parts /\ e[2] \in 1 .. N
        BY DEF StepsOf
      <3> QED BY <3>1, WithTyped
    <2>2. \A out \in Parts, i \in 1 .. N : <<out, i>> \in StepsOf(Parts, 1 .. N)
      BY DEF StepsOf
    <2> QED BY <2>1, <2>2
  <1> HIDE DEF op, start
  <1>3. PICK g \in [0 .. N -> Parts] : Counts(g, N, start, op)
    BY <1>1, <1>2, CountRecursion
  <1>4. \A i \in 1 .. N : i \in 0 .. N /\ i - 1 \in 0 .. N /\ i # 0
    BY <1>1
  <1>5. \A i \in 0 .. N : i # 0 => i \in 1 .. N
    BY <1>1
  <1>0. N = Corners + 1
    OBVIOUS
  <1> HIDE DEF N
  <1>6. Runs(g)
    <2>1. \A i \in 0 .. N : g[i] = IF i = 0 THEN start ELSE Profile!With(g[i - 1], i)
      BY <1>2, <1>3, <1>4, <1>5 DEF Counts
    <2> QED BY <1>3, <2>1
  <1>7. Profile!Rounding = CHOOSE f : Runs(f)
    BY <1>0 DEF Profile!Rounding, start
  <1> DEFINE R == Profile!Rounding
  <1>8. Runs(R)
    BY <1>6, <1>7
  <1> HIDE DEF R
  <1>9. R[0] = start /\ \A i \in 1 .. N : R[i] = Profile!With(R[i - 1], i)
    <2>1. \A i \in 0 .. N : R[i] = IF i = 0 THEN start ELSE Profile!With(R[i - 1], i)
      BY <1>8
    <2>2. 0 \in 0 .. N
      BY <1>1
    <2> QED BY <1>4, <2>1, <2>2
  <1> DEFINE X == {i \in 0 .. N : LeadsOn(R[i], i)}
  <1>10. LeadsOn(start, 0)
    <2>1. Past(0) = 0
      BY AtFacts DEF Past, ProfileTyped
    <2>2. \A k \in 2 .. Len(start) : FALSE
      BY <1>1
    <2> QED BY <1>1, <2>1, <2>2 DEF LeadsOn
  <1>11. 0 \in X /\ \A i \in 1 .. N : i - 1 \in X => i \in X
    <2>1. 0 \in X
      BY <1>1, <1>9, <1>10
    <2>2. ASSUME NEW i \in 1 .. N, i - 1 \in X PROVE i \in X
      <3>1. LeadsOn(R[i - 1], i - 1)
        BY <2>2
      <3>2. LeadsOn(Profile!With(R[i - 1], i), i)
        BY <1>0, <3>1, WithLeads
      <3> QED BY <1>4, <1>9, <3>2
    <2> QED BY <2>1, <2>2
  <1> HIDE DEF X
  <1>12. 0 .. N \subseteq X
    BY <1>1, <1>11, CountInduction
  <1>13. N \in 0 .. N
    BY <1>1
  <1>14. N \in X
    BY <1>12, <1>13
  <1>15. LeadsOn(R[N], N)
    BY <1>14 DEF X
  <1> QED BY <1>0, <1>15 DEF R

\* The way that remains gets shorter from point to point.
LEMMA RemainingFalls ==
  ASSUME NEW pts \in Parts, \A k \in 2 .. Len(pts) : pts[k].gap > 0
  PROVE  \A i \in 1 .. Len(pts) - 1 :
            /\ Profile!Remaining(pts)[i] \in Int /\ Profile!Remaining(pts)[i + 1] \in Int
            /\ Profile!Remaining(pts)[i + 1] < Profile!Remaining(pts)[i]
  <1> DEFINE n == Len(pts)
             D == 1 .. n
             op == [e \in StepsOf(Int, D \ {n}) |-> e[1] + pts[e[2] + 1].gap]
             first == [i \in D |-> 0]
             rank == [i \in D |-> n - i]
             Runs(g) == g = [i \in DOMAIN pts |-> IF i = Len(pts) THEN 0 ELSE g[i + 1] + pts[i + 1].gap]
  <1>1. n \in Nat /\ n >= 1 /\ DOMAIN pts = D /\ \A i \in D : pts[i] \in Pt
    BY DEF Parts
  <1>0. n \in Nat /\ n > 0
    BY <1>1
  <1>2. \A i \in D \ {n} : i + 1 \in D /\ i + 1 \in 2 .. n /\ Down(n)[i] = i + 1
    <2> HIDE DEF n
    <2> QED BY <1>0 DEF Down
  <1>3. \A i \in D \ {n} : pts[i + 1].gap \in Int /\ pts[i + 1].gap > 0
    <2>1. \A p \in Pt : p.gap \in Int
      BY DEF Pt
    <2> HIDE DEF n, D
    <2> QED BY <1>1, <1>2, <2>1 DEF n
  <1>4. Chain(D, {n}, Down(n), rank, n)
    <2> HIDE DEF n
    <2> QED BY <1>0, Counting
  <1>5. first \in [D -> Int]
    OBVIOUS
  <1>6. op \in [StepsOf(Int, D \ {n}) -> Int] /\ \A a \in Int, i \in D \ {n} : op[<<a, i>>] = a + pts[i + 1].gap
    <2> HIDE DEF D, n
    <2>1. \A e \in StepsOf(Int, D \ {n}) : e[1] \in Int /\ e[2] \in D \ {n}
      BY DEF StepsOf
    <2>2. \A a \in Int, i \in D \ {n} : <<a, i>> \in StepsOf(Int, D \ {n})
      BY DEF StepsOf
    <2>3. \A e \in StepsOf(Int, D \ {n}) : e[1] + pts[e[2] + 1].gap \in Int
      BY <1>3, <2>1
    <2> QED BY <2>2, <2>3
  <1>7. \A i \in D : first[i] = 0
    OBVIOUS
  <1> HIDE DEF D, n, op, first, rank
  <1>8. PICK g \in [D -> Int] : Follows(g, D, {n}, Down(n), first, op)
    BY <1>4, <1>5, <1>6, ChainRecursion
  <1>9. \A i \in D : g[i] = IF i = n THEN 0 ELSE g[i + 1] + pts[i + 1].gap
    BY <1>2, <1>6, <1>7, <1>8 DEF Follows
  <1>10. Runs(g)
    BY <1>1, <1>8, <1>9 DEF n
  <1>11. Profile!Remaining(pts) = CHOOSE f : Runs(f)
    BY DEF Profile!Remaining
  <1> DEFINE W == Profile!Remaining(pts)
  <1>12. Runs(W)
    BY <1>10, <1>11
  <1> HIDE DEF W
  <1>13. \A i \in D : W[i] = IF i = n THEN 0 ELSE W[i + 1] + pts[i + 1].gap
    BY <1>1, <1>12 DEF n
  <1> DEFINE X == {i \in D : W[i] \in Int}
  <1>14. {n} \subseteq X /\ \A d \in D \ {n} : Down(n)[d] \in X => d \in X
    <2>1. n \in D
      BY <1>1 DEF D
    <2> QED BY <1>2, <1>3, <1>13, <2>1
  <1> HIDE DEF X
  <1>15. D \subseteq X
    BY <1>4, <1>14, ChainInduction
  <1>16. \A i \in D : W[i] \in Int
    BY <1>15 DEF X
  <1>17. \A i \in 1 .. n - 1 : i \in D \ {n} /\ i \in D
    BY <1>1 DEF D
  <1>18. \A i \in 1 .. n - 1 : W[i] \in Int /\ W[i + 1] \in Int /\ W[i + 1] < W[i]
    BY <1>2, <1>3, <1>13, <1>16, <1>17
  <1> QED BY <1>18 DEF W, n

\* The rounding of a route's corners is sound for any corners and lengths.
LEMMA ProfileIsSound == ProfileTyped => Profile!ProfileSound
  <1> SUFFICES ASSUME ProfileTyped PROVE Profile!ProfileSound
    OBVIOUS
  <1> DEFINE pts == Profile!Rounding[Corners + 1]
             n == Len(pts)
  <1>1. LeadsOn(pts, Corners + 1)
    BY RoundingLeads
  <1>2. Past(Corners + 1) = Profile!At[Corners + 1]
    BY ProfileAssumption DEF Past
  <1> HIDE DEF pts
  <1>3. /\ pts \in Parts /\ n \in Nat /\ n >= 1
        /\ \A i \in 1 .. n - 1 :
            /\ Profile!Remaining(pts)[i] \in Int /\ Profile!Remaining(pts)[i + 1] \in Int
            /\ Profile!Remaining(pts)[i + 1] < Profile!Remaining(pts)[i]
    BY <1>1, RemainingFalls DEF LeadsOn, Parts
  <1>4. ASSUME NEW i \in 1 .. n - 1, Profile!Phase(pts, i) \in {"brake", "stop"}
        PROVE  Profile!Phase(pts, i + 1) \in {"brake", "stop"}
    <2>1. i # n
      BY <1>3
    <2>2. Profile!Remaining(pts)[i] <= Brake
      BY <1>4, <2>1 DEF Profile!Phase
    <2>3. Profile!Remaining(pts)[i + 1] <= Brake
      BY <1>3, <2>2, ProfileAssumption
    <2> QED BY <2>3 DEF Profile!Phase
  <1>5. \A i \in 1 .. n : Profile!Phase(pts, i) = "cruise" => pts[i].kind # "arc"
    BY DEF Profile!Phase
  <1> QED BY <1>1, <1>2, <1>3, <1>4, <1>5 DEF LeadsOn, Profile!ProfileSound, pts

-----------------------------------------------------------------------------
(* The search.  What it works with: the free neighbours of a cell, what a step to one of them   *)
(* costs, the estimate of how far a cell is from the goal, and what that does not exceed.       *)

Beyond  == [c \in Grid |-> Search!Neighbors(c)]
Costs   == [e \in Grid \X Grid |-> Search!Move(e[1], e[2])]
Guess(g) == [c \in Grid |-> Search!Heuristic(c, g)]
Ahead(g) == [c \in Grid |-> Octile(c, g) + Excess]

\* Steps lead to cells and cost something, and no step gets closer to the goal than it costs.
Graded(near, way, left) ==
    /\ near \in [Grid -> SUBSET Grid] /\ way \in [Grid \X Grid -> Nat] /\ left \in [Grid -> Nat]
    /\ \A c \in Grid : \A n \in near[c] : n # c /\ way[<<c, n>>] > 0 /\ left[c] <= way[<<c, n>>] + left[n]

\* An estimate that keeps below a graded one.
Under(guess, left) == guess \in [Grid -> Nat] /\ \A c \in Grid : guess[c] <= left[c]

\* Distances along the axes make up the distance.
LEMMA Distance ==
  ASSUME NEW p \in Int \X Int, NEW q \in Int \X Int
  PROVE  /\ Search!Dx(p, q) \in Nat /\ Search!Dy(p, q) \in Nat
         /\ Search!Dx(p, q) * Search!Dx(p, q) + Search!Dy(p, q) * Search!Dy(p, q) = Squared(p, q)
  <1>1. \A i \in Int : Search!Abs(i) \in Nat /\ Search!Abs(i) * Search!Abs(i) = i * i
    BY DEF Search!Abs
  <1>2. p[1] - q[1] \in Int /\ p[2] - q[2] \in Int
    OBVIOUS
  <1> QED BY <1>1, <1>2 DEF Search!Dx, Search!Dy, Squared

\* The cells are those of the grid.
LEMMA GridFacts == Grid \subseteq Int \X Int /\ Search!Cells = Grid /\ IsFiniteSet(Grid)
  <1>1. IsFiniteSet(0 .. Cols - 1) /\ IsFiniteSet(0 .. Rows - 1)
    <2>1. 0 \in Int /\ Cols - 1 \in Int /\ Rows - 1 \in Int
      BY SearchAssumption
    <2> QED BY <2>1, FS_Interval
  <1>2. IsFiniteSet(Grid)
    BY <1>1, FS_Product DEF Grid
  <1> QED BY <1>2, SearchAssumption DEF Grid, Search!Cells

LEMMA Toll ==
  ASSUME grid \in SUBSET Grid, NEW c \in Grid
  PROVE  Search!Extra(c) \in Nat
  <1>0. c \in Int \X Int /\ c[1] \in Int /\ \A g \in grid : g \in Int \X Int
    BY GridFacts
  <1>1. Search!Clearance(c) \in 0 .. Desired
    <2> DEFINE d(g) == Search!Dx(c, g) + Search!Dy(c, g)
               D == {k \in 0 .. Desired : \E g \in grid : d(g) = k}
    <2>1. \A g \in grid : d(g) \in Nat
      BY <1>0, Distance
    <2>2. CASE \E g \in grid : d(g) < Desired
      <3>1. PICK g0 \in grid : d(g0) < Desired
        BY <2>2
      <3>2. d(g0) \in D
        BY <2>1, <3>1, SearchAssumption
      <3>3. IsFiniteSet(D) /\ D \in SUBSET Int
        <4>1. D \in SUBSET (0 .. Desired) /\ 0 \in Int /\ Desired \in Int
          BY SearchAssumption
        <4>2. IsFiniteSet(0 .. Desired)
          BY <4>1, FS_Interval
        <4> HIDE DEF D
        <4>3. D \in SUBSET Int
          BY <4>1
        <4> QED BY <4>1, <4>2, <4>3, FS_Subset
      <3>4. PICK k \in D : \A l \in D : k <= l
        <4> HIDE DEF D, d
        <4> QED BY <3>2, <3>3, HasLeast
      <3>5. k \in 0 .. Desired - 1 /\ \A g \in grid : d(g) >= k
        <4>1. k <= d(g0) /\ k \in 0 .. Desired
          BY <3>2, <3>4
        <4>2. ASSUME NEW g \in grid PROVE d(g) >= k
          <5>1. CASE d(g) \in D
            BY <3>4, <5>1
          <5>2. CASE d(g) \notin D
            <6>1. ~(d(g) \in 0 .. Desired)
              BY <5>2
            <6>2. d(g) \in Nat /\ d(g) > Desired
              <7> HIDE DEF d
              <7> QED BY <2>1, <6>1, SearchAssumption
            <6> HIDE DEF d
            <6> QED BY <4>1, <6>2, SearchAssumption
          <5> QED BY <5>1, <5>2
        <4>3. d(g0) \in Nat
          BY <2>1
        <4> HIDE DEF d, D
        <4> QED BY <3>1, <4>1, <4>2, <4>3, SearchAssumption
      <3>6. \E g \in grid : d(g) = k
        BY <3>4
      <3>7. Search!Clearance(c) = CHOOSE j \in 0 .. Desired - 1 : (\E g \in grid : d(g) = j) /\ \A g \in grid : d(g) >= j
        BY <2>2 DEF Search!Clearance
      <3>8. Search!Clearance(c) \in 0 .. Desired - 1
        <4> HIDE DEF d, D
        <4> QED BY <3>5, <3>6, <3>7
      <3> QED BY <3>8, SearchAssumption
    <2>3. CASE ~\E g \in grid : d(g) < Desired
      BY <2>3, SearchAssumption DEF Search!Clearance
    <2> QED BY <2>2, <2>3
  <1>2. \A i, j \in Nat : i * j \in Nat
    OBVIOUS
  <1>3. Weight * (Desired - Search!Clearance(c)) \in Nat
    BY <1>1, <1>2, SearchAssumption
  <1>4. c[1] > Bound => SideWeight * (c[1] - Bound) \in Nat
    <2>1. c[1] > Bound => c[1] - Bound \in Nat
      BY <1>0, SearchAssumption
    <2> QED BY <1>2, <2>1, SearchAssumption
  <1> QED BY <1>3, <1>4, RootAssumption DEF Search!Extra

LEMMA NeighborFacts ==
  ASSUME grid \in SUBSET Grid, NEW c \in Grid, NEW n \in Search!Neighbors(c)
  PROVE  /\ n \in Grid /\ n # c /\ Squared(c, n) \in 1 .. 2
         /\ Search!Stride(c, n) = IF Squared(c, n) = 2 THEN Diagonal ELSE Unit
         /\ Search!Dx(c, n) <= 1 /\ Search!Dy(c, n) <= 1 /\ Search!Dx(c, n) + Search!Dy(c, n) \in 1 .. 2
  <1> DEFINE i == Search!Dx(c, n)
             k == Search!Dy(c, n)
  <1>1. n \in Grid /\ n # c /\ i <= 1 /\ k <= 1
    BY GridFacts DEF Search!Neighbors, Search!Free
  <1>2. c \in Int \X Int /\ n \in Int \X Int
    BY <1>1, GridFacts
  <1>3. i \in Nat /\ k \in Nat /\ i * i + k * k = Squared(c, n)
    BY <1>2, Distance
  <1>4. i + k # 0
    <2>1. c[1] # n[1] \/ c[2] # n[2]
      BY <1>1, <1>2
    <2> QED BY <1>2, <2>1 DEF Search!Dx, Search!Dy, Search!Abs
  <1>5. Search!Stride(c, n) = IF i + k = 2 THEN Diagonal ELSE Unit
    BY DEF Search!Stride
  <1> HIDE DEF i, k
  <1>6. i \in {0, 1} /\ k \in {0, 1}
    BY <1>1, <1>3
  <1>7. (i = 1 /\ k = 1) \/ (i = 1 /\ k = 0) \/ (i = 0 /\ k = 1)
    BY <1>4, <1>6
  <1>8. i * i + k * k = i + k /\ i + k \in 1 .. 2
    BY <1>7
  <1>9. i * i + k * k = Squared(c, n)
    BY <1>3
  <1> QED BY <1>1, <1>5, <1>8, <1>9 DEF i, k

\* Distances along the axes are numbers, and a step changes each by one at most.
Far(c, g, i) == IF c[i] < g[i] THEN g[i] - c[i] ELSE c[i] - g[i]
MinorAxis(m, n)  == IF m < n THEN m ELSE n
MajorAxis(m, n)   == IF m < n THEN n ELSE m

LEMMA OctileIs ==
  ASSUME NEW c \in Int \X Int, NEW g \in Int \X Int
  PROVE  /\ Far(c, g, 1) \in Nat /\ Far(c, g, 2) \in Nat
         /\ Octile(c, g) = Unit * MajorAxis(Far(c, g, 1), Far(c, g, 2))
                             + (Diagonal - Unit) * MinorAxis(Far(c, g, 1), Far(c, g, 2))
  BY DEF Octile, Far, MajorAxis, MinorAxis

\* The cheapest steps over free cells get no shorter by more than a step costs.
LEMMA OctileStep ==
  ASSUME NEW c \in Int \X Int, NEW n \in Int \X Int, NEW g \in Int \X Int,
         Search!Dx(c, n) <= 1, Search!Dy(c, n) <= 1, Search!Dx(c, n) + Search!Dy(c, n) \in 1 .. 2
  PROVE  /\ Octile(c, g) \in Nat /\ Octile(n, g) \in Nat
         /\ Octile(c, g) <= Search!Stride(c, n) + Octile(n, g)
  <1> DEFINE x1 == Far(c, g, 1)
             y1 == Far(c, g, 2)
             x2 == Far(n, g, 1)
             y2 == Far(n, g, 2)
             Rest == Diagonal - Unit
             Step == Search!Stride(c, n)
  <1>1. Unit \in Nat /\ Rest \in Nat /\ Rest <= Unit
    BY RootAssumption
  <1>2. x1 \in Nat /\ y1 \in Nat /\ x2 \in Nat /\ y2 \in Nat
    BY OctileIs
  <1>3. \A i, k \in Nat : i * k \in Nat
    OBVIOUS
  <1>4. /\ Octile(c, g) = Unit * MajorAxis(x1, y1) + Rest * MinorAxis(x1, y1)
        /\ Octile(n, g) = Unit * MajorAxis(x2, y2) + Rest * MinorAxis(x2, y2)
    BY OctileIs
  <1>5. Search!Dx(c, n) \in Nat /\ Search!Dy(c, n) \in Nat
    BY Distance
  <1>6. /\ x1 <= x2 + Search!Dx(c, n) /\ y1 <= y2 + Search!Dy(c, n)
        /\ Step = IF Search!Dx(c, n) + Search!Dy(c, n) = 2 THEN Unit + Rest ELSE Unit
    BY RootAssumption DEF Far, Search!Dx, Search!Dy, Search!Abs, Search!Stride
  <1> HIDE DEF x1, y1, x2, y2, Rest, Step
  <1>7. MajorAxis(x1, y1) \in Nat /\ MajorAxis(x2, y2) \in Nat /\ MinorAxis(x1, y1) \in Nat /\ MinorAxis(x2, y2) \in Nat
    BY <1>2 DEF MajorAxis, MinorAxis
  <1>8. /\ MajorAxis(x1, y1) <= MajorAxis(x2, y2) + 1 /\ MinorAxis(x1, y1) <= MinorAxis(x2, y2) + 1
        /\ Search!Dx(c, n) + Search!Dy(c, n) = 1 =>
             MajorAxis(x1, y1) <= MajorAxis(x2, y2) \/ MinorAxis(x1, y1) <= MinorAxis(x2, y2)
    BY <1>2, <1>5, <1>6 DEF MajorAxis, MinorAxis
  <1>9. \A w, i, j \in Nat : (i <= j => w * i <= w * j) /\ (i <= j + 1 => w * i <= w * j + w)
    <2> TAKE w, i, j \in Nat
    <2>1. ASSUME NEW k \in Nat, i <= k PROVE w * i <= w * k
      <3>1. k - i \in Nat /\ w * (k - i) \in Nat
        BY <1>3, <2>1
      <3>2. w * k = w * i + w * (k - i)
        OBVIOUS
      <3>3. w * i \in Nat
        BY <1>3
      <3> QED BY <3>1, <3>2, <3>3
    <2>2. w * (j + 1) = w * j + w
      OBVIOUS
    <2>3. j + 1 \in Nat
      OBVIOUS
    <2> QED BY <2>1, <2>2, <2>3
  <1> DEFINE MostC == Unit * MajorAxis(x1, y1)
             MostN == Unit * MajorAxis(x2, y2)
             LeastC == Rest * MinorAxis(x1, y1)
             LeastN == Rest * MinorAxis(x2, y2)
  <1>10. MostC \in Nat /\ MostN \in Nat /\ LeastC \in Nat /\ LeastN \in Nat
    BY <1>1, <1>3, <1>7
  <1>11. MostC <= MostN + Unit /\ LeastC <= LeastN + Rest
    BY <1>1, <1>7, <1>8, <1>9
  <1>12. (MajorAxis(x1, y1) <= MajorAxis(x2, y2) => MostC <= MostN) /\ (MinorAxis(x1, y1) <= MinorAxis(x2, y2) => LeastC <= LeastN)
    BY <1>1, <1>7, <1>9
  <1>13. Octile(c, g) = MostC + LeastC /\ Octile(n, g) = MostN + LeastN
    BY <1>4
  <1> HIDE DEF MostC, MostN, LeastC, LeastN
  <1>14. CASE Search!Dx(c, n) + Search!Dy(c, n) = 1
    <2>1. Step = Unit
      BY <1>6, <1>14
    <2> QED BY <1>1, <1>8, <1>10, <1>11, <1>12, <1>13, <1>14, <2>1 DEF Step
  <1>15. CASE Search!Dx(c, n) + Search!Dy(c, n) = 2
    <2>1. Step = Unit + Rest
      BY <1>6, <1>15
    <2> QED BY <1>1, <1>10, <1>11, <1>13, <2>1 DEF Step
  <1> QED BY <1>5, <1>14, <1>15

\* The grid is such a place for every goal on it, and the estimate keeps below that.
LEMMA GridGraded ==
  ASSUME grid \in SUBSET Grid, NEW g \in Grid
  PROVE  Graded(Beyond, Costs, Ahead(g)) /\ Under(Guess(g), Ahead(g)) /\ Ahead(g)[g] = Excess
  <1>1. \A c \in Grid : Search!Neighbors(c) \in SUBSET Grid
    BY NeighborFacts
  <1>2. \A c, n \in Grid : Search!Stride(c, n) \in Nat /\ Search!Move(c, n) \in Nat /\ Search!Move(c, n) >= Search!Stride(c, n)
    <2> TAKE c, n \in Grid
    <2>1. Search!Stride(c, n) \in Nat
      BY RootAssumption DEF Search!Stride
    <2>2. Search!Extra(n) \in Nat
      BY Toll
    <2> QED BY <2>1, <2>2 DEF Search!Move
  <1>3. \A c \in Grid : c \in Int \X Int /\ Search!Heuristic(c, g) = Root[Squared(c, g)]
    BY GridFacts, Distance DEF Search!Heuristic
  <1>4. \A c \in Grid : Guess(g)[c] = Root[Squared(c, g)] /\ Guess(g)[c] \in Nat
    BY <1>3, RootAssumption DEF Guess
  <1>5. \A c \in Grid : Octile(c, g) \in Nat
    <2> TAKE c \in Grid
    <2>1. Far(c, g, 1) \in Nat /\ Far(c, g, 2) \in Nat
      BY <1>3, OctileIs
    <2> DEFINE most == MajorAxis(Far(c, g, 1), Far(c, g, 2))
               least == MinorAxis(Far(c, g, 1), Far(c, g, 2))
    <2>2. most \in Nat /\ least \in Nat
      BY <2>1 DEF MajorAxis, MinorAxis
    <2>3. Unit \in Nat /\ Diagonal - Unit \in Nat
      BY RootAssumption
    <2>4. \A i, k \in Nat : i * k \in Nat
      OBVIOUS
    <2>5. Octile(c, g) = Unit * most + (Diagonal - Unit) * least
      BY <1>3, OctileIs
    <2> HIDE DEF most, least
    <2>6. Unit * most \in Nat /\ (Diagonal - Unit) * least \in Nat
      BY <2>2, <2>3, <2>4
    <2> QED BY <2>5, <2>6
  <1>6. Excess \in Nat /\ \A c \in Grid : Ahead(g)[c] = Octile(c, g) + Excess /\ Ahead(g)[c] \in Nat
    BY <1>5, RootAssumption DEF Ahead
  <1>7. Ahead(g) \in [Grid -> Nat] /\ Guess(g) \in [Grid -> Nat]
    BY <1>4, <1>6 DEF Ahead, Guess
  <1>8. Under(Guess(g), Ahead(g))
    BY <1>4, <1>6, <1>7, RootAssumption DEF Under
  <1>9. Beyond \in [Grid -> SUBSET Grid] /\ \A c \in Grid : Beyond[c] = Search!Neighbors(c)
    BY <1>1 DEF Beyond
  <1>10. Costs \in [Grid \X Grid -> Nat] /\ \A c, n \in Grid : Costs[<<c, n>>] = Search!Move(c, n)
    BY <1>2 DEF Costs
  <1>11. ASSUME NEW c \in Grid, NEW n \in Beyond[c]
         PROVE  n # c /\ Costs[<<c, n>>] > 0 /\ Ahead(g)[c] <= Costs[<<c, n>>] + Ahead(g)[n]
    <2>1. /\ n \in Grid /\ n # c /\ Search!Dx(c, n) <= 1 /\ Search!Dy(c, n) <= 1
          /\ Search!Dx(c, n) + Search!Dy(c, n) \in 1 .. 2
      BY <1>9, NeighborFacts
    <2>2. Octile(c, g) <= Search!Stride(c, n) + Octile(n, g)
      BY <1>3, <2>1, OctileStep
    <2>3. Search!Stride(c, n) > 0
      BY RootAssumption DEF Search!Stride
    <2> QED BY <1>2, <1>5, <1>6, <1>10, <2>1, <2>2, <2>3
  <1>12. Ahead(g)[g] = Excess
    <2>1. Far(g, g, 1) = 0 /\ Far(g, g, 2) = 0
      BY <1>3 DEF Far
    <2>2. Octile(g, g) = Unit * 0 + (Diagonal - Unit) * 0
      BY <1>3, <2>1, OctileIs DEF MajorAxis, MinorAxis
    <2>3. \A i \in Int : i * 0 = 0
      OBVIOUS
    <2>4. Octile(g, g) = 0
      BY <2>2, <2>3, RootAssumption
    <2> QED BY <1>6, <2>4
  <1> QED BY <1>7, <1>8, <1>9, <1>10, <1>11, <1>12 DEF Graded

\* What the search knows: each cell it has come upon has a way back to the start that costs less
\* and less, and waits in the queue or has led on to every neighbour.
Waits(queue, c, most) == \E e \in queue : e[2] = c /\ e[1] <= most
LedOn(near, way, dist, c) ==
    \A n \in near[c] : n \in DOMAIN dist /\ dist[n] <= dist[c] + way[<<c, n>>]
WaysBack(near, start, back, dist) ==
    /\ DOMAIN back \subseteq Grid /\ start \in DOMAIN back
    /\ back \in [DOMAIN back -> DOMAIN back] /\ dist \in [DOMAIN back -> Nat] /\ dist[start] = 0
    /\ \A c \in DOMAIN back \ {start} : c \in near[back[c]] /\ dist[back[c]] < dist[c]
Wave(near, way, left, start, back, dist, queue) ==
    /\ WaysBack(near, start, back, dist)
    /\ queue \subseteq Nat \X DOMAIN back /\ \A e \in queue : dist[e[2]] <= e[1]
    /\ \A c \in DOMAIN back : Waits(queue, c, dist[c] + left[c]) \/ LedOn(near, way, dist, c)

LEMMA WaveStarts ==
  ASSUME NEW near, NEW way, NEW left, Graded(near, way, left), NEW start \in Grid
  PROVE  Wave(near, way, left, start, [c \in {start} |-> start], [c \in {start} |-> 0], {<<0, start>>})
  <1>1. left[start] \in Nat
    BY DEF Graded
  <1>2. Waits({<<0, start>>}, start, 0 + left[start])
    BY <1>1 DEF Waits
  <1> QED BY <1>2 DEF Wave, WaysBack

\* A turn of the loop: the neighbours that are reached at less cost are queued.
Better(near, way, dist, c) == {n \in near[c] : n \notin DOMAIN dist \/ dist[c] + way[<<c, n>>] < dist[n]}
\* What is known then: the costs, the ways back, and what waits.
NewDist(near, way, dist, c) ==
    [n \in Better(near, way, dist, c) \cup DOMAIN dist |->
        IF n \in Better(near, way, dist, c) THEN dist[c] + way[<<c, n>>] ELSE dist[n]]
NewBack(near, way, back, dist, c) ==
    [n \in Better(near, way, dist, c) \cup DOMAIN back |-> IF n \in Better(near, way, dist, c) THEN c ELSE back[n]]
NewQueue(near, way, guess, dist, queue, e) ==
    (queue \ {e}) \cup {<<dist[e[2]] + way[<<e[2], n>>] + guess[n], n>> : n \in Better(near, way, dist, e[2])}

LEMMA WaveGoesOn ==
  ASSUME NEW near, NEW way, NEW left, Graded(near, way, left), NEW guess, Under(guess, left),
         NEW start, NEW back, NEW dist, NEW queue, Wave(near, way, left, start, back, dist, queue), NEW e \in queue
  PROVE  Wave(near, way, left, start, NewBack(near, way, back, dist, e[2]), NewDist(near, way, dist, e[2]),
              NewQueue(near, way, guess, dist, queue, e))
  <1> DEFINE c == e[2]
             K == DOMAIN back
             new(n) == dist[c] + way[<<c, n>>]
             better == Better(near, way, dist, c)
             dist1 == NewDist(near, way, dist, c)
             back1 == NewBack(near, way, back, dist, c)
             queue1 == NewQueue(near, way, guess, dist, queue, e)
  <1>0. /\ better = {n \in near[c] : n \notin DOMAIN dist \/ new(n) < dist[n]}
        /\ dist1 = [n \in better \cup DOMAIN dist |-> IF n \in better THEN new(n) ELSE dist[n]]
        /\ back1 = [n \in better \cup DOMAIN back |-> IF n \in better THEN c ELSE back[n]]
        /\ queue1 = (queue \ {e}) \cup {<<new(n) + guess[n], n>> : n \in better}
    BY DEF Better, NewDist, NewBack, NewQueue
  <1> HIDE DEF better, dist1, back1, queue1
  <1>1. /\ K \subseteq Grid /\ start \in K /\ back \in [K -> K] /\ dist \in [K -> Nat] /\ dist[start] = 0
        /\ \A d \in K \ {start} : d \in near[back[d]] /\ dist[back[d]] < dist[d]
        /\ queue \subseteq Nat \X K /\ \A f \in queue : dist[f[2]] <= f[1]
        /\ \A d \in K : Waits(queue, d, dist[d] + left[d]) \/ LedOn(near, way, dist, d)
        /\ DOMAIN dist = K
    BY DEF Wave, WaysBack
  <1>2. c \in K /\ c \in Grid /\ near[c] \subseteq Grid /\ dist[c] \in Nat
    BY <1>1 DEF Graded
  <1>3. /\ better \subseteq near[c] /\ better \subseteq Grid
        /\ \A n \in better : new(n) \in Nat /\ new(n) > dist[c] /\ n # c /\ guess[n] \in Nat
        /\ \A n \in near[c] \ better : n \in K /\ dist[n] <= new(n)
        /\ \A n \in better \cap K : new(n) < dist[n]
    <2>1. \A n \in near[c] : /\ n \in Grid /\ n # c /\ way[<<c, n>>] \in Nat /\ way[<<c, n>>] > 0 /\ guess[n] \in Nat
      BY <1>2 DEF Graded, Under
    <2>2. \A n \in K : dist[n] \in Nat
      BY <1>1
    <2> QED BY <1>0, <1>1, <1>2, <2>1, <2>2
  <1>4. c \notin better /\ start \notin better
    BY <1>0, <1>1, <1>2, <1>3
  <1>5. /\ DOMAIN back1 = better \cup K /\ DOMAIN dist1 = better \cup K
        /\ \A n \in better : back1[n] = c /\ dist1[n] = new(n)
        /\ \A n \in K \ better : back1[n] = back[n] /\ dist1[n] = dist[n]
    BY <1>0, <1>1
  <1> DEFINE L == better \cup K
  <1>6. back1 \in [L -> L] /\ dist1 \in [L -> Nat]
    <2>1. back1 = [n \in L |-> IF n \in better THEN c ELSE back[n]]
      BY <1>0
    <2>2. \A n \in L : (IF n \in better THEN c ELSE back[n]) \in L
      BY <1>1, <1>2
    <2>3. dist1 = [n \in L |-> IF n \in better THEN new(n) ELSE dist[n]]
      BY <1>0, <1>1
    <2>4. \A n \in L : (IF n \in better THEN new(n) ELSE dist[n]) \in Nat
      BY <1>1, <1>3
    <2> HIDE DEF L, new
    <2> QED BY <2>1, <2>2, <2>3, <2>4
  <1>7. \A d \in K : dist1[d] \in Nat /\ dist[d] \in Nat /\ dist1[d] <= dist[d]
    <2> TAKE d \in K
    <2>1. dist[d] \in Nat
      BY <1>1
    <2>2. CASE d \in better
      <3> HIDE DEF new
      <3>1. new(d) < dist[d] /\ new(d) \in Nat /\ dist1[d] = new(d)
        BY <1>3, <1>5, <2>2
      <3> QED BY <2>1, <3>1
    <2>3. CASE d \notin better
      BY <1>5, <2>1, <2>3
    <2> QED BY <2>2, <2>3
  <1>8. dist1[c] = dist[c] /\ dist1[start] = 0 /\ start \in L /\ L \subseteq Grid
    BY <1>1, <1>2, <1>3, <1>4, <1>5
  <1> HIDE DEF L, new
  <1>9. ASSUME NEW d \in L \ {start} PROVE d \in near[back1[d]] /\ dist1[back1[d]] < dist1[d]
    <2>1. CASE d \in better
      BY <1>2, <1>3, <1>5, <1>8, <2>1
    <2>2. CASE d \in K \ better
      <3>1. back1[d] = back[d] /\ dist1[d] = dist[d] /\ back[d] \in K /\ d # start
        BY <1>1, <1>5, <2>2
      <3>2. dist1[back[d]] <= dist[back[d]] /\ dist[back[d]] < dist[d] /\ d \in near[back[d]]
        BY <1>1, <1>7, <2>2, <3>1
      <3>3. dist1[back[d]] \in Nat /\ dist[back[d]] \in Nat /\ dist[d] \in Nat
        BY <1>7, <2>2, <3>1
      <3>4. dist1[back[d]] < dist[d]
        BY <3>2, <3>3
      <3> QED BY <3>1, <3>2, <3>4
    <2> QED BY <2>1, <2>2 DEF L
  <1> DEFINE Added == {<<new(n) + guess[n], n>> : n \in better}
  <1>10. queue1 = (queue \ {e}) \cup Added
    BY <1>0 DEF new
  <1>12. ASSUME NEW f \in queue1 PROVE f \in Nat \X L /\ dist1[f[2]] <= f[1]
    <2>1. CASE f \in queue
      <3>1. f \in Nat \X K /\ dist[f[2]] <= f[1]
        BY <1>1, <2>1
      <3>2. dist1[f[2]] <= dist[f[2]] /\ dist1[f[2]] \in Nat /\ dist[f[2]] \in Nat /\ f[1] \in Nat
        BY <1>7, <3>1
      <3>3. dist1[f[2]] <= f[1]
        BY <3>1, <3>2
      <3> QED BY <3>1, <3>3 DEF L
    <2>2. CASE f \in Added
      <3>1. PICK n \in better : f = <<new(n) + guess[n], n>>
        BY <2>2
      <3>2. new(n) \in Nat /\ guess[n] \in Nat /\ dist1[n] = new(n)
        BY <1>3, <1>5
      <3>3. n \in L
        BY DEF L
      <3> QED BY <3>1, <3>2, <3>3
    <2> QED BY <1>10, <2>1, <2>2
  <1>13. ASSUME NEW d \in L PROVE Waits(queue1, d, dist1[d] + left[d]) \/ LedOn(near, way, dist1, d)
    <2>1. CASE d \in better
      <3> DEFINE f == <<new(d) + guess[d], d>>
      <3>1. dist1[d] = new(d) /\ new(d) \in Nat /\ guess[d] \in Nat /\ left[d] \in Nat /\ guess[d] <= left[d]
        <4>1. d \in Grid
          BY <1>3, <2>1
        <4> QED BY <1>3, <1>5, <2>1, <4>1 DEF Graded, Under
      <3>2. f \in queue1 /\ f[2] = d /\ f[1] = new(d) + guess[d]
        <4>1. f \in Added
          BY <2>1
        <4> QED BY <1>10, <4>1
      <3>3. f[1] <= dist1[d] + left[d]
        <4> HIDE DEF f
        <4> QED BY <3>1, <3>2
      <3> QED BY <3>2, <3>3 DEF Waits
    <2>2. CASE d = c
      <3>1. ASSUME NEW n \in near[c] PROVE n \in DOMAIN dist1 /\ dist1[n] <= dist1[c] + way[<<c, n>>]
        <4>1. CASE n \in better
          <5>1. dist1[n] = new(n) /\ n \in DOMAIN dist1 /\ new(n) \in Nat
            BY <1>3, <1>5, <4>1
          <5> QED BY <1>8, <5>1 DEF new
        <4>2. CASE n \notin better
          <5>1. n \in K /\ dist[n] <= new(n) /\ dist1[n] = dist[n]
            BY <1>3, <1>5, <4>2
          <5> QED BY <1>5, <1>8, <5>1 DEF new
        <4> QED BY <4>1, <4>2
      <3> QED BY <2>2, <3>1 DEF LedOn
    <2>3. CASE d \notin better /\ d # c
      <3>1. d \in K /\ dist1[d] = dist[d] /\ dist[d] \in Nat
        BY <1>5, <1>7, <2>3 DEF L
      <3>2. CASE Waits(queue, d, dist[d] + left[d])
        BY <1>10, <2>3, <3>1, <3>2 DEF Waits
      <3>3. CASE LedOn(near, way, dist, d)
        <4>1. d \in Grid /\ \A n \in near[d] : n \in K /\ dist[n] <= dist[d] + way[<<d, n>>] /\ way[<<d, n>>] \in Nat
          BY <1>1, <3>1, <3>3 DEF LedOn, Graded
        <4>2. ASSUME NEW n \in near[d] PROVE dist1[n] <= dist[d] + way[<<d, n>>]
          <5>1. n \in K /\ dist[n] <= dist[d] + way[<<d, n>>] /\ way[<<d, n>>] \in Nat
            BY <4>1
          <5>2. dist1[n] <= dist[n] /\ dist1[n] \in Nat /\ dist[n] \in Nat
            BY <1>7, <5>1
          <5> QED BY <3>1, <5>1, <5>2
        <4>3. \A n \in near[d] : n \in DOMAIN dist1
          BY <1>5, <4>1
        <4> QED BY <3>1, <4>2, <4>3 DEF LedOn
      <3> QED BY <1>1, <3>1, <3>2, <3>3
    <2> QED BY <2>1, <2>2, <2>3
  <1>14. DOMAIN back1 = L
    BY <1>5 DEF L
  <1>15. WaysBack(near, start, back1, dist1)
    BY <1>6, <1>8, <1>9, <1>14 DEF WaysBack
  <1>16. queue1 \subseteq Nat \X L
    BY <1>12
  <1> QED BY <1>12, <1>13, <1>14, <1>15, <1>16 DEF Wave, back1, dist1, queue1

\* Whatever way there is to a cell, the search knows one that costs no more, or has still to look at
\* one on the way whose estimate is no more.
Known(left, dist, queue, c, w) ==
    (c \in DOMAIN dist /\ dist[c] <= w) \/ \E e \in queue : e[1] <= w + left[c]

LEMMA KnownGoesOn ==
  ASSUME NEW near, NEW way, NEW left, Graded(near, way, left), NEW start, NEW back, NEW dist, NEW queue,
         Wave(near, way, left, start, back, dist, queue),
         NEW c \in Grid, NEW w \in Nat, Known(left, dist, queue, c, w), NEW n \in near[c]
  PROVE  Known(left, dist, queue, n, w + way[<<c, n>>])
  <1>1. n \in Grid /\ way[<<c, n>>] \in Nat /\ left[c] \in Nat /\ left[n] \in Nat
        /\ left[c] <= way[<<c, n>>] + left[n]
    BY DEF Graded
  <1>2. \A e \in queue : e[1] \in Nat
    BY DEF Wave
  <1>3. CASE \E e \in queue : e[1] <= w + left[c]
    BY <1>1, <1>2, <1>3 DEF Known
  <1>4. CASE c \in DOMAIN dist /\ dist[c] <= w
    <2>1. c \in DOMAIN back /\ dist[c] \in Nat
      BY <1>4 DEF Wave, WaysBack
    <2>2. CASE Waits(queue, c, dist[c] + left[c])
      BY <1>1, <1>2, <1>4, <2>1, <2>2 DEF Waits, Known
    <2>3. CASE LedOn(near, way, dist, c)
      <3>1. n \in DOMAIN dist /\ dist[n] <= dist[c] + way[<<c, n>>]
        BY <2>3 DEF LedOn
      <3>2. dist[n] \in Nat
        BY <3>1 DEF Wave, WaysBack
      <3> QED BY <1>1, <1>4, <2>1, <3>1, <3>2 DEF Known
    <2> QED BY <2>1, <2>2, <2>3 DEF Wave
  <1> QED BY <1>3, <1>4 DEF Known

\* Whatever the search has yet to find is no cheaper than what it knows.
LEMMA CheapestKnown ==
  ASSUME grid \in SUBSET Grid, goal \in Grid, NEW start \in Grid, NEW back, NEW dist, NEW queue,
         Wave(Beyond, Costs, Ahead(goal), start, back, dist, queue)
  PROVE  \A p \in Search!Cheapest(start) : p \in Grid \X Nat /\ Known(Ahead(goal), dist, queue, p[1], p[2])
  <1> DEFINE V == SUBSET (Grid \X Nat)
             N == Cols * Rows
             Ways(S, c) == {p[2] : p \in {p \in S : p[1] = c}}
                             \cup {p[2] + Search!Move(p[1], c) : p \in {p \in S : c \in Search!Neighbors(p[1])}}
             Least(W) == {w \in W : \A v \in W : w <= v}
             Relaxed(S) == UNION {{c} \X Least(Ways(S, c)) : c \in Search!Cells}
             Runs(g) == g = [n \in 0 .. Cols * Rows |-> IF n = 0 THEN {<<start, 0>>} ELSE Relaxed(g[n - 1])]
             Right(S) == S \in V /\ \A p \in S : Known(Ahead(goal), dist, queue, p[1], p[2])
  <1>1. Graded(Beyond, Costs, Ahead(goal))
    BY GridGraded
  <1>2. \A c \in Grid : Beyond[c] = Search!Neighbors(c) /\ \A n \in Grid : Costs[<<c, n>>] = Search!Move(c, n)
    BY DEF Beyond, Costs
  <1>4. ASSUME NEW S \in V, NEW p \in Relaxed(S)
        PROVE  \/ p \in S
               \/ \E q \in S : /\ p[1] \in Beyond[q[1]] /\ p[1] \in Grid
                               /\ p = <<p[1], q[2] + Costs[<<q[1], p[1]>>]>>
    <2>1. PICK c \in Search!Cells : p \in {c} \X Least(Ways(S, c))
      BY <1>4
    <2>2. c \in Grid /\ p = <<c, p[2]>> /\ p[1] = c /\ p[2] \in Ways(S, c)
      BY <2>1, GridFacts
    <2>3. CASE \E q \in S : q[1] = c /\ p[2] = q[2]
      <3>1. PICK q \in S : q[1] = c /\ p[2] = q[2]
        BY <2>3
      <3>2. q = <<q[1], q[2]>>
        BY <3>1
      <3>3. p = q
        BY <2>2, <3>1, <3>2
      <3> QED BY <3>1, <3>3
    <2>4. CASE \E q \in S : c \in Search!Neighbors(q[1]) /\ p[2] = q[2] + Search!Move(q[1], c)
      <3>1. PICK q \in S : c \in Search!Neighbors(q[1]) /\ p[2] = q[2] + Search!Move(q[1], c)
        BY <2>4
      <3>2. q[1] \in Grid
        BY <3>1
      <3>3. c \in Beyond[q[1]] /\ Costs[<<q[1], c>>] = Search!Move(q[1], c)
        BY <1>2, <2>2, <3>1, <3>2
      <3> QED BY <2>2, <3>1, <3>3
    <2>5. \/ \E q \in S : q[1] = c /\ p[2] = q[2]
          \/ \E q \in S : c \in Search!Neighbors(q[1]) /\ p[2] = q[2] + Search!Move(q[1], c)
      BY <2>2
    <2> QED BY <2>3, <2>4, <2>5
  <1> HIDE DEF Relaxed
  <1>5. ASSUME NEW S \in V PROVE Relaxed(S) \in V
    <2>1. ASSUME NEW p \in Relaxed(S) PROVE p \in Grid \X Nat
      <3>1. CASE p \in S
        BY <3>1
      <3>2. CASE \E q \in S : /\ p[1] \in Beyond[q[1]] /\ p[1] \in Grid /\ p = <<p[1], q[2] + Costs[<<q[1], p[1]>>]>>
        <4>1. PICK q \in S : p[1] \in Grid /\ p = <<p[1], q[2] + Costs[<<q[1], p[1]>>]>>
          BY <3>2
        <4>2. q[1] \in Grid /\ q[2] \in Nat
          BY <4>1
        <4>3. Costs[<<q[1], p[1]>>] \in Nat
          BY <1>1, <4>1, <4>2 DEF Graded
        <4>4. q[2] + Costs[<<q[1], p[1]>>] \in Nat
          BY <4>2, <4>3
        <4> QED BY <4>1, <4>4
      <3> QED BY <1>4, <3>1, <3>2
    <2> QED BY <2>1
  <1>6. ASSUME NEW S, Right(S) PROVE Right(Relaxed(S))
    <2>1. S \in V
      BY <1>6
    <2>2. ASSUME NEW p \in Relaxed(S) PROVE Known(Ahead(goal), dist, queue, p[1], p[2])
      <3>1. CASE p \in S
        BY <1>6, <3>1
      <3>2. CASE \E q \in S : /\ p[1] \in Beyond[q[1]] /\ p[1] \in Grid /\ p = <<p[1], q[2] + Costs[<<q[1], p[1]>>]>>
        <4>1. PICK q \in S : p[1] \in Beyond[q[1]] /\ p[1] \in Grid /\ p = <<p[1], q[2] + Costs[<<q[1], p[1]>>]>>
          BY <3>2
        <4>2. q[1] \in Grid /\ q[2] \in Nat
          BY <2>1, <4>1
        <4>3. Known(Ahead(goal), dist, queue, q[1], q[2])
          BY <1>6, <4>1
        <4>4. Known(Ahead(goal), dist, queue, p[1], q[2] + Costs[<<q[1], p[1]>>])
          BY <1>1, <4>1, <4>2, <4>3, KnownGoesOn
        <4>5. p[2] = q[2] + Costs[<<q[1], p[1]>>]
          BY <4>1
        <4> QED BY <4>4, <4>5
      <3> QED BY <1>4, <2>1, <3>1, <3>2
    <2> QED BY <1>5, <2>1, <2>2
  <1>7. Right({<<start, 0>>})
    <2>1. start \in DOMAIN dist /\ dist[start] = 0
      BY DEF Wave, WaysBack
    <2>2. Known(Ahead(goal), dist, queue, start, 0)
      BY <2>1 DEF Known
    <2> QED BY <2>2
  <1>8. N \in Nat
    BY SearchAssumption
  <1> DEFINE op == [e \in StepsOf(V, 1 .. N) |-> Relaxed(e[1])]
  <1>9. op \in [StepsOf(V, 1 .. N) -> V] /\ \A S \in V, i \in 1 .. N : op[<<S, i>>] = Relaxed(S)
    <2>1. \A e \in StepsOf(V, 1 .. N) : Relaxed(e[1]) \in V
      BY <1>5 DEF StepsOf
    <2>2. \A S \in V, i \in 1 .. N : <<S, i>> \in StepsOf(V, 1 .. N)
      BY DEF StepsOf
    <2> QED BY <2>1, <2>2
  <1>0. {<<start, 0>>} \in V /\ N = Cols * Rows
    OBVIOUS
  <1>10. Search!Cheapest(start) = LET within == CHOOSE g : Runs(g) IN within[N]
    BY DEF Search!Cheapest, Relaxed
  <1> HIDE DEF op, V, N, Right
  <1>11. PICK g \in [0 .. N -> V] : Counts(g, N, {<<start, 0>>}, op)
    BY <1>0, <1>8, <1>9, CountRecursion
  <1>12. \A i \in 1 .. N : i \in 0 .. N /\ i - 1 \in 0 .. N /\ i # 0
    BY <1>8
  <1>13. \A i \in 0 .. N : i # 0 => i \in 1 .. N
    BY <1>8
  <1>14. Runs(g)
    <2>1. \A i \in 0 .. N : g[i] = IF i = 0 THEN {<<start, 0>>} ELSE Relaxed(g[i - 1])
      BY <1>9, <1>11, <1>12, <1>13 DEF Counts
    <2> QED BY <1>0, <1>11, <2>1
  <1>15. PICK within : within = (CHOOSE f : Runs(f)) /\ Runs(within)
    BY <1>14
  <1>16. within[0] = {<<start, 0>>} /\ \A i \in 1 .. N : within[i] = Relaxed(within[i - 1])
    <2>1. \A i \in 0 .. N : within[i] = IF i = 0 THEN {<<start, 0>>} ELSE Relaxed(within[i - 1])
      BY <1>0, <1>15
    <2>2. 0 \in 0 .. N
      BY <1>8
    <2> QED BY <1>12, <2>1, <2>2
  <1> HIDE DEF Runs
  <1> DEFINE X == {i \in 0 .. N : Right(within[i])}
  <1>17. 0 \in X /\ \A i \in 1 .. N : i - 1 \in X => i \in X
    <2>1. 0 \in 0 .. N
      BY <1>8
    <2>2. 0 \in X
      BY <1>7, <1>16, <2>1
    <2>3. ASSUME NEW i \in 1 .. N, i - 1 \in X PROVE i \in X
      <3>1. Right(Relaxed(within[i - 1]))
        BY <1>6, <2>3
      <3> QED BY <1>12, <1>16, <3>1
    <2> QED BY <2>2, <2>3
  <1> HIDE DEF X
  <1>18. 0 .. N \subseteq X
    BY <1>8, <1>17, CountInduction
  <1>19. N \in 0 .. N
    BY <1>8
  <1>20. Right(within[N])
    BY <1>18, <1>19 DEF X
  <1>21. Search!Cheapest(start) = within[N]
    BY <1>10, <1>15
  <1> QED BY <1>20, <1>21 DEF Right, V

\* A sequence of cells from p to q, and one that goes from neighbour to neighbour.
Leads(s, p, q) == s \in Seq(Grid) /\ s # <<>> /\ s[1] = p /\ s[Len(s)] = q
Walks(s)       == \A i \in 2 .. Len(s) : s[i] \in Search!Neighbors(s[i - 1])

\* A neighbour of its last cell goes on with it.
LEMMA AppendWalks ==
  ASSUME NEW s, NEW p \in Grid, NEW q \in Grid, Leads(s, p, q), Walks(s), NEW r \in Search!Neighbors(q), r \in Grid
  PROVE  Leads(Append(s, r), p, r) /\ Walks(Append(s, r))
  <1> DEFINE n == Len(s)
             t == Append(s, r)
  <1>1. n \in Nat /\ n >= 1 /\ s \in Seq(Grid) /\ s[1] = p /\ s[n] = q
    BY DEF Leads
  <1>2. t \in Seq(Grid) /\ Len(t) = n + 1 /\ t[n + 1] = r /\ \A i \in 1 .. n : t[i] = s[i]
    BY <1>1
  <1> HIDE DEF t
  <1>3. ASSUME NEW i \in 2 .. n + 1 PROVE t[i] \in Search!Neighbors(t[i - 1])
    <2>1. i - 1 \in 1 .. n
      BY <1>1, <1>3
    <2>2. CASE i = n + 1
      BY <1>1, <1>2, <2>1, <2>2
    <2>3. CASE i \in 2 .. n
      <3>1. i \in 1 .. n
        BY <1>1, <2>3
      <3> QED BY <1>2, <2>1, <2>3, <3>1 DEF Walks
    <2>4. i = n + 1 \/ i \in 2 .. n
      BY <1>1
    <2> QED BY <2>2, <2>3, <2>4
  <1>4. Leads(t, p, r)
    <2>1. 1 \in 1 .. n
      BY <1>1
    <2>2. t # <<>>
      BY <1>1, <1>2
    <2> QED BY <1>1, <1>2, <2>1, <2>2 DEF Leads
  <1> QED BY <1>2, <1>3, <1>4 DEF Walks, t

\* The path goes from neighbour to neighbour to the goal, whenever the search has come upon it.
LEMMA PathWalks ==
  ASSUME WaysBack(Beyond, at, came, cost)
  PROVE  /\ goal \in DOMAIN came => Leads(Search!Path, at, goal) /\ Walks(Search!Path)
         /\ goal \notin DOMAIN came => Search!Path = <<>>
  <1> DEFINE D == DOMAIN came
             T == {cost[c] : c \in D}
             first == [c \in D |-> <<c>>]
             op == [e \in StepsOf(Seq(Grid), D \ {at}) |-> Append(e[1], e[2])]
             Runs(g) == g = [c \in DOMAIN came |-> IF c = at THEN <<c>> ELSE Append(g[came[c]], c)]
  <1>1. /\ D \subseteq Grid /\ at \in D /\ came \in [D -> D] /\ cost \in [D -> Nat]
        /\ \A c \in D \ {at} : c \in Beyond[came[c]] /\ cost[came[c]] < cost[c]
    BY DEF WaysBack
  <1>2. IsFiniteSet(T) /\ T \in SUBSET Int /\ T # {}
    <2>1. IsFiniteSet(D)
      BY <1>1, GridFacts, FS_Subset
    <2>2. IsFiniteSet(T)
      <3>1. cost \in Surjection(D, T)
        BY <1>1 DEF Surjection
      <3> QED BY <2>1, <3>1, FS_Surjection
    <2> QED BY <1>1, <2>2
  <1>3. PICK B \in T : \A k \in T : k <= B
    <2>1. T \in SUBSET T
      OBVIOUS
    <2> HIDE DEF T
    <2> QED BY <1>2, <2>1, HasGreatest
  <1>4. Chain(D, {at}, came, cost, B)
    <2>1. B \in Nat /\ \A c \in D : cost[c] \in 0 .. B
      <3>1. \A k \in T : k \in Nat
        BY <1>1
      <3>2. \A c \in D : cost[c] \in T
        OBVIOUS
      <3> HIDE DEF T
      <3> QED BY <1>3, <3>1, <3>2
    <2>2. cost \in [D -> 0 .. B]
      <3> HIDE DEF T
      <3> QED BY <1>1, <2>1
    <2> QED BY <1>1, <2>1, <2>2 DEF Chain
  <1>5. first \in [D -> Seq(Grid)] /\ \A c \in D : first[c] = <<c>>
    BY <1>1
  <1>6. op \in [StepsOf(Seq(Grid), D \ {at}) -> Seq(Grid)]
        /\ \A s \in Seq(Grid), c \in D \ {at} : op[<<s, c>>] = Append(s, c)
    <2>1. \A e \in StepsOf(Seq(Grid), D \ {at}) : e[1] \in Seq(Grid) /\ e[2] \in Grid
      BY <1>1 DEF StepsOf
    <2>2. \A s \in Seq(Grid), c \in D \ {at} : <<s, c>> \in StepsOf(Seq(Grid), D \ {at})
      BY DEF StepsOf
    <2>3. \A e \in StepsOf(Seq(Grid), D \ {at}) : Append(e[1], e[2]) \in Seq(Grid)
      BY <2>1
    <2> QED BY <2>2, <2>3
  <1> HIDE DEF first, op
  <1>7. PICK g \in [D -> Seq(Grid)] : Follows(g, D, {at}, came, first, op)
    BY <1>4, <1>5, <1>6, ChainRecursion
  <1>8. Runs(g)
    <2>1. \A c \in D : g[c] = IF c = at THEN <<c>> ELSE Append(g[came[c]], c)
      BY <1>1, <1>5, <1>6, <1>7 DEF Follows
    <2> QED BY <1>7, <2>1
  <1>9. PICK back : back = (CHOOSE f : Runs(f)) /\ Runs(back)
    BY <1>8
  <1>10. \A c \in D : back[c] = IF c = at THEN <<c>> ELSE Append(back[came[c]], c)
    BY <1>9
  <1>11. Search!Path = IF goal \in D THEN back[goal] ELSE <<>>
    BY <1>9 DEF Search!Path
  <1> HIDE DEF Runs
  <1> DEFINE X == {c \in D : Leads(back[c], at, c) /\ Walks(back[c])}
  <1>12. at \in X
    <2>1. back[at] = <<at>> /\ at \in Grid
      BY <1>1, <1>10
    <2>2. <<at>> \in Seq(Grid) /\ Len(<<at>>) = 1 /\ <<at>>[1] = at /\ <<at>> # <<>>
      BY <2>1
    <2>3. Leads(<<at>>, at, at) /\ Walks(<<at>>)
      BY <2>2 DEF Leads, Walks
    <2> QED BY <1>1, <2>1, <2>3
  <1>13. ASSUME NEW c \in D \ {at}, came[c] \in X PROVE c \in X
    <2>1. back[c] = Append(back[came[c]], c) /\ came[c] \in Grid /\ at \in Grid /\ c \in Grid
      BY <1>1, <1>10
    <2>2. c \in Search!Neighbors(came[c])
      BY <1>1, <2>1 DEF Beyond
    <2>3. Leads(back[came[c]], at, came[c]) /\ Walks(back[came[c]])
      BY <1>13
    <2> QED BY <2>1, <2>2, <2>3, AppendWalks
  <1> HIDE DEF X
  <1>14. {at} \subseteq X
    BY <1>12
  <1>15. D \subseteq X
    BY <1>4, <1>13, <1>14, ChainInduction
  <1>16. goal \in D => Leads(back[goal], at, goal) /\ Walks(back[goal])
    BY <1>15 DEF X
  <1> QED BY <1>11, <1>16

\* A sequence of cells of which each is seen from the one before, or is its neighbour.
Drives(s) == \A i \in 2 .. Len(s) : s[i] \in Search!Neighbors(s[i - 1]) \/ Search!Sees(s[i - 1], s[i])

\* A cell that sees its first one, or is beside it, may go before it.
LEMMA PrependDrives ==
  ASSUME NEW s, NEW p, NEW q, Leads(s, p, q), Drives(s), NEW r \in Grid,
         p \in Search!Neighbors(r) \/ Search!Sees(r, p)
  PROVE  Leads(<<r>> \o s, r, q) /\ Drives(<<r>> \o s)
  <1> DEFINE n == Len(s)
             t == <<r>> \o s
  <1>1. n \in Nat /\ n >= 1 /\ s \in Seq(Grid) /\ s[1] = p /\ s[n] = q
    BY DEF Leads
  <1>2. t \in Seq(Grid) /\ Len(t) = n + 1 /\ t[1] = r /\ \A i \in 1 .. n : t[i + 1] = s[i]
    <2>1. <<r>> \in Seq(Grid) /\ Len(<<r>>) = 1 /\ <<r>>[1] = r
      OBVIOUS
    <2> DEFINE u == <<r>>
    <2>2. u \in Seq(Grid) /\ Len(u) = 1 /\ u[1] = r
      BY <2>1
    <2> HIDE DEF u, n
    <2>3. /\ u \o s \in Seq(Grid) /\ Len(u \o s) = 1 + n
          /\ \A i \in 1 .. 1 + n : (u \o s)[i] = IF i <= 1 THEN u[i] ELSE s[i - 1]
      <3>1. /\ u \o s \in Seq(Grid) /\ Len(u \o s) = Len(u) + Len(s)
            /\ \A i \in 1 .. Len(u) + Len(s) : (u \o s)[i] = IF i <= Len(u) THEN u[i] ELSE s[i - Len(u)]
        BY <1>1, <2>2, ConcatProperties
      <3> QED BY <2>2, <3>1 DEF n
    <2>4. 1 \in 1 .. 1 + n /\ \A i \in 1 .. n : i + 1 \in 1 .. 1 + n /\ ~(i + 1 <= 1) /\ (i + 1) - 1 = i
      BY <1>1
    <2>5. (u \o s)[1] = r /\ \A i \in 1 .. n : (u \o s)[i + 1] = s[i]
      BY <2>2, <2>3, <2>4
    <2> QED BY <1>1, <2>3, <2>5 DEF u
  <1> HIDE DEF t
  <1>3. ASSUME NEW i \in 2 .. n + 1 PROVE t[i] \in Search!Neighbors(t[i - 1]) \/ Search!Sees(t[i - 1], t[i])
    <2>1. i - 1 \in 1 .. n /\ (i - 1) + 1 = i
      BY <1>1, <1>3
    <2>2. t[i] = s[i - 1]
      BY <1>2, <2>1
    <2>3. CASE i = 2
      <3>1. t[2] = p /\ t[1] = r
        BY <1>1, <1>2, <2>2, <2>3
      <3> QED BY <2>3, <3>1
    <2>4. CASE i # 2
      <3>1. i - 2 \in 1 .. n /\ (i - 2) + 1 = i - 1 /\ i - 1 \in 2 .. n /\ (i - 1) - 1 = i - 2
        BY <1>1, <1>3, <2>4
      <3>2. t[i - 1] = s[i - 2]
        BY <1>2, <3>1
      <3>3. s[i - 1] \in Search!Neighbors(s[i - 2]) \/ Search!Sees(s[i - 2], s[i - 1])
        BY <3>1 DEF Drives
      <3> QED BY <2>2, <3>2, <3>3
    <2> QED BY <2>3, <2>4
  <1>4. Leads(t, r, q)
    <2>1. n \in 1 .. n /\ t # <<>>
      BY <1>1, <1>2
    <2> QED BY <1>1, <1>2, <2>1 DEF Leads
  <1> QED BY <1>2, <1>3, <1>4 DEF Drives, t

\* Smoothing keeps the ends, and goes where it can see.
LEMMA SmoothDrives ==
  ASSUME NEW path, NEW p, NEW q, Leads(path, p, q), Walks(path)
  PROVE  Leads(Search!Smooth(path), p, q) /\ Drives(Search!Smooth(path))
  <1> DEFINE n == Len(path)
             D == 1 .. n
             Reach(i) == {j \in i + 1 .. n : \A k \in i + 2 .. j : Search!Sees(path[i], path[k])}
             Furthest(i) == CHOOSE j \in Reach(i) : \A k \in Reach(i) : k <= j
             before == [i \in D |-> Furthest(i)]
             rank == [i \in D |-> n - i]
             first == [i \in D |-> <<path[n]>>]
             op == [e \in StepsOf(Seq(Grid), D \ {n}) |-> <<path[e[2]]>> \o e[1]]
             Runs(g) == g = [i \in 1 .. n |-> IF i = n THEN <<path[n]>> ELSE <<path[i]>> \o g[Furthest(i)]]
  <1>1. n \in Nat /\ n >= 1 /\ path \in Seq(Grid) /\ path[1] = p /\ path[n] = q /\ \A i \in D : path[i] \in Grid
    BY DEF Leads
  <1>2. CASE n <= 2
    <2>1. Search!Smooth(path) = path
      BY <1>2 DEF Search!Smooth
    <2> QED BY <2>1 DEF Drives, Walks
  <1>3. CASE n > 2
    <2>0. n \in D /\ 1 \in D
      BY <1>1, <1>3
    <2>1. ASSUME NEW i \in D \ {n}
          PROVE  /\ Furthest(i) \in D /\ Furthest(i) > i
                 /\ path[Furthest(i)] \in Search!Neighbors(path[i]) \/ Search!Sees(path[i], path[Furthest(i)])
      <3>1. i \in Nat /\ i >= 1 /\ i < n
        BY <1>1, <2>1
      <3>2. i + 1 \in Reach(i)
        <4>1. i + 1 \in i + 1 .. n /\ \A k \in i + 2 .. i + 1 : FALSE
          <5> HIDE DEF n
          <5> QED BY <1>1, <3>1
        <4> QED BY <4>1
      <3>3. IsFiniteSet(Reach(i)) /\ Reach(i) \in SUBSET Int
        <4>1. Reach(i) \in SUBSET (i + 1 .. n) /\ i + 1 \in Int /\ n \in Int
          BY <1>1, <3>1
        <4>2. IsFiniteSet(i + 1 .. n)
          BY <4>1, FS_Interval
        <4> HIDE DEF Reach, n
        <4>3. Reach(i) \in SUBSET Int
          BY <4>1
        <4> QED BY <4>1, <4>2, <4>3, FS_Subset
      <3>4. Furthest(i) \in Reach(i)
        <4> HIDE DEF Reach
        <4>1. Reach(i) \in SUBSET Reach(i)
          OBVIOUS
        <4>2. \E j \in Reach(i) : \A k \in Reach(i) : k <= j
          BY <3>2, <3>3, <4>1, HasGreatest
        <4> QED BY <4>2
      <3> DEFINE j == Furthest(i)
      <3>5. j \in i + 1 .. n /\ \A k \in i + 2 .. j : Search!Sees(path[i], path[k])
        BY <3>4
      <3> HIDE DEF j
      <3>6. CASE j = i + 1
        <4>1. j \in 2 .. n /\ j - 1 = i
          BY <1>1, <3>1, <3>5, <3>6
        <4>2. path[j] \in Search!Neighbors(path[i])
          BY <4>1 DEF Walks
        <4>3. j \in D /\ j > i
          BY <1>1, <3>1, <3>6
        <4> QED BY <4>2, <4>3 DEF j
      <3>7. CASE j # i + 1
        <4>1. j \in i + 2 .. j /\ j \in D /\ j > i
          <5> HIDE DEF n
          <5>1. j \in Int /\ j >= i + 1 /\ j <= n
            BY <3>1, <3>5
          <5> QED BY <1>1, <3>1, <3>7, <5>1
        <4>2. Search!Sees(path[i], path[j])
          BY <3>5, <4>1
        <4> QED BY <4>1, <4>2 DEF j
      <3> QED BY <3>6, <3>7
    <2> HIDE DEF Furthest
    <2>2. Chain(D, {n}, before, rank, n)
      <3>1. rank \in [D -> 0 .. n] /\ {n} \subseteq D
        BY <1>1
      <3>2. ASSUME NEW i \in D \ {n} PROVE before[i] \in D /\ rank[before[i]] < rank[i]
        <4>1. before[i] = Furthest(i)
          OBVIOUS
        <4>2. before[i] \in D /\ before[i] > i
          BY <2>1, <4>1
        <4>3. rank[before[i]] = n - before[i] /\ rank[i] = n - i
          BY <4>2
        <4> HIDE DEF before, rank
        <4> QED BY <1>1, <4>2, <4>3
      <3> QED BY <1>1, <3>1, <3>2 DEF Chain
    <2>3. first \in [D -> Seq(Grid)] /\ \A i \in D : first[i] = <<path[n]>>
      BY <1>1, <2>0
    <2>4. op \in [StepsOf(Seq(Grid), D \ {n}) -> Seq(Grid)]
          /\ \A s \in Seq(Grid), i \in D \ {n} : op[<<s, i>>] = <<path[i]>> \o s
      <3>1. \A e \in StepsOf(Seq(Grid), D \ {n}) : e[1] \in Seq(Grid) /\ path[e[2]] \in Grid
        BY <1>1 DEF StepsOf
      <3>2. \A s \in Seq(Grid), i \in D \ {n} : <<s, i>> \in StepsOf(Seq(Grid), D \ {n})
        BY DEF StepsOf
      <3>3. \A e \in StepsOf(Seq(Grid), D \ {n}) : <<path[e[2]]>> \o e[1] \in Seq(Grid)
        <4>1. \A c \in Grid, s \in Seq(Grid) : <<c>> \o s \in Seq(Grid)
          <5> TAKE c \in Grid, s \in Seq(Grid)
          <5>1. <<c>> \in Seq(Grid)
            OBVIOUS
          <5> QED BY <5>1, ConcatProperties
        <4> QED BY <3>1, <4>1
      <3> QED BY <3>2, <3>3
    <2>5. \A i \in D : before[i] = Furthest(i)
      OBVIOUS
    <2> HIDE DEF first, op, before, rank
    <2>6. PICK g \in [D -> Seq(Grid)] : Follows(g, D, {n}, before, first, op)
      BY <2>2, <2>3, <2>4, ChainRecursion
    <2>7. Runs(g)
      <3>1. \A i \in D : g[i] = IF i = n THEN <<path[n]>> ELSE <<path[i]>> \o g[Furthest(i)]
        BY <2>1, <2>3, <2>4, <2>5, <2>6 DEF Follows
      <3> QED BY <2>6, <3>1
    <2>8. PICK rest : rest = (CHOOSE f : Runs(f)) /\ Runs(rest)
      BY <2>7
    <2>9. \A i \in D : rest[i] = IF i = n THEN <<path[n]>> ELSE <<path[i]>> \o rest[Furthest(i)]
      BY <2>8
    <2>10. Search!Smooth(path) = rest[1]
      BY <1>1, <1>3, <2>8 DEF Search!Smooth, Furthest
    <2> HIDE DEF Runs
    <2> DEFINE X == {i \in D : Leads(rest[i], path[i], q) /\ Drives(rest[i])}
    <2>11. n \in X
      <3>1. rest[n] = <<q>> /\ q \in Grid
        BY <1>1, <2>0, <2>9
      <3>2. <<q>> \in Seq(Grid) /\ Len(<<q>>) = 1 /\ <<q>>[1] = q /\ <<q>> # <<>>
        BY <3>1
      <3>3. Leads(<<q>>, q, q) /\ Drives(<<q>>)
        BY <3>2 DEF Leads, Drives
      <3> QED BY <1>1, <2>0, <3>1, <3>3
    <2>12. ASSUME NEW i \in D \ {n}, before[i] \in X PROVE i \in X
      <3>1. before[i] = Furthest(i) /\ rest[i] = <<path[i]>> \o rest[Furthest(i)] /\ path[i] \in Grid
        BY <1>1, <2>5, <2>9
      <3>2. Leads(rest[Furthest(i)], path[Furthest(i)], q) /\ Drives(rest[Furthest(i)])
        BY <2>12, <3>1
      <3> HIDE DEF n, D
      <3>3. path[Furthest(i)] \in Search!Neighbors(path[i]) \/ Search!Sees(path[i], path[Furthest(i)])
        BY <2>1
      <3>4. Leads(<<path[i]>> \o rest[Furthest(i)], path[i], q) /\ Drives(<<path[i]>> \o rest[Furthest(i)])
        BY <3>1, <3>2, <3>3, PrependDrives
      <3> QED BY <3>1, <3>4
    <2>13. {n} \subseteq X
      BY <2>11
    <2> HIDE DEF X, D
    <2>14. D \subseteq X
      BY <2>2, <2>12, <2>13, ChainInduction
    <2>15. Leads(rest[1], path[1], q) /\ Drives(rest[1])
      BY <2>0, <2>14 DEF X
    <2> QED BY <1>1, <2>10, <2>15
  <1> QED BY <1>1, <1>2, <1>3

LEMMA NothingToSmooth == Search!Smooth(<<>>) = <<>>
  BY DEF Search!Smooth

\* Bresenham's line.  After n steps along its longer axis, a, it is j steps along the shorter one, b,
\* and no further from the straight line than half a cell; one more step keeps to that.
Off(a, b, n, j) == a * j - b * n
Close(a, b, n, j) == -a <= 2 * Off(a, b, n, j) /\ 2 * Off(a, b, n, j) <= a /\ (a = b => Off(a, b, n, j) = 0)

\* The error term of the code, and where the next step along the longer axis leads.
Slack(a, b, n, j)  == Off(a, b, n, j) + a - b
Onward(a, b, n, j) == IF 2 * Slack(a, b, n, j) < a THEN j + 1 ELSE j

LEMMA CloseStep ==
  ASSUME NEW a \in Nat, NEW b \in Nat, NEW n \in Nat, NEW j \in Int, b <= a, a > 0, Close(a, b, n, j)
  PROVE  /\ Slack(a, b, n, j) \in Int /\ 2 * Slack(a, b, n, j) > -b
         /\ Onward(a, b, n, j) \in Int /\ Close(a, b, n + 1, Onward(a, b, n, j))
         /\ Slack(a, b, n, j) - b + (IF 2 * Slack(a, b, n, j) < a THEN a ELSE 0) = Slack(a, b, n + 1, Onward(a, b, n, j))
  <1> DEFINE d == Off(a, b, n, j)
             r == Slack(a, b, n, j)
             k == Onward(a, b, n, j)
  <1>0. k = IF 2 * r < a THEN j + 1 ELSE j
    BY DEF Onward
  <1> HIDE DEF k
  <1>1. d \in Int /\ -a <= 2 * d /\ 2 * d <= a /\ (a = b => d = 0) /\ r = d + a - b
    BY DEF Off, Close, Slack
  <1> HIDE DEF r
  <1>2. Off(a, b, n + 1, k) = d - b + (IF 2 * r < a THEN a ELSE 0)
    <2>1. a * (j + 1) = a * j + a /\ b * (n + 1) = b * n + b /\ a * j \in Int /\ b * n \in Int
      OBVIOUS
    <2> QED BY <1>0, <2>1 DEF Off
  <1> HIDE DEF d
  <1>3. r \in Int /\ 2 * r > -b
    BY <1>1
  <1> DEFINE Kept == /\ r \in Int /\ 2 * r > -b /\ k \in Int /\ Close(a, b, n + 1, k)
                     /\ r - b + (IF 2 * r < a THEN a ELSE 0) = Slack(a, b, n + 1, k)
  <1>4. ASSUME 2 * r < a PROVE Kept
    <2> DEFINE f == Off(a, b, n + 1, k)
    <2>1. f = r
      BY <1>1, <1>2, <1>4
    <2>3. Slack(a, b, n + 1, k) = f + a - b
      BY DEF Slack
    <2> HIDE DEF f
    <2>2. -a <= 2 * f /\ 2 * f <= a /\ (a = b => f = 0) /\ r - b + a = f + a - b
      BY <1>1, <1>3, <1>4, <2>1
    <2> QED BY <1>0, <1>3, <1>4, <2>2, <2>3 DEF Close, f
  <1>5. ASSUME ~(2 * r < a) PROVE Kept
    BY <1>0, <1>1, <1>2, <1>3, <1>5 DEF Close, Slack
  <1> QED BY <1>4, <1>5 DEF r, k

\* Every other cell beside it is half a cell off.
LEMMA OffLine ==
  ASSUME NEW a \in Nat, NEW b \in Nat, NEW n \in Nat, NEW j \in Int, Close(a, b, n, j), NEW m \in Int, m # j
  PROVE  2 * Search!Abs(a * m - b * n) >= a
  <1> DEFINE d == Off(a, b, n, j)
             t == m - j
  <1>1. d \in Int /\ -a <= 2 * d /\ 2 * d <= a
    BY DEF Off, Close
  <1>2. a * m - b * n = a * t + d
    <2>1. a * m = a * j + a * t
      OBVIOUS
    <2> QED BY <2>1 DEF Off
  <1>3. t \in Int /\ (t >= 1 \/ t <= -1)
    OBVIOUS
  <1>4. a * t \in Int /\ (t >= 1 => a * t >= a) /\ (t <= -1 => a * t <= -a)
    BY <1>3
  <1> HIDE DEF d, t
  <1> DEFINE e == a * t
  <1>5. e \in Int /\ (e >= a \/ e <= -a)
    BY <1>3, <1>4
  <1> HIDE DEF e
  <1>6. 2 * Search!Abs(e + d) >= a
    BY <1>1, <1>5 DEF Search!Abs
  <1> QED BY <1>2, <1>6 DEF e

\* n to one side or to the other.
Go(up, n) == IF up THEN n ELSE -n

\* Where a step of the line is, with its error term.
Stand == [at : Int \X Int, err : Int]

LEMMA SteppedTyped ==
  ASSUME NEW p \in Int \X Int, NEW q \in Int \X Int, NEW s \in Stand
  PROVE  Search!Stepped(p, q, s) \in Stand
  <1>1. s.at \in Int \X Int /\ s.err \in Int /\ Search!Dx(p, q) \in Int /\ Search!Dy(p, q) \in Int
    BY Distance DEF Stand
  <1> QED BY <1>1 DEF Search!Stepped, Stand

\* A walk that takes the steps of the code.
Traces(walk, p, q) ==
    /\ walk[0] = [at |-> p, err |-> Search!Dx(p, q) - Search!Dy(p, q)]
    /\ \A n \in 1 .. Search!Dx(p, q) + Search!Dy(p, q) : walk[n] = Search!Stepped(p, q, walk[n - 1])

LEMMA LineWalk ==
  ASSUME NEW p \in Int \X Int, NEW q \in Int \X Int
  PROVE  \E walk : Traces(walk, p, q) /\ \A n \in 0 .. Search!Dx(p, q) + Search!Dy(p, q) : walk[n].at \in Search!Line(p, q)
  <1> DEFINE N == Search!Dx(p, q) + Search!Dy(p, q)
             start == [at |-> p, err |-> Search!Dx(p, q) - Search!Dy(p, q)]
             op == [e \in StepsOf(Stand, 1 .. N) |-> Search!Stepped(p, q, e[1])]
             Runs(g) == g = [n \in 0 .. N |-> IF n = 0 THEN start ELSE Search!Stepped(p, q, g[n - 1])]
  <1>1. N \in Nat /\ start \in Stand
    BY Distance DEF Stand
  <1>2. op \in [StepsOf(Stand, 1 .. N) -> Stand]
        /\ \A s \in Stand, i \in 1 .. N : op[<<s, i>>] = Search!Stepped(p, q, s)
    <2>1. \A e \in StepsOf(Stand, 1 .. N) : Search!Stepped(p, q, e[1]) \in Stand
      BY SteppedTyped DEF StepsOf
    <2>2. \A s \in Stand, i \in 1 .. N : <<s, i>> \in StepsOf(Stand, 1 .. N)
      BY DEF StepsOf
    <2> QED BY <2>1, <2>2
  <1>3. Search!Line(p, q) = LET walk == CHOOSE g : Runs(g) IN {walk[n].at : n \in 0 .. N}
    BY DEF Search!Line
  <1>0. N = Search!Dx(p, q) + Search!Dy(p, q)
    OBVIOUS
  <1> HIDE DEF op, N
  <1>4. PICK g \in [0 .. N -> Stand] : Counts(g, N, start, op)
    BY <1>1, <1>2, CountRecursion
  <1>5. \A i \in 1 .. N : i \in 0 .. N /\ i - 1 \in 0 .. N /\ i # 0
    BY <1>1
  <1>6. \A i \in 0 .. N : i # 0 => i \in 1 .. N
    BY <1>1
  <1>7. Runs(g)
    <2>1. \A i \in 0 .. N : g[i] = IF i = 0 THEN start ELSE Search!Stepped(p, q, g[i - 1])
      BY <1>2, <1>4, <1>5, <1>6 DEF Counts
    <2> QED BY <1>4, <2>1
  <1>8. PICK walk : walk = (CHOOSE f : Runs(f)) /\ Runs(walk)
    BY <1>7
  <1>9. walk[0] = start /\ \A i \in 1 .. N : walk[i] = Search!Stepped(p, q, walk[i - 1])
    <2>1. \A i \in 0 .. N : walk[i] = IF i = 0 THEN start ELSE Search!Stepped(p, q, walk[i - 1])
      BY <1>8
    <2>2. 0 \in 0 .. N
      BY <1>1
    <2> QED BY <1>5, <2>1, <2>2
  <1> HIDE DEF Runs
  <1>10. \A n \in 0 .. N : walk[n].at \in Search!Line(p, q)
    BY <1>3, <1>8
  <1> QED BY <1>0, <1>9, <1>10 DEF Traces

\* Where the line is after n steps along x (or y) and j along the other axis.
\* n steps along the longer axis and j along the shorter one, in the terms of the code.
AlongX(p, q, n, j) ==
    [at  |-> <<p[1] + Go(p[1] < q[1], n), p[2] + Go(p[2] < q[2], j)>>,
     err |-> Slack(Search!Dx(p, q), Search!Dy(p, q), n, j)]
AlongY(p, q, n, j) ==
    [at  |-> <<p[1] + Go(p[1] < q[1], j), p[2] + Go(p[2] < q[2], n)>>,
     err |-> -Slack(Search!Dy(p, q), Search!Dx(p, q), n, j)]

LEMMA StepX ==
  ASSUME NEW p \in Int \X Int, NEW q \in Int \X Int, Search!Dx(p, q) >= Search!Dy(p, q),
         NEW n \in Nat, n < Search!Dx(p, q), NEW j \in Int, Close(Search!Dx(p, q), Search!Dy(p, q), n, j)
  PROVE  \E k \in Int : /\ Search!Stepped(p, q, AlongX(p, q, n, j)) = AlongX(p, q, n + 1, k)
                        /\ Close(Search!Dx(p, q), Search!Dy(p, q), n + 1, k)
  <1> DEFINE a == Search!Dx(p, q)
             b == Search!Dy(p, q)
             s == AlongX(p, q, n, j)
             r == Slack(a, b, n, j)
             k == Onward(a, b, n, j)
             up == 2 * r < a
  <1>1. a \in Nat /\ b \in Nat /\ a > 0 /\ b <= a /\ p[1] \in Int /\ p[2] \in Int /\ q[1] \in Int /\ q[2] \in Int
    BY Distance
  <1>2. s.at = <<p[1] + Go(p[1] < q[1], n), p[2] + Go(p[2] < q[2], j)>> /\ s.err = r
    BY DEF AlongX
  <1>3. s.at # q
    <2>1. p[1] + Go(p[1] < q[1], n) # q[1]
      BY <1>1 DEF Go, Search!Dx, Search!Abs
    <2> QED BY <1>2, <2>1
  <1> HIDE DEF a, b, s
  <1>0. k = IF 2 * r < a THEN j + 1 ELSE j
    BY DEF Onward
  <1>4. /\ r \in Int /\ 2 * r > -b /\ k \in Int /\ Close(a, b, n + 1, k)
        /\ r - b + (IF up THEN a ELSE 0) = Slack(a, b, n + 1, k)
    <2>1. Close(a, b, n, j)
      BY DEF a, b
    <2> QED BY <1>1, <2>1, CloseStep
  <1> HIDE DEF r, k
  <1>5. Search!Stepped(p, q, s) =
          [at  |-> <<s.at[1] + (IF p[1] < q[1] THEN 1 ELSE -1),
                     s.at[2] + (IF ~up THEN 0 ELSE IF p[2] < q[2] THEN 1 ELSE -1)>>,
           err |-> r - b + (IF up THEN a ELSE 0)]
    <2>1. 2 * s.err > -b
      BY <1>2, <1>4
    <2>2. Search!Stepped(p, q, s) =
          [at  |-> <<s.at[1] + (IF ~(2 * s.err > -b) THEN 0 ELSE IF p[1] < q[1] THEN 1 ELSE -1),
                     s.at[2] + (IF ~(2 * s.err < a) THEN 0 ELSE IF p[2] < q[2] THEN 1 ELSE -1)>>,
           err |-> s.err - (IF 2 * s.err > -b THEN b ELSE 0) + (IF 2 * s.err < a THEN a ELSE 0)]
      BY <1>3 DEF Search!Stepped, a, b
    <2> QED BY <1>2, <2>1, <2>2
  <1>6. s.at[1] + (IF p[1] < q[1] THEN 1 ELSE -1) = p[1] + Go(p[1] < q[1], n + 1)
    BY <1>1, <1>2 DEF Go
  <1>7. s.at[2] + (IF ~up THEN 0 ELSE IF p[2] < q[2] THEN 1 ELSE -1) = p[2] + Go(p[2] < q[2], k)
    <2>1. s.at[2] = p[2] + Go(p[2] < q[2], j)
      BY <1>2
    <2>2. CASE up
      <3>1. k = j + 1
        BY <1>0, <2>2
      <3> HIDE DEF up
      <3> QED BY <1>1, <2>1, <2>2, <3>1 DEF Go
    <2>3. CASE ~up
      <3>1. k = j
        BY <1>0, <2>3
      <3> HIDE DEF up
      <3> QED BY <1>1, <2>1, <2>3, <3>1 DEF Go
    <2> QED BY <2>2, <2>3
  <1>8. Search!Stepped(p, q, s) = AlongX(p, q, n + 1, k)
    BY <1>4, <1>5, <1>6, <1>7 DEF AlongX, a, b
  <1> QED BY <1>4, <1>8 DEF a, b, s

LEMMA StepY ==
  ASSUME NEW p \in Int \X Int, NEW q \in Int \X Int, Search!Dy(p, q) >= Search!Dx(p, q),
         NEW n \in Nat, n < Search!Dy(p, q), NEW j \in Int, Close(Search!Dy(p, q), Search!Dx(p, q), n, j)
  PROVE  \E k \in Int : /\ Search!Stepped(p, q, AlongY(p, q, n, j)) = AlongY(p, q, n + 1, k)
                        /\ Close(Search!Dy(p, q), Search!Dx(p, q), n + 1, k)
  <1> DEFINE a == Search!Dy(p, q)
             b == Search!Dx(p, q)
             s == AlongY(p, q, n, j)
             r == Slack(a, b, n, j)
             k == Onward(a, b, n, j)
             up == 2 * r < a
  <1>1. a \in Nat /\ b \in Nat /\ a > 0 /\ b <= a /\ p[1] \in Int /\ p[2] \in Int /\ q[1] \in Int /\ q[2] \in Int
    BY Distance
  <1>2. s.at = <<p[1] + Go(p[1] < q[1], j), p[2] + Go(p[2] < q[2], n)>> /\ s.err = -r
    BY DEF AlongY
  <1>3. s.at # q
    <2>1. p[2] + Go(p[2] < q[2], n) # q[2]
      BY <1>1 DEF Go, Search!Dy, Search!Abs
    <2> QED BY <1>2, <2>1
  <1> HIDE DEF a, b, s
  <1>0. k = IF 2 * r < a THEN j + 1 ELSE j
    BY DEF Onward
  <1>4. /\ r \in Int /\ 2 * r > -b /\ k \in Int /\ Close(a, b, n + 1, k)
        /\ r - b + (IF up THEN a ELSE 0) = Slack(a, b, n + 1, k)
    <2>1. Close(a, b, n, j)
      BY DEF a, b
    <2> QED BY <1>1, <2>1, CloseStep
  <1> HIDE DEF r, k
  <1>5. Search!Stepped(p, q, s) =
          [at  |-> <<s.at[1] + (IF ~up THEN 0 ELSE IF p[1] < q[1] THEN 1 ELSE -1),
                     s.at[2] + (IF p[2] < q[2] THEN 1 ELSE -1)>>,
           err |-> -(r - b + (IF up THEN a ELSE 0))]
    <2>1. 2 * s.err < b /\ (2 * s.err > -a <=> up)
      BY <1>1, <1>2, <1>4
    <2>2. Search!Stepped(p, q, s) =
          [at  |-> <<s.at[1] + (IF ~(2 * s.err > -a) THEN 0 ELSE IF p[1] < q[1] THEN 1 ELSE -1),
                     s.at[2] + (IF ~(2 * s.err < b) THEN 0 ELSE IF p[2] < q[2] THEN 1 ELSE -1)>>,
           err |-> s.err - (IF 2 * s.err > -a THEN a ELSE 0) + (IF 2 * s.err < b THEN b ELSE 0)]
      BY <1>3 DEF Search!Stepped, a, b
    <2>3. s.err - (IF 2 * s.err > -a THEN a ELSE 0) + (IF 2 * s.err < b THEN b ELSE 0) = -(r - b + (IF up THEN a ELSE 0))
      BY <1>1, <1>2, <1>4, <2>1
    <2> HIDE DEF up
    <2> QED BY <2>1, <2>2, <2>3
  <1>6. s.at[2] + (IF p[2] < q[2] THEN 1 ELSE -1) = p[2] + Go(p[2] < q[2], n + 1)
    BY <1>1, <1>2 DEF Go
  <1>7. s.at[1] + (IF ~up THEN 0 ELSE IF p[1] < q[1] THEN 1 ELSE -1) = p[1] + Go(p[1] < q[1], k)
    <2>1. s.at[1] = p[1] + Go(p[1] < q[1], j)
      BY <1>2
    <2>2. CASE up
      <3>1. k = j + 1
        BY <1>0, <2>2
      <3> HIDE DEF up
      <3> QED BY <1>1, <2>1, <2>2, <3>1 DEF Go
    <2>3. CASE ~up
      <3>1. k = j
        BY <1>0, <2>3
      <3> HIDE DEF up
      <3> QED BY <1>1, <2>1, <2>3, <3>1 DEF Go
    <2> QED BY <2>2, <2>3
  <1>8. Search!Stepped(p, q, s) = AlongY(p, q, n + 1, k)
    BY <1>4, <1>5, <1>6, <1>7 DEF AlongY, a, b
  <1> QED BY <1>4, <1>8 DEF a, b, s

LEMMA LineX ==
  ASSUME NEW p \in Int \X Int, NEW q \in Int \X Int, Search!Dx(p, q) >= Search!Dy(p, q), NEW walk, Traces(walk, p, q)
  PROVE  \A n \in 0 .. Search!Dx(p, q) : \E j \in Int : walk[n] = AlongX(p, q, n, j)
                                                      /\ Close(Search!Dx(p, q), Search!Dy(p, q), n, j)
  <1> DEFINE a == Search!Dx(p, q)
             b == Search!Dy(p, q)
             Here(n) == \E j \in Int : walk[n] = AlongX(p, q, n, j) /\ Close(a, b, n, j)
             X == {n \in 0 .. a : Here(n)}
  <1>1. a \in Nat /\ b \in Nat /\ b <= a
    BY Distance
  <1>2. Here(0)
    <2>1. Close(a, b, 0, 0) /\ Slack(a, b, 0, 0) = a - b
      <3> HIDE DEF a, b
      <3> QED BY <1>1 DEF Close, Off, Slack
    <2>2. p[1] + Go(p[1] < q[1], 0) = p[1] /\ p[2] + Go(p[2] < q[2], 0) = p[2] /\ p = <<p[1], p[2]>>
      BY DEF Go
    <2>3. walk[0] = AlongX(p, q, 0, 0)
      BY <2>1, <2>2 DEF Traces, AlongX
    <2> QED BY <2>1, <2>3
  <1>3. ASSUME NEW n \in 1 .. a, Here(n - 1) PROVE Here(n)
    <2>1. n \in 1 .. a + b /\ n - 1 \in Nat /\ n - 1 < a /\ (n - 1) + 1 = n
      <3> HIDE DEF a, b
      <3> QED BY <1>1, <1>3
    <2>2. walk[n] = Search!Stepped(p, q, walk[n - 1])
      BY <2>1 DEF Traces
    <2>3. PICK j \in Int : walk[n - 1] = AlongX(p, q, n - 1, j) /\ Close(a, b, n - 1, j)
      BY <1>3
    <2>4. \E k \in Int : Search!Stepped(p, q, AlongX(p, q, n - 1, j)) = AlongX(p, q, (n - 1) + 1, k)
                         /\ Close(a, b, (n - 1) + 1, k)
      BY <2>1, <2>3, StepX
    <2> QED BY <2>1, <2>2, <2>3, <2>4
  <1> HIDE DEF a, b, Here
  <1>4. 0 \in X /\ \A n \in 1 .. a : n - 1 \in X => n \in X
    <2>1. 0 \in 0 .. a /\ \A n \in 1 .. a : n \in 0 .. a
      BY <1>1
    <2> QED BY <1>2, <1>3, <2>1
  <1> HIDE DEF X
  <1>5. 0 .. a \subseteq X
    BY <1>1, <1>4, CountInduction
  <1> QED BY <1>5 DEF X, Here, a, b

LEMMA LineY ==
  ASSUME NEW p \in Int \X Int, NEW q \in Int \X Int, Search!Dy(p, q) >= Search!Dx(p, q), NEW walk, Traces(walk, p, q)
  PROVE  \A n \in 0 .. Search!Dy(p, q) : \E j \in Int : walk[n] = AlongY(p, q, n, j)
                                                      /\ Close(Search!Dy(p, q), Search!Dx(p, q), n, j)
  <1> DEFINE a == Search!Dy(p, q)
             b == Search!Dx(p, q)
             Here(n) == \E j \in Int : walk[n] = AlongY(p, q, n, j) /\ Close(a, b, n, j)
             X == {n \in 0 .. a : Here(n)}
  <1>1. a \in Nat /\ b \in Nat /\ b <= a
    BY Distance
  <1>2. Here(0)
    <2>1. Close(a, b, 0, 0) /\ -Slack(a, b, 0, 0) = b - a
      <3> HIDE DEF a, b
      <3> QED BY <1>1 DEF Close, Off, Slack
    <2>2. p[1] + Go(p[1] < q[1], 0) = p[1] /\ p[2] + Go(p[2] < q[2], 0) = p[2] /\ p = <<p[1], p[2]>>
      BY DEF Go
    <2>3. walk[0] = AlongY(p, q, 0, 0)
      BY <2>1, <2>2 DEF Traces, AlongY
    <2> QED BY <2>1, <2>3
  <1>3. ASSUME NEW n \in 1 .. a, Here(n - 1) PROVE Here(n)
    <2>1. n \in 1 .. b + a /\ n - 1 \in Nat /\ n - 1 < a /\ (n - 1) + 1 = n
      <3> HIDE DEF a, b
      <3> QED BY <1>1, <1>3
    <2>2. walk[n] = Search!Stepped(p, q, walk[n - 1])
      BY <2>1 DEF Traces
    <2>3. PICK j \in Int : walk[n - 1] = AlongY(p, q, n - 1, j) /\ Close(a, b, n - 1, j)
      BY <1>3
    <2>4. \E k \in Int : Search!Stepped(p, q, AlongY(p, q, n - 1, j)) = AlongY(p, q, (n - 1) + 1, k)
                         /\ Close(a, b, (n - 1) + 1, k)
      BY <2>1, <2>3, StepY
    <2> QED BY <2>1, <2>2, <2>3, <2>4
  <1> HIDE DEF a, b, Here
  <1>4. 0 \in X /\ \A n \in 1 .. a : n - 1 \in X => n \in X
    <2>1. 0 \in 0 .. a /\ \A n \in 1 .. a : n \in 0 .. a
      BY <1>1
    <2> QED BY <1>2, <1>3, <2>1
  <1> HIDE DEF X
  <1>5. 0 .. a \subseteq X
    BY <1>1, <1>4, CountInduction
  <1> QED BY <1>5 DEF X, Here, a, b

\* Turning an axis round does not change how far off a cell is.
LEMMA Mirrored ==
  ASSUME NEW a \in Nat, NEW b \in Nat, NEW n \in Nat, NEW m \in Int, NEW u \in BOOLEAN, NEW v \in BOOLEAN
  PROVE  /\ Search!Abs(Go(v, m) * Go(u, a) - Go(v, b) * Go(u, n)) = Search!Abs(a * m - b * n)
         /\ Search!Abs(Go(u, a) * Go(v, m) - Go(u, n) * Go(v, b)) = Search!Abs(a * m - b * n)
  <1> DEFINE y == a * m
             z == b * n
  <1>1. y \in Int /\ z \in Int
    OBVIOUS
  <1>2. /\ m * a = y /\ (-m) * a = -y /\ m * (-a) = -y /\ (-m) * (-a) = y
        /\ a * (-m) = -y /\ (-a) * m = -y /\ (-a) * (-m) = y
        /\ n * b = z /\ (-b) * n = -z /\ b * (-n) = -z /\ (-b) * (-n) = z
        /\ n * (-b) = -z /\ (-n) * b = -z /\ (-n) * (-b) = z
    OBVIOUS
  <1>3. Search!Abs(y - z) = Search!Abs(-y - -z)
    <2> HIDE DEF y, z
    <2> QED BY <1>1 DEF Search!Abs
  <1>4. CASE u /\ v
    BY <1>2, <1>3, <1>4 DEF Go
  <1>5. CASE u /\ ~v
    BY <1>2, <1>3, <1>5 DEF Go
  <1>6. CASE ~u /\ v
    BY <1>2, <1>3, <1>6 DEF Go
  <1>7. CASE ~u /\ ~v
    BY <1>2, <1>3, <1>7 DEF Go
  <1> QED BY <1>4, <1>5, <1>6, <1>7

\* Along an axis, an end and what lies between are to the same side.
Side(u, i, k, l) ==
    /\ (u <=> i < k) /\ k - i = Go(u, Search!Abs(i - k)) /\ l - i = Go(u, Go(i < k, l - i))
    /\ Search!Abs(i - l) + Search!Abs(l - k) = Search!Abs(i - k) => l - i = Go(u, Search!Abs(i - l))

LEMMA Sided == ASSUME NEW i \in Int, NEW k \in Int, NEW l \in Int PROVE \E u \in BOOLEAN : Side(u, i, k, l)
  <1>1. CASE i < k
    <2>1. Side(TRUE, i, k, l)
      BY <1>1 DEF Side, Go, Search!Abs
    <2> QED BY <2>1
  <1>2. CASE ~(i < k)
    <2>1. Side(FALSE, i, k, l)
      BY <1>2 DEF Side, Go, Search!Abs
    <2> QED BY <2>1
  <1> QED BY <1>1, <1>2

\* A cell beside a line that is no cell of it is at least half a cell off.
LEMMA ClearX ==
  ASSUME NEW p \in Int \X Int, NEW q \in Int \X Int, Search!Dx(p, q) >= Search!Dy(p, q),
         NEW c \in Int \X Int, Search!Dx(p, c) + Search!Dx(c, q) = Search!Dx(p, q), c \notin Search!Line(p, q)
  PROVE  2 * Search!Abs((c[2] - p[2]) * (q[1] - p[1]) - (q[2] - p[2]) * (c[1] - p[1])) >= Search!Dx(p, q)
  <1> DEFINE a == Search!Dx(p, q)
             b == Search!Dy(p, q)
             n == Search!Dx(p, c)
             m == Go(p[2] < q[2], c[2] - p[2])
  <1>1. /\ a \in Nat /\ b \in Nat /\ n \in Nat /\ Search!Dx(c, q) \in Nat /\ n <= a /\ m \in Int
        /\ p[1] \in Int /\ p[2] \in Int /\ q[1] \in Int /\ q[2] \in Int /\ c[1] \in Int /\ c[2] \in Int
    BY Distance DEF Go
  <1>2. \E u, v \in BOOLEAN : /\ q[1] - p[1] = Go(u, a) /\ c[1] - p[1] = Go(u, n) /\ (u <=> p[1] < q[1])
                              /\ q[2] - p[2] = Go(v, b) /\ c[2] - p[2] = Go(v, m) /\ (v <=> p[2] < q[2])
    <2>1. \E u \in BOOLEAN : q[1] - p[1] = Go(u, a) /\ c[1] - p[1] = Go(u, n) /\ (u <=> p[1] < q[1])
      <3>1. \E u \in BOOLEAN : Side(u, p[1], q[1], c[1])
        BY <1>1, Sided
      <3> QED BY <3>1 DEF Side, Search!Dx
    <2>2. \E v \in BOOLEAN : q[2] - p[2] = Go(v, b) /\ c[2] - p[2] = Go(v, m) /\ (v <=> p[2] < q[2])
      <3>1. \E v \in BOOLEAN : Side(v, p[2], q[2], c[2])
        BY <1>1, Sided
      <3> QED BY <3>1 DEF Side, Search!Dy
    <2> QED BY <2>1, <2>2
  <1>3. PICK u, v \in BOOLEAN : /\ q[1] - p[1] = Go(u, a) /\ c[1] - p[1] = Go(u, n) /\ (u <=> p[1] < q[1])
                                /\ q[2] - p[2] = Go(v, b) /\ c[2] - p[2] = Go(v, m) /\ (v <=> p[2] < q[2])
    BY <1>2
  <1>4. PICK walk : Traces(walk, p, q) /\ \A i \in 0 .. a + b : walk[i].at \in Search!Line(p, q)
    BY LineWalk
  <1>5. PICK j \in Int : walk[n] = AlongX(p, q, n, j) /\ Close(a, b, n, j)
    <2>1. n \in 0 .. a
      BY <1>1
    <2> QED BY <1>4, <2>1, LineX
  <1>6. j # m
    <2>1. n \in 0 .. a + b
      BY <1>1
    <2>2. walk[n].at # c
      BY <1>4, <2>1
    <2>3. walk[n].at = <<p[1] + Go(p[1] < q[1], n), p[2] + Go(p[2] < q[2], j)>>
      BY <1>5 DEF AlongX
    <2>4. walk[n].at = <<p[1] + Go(u, n), p[2] + Go(v, j)>>
      BY <1>3, <2>3 DEF Go
    <2>5. p[1] + Go(u, n) = c[1] /\ p[2] + Go(v, m) = c[2] /\ c = <<c[1], c[2]>>
      <3>1. p[1] + Go(u, n) = c[1] /\ p[2] + Go(v, m) = c[2]
        <4> HIDE DEF n, m
        <4> QED BY <1>1, <1>3 DEF Go
      <3> QED BY <3>1
    <2> QED BY <2>2, <2>4, <2>5
  <1> HIDE DEF a, b, n, m
  <1>7. 2 * Search!Abs(a * m - b * n) >= a
    BY <1>1, <1>5, <1>6, OffLine
  <1>8. Search!Abs(Go(v, m) * Go(u, a) - Go(v, b) * Go(u, n)) = Search!Abs(a * m - b * n)
    BY <1>1, Mirrored
  <1> QED BY <1>3, <1>7, <1>8 DEF a

LEMMA ClearY ==
  ASSUME NEW p \in Int \X Int, NEW q \in Int \X Int, Search!Dy(p, q) >= Search!Dx(p, q),
         NEW c \in Int \X Int, Search!Dy(p, c) + Search!Dy(c, q) = Search!Dy(p, q), c \notin Search!Line(p, q)
  PROVE  2 * Search!Abs((c[1] - p[1]) * (q[2] - p[2]) - (q[1] - p[1]) * (c[2] - p[2])) >= Search!Dy(p, q)
  <1> DEFINE a == Search!Dy(p, q)
             b == Search!Dx(p, q)
             n == Search!Dy(p, c)
             m == Go(p[1] < q[1], c[1] - p[1])
  <1>1. /\ a \in Nat /\ b \in Nat /\ n \in Nat /\ Search!Dy(c, q) \in Nat /\ n <= a /\ m \in Int
        /\ p[1] \in Int /\ p[2] \in Int /\ q[1] \in Int /\ q[2] \in Int /\ c[1] \in Int /\ c[2] \in Int
    BY Distance DEF Go
  <1>2. \E u, v \in BOOLEAN : /\ q[1] - p[1] = Go(u, b) /\ c[1] - p[1] = Go(u, m) /\ (u <=> p[1] < q[1])
                              /\ q[2] - p[2] = Go(v, a) /\ c[2] - p[2] = Go(v, n) /\ (v <=> p[2] < q[2])
    <2>1. \E u \in BOOLEAN : q[1] - p[1] = Go(u, b) /\ c[1] - p[1] = Go(u, m) /\ (u <=> p[1] < q[1])
      <3>1. \E u \in BOOLEAN : Side(u, p[1], q[1], c[1])
        BY <1>1, Sided
      <3> QED BY <3>1 DEF Side, Search!Dx
    <2>2. \E v \in BOOLEAN : q[2] - p[2] = Go(v, a) /\ c[2] - p[2] = Go(v, n) /\ (v <=> p[2] < q[2])
      <3>1. \E v \in BOOLEAN : Side(v, p[2], q[2], c[2])
        BY <1>1, Sided
      <3> QED BY <3>1 DEF Side, Search!Dy
    <2> QED BY <2>1, <2>2
  <1>3. PICK u, v \in BOOLEAN : /\ q[1] - p[1] = Go(u, b) /\ c[1] - p[1] = Go(u, m) /\ (u <=> p[1] < q[1])
                                /\ q[2] - p[2] = Go(v, a) /\ c[2] - p[2] = Go(v, n) /\ (v <=> p[2] < q[2])
    BY <1>2
  <1>4. PICK walk : Traces(walk, p, q) /\ \A i \in 0 .. b + a : walk[i].at \in Search!Line(p, q)
    BY LineWalk
  <1>5. PICK j \in Int : walk[n] = AlongY(p, q, n, j) /\ Close(a, b, n, j)
    <2>1. n \in 0 .. a
      BY <1>1
    <2> QED BY <1>4, <2>1, LineY
  <1>6. j # m
    <2>1. n \in 0 .. b + a
      BY <1>1
    <2>2. walk[n].at # c
      BY <1>4, <2>1
    <2>3. walk[n].at = <<p[1] + Go(p[1] < q[1], j), p[2] + Go(p[2] < q[2], n)>>
      BY <1>5 DEF AlongY
    <2>4. walk[n].at = <<p[1] + Go(u, j), p[2] + Go(v, n)>>
      BY <1>3, <2>3 DEF Go
    <2>5. p[1] + Go(u, m) = c[1] /\ p[2] + Go(v, n) = c[2] /\ c = <<c[1], c[2]>>
      <3>1. p[1] + Go(u, m) = c[1] /\ p[2] + Go(v, n) = c[2]
        <4> HIDE DEF n, m
        <4> QED BY <1>1, <1>3 DEF Go
      <3> QED BY <3>1
    <2> QED BY <2>2, <2>4, <2>5
  <1> HIDE DEF a, b, n, m
  <1>7. 2 * Search!Abs(a * m - b * n) >= a
    BY <1>1, <1>5, <1>6, OffLine
  <1>8. Search!Abs(Go(u, m) * Go(v, a) - Go(u, b) * Go(v, n)) = Search!Abs(a * m - b * n)
    BY <1>1, Mirrored
  <1> QED BY <1>3, <1>7, <1>8 DEF a

\* What is driven along smoothed is clear.
LEMMA DrivesClear ==
  ASSUME grid \in SUBSET Grid, leg.smooth \in Seq(Grid), Drives(leg.smooth)
  PROVE  Search!LegIsClear
  <1> DEFINE s == leg.smooth
             Across(p, q, c) ==
                IF Search!Dx(p, q) >= Search!Dy(p, q)
                THEN 2 * Search!Abs((c[2] - p[2]) * (q[1] - p[1]) - (q[2] - p[2]) * (c[1] - p[1]))
                ELSE 2 * Search!Abs((c[1] - p[1]) * (q[2] - p[2]) - (q[1] - p[1]) * (c[2] - p[2]))
             Longer(p, q) == IF Search!Dx(p, q) >= Search!Dy(p, q) THEN Search!Dx(p, q) ELSE Search!Dy(p, q)
             Amid(p, q, c) ==
                IF Search!Dx(p, q) >= Search!Dy(p, q)
                THEN Search!Dx(p, c) + Search!Dx(c, q) = Search!Dx(p, q)
                ELSE Search!Dy(p, c) + Search!Dy(c, q) = Search!Dy(p, q)
  <1>1. ASSUME NEW i \in 2 .. Len(s), Longer(s[i - 1], s[i]) > 1, NEW c \in grid, Amid(s[i - 1], s[i], c)
        PROVE  Across(s[i - 1], s[i], c) >= Longer(s[i - 1], s[i])
    <2> DEFINE p == s[i - 1]
               q == s[i]
    <2>1. p \in Grid /\ q \in Grid
      <3>1. i \in 1 .. Len(s) /\ i - 1 \in 1 .. Len(s)
        OBVIOUS
      <3> HIDE DEF s
      <3> QED BY <3>1 DEF s
    <2>2. q \in Search!Neighbors(p) \/ Search!Sees(p, q)
      BY DEF Drives
    <2> HIDE DEF p, q
    <2>3. q \notin Search!Neighbors(p)
      <3>1. q \in Search!Neighbors(p) => Search!Dx(p, q) <= 1 /\ Search!Dy(p, q) <= 1
        BY <2>1, NeighborFacts
      <3>2. Search!Dx(p, q) \in Nat /\ Search!Dy(p, q) \in Nat /\ Longer(p, q) > 1
        BY <1>1, <2>1, GridFacts, Distance DEF p, q
      <3> QED BY <3>1, <3>2
    <2>4. c \notin Search!Line(p, q)
      BY <2>2, <2>3 DEF Search!Sees
    <2>5. p \in Int \X Int /\ q \in Int \X Int /\ c \in Int \X Int /\ Search!Dx(p, q) \in Nat /\ Search!Dy(p, q) \in Nat
      BY <2>1, GridFacts, Distance
    <2>6. CASE Search!Dx(p, q) >= Search!Dy(p, q)
      <3>1. Search!Dx(p, c) + Search!Dx(c, q) = Search!Dx(p, q)
        BY <1>1, <2>6 DEF p, q
      <3>2. 2 * Search!Abs((c[2] - p[2]) * (q[1] - p[1]) - (q[2] - p[2]) * (c[1] - p[1])) >= Search!Dx(p, q)
        BY <2>4, <2>5, <2>6, <3>1, ClearX
      <3> QED BY <2>6, <3>2 DEF p, q
    <2>7. CASE ~(Search!Dx(p, q) >= Search!Dy(p, q))
      <3>1. Search!Dy(p, c) + Search!Dy(c, q) = Search!Dy(p, q) /\ Search!Dy(p, q) >= Search!Dx(p, q)
        BY <1>1, <2>5, <2>7 DEF p, q
      <3>2. 2 * Search!Abs((c[1] - p[1]) * (q[2] - p[2]) - (q[1] - p[1]) * (c[2] - p[2])) >= Search!Dy(p, q)
        BY <2>4, <2>5, <3>1, ClearY
      <3> QED BY <2>7, <3>2 DEF p, q
    <2> QED BY <2>6, <2>7
  <1> QED BY <1>1 DEF Search!LegIsClear

\* What holds between two steps of the search.
SearchTyped ==
    /\ mode \in {"direct", "legs"} /\ budget \in Int /\ grid \in SUBSET Grid /\ todo \in Seq(Grid)
    /\ at \in Grid /\ goal \in Grid /\ expansions \in Int /\ route \in Seq(Grid)
    /\ step \in {"leg", "search", "found", "done"}

\* The route ends where the next leg starts, and a leg of mode "direct" is the only one.
Joined ==
    /\ route # <<>> => route[Len(route)] = at /\ route[1] \in Search!Free \cup {From}
    /\ route = <<>> => at \in Search!Free \cup {From}
    /\ mode = "direct" /\ step # "done" => step # "found" /\ route = <<>> /\ Len(todo) = 1

\* A leg that is done has ended its search, and has a path if that has come upon the goal.
Origin == IF leg.cells = <<>> THEN at ELSE leg.cells[1]
Found ==
    /\ Wave(Beyond, Costs, Ahead(goal), Origin, came, cost, frontier) /\ Search!SearchEnds
    /\ IF leg.cells = <<>> THEN goal \notin DOMAIN came
       ELSE goal \in DOMAIN came /\ Leads(leg.cells, Origin, goal) /\ Walks(leg.cells)

\* The inductive invariant of the search.
SearchInv ==
    /\ SearchTyped /\ Joined
    /\ step = "search" => todo # <<>> /\ Wave(Beyond, Costs, Ahead(goal), at, came, cost, frontier)
    /\ step \in {"found", "done"} => Found
    /\ leg.smooth \in Seq(Grid) /\ Drives(leg.smooth)

LEMMA SearchStart == Search!SearchInit => SearchInv
  <1> SUFFICES ASSUME Search!SearchInit PROVE SearchInv
    OBVIOUS
  <1>1. From \in Grid /\ Via \in Grid /\ To \in Grid /\ Cols \in Int /\ Rows \in Int
    BY SearchAssumption
  <1>2. /\ grid \in SUBSET Grid /\ at = From /\ goal = From /\ expansions = 0 /\ route = <<>> /\ step = "leg"
        /\ leg.smooth = <<>>
    BY GridFacts DEF Search!SearchInit, Search!NoLeg
  <1>3. mode \in {"direct", "legs"} /\ budget \in Int /\ todo \in Seq(Grid) /\ (mode = "direct" => Len(todo) = 1)
    <2>1. CASE mode = "direct" /\ todo = <<To>> /\ budget \in Budgets
      BY <1>1, <2>1, SearchAssumption
    <2>2. CASE mode = "legs" /\ todo = <<Via, To>> /\ budget = Cols * Rows * Cols * Rows
      <3>1. \A i, k \in Int : i * k \in Int
        OBVIOUS
      <3>2. budget \in Int
        BY <1>1, <2>2, <3>1
      <3> QED BY <1>1, <2>2, <3>2
    <2> QED BY <2>1, <2>2 DEF Search!SearchInit
  <1>4. leg.smooth \in Seq(Grid) /\ Drives(leg.smooth)
    BY <1>2 DEF Drives
  <1> QED BY <1>1, <1>2, <1>3, <1>4 DEF SearchInv, SearchTyped, Joined

\* As long as the grid stays, so does what a step costs.
LEMMA GridStays ==
  ASSUME UNCHANGED <<mode, grid>>
  PROVE  Beyond' = Beyond /\ Costs' = Costs /\ Search!Free' = Search!Free
  <1>1. Search!Free' = Search!Free
    BY DEF Search!Free
  <1>2. \A c : Search!Neighbors(c)' = Search!Neighbors(c)
    BY <1>1 DEF Search!Neighbors
  <1>3. \A c : Search!Extra(c)' = Search!Extra(c)
    BY DEF Search!Extra, Search!Clearance
  <1>4. Beyond' = Beyond /\ Costs' = Costs
    BY <1>2, <1>3 DEF Beyond, Costs, Search!Move
  <1> QED BY <1>1, <1>4

\* And so do the ways on it.
LEMMA WaysStay ==
  ASSUME UNCHANGED grid, NEW s, NEW t, leg'.cells = s, leg'.smooth = t
  PROVE  (Walks(leg.cells)' <=> Walks(s)) /\ (Drives(leg.smooth)' <=> Drives(t))
  BY DEF Walks, Drives, Search!Neighbors, Search!Free, Search!Sees

\* A search that has ended knows the cheapest way, if its budget was enough.
LEMMA FoundIsCheapest == ASSUME SearchInv PROVE Search!LegIsCheapest
  <1> SUFFICES ASSUME step \in {"found", "done"} PROVE Search!LegIsCheapest
    BY DEF Search!LegIsCheapest
  <1> DEFINE s == leg.cells
             W == Wave(Beyond, Costs, Ahead(goal), Origin, came, cost, frontier)
  <1>1. Found /\ grid \in SUBSET Grid /\ goal \in Grid /\ expansions \in Int /\ budget \in Int
    BY DEF SearchInv, SearchTyped
  <1>2. W /\ Origin \in Grid /\ DOMAIN cost = DOMAIN came
        /\ \A e \in frontier : e[1] \in Nat /\ e[2] \in DOMAIN came /\ cost[e[2]] \in Nat /\ cost[e[2]] <= e[1]
    BY <1>1 DEF Found, Wave, WaysBack
  <1>3. \A p \in Search!Cheapest(Origin) : p \in Grid \X Nat /\ Known(Ahead(goal), cost, frontier, p[1], p[2])
    BY <1>1, <1>2, CheapestKnown
  <1>4. Ahead(goal)[goal] = Excess /\ Excess \in Nat
    BY <1>1, GridGraded, RootAssumption
  <1>5. expansions < budget => frontier = {} \/ \E e \in frontier : Search!Min1(e) /\ e[2] = goal
    BY <1>1 DEF Found, Search!SearchEnds
  <1>6. ASSUME expansions < budget, NEW p \in Search!Cheapest(Origin), p[1] = goal
        PROVE  goal \in DOMAIN cost /\ cost[goal] <= p[2] + Excess
    <2>1. p[2] \in Nat /\ Known(Ahead(goal), cost, frontier, goal, p[2])
      BY <1>3, <1>6
    <2>2. CASE goal \in DOMAIN cost /\ cost[goal] <= p[2]
      <3>1. cost[goal] \in Nat
        BY <1>2, <2>2 DEF Wave, WaysBack
      <3> QED BY <1>4, <2>1, <2>2, <3>1
    <2>3. CASE \E f \in frontier : f[1] <= p[2] + Ahead(goal)[goal]
      <3>1. PICK f \in frontier : f[1] <= p[2] + Ahead(goal)[goal]
        BY <2>3
      <3>2. PICK e \in frontier : Search!Min1(e) /\ e[2] = goal
        BY <1>5, <1>6, <3>1
      <3>3. e[1] <= f[1] /\ f[1] <= p[2] + Excess /\ cost[goal] <= e[1] /\ goal \in DOMAIN cost
        BY <1>2, <1>4, <2>1, <3>1, <3>2 DEF Search!Min1
      <3>4. e[1] \in Nat /\ f[1] \in Nat /\ cost[goal] \in Nat
        BY <1>2, <3>2
      <3> QED BY <1>4, <2>1, <3>3, <3>4
    <2> QED BY <2>1, <2>2, <2>3 DEF Known
  <1>7. CASE s = <<>>
    <2>1. Origin = at /\ goal \notin DOMAIN cost
      BY <1>1, <1>2, <1>7 DEF Found, Origin
    <2>2. expansions >= budget \/ \A p \in Search!Cheapest(at) : p[1] # goal
      BY <1>1, <1>6, <2>1
    <2> QED BY <1>7, <2>2 DEF Search!LegIsCheapest
  <1>8. CASE s # <<>>
    <2>1. Origin = s[1] /\ Leads(s, Origin, goal) /\ Walks(s)
      BY <1>1, <1>8 DEF Found, Origin
    <2>2. expansions < budget => \A p \in Search!Cheapest(s[1]) : p[1] = goal => cost[goal] <= p[2] + Excess
      BY <1>6, <2>1
    <2>3. s[Len(s)] = goal /\ \A i \in 2 .. Len(s) : s[i] \in Search!Neighbors(s[i - 1])
      BY <2>1 DEF Leads, Walks
    <2> QED BY <1>8, <2>2, <2>3 DEF Search!LegIsCheapest
  <1> QED BY <1>7, <1>8

LEMMA SearchIsSound == SearchInv => Search!RouteSound
  <1> SUFFICES ASSUME SearchInv PROVE Search!RouteSound
    OBVIOUS
  <1>1. Search!LegIsCheapest
    BY FoundIsCheapest
  <1>2. Search!LegIsClear
    BY DrivesClear DEF SearchInv, SearchTyped
  <1>3. Search!RouteJoins
    BY DEF SearchInv, Joined, Search!RouteJoins
  <1> QED BY <1>1, <1>2, <1>3 DEF Search!RouteSound

LEMMA StartLegKeeps == SearchInv /\ Search!StartLeg => SearchInv'
  <1> SUFFICES ASSUME SearchInv, Search!StartLeg PROVE SearchInv'
    OBVIOUS
  <1>1. /\ step = "leg" /\ todo # <<>> /\ step' = "search" /\ expansions' = 0
        /\ at' \in IF mode = "direct" THEN Search!NearestFree(at) ELSE {at}
        /\ goal' \in IF mode = "direct" THEN Search!NearestFree(Head(todo)) ELSE Search!SnapGoal(Head(todo))
        /\ frontier' = {<<0, at'>>} /\ came' = [c \in {at'} |-> at'] /\ cost' = [c \in {at'} |-> 0]
        /\ UNCHANGED <<mode, budget, grid, todo, route, leg>>
    BY DEF Search!StartLeg
  <1>2. SearchTyped /\ Joined /\ leg.smooth \in Seq(Grid) /\ Drives(leg.smooth)
    BY DEF SearchInv
  <1>3. Search!Free \subseteq Grid /\ Head(todo) \in Grid
    BY <1>1, <1>2, GridFacts DEF Search!Free, SearchTyped
  <1>4. \A c : Search!NearestFree(c) \subseteq Search!Free \cup {c} /\ (Search!Free # {} => Search!NearestFree(c) \subseteq Search!Free)
    BY DEF Search!NearestFree
  <1>5. \A c : Search!SnapGoal(c) \subseteq Search!Free \cup {c}
    BY DEF Search!SnapGoal
  <1>6. at' \in Grid /\ goal' \in Grid
    BY <1>1, <1>2, <1>3, <1>4, <1>5 DEF SearchTyped
  <1>7. SearchTyped'
    BY <1>1, <1>2, <1>6 DEF SearchTyped
  <1>8. Search!Free' = Search!Free /\ Beyond' = Beyond /\ Costs' = Costs /\ Drives(leg.smooth)'
    BY <1>1, <1>2, GridStays, WaysStay
  <1>9. Joined'
    <2>1. CASE mode = "direct"
      <3>1. route = <<>> /\ Len(todo) = 1 /\ at \in Search!Free \cup {From}
        BY <1>1, <1>2, <2>1 DEF Joined
      <3>2. at' \in Search!Free \cup {From}
        BY <1>1, <1>4, <2>1, <3>1
      <3> QED BY <1>1, <1>8, <3>1, <3>2 DEF Joined
    <2>2. CASE mode # "direct"
      BY <1>1, <1>2, <1>8, <2>2 DEF Joined
    <2> QED BY <2>1, <2>2
  <1>10. Wave(Beyond', Costs', Ahead(goal'), at', came', cost', frontier')
    <2>1. Graded(Beyond, Costs, Ahead(goal'))
      BY <1>2, <1>6, GridGraded DEF SearchTyped
    <2> QED BY <1>1, <1>6, <1>8, <2>1, WaveStarts
  <1> QED BY <1>1, <1>2, <1>7, <1>8, <1>9, <1>10 DEF SearchInv

LEMMA ExpandKeeps == SearchInv /\ Search!Expand => SearchInv'
  <1> SUFFICES ASSUME SearchInv, Search!Expand PROVE SearchInv'
    OBVIOUS
  <1>1. /\ SearchTyped /\ Joined /\ leg.smooth \in Seq(Grid) /\ Drives(leg.smooth) /\ step = "search"
        /\ todo # <<>> /\ Wave(Beyond, Costs, Ahead(goal), at, came, cost, frontier)
        /\ UNCHANGED <<mode, budget, grid, todo, at, goal, route, leg, step>>
    BY DEF SearchInv, Search!Expand
  <1>2. Search!Free' = Search!Free /\ Beyond' = Beyond /\ Costs' = Costs /\ Drives(leg.smooth)'
    BY <1>1, GridStays, WaysStay
  <1>3. PICK e \in frontier :
          LET c == e[2]
              better == {n \in Search!Neighbors(c) : n \notin DOMAIN cost \/ cost[c] + Search!Move(c, n) < cost[n]}
              new(n) == cost[c] + Search!Move(c, n)
          IN  /\ expansions' = expansions + 1
              /\ cost' = [n \in better \cup DOMAIN cost |-> IF n \in better THEN new(n) ELSE cost[n]]
              /\ came' = [n \in better \cup DOMAIN came |-> IF n \in better THEN c ELSE came[n]]
              /\ frontier' = (frontier \ {e}) \cup {<<new(n) + Search!Heuristic(n, goal), n>> : n \in better}
    BY DEF Search!Expand
  <1>4. Graded(Beyond, Costs, Ahead(goal)) /\ Under(Guess(goal), Ahead(goal)) /\ e[2] \in Grid
    <2>1. e[2] \in Grid
      BY <1>1 DEF Wave, WaysBack
    <2> QED BY <1>1, <2>1, GridGraded DEF SearchTyped
  <1> DEFINE c == e[2]
             b == Better(Beyond, Costs, cost, c)
  <1>5. /\ Beyond[c] = Search!Neighbors(c)
        /\ \A n \in Beyond[c] : n \in Grid /\ Costs[<<c, n>>] = Search!Move(c, n) /\ Guess(goal)[n] = Search!Heuristic(n, goal)
    <2>1. Beyond[c] = Search!Neighbors(c) /\ Beyond[c] \subseteq Grid
      BY <1>4 DEF Beyond, Graded
    <2> QED BY <1>4, <2>1 DEF Costs, Guess
  <1>6. b = {n \in Search!Neighbors(c) : n \notin DOMAIN cost \/ cost[c] + Search!Move(c, n) < cost[n]}
    BY <1>5 DEF Better
  <1>7. \A n \in b : Costs[<<c, n>>] = Search!Move(c, n) /\ Guess(goal)[n] = Search!Heuristic(n, goal)
    BY <1>5 DEF Better
  <1>8. /\ expansions' = expansions + 1
        /\ cost' = [n \in b \cup DOMAIN cost |-> IF n \in b THEN cost[c] + Search!Move(c, n) ELSE cost[n]]
        /\ came' = [n \in b \cup DOMAIN came |-> IF n \in b THEN c ELSE came[n]]
        /\ frontier' = (frontier \ {e}) \cup {<<cost[c] + Search!Move(c, n) + Search!Heuristic(n, goal), n>> : n \in b}
    BY <1>3, <1>6
  <1> HIDE DEF b, c
  <1>9. cost' = [n \in b \cup DOMAIN cost |-> IF n \in b THEN cost[c] + Costs[<<c, n>>] ELSE cost[n]]
    BY <1>7, <1>8
  <1>10. frontier' = (frontier \ {e}) \cup {<<cost[c] + Costs[<<c, n>>] + Guess(goal)[n], n>> : n \in b}
    BY <1>7, <1>8
  <1>11. Wave(Beyond, Costs, Ahead(goal), at, came', cost', frontier')
    <2>1. /\ came' = NewBack(Beyond, Costs, came, cost, e[2]) /\ cost' = NewDist(Beyond, Costs, cost, e[2])
          /\ frontier' = NewQueue(Beyond, Costs, Guess(goal), cost, frontier, e)
      BY <1>8, <1>9, <1>10 DEF b, c, NewBack, NewDist, NewQueue
    <2> QED BY <1>1, <1>4, <2>1, WaveGoesOn
  <1>12. SearchTyped' /\ Joined'
    BY <1>1, <1>2, <1>8 DEF SearchTyped, Joined
  <1> QED BY <1>1, <1>2, <1>11, <1>12 DEF SearchInv

LEMMA FinishLegKeeps == SearchInv /\ Search!FinishLeg => SearchInv'
  <1> SUFFICES ASSUME SearchInv, Search!FinishLeg PROVE SearchInv'
    OBVIOUS
  <1> DEFINE P == Search!Path
             S == Search!Smooth(P)
  <1>1. /\ SearchTyped /\ Joined /\ leg.smooth \in Seq(Grid) /\ Drives(leg.smooth) /\ step = "search"
        /\ todo # <<>> /\ Wave(Beyond, Costs, Ahead(goal), at, came, cost, frontier)
    BY DEF SearchInv, Search!FinishLeg
  <1>2. /\ Search!SearchEnds /\ leg' = [cells |-> P, smooth |-> S]
        /\ route' = IF route = <<>> \/ P = <<>> THEN route \o S ELSE route \o Tail(S)
        /\ at' = IF P = <<>> THEN at ELSE goal
        /\ todo' = Tail(todo) /\ step' = IF todo' = <<>> THEN "done" ELSE "found"
        /\ UNCHANGED <<mode, budget, grid, goal, frontier, came, cost, expansions>>
    BY DEF Search!FinishLeg, Search!search
  <1>3. Search!Free' = Search!Free /\ Beyond' = Beyond /\ Costs' = Costs
    BY <1>2, GridStays
  <1>4. /\ goal \in DOMAIN came => P # <<>> /\ Leads(P, at, goal) /\ Walks(P)
        /\ goal \notin DOMAIN came => P = <<>>
    BY <1>1, PathWalks DEF Wave, Leads
  <1>5. IF P = <<>> THEN S = <<>> ELSE Leads(S, at, goal) /\ Drives(S)
    BY <1>4, SmoothDrives, NothingToSmooth
  <1> HIDE DEF P, S
  <1>6. leg'.cells = P /\ leg'.smooth = S
    BY <1>2
  <1>7. S \in Seq(Grid) /\ Drives(S)
    <2>1. CASE P = <<>>
      BY <1>5, <2>1 DEF Drives
    <2>2. CASE P # <<>>
      BY <1>5, <2>2 DEF Leads
    <2> QED BY <2>1, <2>2
  <1>8. (Walks(leg.cells)' <=> Walks(P)) /\ (Drives(leg.smooth)' <=> Drives(S))
    BY <1>2, <1>6, WaysStay
  <1>9. Origin' = at
    <2>1. Origin' = IF P = <<>> THEN at' ELSE P[1]
      BY <1>6 DEF Origin
    <2> QED BY <1>2, <1>4, <2>1 DEF Leads
  <1>10. Found'
    <2>1. Search!SearchEnds'
      BY <1>2 DEF Search!SearchEnds, Search!Min1
    <2> QED BY <1>1, <1>2, <1>3, <1>4, <1>6, <1>8, <1>9, <2>1 DEF Found, Leads
  <1>11. /\ route' \in Seq(Grid)
         /\ route' # <<>> => route'[Len(route')] = at' /\ route'[1] \in Search!Free \cup {From}
         /\ route' = <<>> => at' \in Search!Free \cup {From}
    <2>1. /\ route \in Seq(Grid) /\ Len(route) \in Nat /\ S \in Seq(Grid) /\ Len(S) \in Nat
      BY <1>1, <1>7 DEF SearchTyped
    <2>2. CASE P = <<>>
      <3>1. route' = route /\ at' = at
        BY <1>2, <1>5, <2>1, <2>2
      <3> QED BY <1>1, <2>1, <3>1 DEF Joined
    <2>3. CASE P # <<>> /\ route = <<>>
      <3>1. route' = S /\ at' = goal
        BY <1>2, <2>1, <2>3
      <3>2. S # <<>> /\ S[1] = at /\ S[Len(S)] = goal
        BY <1>5, <2>3 DEF Leads
      <3>3. at \in Search!Free \cup {From}
        BY <1>1, <2>3 DEF Joined
      <3> QED BY <2>1, <3>1, <3>2, <3>3
    <2>4. CASE P # <<>> /\ route # <<>>
      <3> DEFINE n == Len(route)
                 T == Tail(S)
      <3>1. route' = route \o T /\ at' = goal
        BY <1>2, <2>4
      <3>2. S # <<>> /\ S[1] = at /\ S[Len(S)] = goal
        BY <1>5, <2>4 DEF Leads
      <3>3. n \in Nat /\ n >= 1 /\ route[n] = at /\ route[1] \in Search!Free \cup {From}
        BY <1>1, <2>1, <2>4 DEF Joined
      <3>4. T \in Seq(Grid) /\ Len(T) = Len(S) - 1 /\ (Len(S) > 1 => T[Len(S) - 1] = S[Len(S)]) /\ Len(S) >= 1
        BY <2>1, <3>2
      <3> HIDE DEF T
      <3>5. /\ route \o T \in Seq(Grid) /\ Len(route \o T) = Len(route) + Len(T)
            /\ \A i \in 1 .. Len(route) + Len(T) : (route \o T)[i] = IF i <= Len(route) THEN route[i] ELSE T[i - Len(route)]
        BY <2>1, <3>4, ConcatProperties
      <3>6. (route \o T)[1] = route[1] /\ route \o T # <<>>
        <4>1. 1 \in 1 .. Len(route) + Len(T) /\ 1 <= Len(route)
          BY <2>1, <3>3, <3>4
        <4> QED BY <3>5, <4>1
      <3>7. (route \o T)[Len(route) + Len(T)] = goal
        <4>0. Len(route) + Len(T) \in 1 .. Len(route) + Len(T)
          BY <2>1, <3>3, <3>4
        <4>1. CASE Len(S) = 1
          <5>1. Len(T) = 0 /\ at = goal
            BY <3>2, <3>4, <4>1
          <5> QED BY <2>1, <3>3, <3>5, <4>0, <5>1
        <4>2. CASE Len(S) # 1
          <5>1. ~(Len(route) + Len(T) <= Len(route)) /\ (Len(route) + Len(T)) - Len(route) = Len(T) /\ T[Len(T)] = goal
            BY <2>1, <3>2, <3>4, <4>2
          <5> QED BY <3>5, <4>0, <5>1
        <4> QED BY <4>1, <4>2
      <3> QED BY <3>1, <3>3, <3>5, <3>6, <3>7
    <2> QED BY <2>2, <2>3, <2>4
  <1>12. todo' \in Seq(Grid) /\ (Len(todo) = 1 => todo' = <<>>)
    <2>1. todo \in Seq(Grid) /\ todo # <<>>
      BY <1>1 DEF SearchTyped
    <2> QED BY <1>2, <2>1
  <1>13. SearchTyped'
    BY <1>1, <1>2, <1>11, <1>12 DEF SearchTyped
  <1>14. Joined'
    BY <1>1, <1>2, <1>3, <1>11, <1>12 DEF Joined
  <1> QED BY <1>2, <1>6, <1>7, <1>8, <1>10, <1>13, <1>14 DEF SearchInv

LEMMA SearchRests == SearchInv /\ UNCHANGED <<ofSearch, shared>> => SearchInv'
  <1> SUFFICES ASSUME SearchInv, UNCHANGED <<ofSearch, shared>> PROVE SearchInv'
    OBVIOUS
  <1>1. UNCHANGED <<mode, budget, grid, todo, at, goal, frontier, came, cost, expansions, leg, step, route>>
    BY DEF ofSearch, shared
  <1>2. Search!Free' = Search!Free /\ Beyond' = Beyond /\ Costs' = Costs
    BY <1>1, GridStays
  <1>3. (Walks(leg.cells)' <=> Walks(leg.cells)) /\ (Drives(leg.smooth)' <=> Drives(leg.smooth))
    BY <1>1, WaysStay
  <1>4. Origin' = Origin /\ (Found => Found')
    BY <1>1, <1>2, <1>3 DEF Origin, Found, Search!SearchEnds, Search!Min1
  <1>5. SearchTyped' /\ Joined'
    BY <1>1, <1>2 DEF SearchInv, SearchTyped, Joined
  <1> QED BY <1>1, <1>2, <1>3, <1>4, <1>5 DEF SearchInv

LEMMA NextLegKeeps == SearchInv /\ Search!NextLeg => SearchInv'
  <1> SUFFICES ASSUME SearchInv, Search!NextLeg PROVE SearchInv'
    OBVIOUS
  <1>1. step = "found" /\ step' = "leg"
        /\ UNCHANGED <<mode, budget, grid, todo, at, goal, frontier, came, cost, expansions, leg, route>>
    BY DEF Search!NextLeg, Search!search
  <1>2. Search!Free' = Search!Free /\ Drives(leg.smooth)'
    BY <1>1, GridStays, WaysStay DEF SearchInv
  <1>3. SearchTyped' /\ Joined'
    BY <1>1, <1>2 DEF SearchInv, SearchTyped, Joined
  <1> QED BY <1>1, <1>2, <1>3 DEF SearchInv

LEMMA SearchSteps == SearchInv /\ Search!SearchStep => SearchInv'
  BY StartLegKeeps, ExpandKeeps, FinishLegKeeps, NextLegKeeps DEF Search!SearchStep

\* A* keeps its word on every grid: the cheapest leg within the budget, clear lines, legs that join;
\* and the corners rounded after it neither overlap nor take a speed up again while braking.
THEOREM RoutesAreSound == RoutesSpec => []RouteSound
  <1> DEFINE Inv == (layer = "search" => SearchInv) /\ (layer = "profile" => ProfileTyped)
  <1>1. RoutesInit => Inv
    BY SearchStart DEF RoutesInit, PlansInit, Profile!ProfileInit, ProfileTyped
  <1>2. Inv /\ [RoutesNext]_routesVars => Inv'
    <2> SUFFICES ASSUME Inv, [RoutesNext]_routesVars PROVE Inv'
      OBVIOUS
    <2>1. layer' = layer
      BY PartStays
    <2>2. ASSUME layer = "search" PROVE SearchInv'
      <3>1. Search!SearchStep \/ UNCHANGED <<ofSearch, shared>>
        BY <2>2 DEF RoutesNext, SearchRuns, BlocksRun, LegsRun, FollowRuns, FieldRuns, ChoiceRuns, ChoiceRest,
                    routesVars, plans
      <3> QED BY <2>2, <3>1, SearchSteps, SearchRests
    <2>3. ASSUME layer = "profile" PROVE ProfileTyped'
      <3>1. UNCHANGED ofProfile
        BY <2>3 DEF RoutesNext, SearchRuns, BlocksRun, LegsRun, FollowRuns, FieldRuns, ChoiceRuns, ChoiceRest,
                    routesVars, plans
      <3> QED BY <2>3, <3>1 DEF ofProfile, ProfileTyped
    <2> QED BY <2>1, <2>2, <2>3
  <1>3. Inv => RouteSound
    BY SearchIsSound, ProfileIsSound DEF RouteSound
  <1> HIDE DEF Inv
  <1> QED BY <1>1, <1>2, <1>3, PTL DEF RoutesSpec
=============================================================================
