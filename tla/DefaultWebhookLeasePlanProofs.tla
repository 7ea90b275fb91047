--------------------- MODULE DefaultWebhookLeasePlanProofs ---------------------
(***************************************************************************)
(* Proofs about DefaultWebhookLeasePlan, for all finite sets of shards and *)
(* groups and any counters.  The planner picks a shard and a group out of  *)
(* finite sets by comparison, and reckons with sums of pressures; FoldFacts*)
(* has what is needed about both.                                          *)
(***************************************************************************)
EXTENDS DefaultWebhookLeasePlan, FoldFacts

\* measurePressure as a function.
PressureOf == [q \in Queues |-> Pressure(q)]

Owned(own, g) == {q \in Queues : own[q] = g}

LEMMA PressureIsNat ==
  ASSUME TypeOK
  PROVE  \A q \in Queues : Pressure(q) \in Nat /\ PressureOf[q] = Pressure(q)
<1> SUFFICES ASSUME NEW q \in Queues PROVE Pressure(q) \in Nat /\ PressureOf[q] = Pressure(q)
  OBVIOUS
<1>1. backlog[q] \in Nat /\ active[q] \in Nat
  BY PlanAssumption DEF TypeOK
<1>2. Pressure(q) \in Nat
  BY <1>1 DEF Pressure, ACTIVE_WEIGHT
<1> QED
  BY <1>2 DEF PressureOf

\* LoadsOf adds up the pressures of the shards of every group.
LEMMA LoadIsSum ==
  ASSUME NEW S \in SUBSET Queues
  PROVE  MapThenSumSet(Pressure, S) = Sum(PressureOf, S)
<1> DEFINE Coded(f) == [s \in SUBSET S |->
                          IF s = {} THEN 0
                          ELSE Pressure(CHOOSE x \in s : TRUE) + f[s \ {CHOOSE x \in s : TRUE}]]
           Summed(f) == [s \in SUBSET S |->
                           IF s = {} THEN 0
                           ELSE PressureOf[Chosen(s)] + f[s \ {Chosen(s)}]]
<1>1. MapThenSumSet(Pressure, S) = (CHOOSE f : f = Coded(f))[S]
  BY DEF MapThenSumSet, MapThenFoldSet
<1>2. Sum(PressureOf, S) = (CHOOSE f : f = Summed(f))[S]
  BY DEF Sum, Partial
<1>3. ASSUME NEW f PROVE Coded(f) = Summed(f)
  <2>1. \A s \in SUBSET S : Coded(f)[s] = Summed(f)[s]
    <3> SUFFICES ASSUME NEW s \in SUBSET S PROVE Coded(f)[s] = Summed(f)[s]
      OBVIOUS
    <3>1. CASE s = {}
      BY <3>1
    <3>2. CASE s # {}
      <4>1. Chosen(s) \in s
        BY <3>2 DEF Chosen
      <4>2. PressureOf[Chosen(s)] = Pressure(Chosen(s))
        BY <4>1 DEF PressureOf
      <4> QED
        BY <3>2, <4>2 DEF Chosen
    <3> QED
      BY <3>1, <3>2
  <2> QED
    BY <2>1
<1>4. (CHOOSE f : f = Coded(f)) = (CHOOSE f : f = Summed(f))
  <2>1. \A f : f = Coded(f) <=> f = Summed(f)
    BY <1>3
  <2> HIDE DEF Coded, Summed
  <2> QED
    BY <2>1, Zenon
<1> QED
  BY <1>1, <1>2, <1>4

LEMMA LoadsOfIsSum ==
  ASSUME NEW own \in [Queues -> Groups]
  PROVE  /\ DOMAIN LoadsOf(own) = Groups
         /\ \A g \in Groups : LoadsOf(own)[g] = Sum(PressureOf, Owned(own, g))
<1>1. \A g \in Groups : MapThenSumSet(Pressure, Owned(own, g)) = Sum(PressureOf, Owned(own, g))
  BY LoadIsSum DEF Owned
<1>2. LoadsOf(own) = [g \in Groups |-> MapThenSumSet(Pressure, Owned(own, g))]
  BY DEF LoadsOf, Owned
<1> QED
  BY <1>1, <1>2

\* The sums of pressures, one shard at a time.
LEMMA PressureSum ==
  ASSUME TypeOK
  PROVE  \A T \in SUBSET Queues :
           /\ Sum(PressureOf, T) \in Nat
           /\ \A q \in T : Sum(PressureOf, T) = Pressure(q) + Sum(PressureOf, T \ {q})
<1>1. \A q \in Queues : PressureOf[q] \in Nat
  BY PressureIsNat
<1>2. \A T \in SUBSET Queues :
        /\ Sum(PressureOf, T) \in Nat
        /\ \A q \in T : Sum(PressureOf, T) = PressureOf[q] + Sum(PressureOf, T \ {q})
  <2>1. IsFiniteSet(Queues)
    BY PlanAssumption
  <2> QED
    BY <1>1, <2>1, SumFacts
<1> QED
  BY <1>2, PressureIsNat

(***************************************************************************)
(* What the planner picks.                                                 *)
(***************************************************************************)

\* Sorting by pressure, then name, has a first shard.
LEMMA NextQueueIsPending ==
  ASSUME TypeOK, todo # {}
  PROVE  NextQueue \in todo
<1> DEFINE byPressure == [q \in todo |-> Pressure(q)]
           T == {q \in todo : \A r \in todo : Pressure(q) >= Pressure(r)}
           byName == [q \in T |-> q]
<1>1. /\ todo \subseteq Queues /\ Queues \subseteq Nat
      /\ IsFiniteSet(todo) /\ \A q \in todo : Pressure(q) \in Nat
  BY PlanAssumption, PressureIsNat, FS_Subset DEF TypeOK
<1>2. \E q \in todo : \A r \in todo : byPressure[q] >= byPressure[r]
  <2>1. \A q \in todo : byPressure[q] \in Int
    BY <1>1
  <2> HIDE DEF byPressure
  <2> QED
    BY <1>1, <2>1, ArgMax
<1>3. T # {} /\ T \subseteq todo /\ IsFiniteSet(T)
  BY <1>1, <1>2, FS_Subset
<1>4. \E q \in T : \A r \in T : byName[q] <= byName[r]
  <2>1. \A q \in T : byName[q] \in Int
    BY <1>1, <1>3
  <2> HIDE DEF byName, T
  <2> QED
    BY <1>3, <2>1, ArgMin
<1>5. PICK q \in T : \A r \in T : q <= r
  BY <1>4
<1>6. ASSUME NEW r \in todo \ {q}
      PROVE  Pressure(q) > Pressure(r) \/ (Pressure(q) = Pressure(r) /\ q < r)
  <2>1. Pressure(q) >= Pressure(r) /\ q \in Nat /\ r \in Nat /\ q # r
        /\ Pressure(q) \in Nat /\ Pressure(r) \in Nat
    BY <1>1, <1>3
  <2>2. CASE r \in T
    BY <1>5, <2>1, <2>2
  <2>3. CASE r \notin T
    <3>1. PICK x \in todo : ~(Pressure(r) >= Pressure(x))
      BY <2>3
    <3>2. Pressure(q) >= Pressure(x) /\ Pressure(x) \in Nat
      BY <1>1, <3>1
    <3> QED
      BY <2>1, <3>1, <3>2
  <2> QED
    BY <2>2, <2>3
<1> QED
  BY <1>3, <1>6 DEF NextQueue

\* The tie-breaks of chooseLeastLoadedOwner leave exactly one live group first.
LEMMA LeastLoadedIsAlive ==
  ASSUME TypeOK, NEW q \in Queues
  PROVE  LeastLoadedOwner(q) \in alive
<1> DEFINE A == {g \in alive : \A h \in alive : loads[g] <= loads[h]}
           B == {g \in A : \A h \in A : Rank(q, g) <= Rank(q, h)}
           byLoad == [g \in alive |-> loads[g]]
           byRank == [g \in A |-> Rank(q, g)]
           byName == [g \in B |-> g]
<1>1. /\ alive # {} /\ IsFiniteSet(alive) /\ alive \subseteq Nat
      /\ \A g \in alive : loads[g] \in Nat
      /\ \A g : Rank(q, g) \in 0..2
  <2>1. alive # {} /\ alive \subseteq Groups /\ loads \in [Groups -> Nat]
    BY DEF TypeOK
  <2>2. \A g : Rank(q, g) \in 0..2
    BY DEF Rank
  <2> QED
    BY <2>1, <2>2, PlanAssumption, FS_Subset
<1>2. \E g \in alive : \A h \in alive : byLoad[g] <= byLoad[h]
  <2>1. \A g \in alive : byLoad[g] \in Int
    BY <1>1
  <2> HIDE DEF byLoad
  <2> QED
    BY <1>1, <2>1, ArgMin
<1>3. A # {} /\ A \subseteq alive /\ IsFiniteSet(A)
  BY <1>1, <1>2, FS_Subset
<1>4. \E g \in A : \A h \in A : byRank[g] <= byRank[h]
  <2>1. \A g \in A : byRank[g] \in Int
    BY <1>1
  <2> HIDE DEF byRank, A
  <2> QED
    BY <1>3, <2>1, ArgMin
<1>5. B # {} /\ B \subseteq A /\ IsFiniteSet(B)
  BY <1>3, <1>4, FS_Subset
<1>6. \E g \in B : \A h \in B : byName[g] <= byName[h]
  <2>1. \A g \in B : byName[g] \in Int
    BY <1>1, <1>3, <1>5
  <2> HIDE DEF byName, B
  <2> QED
    BY <1>5, <2>1, ArgMin
<1>7. PICK g \in B : \A h \in B : g <= h
  BY <1>6
<1>8. ASSUME NEW h \in alive \ {g}
      PROVE  \/ loads[g] < loads[h]
             \/ /\ loads[g] = loads[h]
                /\ Rank(q, g) < Rank(q, h) \/ (Rank(q, g) = Rank(q, h) /\ g < h)
  <2>1. /\ g \in alive /\ g \in A /\ loads[g] <= loads[h]
        /\ loads[g] \in Nat /\ loads[h] \in Nat /\ g \in Nat /\ h \in Nat /\ g # h
        /\ Rank(q, g) \in 0..2 /\ Rank(q, h) \in 0..2
    BY <1>1, <1>3, <1>5
  <2>2. CASE h \notin A
    <3>1. PICK x \in alive : ~(loads[h] <= loads[x])
      BY <2>2
    <3>2. loads[g] <= loads[x] /\ loads[x] \in Nat
      BY <1>1, <2>1
    <3> QED
      BY <2>1, <3>1, <3>2
  <2>3. CASE h \in A
    <3>1. loads[g] = loads[h]
      BY <2>1, <2>3
    <3>2. Rank(q, g) <= Rank(q, h)
      BY <1>7, <2>3
    <3>3. CASE h \in B
      BY <1>7, <2>1, <3>1, <3>2, <3>3
    <3>4. CASE h \notin B
      <4>1. PICK x \in A : ~(Rank(q, h) <= Rank(q, x))
        BY <2>3, <3>4
      <4>2. Rank(q, g) <= Rank(q, x) /\ Rank(q, x) \in 0..2
        BY <1>1, <1>7
      <4> QED
        BY <2>1, <3>1, <4>1, <4>2
    <3> QED
      BY <3>3, <3>4
  <2> QED
    BY <2>2, <2>3
<1> QED
  BY <1>3, <1>5, <1>8 DEF LeastLoadedOwner

------------------------------------------------------------------------------
(***************************************************************************)
(* The inductive invariant: the loads are those of the desired owners; a   *)
(* shard the loop has not come to is where it was, the others have a live  *)
(* group; and a shard that left a live owner was idle and not cooling.     *)
(***************************************************************************)

PendingStays == \A q \in todo : desired[q] = owner[q]
PlannedIsAlive == \A q \in DynamicQueues \ todo : desired[q] \in alive
MovedWasIdle ==
  \A q \in Queues : desired[q] # owner[q] /\ owner[q] \in alive =>
    active[q] = 0 /\ q \notin cooling

Inv ==
  /\ TypeOK
  /\ LoadsAccount
  /\ PendingStays
  /\ PlannedIsAlive
  /\ MovedWasIdle

LEMMA LoadsOfType ==
  ASSUME TypeOK, NEW own \in [Queues -> Groups]
  PROVE  LoadsOf(own) \in [Groups -> Nat]
<1>1. /\ LoadsOf(own) = [g \in Groups |-> MapThenSumSet(Pressure, Owned(own, g))]
      /\ \A g \in Groups : LoadsOf(own)[g] = Sum(PressureOf, Owned(own, g))
  BY LoadsOfIsSum DEF LoadsOf, Owned
<1>2. \A g \in Groups : Sum(PressureOf, Owned(own, g)) \in Nat
  BY PressureSum DEF Owned
<1>3. \A g \in Groups : LoadsOf(own)[g] \in Nat
  BY <1>1, <1>2
<1> HIDE DEF Owned
<1> QED
  BY <1>1, <1>3

LEMMA InitInv == Init => Inv
<1> SUFFICES ASSUME Init PROVE Inv
  OBVIOUS
<1>1. /\ backlog \in [Queues -> Backlogs] /\ active \in [Queues -> Actives]
      /\ alive \in (SUBSET Groups) \ {{}} /\ suppress \in BOOLEAN
      /\ cooling \subseteq Queues
      /\ owner \in [Queues -> Groups] /\ desired = owner
      /\ loads = LoadsOf(owner) /\ todo = DynamicQueues
  BY PlanAssumption DEF Init
<1>2. loads \in [Groups -> Nat]
  <2> DEFINE p == [q \in Queues |-> Pressure(q)]
  <2>1. \A g \in Groups : LoadsOf(owner)[g] = Sum(PressureOf, Owned(owner, g))
    BY <1>1, LoadsOfIsSum
  <2>2. \A q \in Queues : PressureOf[q] \in Nat
    <3> SUFFICES ASSUME NEW q \in Queues PROVE PressureOf[q] \in Nat
      OBVIOUS
    <3>1. backlog[q] \in Nat /\ active[q] \in Nat
      BY <1>1, PlanAssumption
    <3> QED
      BY <3>1 DEF PressureOf, Pressure, ACTIVE_WEIGHT
  <2>3. IsFiniteSet(Queues)
    BY PlanAssumption
  <2>4. \A g \in Groups : Sum(PressureOf, Owned(owner, g)) \in Nat
    <3>1. \A T \in SUBSET Queues :
            /\ Sum(PressureOf, T) \in Nat
            /\ \A q \in T : Sum(PressureOf, T) = PressureOf[q] + Sum(PressureOf, T \ {q})
      BY <2>2, <2>3, SumFacts
    <3> QED
      BY <3>1 DEF Owned
  <2>5. LoadsOf(owner) = [g \in Groups |-> MapThenSumSet(Pressure, {q \in Queues : owner[q] = g})]
    BY DEF LoadsOf
  <2>6. \A g \in Groups : LoadsOf(owner)[g] \in Nat
    BY <2>1, <2>4
  <2> QED
    BY <1>1, <2>5, <2>6
<1>3. TypeOK
  BY <1>1, <1>2 DEF TypeOK
<1> QED
  BY <1>1, <1>3 DEF Inv, LoadsAccount, PendingStays, PlannedIsAlive, MovedWasIdle

\* Moving a shard moves its pressure from one load to another; the clamp at
\* zero is never needed.
LEMMA MoveLoadFacts ==
  ASSUME Inv, NEW q \in Queues, desired[q] = owner[q], NEW to \in Groups
  PROVE  /\ MoveLoad(q, to) = LoadsOf([desired EXCEPT ![q] = to])
         /\ MoveLoad(q, to) \in [Groups -> Nat]
         /\ loads[owner[q]] >= Pressure(q)
         /\ to # owner[q] =>
              \A g \in Groups : MoveLoad(q, to)[g] =
                IF g = owner[q] THEN loads[g] - Pressure(q)
                ELSE IF g = to THEN loads[g] + Pressure(q)
                ELSE loads[g]
<1> DEFINE moved == [desired EXCEPT ![q] = to]
           from == owner[q]
<1>1. /\ TypeOK /\ desired \in [Queues -> Groups] /\ from \in Groups
      /\ loads \in [Groups -> Nat] /\ Pressure(q) \in Nat
      /\ moved \in [Queues -> Groups]
  BY PressureIsNat DEF Inv, TypeOK
<1>2. \A g \in Groups : loads[g] = Sum(PressureOf, Owned(desired, g))
  BY <1>1, LoadsOfIsSum DEF Inv, LoadsAccount
<1>3. \A T \in SUBSET Queues :
        /\ Sum(PressureOf, T) \in Nat
        /\ \A r \in T : Sum(PressureOf, T) = Pressure(r) + Sum(PressureOf, T \ {r})
  BY <1>1, PressureSum
<1>4. q \in Owned(desired, from) /\ Owned(desired, from) \in SUBSET Queues
  BY DEF Owned
<1>5. /\ loads[from] = Pressure(q) + Sum(PressureOf, Owned(desired, from) \ {q})
      /\ Sum(PressureOf, Owned(desired, from) \ {q}) \in Nat
  <2>1. Owned(desired, from) \ {q} \in SUBSET Queues
    BY <1>4
  <2> QED
    BY <1>1, <1>2, <1>3, <1>4, <2>1
<1>6. loads[from] >= Pressure(q)
  BY <1>1, <1>5
<1>7. CASE to = from
  <2>1. moved = desired /\ MoveLoad(q, to) = loads
    BY <1>1, <1>7 DEF MoveLoad
  <2> QED
    BY <1>1, <1>6, <1>7, <2>1 DEF Inv, LoadsAccount
<1>8. CASE to # from
  <2>1. Max({0, loads[from] - Pressure(q)}) = loads[from] - Pressure(q)
    <3> DEFINE x == loads[from] - Pressure(q)
    <3>1. x \in Nat
      BY <1>1, <1>6
    <3> HIDE DEF x
    <3>2. {0, x} \in SUBSET Int /\ {0, x} # {} /\ IsFiniteSet({0, x})
      <4>1. IsFiniteSet({0}) /\ IsFiniteSet({x})
        BY FS_Singleton
      <4>2. IsFiniteSet({0} \cup {x})
        BY <4>1, FS_Union
      <4>3. {0} \cup {x} = {0, x}
        OBVIOUS
      <4> QED
        BY <3>1, <4>2, <4>3
    <3>3. Max({0, x}) \in {0, x} /\ \A y \in {0, x} : Max({0, x}) >= y
      BY <3>2, MaxFacts
    <3>4. Max({0, x}) = x
      BY <3>1, <3>3
    <3> QED
      BY <3>4 DEF x
  <2>2. MoveLoad(q, to) = [loads EXCEPT ![from] = Max({0, @ - Pressure(q)}),
                                        ![to] = @ + Pressure(q)]
    BY <1>8 DEF MoveLoad
  <2>3. \A g \in Groups : MoveLoad(q, to)[g] =
          IF g = from THEN loads[g] - Pressure(q)
          ELSE IF g = to THEN loads[g] + Pressure(q)
          ELSE loads[g]
    BY <1>1, <1>8, <2>1, <2>2
  <2>4. MoveLoad(q, to) = [g \in Groups |-> MoveLoad(q, to)[g]]
    BY <1>1, <2>2
  <2>5. \A g \in Groups : MoveLoad(q, to)[g] \in Nat
    BY <1>1, <1>6, <2>3
  <2>6. MoveLoad(q, to) \in [Groups -> Nat]
    BY <2>4, <2>5
  <2>7. ASSUME NEW g \in Groups
        PROVE  Sum(PressureOf, Owned(moved, g)) = MoveLoad(q, to)[g]
    <3>1. CASE g = from
      <4>1. Owned(moved, g) = Owned(desired, g) \ {q}
        BY <1>1, <1>8, <3>1 DEF Owned
      <4>2. MoveLoad(q, to)[g] = loads[from] - Pressure(q)
        BY <2>3, <3>1
      <4>3. loads[from] - Pressure(q) = Sum(PressureOf, Owned(desired, from) \ {q})
        BY <1>1, <1>5
      <4> QED
        BY <3>1, <4>1, <4>2, <4>3
    <3>2. CASE g = to
      <4>1. /\ Owned(moved, g) \ {q} = Owned(desired, g) /\ q \in Owned(moved, g)
            /\ Owned(moved, g) \in SUBSET Queues
        BY <1>1, <1>8, <3>2 DEF Owned
      <4>2. Sum(PressureOf, Owned(moved, g)) = Pressure(q) + Sum(PressureOf, Owned(desired, g))
        BY <1>3, <4>1
      <4> QED
        BY <1>1, <1>2, <1>8, <2>3, <3>2, <4>2
    <3>3. CASE g # from /\ g # to
      <4>1. Owned(moved, g) = Owned(desired, g)
        BY <1>1, <3>3 DEF Owned
      <4> QED
        BY <1>2, <2>3, <3>3, <4>1
    <3> QED
      BY <3>1, <3>2, <3>3
  <2>8. /\ LoadsOf(moved) = [g \in Groups |-> MapThenSumSet(Pressure, Owned(moved, g))]
        /\ \A g \in Groups : LoadsOf(moved)[g] = Sum(PressureOf, Owned(moved, g))
    BY <1>1, LoadsOfIsSum DEF LoadsOf, Owned
  <2>9. MoveLoad(q, to) = LoadsOf(moved)
    <3>1. \A g \in Groups : MoveLoad(q, to)[g] = LoadsOf(moved)[g]
      BY <2>7, <2>8
    <3> HIDE DEF moved
    <3> QED
      BY <2>4, <2>8, <3>1
  <2> QED
    BY <1>6, <2>3, <2>6, <2>9
<1> QED
  BY <1>7, <1>8

\* One iteration of the loop, with the shard and the group it looks at.
Moves(q, to) == owner[q] \notin alive \/ (MayMove(q) /\ ShouldRebalance(q, to))

LEMMA PlanQueueFacts ==
  ASSUME Inv, PlanQueue
  PROVE  \E q \in todo, to \in alive :
           /\ q \in Queues /\ to \in Groups /\ desired[q] = owner[q]
           /\ todo' = todo \ {q}
           /\ desired' = IF Moves(q, to) THEN [desired EXCEPT ![q] = to] ELSE desired
           /\ loads' = IF Moves(q, to) THEN MoveLoad(q, to) ELSE loads
           /\ UNCHANGED <<inputs, owner>>
<1>1. TypeOK /\ todo # {}
  BY DEF Inv, PlanQueue
<1>2. NextQueue \in todo /\ NextQueue \in Queues
  BY <1>1, NextQueueIsPending, PlanAssumption DEF TypeOK
<1>3. LeastLoadedOwner(NextQueue) \in alive /\ LeastLoadedOwner(NextQueue) \in Groups
  BY <1>1, <1>2, LeastLoadedIsAlive DEF TypeOK
<1>4. desired[NextQueue] = owner[NextQueue]
  BY <1>2 DEF Inv, PendingStays
<1> DEFINE q == NextQueue
           to == LeastLoadedOwner(q)
<1>5. /\ todo' = todo \ {q}
      /\ desired' = IF Moves(q, to) THEN [desired EXCEPT ![q] = to] ELSE desired
      /\ loads' = IF Moves(q, to) THEN MoveLoad(q, to) ELSE loads
      /\ UNCHANGED <<inputs, owner>>
  BY DEF PlanQueue, Moves
<1>6. q \in todo /\ q \in Queues /\ desired[q] = owner[q] /\ to \in alive /\ to \in Groups
  BY <1>2, <1>3, <1>4
<1> HIDE DEF q, to
<1> QED
  BY <1>5, <1>6


LEMMA PlanQueueInv ==
  ASSUME Inv, PlanQueue
  PROVE  Inv'
<1>1. PICK q \in todo, to \in alive :
        /\ q \in Queues /\ to \in Groups /\ desired[q] = owner[q]
        /\ todo' = todo \ {q}
        /\ desired' = IF Moves(q, to) THEN [desired EXCEPT ![q] = to] ELSE desired
        /\ loads' = IF Moves(q, to) THEN MoveLoad(q, to) ELSE loads
        /\ UNCHANGED <<inputs, owner>>
  BY PlanQueueFacts
<1>2. /\ MoveLoad(q, to) = LoadsOf([desired EXCEPT ![q] = to])
      /\ MoveLoad(q, to) \in [Groups -> Nat]
  BY <1>1, MoveLoadFacts
<1>3. /\ backlog' = backlog /\ active' = active /\ alive' = alive
      /\ cooling' = cooling /\ suppress' = suppress /\ owner' = owner
  BY <1>1 DEF inputs
<1>4. desired' \in [Queues -> Groups] /\ loads' \in [Groups -> Nat] /\ loads' = LoadsOf(desired')
  <2>1. CASE Moves(q, to)
    BY <1>1, <1>2, <2>1 DEF Inv, TypeOK
  <2>2. CASE ~Moves(q, to)
    BY <1>1, <2>2 DEF Inv, TypeOK, LoadsAccount
  <2> QED
    BY <2>1, <2>2
<1>5. TypeOK'
  BY <1>1, <1>3, <1>4 DEF Inv, TypeOK
<1>6. LoadsAccount'
  <2>1. LoadsOf(desired)' = LoadsOf(desired')
    BY <1>3 DEF LoadsOf, Pressure, MapThenSumSet, MapThenFoldSet
  <2> QED
    BY <1>4, <2>1 DEF LoadsAccount
<1>7. \A r \in Queues : r # q => desired'[r] = desired[r]
  BY <1>1 DEF Inv, TypeOK
<1>8. PendingStays'
  <2>1. todo \subseteq Queues
    BY PlanAssumption DEF Inv, TypeOK
  <2> QED
    BY <1>1, <1>3, <1>7, <2>1 DEF Inv, PendingStays
<1>9. Moves(q, to) => desired'[q] = to
  BY <1>1 DEF Inv, TypeOK
<1>10. ~Moves(q, to) => desired'[q] = owner[q] /\ owner[q] \in alive
  BY <1>1 DEF Moves
<1>11. PlannedIsAlive'
  BY <1>1, <1>3, <1>7, <1>9, <1>10, PlanAssumption DEF Inv, PlannedIsAlive
<1>12. MovedWasIdle'
  <2>1. Moves(q, to) /\ owner[q] \in alive => active[q] = 0 /\ q \notin cooling
    BY DEF Moves, MayMove
  <2> QED
    BY <1>3, <1>7, <1>10, <2>1 DEF Inv, MovedWasIdle
<1> QED
  BY <1>5, <1>6, <1>8, <1>11, <1>12 DEF Inv

LEMMA NextPlanInv ==
  ASSUME Inv, NextPlan
  PROVE  Inv' /\ loads' = loads
<1>1. /\ owner' = desired /\ loads' = LoadsOf(desired) /\ todo' = DynamicQueues
      /\ UNCHANGED <<inputs, desired>>
  BY DEF NextPlan
<1>2. loads' = loads
  BY <1>1 DEF Inv, LoadsAccount
<1>3. /\ backlog' = backlog /\ active' = active /\ alive' = alive
      /\ cooling' = cooling /\ suppress' = suppress /\ desired' = desired
  BY <1>1 DEF inputs
<1>4. TypeOK'
  BY <1>1, <1>2, <1>3 DEF Inv, TypeOK
<1>5. LoadsAccount'
  <2>1. LoadsOf(desired)' = LoadsOf(desired)
    BY <1>3 DEF LoadsOf, Pressure, MapThenSumSet, MapThenFoldSet
  <2> QED
    BY <1>1, <2>1 DEF LoadsAccount
<1>6. PendingStays' /\ PlannedIsAlive' /\ MovedWasIdle'
  BY <1>1, <1>3 DEF PendingStays, PlannedIsAlive, MovedWasIdle
<1> QED
  BY <1>2, <1>4, <1>5, <1>6 DEF Inv

LEMMA NextInv == Inv /\ [Next]_vars => Inv'
<1> SUFFICES ASSUME Inv, [Next]_vars PROVE Inv'
  OBVIOUS
<1>1. CASE PlanQueue
  BY <1>1, PlanQueueInv
<1>2. CASE NextPlan
  BY <1>2, NextPlanInv
<1>3. CASE UNCHANGED vars
  <2>1. LoadsOf(desired)' = LoadsOf(desired)
    BY <1>3 DEF vars, inputs, LoadsOf, Pressure, MapThenSumSet, MapThenFoldSet
  <2> QED
    BY <1>3, <2>1 DEF vars, inputs, Inv, TypeOK, LoadsAccount, PendingStays,
       PlannedIsAlive, MovedWasIdle
<1> QED
  BY <1>1, <1>2, <1>3 DEF Next

\* The largest load of a set of groups bounds every load, and is one of them.
LEMMA LargestLoad ==
  ASSUME NEW l \in [Groups -> Nat]
  PROVE  /\ Max({l[g] : g \in Groups}) \in Nat
         /\ \A g \in Groups : Max({l[h] : h \in Groups}) >= l[g]
         /\ \E g \in Groups : Max({l[h] : h \in Groups}) = l[g]
<1> DEFINE S == {l[g] : g \in Groups}
<1>1. S \in SUBSET Int /\ S # {}
  <2>1. \A g \in Groups : l[g] \in Int
    OBVIOUS
  <2>2. Groups # {}
    BY PlanAssumption
  <2> QED
    BY <2>1, <2>2
<1>2. IsFiniteSet(S)
  <2>1. l \in Surjection(Groups, S)
    BY DEF Surjection
  <2> QED
    BY <2>1, PlanAssumption, FS_Surjection
<1>3. Max(S) \in S /\ \A y \in S : Max(S) >= y
  BY <1>1, <1>2, MaxFacts
<1> QED
  BY <1>3

MaxLoadKept == Max({loads'[g] : g \in Groups}) <= Max({loads[g] : g \in Groups})

\* If every new load is at most some old load, so is the largest one.
LEMMA LargestIsKept ==
  ASSUME loads \in [Groups -> Nat], loads' \in [Groups -> Nat],
         \A g \in Groups : \E h \in Groups : loads'[g] <= loads[h]
  PROVE  MaxLoadKept
<1> DEFINE new == loads'
<1>1. new \in [Groups -> Nat]
  OBVIOUS
<1> HIDE DEF new
<1>2. /\ Max({new[g] : g \in Groups}) \in Nat
      /\ \E g \in Groups : Max({new[h] : h \in Groups}) = new[g]
  BY <1>1, LargestLoad
<1>3. /\ Max({loads[g] : g \in Groups}) \in Nat
      /\ \A g \in Groups : Max({loads[h] : h \in Groups}) >= loads[g]
  BY LargestLoad
<1>4. PICK g \in Groups : Max({new[h] : h \in Groups}) = new[g]
  BY <1>2
<1>5. PICK h \in Groups : new[g] <= loads[h]
  BY DEF new
<1>6. Max({loads[k] : k \in Groups}) >= loads[h] /\ loads[h] \in Nat /\ new[g] \in Nat
  BY <1>1, <1>3
<1>7. new[g] <= Max({loads[k] : k \in Groups})
  BY <1>3, <1>5, <1>6
<1> QED
  BY <1>4, <1>7 DEF MaxLoadKept, new

\* A shard leaves a live owner only for a group that stays below that owner's load.
LEMMA MaxLoadStep ==
  Inv /\ [Next]_vars => ((\A q \in Queues : owner[q] \in alive) => MaxLoadKept)
<1> SUFFICES ASSUME Inv, [Next]_vars, \A q \in Queues : owner[q] \in alive
             PROVE  MaxLoadKept
  OBVIOUS
<1>1. loads \in [Groups -> Nat] /\ loads' \in [Groups -> Nat]
  BY NextInv DEF Inv, TypeOK
<1>2. CASE loads' = loads
  <2>1. \A g \in Groups : loads'[g] <= loads[g]
    BY <1>1, <1>2
  <2> QED
    BY <1>1, <2>1, LargestIsKept
<1>3. CASE PlanQueue
  <2>1. PICK q \in todo, to \in alive :
          /\ q \in Queues /\ to \in Groups /\ desired[q] = owner[q]
          /\ loads' = IF Moves(q, to) THEN MoveLoad(q, to) ELSE loads
    BY <1>3, PlanQueueFacts
  <2>2. CASE Moves(q, to)
    <3>1. /\ to # owner[q] /\ loads[owner[q]] - loads[to] > Pressure(q)
      BY <2>1, <2>2 DEF Moves, ShouldRebalance
    <3>2. \A g \in Groups : loads'[g] =
            IF g = owner[q] THEN loads[g] - Pressure(q)
            ELSE IF g = to THEN loads[g] + Pressure(q)
            ELSE loads[g]
      <4>1. loads' = MoveLoad(q, to)
        BY <2>1, <2>2
      <4>2. \A g \in Groups : MoveLoad(q, to)[g] =
              IF g = owner[q] THEN loads[g] - Pressure(q)
              ELSE IF g = to THEN loads[g] + Pressure(q)
              ELSE loads[g]
        BY <2>1, <3>1, MoveLoadFacts
      <4> QED
        BY <4>1, <4>2
    <3>3. Pressure(q) \in Nat /\ owner[q] \in Groups
      BY <2>1, PressureIsNat DEF Inv, TypeOK
    <3>4. ASSUME NEW g \in Groups PROVE \E h \in Groups : loads'[g] <= loads[h]
      <4>1. CASE g = to
        <5>1. loads'[g] <= loads[owner[q]]
          BY <1>1, <3>1, <3>2, <3>3, <4>1
        <5> QED
          BY <3>3, <5>1
      <4>2. CASE g # to
        <5>1. loads'[g] <= loads[g]
          BY <1>1, <3>2, <3>3, <4>2
        <5> QED
          BY <5>1
      <4> QED
        BY <4>1, <4>2
    <3> QED
      BY <1>1, <3>4, LargestIsKept
  <2>3. CASE ~Moves(q, to)
    BY <1>2, <2>1, <2>3
  <2> QED
    BY <2>2, <2>3
<1>4. CASE NextPlan
  BY <1>2, <1>4, NextPlanInv
<1>5. CASE UNCHANGED vars
  BY <1>2, <1>5 DEF vars
<1> QED
  BY <1>3, <1>4, <1>5 DEF Next

------------------------------------------------------------------------------
(***************************************************************************)
(* The theorems.                                                           *)
(***************************************************************************)

\* The inductive invariant holds in every state of the planning.
THEOREM Invariance == Spec => []Inv
BY InitInv, NextInv, PTL DEF Spec

\* Every variable has its type: workerLoads never becomes negative.
THEOREM TypeCorrect == Spec => []TypeOK
<1>1. Inv => TypeOK
  BY DEF Inv
<1> QED
  BY <1>1, Invariance, PTL

\* moveLoad keeps workerLoads equal to the loads of the owners decided so far,
\* so its clamp at zero never hides a wrong load.
THEOREM LoadsAreExact == Spec => []LoadsAccount
<1>1. Inv => LoadsAccount
  BY DEF Inv
<1> QED
  BY <1>1, Invariance, PTL

\* buildDefaultWebhookLeasePlan gives every dynamic shard to a live group, and
\* takes none from a live owner while it is active or cooling down.
THEOREM PlansAreLeasable == Spec => []PlanIsLeasable
<1>1. Inv => PlanIsLeasable
  BY PlanAssumption DEF Inv, TypeOK, PlannedIsAlive, MovedWasIdle, PlanIsLeasable
<1> QED
  BY <1>1, Invariance, PTL

\* shouldRebalanceQueue: while the owners are alive no iteration, and no next
\* plan, raises the load of the most loaded group.
THEOREM MaxLoadIsKept == Spec => MaxLoadNeverGrows
<1>1. Inv /\ [Next]_vars =>
        [(\A q \in Queues : owner[q] \in alive) =>
           Max({loads'[g] : g \in Groups}) <= Max({loads[g] : g \in Groups})]_vars
  BY MaxLoadStep DEF MaxLoadKept
<1> QED
  BY <1>1, Invariance, PTL DEF Spec, MaxLoadNeverGrows
================================================================================
