----------------------- MODULE MediaByteAdmissionProofs -----------------------
(***************************************************************************)
(* Proofs about MediaByteAdmission, for every finite set of callers, every *)
(* budget and every bound on the queue.  The account of the reserved bytes *)
(* is a sum over the holders, and drain is a fold over the queue: both are *)
(* reasoned about with the facts of FoldFacts.                             *)
(***************************************************************************)
EXTENDS MediaByteAdmission, FoldFacts

(***************************************************************************)
(* What drain computes.                                                    *)
(***************************************************************************)

DrainStates ==
  [rest : Seq(Callers), held : Nat, granted : SUBSET Callers,
   late : SUBSET Callers, blocked : BOOLEAN]

StartOf(held) ==
  [rest |-> <<>>, held |-> held, granted |-> {}, late |-> {}, blocked |-> stopping]

\* The function that Drained evaluates at the set of all positions.
DrainFold(queue, held) ==
  CHOOSE f : f = [s \in SUBSET (DOMAIN queue) |->
                    IF s = {} THEN StartOf(held)
                    ELSE DrainStep(f[s \ {Max(s)}], queue[Max(s)])]

LEMMA DrainedIsFold ==
  ASSUME NEW queue, NEW held
  PROVE  Drained(queue, held) = DrainFold(queue, held)[DOMAIN queue]
BY DEF Drained, FoldLeft, MapThenFoldSet, DrainFold, StartOf

LEMMA DrainStepType ==
  ASSUME TypeOK, NEW acc \in DrainStates, NEW c \in Callers
  PROVE  DrainStep(acc, c) \in DrainStates
<1>1. /\ Append(acc.rest, c) \in Seq(Callers) /\ acc.held + bytes[c] \in Nat
      /\ acc.granted \cup {c} \in SUBSET Callers /\ acc.late \cup {c} \in SUBSET Callers
  BY DEF TypeOK, DrainStates
<1>2. CASE acc.blocked
  BY <1>1, <1>2 DEF DrainStates, DrainStep
<1>3. CASE ~acc.blocked /\ expired[c]
  BY <1>1, <1>3 DEF DrainStates, DrainStep
<1>4. CASE ~acc.blocked /\ ~expired[c] /\ Fits(bytes[c], acc.held)
  BY <1>1, <1>4 DEF DrainStates, DrainStep
<1>5. CASE ~acc.blocked /\ ~expired[c] /\ ~Fits(bytes[c], acc.held)
  BY <1>1, <1>5 DEF DrainStates, DrainStep
<1> QED
  BY <1>2, <1>3, <1>4, <1>5

\* The fold over the first n positions.
After(queue, held, n) == DrainFold(queue, held)[1..n]

LEMMA DrainRecursion ==
  ASSUME TypeOK, NEW queue \in Seq(Callers), NEW held \in Nat
  PROVE  /\ Drained(queue, held) = After(queue, held, Len(queue))
         /\ After(queue, held, 0) = StartOf(held)
         /\ \A n \in Nat : n < Len(queue) =>
              After(queue, held, n + 1) = DrainStep(After(queue, held, n), queue[n + 1])
<1> DEFINE D == 1..Len(queue)
           pick == [s \in SUBSET D |-> Max(s)]
           step == [p \in D \X DrainStates |-> DrainStep(p[2], queue[p[1]])]
           Body(f) == [s \in SUBSET D |->
                         IF s = {} THEN StartOf(held)
                         ELSE DrainStep(f[s \ {Max(s)}], queue[Max(s)])]
           F == DrainFold(queue, held)
<1>1. IsFiniteSet(D) /\ DOMAIN queue = D /\ Len(queue) \in Nat
  BY FS_Interval
<1>2. \A s \in SUBSET D : s # {} => Max(s) \in s
  <2> SUFFICES ASSUME NEW s \in SUBSET D, s # {} PROVE Max(s) \in s
    OBVIOUS
  <2>1. s \in SUBSET Int
    OBVIOUS
  <2>2. IsFiniteSet(s)
    BY <1>1, FS_Subset
  <2> QED
    BY <2>1, <2>2, MaxFacts
<1>3. StartOf(held) \in DrainStates
  BY DEF StartOf, DrainStates, TypeOK
<1>4. \E f \in [SUBSET D -> DrainStates] : IsRecursive(f, D, StartOf(held), pick, step)
  <2>1. Picks(pick, D)
    BY <1>2 DEF Picks
  <2>2. Steps(step, D, DrainStates)
    <3> SUFFICES ASSUME NEW i \in D, NEW a \in DrainStates
                 PROVE  step[<<i, a>>] \in DrainStates
      BY DEF Steps
    <3>1. step[<<i, a>>] = DrainStep(a, queue[i])
      OBVIOUS
    <3>2. queue[i] \in Callers
      OBVIOUS
    <3> QED
      BY <3>1, <3>2, DrainStepType
  <2> HIDE DEF pick, step, D
  <2> QED
    BY <1>1, <1>3, <2>1, <2>2, RecursionExists
<1>5. PICK f \in [SUBSET D -> DrainStates] : IsRecursive(f, D, StartOf(held), pick, step)
  BY <1>4
<1>6. f = Body(f)
  <2>1. \A s \in SUBSET D : f[s] = Body(f)[s]
    <3> SUFFICES ASSUME NEW s \in SUBSET D PROVE f[s] = Body(f)[s]
      OBVIOUS
    <3>1. CASE s = {}
      BY <1>5, <3>1 DEF IsRecursive
    <3>2. CASE s # {}
      <4>1. Max(s) \in D /\ f[s \ {Max(s)}] \in DrainStates
        BY <1>2, <3>2
      <4>2. step[<<Max(s), f[s \ {Max(s)}]>>] = DrainStep(f[s \ {Max(s)}], queue[Max(s)])
        BY <4>1
      <4>3. f[s] = step[<<Max(s), f[s \ {Max(s)}]>>]
        BY <1>5, <3>2 DEF IsRecursive
      <4> QED
        BY <3>2, <4>2, <4>3
    <3> QED
      BY <3>1, <3>2
  <2> QED
    BY <2>1
<1>7. F = Body(F)
  <2>1. F = CHOOSE h : h = Body(h)
    BY <1>1 DEF DrainFold
  <2> HIDE DEF F, Body
  <2> QED
    BY <1>6, <2>1
<1>8. \A s \in SUBSET D :
        F[s] = IF s = {} THEN StartOf(held)
               ELSE DrainStep(F[s \ {Max(s)}], queue[Max(s)])
  <2> HIDE DEF F
  <2> QED
    BY <1>7
<1> HIDE DEF F
<1>9. F[1..0] = StartOf(held)
  <2>1. 1..0 = {} /\ {} \in SUBSET D
    OBVIOUS
  <2> QED
    BY <1>8, <2>1
<1>10. ASSUME NEW n \in Nat, n < Len(queue)
       PROVE  F[1..(n + 1)] = DrainStep(F[1..n], queue[n + 1])
  <2>1. 1..(n + 1) \in SUBSET D /\ n + 1 \in 1..(n + 1)
    BY <1>1, <1>10
  <2>2. Max(1..(n + 1)) = n + 1
    <3>1. IsFiniteSet(1..(n + 1)) /\ 1..(n + 1) \in SUBSET Int
      BY FS_Interval
    <3>2. Max(1..(n + 1)) \in 1..(n + 1) /\ Max(1..(n + 1)) >= n + 1
      BY <2>1, <3>1, MaxFacts
    <3> QED
      BY <3>2
  <2>3. (1..(n + 1)) \ {n + 1} = 1..n
    OBVIOUS
  <2> QED
    BY <1>8, <2>1, <2>2, <2>3
<1> QED
  BY <1>1, <1>9, <1>10, DrainedIsFold DEF After, F

\* No caller stands in the queue twice.
Distinct(queue) ==
  \A i, j \in 1..Len(queue) : queue[i] = queue[j] => i = j

First(queue, k) == {queue[i] : i \in 1..k}

\* After n positions, the first k waiters have left: those in time have got
\* their bytes, the next one neither is late nor fits.
LeftAt(queue, held, acc, n, k) ==
  /\ acc.rest = [i \in 1..(n - k) |-> queue[k + i]]
  /\ acc.granted = {c \in First(queue, k) : ~expired[c]}
  /\ acc.late = {c \in First(queue, k) : expired[c]}
  /\ acc.held = held + Sum(bytes, acc.granted) /\ acc.held <= Budget
  /\ acc.blocked <=> k < n \/ stopping
  /\ k < n => ~expired[queue[k + 1]] /\ ~Fits(bytes[queue[k + 1]], acc.held)

\* Sums of bytes over sets of callers.
LEMMA BytesSum ==
  ASSUME TypeOK
  PROVE  \A T \in SUBSET Callers :
           /\ Sum(bytes, T) \in Nat
           /\ \A c \in T : Sum(bytes, T) = bytes[c] + Sum(bytes, T \ {c})
           /\ \A c \in Callers \ T : Sum(bytes, T \cup {c}) = bytes[c] + Sum(bytes, T)
<1>1. \A c \in Callers : bytes[c] \in Nat
  BY BudgetAssumption DEF TypeOK
<1>2. \A T \in SUBSET Callers :
        /\ Sum(bytes, T) \in Nat
        /\ \A c \in T : Sum(bytes, T) = bytes[c] + Sum(bytes, T \ {c})
  BY <1>1, CallersAssumption, SumFacts
<1>3. ASSUME NEW T \in SUBSET Callers, NEW c \in Callers \ T
      PROVE  Sum(bytes, T \cup {c}) = bytes[c] + Sum(bytes, T)
  <2>1. T \cup {c} \in SUBSET Callers /\ (T \cup {c}) \ {c} = T
    OBVIOUS
  <2> QED
    BY <1>2, <2>1
<1> QED
  BY <1>2, <1>3

LEMMA DrainStepLeaves ==
  ASSUME TypeOK, NEW queue \in Seq(Callers), Distinct(queue), ~stopping,
         NEW held \in Nat, NEW n \in Nat, n < Len(queue), NEW k \in 0..n,
         NEW acc \in DrainStates, LeftAt(queue, held, acc, n, k)
  PROVE  \E m \in 0..(n + 1) :
           LeftAt(queue, held, DrainStep(acc, queue[n + 1]), n + 1, m)
<1> DEFINE c == queue[n + 1]
           next == DrainStep(acc, c)
<1>1. c \in Callers /\ k + 1 \in 1..Len(queue) /\ n + 1 \in 1..Len(queue)
  OBVIOUS
<1>2. CASE k < n
  <2>1. next = [acc EXCEPT !.rest = Append(@, c)]
    BY <1>2 DEF LeftAt, DrainStep
  <2>2. /\ next.rest = Append(acc.rest, c) /\ next.granted = acc.granted
        /\ next.late = acc.late /\ next.held = acc.held /\ next.blocked = acc.blocked
    BY <2>1 DEF DrainStates
  <2>3. next.rest = [i \in 1..(n + 1 - k) |-> queue[k + i]]
    <3>1. acc.rest = [i \in 1..(n - k) |-> queue[k + i]]
      BY DEF LeftAt
    <3>2. Len(acc.rest) = n - k
      BY <1>2, <3>1 DEF DrainStates
    <3> QED
      BY <1>2, <2>2, <3>1, <3>2 DEF DrainStates
  <2> HIDE DEF next, c
  <2>4. LeftAt(queue, held, next, n + 1, k)
    BY <1>2, <2>2, <2>3 DEF LeftAt
  <2> QED
    BY <2>4 DEF next, c
<1>3. CASE k = n
  <2>1. /\ ~acc.blocked /\ acc.rest = <<>>
        /\ acc.granted = {d \in First(queue, n) : ~expired[d]}
        /\ acc.late = {d \in First(queue, n) : expired[d]}
        /\ acc.held = held + Sum(bytes, acc.granted) /\ acc.held <= Budget
        /\ acc.held \in Nat /\ bytes[c] \in Nat
    <3>1. acc.rest = [i \in 1..0 |-> queue[k + i]]
      BY <1>3 DEF LeftAt
    <3>2. acc.rest = <<>>
      BY <3>1 DEF DrainStates
    <3> QED
      BY <1>1, <1>3, <3>2, BudgetAssumption DEF LeftAt, TypeOK, DrainStates
  <2>2. First(queue, n + 1) = First(queue, n) \cup {c}
    BY DEF First
  <2>3. c \notin First(queue, n)
    BY <1>1 DEF First, Distinct
  <2>4. CASE expired[c]
    <3>1. next = [acc EXCEPT !.late = @ \cup {c}]
      BY <2>1, <2>4 DEF DrainStep
    <3>2. /\ next.rest = <<>> /\ next.granted = acc.granted /\ next.held = acc.held
          /\ next.late = acc.late \cup {c} /\ ~next.blocked
      BY <2>1, <3>1 DEF DrainStates
    <3>3. next.rest = [i \in 1..(n + 1 - (n + 1)) |-> queue[n + 1 + i]]
      BY <3>2
    <3>4. /\ next.granted = {d \in First(queue, n + 1) : ~expired[d]}
          /\ next.late = {d \in First(queue, n + 1) : expired[d]}
      BY <2>1, <2>2, <2>4, <3>2
    <3> HIDE DEF next, c
    <3>5. LeftAt(queue, held, next, n + 1, n + 1)
      <4>1. next.blocked <=> n + 1 < n + 1 \/ stopping
        BY <3>2
      <4>2. ~(n + 1 < n + 1)
        OBVIOUS
      <4>3. next.held = held + Sum(bytes, next.granted) /\ next.held <= Budget
        BY <2>1, <3>2
      <4> QED
        BY <3>3, <3>4, <4>1, <4>2, <4>3 DEF LeftAt
    <3> QED
      BY <3>5 DEF next, c
  <2>5. CASE ~expired[c] /\ Fits(bytes[c], acc.held)
    <3>1. next = [acc EXCEPT !.granted = @ \cup {c}, !.held = @ + bytes[c]]
      BY <2>1, <2>5 DEF DrainStep
    <3>2. /\ next.rest = <<>> /\ next.granted = acc.granted \cup {c}
          /\ next.late = acc.late /\ next.held = acc.held + bytes[c]
          /\ ~next.blocked
      BY <2>1, <3>1 DEF DrainStates
    <3>3. next.rest = [i \in 1..(n + 1 - (n + 1)) |-> queue[n + 1 + i]]
      BY <3>2
    <3>4. /\ next.granted = {d \in First(queue, n + 1) : ~expired[d]}
          /\ next.late = {d \in First(queue, n + 1) : expired[d]}
      BY <2>1, <2>2, <2>5, <3>2
    <3>5. next.held = held + Sum(bytes, next.granted)
      <4>1. acc.granted \in SUBSET Callers /\ c \notin acc.granted
        BY <2>1, <2>3 DEF DrainStates
      <4>2. /\ Sum(bytes, acc.granted \cup {c}) = bytes[c] + Sum(bytes, acc.granted)
            /\ Sum(bytes, acc.granted) \in Nat
        BY <1>1, <4>1, BytesSum
      <4> QED
        BY <2>1, <3>2, <4>2
    <3>6. next.held <= Budget
      BY <2>1, <2>5, <3>2, BudgetAssumption DEF Fits
    <3> HIDE DEF next, c
    <3>7. LeftAt(queue, held, next, n + 1, n + 1)
      <4>1. next.blocked <=> n + 1 < n + 1 \/ stopping
        BY <3>2
      <4>2. ~(n + 1 < n + 1)
        OBVIOUS
      <4> QED
        BY <3>3, <3>4, <3>5, <3>6, <4>1, <4>2 DEF LeftAt
    <3> QED
      BY <3>7 DEF next, c
  <2>6. CASE ~expired[c] /\ ~Fits(bytes[c], acc.held)
    <3>1. next = [acc EXCEPT !.blocked = TRUE, !.rest = Append(@, c)]
      BY <2>1, <2>6 DEF DrainStep
    <3>2. /\ next.rest = Append(<<>>, c) /\ next.granted = acc.granted
          /\ next.late = acc.late /\ next.held = acc.held /\ next.blocked
      BY <2>1, <3>1 DEF DrainStates
    <3>3. next.rest = [i \in 1..(n + 1 - n) |-> queue[n + i]]
      BY <1>1, <3>2
    <3>4. ~expired[queue[n + 1]] /\ ~Fits(bytes[queue[n + 1]], next.held)
      BY <2>6, <3>2
    <3> HIDE DEF next, c
    <3>5. LeftAt(queue, held, next, n + 1, n)
      <4>1. next.blocked <=> n < n + 1 \/ stopping
        BY <3>2
      <4>2. /\ next.granted = {d \in First(queue, n) : ~expired[d]}
            /\ next.late = {d \in First(queue, n) : expired[d]}
            /\ next.held = held + Sum(bytes, next.granted) /\ next.held <= Budget
        BY <2>1, <3>2
      <4> QED
        BY <3>3, <3>4, <4>1, <4>2 DEF LeftAt
    <3> QED
      BY <3>5 DEF next, c
  <2> QED
    BY <2>4, <2>5, <2>6
<1> QED
  BY <1>2, <1>3

\* What drain does to a queue: a prefix of it leaves.
LEMMA DrainLeaves ==
  ASSUME TypeOK, NEW queue \in Seq(Callers), Distinct(queue),
         ~stopping \/ queue = <<>>, NEW held \in 0..Budget
  PROVE  /\ Drained(queue, held) \in DrainStates
         /\ \E k \in 0..Len(queue) :
              LeftAt(queue, held, Drained(queue, held), Len(queue), k)
<1> DEFINE A(n) == After(queue, held, n)
           P == {n \in Nat : n <= Len(queue) =>
                   /\ A(n) \in DrainStates
                   /\ \E k \in 0..n : LeftAt(queue, held, A(n), n, k)}
<1>1. held \in Nat /\ Len(queue) \in Nat
  BY BudgetAssumption
<1>2. /\ Drained(queue, held) = A(Len(queue))
      /\ A(0) = StartOf(held)
      /\ \A n \in Nat : n < Len(queue) => A(n + 1) = DrainStep(A(n), queue[n + 1])
  BY <1>1, DrainRecursion
<1> HIDE DEF A
<1>3. 0 \in P
  <2>1. /\ A(0).rest = <<>> /\ A(0).held = held /\ A(0).granted = {} /\ A(0).late = {}
        /\ A(0).blocked <=> stopping
    BY <1>2 DEF StartOf
  <2>2. A(0) \in DrainStates
    <3>1. StartOf(held) \in DrainStates
      BY <1>1 DEF StartOf, DrainStates, TypeOK
    <3> QED
      BY <1>2, <3>1
  <2>3. First(queue, 0) = {} /\ <<>> = [i \in 1..(0 - 0) |-> queue[0 + i]]
    BY DEF First
  <2>4. Sum(bytes, {}) = 0
    BY SumEmpty
  <2>5. LeftAt(queue, held, A(0), 0, 0)
    <3>1. A(0).blocked <=> 0 < 0 \/ stopping
      BY <2>1
    <3>2. ~(0 < 0)
      OBVIOUS
    <3>3. A(0).held = held + Sum(bytes, A(0).granted) /\ A(0).held <= Budget
      <4>1. Sum(bytes, A(0).granted) = 0
        BY <2>1, <2>4
      <4>2. held + 0 = held /\ held <= Budget
        BY <1>1, BudgetAssumption
      <4> QED
        BY <2>1, <4>1, <4>2
    <3>4. A(0).rest = [i \in 1..(0 - 0) |-> queue[0 + i]]
      BY <2>1, <2>3
    <3>5. /\ A(0).granted = {c \in First(queue, 0) : ~expired[c]}
          /\ A(0).late = {c \in First(queue, 0) : expired[c]}
      BY <2>1, <2>3
    <3> QED
      BY <3>1, <3>2, <3>3, <3>4, <3>5 DEF LeftAt
  <2> QED
    BY <2>2, <2>5
<1>4. ASSUME NEW n \in P PROVE n + 1 \in P
  <2> SUFFICES ASSUME n + 1 <= Len(queue)
               PROVE  /\ A(n + 1) \in DrainStates
                      /\ \E k \in 0..(n + 1) : LeftAt(queue, held, A(n + 1), n + 1, k)
    OBVIOUS
  <2>1. n \in Nat /\ n < Len(queue) /\ ~stopping
    BY <1>1
  <2>2. PICK k \in 0..n : A(n) \in DrainStates /\ LeftAt(queue, held, A(n), n, k)
    BY <1>1
  <2>3. A(n + 1) = DrainStep(A(n), queue[n + 1]) /\ queue[n + 1] \in Callers
    BY <1>2, <2>1
  <2>4. A(n + 1) \in DrainStates
    BY <2>2, <2>3, DrainStepType
  <2>5. \E m \in 0..(n + 1) : LeftAt(queue, held, A(n + 1), n + 1, m)
    <3> HIDE DEF P
    <3> QED
      BY <1>1, <2>1, <2>2, <2>3, DrainStepLeaves
  <2> QED
    BY <2>4, <2>5
<1> HIDE DEF P
<1>5. P = Nat
  BY <1>3, <1>4, NatSetInduction DEF P
<1>6. Len(queue) \in P
  BY <1>1, <1>5
<1> QED
  BY <1>1, <1>2, <1>6 DEF P

------------------------------------------------------------------------------
(***************************************************************************)
(* The inductive invariant.  The queue holds the waiting callers, each     *)
(* once; nobody waits after close; the reservation is the sum of the       *)
(* permits that are out; and the head of the queue has a reason to wait.   *)
(***************************************************************************)

QueueIsWaiting == \A c \in Callers : phase[c] = "waiting" <=> c \in Range(waiters)

ClosedIsEmpty == stopping => waiters = <<>>

AccountExact == reserved = Sum(bytes, Holders) /\ reserved <= Budget

Inv ==
  /\ TypeOK
  /\ Distinct(waiters)
  /\ QueueIsWaiting
  /\ ClosedIsEmpty
  /\ AccountExact
  /\ NoStrandedHead

\* The elements of a queue, by position.
LEMMA QueueElements ==
  ASSUME NEW q \in Seq(Callers)
  PROVE  /\ Len(q) \in Nat /\ DOMAIN q = 1..Len(q)
         /\ Range(q) = First(q, Len(q)) /\ Range(q) \subseteq Callers
         /\ (q = <<>> <=> Range(q) = {})
         /\ (q # <<>> => 1 \in 1..Len(q) /\ Head(q) = q[1])
<1>1. Len(q) \in Nat /\ DOMAIN q = 1..Len(q) /\ \A i \in 1..Len(q) : q[i] \in Callers
  OBVIOUS
<1>2. Range(q) = First(q, Len(q)) /\ Range(q) \subseteq Callers
  BY <1>1 DEF Range, First
<1>3. CASE q = <<>>
  <2>1. Len(q) = 0
    BY <1>3
  <2> QED
    BY <1>1, <1>2, <1>3, <2>1 DEF First
<1>4. CASE q # <<>>
  <2>1. Len(q) # 0 /\ Head(q) = q[1]
    BY <1>4
  <2>2. 1 \in 1..Len(q)
    BY <1>1, <2>1
  <2>3. q[1] \in Range(q)
    BY <1>2, <2>2 DEF First
  <2> QED
    BY <1>1, <1>2, <1>4, <2>1, <2>2, <2>3
<1> QED
  BY <1>3, <1>4

\* indexOf and splice take out exactly one caller and keep the order.
LEMMA QueueWithoutFacts ==
  ASSUME TypeOK, Distinct(waiters), NEW c \in Range(waiters)
  PROVE  /\ QueueWithout(c) \in Seq(Callers)
         /\ Distinct(QueueWithout(c))
         /\ Range(QueueWithout(c)) = Range(waiters) \ {c}
         /\ \A i, j \in 1..Len(waiters), x, y \in 1..Len(QueueWithout(c)) :
              /\ i < j
              /\ waiters[i] = QueueWithout(c)[x]
              /\ waiters[j] = QueueWithout(c)[y]
              => x < y
<1> DEFINE n == Len(waiters)
           p == CHOOSE i \in 1..Len(waiters) : waiters[i] = c
           q == QueueWithout(c)
           At(x) == IF x < p THEN x ELSE x + 1
<1>1. waiters \in Seq(Callers) /\ n \in Nat /\ DOMAIN waiters = 1..n
  BY DEF TypeOK
<1>2. p \in 1..n /\ waiters[p] = c
  BY <1>1 DEF Range
<1>3. q = SubSeq(waiters, 1, p - 1) \o SubSeq(waiters, p + 1, n)
  BY DEF QueueWithout, RemoveAt
<1> HIDE DEF p, q, n
<1>4. /\ SubSeq(waiters, 1, p - 1) \in Seq(Callers)
      /\ Len(SubSeq(waiters, 1, p - 1)) = p - 1
      /\ \A x \in 1..(p - 1) : SubSeq(waiters, 1, p - 1)[x] = waiters[x]
  BY <1>1, <1>2 DEF n
<1>5. /\ SubSeq(waiters, p + 1, n) \in Seq(Callers)
      /\ Len(SubSeq(waiters, p + 1, n)) = n - p
      /\ \A x \in 1..(n - p) : SubSeq(waiters, p + 1, n)[x] = waiters[p + x]
  <2>1. p + 1 \in 1..(n + 1) /\ n + 1 - (p + 1) = n - p
    BY <1>1, <1>2
  <2>2. SubSeq(waiters, p + 1, n) = [x \in 1..(n - p) |-> waiters[p + x]]
    BY <1>1, <1>2, <2>1 DEF n
  <2>3. \A x \in 1..(n - p) : waiters[p + x] \in Callers
    BY <1>1, <1>2
  <2> QED
    BY <1>1, <1>2, <2>2, <2>3
<1>6. /\ q \in Seq(Callers) /\ Len(q) = n - 1 /\ DOMAIN q = 1..(n - 1)
      /\ \A x \in 1..(n - 1) : At(x) \in (1..n) \ {p} /\ q[x] = waiters[At(x)]
  BY <1>1, <1>2, <1>3, <1>4, <1>5
<1>7. \A i, j \in 1..n : waiters[i] = waiters[j] => i = j
  BY DEF Distinct, n
<1>8. Distinct(q)
  BY <1>1, <1>2, <1>6, <1>7 DEF Distinct
<1>9. Range(q) = Range(waiters) \ {c}
  <2>1. ASSUME NEW x \in 1..(n - 1)
        PROVE  q[x] \in Range(waiters) \ {c}
    <3> DEFINE k == At(x)
    <3>1. k \in 1..n /\ k # p /\ q[x] = waiters[k]
      BY <1>6
    <3> HIDE DEF k
    <3>2. waiters[k] # c
      BY <1>2, <1>7, <3>1
    <3>3. waiters[k] \in Range(waiters)
      BY <1>1, <3>1 DEF Range
    <3> QED
      BY <3>1, <3>2, <3>3
  <2>2. ASSUME NEW i \in 1..n, waiters[i] # c
        PROVE  \E x \in 1..(n - 1) : q[x] = waiters[i]
    <3>1. i # p
      BY <1>2, <2>2
    <3>2. CASE i < p
      <4>1. i \in 1..(n - 1) /\ At(i) = i
        BY <1>1, <1>2, <3>2
      <4> QED
        BY <1>6, <4>1
    <3>3. CASE i > p
      <4>1. i - 1 \in 1..(n - 1) /\ At(i - 1) = i
        BY <1>1, <1>2, <3>3
      <4> QED
        BY <1>6, <4>1
    <3> QED
      BY <1>1, <1>2, <3>1, <3>2, <3>3
  <2> QED
    <3>1. Range(q) = {q[x] : x \in 1..(n - 1)}
      BY <1>6 DEF Range
    <3>2. Range(waiters) = {waiters[i] : i \in 1..n}
      BY <1>1 DEF Range
    <3> QED
      BY <2>1, <2>2, <3>1, <3>2
<1>10. ASSUME NEW i \in 1..n, NEW j \in 1..n, NEW x \in 1..(n - 1), NEW y \in 1..(n - 1),
              i < j, waiters[i] = q[x], waiters[j] = q[y]
       PROVE  x < y
  <2>1. At(x) = i /\ At(y) = j
    BY <1>6, <1>7, <1>10
  <2> QED
    BY <1>1, <1>2, <1>10, <2>1
<1> QED
  BY <1>6, <1>8, <1>9, <1>10 DEF n, q

\* The sum over two sets that share nothing.
LEMMA BytesUnion ==
  ASSUME TypeOK, NEW H \in SUBSET Callers
  PROVE  \A G \in SUBSET Callers :
           H \cap G = {} => Sum(bytes, H \cup G) = Sum(bytes, H) + Sum(bytes, G)
<1> DEFINE P == {n \in Nat : \A G \in SUBSET Callers :
                   Cardinality(G) = n /\ H \cap G = {} =>
                     Sum(bytes, H \cup G) = Sum(bytes, H) + Sum(bytes, G)}
<1>1. \A T \in SUBSET Callers : IsFiniteSet(T) /\ Cardinality(T) \in Nat
  BY CallersAssumption, FS_Subset, FS_CardinalityType
<1>2. 0 \in P
  <2> SUFFICES ASSUME NEW G \in SUBSET Callers, Cardinality(G) = 0
               PROVE  Sum(bytes, H \cup G) = Sum(bytes, H) + Sum(bytes, G)
    OBVIOUS
  <2>1. G = {}
    BY <1>1, FS_EmptySet
  <2>2. H \cup G = H /\ Sum(bytes, G) = 0 /\ Sum(bytes, H) \in Nat
    BY <2>1, SumEmpty, BytesSum
  <2>3. Sum(bytes, H) + 0 = Sum(bytes, H)
    BY <2>2
  <2> QED
    BY <2>2, <2>3
<1>3. ASSUME NEW n \in P PROVE n + 1 \in P
  <2> SUFFICES ASSUME NEW G \in SUBSET Callers, Cardinality(G) = n + 1, H \cap G = {}
               PROVE  Sum(bytes, H \cup G) = Sum(bytes, H) + Sum(bytes, G)
    OBVIOUS
  <2>1. PICK c \in G : TRUE
    BY <1>1, FS_EmptySet
  <2>2. G \ {c} \in SUBSET Callers /\ Cardinality(G \ {c}) = n /\ H \cap (G \ {c}) = {}
    <3>1. Cardinality(G \ {c}) = Cardinality(G) - 1
      BY <1>1, <2>1, FS_RemoveElement
    <3> QED
      BY <3>1
  <2>3. Sum(bytes, H \cup (G \ {c})) = Sum(bytes, H) + Sum(bytes, G \ {c})
    BY <2>2
  <2>4. c \in H \cup G /\ (H \cup G) \ {c} = H \cup (G \ {c}) /\ H \cup G \in SUBSET Callers
    BY <2>1
  <2>5. /\ Sum(bytes, H \cup G) = bytes[c] + Sum(bytes, H \cup (G \ {c}))
        /\ Sum(bytes, G) = bytes[c] + Sum(bytes, G \ {c})
    BY <2>1, <2>4, BytesSum
  <2>6. /\ bytes[c] \in Nat /\ Sum(bytes, H) \in Nat /\ Sum(bytes, G \ {c}) \in Nat
    BY <2>2, BytesSum, BudgetAssumption DEF TypeOK
  <2> QED
    BY <2>3, <2>5, <2>6
<1> HIDE DEF P
<1>4. P = Nat
  BY <1>2, <1>3, NatSetInduction DEF P
<1> QED
  BY <1>1, <1>4 DEF P

\* drain, from a queue and an account that agree with the phases in changed,
\* re-establishes the invariant and grants from the front of the queue.
LEMMA DrainFromFacts ==
  ASSUME TypeOK, NEW queue \in Seq(Callers), Distinct(queue),
         ~stopping \/ queue = <<>>, NEW held \in 0..Budget,
         NEW changed \in [Callers -> Phases],
         \A c \in Callers : changed[c] = "waiting" <=> c \in Range(queue),
         held = Sum(bytes, {c \in Callers : changed[c] = "granted"}),
         DrainFrom(queue, held, changed), UNCHANGED <<stopping, bytes>>
  PROVE  /\ Inv'
         /\ \A c \in Callers : phase'[c] = "granted" /\ changed[c] # "granted" =>
              \E a \in 1..Len(queue) :
                /\ queue[a] = c
                /\ \A b \in 1..Len(queue) : queue[b] \in Range(waiters') => a < b
<1> DEFINE d == Drained(queue, held)
           H == {c \in Callers : changed[c] = "granted"}
<1>1. PICK k \in 0..Len(queue) : d \in DrainStates /\ LeftAt(queue, held, d, Len(queue), k)
  BY DrainLeaves
<1>2. /\ Len(queue) \in Nat /\ DOMAIN queue = 1..Len(queue)
      /\ Range(queue) = First(queue, Len(queue)) /\ Range(queue) \subseteq Callers
  BY QueueElements
<1>3. /\ d.rest \in Seq(Callers) /\ d.held \in Nat
      /\ d.granted \in SUBSET Callers /\ d.late \in SUBSET Callers
  BY <1>1 DEF DrainStates
<1>4. /\ d.rest = [i \in 1..(Len(queue) - k) |-> queue[k + i]]
      /\ d.granted = {c \in First(queue, k) : ~expired[c]}
      /\ d.late = {c \in First(queue, k) : expired[c]}
      /\ d.held = held + Sum(bytes, d.granted) /\ d.held <= Budget
      /\ k < Len(queue) => ~expired[queue[k + 1]] /\ ~Fits(bytes[queue[k + 1]], d.held)
  BY <1>1 DEF LeftAt
<1>5. /\ waiters' = d.rest /\ reserved' = d.held
      /\ phase' = [c \in Callers |->
                     IF c \in d.granted THEN "granted"
                     ELSE IF c \in d.late THEN "deadline"
                     ELSE changed[c]]
      /\ expired' = [c \in Callers |-> expired[c] /\ c \in Range(d.rest)]
  BY DEF DrainFrom
<1> HIDE DEF d
<1>6. Len(d.rest) = Len(queue) - k
  BY <1>2, <1>3, <1>4
<1>7. Range(d.rest) = {queue[k + i] : i \in 1..(Len(queue) - k)}
  <2>1. Range(d.rest) = {d.rest[i] : i \in 1..(Len(queue) - k)}
    BY <1>4 DEF Range
  <2>2. \A i \in 1..(Len(queue) - k) : d.rest[i] = queue[k + i]
    BY <1>4
  <2>3. {d.rest[i] : i \in 1..(Len(queue) - k)} = {queue[k + i] : i \in 1..(Len(queue) - k)}
    <3> DEFINE S == 1..(Len(queue) - k)
    <3>1. \A i \in S : d.rest[i] = queue[k + i]
      BY <2>2
    <3> HIDE DEF S
    <3>2. {d.rest[i] : i \in S} = {queue[k + i] : i \in S}
      BY <3>1
    <3> QED
      BY <3>2 DEF S
  <2> QED
    BY <2>1, <2>3
<1>8. \A i, j \in 1..Len(queue) : queue[i] = queue[j] => i = j
  BY DEF Distinct
<1>9. /\ First(queue, k) \subseteq Range(queue)
      /\ \A c \in Range(d.rest) : c \notin First(queue, k)
      /\ \A c \in Range(queue) : c \in First(queue, k) \/ c \in Range(d.rest)
      /\ Range(d.rest) \subseteq Range(queue)
  <2>1. \A i \in 1..k : i \in 1..Len(queue)
    BY <1>2
  <2>2. \A i \in 1..(Len(queue) - k) : k + i \in 1..Len(queue) /\ k + i \notin 1..k
    BY <1>2
  <2>3. \A i \in 1..Len(queue) : i \in 1..k \/ (i - k \in 1..(Len(queue) - k) /\ k + (i - k) = i)
    BY <1>2
  <2>4. First(queue, k) \subseteq Range(queue) /\ Range(d.rest) \subseteq Range(queue)
    BY <1>2, <1>7, <2>1, <2>2 DEF First
  <2>5. ASSUME NEW c \in Range(d.rest) PROVE c \notin First(queue, k)
    <3>1. PICK i \in 1..(Len(queue) - k) : c = queue[k + i]
      BY <1>7
    <3> QED
      BY <1>8, <2>1, <2>2, <3>1 DEF First
  <2>6. ASSUME NEW c \in Range(queue) PROVE c \in First(queue, k) \/ c \in Range(d.rest)
    <3>1. PICK i \in 1..Len(queue) : c = queue[i]
      BY <1>2 DEF First
    <3> QED
      BY <1>7, <2>3, <3>1 DEF First
  <2> QED
    BY <2>4, <2>5, <2>6
<1>10. d.granted \cup d.late = First(queue, k) /\ d.granted \cap d.late = {}
  BY <1>4
<1>11. TypeOK'
  <2>1. phase' \in [Callers -> Phases]
    <3>1. "granted" \in Phases /\ "deadline" \in Phases
      BY DEF Phases, Failures
    <3> QED
      BY <1>5, <3>1
  <2>2. expired' \in [Callers -> BOOLEAN]
    BY <1>5
  <2> QED
    BY <1>3, <1>5, <2>1, <2>2 DEF TypeOK
<1>12. Distinct(waiters')
  BY <1>2, <1>4, <1>5, <1>6, <1>8 DEF Distinct
<1>13. QueueIsWaiting'
  <2> SUFFICES ASSUME NEW c \in Callers
               PROVE  phase'[c] = "waiting" <=> c \in Range(waiters')
    BY DEF QueueIsWaiting
  <2>1. phase'[c] = IF c \in d.granted THEN "granted"
                    ELSE IF c \in d.late THEN "deadline" ELSE changed[c]
    BY <1>5
  <2> QED
    BY <1>5, <1>9, <1>10, <2>1
<1>14. ClosedIsEmpty'
  <2>1. ASSUME stopping PROVE d.rest = <<>>
    <3>1. Len(queue) = 0 /\ k = 0
      BY <1>2, <2>1
    <3> QED
      BY <1>3, <1>6, <3>1
  <2> QED
    BY <1>5, <2>1 DEF ClosedIsEmpty
<1>15. Holders' = H \cup d.granted /\ H \cap d.granted = {}
  <2>1. H \cap First(queue, k) = {}
    BY <1>9
  <2>2. \A c \in Callers : phase'[c] = "granted" <=> c \in H \cup d.granted
    BY <1>5, <1>10, <2>1
  <2> QED
    BY <1>3, <1>10, <2>1, <2>2 DEF Holders
<1>16. AccountExact'
  <2>1. Sum(bytes, H \cup d.granted) = Sum(bytes, H) + Sum(bytes, d.granted)
    BY <1>3, <1>15, BytesUnion
  <2> QED
    BY <1>4, <1>5, <1>15, <2>1 DEF AccountExact
<1>17. NoStrandedHead'
  <2> SUFFICES ASSUME d.rest # <<>>
               PROVE  ~Fits(bytes[Head(d.rest)], d.held)
    BY <1>5 DEF NoStrandedHead, Fits
  <2>1. k < Len(queue) /\ Head(d.rest) = d.rest[1] /\ d.rest[1] = queue[k + 1]
    <3>1. Len(d.rest) # 0 /\ Head(d.rest) = d.rest[1]
      BY <1>3
    <3>2. k \in Nat /\ k < Len(queue) /\ 1 \in 1..(Len(queue) - k)
      <4> DEFINE m == Len(queue)
      <4>1. m \in Nat /\ k \in Nat /\ k <= m
        BY <1>2
      <4>2. m - k # 0
        BY <1>6, <3>1
      <4> HIDE DEF m
      <4>3. k < m /\ 1 \in 1..(m - k)
        BY <4>1, <4>2
      <4> QED
        BY <4>1, <4>3 DEF m
    <3>3. d.rest[1] = queue[k + 1]
      BY <1>4, <3>2
    <3> QED
      BY <3>1, <3>2, <3>3
  <2> QED
    BY <1>4, <2>1
<1>18. ASSUME NEW c \in Callers, phase'[c] = "granted", changed[c] # "granted"
       PROVE  \E a \in 1..Len(queue) :
                /\ queue[a] = c
                /\ \A b \in 1..Len(queue) : queue[b] \in Range(waiters') => a < b
  <2>1. c \in d.granted
    BY <1>5, <1>18
  <2>2. PICK a \in 1..k : queue[a] = c
    BY <1>4, <2>1 DEF First
  <2>3. a \in 1..Len(queue)
    BY <1>2
  <2>4. ASSUME NEW b \in 1..Len(queue), queue[b] \in Range(d.rest) PROVE a < b
    <3>1. queue[b] \notin First(queue, k)
      BY <1>9, <2>4
    <3>2. b \notin 1..k
      BY <3>1 DEF First
    <3> QED
      BY <1>2, <3>2
  <2> QED
    BY <1>5, <2>2, <2>3, <2>4
<1> QED
  BY <1>11, <1>12, <1>13, <1>14, <1>16, <1>17, <1>18 DEF Inv

------------------------------------------------------------------------------
(***************************************************************************)
(* The steps.                                                              *)
(***************************************************************************)

LEMMA InitInv == Init => Inv
<1> SUFFICES ASSUME Init PROVE Inv
  OBVIOUS
<1>1. TypeOK
  <2>1. "idle" \in Phases /\ 0 \in 0..Budget /\ 0 \in Nat
    BY BudgetAssumption DEF Phases
  <2>2. waiters \in Seq(Callers)
    BY DEF Init
  <2> QED
    BY <2>1, <2>2 DEF Init, TypeOK
<1>2. Distinct(waiters) /\ Range(waiters) = {} /\ NoStrandedHead
  BY DEF Init, Distinct, Range, NoStrandedHead
<1>3. Holders = {}
  BY DEF Init, Holders
<1>4. AccountExact
  BY <1>3, SumEmpty, BudgetAssumption DEF Init, AccountExact
<1>5. QueueIsWaiting /\ ClosedIsEmpty
  BY <1>2 DEF Init, QueueIsWaiting, ClosedIsEmpty
<1> QED
  BY <1>1, <1>2, <1>4, <1>5 DEF Inv

\* A call of c that asks for b: no other caller's account or place changes.
LEMMA CallAccount ==
  ASSUME Inv, NEW c \in Callers, NEW b \in Sizes, Free(c), NEW outcome \in Phases,
         phase' = [phase EXCEPT ![c] = outcome], bytes' = [bytes EXCEPT ![c] = b],
         outcome = "granted" => Fits(b, reserved),
         reserved' = reserved + (IF outcome = "granted" THEN b ELSE 0)
  PROVE  /\ AccountExact'
         /\ reserved' \in Nat
         /\ phase' \in [Callers -> Phases] /\ bytes' \in [Callers -> 0..Budget]
         /\ c \notin Range(waiters)
<1>1. TypeOK /\ phase[c] # "waiting" /\ phase[c] # "granted" /\ b \in 1..Budget
  BY SizesAssumption DEF Inv, Free
<1>2. phase' \in [Callers -> Phases] /\ bytes' \in [Callers -> 0..Budget]
  BY <1>1, BudgetAssumption DEF TypeOK
<1>3. IsFiniteSet(Holders) /\ Holders \subseteq Callers /\ c \notin Holders
  BY <1>1, CallersAssumption, FS_Subset DEF Holders
<1>4. Sum(bytes', Holders) = Sum(bytes, Holders)
  <2>1. \A h \in Holders : bytes[h] \in Nat /\ bytes'[h] = bytes[h]
    BY <1>1, <1>3, BudgetAssumption DEF TypeOK
  <2> QED
    BY <1>3, <2>1, SumAgrees
<1>5. reserved = Sum(bytes, Holders) /\ reserved \in Nat /\ reserved <= Budget
  BY <1>1 DEF Inv, AccountExact, TypeOK
<1>6. CASE outcome = "granted"
  <2>1. Holders' = Holders \cup {c}
    BY <1>1, <1>6 DEF Holders, TypeOK
  <2>2. bytes'[c] = b /\ \A h \in Callers : bytes'[h] \in Nat
    BY <1>1, <1>2, BudgetAssumption DEF TypeOK
  <2>3. Sum(bytes', Holders \cup {c}) = b + Sum(bytes', Holders)
    <3>1. \A T \in SUBSET Callers : \A x \in T :
            Sum(bytes', T) = bytes'[x] + Sum(bytes', T \ {x})
      <4> DEFINE w == bytes'
      <4>1. \A x \in Callers : w[x] \in Nat
        BY <2>2
      <4> HIDE DEF w
      <4>2. \A T \in SUBSET Callers :
              /\ Sum(w, T) \in Nat
              /\ \A x \in T : Sum(w, T) = w[x] + Sum(w, T \ {x})
        BY <4>1, CallersAssumption, SumFacts
      <4> QED
        BY <4>2 DEF w
    <3>2. Holders \cup {c} \in SUBSET Callers /\ (Holders \cup {c}) \ {c} = Holders
      BY <1>3
    <3> QED
      BY <2>2, <3>1, <3>2
  <2>4. reserved' = reserved + b /\ reserved + b <= Budget
    BY <1>1, <1>5, <1>6, BudgetAssumption DEF Fits
  <2>5. reserved' = Sum(bytes', Holders')
    BY <1>1, <1>4, <1>5, <2>1, <2>3, <2>4
  <2>6. reserved' \in Nat
    BY <1>1, <1>5, <2>4
  <2> QED
    BY <1>1, <1>2, <2>4, <2>5, <2>6 DEF AccountExact, Inv, QueueIsWaiting
<1>7. CASE outcome # "granted"
  <2>1. Holders' = Holders
    BY <1>1, <1>7 DEF Holders, TypeOK
  <2>2. reserved' = reserved
    BY <1>5, <1>7
  <2> QED
    BY <1>1, <1>2, <1>4, <1>5, <2>1, <2>2 DEF AccountExact, Inv, QueueIsWaiting
<1> QED
  BY <1>6, <1>7

LEMMA TryAcquireInv ==
  ASSUME Inv, NEW c \in Callers, NEW b \in Sizes, TryAcquire(c, b)
  PROVE  Inv'
<1> DEFINE outcome == IF Admissible(b) THEN "granted" ELSE "refused"
<1>1. outcome \in Phases /\ (outcome = "granted" <=> Admissible(b))
  BY DEF Phases, Failures
<1>2. /\ AccountExact' /\ reserved' \in Nat
      /\ phase' \in [Callers -> Phases] /\ bytes' \in [Callers -> 0..Budget]
      /\ c \notin Range(waiters)
  <2>1. reserved' = reserved + (IF outcome = "granted" THEN b ELSE 0)
    BY <1>1 DEF TryAcquire
  <2>2. outcome = "granted" => Fits(b, reserved)
    BY <1>1 DEF Admissible
  <2>3. /\ Free(c) /\ phase' = [phase EXCEPT ![c] = outcome]
        /\ bytes' = [bytes EXCEPT ![c] = b]
    BY DEF TryAcquire
  <2> HIDE DEF outcome
  <2> QED
    BY <1>1, <2>1, <2>2, <2>3, CallAccount
<1>3. UNCHANGED <<waiters, stopping, expired>>
  BY DEF TryAcquire
<1>4. TypeOK' /\ Distinct(waiters') /\ ClosedIsEmpty'
  BY <1>2, <1>3 DEF Inv, TypeOK, Distinct, ClosedIsEmpty
<1>5. QueueIsWaiting'
  <2>1. phase' = [phase EXCEPT ![c] = outcome] /\ outcome # "waiting"
    BY DEF TryAcquire
  <2> QED
    BY <1>2, <1>3, <2>1 DEF Inv, TypeOK, QueueIsWaiting
<1>6. NoStrandedHead'
  <2> SUFFICES ASSUME waiters # <<>>
               PROVE  expired[Head(waiters)] \/ ~Fits(bytes'[Head(waiters)], reserved')
    BY <1>3 DEF NoStrandedHead, Fits
  <2>1. reserved' = reserved
    BY DEF TryAcquire, Admissible, Inv, TypeOK
  <2>2. Head(waiters) \in Range(waiters) /\ Head(waiters) \in Callers
    BY QueueElements DEF Inv, TypeOK, First
  <2>3. bytes'[Head(waiters)] = bytes[Head(waiters)]
    BY <1>2, <2>2 DEF TryAcquire, Inv, TypeOK
  <2> QED
    BY <2>1, <2>3 DEF Inv, NoStrandedHead
<1> QED
  BY <1>2, <1>4, <1>5, <1>6 DEF Inv

LEMMA AcquireInv ==
  ASSUME Inv, NEW c \in Callers, NEW b \in Sizes, NEW aborted \in BOOLEAN,
         NEW late \in BOOLEAN, Acquire(c, b, aborted, late)
  PROVE  Inv'
<1> DEFINE outcome == AcquireOutcome(b, aborted, late)
<1>1. /\ outcome \in Phases
      /\ outcome = "granted" => Admissible(b)
      /\ outcome = "waiting" => ~stopping /\ ~Admissible(b)
  BY DEF AcquireOutcome, Phases, Failures
<1>2. /\ Free(c) /\ phase' = [phase EXCEPT ![c] = outcome]
      /\ reserved' = reserved + (IF outcome = "granted" THEN b ELSE 0)
      /\ waiters' = (IF outcome = "waiting" THEN Append(waiters, c) ELSE waiters)
      /\ bytes' = [bytes EXCEPT ![c] = b]
      /\ UNCHANGED <<stopping, expired>>
  BY DEF Acquire
<1> HIDE DEF outcome
<1>3. /\ AccountExact' /\ reserved' \in Nat
      /\ phase' \in [Callers -> Phases] /\ bytes' \in [Callers -> 0..Budget]
      /\ c \notin Range(waiters)
  <2>1. outcome = "granted" => Fits(b, reserved)
    BY <1>1 DEF Admissible
  <2> QED
    BY <1>1, <1>2, <2>1, CallAccount
<1>4. /\ waiters \in Seq(Callers) /\ Len(waiters) \in Nat
      /\ Range(waiters) = First(waiters, Len(waiters))
      /\ phase \in [Callers -> Phases] /\ bytes \in [Callers -> 0..Budget]
      /\ reserved \in Nat
  BY QueueElements DEF Inv, TypeOK
<1>5. CASE outcome = "waiting"
  <2>1. /\ waiters' = Append(waiters, c) /\ reserved' = reserved
        /\ Len(waiters') = Len(waiters) + 1 /\ waiters' \in Seq(Callers)
        /\ \A i \in 1..Len(waiters) : waiters'[i] = waiters[i]
        /\ waiters'[Len(waiters) + 1] = c
    BY <1>2, <1>4, <1>5
  <2>2. First(waiters', Len(waiters')) = First(waiters, Len(waiters)) \cup {c}
    <3>1. \A i \in 1..(Len(waiters) + 1) :
            waiters'[i] \in First(waiters, Len(waiters)) \cup {c}
      BY <1>4, <2>1 DEF First
    <3>2. \A i \in 1..Len(waiters) : i \in 1..(Len(waiters) + 1)
      BY <1>4
    <3>3. Len(waiters) + 1 \in 1..(Len(waiters) + 1)
      BY <1>4
    <3> QED
      BY <2>1, <3>1, <3>2, <3>3 DEF First
  <2>3. Range(waiters') = Range(waiters) \cup {c}
    BY <1>4, <2>1, <2>2, QueueElements
  <2>4. Distinct(waiters')
    <3>1. \A i \in 1..Len(waiters) : waiters[i] # c
      BY <1>3, <1>4 DEF First
    <3>2. \A i, j \in 1..Len(waiters) : waiters[i] = waiters[j] => i = j
      BY DEF Inv, Distinct
    <3>3. \A i \in 1..Len(waiters') : i \in 1..Len(waiters) \/ i = Len(waiters) + 1
      BY <1>4, <2>1
    <3> QED
      BY <2>1, <3>1, <3>2, <3>3 DEF Distinct
  <2>5. QueueIsWaiting'
    BY <1>2, <1>4, <1>5, <2>3 DEF Inv, QueueIsWaiting
  <2>6. ClosedIsEmpty'
    BY <1>1, <1>2, <1>5 DEF ClosedIsEmpty
  <2>7. NoStrandedHead'
    <3>1. CASE waiters = <<>>
      <4>1. ~Fits(b, reserved)
        BY <1>1, <1>5, <3>1 DEF Admissible
      <4>2. Head(waiters') = c /\ bytes'[c] = b
        BY <1>2, <1>4, <2>1, <3>1
      <4> QED
        BY <2>1, <4>1, <4>2 DEF NoStrandedHead, Fits
    <3>2. CASE waiters # <<>>
      <4>1. /\ 1 \in 1..Len(waiters) /\ Head(waiters) = waiters[1]
            /\ Head(waiters) \in Range(waiters) /\ Head(waiters) \in Callers
        BY <1>4, <3>2, QueueElements DEF First
      <4>2. Head(waiters') = Head(waiters)
        <5>1. Len(waiters') # 0 /\ Head(waiters') = waiters'[1]
          BY <1>4, <2>1
        <5> QED
          BY <2>1, <4>1, <5>1
      <4>3. bytes'[Head(waiters)] = bytes[Head(waiters)]
        BY <1>2, <1>3, <1>4, <4>1
      <4> QED
        BY <1>2, <2>1, <3>2, <4>2, <4>3 DEF Inv, NoStrandedHead, Fits
    <3> QED
      BY <3>1, <3>2
  <2>8. TypeOK'
    BY <1>2, <1>3, <2>1 DEF Inv, TypeOK
  <2> QED
    BY <1>3, <2>4, <2>5, <2>6, <2>7, <2>8 DEF Inv
<1>6. CASE outcome # "waiting"
  <2>1. waiters' = waiters
    BY <1>2, <1>6
  <2>2. TypeOK' /\ Distinct(waiters') /\ ClosedIsEmpty'
    BY <1>2, <1>3, <2>1 DEF Inv, TypeOK, Distinct, ClosedIsEmpty
  <2>3. QueueIsWaiting'
    BY <1>2, <1>3, <1>4, <1>6, <2>1 DEF Inv, QueueIsWaiting
  <2>4. NoStrandedHead'
    <3> SUFFICES ASSUME waiters # <<>>
                 PROVE  expired[Head(waiters)] \/ ~Fits(bytes'[Head(waiters)], reserved')
      BY <1>2, <2>1 DEF NoStrandedHead, Fits
    <3>1. reserved' = reserved
      BY <1>1, <1>2, <1>4 DEF Admissible
    <3>2. Head(waiters) \in Range(waiters) /\ Head(waiters) \in Callers
      BY <1>4, QueueElements DEF First
    <3>3. bytes'[Head(waiters)] = bytes[Head(waiters)]
      BY <1>2, <1>3, <1>4, <3>2
    <3> QED
      BY <3>1, <3>3 DEF Inv, NoStrandedHead
  <2> QED
    BY <1>3, <2>2, <2>3, <2>4 DEF Inv
<1> QED
  BY <1>5, <1>6

\* A waiter that gives up: the account stands, the queue closes the gap.
LEMMA FailFacts ==
  ASSUME Inv, NEW c \in Callers, phase[c] = "waiting",
         NEW reason \in Failures, Fail(c, reason)
  PROVE  /\ Inv'
         /\ \A g \in Callers : phase[g] # "granted" /\ phase'[g] = "granted" =>
              /\ phase[g] = "waiting"
              /\ \E a \in 1..Len(QueueWithout(c)) :
                   /\ QueueWithout(c)[a] = g
                   /\ \A b \in 1..Len(QueueWithout(c)) :
                        QueueWithout(c)[b] \in Range(waiters') => a < b
<1> DEFINE queue == QueueWithout(c)
           changed == [phase EXCEPT ![c] = reason]
<1>1. c \in Range(waiters) /\ TypeOK /\ Distinct(waiters)
  BY DEF Inv, QueueIsWaiting
<1>2. queue \in Seq(Callers) /\ Distinct(queue) /\ Range(queue) = Range(waiters) \ {c}
  BY <1>1, QueueWithoutFacts
<1>3. ~stopping
  <2>1. Range(<<>>) = {}
    BY DEF Range
  <2> QED
    BY <1>1, <2>1 DEF Inv, ClosedIsEmpty
<1>4. reserved \in 0..Budget
  BY BudgetAssumption DEF Inv, TypeOK, AccountExact
<1>5. changed \in [Callers -> Phases] /\ reason # "waiting" /\ reason # "granted"
  BY DEF Inv, TypeOK, Phases, Failures
<1>6. \A g \in Callers : changed[g] = "waiting" <=> g \in Range(queue)
  BY <1>2, <1>5 DEF Inv, TypeOK, QueueIsWaiting
<1>7. {g \in Callers : changed[g] = "granted"} = Holders
  BY <1>5 DEF Holders, Inv, TypeOK
<1>8. reserved = Sum(bytes, {g \in Callers : changed[g] = "granted"})
  BY <1>7 DEF Inv, AccountExact
<1>9. DrainFrom(queue, reserved, changed) /\ UNCHANGED <<stopping, bytes>>
  BY DEF Fail
<1>10. \A g \in Callers : changed[g] = IF g = c THEN reason ELSE phase[g]
  BY DEF Inv, TypeOK
<1> HIDE DEF changed, queue
<1>11. /\ Inv'
       /\ \A g \in Callers : phase'[g] = "granted" /\ changed[g] # "granted" =>
            \E a \in 1..Len(queue) :
              /\ queue[a] = g
              /\ \A b \in 1..Len(queue) : queue[b] \in Range(waiters') => a < b
  BY <1>1, <1>2, <1>3, <1>4, <1>5, <1>6, <1>8, <1>9, DrainFromFacts
<1>12. ASSUME NEW g \in Callers, phase[g] # "granted", phase'[g] = "granted"
       PROVE  /\ phase[g] = "waiting"
              /\ \E a \in 1..Len(queue) :
                   /\ queue[a] = g
                   /\ \A b \in 1..Len(queue) : queue[b] \in Range(waiters') => a < b
  <2>1. changed[g] # "granted"
    BY <1>5, <1>10, <1>12
  <2>2. PICK a \in 1..Len(queue) :
          /\ queue[a] = g
          /\ \A b \in 1..Len(queue) : queue[b] \in Range(waiters') => a < b
    BY <1>11, <1>12, <2>1
  <2>3. g \in Range(queue)
    BY <1>2, <2>2, QueueElements DEF First
  <2>4. phase[g] = "waiting"
    BY <1>2, <2>3 DEF Inv, QueueIsWaiting
  <2> QED
    BY <2>2, <2>4
<1> QED
  BY <1>11, <1>12 DEF queue

\* A permit that is given back: the account shrinks by its bytes.
LEMMA ReleaseFacts ==
  ASSUME Inv, NEW c \in Callers, Release(c)
  PROVE  /\ Inv'
         /\ \A g \in Callers : phase[g] # "granted" /\ phase'[g] = "granted" =>
              /\ phase[g] = "waiting"
              /\ \E a \in 1..Len(waiters) :
                   /\ waiters[a] = g
                   /\ \A b \in 1..Len(waiters) : waiters[b] \in Range(waiters') => a < b
<1>1. CASE UNCHANGED vars
  BY <1>1 DEF vars, Inv, TypeOK, Distinct, QueueIsWaiting, ClosedIsEmpty, AccountExact,
     Holders, NoStrandedHead, Fits
<1>2. CASE /\ phase[c] = "granted"
           /\ DrainFrom(waiters, reserved - bytes[c], [phase EXCEPT ![c] = "released"])
           /\ UNCHANGED <<stopping, bytes>>
  <2> DEFINE changed == [phase EXCEPT ![c] = "released"]
             held == reserved - bytes[c]
  <2>1. /\ TypeOK /\ waiters \in Seq(Callers) /\ Distinct(waiters)
        /\ (~stopping \/ waiters = <<>>)
    BY DEF Inv, TypeOK, ClosedIsEmpty
  <2>2. c \in Holders /\ Holders \in SUBSET Callers
    BY <1>2 DEF Holders
  <2>3. /\ Sum(bytes, Holders) = bytes[c] + Sum(bytes, Holders \ {c})
        /\ Sum(bytes, Holders \ {c}) \in Nat /\ bytes[c] \in Nat
    <3>1. Holders \ {c} \in SUBSET Callers
      BY <2>2
    <3> QED
      BY <2>1, <2>2, <3>1, BytesSum, BudgetAssumption DEF TypeOK
  <2>4. reserved = Sum(bytes, Holders) /\ reserved <= Budget /\ reserved \in Nat
    BY DEF Inv, AccountExact, TypeOK
  <2>5. held = Sum(bytes, Holders \ {c}) /\ held \in 0..Budget
    BY <2>3, <2>4, BudgetAssumption
  <2>6. changed \in [Callers -> Phases]
    BY DEF Inv, TypeOK, Phases
  <2>7. \A g \in Callers : changed[g] = IF g = c THEN "released" ELSE phase[g]
    BY DEF Inv, TypeOK
  <2>8. \A g \in Callers : changed[g] = "waiting" <=> g \in Range(waiters)
    BY <1>2, <2>7 DEF Inv, QueueIsWaiting
  <2>9. {g \in Callers : changed[g] = "granted"} = Holders \ {c}
    BY <2>7 DEF Holders
  <2>10. DrainFrom(waiters, held, changed) /\ UNCHANGED <<stopping, bytes>>
    BY <1>2
  <2>11. held = Sum(bytes, {g \in Callers : changed[g] = "granted"})
    BY <2>5, <2>9
  <2> HIDE DEF changed, held
  <2>12. /\ Inv'
         /\ \A g \in Callers : phase'[g] = "granted" /\ changed[g] # "granted" =>
              \E a \in 1..Len(waiters) :
                /\ waiters[a] = g
                /\ \A b \in 1..Len(waiters) : waiters[b] \in Range(waiters') => a < b
    BY <2>1, <2>5, <2>6, <2>8, <2>10, <2>11, DrainFromFacts
  <2>13. ASSUME NEW g \in Callers, phase[g] # "granted", phase'[g] = "granted"
         PROVE  /\ phase[g] = "waiting"
                /\ \E a \in 1..Len(waiters) :
                     /\ waiters[a] = g
                     /\ \A b \in 1..Len(waiters) : waiters[b] \in Range(waiters') => a < b
    <3>1. changed[g] # "granted"
      BY <2>7, <2>13
    <3>2. PICK a \in 1..Len(waiters) :
            /\ waiters[a] = g
            /\ \A b \in 1..Len(waiters) : waiters[b] \in Range(waiters') => a < b
      BY <2>12, <2>13, <3>1
    <3>3. g \in Range(waiters)
      BY <2>1, <3>2, QueueElements DEF First
    <3> QED
      BY <3>2, <3>3 DEF Inv, QueueIsWaiting
  <2> QED
    BY <2>12, <2>13
<1> QED
  BY <1>1, <1>2 DEF Release

LEMMA DeadlinePassesInv ==
  ASSUME Inv, NEW c \in Callers, DeadlinePasses(c)
  PROVE  Inv'
<1>1. /\ expired' = [expired EXCEPT ![c] = TRUE]
      /\ UNCHANGED <<reserved, waiters, stopping, phase, bytes>>
  BY DEF DeadlinePasses
<1>2. TypeOK' /\ Distinct(waiters') /\ QueueIsWaiting' /\ ClosedIsEmpty' /\ AccountExact'
  BY <1>1 DEF Inv, TypeOK, Distinct, QueueIsWaiting, ClosedIsEmpty, AccountExact, Holders
<1>3. NoStrandedHead'
  <2> SUFFICES ASSUME waiters # <<>>
               PROVE  expired'[Head(waiters)] \/ ~Fits(bytes[Head(waiters)], reserved)
    BY <1>1 DEF NoStrandedHead, Fits
  <2>1. Head(waiters) \in Callers
    BY QueueElements DEF Inv, TypeOK, First
  <2>2. expired[Head(waiters)] => expired'[Head(waiters)]
    BY <1>1, <2>1 DEF Inv, TypeOK
  <2> QED
    BY <2>2 DEF Inv, NoStrandedHead
<1> QED
  BY <1>2, <1>3 DEF Inv

LEMMA CloseInv ==
  ASSUME Inv, Close
  PROVE  Inv'
<1>1. /\ stopping' = TRUE /\ waiters' = <<>>
      /\ phase' = [c \in Callers |-> IF c \in Range(waiters) THEN "stopping" ELSE phase[c]]
      /\ expired' = [c \in Callers |-> FALSE]
      /\ UNCHANGED <<reserved, bytes>>
  BY DEF Close
<1>2. TypeOK'
  <2>1. "stopping" \in Phases
    BY DEF Phases, Failures
  <2>2. <<>> \in Seq(Callers)
    OBVIOUS
  <2> QED
    BY <1>1, <2>1, <2>2 DEF Inv, TypeOK
<1>3. Distinct(waiters') /\ ClosedIsEmpty' /\ NoStrandedHead' /\ Range(waiters') = {}
  BY <1>1 DEF Distinct, ClosedIsEmpty, NoStrandedHead, Range
<1>4. QueueIsWaiting'
  BY <1>1, <1>3 DEF Inv, QueueIsWaiting
<1>5. Holders' = Holders
  BY <1>1 DEF Holders, Inv, QueueIsWaiting
<1>6. AccountExact'
  BY <1>1, <1>5 DEF Inv, AccountExact
<1> QED
  BY <1>2, <1>3, <1>4, <1>6 DEF Inv

LEMMA NextInv == Inv /\ [Next]_vars => Inv'
<1> SUFFICES ASSUME Inv, [Next]_vars PROVE Inv'
  OBVIOUS
<1>1. ASSUME NEW c \in Callers, NEW b \in Sizes, TryAcquire(c, b) PROVE Inv'
  BY <1>1, TryAcquireInv
<1>2. ASSUME NEW c \in Callers, NEW b \in Sizes, NEW aborted \in BOOLEAN,
             NEW late \in BOOLEAN, Acquire(c, b, aborted, late)
      PROVE  Inv'
  BY <1>2, AcquireInv
<1>3. ASSUME NEW c \in Callers, Abort(c) PROVE Inv'
  BY <1>3, FailFacts DEF Abort, Failures
<1>4. ASSUME NEW c \in Callers, TimerFires(c) PROVE Inv'
  BY <1>4, FailFacts DEF TimerFires, Failures
<1>5. ASSUME NEW c \in Callers, DeadlinePasses(c) PROVE Inv'
  BY <1>5, DeadlinePassesInv
<1>6. ASSUME NEW c \in Callers, Release(c) PROVE Inv'
  BY <1>6, ReleaseFacts
<1>7. CASE Close
  BY <1>7, CloseInv
<1>8. CASE UNCHANGED vars
  BY <1>8 DEF vars, Inv, TypeOK, Distinct, QueueIsWaiting, ClosedIsEmpty, AccountExact,
     Holders, NoStrandedHead, Fits
<1> QED
  BY <1>1, <1>2, <1>3, <1>4, <1>5, <1>6, <1>7, <1>8 DEF Next

------------------------------------------------------------------------------
(***************************************************************************)
(* The theorems.                                                           *)
(***************************************************************************)

\* The inductive invariant holds in every state of the admission.
THEOREM Invariance == Spec => []Inv
BY InitInv, NextInv, PTL DEF Spec

\* Every variable has its type: the reservation never becomes negative.
THEOREM TypeCorrect == Spec => []TypeOK
<1>1. Inv => TypeOK
  BY DEF Inv
<1> QED
  BY <1>1, Invariance, PTL

\* tryAcquire, acquire, drain and release keep reservedBytes equal to the bytes
\* of the permits that are out, and within the budget, whatever the order of
\* grants, late releases, aborts, timers and close.
THEOREM AccountIsExact == Spec => []ReservationExact
<1>1. Inv => ReservationExact
  <2>1. MapThenSumSet(LAMBDA c : bytes[c], Holders) = Sum(bytes, Holders)
    BY DEF MapThenSumSet, MapThenFoldSet, Sum, Partial, Chosen
  <2> QED
    BY <2>1 DEF Inv, AccountExact, ReservationExact
<1> QED
  BY <1>1, Invariance, PTL

\* release, fail and the timers always drain far enough: the head of the queue
\* never waits for room that is there.
THEOREM HeadHasAReason == Spec => []NoStrandedHead
<1>1. Inv => NoStrandedHead
  BY DEF Inv
<1> QED
  BY <1>1, Invariance, PTL

\* Who was queued before a caller that drain grants is not in the queue any more.
GrantsAhead ==
  \A c \in Callers :
    phase[c] # "granted" /\ phase'[c] = "granted" =>
      IF phase[c] = "waiting"
      THEN \A i, j \in 1..Len(waiters) :
             waiters[j] = c /\ i < j => waiters[i] \notin Range(waiters')
      ELSE waiters = <<>>

\* Who waits after a failed wait stood in the queue that was drained.
LEMMA LeavesTheQueue ==
  ASSUME Inv, NEW c \in Callers, phase[c] = "waiting",
         NEW reason \in Failures, Fail(c, reason)
  PROVE  Range(waiters') \subseteq Range(QueueWithout(c))
<1>1. c \in Range(waiters) /\ TypeOK /\ Distinct(waiters)
  BY DEF Inv, QueueIsWaiting
<1>2. Range(QueueWithout(c)) = Range(waiters) \ {c}
  BY <1>1, QueueWithoutFacts
<1>3. Inv'
  BY FailFacts
<1>4. Range(waiters') \subseteq Callers
  BY <1>3, QueueElements DEF Inv, TypeOK
<1>5. ASSUME NEW g \in Range(waiters') PROVE g \in Range(waiters) \ {c}
  <2>1. g \in Callers /\ phase'[g] = "waiting"
    BY <1>3, <1>4, <1>5 DEF Inv, QueueIsWaiting
  <2>2. phase'[g] = "waiting" => [phase EXCEPT ![c] = reason][g] = "waiting"
    BY <2>1 DEF Fail, DrainFrom
  <2>3. g # c /\ phase[g] = "waiting"
    BY <2>1, <2>2 DEF Failures, Inv, TypeOK
  <2> QED
    BY <2>1, <2>3 DEF Inv, QueueIsWaiting
<1> QED
  BY <1>2, <1>5

LEMMA GrantsAheadStep == Inv /\ [Next]_vars => GrantsAhead
<1> SUFFICES ASSUME Inv, [Next]_vars PROVE GrantsAhead
  OBVIOUS
<1>1. ASSUME NEW c \in Callers, NEW b \in Sizes, TryAcquire(c, b) PROVE GrantsAhead
  <2>1. \A g \in Callers : g # c => phase'[g] = phase[g]
    BY <1>1 DEF TryAcquire, Inv, TypeOK
  <2>2. phase'[c] = "granted" => Admissible(b)
    BY <1>1 DEF TryAcquire, Inv, TypeOK
  <2>3. phase[c] # "waiting"
    BY <1>1 DEF TryAcquire, Free
  <2> QED
    BY <2>1, <2>2, <2>3 DEF GrantsAhead, Admissible
<1>2. ASSUME NEW c \in Callers, NEW b \in Sizes, NEW aborted \in BOOLEAN,
             NEW late \in BOOLEAN, Acquire(c, b, aborted, late)
      PROVE  GrantsAhead
  <2>1. \A g \in Callers : g # c => phase'[g] = phase[g]
    BY <1>2 DEF Acquire, Inv, TypeOK
  <2>2. phase'[c] = "granted" => Admissible(b)
    BY <1>2 DEF Acquire, AcquireOutcome, Inv, TypeOK
  <2>3. phase[c] # "waiting"
    BY <1>2 DEF Acquire, Free
  <2> QED
    BY <2>1, <2>2, <2>3 DEF GrantsAhead, Admissible
<1>3. ASSUME NEW c \in Callers, phase[c] = "waiting",
             NEW reason \in Failures, Fail(c, reason)
      PROVE  GrantsAhead
  <2> SUFFICES ASSUME NEW g \in Callers, phase[g] # "granted", phase'[g] = "granted"
               PROVE  /\ phase[g] = "waiting"
                      /\ \A i, j \in 1..Len(waiters) :
                           waiters[j] = g /\ i < j => waiters[i] \notin Range(waiters')
    BY DEF GrantsAhead
  <2> DEFINE q == QueueWithout(c)
  <2>1. /\ TypeOK /\ Distinct(waiters) /\ c \in Range(waiters)
        /\ Range(waiters) = First(waiters, Len(waiters))
    BY <1>3, QueueElements DEF Inv, QueueIsWaiting, TypeOK
  <2>2. /\ q \in Seq(Callers) /\ Range(q) = Range(waiters) \ {c}
        /\ \A i, j \in 1..Len(waiters), x, y \in 1..Len(q) :
             i < j /\ waiters[i] = q[x] /\ waiters[j] = q[y] => x < y
    BY <2>1, QueueWithoutFacts
  <2>3. /\ phase[g] = "waiting"
        /\ \E a \in 1..Len(q) :
             /\ q[a] = g
             /\ \A b \in 1..Len(q) : q[b] \in Range(waiters') => a < b
    BY <1>3, FailFacts
  <2> HIDE DEF q
  <2>4. PICK a \in 1..Len(q) :
          q[a] = g /\ \A b \in 1..Len(q) : q[b] \in Range(waiters') => a < b
    BY <2>3
  <2>5. Range(q) = First(q, Len(q)) /\ Len(q) \in Nat
    BY <2>2, QueueElements
  <2>6. ASSUME NEW i \in 1..Len(waiters), NEW j \in 1..Len(waiters),
               waiters[j] = g, i < j, waiters[i] \in Range(waiters')
        PROVE  FALSE
    <3>1. Range(waiters') \subseteq Range(q)
      BY <1>3, <2>1, <2>2, LeavesTheQueue DEF q
    <3>2. PICK b \in 1..Len(q) : q[b] = waiters[i]
      BY <2>5, <2>6, <3>1 DEF First
    <3>3. a < b
      BY <2>4, <2>6, <3>2
    <3>4. b < a
      BY <2>2, <2>4, <2>6, <3>2
    <3> QED
      BY <2>5, <3>3, <3>4
  <2> QED
    BY <2>3, <2>6
<1>4. ASSUME NEW c \in Callers, Release(c) PROVE GrantsAhead
  <2> SUFFICES ASSUME NEW g \in Callers, phase[g] # "granted", phase'[g] = "granted"
               PROVE  /\ phase[g] = "waiting"
                      /\ \A i, j \in 1..Len(waiters) :
                           waiters[j] = g /\ i < j => waiters[i] \notin Range(waiters')
    BY DEF GrantsAhead
  <2>1. /\ phase[g] = "waiting"
        /\ \E a \in 1..Len(waiters) :
             /\ waiters[a] = g
             /\ \A b \in 1..Len(waiters) : waiters[b] \in Range(waiters') => a < b
    BY <1>4, ReleaseFacts
  <2>2. PICK a \in 1..Len(waiters) :
          /\ waiters[a] = g
          /\ \A b \in 1..Len(waiters) : waiters[b] \in Range(waiters') => a < b
    BY <2>1
  <2>3. \A j \in 1..Len(waiters) : waiters[j] = g => j = a
    BY <2>2 DEF Inv, Distinct
  <2>4. Len(waiters) \in Nat
    BY DEF Inv, TypeOK
  <2> QED
    BY <2>1, <2>2, <2>3, <2>4
<1>5. ASSUME NEW c \in Callers, DeadlinePasses(c) PROVE GrantsAhead
  BY <1>5 DEF DeadlinePasses, GrantsAhead
<1>6. CASE Close
  BY <1>6 DEF Close, GrantsAhead
<1>7. CASE UNCHANGED vars
  BY <1>7 DEF vars, GrantsAhead
<1>8. ASSUME NEW c \in Callers, Abort(c) PROVE GrantsAhead
  BY <1>3, <1>8 DEF Abort, Failures
<1>9. ASSUME NEW c \in Callers, TimerFires(c) PROVE GrantsAhead
  BY <1>3, <1>9 DEF TimerFires, Failures
<1> QED
  BY <1>1, <1>2, <1>4, <1>5, <1>6, <1>7, <1>8, <1>9 DEF Next

\* Neither drain nor a direct grant overtakes a caller that came before and
\* still waits.
THEOREM ArrivalOrder == Spec => GrantsInOrder
<1>1. Inv /\ [Next]_vars => [GrantsAhead]_vars
  BY GrantsAheadStep
<1> QED
  BY <1>1, Invariance, PTL DEF Spec, GrantsInOrder, GrantsAhead
===============================================================================
