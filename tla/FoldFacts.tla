------------------------------ MODULE FoldFacts ------------------------------
(***************************************************************************)
(* Facts about sums over finite sets, largest elements and recursion over  *)
(* subsets, which the proofs about byte budgets and lease plans rest on.   *)
(* Induction is stated for sets of numbers: a set that contains zero and   *)
(* is closed under successor has every number.                             *)
(***************************************************************************)
EXTENDS Integers, FiniteSets, FiniteSetsExt, FiniteSetTheorems,
        WellFoundedInduction, TLAPS

\* Induction over the natural numbers, for sets.
LEMMA NatSetInduction ==
  ASSUME NEW P, P \subseteq Nat, 0 \in P, \A n \in P : n + 1 \in P
  PROVE  P = Nat
<1> DEFINE R == StrictSubsetOrdering(Nat)
           F == FiniteSubsetsOf(Nat)
           Below == [n \in Nat |-> 0..(n - 1)]
           T == {Below[n] : n \in Nat \ P}
<1>1. IsWellFoundedOn(R, F)
  BY FS_StrictSubsetOrderingWellFounded
<1>2. ASSUME NEW n \in Nat PROVE Below[n] \in F
  <2>1. IsFiniteSet(0..(n - 1))
    BY FS_Interval
  <2> QED
    BY <2>1 DEF FiniteSubsetsOf
<1>3. SUFFICES ASSUME Nat \ P # {} PROVE FALSE
  OBVIOUS
<1>4. T \subseteq F /\ T # {}
  BY <1>2, <1>3
<1> HIDE DEF R, F
<1>5. PICK t \in T : \A u \in T : ~(<<u, t>> \in R)
  <2> HIDE DEF T
  <2> QED
    BY <1>1, <1>4, WFMin
<1>6. PICK x \in Nat \ P : t = 0..(x - 1)
  BY <1>5
<1>7. x - 1 \in Nat \ P
  BY <1>6
<1>8. <<0..(x - 1 - 1), 0..(x - 1)>> \in R
  <2>1. 0..(x - 1 - 1) \subseteq 0..(x - 1) /\ 0..(x - 1) \subseteq Nat
    BY <1>7
  <2>2. 0..(x - 1 - 1) # 0..(x - 1)
    <3>1. x - 1 \in 0..(x - 1) /\ x - 1 \notin 0..(x - 1 - 1)
      BY <1>7
    <3> QED
      BY <3>1
  <2> QED
    BY <2>1, <2>2 DEF R, StrictSubsetOrdering
<1>9. 0..(x - 1 - 1) \in T
  BY <1>7
<1> QED
  BY <1>5, <1>6, <1>8, <1>9

\* A set without its element x is finite and has one element less.
LEMMA RemoveOne ==
  ASSUME NEW S, IsFiniteSet(S), NEW x \in S
  PROVE  /\ IsFiniteSet(S \ {x})
         /\ Cardinality(S \ {x}) \in Nat
         /\ Cardinality(S) = Cardinality(S \ {x}) + 1
<1>1. /\ IsFiniteSet(S \ {x})
      /\ Cardinality(S \ {x}) = Cardinality(S) - 1
  BY FS_RemoveElement
<1>2. Cardinality(S) \in Nat /\ Cardinality(S \ {x}) \in Nat
  BY <1>1, FS_CardinalityType
<1> QED
  BY <1>1, <1>2

\* Every subset of a finite set is finite, and its size is a number.
LEMMA SubsetSize ==
  ASSUME NEW S, IsFiniteSet(S), NEW T \in SUBSET S
  PROVE  IsFiniteSet(T) /\ Cardinality(T) \in Nat /\ (Cardinality(T) = 0 => T = {})
<1>1. IsFiniteSet(T)
  BY FS_Subset
<1> QED
  BY <1>1, FS_CardinalityType, FS_EmptySet

(***************************************************************************)
(* The element with the largest value.                                     *)
(***************************************************************************)

LEMMA ArgMax ==
  ASSUME NEW S, IsFiniteSet(S), S # {}, NEW f, \A x \in S : f[x] \in Int
  PROVE  \E x \in S : \A y \in S : f[x] >= f[y]
<1> DEFINE Has(T) == \E x \in T : \A y \in T : f[x] >= f[y]
           P == {n \in Nat : \A T \in SUBSET S : T # {} /\ Cardinality(T) = n => Has(T)}
<1>1. 0 \in P
  BY SubsetSize
<1>2. ASSUME NEW n \in P PROVE n + 1 \in P
  <2> SUFFICES ASSUME NEW T \in SUBSET S, T # {}, Cardinality(T) = n + 1
               PROVE  Has(T)
    OBVIOUS
  <2>1. PICK x : x \in T
    OBVIOUS
  <2>2. IsFiniteSet(T)
    BY SubsetSize
  <2>3. Cardinality(T \ {x}) = n
    BY SMTT(30), <2>1, <2>2, RemoveOne
  <2>4. CASE T \ {x} = {}
    BY <2>1, <2>4
  <2>5. CASE T \ {x} # {}
    <3>1. Has(T \ {x})
      BY <2>3, <2>5
    <3>2. PICK y \in T \ {x} : \A z \in T \ {x} : f[y] >= f[z]
      BY <3>1
    <3>3. CASE f[x] >= f[y]
      BY <2>1, <3>2, <3>3
    <3>4. CASE f[y] >= f[x]
      BY <2>1, <3>2, <3>4
    <3> QED
      BY <2>1, <3>2, <3>3, <3>4
  <2> QED
    BY <2>4, <2>5
<1> HIDE DEF P
<1>3. P = Nat
  BY <1>1, <1>2, NatSetInduction DEF P
<1>4. Cardinality(S) \in P
  BY <1>3, FS_CardinalityType
<1> QED
  BY <1>4 DEF P

LEMMA ArgMin ==
  ASSUME NEW S, IsFiniteSet(S), S # {}, NEW f, \A x \in S : f[x] \in Int
  PROVE  \E x \in S : \A y \in S : f[x] <= f[y]
<1> DEFINE g == [x \in S |-> 0 - f[x]]
<1>1. \A x \in S : g[x] \in Int
  OBVIOUS
<1> HIDE DEF g
<1>2. PICK x \in S : \A y \in S : g[x] >= g[y]
  BY <1>1, ArgMax
<1> QED
  BY <1>2 DEF g

\* Max of the community modules is the largest element of a finite set.
LEMMA MaxFacts ==
  ASSUME NEW S \in SUBSET Int, IsFiniteSet(S), S # {}
  PROVE  Max(S) \in S /\ \A y \in S : Max(S) >= y
<1> DEFINE f == [x \in S |-> x]
<1>1. \A x \in S : f[x] \in Int
  OBVIOUS
<1>2. \E x \in S : \A y \in S : f[x] >= f[y]
  BY <1>1, ArgMax
<1>3. \E x \in S : \A y \in S : x >= y
  BY <1>2
<1> QED
  BY <1>3 DEF Max

(***************************************************************************)
(* Recursion over the subsets of a finite set: pick chooses the element    *)
(* that comes last, step adds it to the result for the others.             *)
(***************************************************************************)

IsRecursive(f, S, base, pick, step) ==
  \A s \in SUBSET S :
    f[s] = IF s = {} THEN base ELSE step[<<pick[s], f[s \ {pick[s]}]>>]

Picks(pick, S) == \A s \in SUBSET S : s # {} => pick[s] \in s
Steps(step, S, Acc) == \A x \in S, a \in Acc : step[<<x, a>>] \in Acc

LEMMA RecursionExists ==
  ASSUME NEW S, IsFiniteSet(S), NEW Acc, NEW base, base \in Acc,
         NEW pick, Picks(pick, S), NEW step, Steps(step, S, Acc)
  PROVE  \E f \in [SUBSET S -> Acc] : IsRecursive(f, S, base, pick, step)
<1> USE DEF Picks, Steps
<1> DEFINE Eq(f, s) ==
             f[s] = IF s = {} THEN base ELSE step[<<pick[s], f[s \ {pick[s]}]>>]
           P == {n \in Nat : \E f \in [SUBSET S -> Acc] : \A s \in SUBSET S :
                               Cardinality(s) <= n => Eq(f, s)}
<1>1. 0 \in P
  <2> DEFINE f == [s \in SUBSET S |-> base]
  <2>1. \A s \in SUBSET S : Cardinality(s) <= 0 => Eq(f, s)
    BY SubsetSize
  <2> QED
    BY <2>1
<1>2. ASSUME NEW n \in P PROVE n + 1 \in P
  <2>1. PICK f \in [SUBSET S -> Acc] :
          \A s \in SUBSET S : Cardinality(s) <= n => Eq(f, s)
    OBVIOUS
  <2> DEFINE g == [s \in SUBSET S |->
                     IF s = {} THEN base ELSE step[<<pick[s], f[s \ {pick[s]}]>>]]
  <2>2. g \in [SUBSET S -> Acc]
    OBVIOUS
  <2>3. \A s \in SUBSET S : Cardinality(s) <= n => g[s] = f[s]
    BY <2>1
  <2>4. ASSUME NEW s \in SUBSET S, Cardinality(s) <= n + 1 PROVE Eq(g, s)
    <3>1. CASE s = {}
      BY <3>1
    <3>2. CASE s # {}
      <4>1. IsFiniteSet(s) /\ pick[s] \in s
        BY <3>2, SubsetSize
      <4>2. Cardinality(s \ {pick[s]}) <= n
        BY <2>4, <4>1, RemoveOne
      <4>3. g[s \ {pick[s]}] = f[s \ {pick[s]}]
        BY <2>3, <4>2
      <4> QED
        BY <3>2, <4>3
    <3> QED
      BY <3>1, <3>2
  <2> HIDE DEF g
  <2>5. \A s \in SUBSET S : Cardinality(s) <= n + 1 => Eq(g, s)
    BY <2>4
  <2>6. \E h \in [SUBSET S -> Acc] : \A s \in SUBSET S :
          Cardinality(s) <= n + 1 => Eq(h, s)
    <3> HIDE DEF Eq
    <3> QED
      BY <2>2, <2>5
  <2>7. n + 1 \in Nat
    OBVIOUS
  <2> HIDE DEF Eq
  <2> QED
    BY <2>6, <2>7
<1> HIDE DEF P
<1>3. P = Nat
  BY <1>1, <1>2, NatSetInduction DEF P
<1>4. Cardinality(S) \in P
  BY <1>3, FS_CardinalityType
<1>5. \A s \in SUBSET S : Cardinality(s) <= Cardinality(S)
  BY FS_Subset
<1>6. PICK f \in [SUBSET S -> Acc] : \A s \in SUBSET S : Eq(f, s)
  <2> HIDE DEF Eq
  <2> QED
    BY <1>4, <1>5 DEF P
<1> QED
  BY <1>6 DEF IsRecursive

(***************************************************************************)
(* Sums: MapThenSumSet of the community modules, as the function over the  *)
(* subsets of U that it evaluates.                                         *)
(***************************************************************************)

Chosen(s) == CHOOSE x \in s : TRUE

Partial(w, U) ==
  CHOOSE f : f = [s \in SUBSET U |->
                    IF s = {} THEN 0 ELSE w[Chosen(s)] + f[s \ {Chosen(s)}]]

Sum(w, S) == Partial(w, S)[S]

LEMMA PartialFacts ==
  ASSUME NEW U, IsFiniteSet(U), NEW w, \A x \in U : w[x] \in Nat
  PROVE  \A s \in SUBSET U :
           /\ Partial(w, U)[s] \in Nat
           /\ Partial(w, U)[s] =
                IF s = {} THEN 0 ELSE w[Chosen(s)] + Partial(w, U)[s \ {Chosen(s)}]
<1> DEFINE pick == [s \in SUBSET U |-> Chosen(s)]
           step == [p \in U \X Nat |-> w[p[1]] + p[2]]
           Body(f) == [s \in SUBSET U |->
                         IF s = {} THEN 0 ELSE w[Chosen(s)] + f[s \ {Chosen(s)}]]
           F == Partial(w, U)
<1>1. \A s \in SUBSET U : s # {} => Chosen(s) \in s
  BY DEF Chosen
<1>2. \E f \in [SUBSET U -> Nat] : IsRecursive(f, U, 0, pick, step)
  <2>1. Picks(pick, U)
    BY <1>1 DEF Picks
  <2>2. Steps(step, U, Nat)
    BY DEF Steps
  <2>3. 0 \in Nat
    OBVIOUS
  <2> HIDE DEF pick, step
  <2> QED
    BY <2>1, <2>2, <2>3, RecursionExists
<1>3. PICK f \in [SUBSET U -> Nat] : \A s \in SUBSET U :
        f[s] = IF s = {} THEN 0 ELSE step[<<pick[s], f[s \ {pick[s]}]>>]
  BY <1>2 DEF IsRecursive
<1>4. f = Body(f)
  <2>1. \A s \in SUBSET U : f[s] = Body(f)[s]
    <3> SUFFICES ASSUME NEW s \in SUBSET U PROVE f[s] = Body(f)[s]
      OBVIOUS
    <3>1. CASE s = {}
      BY <1>3, <3>1
    <3>2. CASE s # {}
      <4>1. Chosen(s) \in U /\ f[s \ {Chosen(s)}] \in Nat
        BY <1>1, <3>2
      <4>2. step[<<Chosen(s), f[s \ {Chosen(s)}]>>] = w[Chosen(s)] + f[s \ {Chosen(s)}]
        BY <4>1
      <4> QED
        BY <1>3, <3>2, <4>2
    <3> QED
      BY <3>1, <3>2
  <2> QED
    BY <2>1
<1>5. F = Body(F)
  <2>1. F = CHOOSE h : h = Body(h)
    BY DEF Partial
  <2> HIDE DEF F, Body
  <2> QED
    BY <1>4, <2>1
<1>6. \A s \in SUBSET U :
        F[s] = IF s = {} THEN 0 ELSE w[Chosen(s)] + F[s \ {Chosen(s)}]
  <2> HIDE DEF F
  <2> QED
    BY <1>5
<1> HIDE DEF F
<1> DEFINE P == {n \in Nat : \A s \in SUBSET U : Cardinality(s) = n => F[s] \in Nat}
<1>7. 0 \in P
  BY <1>6, SubsetSize
<1>8. ASSUME NEW n \in P PROVE n + 1 \in P
  <2> SUFFICES ASSUME NEW s \in SUBSET U, Cardinality(s) = n + 1 PROVE F[s] \in Nat
    OBVIOUS
  <2>1. CASE s = {}
    BY <1>6, <2>1
  <2>2. CASE s # {}
    <3>1. IsFiniteSet(s) /\ Chosen(s) \in s
      BY <1>1, <2>2, SubsetSize
    <3>2. Cardinality(s \ {Chosen(s)}) = n
      BY SMTT(30), <3>1, RemoveOne
    <3>3. F[s \ {Chosen(s)}] \in Nat /\ w[Chosen(s)] \in Nat
      BY <3>1, <3>2
    <3>4. F[s] = w[Chosen(s)] + F[s \ {Chosen(s)}]
      BY <1>6, <2>2
    <3> QED
      BY <3>3, <3>4
  <2> QED
    BY <2>1, <2>2
<1> HIDE DEF P
<1>9. P = Nat
  BY <1>7, <1>8, NatSetInduction DEF P
<1>10. ASSUME NEW s \in SUBSET U PROVE F[s] \in Nat
  <2>1. Cardinality(s) \in P
    BY <1>9, SubsetSize
  <2> QED
    BY <2>1 DEF P
<1> QED
  BY <1>6, <1>10 DEF F

\* The partial sum of a set does not depend on the larger set it is part of.
LEMMA PartialIsSum ==
  ASSUME NEW U, IsFiniteSet(U), NEW w, \A x \in U : w[x] \in Nat, NEW T \in SUBSET U
  PROVE  Partial(w, U)[T] = Sum(w, T)
<1> DEFINE P == {n \in Nat : \A A \in SUBSET U : \A s \in SUBSET A :
                   Cardinality(s) = n => Partial(w, U)[s] = Partial(w, A)[s]}
<1>1. 0 \in P
  <2> SUFFICES ASSUME NEW A \in SUBSET U PROVE Partial(w, U)[{}] = Partial(w, A)[{}]
    BY SubsetSize
  <2>1. IsFiniteSet(A)
    BY SubsetSize
  <2> QED
    BY <2>1, PartialFacts
<1>2. ASSUME NEW n \in P PROVE n + 1 \in P
  <2> SUFFICES ASSUME NEW A \in SUBSET U, NEW s \in SUBSET A, Cardinality(s) = n + 1
               PROVE  Partial(w, U)[s] = Partial(w, A)[s]
    OBVIOUS
  <2>1. IsFiniteSet(A) /\ IsFiniteSet(s) /\ s \in SUBSET U /\ n \in Nat
    <3>1. IsFiniteSet(A) /\ s \in SUBSET U
      BY SubsetSize
    <3> QED
      BY <3>1, SubsetSize
  <2>2. /\ Partial(w, U)[s] =
             IF s = {} THEN 0 ELSE w[Chosen(s)] + Partial(w, U)[s \ {Chosen(s)}]
        /\ Partial(w, A)[s] =
             IF s = {} THEN 0 ELSE w[Chosen(s)] + Partial(w, A)[s \ {Chosen(s)}]
    <3> HIDE DEF P
    <3>1. \A x \in A : w[x] \in Nat
      OBVIOUS
    <3>2. Partial(w, A)[s] =
             IF s = {} THEN 0 ELSE w[Chosen(s)] + Partial(w, A)[s \ {Chosen(s)}]
      BY <2>1, <3>1, PartialFacts
    <3>3. Partial(w, U)[s] =
             IF s = {} THEN 0 ELSE w[Chosen(s)] + Partial(w, U)[s \ {Chosen(s)}]
      BY <2>1, PartialFacts
    <3> QED
      BY <3>2, <3>3
  <2>3. CASE s # {}
    <3>1. Chosen(s) \in s
      BY <2>3 DEF Chosen
    <3>2. Cardinality(s \ {Chosen(s)}) = n
      <4> HIDE DEF P
      <4>1. /\ Cardinality(s \ {Chosen(s)}) \in Nat
            /\ Cardinality(s) = Cardinality(s \ {Chosen(s)}) + 1
        BY <2>1, <3>1, RemoveOne
      <4> QED
        BY <2>1, <4>1
    <3>3. Partial(w, U)[s \ {Chosen(s)}] = Partial(w, A)[s \ {Chosen(s)}]
      BY <3>1, <3>2
    <3> QED
      BY <2>2, <2>3, <3>3
  <2> QED
    BY <2>2, <2>3
<1> HIDE DEF P
<1>3. P = Nat
  BY <1>1, <1>2, NatSetInduction DEF P
<1>4. Cardinality(T) \in P
  BY <1>3, SubsetSize
<1> QED
  BY <1>4 DEF P, Sum

LEMMA SumEmpty == ASSUME NEW w PROVE Sum(w, {}) = 0
<1>1. IsFiniteSet({})
  BY FS_EmptySet
<1> QED
  BY <1>1, PartialFacts DEF Sum

\* A sum of numbers is a number, and any element can be taken out of it.
LEMMA SumFacts ==
  ASSUME NEW U, IsFiniteSet(U), NEW w, \A x \in U : w[x] \in Nat
  PROVE  \A T \in SUBSET U :
           /\ Sum(w, T) \in Nat
           /\ \A x \in T : Sum(w, T) = w[x] + Sum(w, T \ {x})
<1>1. \A T \in SUBSET U :
        /\ Sum(w, T) \in Nat
        /\ T # {} => Sum(w, T) = w[Chosen(T)] + Sum(w, T \ {Chosen(T)})
  <2> SUFFICES ASSUME NEW T \in SUBSET U
               PROVE  /\ Sum(w, T) \in Nat
                      /\ T # {} => Sum(w, T) = w[Chosen(T)] + Sum(w, T \ {Chosen(T)})
    OBVIOUS
  <2>1. /\ Partial(w, U)[T] \in Nat
        /\ T # {} => Partial(w, U)[T] = w[Chosen(T)] + Partial(w, U)[T \ {Chosen(T)}]
    BY PartialFacts
  <2>2. Partial(w, U)[T] = Sum(w, T)
    BY PartialIsSum
  <2>3. Partial(w, U)[T \ {Chosen(T)}] = Sum(w, T \ {Chosen(T)})
    <3>1. T \ {Chosen(T)} \in SUBSET U
      OBVIOUS
    <3> QED
      BY <3>1, PartialIsSum
  <2> QED
    BY <2>1, <2>2, <2>3
<1> DEFINE P == {n \in Nat : \A T \in SUBSET U : Cardinality(T) = n =>
                   \A x \in T : Sum(w, T) = w[x] + Sum(w, T \ {x})}
<1>2. 0 \in P
  BY SubsetSize
<1>3. ASSUME NEW n \in P PROVE n + 1 \in P
  <2> SUFFICES ASSUME NEW T \in SUBSET U, Cardinality(T) = n + 1, NEW x \in T
               PROVE  Sum(w, T) = w[x] + Sum(w, T \ {x})
    OBVIOUS
  <2> DEFINE y == Chosen(T)
  <2>1. y \in T /\ IsFiniteSet(T)
    BY SubsetSize DEF Chosen
  <2>2. Sum(w, T) = w[y] + Sum(w, T \ {y})
    BY <1>1, <2>1
  <2> HIDE DEF y
  <2>3. CASE x = y
    BY <2>2, <2>3
  <2>4. CASE x # y
    <3>1. Cardinality(T \ {y}) = n /\ Cardinality(T \ {x}) = n
      <4>1. n \in Nat
        OBVIOUS
      <4> HIDE DEF P
      <4>2. /\ Cardinality(T \ {x}) \in Nat /\ Cardinality(T \ {y}) \in Nat
            /\ Cardinality(T) = Cardinality(T \ {x}) + 1
            /\ Cardinality(T) = Cardinality(T \ {y}) + 1
        BY <2>1, RemoveOne
      <4> QED
        BY <4>1, <4>2
    <3>2. Sum(w, T \ {y}) = w[x] + Sum(w, (T \ {y}) \ {x})
      BY <2>4, <3>1
    <3>3. Sum(w, T \ {x}) = w[y] + Sum(w, (T \ {x}) \ {y})
      BY <2>1, <2>4, <3>1
    <3>4. (T \ {y}) \ {x} = (T \ {x}) \ {y}
      OBVIOUS
    <3>5. Sum(w, (T \ {x}) \ {y}) \in Nat /\ w[x] \in Nat /\ w[y] \in Nat
      BY <1>1, <2>1
    <3> QED
      BY <2>2, <3>2, <3>3, <3>4, <3>5
  <2> QED
    BY <2>3, <2>4
<1> HIDE DEF P
<1>4. P = Nat
  BY <1>2, <1>3, NatSetInduction DEF P
<1>5. ASSUME NEW T \in SUBSET U, NEW x \in T PROVE Sum(w, T) = w[x] + Sum(w, T \ {x})
  <2>1. Cardinality(T) \in P
    BY <1>4, SubsetSize
  <2> QED
    BY <2>1 DEF P
<1> QED
  BY <1>1, <1>5

\* A sum depends on the values of its elements only.
LEMMA SumAgrees ==
  ASSUME NEW U, IsFiniteSet(U), NEW v, NEW w, \A x \in U : v[x] \in Nat /\ w[x] = v[x]
  PROVE  Sum(w, U) = Sum(v, U)
<1>1. \A T \in SUBSET U :
        /\ Sum(v, T) \in Nat /\ \A x \in T : Sum(v, T) = v[x] + Sum(v, T \ {x})
        /\ Sum(w, T) \in Nat /\ \A x \in T : Sum(w, T) = w[x] + Sum(w, T \ {x})
  <2>1. \A x \in U : v[x] \in Nat
    OBVIOUS
  <2>2. \A x \in U : w[x] \in Nat
    OBVIOUS
  <2>3. \A T \in SUBSET U :
          Sum(v, T) \in Nat /\ \A x \in T : Sum(v, T) = v[x] + Sum(v, T \ {x})
    BY <2>1, SumFacts
  <2>4. \A T \in SUBSET U :
          Sum(w, T) \in Nat /\ \A x \in T : Sum(w, T) = w[x] + Sum(w, T \ {x})
    BY <2>2, SumFacts
  <2> QED
    BY <2>3, <2>4
<1> DEFINE P == {n \in Nat : \A T \in SUBSET U : Cardinality(T) = n => Sum(w, T) = Sum(v, T)}
<1>2. 0 \in P
  BY SubsetSize, SumEmpty
<1>3. ASSUME NEW n \in P PROVE n + 1 \in P
  <2> SUFFICES ASSUME NEW T \in SUBSET U, Cardinality(T) = n + 1
               PROVE  Sum(w, T) = Sum(v, T)
    OBVIOUS
  <2>1. CASE T = {}
    BY <2>1, SumEmpty
  <2>2. CASE T # {}
    <3>1. PICK x : x \in T
      BY <2>2
    <3>2. Cardinality(T \ {x}) = n
      <4>1. IsFiniteSet(T)
        BY SubsetSize
      <4> QED
        BY SMTT(30), <3>1, <4>1, RemoveOne
    <3>3. Sum(w, T \ {x}) = Sum(v, T \ {x})
      BY <3>2
    <3> QED
      BY <1>1, <3>1, <3>3
  <2> QED
    BY <2>1, <2>2
<1> HIDE DEF P
<1>4. P = Nat
  BY <1>2, <1>3, NatSetInduction DEF P
<1>5. Cardinality(U) \in P
  BY <1>4, FS_CardinalityType
<1> QED
  BY <1>5 DEF P
==============================================================================
