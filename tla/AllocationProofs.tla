-------------------------- MODULE AllocationProofs --------------------------
(***************************************************************************)
(* Proofs about the split of a reward pool (Allocation), for every set of  *)
(* agents, every workload and every pool, and the facts about sums over    *)
(* finite sets that they and the proofs about money rest on.               *)
(*                                                                         *)
(* The library's induction theorems take an operator as a parameter, which *)
(* no prover can instantiate; the induction over finite sets is by the     *)
(* existence of a smallest set instead.                                    *)
(***************************************************************************)
EXTENDS Allocation, FiniteSetTheorems, TLAPS

Pick(s) == CHOOSE x \in s : TRUE

\* f is the recursive function that MapThenFoldSet defines on the subsets of S.
Adds(v, S, f) ==
  f = [s \in SUBSET S |-> IF s = {} THEN 0 ELSE v[Pick(s)] + f[s \ {Pick(s)}]]

Adder(v, S) == CHOOSE f : Adds(v, S, f)

-----------------------------------------------------------------------------

\* Among sets of subsets of a finite set there is a smallest one.
LEMMA SmallestSubset ==
  ASSUME NEW S, IsFiniteSet(S), NEW P \in SUBSET (SUBSET S), P # {}
  PROVE  \E T \in P : \A U \in P : U \subseteq T => U = T
<1>1. IsWellFoundedOn(StrictSubsetOrdering(S), FiniteSubsetsOf(S))
  BY FS_StrictSubsetOrderingWellFounded
<1>2. FiniteSubsetsOf(S) = SUBSET S
  BY FS_FiniteSubsetsOfFinite
<1>3. \E T \in P : \A U \in P : ~ (<<U, T>> \in StrictSubsetOrdering(S))
  BY <1>1, <1>2, WFMin
<1> QED
  BY <1>3 DEF StrictSubsetOrdering

LEMMA PickIn == \A s : s # {} => Pick(s) \in s
BY DEF Pick

\* SumOver is the value of that function.
LEMMA SumIsAdder == \A v, S : SumOver(v, S) = Adder(v, S)[S]
BY DEF SumOver, MapThenSumSet, MapThenFoldSet, Adder, Adds, Pick

\* Two such functions agree where both are defined.
LEMMA AddersAgree ==
  ASSUME NEW v, NEW A, IsFiniteSet(A), NEW B, NEW f, NEW g, Adds(v, A, f), Adds(v, B, g),
         NEW s, s \subseteq A, s \subseteq B
  PROVE  f[s] = g[s]
<1> DEFINE P == {t \in SUBSET A : t \subseteq B /\ f[t] # g[t]}
<1>1. ASSUME P # {} PROVE FALSE
  <2>0. P \in SUBSET (SUBSET A)
    OBVIOUS
  <2>1. PICK t \in P : \A u \in P : u \subseteq t => u = t
    <3> HIDE DEF P
    <3> QED
      BY <1>1, <2>0, SmallestSubset
  <2>2. t \in SUBSET A /\ t \in SUBSET B /\ f[t] # g[t]
    BY <2>1
  <2>3. /\ f[t] = IF t = {} THEN 0 ELSE v[Pick(t)] + f[t \ {Pick(t)}]
        /\ g[t] = IF t = {} THEN 0 ELSE v[Pick(t)] + g[t \ {Pick(t)}]
    BY <2>2 DEF Adds
  <2>4. t # {}
    BY <2>2, <2>3
  <2>5. t \ {Pick(t)} \in SUBSET A /\ t \ {Pick(t)} \subseteq B /\ t \ {Pick(t)} # t
    BY <2>2, <2>4, PickIn
  <2>6. f[t \ {Pick(t)}] = g[t \ {Pick(t)}]
    BY <2>1, <2>5
  <2> QED
    BY <2>2, <2>3, <2>6
<1> QED
  BY <1>1

\* There is one for every finite set.
LEMMA AdderExists ==
  ASSUME NEW v, NEW S, IsFiniteSet(S)
  PROVE  Adds(v, S, Adder(v, S))
<1> DEFINE P == {T \in SUBSET S : \A f : ~ Adds(v, T, f)}
<1>1. ASSUME P # {} PROVE FALSE
  <2>0. P \in SUBSET (SUBSET S)
    OBVIOUS
  <2>1. PICK T \in P : \A U \in P : U \subseteq T => U = T
    <3> HIDE DEF P
    <3> QED
      BY <1>1, <2>0, SmallestSubset
  <2>2. T \in SUBSET S /\ \A f : ~ Adds(v, T, f)
    BY <2>1
  <2>3. \A U \in SUBSET T : U # T => Adds(v, U, Adder(v, U)) /\ IsFiniteSet(U)
    <3> SUFFICES ASSUME NEW U \in SUBSET T, U # T
                 PROVE  Adds(v, U, Adder(v, U)) /\ IsFiniteSet(U)
      OBVIOUS
    <3>1. U \in SUBSET S /\ U \notin P
      BY <2>1, <2>2
    <3>2. \E f : Adds(v, U, f)
      BY <3>1
    <3> QED
      BY <3>1, <3>2, FS_Subset DEF Adder
  <2> DEFINE sum(s) == Adder(v, s)[s]
             f0 == [s \in SUBSET T |->
                      IF s = {} THEN 0 ELSE v[Pick(s)] + sum(s \ {Pick(s)})]
  <2>4. ASSUME NEW s \in SUBSET T, s # {}
        PROVE  f0[s \ {Pick(s)}] = sum(s \ {Pick(s)})
    <3> DEFINE r == s \ {Pick(s)}
    <3>1. r \in SUBSET T /\ r # T
      BY <2>4, PickIn
    <3>2. Adds(v, r, Adder(v, r)) /\ IsFiniteSet(r)
      BY <2>3, <3>1
    <3>3. sum(r) = IF r = {} THEN 0 ELSE v[Pick(r)] + Adder(v, r)[r \ {Pick(r)}]
      BY <3>2 DEF Adds
    <3>4. CASE r = {}
      BY <3>1, <3>3, <3>4
    <3>5. CASE r # {}
      <4> DEFINE q == r \ {Pick(r)}
      <4>1. q \in SUBSET T /\ q # T /\ q \subseteq r
        BY <3>1
      <4>2. Adds(v, q, Adder(v, q))
        BY <2>3, <4>1
      <4>3. Adder(v, r)[q] = Adder(v, q)[q]
        <5> HIDE DEF q, r
        <5> QED
          BY <3>2, <4>1, <4>2, AddersAgree
      <4> QED
        BY <3>1, <3>3, <3>5, <4>3
    <3> QED
      BY <3>4, <3>5
  <2>5. f0 = [s \in SUBSET T |-> IF s = {} THEN 0 ELSE v[Pick(s)] + f0[s \ {Pick(s)}]]
    <3> HIDE DEF sum
    <3> QED
      BY <2>4
  <2> HIDE DEF f0
  <2> QED
    BY <2>2, <2>5 DEF Adds
<1>2. S \notin P
  BY <1>1
<1> QED
  BY <1>2 DEF Adder

\* The sum over a set is that of one of its elements and of the others.
LEMMA SumStep ==
  ASSUME NEW v, NEW S, IsFiniteSet(S)
  PROVE  SumOver(v, S) = IF S = {} THEN 0
                         ELSE v[Pick(S)] + SumOver(v, S \ {Pick(S)})
<1> DEFINE R == S \ {Pick(S)}
<1>1. IsFiniteSet(R) /\ R \subseteq S
  BY FS_Subset
<1>2. Adds(v, S, Adder(v, S)) /\ Adds(v, R, Adder(v, R))
  BY <1>1, AdderExists
<1>3. Adder(v, S)[S] = IF S = {} THEN 0 ELSE v[Pick(S)] + Adder(v, S)[R]
  BY <1>2 DEF Adds
<1>4. Adder(v, S)[R] = Adder(v, R)[R]
  <2> HIDE DEF R
  <2> QED
    BY <1>1, <1>2, AddersAgree
<1> QED
  BY <1>3, <1>4, SumIsAdder

\* Nothing adds up to nothing.
LEMMA SumEmpty == \A v : SumOver(v, {}) = 0
BY SumStep, FS_EmptySet

\* A sum of integers is an integer, and one of naturals a natural.
LEMMA SumTyped ==
  ASSUME NEW S, IsFiniteSet(S), NEW v, \A x \in S : v[x] \in Int
  PROVE  /\ SumOver(v, S) \in Int
         /\ (\A x \in S : v[x] >= 0) => SumOver(v, S) >= 0
<1> DEFINE Bad(T) == ~ /\ SumOver(v, T) \in Int
                       /\ (\A x \in S : v[x] >= 0) => SumOver(v, T) >= 0
           P == {T \in SUBSET S : Bad(T)}
<1>1. ASSUME P # {} PROVE FALSE
  <2>0. P \in SUBSET (SUBSET S)
    OBVIOUS
  <2>1. PICK T \in P : \A U \in P : U \subseteq T => U = T
    <3> HIDE DEF P
    <3> QED
      BY <1>1, <2>0, SmallestSubset
  <2>2. T \in SUBSET S /\ IsFiniteSet(T) /\ Bad(T)
    BY <2>1, FS_Subset
  <2>3. T # {}
    BY <2>2, SumEmpty
  <2> DEFINE p == Pick(T)
             U == T \ {p}
  <2>4. p \in T /\ U \in SUBSET S /\ U \subseteq T /\ U # T
    BY <2>2, <2>3, PickIn
  <2>5. ~ Bad(U)
    BY <2>1, <2>4
  <2>6. SumOver(v, T) = v[p] + SumOver(v, U)
    BY <2>2, <2>3, SumStep
  <2> HIDE DEF p, U
  <2> QED
    BY <2>2, <2>4, <2>5, <2>6
<1> QED
  BY <1>1

\* Any element may be taken first.
LEMMA SumWithout ==
  ASSUME NEW S, IsFiniteSet(S), NEW v, \A x \in S : v[x] \in Int, NEW e \in S
  PROVE  SumOver(v, S) = v[e] + SumOver(v, S \ {e})
<1> DEFINE P == {T \in SUBSET S : \E x \in T : SumOver(v, T) # v[x] + SumOver(v, T \ {x})}
<1>1. ASSUME P # {} PROVE FALSE
  <2>0. P \in SUBSET (SUBSET S)
    OBVIOUS
  <2>1. PICK T \in P : \A U \in P : U \subseteq T => U = T
    <3> HIDE DEF P
    <3> QED
      BY <1>1, <2>0, SmallestSubset
  <2>2. T \in SUBSET S /\ IsFiniteSet(T)
    BY <2>1, FS_Subset
  <2>3. PICK x \in T : SumOver(v, T) # v[x] + SumOver(v, T \ {x})
    BY <2>1
  <2> DEFINE p == Pick(T)
  <2>4. p \in T /\ SumOver(v, T) = v[p] + SumOver(v, T \ {p})
    BY <2>2, <2>3, PickIn, SumStep
  <2>5. p # x
    BY <2>3, <2>4
  <2> DEFINE R == (T \ {p}) \ {x}
  <2>6. (T \ {p}) \notin P /\ (T \ {x}) \notin P
    BY <2>1, <2>2, <2>3, <2>4
  <2>7. SumOver(v, T \ {p}) = v[x] + SumOver(v, R)
    BY <2>2, <2>3, <2>5, <2>6
  <2>8. (T \ {x}) \ {p} = R
    OBVIOUS
  <2>9. SumOver(v, T \ {x}) = v[p] + SumOver(v, R)
    <3>1. T \ {x} \in SUBSET S /\ p \in T \ {x}
      BY <2>2, <2>4, <2>5
    <3> HIDE DEF R, p
    <3> QED
      BY <2>6, <2>8, <3>1
  <2>10. SumOver(v, R) \in Int /\ v[p] \in Int /\ v[x] \in Int
    <3>1. R \in SUBSET S /\ IsFiniteSet(R)
      BY <2>2, FS_Subset
    <3> QED
      BY <2>2, <2>3, <2>4, <3>1, SumTyped
  <2> HIDE DEF R, p
  <2> QED
    BY <2>3, <2>4, <2>7, <2>9, <2>10
<1>2. S \notin P
  BY <1>1
<1> QED
  BY <1>2

\* Functions that agree have one sum.
LEMMA SumSame ==
  ASSUME NEW S, IsFiniteSet(S), NEW u, NEW v, \A x \in S : u[x] = v[x]
  PROVE  SumOver(u, S) = SumOver(v, S)
<1> DEFINE P == {T \in SUBSET S : SumOver(u, T) # SumOver(v, T)}
<1>1. ASSUME P # {} PROVE FALSE
  <2>0. P \in SUBSET (SUBSET S)
    OBVIOUS
  <2>1. PICK T \in P : \A U \in P : U \subseteq T => U = T
    <3> HIDE DEF P
    <3> QED
      BY <1>1, <2>0, SmallestSubset
  <2>2. T \in SUBSET S /\ IsFiniteSet(T) /\ SumOver(u, T) # SumOver(v, T)
    BY <2>1, FS_Subset
  <2>3. T # {}
    BY <2>2, SumEmpty
  <2> DEFINE U == T \ {Pick(T)}
  <2>4. Pick(T) \in T /\ U \in SUBSET S /\ U \subseteq T /\ U # T
    BY <2>2, <2>3, PickIn
  <2>5. SumOver(u, U) = SumOver(v, U)
    BY <2>1, <2>4
  <2>6. SumOver(u, T) = u[Pick(T)] + SumOver(u, U) /\ SumOver(v, T) = v[Pick(T)] + SumOver(v, U)
    BY <2>2, <2>3, SumStep
  <2> HIDE DEF U
  <2> QED
    BY <2>2, <2>4, <2>5, <2>6
<1>2. S \notin P
  BY <1>1
<1> QED
  BY <1>2

\* A sum changes by what one of its terms changes by.
LEMMA SumChange ==
  ASSUME NEW S, IsFiniteSet(S), NEW u, NEW v, NEW e \in S,
         \A x \in S : u[x] \in Int /\ v[x] \in Int,
         \A x \in S \ {e} : u[x] = v[x]
  PROVE  SumOver(v, S) = SumOver(u, S) + (v[e] - u[e])
<1>1. SumOver(u, S) = u[e] + SumOver(u, S \ {e}) /\ SumOver(v, S) = v[e] + SumOver(v, S \ {e})
  BY SumWithout
<1>2. IsFiniteSet(S \ {e})
  BY FS_Subset
<1>3. SumOver(u, S \ {e}) = SumOver(v, S \ {e}) /\ SumOver(u, S \ {e}) \in Int
  BY <1>2, SumSame, SumTyped
<1> QED
  BY <1>1, <1>3

\* Sums are added term by term.
LEMMA SumAdded ==
  ASSUME NEW S, IsFiniteSet(S), NEW u, NEW v, NEW w,
         \A x \in S : u[x] \in Int /\ v[x] \in Int /\ w[x] = u[x] + v[x]
  PROVE  SumOver(w, S) = SumOver(u, S) + SumOver(v, S)
<1> DEFINE P == {T \in SUBSET S : SumOver(w, T) # SumOver(u, T) + SumOver(v, T)}
<1>1. ASSUME P # {} PROVE FALSE
  <2>0. P \in SUBSET (SUBSET S)
    OBVIOUS
  <2>1. PICK T \in P : \A U \in P : U \subseteq T => U = T
    <3> HIDE DEF P
    <3> QED
      BY <1>1, <2>0, SmallestSubset
  <2>2. T \in SUBSET S /\ IsFiniteSet(T) /\ SumOver(w, T) # SumOver(u, T) + SumOver(v, T)
    BY <2>1, FS_Subset
  <2>3. T # {}
    BY <2>2, SumEmpty
  <2> DEFINE U == T \ {Pick(T)}
  <2>4. Pick(T) \in T /\ U \in SUBSET S /\ U \subseteq T /\ U # T /\ IsFiniteSet(U)
    BY <2>2, <2>3, PickIn, FS_Subset
  <2>5. SumOver(w, U) = SumOver(u, U) + SumOver(v, U)
    BY <2>1, <2>4
  <2>6. /\ SumOver(u, T) = u[Pick(T)] + SumOver(u, U)
        /\ SumOver(v, T) = v[Pick(T)] + SumOver(v, U)
        /\ SumOver(w, T) = w[Pick(T)] + SumOver(w, U)
    BY <2>2, <2>3, SumStep
  <2>7. SumOver(u, U) \in Int /\ SumOver(v, U) \in Int
    BY <2>4, SumTyped
  <2> HIDE DEF U
  <2> QED
    BY <2>2, <2>4, <2>5, <2>6, <2>7
<1>2. S \notin P
  BY <1>1
<1> QED
  BY <1>2

\* Only the terms that are not 0 count.
LEMMA SumSubset ==
  ASSUME NEW S, IsFiniteSet(S), NEW v, \A x \in S : v[x] \in Int,
         NEW A \in SUBSET S, \A x \in S \ A : v[x] = 0
  PROVE  SumOver(v, S) = SumOver(v, A)
<1> DEFINE P == {T \in SUBSET S : A \subseteq T /\ SumOver(v, T) # SumOver(v, A)}
<1>1. ASSUME P # {} PROVE FALSE
  <2>0. P \in SUBSET (SUBSET S)
    OBVIOUS
  <2>1. PICK T \in P : \A U \in P : U \subseteq T => U = T
    <3> HIDE DEF P
    <3> QED
      BY <1>1, <2>0, SmallestSubset
  <2>2. T \in SUBSET S /\ A \subseteq T /\ SumOver(v, T) # SumOver(v, A) /\ IsFiniteSet(T)
    BY <2>1, FS_Subset
  <2>3. PICK x \in T : x \notin A
    BY <2>2
  <2>4. SumOver(v, T) = v[x] + SumOver(v, T \ {x}) /\ v[x] = 0
    BY <2>2, <2>3, SumWithout
  <2>5. SumOver(v, T \ {x}) = SumOver(v, A)
    BY <2>1, <2>2, <2>3
  <2>6. SumOver(v, A) \in Int
    BY FS_Subset, SumTyped
  <2> QED
    BY <2>2, <2>4, <2>5, <2>6
<1>2. S \notin P
  BY <1>1
<1> QED
  BY <1>2

\* A factor may be taken out of a sum.
LEMMA SumScaled ==
  ASSUME NEW S, IsFiniteSet(S), NEW k \in Int, NEW v, NEW w,
         \A x \in S : v[x] \in Int /\ w[x] = k * v[x]
  PROVE  SumOver(w, S) = k * SumOver(v, S)
<1> DEFINE P == {T \in SUBSET S : SumOver(w, T) # k * SumOver(v, T)}
<1>1. ASSUME P # {} PROVE FALSE
  <2>0. P \in SUBSET (SUBSET S)
    OBVIOUS
  <2>1. PICK T \in P : \A U \in P : U \subseteq T => U = T
    <3> HIDE DEF P
    <3> QED
      BY <1>1, <2>0, SmallestSubset
  <2>2. T \in SUBSET S /\ IsFiniteSet(T) /\ SumOver(w, T) # k * SumOver(v, T)
    BY <2>1, FS_Subset
  <2>3. T # {}
    BY <2>2, SumEmpty
  <2> DEFINE p == Pick(T)
             U == T \ {p}
  <2>4. p \in T /\ p \in S /\ U \in SUBSET S /\ U \subseteq T /\ U # T /\ IsFiniteSet(U)
    BY <2>2, <2>3, PickIn, FS_Subset
  <2>5. SumOver(w, U) = k * SumOver(v, U)
    BY <2>1, <2>4
  <2>6. SumOver(v, T) = v[p] + SumOver(v, U) /\ SumOver(w, T) = w[p] + SumOver(w, U)
    BY <2>2, <2>3, SumStep
  <2>7. SumOver(v, U) \in Int
    BY <2>4, SumTyped
  <2>8. v[p] \in Int /\ w[p] = k * v[p]
    BY <2>4
  <2> HIDE DEF p, U
  <2>9. k * (v[p] + SumOver(v, U)) = k * v[p] + k * SumOver(v, U)
    BY <2>7, <2>8
  <2> QED
    BY <2>2, <2>5, <2>6, <2>8, <2>9
<1>2. S \notin P
  BY <1>1
<1> QED
  BY <1>2

\* The terms of a sum bound it.
LEMMA SumMonotone ==
  ASSUME NEW S, IsFiniteSet(S), NEW v, NEW w,
         \A x \in S : v[x] \in Int /\ w[x] \in Int /\ v[x] <= w[x]
  PROVE  SumOver(v, S) <= SumOver(w, S)
<1> DEFINE more == [x \in S |-> w[x] - v[x]]
<1>1. \A x \in S : more[x] \in Int /\ more[x] >= 0 /\ w[x] = v[x] + more[x]
  OBVIOUS
<1> HIDE DEF more
<1>2. SumOver(w, S) = SumOver(v, S) + SumOver(more, S)
  BY <1>1, SumAdded
<1>3. SumOver(v, S) \in Int
  BY SumTyped
<1>4. SumOver(more, S) \in Int /\ SumOver(more, S) >= 0
  BY <1>1, SumTyped
<1> QED
  BY <1>2, <1>3, <1>4

\* Ones add up to the size of the set.
LEMMA SumOnes ==
  ASSUME NEW S, IsFiniteSet(S), NEW v, \A x \in S : v[x] = 1
  PROVE  SumOver(v, S) = Cardinality(S)
<1> DEFINE P == {T \in SUBSET S : SumOver(v, T) # Cardinality(T)}
<1>1. ASSUME P # {} PROVE FALSE
  <2>0. P \in SUBSET (SUBSET S)
    OBVIOUS
  <2>1. PICK T \in P : \A U \in P : U \subseteq T => U = T
    <3> HIDE DEF P
    <3> QED
      BY <1>1, <2>0, SmallestSubset
  <2>2. T \in SUBSET S /\ IsFiniteSet(T) /\ SumOver(v, T) # Cardinality(T)
    BY <2>1, FS_Subset
  <2>3. T # {}
    BY <2>2, SumEmpty, FS_EmptySet
  <2> DEFINE p == Pick(T)
             U == T \ {p}
  <2>4. p \in T /\ p \in S /\ U \in SUBSET S /\ U \subseteq T /\ U # T
    BY <2>2, <2>3, PickIn
  <2>5. SumOver(v, U) = Cardinality(U)
    BY <2>1, <2>4
  <2>6. SumOver(v, T) = v[p] + SumOver(v, U)
    BY <2>2, <2>3, SumStep
  <2>7. Cardinality(U) = Cardinality(T) - 1 /\ Cardinality(T) \in Nat
    BY <2>2, <2>4, FS_RemoveElement, FS_CardinalityType
  <2> HIDE DEF p, U
  <2> QED
    BY <2>2, <2>4, <2>5, <2>6, <2>7
<1>2. S \notin P
  BY <1>1
<1> QED
  BY <1>2

\* The same amount for everybody.
LEMMA SumConstant ==
  ASSUME NEW S, IsFiniteSet(S), NEW n \in Int, NEW v, \A x \in S : v[x] = n
  PROVE  SumOver(v, S) = n * Cardinality(S)
<1> DEFINE one == [x \in S |-> 1]
<1>1. \A x \in S : one[x] = 1 /\ one[x] \in Int /\ v[x] = n * one[x]
  OBVIOUS
<1> HIDE DEF one
<1>2. SumOver(v, S) = n * SumOver(one, S)
  BY <1>1, SumScaled
<1>3. SumOver(one, S) = Cardinality(S)
  BY <1>1, SumOnes
<1> QED
  BY <1>2, <1>3

\* One more for those in A.
LEMMA SumMarked ==
  ASSUME NEW S, IsFiniteSet(S), NEW A \in SUBSET S, NEW v, NEW w,
         \A x \in S : v[x] \in Int /\ w[x] = v[x] + (IF x \in A THEN 1 ELSE 0)
  PROVE  SumOver(w, S) = SumOver(v, S) + Cardinality(A)
<1> DEFINE mark == [x \in S |-> IF x \in A THEN 1 ELSE 0]
<1>1. \A x \in S : mark[x] \in Int /\ w[x] = v[x] + mark[x]
  OBVIOUS
<1>2. (\A x \in S \ A : mark[x] = 0) /\ (\A x \in A : mark[x] = 1)
  OBVIOUS
<1> HIDE DEF mark
<1>3. SumOver(w, S) = SumOver(v, S) + SumOver(mark, S)
  BY <1>1, SumAdded
<1>4. SumOver(mark, S) = SumOver(mark, A)
  BY <1>1, <1>2, SumSubset
<1>5. IsFiniteSet(A)
  BY FS_Subset
<1>6. SumOver(mark, A) = Cardinality(A)
  BY <1>2, <1>5, SumOnes
<1> QED
  BY <1>3, <1>4, <1>6

-----------------------------------------------------------------------------
(* Who gets an odd unit.                                                   *)

\* R puts the members of S in a total order.
Orders(R, S) ==
  /\ \A a \in S : <<a, a>> \notin R
  /\ \A a, b \in S : a # b => <<a, b>> \in R \/ <<b, a>> \in R
  /\ \A a, b, c \in S : <<a, b>> \in R /\ <<b, c>> \in R => <<a, c>> \in R

Preceding(R, S, a) == {b \in S : <<b, a>> \in R}

FirstOf(R, S, k) == {a \in S : Cardinality(Preceding(R, S, a)) < k}

\* The first k of a totally ordered set are k.
LEMMA FirstCount ==
  ASSUME NEW S, IsFiniteSet(S), NEW R, Orders(R, S), NEW k \in 0..Cardinality(S)
  PROVE  Cardinality(FirstOf(R, S, k)) = k
<1> DEFINE n == Cardinality(S)
           before(a) == Preceding(R, S, a)
           rank == [a \in S |-> Cardinality(before(a))]
<1>1. n \in Nat
  BY FS_CardinalityType
<1>2. ASSUME NEW a \in S
      PROVE  before(a) \in SUBSET S /\ IsFiniteSet(before(a)) /\ a \notin before(a)
  BY FS_Subset DEF Preceding, Orders
<1>3. ASSUME NEW a \in S
      PROVE  rank[a] \in 0..(n - 1)
  <2>1. Cardinality(S \ {a}) = n - 1 /\ IsFiniteSet(S \ {a})
    BY FS_RemoveElement
  <2>2. before(a) \in SUBSET (S \ {a})
    BY <1>2
  <2>3. Cardinality(before(a)) <= n - 1 /\ Cardinality(before(a)) \in Nat
    BY <1>2, <2>1, <2>2, FS_Subset, FS_CardinalityType
  <2> QED
    BY <1>1, <2>3
<1>4. ASSUME NEW a \in S, NEW b \in S, <<a, b>> \in R
      PROVE  rank[a] # rank[b]
  <2>1. before(a) \cup {a} \in SUBSET before(b)
    BY <1>4 DEF Preceding, Orders
  <2>2. Cardinality(before(a) \cup {a}) = Cardinality(before(a)) + 1
    BY <1>2, FS_AddElement
  <2>3. Cardinality(before(a) \cup {a}) <= Cardinality(before(b))
    BY <1>2, <2>1, FS_Subset
  <2>4. Cardinality(before(a)) \in Nat /\ Cardinality(before(b)) \in Nat
    BY <1>2, FS_CardinalityType
  <2> HIDE DEF before
  <2> QED
    BY <2>2, <2>3, <2>4
<1> DEFINE places == 0..(n - 1)
           A == FirstOf(R, S, k)
           some == [a \in A |-> rank[a]]
<1>5. rank \in Injection(S, places)
  <2>1. rank \in [S -> places]
    <3>1. rank = [a \in S |-> rank[a]]
      OBVIOUS
    <3> HIDE DEF rank
    <3> QED
      BY <1>3, <3>1
  <2>2. \A a, b \in S : rank[a] = rank[b] => a = b
    <3> HIDE DEF rank
    <3> QED
      BY <1>4 DEF Orders
  <2> HIDE DEF rank
  <2> QED
    BY <2>1, <2>2 DEF Injection, IsInjective
<1>6. rank \in Surjection(S, places)
  <2>1. IsFiniteSet(places) /\ Cardinality(places) = n
    <3>1. n - 1 \in Int /\ 0 \in Int
      BY <1>1
    <3> HIDE DEF n
    <3> QED
      BY <1>1, <3>1, FS_Interval
  <2> HIDE DEF rank, places
  <2> QED
    BY <1>5, <2>1, FS_Injection
<1>7. some \in Injection(A, 0..(k - 1)) /\ some \in Surjection(A, 0..(k - 1))
  <2>1. \A a \in S : a \in A <=> rank[a] < k
    BY DEF FirstOf
  <2>2. A \subseteq S
    BY DEF FirstOf
  <2>3. \A a \in A : some[a] = rank[a]
    OBVIOUS
  <2>4. some = [a \in A |-> some[a]]
    OBVIOUS
  <2> HIDE DEF A, some, rank
  <2>5. some \in [A -> 0..(k - 1)]
    BY <1>1, <1>3, <2>1, <2>2, <2>3, <2>4
  <2>6. \A a, b \in A : some[a] = some[b] => a = b
    BY <1>5, <2>2, <2>3 DEF Injection, IsInjective
  <2>7. ASSUME NEW i \in 0..(k - 1) PROVE \E a \in A : some[a] = i
    <3>1. i \in places
      BY <1>1
    <3>2. PICK a \in S : rank[a] = i
      BY <1>6, <3>1 DEF Surjection
    <3> QED
      BY <2>1, <2>3, <3>2
  <2> QED
    BY <2>5, <2>6, <2>7 DEF Injection, Surjection, IsInjective
<1>8. IsFiniteSet(0..(k - 1)) /\ Cardinality(0..(k - 1)) = k
  <2>1. k - 1 \in Int /\ 0 \in Int /\ k \in Nat
    BY <1>1
  <2> QED
    BY <2>1, FS_Interval
<1>9. Cardinality(A) = Cardinality(0..(k - 1))
  <2> HIDE DEF A, some
  <2> QED
    BY <1>7, <1>8, FS_Injection
<1> QED
  BY <1>8, <1>9

-----------------------------------------------------------------------------
(* The split of a pool.                                                    *)

LEMMA Quotient ==
  ASSUME NEW m \in Nat, NEW n \in Nat \ {0}
  PROVE  /\ m \div n \in Nat /\ m % n \in 0..(n - 1)
         /\ m = n * (m \div n) + (m % n)
<1> DEFINE q == m \div n
           r == m % n
<1>1. q \in Int /\ n * q <= m /\ m < n * q + n
  OBVIOUS
<1>2. r \in 0..(n - 1) /\ m = n * q + r
  OBVIOUS
<1>3. q >= 0
  <2> HIDE DEF q
  <2>1. SUFFICES ASSUME q <= -1 PROVE FALSE
    BY <1>1
  <2>2. n * q + n <= 0
    BY <1>1, <2>1
  <2> QED
    BY <1>1, <2>2
<1>4. q \in Nat
  <2> HIDE DEF q
  <2> QED
    BY <1>1, <1>3
<1> HIDE DEF q, r
<1> QED
  BY <1>2, <1>4 DEF q, r

\* Nobody has worked: everyone gets the same, and the first the odd units.
LEMMA EvenSplitExact ==
  ASSUME NEW pool \in Nat, NEW S \in SUBSET Nat, IsFiniteSet(S), S # {}
  PROVE  /\ EvenSplit(pool, S) \in [S -> Nat]
         /\ SumOver(EvenSplit(pool, S), S) = pool
<1> DEFINE n == Cardinality(S)
           q == pool \div n
           k == pool % n
           R == {p \in S \X S : p[1] < p[2]}
           odd == FirstOf(R, S, k)
           even == [a \in S |-> q]
           split == EvenSplit(pool, S)
<1>1. n \in Nat \ {0}
  BY FS_CardinalityType, FS_EmptySet
<1>2. q \in Nat /\ k \in 0..(n - 1) /\ pool = n * q + k
  <2> HIDE DEF n
  <2> QED
    BY <1>1, Quotient
<1>3. Orders(R, S)
  BY DEF Orders
<1>4. Cardinality(odd) = k
  <2>1. k \in 0..n
    BY <1>1, <1>2
  <2> HIDE DEF R, k
  <2> QED
    BY <1>3, <2>1, FirstCount
<1>5. \A a \in S : split[a] = q + (IF a \in odd THEN 1 ELSE 0)
  <2>1. \A a \in S : Preceding(R, S, a) = {b \in S : b < a}
    BY DEF Preceding
  <2>2. \A a \in S : a \in odd <=> Cardinality({b \in S : b < a}) < k
    BY <2>1 DEF FirstOf
  <2>3. \A a \in S : split[a] = q + (IF Cardinality({b \in S : b < a}) < k THEN 1 ELSE 0)
    BY DEF EvenSplit
  <2> QED
    BY <2>2, <2>3
<1>6. split = [a \in S |-> split[a]]
  BY DEF EvenSplit
<1>7. odd \in SUBSET S
  BY DEF FirstOf
<1> HIDE DEF q, k, n, odd, split, R
<1>8. split \in [S -> Nat]
  <2>1. \A a \in S : split[a] \in Nat
    BY <1>2, <1>5
  <2> QED
    BY <1>6, <2>1
<1>9. SumOver(split, S) = SumOver(even, S) + Cardinality(odd)
  <2>1. \A a \in S : even[a] \in Int /\ split[a] = even[a] + (IF a \in odd THEN 1 ELSE 0)
    BY <1>2, <1>5
  <2> HIDE DEF even
  <2> QED
    BY <1>7, <2>1, SumMarked
<1>10. SumOver(even, S) = q * n
  <2>1. (\A a \in S : even[a] = q) /\ q \in Int
    BY <1>2
  <2> HIDE DEF even
  <2> QED
    BY <2>1, SumConstant DEF n
<1> QED
  BY <1>1, <1>2, <1>4, <1>8, <1>9, <1>10 DEF split

\* Somebody has worked.  Everyone gets the whole units of its share; what is left
\* is less than one unit each, and goes to the largest fractions.
LEMMA LargestRemainderExact ==
  ASSUME NEW pool \in Nat \ {0}, NEW S \in SUBSET Nat, IsFiniteSet(S),
         NEW load \in [S -> Nat], NEW total \in Nat \ {0}, total = SumOver(load, S)
  PROVE  LET amount == LargestRemainder(pool, load, total)
         IN /\ amount \in [S -> Nat]
            /\ SumOver(amount, S) = pool
<1> DEFINE positive == {a \in S : load[a] > 0}
           base == [a \in positive |-> (pool * load[a]) \div total]
           fraction(a) == (pool * load[a]) % total
           left == [a \in positive |-> fraction(a)]
           remainder == pool - SumOver(base, positive)
           R == {p \in positive \X positive :
                   ServedBefore(fraction(p[1]), p[1], fraction(p[2]), p[2])}
           odd == FirstOf(R, positive, remainder)
           amount == LargestRemainder(pool, load, total)
           n == Cardinality(positive)
<1>1. positive \in SUBSET S /\ positive \in SUBSET Nat /\ IsFiniteSet(positive)
  BY FS_Subset
<1>2. ASSUME NEW a \in positive
      PROVE  /\ base[a] \in Nat /\ left[a] \in 0..(total - 1)
             /\ pool * load[a] = total * base[a] + left[a]
             /\ fraction(a) = left[a]
  <2>1. pool * load[a] \in Nat
    BY <1>1
  <2> QED
    BY <2>1, Quotient
<1>3. \A a \in positive : load[a] \in Nat /\ load[a] \in Int
  BY <1>1
<1>4. SumOver(load, positive) = total
  <2>1. (\A a \in S : load[a] \in Int) /\ (\A a \in S \ positive : load[a] = 0)
    OBVIOUS
  <2> HIDE DEF positive
  <2> QED
    BY <1>1, <2>1, SumSubset
<1>5. n \in Nat /\ n > 0
  <2>1. n \in Nat
    BY <1>1, FS_CardinalityType
  <2>2. n # 0
    BY <1>1, <1>4, SumEmpty, FS_EmptySet
  <2> QED
    BY <2>1, <2>2
<1>6. /\ SumOver(base, positive) \in Nat
      /\ SumOver(left, positive) \in Nat
      /\ SumOver(left, positive) <= (total - 1) * n
  <2>1. \A a \in positive : /\ base[a] \in Int /\ base[a] >= 0
                             /\ left[a] \in Int /\ left[a] >= 0 /\ left[a] <= total - 1
    BY <1>2
  <2> DEFINE most == [a \in positive |-> total - 1]
  <2>2. \A a \in positive : most[a] \in Int /\ most[a] = total - 1 /\ left[a] <= most[a]
    BY <2>1
  <2> HIDE DEF base, left, positive, most
  <2>3. SumOver(base, positive) \in Int /\ SumOver(base, positive) >= 0
    BY <1>1, <2>1, SumTyped
  <2>4. SumOver(left, positive) \in Int /\ SumOver(left, positive) >= 0
    BY <1>1, <2>1, SumTyped
  <2>5. SumOver(left, positive) <= SumOver(most, positive)
    BY <1>1, <2>1, <2>2, SumMonotone
  <2>6. SumOver(most, positive) = (total - 1) * n
    <3>1. total - 1 \in Int
      OBVIOUS
    <3> QED
      BY <1>1, <2>2, <3>1, SumConstant
  <2> QED
    BY <2>3, <2>4, <2>5, <2>6
<1>7. pool * total = total * SumOver(base, positive) + SumOver(left, positive)
  <2> DEFINE scaled == [a \in positive |-> pool * load[a]]
             whole == [a \in positive |-> total * base[a]]
  <2>1. \A a \in positive : scaled[a] = pool * load[a] /\ whole[a] = total * base[a]
    OBVIOUS
  <2>2. \A a \in positive : /\ whole[a] \in Int /\ left[a] \in Int /\ base[a] \in Int
                             /\ scaled[a] = whole[a] + left[a]
    BY <1>2, <2>1
  <2> HIDE DEF scaled, whole, base, left, positive
  <2>6. \A a \in positive : load[a] \in Int /\ scaled[a] = pool * load[a]
    BY <1>3, <2>1
  <2>7. \A a \in positive : base[a] \in Int /\ whole[a] = total * base[a]
    BY <2>1, <2>2
  <2>8. pool \in Int /\ total \in Int
    OBVIOUS
  <2>3. SumOver(scaled, positive) = pool * SumOver(load, positive)
    BY ONLY <1>1, <2>6, <2>8, SumScaled
  <2>4. SumOver(whole, positive) = total * SumOver(base, positive)
    BY ONLY <1>1, <2>7, <2>8, SumScaled
  <2>5. SumOver(scaled, positive) = SumOver(whole, positive) + SumOver(left, positive)
    BY <1>1, <2>2, SumAdded
  <2> QED
    BY <1>4, <2>3, <2>4, <2>5
<1>8. remainder \in 0..n
  <2> DEFINE b == SumOver(base, positive)
             f == SumOver(left, positive)
  <2>1. b \in Nat /\ f \in Nat /\ f <= (total - 1) * n /\ pool * total = total * b + f
    BY <1>6, <1>7
  <2> HIDE DEF b, f, n, positive, base
  <2>2. total * (pool - b) = f
    BY <2>1
  <2>3. pool - b >= 0
    BY <2>1, <2>2
  <2>4. total * n = (total - 1) * n + n
    BY <1>5
  <2>5. total * (pool - b) <= total * n
    BY <1>5, <2>1, <2>2, <2>4
  <2>6. pool - b <= n
    BY <1>5, <2>1, <2>5
  <2> QED
    BY <1>5, <2>1, <2>3, <2>6 DEF b
<1>9. Orders(R, positive)
  <2>1. \A a, b \in positive : <<a, b>> \in R <=> left[a] > left[b] \/ (left[a] = left[b] /\ a < b)
    BY <1>2 DEF ServedBefore
  <2>2. \A a \in positive : left[a] \in Int /\ a \in Int
    BY <1>1, <1>2
  <2> HIDE DEF R, left, positive
  <2> QED
    BY <2>1, <2>2 DEF Orders
<1>10. Cardinality(odd) = remainder
  <2> HIDE DEF R, positive, remainder
  <2> QED
    BY <1>1, <1>8, <1>9, FirstCount
<1>11. \A a \in S : amount[a] = IF a \in positive THEN base[a] + (IF a \in odd THEN 1 ELSE 0) ELSE 0
  <2>1. \A a \in positive : Preceding(R, positive, a)
          = {b \in positive : ServedBefore(fraction(b), b, fraction(a), a)}
    BY DEF Preceding
  <2>2. \A a \in positive : a \in odd <=>
          Cardinality({b \in positive : ServedBefore(fraction(b), b, fraction(a), a)}) < remainder
    BY <2>1 DEF FirstOf
  <2>3. \A a \in S : amount[a] =
          IF a \in positive
          THEN base[a] + (IF Cardinality({b \in positive : ServedBefore(fraction(b), b, fraction(a), a)})
                                < remainder THEN 1 ELSE 0)
          ELSE 0
    BY DEF LargestRemainder
  <2> HIDE DEF fraction, base, positive, remainder, R, odd, amount
  <2> QED
    BY <2>2, <2>3
<1>12. amount = [a \in S |-> amount[a]]
  BY DEF LargestRemainder
<1>13. odd \in SUBSET positive
  BY DEF FirstOf
<1> HIDE DEF amount, base, odd, positive, R, left
<1>14. amount \in [S -> Nat]
  <2>1. \A a \in S : amount[a] \in Nat
    BY <1>2, <1>11
  <2> QED
    BY <1>12, <2>1
<1>15. SumOver(amount, S) = SumOver(amount, positive)
  <2>1. (\A a \in S : amount[a] \in Int) /\ (\A a \in S \ positive : amount[a] = 0)
    BY <1>11, <1>14
  <2> QED
    BY <1>1, <2>1, SumSubset, ZenonT(30)
<1>16. SumOver(amount, positive) = SumOver(base, positive) + Cardinality(odd)
  <2>1. \A a \in positive : base[a] \in Int /\ amount[a] = base[a] + (IF a \in odd THEN 1 ELSE 0)
    BY <1>1, <1>2, <1>11
  <2> QED
    BY <1>1, <1>13, <2>1, SumMarked
<1> QED
  BY <1>6, <1>10, <1>14, <1>15, <1>16 DEF amount

\* The pool of a cycle is handed out to the last unit as soon as somebody took part,
\* and nobody gets less than nothing: what a closing credits is what the pool holds.
THEOREM PoolHandedOut ==
  ASSUME NEW pool \in Nat \ {0}, NEW S \in SUBSET Nat, IsFiniteSet(S), S # {},
         NEW load \in [S -> Nat]
  PROVE  /\ AllocateIntegerPool(pool, load) \in [S -> Nat]
         /\ SumOver(AllocateIntegerPool(pool, load), S) = pool
<1> DEFINE total == SumOver(load, S)
<1>1. total \in Nat
  <2>1. \A x \in S : load[x] \in Int /\ load[x] >= 0
    OBVIOUS
  <2>2. total \in Int /\ total >= 0
    BY <2>1, SumTyped
  <2> QED
    BY <2>2
<1>2. DOMAIN load = S
  OBVIOUS
<1> HIDE DEF total
<1>3. CASE total = 0
  <2>1. AllocateIntegerPool(pool, load) = EvenSplit(pool, S)
    BY <1>2, <1>3 DEF AllocateIntegerPool, total
  <2> QED
    BY <2>1, EvenSplitExact
<1>4. CASE total > 0
  <2>1. AllocateIntegerPool(pool, load) = LargestRemainder(pool, load, total)
    <3>1. ~(total <= 0) /\ pool > 0
      BY <1>1, <1>4
    <3> QED
      BY <1>2, <3>1 DEF AllocateIntegerPool, total
  <2> QED
    BY <1>1, <1>4, <2>1, LargestRemainderExact DEF total
<1> QED
  BY <1>1, <1>3, <1>4
=============================================================================
