----------------------------- MODULE FoldProofs -----------------------------
(***************************************************************************)
(* Induction and recursion over finite sets, for theorems about folds.     *)
(* What holds of a set is stated by membership in a set P of sets, so that *)
(* every lemma is about values, and can be cited where a theorem that      *)
(* takes an operator could not be.                                         *)
(***************************************************************************)
EXTENDS Integers, FiniteSets, FiniteSetTheorems, WellFoundedInduction, TLAPS

(* Induction over the numbers, from the well-foundedness of their order.   *)
LEMMA CountingUp ==
    ASSUME NEW P \in SUBSET Nat, 0 \in P, \A n \in P : n + 1 \in P
    PROVE  P = Nat
  <1> SUFFICES ASSUME Nat \ P # {} PROVE FALSE
    OBVIOUS
  <1> DEFINE Less == OpToRel(<, Nat)
             T == Nat \ P
  <1>1. IsWellFoundedOn(Less, Nat)
    BY NatLessThanWellFounded DEF OpToRel
  <1>2. T \subseteq Nat /\ T # {}
    OBVIOUS
  <1> HIDE DEF T, Less
  <1>3. PICK n \in T : \A m \in T : ~(<<m, n>> \in Less)
    BY <1>1, <1>2, WFMin
  <1>4. n \in Nat /\ n # 0
    BY <1>3 DEF T
  <1>5. <<n - 1, n>> \in Less
    BY <1>4 DEF Less, OpToRel
  <1>6. n - 1 \in P
    BY <1>3, <1>4, <1>5 DEF T
  <1>7. QED
    BY <1>3, <1>4, <1>6 DEF T

(* Induction over the subsets of a finite set, by their size: what holds   *)
(* of a set if it holds of the smaller ones, holds of all.                 *)
LEMMA GrowingSets ==
    ASSUME NEW S, IsFiniteSet(S), NEW P,
           \A T \in SUBSET S : (\A U \in SUBSET T : U # T => U \in P) => T \in P
    PROVE  \A T \in SUBSET S : T \in P
  <1> DEFINE Q == {n \in Nat : \A T \in SUBSET S : Cardinality(T) <= n => T \in P}
  <1>1. \A T \in SUBSET S : Cardinality(T) \in Nat
    BY FS_Subset, FS_CardinalityType
  <1>2. \A T \in SUBSET S : \A U \in SUBSET T :
            U # T => U \in SUBSET S /\ Cardinality(U) < Cardinality(T)
    <2> SUFFICES ASSUME NEW T \in SUBSET S, NEW U \in SUBSET T, U # T
                 PROVE  Cardinality(U) < Cardinality(T)
      OBVIOUS
    <2>1. IsFiniteSet(T)
      BY FS_Subset
    <2>2. Cardinality(U) <= Cardinality(T) /\ Cardinality(U) # Cardinality(T)
      BY <2>1, FS_Subset
    <2>3. QED
      BY <2>2, <1>1
  <1>3. 0 \in Q
    <2> SUFFICES ASSUME NEW T \in SUBSET S, Cardinality(T) <= 0
                 PROVE  T \in P
      OBVIOUS
    <2>1. \A U \in SUBSET T : U # T => U \in P
      BY <1>1, <1>2
    <2>2. QED
      BY <2>1
  <1>4. ASSUME NEW n \in Q PROVE n + 1 \in Q
    <2> SUFFICES ASSUME NEW T \in SUBSET S, Cardinality(T) <= n + 1
                 PROVE  T \in P
      BY <1>4
    <2>1. \A U \in SUBSET T : U # T => U \in P
      BY <1>1, <1>2, <1>4
    <2>2. QED
      BY <2>1
  <1>5. Q = Nat
    <2> HIDE DEF Q
    <2>1. Q \in SUBSET Nat
      BY DEF Q
    <2>2. QED
      BY <1>3, <1>4, <2>1, CountingUp
  <1>6. QED
    BY <1>1, <1>5

(* The image of a finite set.                                              *)
LEMMA FiniteImage ==
    ASSUME NEW S, IsFiniteSet(S), NEW f
    PROVE  IsFiniteSet({f[x] : x \in S})
  <1> DEFINE T == {f[x] : x \in S}
             g == [x \in S |-> f[x]]
  <1>1. g \in Surjection(S, T)
    BY DEF Surjection
  <1> HIDE DEF g, T
  <1>2. IsFiniteSet(T)
    BY <1>1, FS_Surjection
  <1>3. QED
    BY <1>2 DEF T

(* A finite set that an order R puts in some order has a last element,     *)
(* though there may be ties.                                               *)
LEMMA LastExists ==
    ASSUME NEW S, IsFiniteSet(S), S # {}, NEW R,
           \A x \in S : <<x, x>> \notin R,
           \A x, y, z \in S : <<x, y>> \in R /\ <<y, z>> \in R => <<x, z>> \in R
    PROVE  \E x \in S : \A y \in S : <<x, y>> \notin R
  <1> DEFINE IsLast(x, T) == \A y \in T : <<x, y>> \notin R
             P == {T \in SUBSET S : T = {} \/ \E x \in T : IsLast(x, T)}
  <1>1. ASSUME NEW T \in SUBSET S, \A U \in SUBSET T : U # T => U \in P
        PROVE  T \in P
    <2> SUFFICES ASSUME T # {} PROVE \E x \in T : IsLast(x, T)
      OBVIOUS
    <2>1. PICK x \in T : TRUE
      OBVIOUS
    <2>2. T \ {x} \in P
      <3>1. T \ {x} \in SUBSET T /\ T \ {x} # T
        BY <2>1
      <3> HIDE DEF P
      <3>2. QED
        BY <3>1, <1>1
    <2>3. CASE T \ {x} = {}
      <3>1. IsLast(x, T)
        BY <2>1, <2>3
      <3>2. QED
        BY <2>1, <3>1
    <2>4. CASE T \ {x} # {}
      <3>1. PICK y \in T \ {x} : IsLast(y, T \ {x})
        BY <2>2, <2>4
      <3>2. CASE <<y, x>> \in R
        <4>1. ASSUME NEW z \in T, <<x, z>> \in R PROVE FALSE
          <5>1. <<y, z>> \in R
            BY <3>1, <3>2, <4>1
          <5>2. z # x
            BY <4>1
          <5>3. QED
            BY <3>1, <5>1, <5>2
        <4>2. QED
          BY <2>1, <4>1
      <3>3. CASE <<y, x>> \notin R
        BY <3>1, <3>3
      <3>4. QED
        BY <3>2, <3>3
    <2>5. QED
      BY <2>3, <2>4
  <1>2. \A T \in SUBSET S : T \in P
    <2> HIDE DEF P
    <2>1. QED
      BY <1>1, GrowingSets
  <1>3. QED
    BY <1>2

-----------------------------------------------------------------------------
(***************************************************************************)
(* f folds S from base: pick says which element of a set comes last, step  *)
(* what it does to the fold of the others.                                 *)
(***************************************************************************)
IsFold(f, S, base, pick, step) ==
    \A T \in SUBSET S :
        f[T] = IF T = {} THEN base ELSE step[<<pick[T], f[T \ {pick[T]}]>>]

(* There is such an f for every finite set.                                *)
LEMMA FoldExists ==
    ASSUME NEW S, IsFiniteSet(S), NEW V, NEW base \in V, NEW step \in [S \X V -> V],
           NEW pick, \A T \in SUBSET S : T # {} => pick[T] \in T
    PROVE  \E f \in [SUBSET S -> V] : IsFold(f, S, base, pick, step)
  <1> DEFINE Small(n) == {T \in SUBSET S : Cardinality(T) <= n}
             Good(f, n) == \A T \in Small(n) :
                 f[T] = IF T = {} THEN base ELSE step[<<pick[T], f[T \ {pick[T]}]>>]
             Q == {n \in Nat : \E f \in [Small(n) -> V] : Good(f, n)}
  <1>1. \A T \in SUBSET S : Cardinality(T) \in Nat /\ (Cardinality(T) = 0 <=> T = {})
    BY FS_Subset, FS_CardinalityType, FS_EmptySet
  <1>2. \A T \in SUBSET S : T # {} => /\ T \ {pick[T]} \in SUBSET S
                                      /\ Cardinality(T \ {pick[T]}) = Cardinality(T) - 1
    BY FS_Subset, FS_RemoveElement
  <1>3. 0 \in Q
    <2> DEFINE f == [T \in Small(0) |-> base]
    <2>1. \A T \in Small(0) : T = {}
      BY <1>1
    <2>2. Good(f, 0) /\ f \in [Small(0) -> V]
      BY <2>1
    <2>3. QED
      BY <2>2
  <1>4. ASSUME NEW n \in Q PROVE n + 1 \in Q
    <2>1. PICK f \in [Small(n) -> V] : Good(f, n)
      BY <1>4
    <2> DEFINE h == [T \in Small(n + 1) |->
                       IF T = {} THEN base ELSE step[<<pick[T], f[T \ {pick[T]}]>>]]
    <2>2. \A T \in Small(n + 1) : T # {} => T \ {pick[T]} \in Small(n)
      BY <1>1, <1>2, <1>4
    <2>3. Small(n) \subseteq Small(n + 1)
      BY <1>1, <1>4
    <2>4. h \in [Small(n + 1) -> V]
      <3>1. \A T \in Small(n + 1) : T # {} => f[T \ {pick[T]}] \in V /\ pick[T] \in S
        BY <2>1, <2>2
      <3>2. QED
        BY <3>1
    <2>5. \A T \in Small(n) : h[T] = f[T]
      BY <2>1, <2>3
    <2>6. Good(h, n + 1)
      BY <2>2, <2>5
    <2>7. n + 1 \in Nat
      BY <1>4
    <2> HIDE DEF Small, Good, h
    <2>8. QED
      BY <2>4, <2>6, <2>7
  <1>5. Q = Nat
    <2> HIDE DEF Q
    <2>1. Q \in SUBSET Nat
      BY DEF Q
    <2>2. QED
      BY <1>3, <1>4, <2>1, CountingUp
  <1>6. Cardinality(S) \in Nat /\ Small(Cardinality(S)) = SUBSET S
    BY FS_Subset, FS_CardinalityType
  <1>7. PICK f \in [Small(Cardinality(S)) -> V] : Good(f, Cardinality(S))
    <2>1. Cardinality(S) \in Q
      BY <1>5, <1>6
    <2> HIDE DEF Small, Good
    <2>2. QED
      BY <2>1
  <1>8. IsFold(f, S, base, pick, step) /\ f \in [SUBSET S -> V]
    BY <1>6, <1>7 DEF IsFold
  <1>9. QED
    BY <1>8

(* Applying step time and again, as often as wanted.                       *)
IsIteration(f, V, base, step, N) ==
    /\ f \in [0 .. N -> V]
    /\ f[0] = base
    /\ \A n \in 1 .. N : f[n] = step[f[n - 1]]

LEMMA Iterates ==
    ASSUME NEW V, NEW base \in V, NEW step \in [V -> V], NEW N \in Nat
    PROVE  \E f : IsIteration(f, V, base, step, N)
  <1> DEFINE Good(f, n) == f[0] = base /\ \A m \in 1 .. n : f[m] = step[f[m - 1]]
             Q == {n \in Nat : \E f \in [0 .. n -> V] : Good(f, n)}
  <1>1. 0 \in Q
    <2> DEFINE f == [m \in 0 .. 0 |-> base]
    <2>1. f \in [0 .. 0 -> V] /\ Good(f, 0)
      OBVIOUS
    <2>2. QED
      BY <2>1
  <1>2. ASSUME NEW n \in Q PROVE n + 1 \in Q
    <2>1. n \in Nat
      BY <1>2
    <2>2. PICK f \in [0 .. n -> V] : Good(f, n)
      BY <1>2
    <2> DEFINE h == [m \in 0 .. n + 1 |-> IF m <= n THEN f[m] ELSE step[f[n]]]
    <2>3. h \in [0 .. n + 1 -> V]
      BY <2>1, <2>2
    <2>4. Good(h, n + 1)
      BY <2>1, <2>2
    <2>5. n + 1 \in Nat
      BY <2>1
    <2> HIDE DEF Good, h
    <2>6. QED
      BY <2>3, <2>4, <2>5
  <1>3. Q = Nat
    <2> HIDE DEF Q
    <2>1. Q \in SUBSET Nat
      BY DEF Q
    <2>2. QED
      BY <1>1, <1>2, <2>1, CountingUp
  <1>4. PICK f \in [0 .. N -> V] : Good(f, N)
    BY <1>3
  <1>5. IsIteration(f, V, base, step, N)
    BY <1>4 DEF IsIteration
  <1>6. QED
    BY <1>5
=============================================================================
