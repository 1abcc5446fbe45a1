----------------------------- MODULE BodyProofs -----------------------------
(***************************************************************************)
(* Theorems about Body, for schemas of any size and any edit of them: that *)
(* the statements generate writes run in their order, what tables, indexes,*)
(* triggers and views come to, and that no row is lost on the way.         *)
(***************************************************************************)
EXTENDS Body, FoldProofs, SequenceTheorems

USE NamesAssumption

-----------------------------------------------------------------------------
(***************************************************************************)
(* The order of statements.                                                *)
(***************************************************************************)
Numbered(s) == s.phase \in Nat /\ s.place \in Nat /\ s.step \in Nat /\ s.index \in Nat

LEMMA BeforeOrders ==
    ASSUME NEW s, NEW u, NEW v, Numbered(s), Numbered(u), Numbered(v)
    PROVE  ~Before(s, s) /\ (Before(s, u) /\ Before(u, v) => Before(s, v))
  BY DEF Before, Numbered

LEMMA DueIsFirst ==
    ASSUME IsFiniteSet(todo), todo # {}, \A s \in todo : Numbered(s)
    PROVE  Due \in todo /\ \A u \in todo : ~Before(u, Due)
  <1> DEFINE R == {p \in todo \X todo : Before(p[2], p[1])}
  <1>1. \A s, u \in todo : <<s, u>> \in R <=> Before(u, s)
    OBVIOUS
  <1> HIDE DEF R
  <1>2. \A s \in todo : <<s, s>> \notin R
    BY <1>1, BeforeOrders
  <1>3. \A s, u, v \in todo : <<s, u>> \in R /\ <<u, v>> \in R => <<s, v>> \in R
    BY <1>1, BeforeOrders
  <1>4. PICK s \in todo : \A u \in todo : <<s, u>> \notin R
    BY <1>2, <1>3, LastExists
  <1>5. QED
    BY <1>1, <1>4 DEF Due

-----------------------------------------------------------------------------
(***************************************************************************)
(* affectedObjects.                                                        *)
(***************************************************************************)
LEMMA AffectedIsClosed ==
    ASSUME NEW T, NEW s
    PROVE  /\ Affected(T, s) \subseteq Objects
           /\ ClosedUnder(Affected(T, s), T, s)
  <1>1. Affected(T, s) \subseteq Objects
    BY DEF Affected
  <1>2. ASSUME NEW o \in Objects, s.objects[o] # NoObject,
               s.objects[o].names \cap (T \cup Affected(T, s)) # {},
               NEW missing \in SUBSET Objects, ClosedUnder(missing, T, s)
        PROVE  o \in missing
    <2>1. Affected(T, s) \subseteq missing
      BY <1>2 DEF Affected
    <2>2. s.objects[o].names \cap (T \cup missing) # {}
      BY <1>2, <2>1
    <2>3. QED
      BY <1>2, <2>2 DEF ClosedUnder
  <1>3. \A o \in Objects :
           s.objects[o] # NoObject /\ s.objects[o].names \cap (T \cup Affected(T, s)) # {}
           => \A missing \in SUBSET Objects : ClosedUnder(missing, T, s) => o \in missing
    BY <1>2
  <1>4. QED
    BY <1>1, <1>3 DEF ClosedUnder, Affected

LEMMA AffectedIsLeast ==
    ASSUME NEW T, NEW s, NEW S \in SUBSET Objects, ClosedUnder(S, T, s)
    PROVE  Affected(T, s) \subseteq S
  BY DEF Affected

-----------------------------------------------------------------------------
(***************************************************************************)
(* orderByDependency.  What a visit leaves is Sorted: no table twice, and  *)
(* parents before their children, unless they are children themselves.     *)
(***************************************************************************)
Visits == Seq(Tables) \X (SUBSET Tables) \X Tables

LEMMA GreatestIs ==
    ASSUME NEW T \in SUBSET Nat, IsFiniteSet(T), T # {}
    PROVE  Max(T) \in T /\ \A y \in T : Max(T) >= y
  <1> DEFINE R == {p \in T \X T : p[1] < p[2]}
  <1>1. \A x, y \in T : <<x, y>> \in R <=> x < y
    OBVIOUS
  <1> HIDE DEF R
  <1>2. T \in SUBSET Nat /\ IsFiniteSet(T)
    OBVIOUS
  <1>3. \E x \in T : \A y \in T : <<x, y>> \notin R
    <2>1. \A x \in T : <<x, x>> \notin R
      BY <1>1, <1>2
    <2>2. \A x, y, z \in T : <<x, y>> \in R /\ <<y, z>> \in R => <<x, z>> \in R
      BY <1>1, <1>2
    <2>3. QED
      BY <1>2, <2>1, <2>2, LastExists
  <1>4. \E x \in T : \A y \in T : x >= y
    <2>1. PICK x \in T : \A y \in T : <<x, y>> \notin R
      BY <1>3
    <2>2. ASSUME NEW y \in T PROVE x >= y
      <3>1. x \in Nat /\ y \in Nat /\ ~(x < y)
        BY <1>1, <1>2, <2>1
      <3>2. QED
        BY <3>1
    <2>3. QED
      BY <2>2
  <1>5. QED
    BY <1>4 DEF Max

LEMMA LastTable ==
    ASSUME NEW T \in SUBSET Tables, T # {}
    PROVE  Max(T) \in T
  <1>1. T \in SUBSET Nat /\ IsFiniteSet(T)
    BY FS_Subset
  <1>2. QED
    BY <1>1, GreatestIs

VisitsEach(f, visit, order, busy, S) ==
    /\ f \in [SUBSET S -> Seq(Tables)]
    /\ VisitEach(visit, order, busy, S) = f[S]
    /\ \A T \in SUBSET S :
          f[T] = IF T = {} THEN order ELSE visit[<<f[T \ {Max(T)}], busy, Max(T)>>]

LEMMA VisitEachRuns ==
    ASSUME NEW visit \in [Visits -> Seq(Tables)], NEW order \in Seq(Tables),
           NEW busy \in SUBSET Tables, NEW S \in SUBSET Tables
    PROVE  \E f : VisitsEach(f, visit, order, busy, S)
  <1> DEFINE pick == [T \in SUBSET S |-> Max(T)]
             step == [x \in S \X Seq(Tables) |-> visit[<<x[2], busy, x[1]>>]]
             Recursion(g) ==
               g = [T \in SUBSET S |->
                      IF T = {} THEN order ELSE visit[<<g[T \ {Max(T)}], busy, Max(T)>>]]
             chosen == CHOOSE g : Recursion(g)
  <1>1. \A T \in SUBSET S : T # {} => pick[T] \in T
    BY LastTable
  <1>2. step \in [S \X Seq(Tables) -> Seq(Tables)]
    BY DEF Visits
  <1>3. \E f \in [SUBSET S -> Seq(Tables)] : IsFold(f, S, order, pick, step)
    <2> HIDE DEF pick, step
    <2>1. IsFiniteSet(S)
      BY FS_Subset
    <2>2. QED
      BY <1>1, <1>2, <2>1, FoldExists
  <1>4. PICK f \in [SUBSET S -> Seq(Tables)] : IsFold(f, S, order, pick, step)
    BY <1>3
  <1>5. \A T \in SUBSET S : T # {} => f[T] = visit[<<f[T \ {Max(T)}], busy, Max(T)>>]
    <2> SUFFICES ASSUME NEW T \in SUBSET S, T # {}
                 PROVE  f[T] = visit[<<f[T \ {Max(T)}], busy, Max(T)>>]
      OBVIOUS
    <2>1. f[T] = step[<<Max(T), f[T \ {Max(T)}]>>]
      BY <1>4 DEF IsFold
    <2>2. Max(T) \in S /\ f[T \ {Max(T)}] \in Seq(Tables)
      BY <1>1
    <2>3. QED
      BY <2>1, <2>2
  <1>6. f[{}] = order
    BY <1>4 DEF IsFold
  <1>7. Recursion(f)
    BY <1>5, <1>6
  <1>8. Recursion(chosen)
    <2> HIDE DEF Recursion
    <2>1. QED
      BY <1>7
  <1>9. VisitEach(visit, order, busy, S) = chosen[S]
    BY DEF VisitEach, MapThenFoldSet
  <1> HIDE DEF chosen
  <1>10. \A T \in SUBSET S :
            chosen[T] = IF T = {} THEN order
                        ELSE visit[<<chosen[T \ {Max(T)}], busy, Max(T)>>]
    BY <1>8
  <1>11. chosen \in [SUBSET S -> Seq(Tables)]
    <2> DEFINE P == {T \in SUBSET S : chosen[T] \in Seq(Tables)}
    <2>1. ASSUME NEW T \in SUBSET S, \A U \in SUBSET T : U # T => U \in P
          PROVE  T \in P
      <3>1. CASE T = {}
        BY <1>10, <3>1
      <3>2. CASE T # {}
        <4>1. Max(T) \in T
          BY <3>2, LastTable
        <4>2. T \ {Max(T)} \in SUBSET T /\ T \ {Max(T)} # T
          BY <4>1
        <4>3. chosen[T \ {Max(T)}] \in Seq(Tables)
          BY <2>1, <4>2
        <4>4. <<chosen[T \ {Max(T)}], busy, Max(T)>> \in Visits
          BY <4>1, <4>3 DEF Visits
        <4>5. QED
          BY <1>10, <3>2, <4>4
      <3>3. QED
        BY <3>1, <3>2
    <2>2. \A T \in SUBSET S : T \in P
      <3> HIDE DEF P
      <3>1. IsFiniteSet(S)
        BY FS_Subset
      <3>2. QED
        BY <2>1, <3>1, GrowingSets
    <2>3. QED
      BY <1>8, <2>2
  <1>12. VisitsEach(chosen, visit, order, busy, S)
    BY <1>9, <1>10, <1>11 DEF VisitsEach
  <1>13. QED
    BY <1>12

Order == OrderByDependency(Rebuilt(from, want), want)
Kin(t) == Parents(t, Rebuilt(from, want), want)

Sorted(order) ==
    /\ \A i \in 1 .. Len(order) : order[i] \in Rebuilt(from, want)
    /\ \A i, j \in 1 .. Len(order) : order[i] = order[j] => i = j
    /\ \A i \in 1 .. Len(order) : \A p \in Kin(order[i]) :
          \/ \E j \in 1 .. i - 1 : order[j] = p
          \/ Reaches(p, order[i], want)

(* What the visits of S add to an order, while busy are being visited.     *)
Adds(before, after, busy, S) ==
    /\ Sorted(after)
    /\ Range(before) \subseteq Range(after)
    /\ Range(after) \cap busy \subseteq Range(before)
    /\ S \subseteq Range(after) \cup busy

(* A visit with n visits to go does this, if n is enough for what is left. *)
Visiting(visit, n) ==
    \A order \in Seq(Tables), busy \in SUBSET Rebuilt(from, want), t \in Rebuilt(from, want) :
        /\ Sorted(order)
        /\ Cardinality(Rebuilt(from, want) \ busy) <= n
        /\ \A b \in busy : Reaches(b, t, want)
        => Adds(order, visit[<<order, busy, t>>], busy, {t})

LEMMA RebuiltAre == Rebuilt(from, want) \in SUBSET Tables
  BY DEF Rebuilt, Changed, Present

LEMMA ReachesItself == \A t \in Tables : Reaches(t, t, want)
  BY DEF Reaches

LEMMA ReachesFurther ==
    ASSUME NEW b, NEW t \in Rebuilt(from, want), NEW p \in Kin(t), Reaches(b, t, want)
    PROVE  Reaches(b, p, want)
  BY DEF Reaches, Kin, Parents

LEMMA EachAdds ==
    ASSUME NEW visit \in [Visits -> Seq(Tables)], NEW n \in Nat, Visiting(visit, n),
           NEW order \in Seq(Tables), NEW busy \in SUBSET Rebuilt(from, want),
           NEW S \in SUBSET Rebuilt(from, want),
           Sorted(order), Cardinality(Rebuilt(from, want) \ busy) <= n,
           \A b \in busy, t \in S : Reaches(b, t, want)
    PROVE  Adds(order, VisitEach(visit, order, busy, S), busy, S)
  <1>1. S \in SUBSET Tables /\ busy \in SUBSET Tables
    BY RebuiltAre
  <1>0. PICK f : VisitsEach(f, visit, order, busy, S)
    BY <1>1, VisitEachRuns
  <1>2. /\ f \in [SUBSET S -> Seq(Tables)]
        /\ VisitEach(visit, order, busy, S) = f[S]
        /\ \A T \in SUBSET S :
              f[T] = IF T = {} THEN order ELSE visit[<<f[T \ {Max(T)}], busy, Max(T)>>]
    BY <1>0 DEF VisitsEach
  <1> DEFINE P == {T \in SUBSET S : Adds(order, f[T], busy, T)}
  <1>3. ASSUME NEW T \in SUBSET S, \A U \in SUBSET T : U # T => U \in P
        PROVE  T \in P
    <2>1. CASE T = {}
      <3>1. f[T] = order
        BY <1>2, <2>1
      <3>2. QED
        BY <2>1, <3>1 DEF Adds
    <2>2. CASE T # {}
      <3> DEFINE t == Max(T)
                 U == T \ {t}
      <3>1. t \in T
        BY <1>1, <2>2, LastTable
      <3>2. f[T] = visit[<<f[U], busy, t>>]
        BY <1>2, <2>2
      <3> HIDE DEF t
      <3>3. U \in SUBSET T /\ U # T
        BY <3>1
      <3>4. Adds(order, f[U], busy, U)
        <4> HIDE DEF U
        <4>1. U \in P
          BY <1>3, <3>3
        <4>2. QED
          BY <4>1
      <3>5. f[U] \in Seq(Tables)
        BY <1>2, <3>3
      <3>6. T = U \cup {t}
        BY <3>1
      <3> HIDE DEF U
      <3>7. Sorted(f[U]) /\ t \in Rebuilt(from, want) /\ \A b \in busy : Reaches(b, t, want)
        BY <3>1, <3>4 DEF Adds
      <3>8. Adds(f[U], f[T], busy, {t})
        BY <3>2, <3>5, <3>7 DEF Visiting
      <3>9. QED
        BY <3>4, <3>6, <3>8 DEF Adds
    <2>3. QED
      BY <2>1, <2>2
  <1>4. \A T \in SUBSET S : T \in P
    <2> HIDE DEF P
    <2>1. IsFiniteSet(S)
      BY <1>1, FS_Subset
    <2>2. QED
      BY <1>3, <2>1, GrowingSets
  <1>5. QED
    BY <1>2, <1>4

(* The table itself comes last, and is new.                                *)
LEMMA LastIsSorted ==
    ASSUME NEW order \in Seq(Tables), Sorted(order), NEW t \in Rebuilt(from, want),
           t \notin Range(order),
           \A p \in Kin(t) : p \in Range(order) \/ Reaches(p, t, want)
    PROVE  /\ Sorted(Append(order, t))
           /\ Range(Append(order, t)) = Range(order) \cup {t}
  <1> DEFINE longer == Append(order, t)
             N == Len(order)
  <1>1. /\ N \in Nat /\ Len(longer) = N + 1
        /\ \A i \in 1 .. N : longer[i] = order[i]
        /\ longer[N + 1] = t
    BY RebuiltAre
  <1>2. Range(order) = {order[i] : i \in 1 .. N}
    BY DEF Range
  <1>3. longer \in Seq(Tables)
    BY RebuiltAre
  <1>4. Range(longer) = {longer[i] : i \in 1 .. N + 1}
    BY <1>1, <1>3 DEF Range
  <1> HIDE DEF longer
  <1>5. Range(longer) = Range(order) \cup {t}
    BY <1>1, <1>2, <1>4
  <1>6. \A i \in 1 .. N + 1 : longer[i] \in Rebuilt(from, want)
    BY <1>1 DEF Sorted
  <1>7. \A i, j \in 1 .. N + 1 : longer[i] = longer[j] => i = j
    <2>1. \A i \in 1 .. N : longer[i] # t
      BY <1>1, <1>2
    <2>2. \A i, j \in 1 .. N : longer[i] = longer[j] => i = j
      BY <1>1 DEF Sorted
    <2>3. QED
      BY <1>1, <2>1, <2>2
  <1>8. ASSUME NEW i \in 1 .. N + 1, NEW p \in Kin(longer[i])
        PROVE  (\E j \in 1 .. i - 1 : longer[j] = p) \/ Reaches(p, longer[i], want)
    <2>1. CASE i \in 1 .. N
      <3>1. longer[i] = order[i] /\ \A j \in 1 .. i - 1 : longer[j] = order[j]
        BY <1>1, <2>1
      <3>2. QED
        BY <1>8, <2>1, <3>1 DEF Sorted
    <2>2. CASE i = N + 1
      <3>1. longer[i] = t /\ 1 .. i - 1 = 1 .. N
        BY <1>1, <2>2
      <3>2. p \in Range(order) => \E j \in 1 .. N : longer[j] = p
        BY <1>1, <1>2
      <3>3. QED
        BY <1>8, <3>1, <3>2
    <2>3. QED
      BY <1>1, <2>1, <2>2
  <1>9. QED
    BY <1>1, <1>5, <1>6, <1>7, <1>8 DEF Sorted, longer

(* One visit more: of v, by way of visits that are shorter.                *)
Visited(visit, v) ==
    IF v[3] \in Range(v[1]) \cup v[2] THEN v[1]
    ELSE Append(VisitEach(visit, v[1], v[2] \cup {v[3]}, Kin(v[3])), v[3])

LEMMA VisitedIs ==
    ASSUME NEW visit \in [Visits -> Seq(Tables)]
    PROVE  [v \in Visits |-> Visited(visit, v)] \in [Visits -> Seq(Tables)]
  <1> SUFFICES ASSUME NEW v \in Visits PROVE Visited(visit, v) \in Seq(Tables)
    OBVIOUS
  <1>1. v[1] \in Seq(Tables) /\ v[2] \in SUBSET Tables /\ v[3] \in Tables
    BY DEF Visits
  <1>2. v[2] \cup {v[3]} \in SUBSET Tables /\ Kin(v[3]) \in SUBSET Tables
    BY <1>1, RebuiltAre DEF Kin, Parents
  <1>3. PICK f : VisitsEach(f, visit, v[1], v[2] \cup {v[3]}, Kin(v[3]))
    BY <1>1, <1>2, VisitEachRuns
  <1>4. VisitEach(visit, v[1], v[2] \cup {v[3]}, Kin(v[3])) \in Seq(Tables)
    BY <1>3 DEF VisitsEach
  <1>5. QED
    BY <1>1, <1>4 DEF Visited

VisitsTo(visit, N) ==
    /\ visit[0] = [v \in Visits |-> v[1]]
    /\ \A n \in 1 .. N : visit[n] = [v \in Visits |-> Visited(visit[n - 1], v)]
    /\ \A n \in 0 .. N : visit[n] \in [Visits -> Seq(Tables)]

LEMMA VisitsExist ==
    \E visit : VisitsTo(visit, Cardinality(Tables))
               /\ Order = VisitEach(visit[Cardinality(Tables)], <<>>, {}, Rebuilt(from, want))
  <1> DEFINE N == Cardinality(Tables)
             V == [Visits -> Seq(Tables)]
             base == [v \in Visits |-> v[1]]
             step == [visit \in V |-> [v \in Visits |-> Visited(visit, v)]]
             Recursion(g) ==
               g = [depth \in 0 .. N |->
                      [v \in Visits |->
                         IF depth = 0 \/ v[3] \in Range(v[1]) \cup v[2] THEN v[1]
                         ELSE Append(VisitEach(g[depth - 1], v[1], v[2] \cup {v[3]},
                                               Parents(v[3], Rebuilt(from, want), want)),
                                     v[3])]]
             chosen == CHOOSE g : Recursion(g)
  <1>1. N \in Nat
    BY FS_CardinalityType
  <1>2. base \in V
    BY DEF Visits
  <1>3. step \in [V -> V]
    BY VisitedIs
  <1>4. \E f : IsIteration(f, V, base, step, N)
    <2> HIDE DEF N, V, base, step
    <2>1. QED
      BY <1>1, <1>2, <1>3, Iterates
  <1>5. PICK f \in [0 .. N -> V] : f[0] = base /\ \A n \in 1 .. N : f[n] = step[f[n - 1]]
    BY <1>4 DEF IsIteration
  <1>6. Recursion(f)
    <2>1. ASSUME NEW depth \in 0 .. N
          PROVE  f[depth] = [v \in Visits |->
                         IF depth = 0 \/ v[3] \in Range(v[1]) \cup v[2] THEN v[1]
                         ELSE Append(VisitEach(f[depth - 1], v[1], v[2] \cup {v[3]},
                                               Parents(v[3], Rebuilt(from, want), want)),
                                     v[3])]
      <3>1. CASE depth = 0
        BY <1>5, <3>1
      <3>2. CASE depth # 0
        <4>1. depth \in 1 .. N /\ depth - 1 \in 0 .. N
          BY <1>1, <3>2
        <4>2. f[depth] = [v \in Visits |-> Visited(f[depth - 1], v)]
          BY <1>5, <4>1
        <4>3. QED
          BY <3>2, <4>2 DEF Visited, Kin
      <3>3. QED
        BY <3>1, <3>2
    <2>2. QED
      BY <1>5, <2>1
  <1>7. Recursion(chosen)
    <2> HIDE DEF Recursion
    <2>1. QED
      BY <1>6
  <1>8. Order = VisitEach(chosen[N], <<>>, {}, Rebuilt(from, want))
    BY DEF Order, OrderByDependency, Visits
  <1> HIDE DEF chosen
  <1>9. chosen[0] = base
    BY <1>1, <1>7
  <1>10. \A n \in 1 .. N : chosen[n] = [v \in Visits |-> Visited(chosen[n - 1], v)]
    <2> SUFFICES ASSUME NEW n \in 1 .. N
                 PROVE  chosen[n] = [v \in Visits |-> Visited(chosen[n - 1], v)]
      OBVIOUS
    <2>1. n \in 0 .. N /\ n # 0
      BY <1>1
    <2>2. QED
      BY <1>7, <2>1 DEF Visited, Kin
  <1>11. \A n \in 0 .. N : chosen[n] \in V
    <2> DEFINE P == {n \in Nat : n \in 0 .. N => chosen[n] \in V}
    <2>1. 0 \in P
      BY <1>2, <1>9
    <2>2. ASSUME NEW n \in P PROVE n + 1 \in P
      <3>1. CASE n + 1 \in 0 .. N
        <4>1. n \in 0 .. N /\ n + 1 \in 1 .. N /\ (n + 1) - 1 = n
          BY <1>1, <3>1
        <4>2. n + 1 \in Nat /\ chosen[n] \in V
          BY <4>1
        <4>3. chosen[n + 1] = [v \in Visits |-> Visited(chosen[n], v)]
          BY <1>10, <4>1
        <4>4. QED
          BY <4>2, <4>3, VisitedIs
      <3>2. QED
        BY <3>1
    <2>3. P = Nat
      <3> HIDE DEF P
      <3>1. P \in SUBSET Nat
        BY DEF P
      <3>2. QED
        BY <2>1, <2>2, <3>1, CountingUp
    <2>4. QED
      BY <1>1, <2>3
  <1>12. VisitsTo(chosen, N)
    BY <1>9, <1>10, <1>11 DEF VisitsTo
  <1>13. QED
    BY <1>8, <1>12

(* Whoever is being visited leads to the table that is visited now, so     *)
(* that a parent that is not waited for closes a cycle.                    *)
LEMMA VisitsAdd ==
    ASSUME NEW visit, NEW N \in Nat, VisitsTo(visit, N)
    PROVE  \A n \in 0 .. N : Visiting(visit[n], n)
  <1> DEFINE P == {n \in Nat : n \in 0 .. N => Visiting(visit[n], n)}
             R == Rebuilt(from, want)
  <1>0. IsFiniteSet(R) /\ R \in SUBSET Tables
    BY RebuiltAre, FS_Subset
  <1> HIDE DEF R
  <1>1. 0 \in P
    <2>1. ASSUME NEW order \in Seq(Tables), NEW busy \in SUBSET R, NEW t \in R,
                 Sorted(order), Cardinality(R \ busy) <= 0
          PROVE  Adds(order, visit[0][<<order, busy, t>>], busy, {t})
      <3>1. t \in busy
        <4>1. IsFiniteSet(R \ busy)
          BY <1>0, FS_Subset
        <4>2. Cardinality(R \ busy) = 0
          BY <2>1, <4>1, FS_CardinalityType
        <4>3. R \ busy = {}
          BY <4>1, <4>2, FS_EmptySet
        <4>4. QED
          BY <4>3
      <3>2. <<order, busy, t>> \in Visits
        BY <1>0 DEF Visits
      <3>3. visit[0][<<order, busy, t>>] = order
        BY <3>2 DEF VisitsTo
      <3>4. QED
        BY <2>1, <3>1, <3>3 DEF Adds
    <2>2. QED
      BY <2>1 DEF Visiting, R
  <1>2. ASSUME NEW n \in P PROVE n + 1 \in P
    <2>1. SUFFICES ASSUME n + 1 \in 0 .. N PROVE Visiting(visit[n + 1], n + 1)
      OBVIOUS
    <2>2. n \in Nat /\ n \in 0 .. N /\ n + 1 \in 1 .. N
      BY <2>1
    <2>3. Visiting(visit[n], n) /\ visit[n] \in [Visits -> Seq(Tables)]
      BY <1>2, <2>2 DEF VisitsTo
    <2>4. visit[n + 1] = [v \in Visits |-> Visited(visit[n], v)]
      <3>1. (n + 1) - 1 = n
        BY <2>2
      <3>2. QED
        BY <2>2, <3>1 DEF VisitsTo
    <2> HIDE DEF P
    <2>5. ASSUME NEW order \in Seq(Tables), NEW busy \in SUBSET R, NEW t \in R,
                 Sorted(order), Cardinality(R \ busy) <= n + 1,
                 \A b \in busy : Reaches(b, t, want)
          PROVE  Adds(order, visit[n + 1][<<order, busy, t>>], busy, {t})
      <3>1. <<order, busy, t>> \in Visits
        BY <1>0 DEF Visits
      <3>2. visit[n + 1][<<order, busy, t>>] = Visited(visit[n], <<order, busy, t>>)
        BY <2>4, <3>1
      <3>3. CASE t \in Range(order) \cup busy
        <4>1. visit[n + 1][<<order, busy, t>>] = order
          BY <3>2, <3>3 DEF Visited
        <4>2. QED
          BY <2>5, <3>3, <4>1 DEF Adds
      <3>4. CASE t \notin Range(order) \cup busy
        <4> DEFINE more == busy \cup {t}
                   before == VisitEach(visit[n], order, more, Kin(t))
        <4>1. visit[n + 1][<<order, busy, t>>] = Append(before, t)
          BY <3>2, <3>4 DEF Visited
        <4>2. more \in SUBSET R /\ Kin(t) \in SUBSET R
          BY <1>0 DEF R, Kin, Parents
        <4>3. Cardinality(R \ more) <= n
          <5>1. IsFiniteSet(R \ busy) /\ Cardinality(R \ busy) \in Nat
            BY <1>0, FS_Subset, FS_CardinalityType
          <5>2. R \ more = (R \ busy) \ {t} /\ t \in R \ busy
            BY <3>4
          <5>3. Cardinality(R \ more) = Cardinality(R \ busy) - 1
            <6> DEFINE S == R \ busy
            <6>1. IsFiniteSet(S) /\ t \in S /\ R \ more = S \ {t}
              BY <5>1, <5>2
            <6> HIDE DEF S
            <6>2. Cardinality(S \ {t}) = Cardinality(S) - 1
              BY <6>1, FS_RemoveElement
            <6>3. QED
              BY <6>1, <6>2 DEF S
          <5>4. QED
            BY <2>2, <2>5, <5>1, <5>3
        <4>4. \A b \in more, p \in Kin(t) : Reaches(b, p, want)
          <5>1. Reaches(t, t, want)
            BY <1>0, ReachesItself
          <5>2. QED
            BY <2>5, <5>1, ReachesFurther DEF R
        <4> HIDE DEF more
        <4>5. Adds(order, before, more, Kin(t))
          BY <2>2, <2>3, <2>5, <4>2, <4>3, <4>4, EachAdds DEF R
        <4>6. before \in Seq(Tables)
          <5>1. more \in SUBSET Tables /\ Kin(t) \in SUBSET Tables
            BY <1>0, <4>2
          <5>2. PICK f : VisitsEach(f, visit[n], order, more, Kin(t))
            BY <2>3, <5>1, VisitEachRuns
          <5>3. QED
            BY <5>2 DEF VisitsEach
        <4> HIDE DEF before
        <4>7. t \notin Range(before)
          BY <3>4, <4>5 DEF Adds, more
        <4>8. \A p \in Kin(t) : p \in Range(before) \/ Reaches(p, t, want)
          <5>1. \A p \in Kin(t) : p # t
            BY DEF Kin, Parents
          <5>2. QED
            BY <2>5, <4>5, <5>1 DEF Adds, more
        <4>9. /\ Sorted(Append(before, t))
              /\ Range(Append(before, t)) = Range(before) \cup {t}
          BY <4>5, <4>6, <4>7, <4>8, LastIsSorted DEF Adds, R
        <4>10. QED
          BY <3>4, <4>1, <4>5, <4>9 DEF Adds, more
      <3>5. QED
        BY <3>3, <3>4
    <2>6. QED
      BY <2>5 DEF Visiting, R
  <1>3. P = Nat
    <2> HIDE DEF P
    <2>1. P \in SUBSET Nat
      BY DEF P
    <2>2. QED
      BY <1>1, <1>2, <2>1, CountingUp
  <1>4. QED
    BY <1>3

(* The order lists each rebuilt table once, and parents first.             *)
LEMMA OrderIs == Order \in Seq(Tables) /\ Sorted(Order) /\ Range(Order) = Rebuilt(from, want)
  <1> DEFINE N == Cardinality(Tables)
             R == Rebuilt(from, want)
  <1>1. N \in Nat /\ Cardinality(R \ {}) <= N /\ R \in SUBSET Tables
    BY RebuiltAre, FS_CardinalityType, FS_Subset
  <1>2. PICK visit : VisitsTo(visit, N) /\ Order = VisitEach(visit[N], <<>>, {}, R)
    BY VisitsExist
  <1>3. N \in 0 .. N
    BY <1>1
  <1> HIDE DEF N
  <1>4. Visiting(visit[N], N) /\ visit[N] \in [Visits -> Seq(Tables)]
    BY <1>1, <1>2, <1>3, VisitsAdd DEF VisitsTo
  <1>5. <<>> \in Seq(Tables) /\ {} \in SUBSET Tables /\ {} \in SUBSET R
    OBVIOUS
  <1>6. Sorted(<<>>)
    BY DEF Sorted
  <1>7. Adds(<<>>, Order, {}, R)
    BY <1>1, <1>2, <1>4, <1>5, <1>6, EachAdds
  <1>8. PICK f : VisitsEach(f, visit[N], <<>>, {}, R)
    BY <1>1, <1>4, <1>5, VisitEachRuns
  <1>9. Order \in Seq(Tables)
    BY <1>2, <1>8 DEF VisitsEach
  <1>10. Range(Order) \subseteq R
    BY <1>7, <1>9 DEF Adds, Sorted, Range
  <1>11. QED
    BY <1>7, <1>9, <1>10 DEF Adds

-----------------------------------------------------------------------------
(***************************************************************************)
(* The script: which statements there are, and where each stands.          *)
(***************************************************************************)
Was(t) == from.tables[t]
Becomes(t) == want.tables[t]

Script == Direct(from, want) \cup Statements(from, want)

Position(t) == CHOOSE n \in 1 .. Len(Order) : Order[n] = t

Wanted(op, x, i) ==
    \/ /\ op = "addColumns" /\ i = 0 /\ x \in Altered(from, want)
       /\ AddedColumns(Was(x), Becomes(x)) # {}
    \/ op = "createIndex" /\ x \in Altered(from, want) /\ i \in NewIndexes(Was(x), Becomes(x))
    \/ op = "dropIndex" /\ x \in Altered(from, want) /\ i \in OldIndexes(Was(x), Becomes(x))
    \/ op = "createTable" /\ i = 0 /\ x \in Added(from, want)
    \/ op = "createIndex" /\ x \in Added(from, want) /\ i \in IndexesOf(Becomes(x))
    \/ op = "dropTable" /\ i = 0 /\ x \in Removed(from, want)
    \/ op = "dropObject" /\ i = 0 /\ x \in Dropped(from, want)
    \/ /\ op \in {"createNew", "copy", "dropTable", "rename"}
       /\ i = 0 /\ x \in Rebuilt(from, want)
    \/ op = "carry" /\ i = 0 /\ x \in Rebuilt(from, want) /\ Becomes(x).auto
    \/ op = "createIndex" /\ x \in Rebuilt(from, want) /\ i \in IndexesOf(Becomes(x))
    \/ op = "createObject" /\ i = 0 /\ x \in Recreated(from, want)

PhaseOf(op, x) ==
    CASE op = "addColumns" -> 1
      [] op \in {"createIndex", "dropIndex"} ->
            IF x \in Altered(from, want) THEN 2 ELSE IF x \in Added(from, want) THEN 3 ELSE 9
      [] op = "createTable" -> 3
      [] op = "dropTable" -> IF x \in Removed(from, want) THEN 4 ELSE 8
      [] op = "dropObject" -> IF x \in Triggers THEN 5 ELSE 6
      [] op \in {"createNew", "copy", "carry"} -> 7
      [] op = "rename" -> 8
      [] op = "createObject" -> IF x \in Views THEN 10 ELSE 11

PlaceOf(x) ==
    IF x \in Objects THEN 0 ELSE IF x \in Rebuilt(from, want) THEN Position(x) ELSE x

StepOf(op, x) ==
    CASE op \in {"copy", "rename", "dropIndex"} -> 1
      [] op = "carry" -> 2
      [] op = "createIndex" -> IF x \in Added(from, want) THEN 1 ELSE 0
      [] OTHER -> 0

StatementOf(op, x, i) == Statement(PhaseOf(op, x), PlaceOf(x), StepOf(op, x), op, x, i)

LEMMA Classes ==
    /\ Altered(from, want) \cup Added(from, want) \cup Removed(from, want)
         \cup Rebuilt(from, want) \subseteq Tables
    /\ Altered(from, want) \cap Added(from, want) = {}
    /\ Altered(from, want) \cap Removed(from, want) = {}
    /\ Altered(from, want) \cap Rebuilt(from, want) = {}
    /\ Added(from, want) \cap Removed(from, want) = {}
    /\ Added(from, want) \cap Rebuilt(from, want) = {}
    /\ Removed(from, want) \cap Rebuilt(from, want) = {}
  BY DEF Altered, Added, Removed, Rebuilt, Changed, Present

LEMMA Positions ==
    /\ \A t \in Rebuilt(from, want) :
          Position(t) \in 1 .. Len(Order) /\ Order[Position(t)] = t
    /\ \A n \in 1 .. Len(Order) : Order[n] \in Rebuilt(from, want) /\ Position(Order[n]) = n
    /\ DOMAIN Order = 1 .. Len(Order) /\ Len(Order) \in Nat
  <1>1. DOMAIN Order = 1 .. Len(Order) /\ Len(Order) \in Nat
    BY OrderIs
  <1>2. \A t \in Rebuilt(from, want) : \E n \in 1 .. Len(Order) : Order[n] = t
    BY <1>1, OrderIs DEF Range
  <1>3. \A n \in 1 .. Len(Order) : Order[n] \in Rebuilt(from, want)
    BY OrderIs DEF Sorted
  <1>4. \A n, m \in 1 .. Len(Order) : Order[n] = Order[m] => n = m
    BY OrderIs DEF Sorted
  <1>5. QED
    BY <1>1, <1>2, <1>3, <1>4 DEF Position

LEMMA DroppedAre == /\ Dropped(from, want) \subseteq Objects
                    /\ Recreated(from, want) \subseteq Dropped(from, want)
  BY DEF Dropped, Recreated, Affected

(* Where the statements of a table stand.                                  *)
LEMMA Places ==
    /\ \A x \in Altered(from, want) \cup Added(from, want) \cup Removed(from, want) :
          PlaceOf(x) = x
    /\ \A n \in 1 .. Len(Order) : PlaceOf(Order[n]) = n
    /\ \A x \in Dropped(from, want) : PlaceOf(x) = 0
  BY Classes, Positions, DroppedAre DEF PlaceOf

LEMMA DirectAre ==
    \A s : s \in Direct(from, want) <=>
        \/ \E t \in Altered(from, want) :
              /\ AddedColumns(Was(t), Becomes(t)) # {}
              /\ s = Statement(1, t, 0, "addColumns", t, 0)
        \/ \E t \in Altered(from, want) : \E i \in NewIndexes(Was(t), Becomes(t)) :
              s = Statement(2, t, 0, "createIndex", t, i)
        \/ \E t \in Altered(from, want) : \E i \in OldIndexes(Was(t), Becomes(t)) :
              s = Statement(2, t, 1, "dropIndex", t, i)
        \/ \E t \in Added(from, want) : s = Statement(3, t, 0, "createTable", t, 0)
        \/ \E t \in Added(from, want) : \E i \in IndexesOf(Becomes(t)) :
              s = Statement(3, t, 1, "createIndex", t, i)
        \/ \E t \in Removed(from, want) : s = Statement(4, t, 0, "dropTable", t, 0)
  <1> DEFINE b(t) == from.tables[t]
             a(t) == want.tables[t]
             each(phase, op, T) == {Statement(phase, t, 0, op, t, 0) : t \in T}
             A1 == each(1, "addColumns",
                        {t \in Altered(from, want) : AddedColumns(b(t), a(t)) # {}})
             A2 == UNION {OnIndexes(2, t, 0, "createIndex", t, NewIndexes(b(t), a(t))) :
                            t \in Altered(from, want)}
             A3 == UNION {OnIndexes(2, t, 1, "dropIndex", t, OldIndexes(b(t), a(t))) :
                            t \in Altered(from, want)}
             A4 == each(3, "createTable", Added(from, want))
             A5 == UNION {OnIndexes(3, t, 1, "createIndex", t, IndexesOf(a(t))) :
                            t \in Added(from, want)}
             A6 == each(4, "dropTable", Removed(from, want))
  <1>1. Direct(from, want) = A1 \cup A2 \cup A3 \cup A4 \cup A5 \cup A6
    BY Zenon DEF Direct
  <1>2. \A s : s \in A1 <=> \E t \in Altered(from, want) :
                               /\ AddedColumns(Was(t), Becomes(t)) # {}
                               /\ s = Statement(1, t, 0, "addColumns", t, 0)
    BY DEF Was, Becomes
  <1>3. \A s : s \in A2 <=> \E t \in Altered(from, want) :
                               \E i \in NewIndexes(Was(t), Becomes(t)) :
                                 s = Statement(2, t, 0, "createIndex", t, i)
    BY DEF OnIndexes, Was, Becomes
  <1>4. \A s : s \in A3 <=> \E t \in Altered(from, want) :
                               \E i \in OldIndexes(Was(t), Becomes(t)) :
                                 s = Statement(2, t, 1, "dropIndex", t, i)
    BY DEF OnIndexes, Was, Becomes
  <1>5. \A s : s \in A4 <=> \E t \in Added(from, want) :
                               s = Statement(3, t, 0, "createTable", t, 0)
    BY DEF Was, Becomes
  <1>6. \A s : s \in A5 <=> \E t \in Added(from, want) :
                               \E i \in IndexesOf(Becomes(t)) :
                                 s = Statement(3, t, 1, "createIndex", t, i)
    BY DEF OnIndexes, Was, Becomes
  <1>7. \A s : s \in A6 <=> \E t \in Removed(from, want) :
                               s = Statement(4, t, 0, "dropTable", t, 0)
    BY DEF Was, Becomes
  <1> HIDE DEF A1, A2, A3, A4, A5, A6, b, a, each
  <1>8. \A s : s \in Direct(from, want) <=> \/ s \in A1 \/ s \in A2 \/ s \in A3
                                            \/ s \in A4 \/ s \in A5 \/ s \in A6
    BY <1>1
  <1>9. QED
    BY <1>2, <1>3, <1>4, <1>5, <1>6, <1>7, <1>8

LEMMA StatementsAre ==
    \A s : s \in Statements(from, want) <=>
        \/ \E o \in Dropped(from, want) \cap Triggers : s = Statement(5, 0, 0, "dropObject", o, 0)
        \/ \E o \in Dropped(from, want) \cap Views : s = Statement(6, 0, 0, "dropObject", o, 0)
        \/ \E n \in 1 .. Len(Order) : s = Statement(7, n, 0, "createNew", Order[n], 0)
        \/ \E n \in 1 .. Len(Order) : s = Statement(7, n, 1, "copy", Order[n], 0)
        \/ \E n \in 1 .. Len(Order) :
              Becomes(Order[n]).auto /\ s = Statement(7, n, 2, "carry", Order[n], 0)
        \/ \E n \in 1 .. Len(Order) : s = Statement(8, n, 0, "dropTable", Order[n], 0)
        \/ \E n \in 1 .. Len(Order) : s = Statement(8, n, 1, "rename", Order[n], 0)
        \/ \E n \in 1 .. Len(Order) : \E i \in IndexesOf(Becomes(Order[n])) :
              s = Statement(9, n, 0, "createIndex", Order[n], i)
        \/ \E o \in Recreated(from, want) \cap Views :
              s = Statement(10, 0, 0, "createObject", o, 0)
        \/ \E o \in Recreated(from, want) \cap Triggers :
              s = Statement(11, 0, 0, "createObject", o, 0)
  <1> DEFINE places == 1 .. Len(Order)
             a(n) == want.tables[Order[n]]
             each(phase, step, op, S) == {Statement(phase, n, step, op, Order[n], 0) : n \in S}
             objects(phase, op, S) == {Statement(phase, 0, 0, op, o, 0) : o \in S}
             A1 == objects(5, "dropObject", Dropped(from, want) \cap Triggers)
             A2 == objects(6, "dropObject", Dropped(from, want) \cap Views)
             A3 == each(7, 0, "createNew", places)
             A4 == each(7, 1, "copy", places)
             A5 == each(7, 2, "carry", {n \in places : a(n).auto})
             A6 == each(8, 0, "dropTable", places)
             A7 == each(8, 1, "rename", places)
             A8 == UNION {OnIndexes(9, n, 0, "createIndex", Order[n], IndexesOf(a(n))) :
                            n \in places}
             A9 == objects(10, "createObject", Recreated(from, want) \cap Views)
             A10 == objects(11, "createObject", Recreated(from, want) \cap Triggers)
             E1(s) == \E o \in Dropped(from, want) \cap Triggers :
                         s = Statement(5, 0, 0, "dropObject", o, 0)
             E2(s) == \E o \in Dropped(from, want) \cap Views :
                         s = Statement(6, 0, 0, "dropObject", o, 0)
             E3(s) == \E n \in places : s = Statement(7, n, 0, "createNew", Order[n], 0)
             E4(s) == \E n \in places : s = Statement(7, n, 1, "copy", Order[n], 0)
             E5(s) == \E n \in places :
                         Becomes(Order[n]).auto /\ s = Statement(7, n, 2, "carry", Order[n], 0)
             E6(s) == \E n \in places : s = Statement(8, n, 0, "dropTable", Order[n], 0)
             E7(s) == \E n \in places : s = Statement(8, n, 1, "rename", Order[n], 0)
             E8(s) == \E n \in places : \E i \in IndexesOf(Becomes(Order[n])) :
                         s = Statement(9, n, 0, "createIndex", Order[n], i)
             E9(s) == \E o \in Recreated(from, want) \cap Views :
                         s = Statement(10, 0, 0, "createObject", o, 0)
             E10(s) == \E o \in Recreated(from, want) \cap Triggers :
                         s = Statement(11, 0, 0, "createObject", o, 0)
  <1>1. Statements(from, want) = A1 \cup A2 \cup A3 \cup A4 \cup A5 \cup A6 \cup A7 \cup A8
                                   \cup A9 \cup A10
    BY Positions, Zenon DEF Statements, Order
  <1>2. \A s : s \in A8 <=> E8(s)
    <2> DEFINE B(n) == OnIndexes(9, n, 0, "createIndex", Order[n], IndexesOf(Becomes(Order[n])))
    <2>1. \A s : s \in A8 <=> \E n \in places : s \in B(n)
      BY DEF Becomes
    <2>2. \A n : \A s : s \in B(n) <=> \E i \in IndexesOf(Becomes(Order[n])) :
                               s = Statement(9, n, 0, "createIndex", Order[n], i)
      BY Zenon DEF OnIndexes
    <2> HIDE DEF A8, B
    <2>3. QED
      BY <2>1, <2>2, ZenonT(40)
  <1>3. \A s : s \in A5 <=> E5(s)
    BY DEF Becomes
  <1>4. /\ \A s : s \in A3 <=> E3(s)
        /\ \A s : s \in A4 <=> E4(s)
        /\ \A s : s \in A6 <=> E6(s)
        /\ \A s : s \in A7 <=> E7(s)
    OBVIOUS
  <1>5. /\ \A s : s \in A1 <=> E1(s)
        /\ \A s : s \in A2 <=> E2(s)
        /\ \A s : s \in A9 <=> E9(s)
        /\ \A s : s \in A10 <=> E10(s)
    OBVIOUS
  <1> HIDE DEF A1, A2, A3, A4, A5, A6, A7, A8, A9, A10
  <1>6. \A s : s \in Statements(from, want) <=>
            \/ s \in A1 \/ s \in A2 \/ s \in A3 \/ s \in A4 \/ s \in A5
            \/ s \in A6 \/ s \in A7 \/ s \in A8 \/ s \in A9 \/ s \in A10
    BY <1>1
  <1> HIDE DEF each, objects, a, E1, E2, E3, E4, E5, E6, E7, E8, E9, E10
  <1>7. \A s : s \in Statements(from, want) <=>
            \/ E1(s) \/ E2(s) \/ E3(s) \/ E4(s) \/ E5(s)
            \/ E6(s) \/ E7(s) \/ E8(s) \/ E9(s) \/ E10(s)
    BY <1>2, <1>3, <1>4, <1>5, <1>6
  <1>8. QED
    BY <1>7, Zenon DEF E1, E2, E3, E4, E5, E6, E7, E8, E9, E10

(* Where the statements of a table, of an index and of an object stand.    *)
LEMMA Stands ==
    /\ \A t \in Altered(from, want) : \A i :
          /\ StatementOf("addColumns", t, i) = Statement(1, t, 0, "addColumns", t, i)
          /\ StatementOf("createIndex", t, i) = Statement(2, t, 0, "createIndex", t, i)
          /\ StatementOf("dropIndex", t, i) = Statement(2, t, 1, "dropIndex", t, i)
    /\ \A t \in Added(from, want) : \A i :
          /\ StatementOf("createTable", t, i) = Statement(3, t, 0, "createTable", t, i)
          /\ StatementOf("createIndex", t, i) = Statement(3, t, 1, "createIndex", t, i)
    /\ \A t \in Removed(from, want) : \A i :
          StatementOf("dropTable", t, i) = Statement(4, t, 0, "dropTable", t, i)
    /\ \A t \in Rebuilt(from, want) : \A i :
          /\ StatementOf("createNew", t, i) = Statement(7, Position(t), 0, "createNew", t, i)
          /\ StatementOf("copy", t, i) = Statement(7, Position(t), 1, "copy", t, i)
          /\ StatementOf("carry", t, i) = Statement(7, Position(t), 2, "carry", t, i)
          /\ StatementOf("dropTable", t, i) = Statement(8, Position(t), 0, "dropTable", t, i)
          /\ StatementOf("rename", t, i) = Statement(8, Position(t), 1, "rename", t, i)
          /\ StatementOf("createIndex", t, i) = Statement(9, Position(t), 0, "createIndex", t, i)
    /\ \A o \in Triggers : \A i :
          /\ StatementOf("dropObject", o, i) = Statement(5, 0, 0, "dropObject", o, i)
          /\ StatementOf("createObject", o, i) = Statement(11, 0, 0, "createObject", o, i)
    /\ \A o \in Views : \A i :
          /\ StatementOf("dropObject", o, i) = Statement(6, 0, 0, "dropObject", o, i)
          /\ StatementOf("createObject", o, i) = Statement(10, 0, 0, "createObject", o, i)
  <1>1. ASSUME NEW t \in Altered(from, want) PROVE
          /\ PlaceOf(t) = t
          /\ PhaseOf("addColumns", t) = 1 /\ StepOf("addColumns", t) = 0
          /\ PhaseOf("createIndex", t) = 2 /\ StepOf("createIndex", t) = 0
          /\ PhaseOf("dropIndex", t) = 2 /\ StepOf("dropIndex", t) = 1
    BY Classes, Places DEF PhaseOf, StepOf
  <1>2. ASSUME NEW t \in Added(from, want) PROVE
          /\ PlaceOf(t) = t
          /\ PhaseOf("createTable", t) = 3 /\ StepOf("createTable", t) = 0
          /\ PhaseOf("createIndex", t) = 3 /\ StepOf("createIndex", t) = 1
    BY Classes, Places DEF PhaseOf, StepOf
  <1>3. ASSUME NEW t \in Removed(from, want) PROVE
          PlaceOf(t) = t /\ PhaseOf("dropTable", t) = 4 /\ StepOf("dropTable", t) = 0
    BY Classes, Places DEF PhaseOf, StepOf
  <1>4. ASSUME NEW t \in Rebuilt(from, want) PROVE
          /\ PlaceOf(t) = Position(t)
          /\ PhaseOf("createNew", t) = 7 /\ StepOf("createNew", t) = 0
          /\ PhaseOf("copy", t) = 7 /\ StepOf("copy", t) = 1
          /\ PhaseOf("carry", t) = 7 /\ StepOf("carry", t) = 2
          /\ PhaseOf("dropTable", t) = 8 /\ StepOf("dropTable", t) = 0
          /\ PhaseOf("rename", t) = 8 /\ StepOf("rename", t) = 1
          /\ PhaseOf("createIndex", t) = 9 /\ StepOf("createIndex", t) = 0
    BY Classes, Positions DEF PhaseOf, StepOf, PlaceOf
  <1>5. ASSUME NEW o \in Triggers PROVE
          /\ PlaceOf(o) = 0
          /\ PhaseOf("dropObject", o) = 5 /\ StepOf("dropObject", o) = 0
          /\ PhaseOf("createObject", o) = 11 /\ StepOf("createObject", o) = 0
    BY DEF PhaseOf, StepOf, PlaceOf, Objects
  <1>6. ASSUME NEW o \in Views PROVE
          /\ PlaceOf(o) = 0
          /\ PhaseOf("dropObject", o) = 6 /\ StepOf("dropObject", o) = 0
          /\ PhaseOf("createObject", o) = 10 /\ StepOf("createObject", o) = 0
    BY DEF PhaseOf, StepOf, PlaceOf, Objects
  <1>7. QED
    BY <1>1, <1>2, <1>3, <1>4, <1>5, <1>6, Zenon DEF StatementOf

(* Direct and Statements list what is wanted, each where it stands.        *)
LEMMA ScriptHas ==
    \A op, x, i : Wanted(op, x, i) => StatementOf(op, x, i) \in Script
  <1> SUFFICES ASSUME NEW op, NEW x, NEW i, Wanted(op, x, i)
               PROVE  StatementOf(op, x, i) \in Direct(from, want) \cup Statements(from, want)
    BY DEF Script
  <1>1. CASE /\ op = "addColumns" /\ i = 0 /\ x \in Altered(from, want)
             /\ AddedColumns(Was(x), Becomes(x)) # {}
    BY <1>1, Stands, DirectAre
  <1>2. CASE op = "createIndex" /\ x \in Altered(from, want) /\ i \in NewIndexes(Was(x), Becomes(x))
    BY <1>2, Stands, DirectAre
  <1>3. CASE op = "dropIndex" /\ x \in Altered(from, want) /\ i \in OldIndexes(Was(x), Becomes(x))
    BY <1>3, Stands, DirectAre
  <1>4. CASE op = "createTable" /\ i = 0 /\ x \in Added(from, want)
    BY <1>4, Stands, DirectAre
  <1>5. CASE op = "createIndex" /\ x \in Added(from, want) /\ i \in IndexesOf(Becomes(x))
    BY <1>5, Stands, DirectAre
  <1>6. CASE op = "dropTable" /\ i = 0 /\ x \in Removed(from, want)
    BY <1>6, Stands, DirectAre
  <1>7. CASE op = "dropObject" /\ i = 0 /\ x \in Dropped(from, want)
    BY <1>7, Stands, StatementsAre, DroppedAre DEF Objects
  <1>8. CASE op \in {"createNew", "copy", "dropTable", "rename"} /\ i = 0 /\ x \in Rebuilt(from, want)
    <2> DEFINE n == Position(x)
    <2>1. n \in 1 .. Len(Order) /\ Order[n] = x
      BY <1>8, Positions
    <2>2. /\ StatementOf("createNew", x, 0) = Statement(7, n, 0, "createNew", x, 0)
          /\ StatementOf("copy", x, 0) = Statement(7, n, 1, "copy", x, 0)
          /\ StatementOf("dropTable", x, 0) = Statement(8, n, 0, "dropTable", x, 0)
          /\ StatementOf("rename", x, 0) = Statement(8, n, 1, "rename", x, 0)
      BY <1>8, Stands
    <2> HIDE DEF n
    <2>3. QED
      BY <1>8, <2>1, <2>2, StatementsAre
  <1>9. CASE op = "carry" /\ i = 0 /\ x \in Rebuilt(from, want) /\ Becomes(x).auto
    <2> DEFINE n == Position(x)
    <2>1. n \in 1 .. Len(Order) /\ Order[n] = x
      BY <1>9, Positions
    <2>2. StatementOf("carry", x, 0) = Statement(7, n, 2, "carry", x, 0)
      BY <1>9, Stands
    <2> HIDE DEF n
    <2>3. QED
      BY <1>9, <2>1, <2>2, StatementsAre
  <1>10. CASE op = "createIndex" /\ x \in Rebuilt(from, want) /\ i \in IndexesOf(Becomes(x))
    <2> DEFINE n == Position(x)
    <2>1. n \in 1 .. Len(Order) /\ Order[n] = x
      BY <1>10, Positions
    <2>2. StatementOf("createIndex", x, i) = Statement(9, n, 0, "createIndex", x, i)
      BY <1>10, Stands
    <2> HIDE DEF n
    <2>3. QED
      BY <1>10, <2>1, <2>2, StatementsAre
  <1>11. CASE op = "createObject" /\ i = 0 /\ x \in Recreated(from, want)
    BY <1>11, Stands, StatementsAre, DroppedAre DEF Objects
  <1>12. QED
    BY <1>1, <1>2, <1>3, <1>4, <1>5, <1>6, <1>7, <1>8, <1>9, <1>10, <1>11 DEF Wanted

LEMMA ScriptIs ==
    \A s \in Script : s = StatementOf(s.op, s.at, s.index) /\ Wanted(s.op, s.at, s.index)
  <1> DEFINE Is(s) == s = StatementOf(s.op, s.at, s.index) /\ Wanted(s.op, s.at, s.index)
  <1>1. ASSUME NEW op, NEW x, NEW i, Wanted(op, x, i), NEW s, s = StatementOf(op, x, i)
        PROVE  Is(s)
    <2>1. s.op = op /\ s.at = x /\ s.index = i
      BY <1>1 DEF StatementOf, Statement
    <2>2. QED
      BY <1>1, <2>1
  <1>2. ASSUME NEW s \in Direct(from, want)
        PROVE  \E op, x, i : Wanted(op, x, i) /\ s = StatementOf(op, x, i)
    <2>1. CASE \E t \in Altered(from, want) :
                  /\ AddedColumns(Was(t), Becomes(t)) # {}
                  /\ s = Statement(1, t, 0, "addColumns", t, 0)
      BY <2>1, Stands DEF Wanted
    <2>2. CASE \E t \in Altered(from, want) : \E i \in NewIndexes(Was(t), Becomes(t)) :
                  s = Statement(2, t, 0, "createIndex", t, i)
      BY <2>2, Stands DEF Wanted
    <2>3. CASE \E t \in Altered(from, want) : \E i \in OldIndexes(Was(t), Becomes(t)) :
                  s = Statement(2, t, 1, "dropIndex", t, i)
      BY <2>3, Stands DEF Wanted
    <2>4. CASE \E t \in Added(from, want) : s = Statement(3, t, 0, "createTable", t, 0)
      BY <2>4, Stands DEF Wanted
    <2>5. CASE \E t \in Added(from, want) : \E i \in IndexesOf(Becomes(t)) :
                  s = Statement(3, t, 1, "createIndex", t, i)
      BY <2>5, Stands DEF Wanted
    <2>6. CASE \E t \in Removed(from, want) : s = Statement(4, t, 0, "dropTable", t, 0)
      BY <2>6, Stands DEF Wanted
    <2>7. QED
      BY <2>1, <2>2, <2>3, <2>4, <2>5, <2>6, DirectAre
  <1>3. ASSUME NEW s \in Statements(from, want)
        PROVE  \E op, x, i : Wanted(op, x, i) /\ s = StatementOf(op, x, i)
    <2>1. CASE \E o \in Dropped(from, want) \cap Triggers : s = Statement(5, 0, 0, "dropObject", o, 0)
      BY <2>1, Stands DEF Wanted
    <2>2. CASE \E o \in Dropped(from, want) \cap Views : s = Statement(6, 0, 0, "dropObject", o, 0)
      BY <2>2, Stands DEF Wanted
    <2>3. ASSUME NEW n \in 1 .. Len(Order),
                 \/ s = Statement(7, n, 0, "createNew", Order[n], 0)
                 \/ s = Statement(7, n, 1, "copy", Order[n], 0)
                 \/ Becomes(Order[n]).auto /\ s = Statement(7, n, 2, "carry", Order[n], 0)
                 \/ s = Statement(8, n, 0, "dropTable", Order[n], 0)
                 \/ s = Statement(8, n, 1, "rename", Order[n], 0)
                 \/ \E i \in IndexesOf(Becomes(Order[n])) :
                       s = Statement(9, n, 0, "createIndex", Order[n], i)
          PROVE  \E op, x, i : Wanted(op, x, i) /\ s = StatementOf(op, x, i)
      <3> DEFINE t == Order[n]
      <3>1. t \in Rebuilt(from, want) /\ Position(t) = n
        BY Positions
      <3> HIDE DEF t
      <3>2. /\ StatementOf("createNew", t, 0) = Statement(7, n, 0, "createNew", t, 0)
            /\ StatementOf("copy", t, 0) = Statement(7, n, 1, "copy", t, 0)
            /\ StatementOf("carry", t, 0) = Statement(7, n, 2, "carry", t, 0)
            /\ StatementOf("dropTable", t, 0) = Statement(8, n, 0, "dropTable", t, 0)
            /\ StatementOf("rename", t, 0) = Statement(8, n, 1, "rename", t, 0)
            /\ \A i : StatementOf("createIndex", t, i) = Statement(9, n, 0, "createIndex", t, i)
        BY <3>1, Stands
      <3>3. /\ Wanted("createNew", t, 0) /\ Wanted("copy", t, 0)
            /\ Becomes(t).auto => Wanted("carry", t, 0)
            /\ Wanted("dropTable", t, 0) /\ Wanted("rename", t, 0)
            /\ \A i \in IndexesOf(Becomes(t)) : Wanted("createIndex", t, i)
        BY <3>1 DEF Wanted
      <3>4. QED
        BY <2>3, <3>2, <3>3 DEF t
    <2>4. CASE \E o \in Recreated(from, want) \cap Views :
                  s = Statement(10, 0, 0, "createObject", o, 0)
      BY <2>4, Stands DEF Wanted
    <2>5. CASE \E o \in Recreated(from, want) \cap Triggers :
                  s = Statement(11, 0, 0, "createObject", o, 0)
      BY <2>5, Stands DEF Wanted
    <2>6. QED
      BY <2>1, <2>2, <2>3, <2>4, <2>5, StatementsAre
  <1>4. QED
    BY <1>1, <1>2, <1>3 DEF Script

Operations ==
    {"addColumns", "createIndex", "dropIndex", "createTable", "dropTable", "dropObject",
     "createNew", "copy", "carry", "rename", "createObject"}

LEMMA WantedIs ==
    \A op, x, i : Wanted(op, x, i) => /\ op \in Operations
                                      /\ x \in Tables \cup Objects
                                      /\ i \in Indexes \cup {0}
  BY Classes, DroppedAre DEF Wanted, Operations, NewIndexes, OldIndexes, IndexesOf

LEMMA ScriptIsFinite == IsFiniteSet(Script)
  <1> DEFINE name == <<"addColumns", "createIndex", "dropIndex", "createTable", "dropTable",
                       "dropObject", "createNew", "copy", "carry", "rename", "createObject">>
             things == (Tables \cup Objects) \X (Indexes \cup {0})
             f == [n \in 1 .. 11 |-> name[n]]
             g == [p \in Operations \X things |-> StatementOf(p[1], p[2][1], p[2][2])]
  <1>1. IsFiniteSet(Operations)
    <2>1. IsFiniteSet({f[n] : n \in 1 .. 11})
      <3> HIDE DEF f
      <3>1. IsFiniteSet(1 .. 11)
        <4>1. \A a, b \in Int : IsFiniteSet(a .. b)
          BY FS_Interval
        <4>2. 1 \in Int /\ 11 \in Int
          OBVIOUS
        <4>3. QED
          BY <4>1, <4>2, Zenon
      <3>2. QED
        BY <3>1, FiniteImage
    <2>2. Operations \subseteq {f[n] : n \in 1 .. 11}
      <3>1. /\ f[1] = "addColumns" /\ f[2] = "createIndex" /\ f[3] = "dropIndex"
            /\ f[4] = "createTable" /\ f[5] = "dropTable" /\ f[6] = "dropObject"
            /\ f[7] = "createNew" /\ f[8] = "copy" /\ f[9] = "carry" /\ f[10] = "rename"
            /\ f[11] = "createObject"
        OBVIOUS
      <3> HIDE DEF f
      <3>2. QED
        BY <3>1 DEF Operations
    <2> HIDE DEF f
    <2>3. QED
      BY <2>1, <2>2, FS_Subset
  <1>2. IsFiniteSet(things)
    BY FS_Union, FS_AddElement, FS_Product
  <1>3. IsFiniteSet(Operations \X things)
    BY <1>1, <1>2, FS_Product
  <1>4. IsFiniteSet({g[p] : p \in Operations \X things})
    <2> HIDE DEF g, things
    <2>1. QED
      BY <1>3, FiniteImage
  <1>5. Script \subseteq {g[p] : p \in Operations \X things}
    <2> SUFFICES ASSUME NEW s \in Script
                 PROVE  \E p \in Operations \X things : s = g[p]
      OBVIOUS
    <2> DEFINE p == <<s.op, <<s.at, s.index>>>>
    <2>1. s = StatementOf(s.op, s.at, s.index) /\ p \in Operations \X things
      BY ScriptIs, WantedIs
    <2>2. s = g[p]
      BY <2>1
    <2>3. QED
      BY <2>1, <2>2
  <1>6. QED
    BY <1>4, <1>5, FS_Subset

LEMMA ScriptIsNumbered == \A s \in Script : Numbered(s)
  <1> SUFFICES ASSUME NEW op, NEW x, NEW i, Wanted(op, x, i)
               PROVE  Numbered(StatementOf(op, x, i))
    BY ScriptIs
  <1>1. op \in Operations /\ x \in Tables \cup Objects /\ i \in Indexes \cup {0}
    BY WantedIs
  <1>2. PhaseOf(op, x) \in Nat
    BY <1>1 DEF PhaseOf, Operations
  <1>3. PlaceOf(x) \in Nat
    BY <1>1, Positions DEF PlaceOf
  <1>4. StepOf(op, x) \in Nat
    BY <1>1 DEF StepOf, Operations
  <1>5. i \in Nat
    BY <1>1
  <1>6. QED
    BY <1>2, <1>3, <1>4, <1>5 DEF Numbered, StatementOf, Statement

-----------------------------------------------------------------------------
(***************************************************************************)
(* The next statement.                                                     *)
(***************************************************************************)
Awaits(op, x, i) == StatementOf(op, x, i) \in todo

(* Statements run in their order.                                          *)
InOrder ==
    /\ todo \subseteq Script
    /\ \A s \in todo, u \in Script : Before(s, u) => u \in todo

Precedes(op, x, i, next, y, j) == Before(StatementOf(op, x, i), StatementOf(next, y, j))

LEMMA DueIs ==
    ASSUME InOrder, todo # {}
    PROVE  /\ Due \in todo /\ Due = StatementOf(Due.op, at, index)
           /\ Wanted(Due.op, at, index)
           /\ \A u \in todo : ~Before(u, Due)
  <1>1. IsFiniteSet(todo)
    BY ScriptIsFinite, FS_Subset DEF InOrder
  <1>2. \A s \in todo : Numbered(s)
    BY ScriptIsNumbered DEF InOrder
  <1>3. Due \in todo /\ \A u \in todo : ~Before(u, Due)
    BY <1>1, <1>2, DueIsFirst
  <1>4. Due \in Script
    BY <1>3 DEF InOrder
  <1>5. QED
    BY <1>3, <1>4, ScriptIs DEF at, index

LEMMA WantedIsAwaited ==
    ASSUME InOrder
    PROVE  /\ \A op, x, i : Awaits(op, x, i) => Wanted(op, x, i)
           /\ \A op, x, i, next, y, j :
                 Awaits(op, x, i) /\ Wanted(next, y, j) /\ Precedes(op, x, i, next, y, j)
                 => Awaits(next, y, j)
  <1>1. ASSUME NEW op, NEW x, NEW i, Awaits(op, x, i)
        PROVE  Wanted(op, x, i)
    <2>1. StatementOf(op, x, i) \in Script
      BY <1>1 DEF InOrder, Awaits
    <2>2. /\ StatementOf(op, x, i).op = op /\ StatementOf(op, x, i).at = x
          /\ StatementOf(op, x, i).index = i
      BY DEF StatementOf, Statement
    <2>3. QED
      BY <2>1, <2>2, ScriptIs
  <1>2. QED
    BY <1>1, ScriptHas DEF InOrder, Awaits, Precedes

(* Nothing that comes before the next statement is awaited, and all that   *)
(* comes after it.                                                         *)
LEMMA DueSplits ==
    ASSUME InOrder, todo # {}
    PROVE  /\ Awaits(Due.op, at, index)
           /\ \A op, x, i : Precedes(op, x, i, Due.op, at, index) => ~Awaits(op, x, i)
           /\ \A op, x, i : Wanted(op, x, i) /\ Precedes(Due.op, at, index, op, x, i)
                            => Awaits(op, x, i)
  <1>1. Awaits(Due.op, at, index)
    BY DueIs DEF Awaits
  <1>2. \A op, x, i : Precedes(op, x, i, Due.op, at, index) => ~Awaits(op, x, i)
    BY DueIs DEF Awaits, Precedes
  <1>3. QED
    BY <1>1, <1>2, WantedIsAwaited

Step == InOrder /\ todo # {} /\ todo' = todo \ {Due} /\ from' = from /\ want' = want

LEMMA Fixed ==
    ASSUME from' = from, want' = want
    PROVE  /\ \A op, x, i : StatementOf(op, x, i)' = StatementOf(op, x, i)
           /\ \A op, x, i : Wanted(op, x, i)' <=> Wanted(op, x, i)
           /\ Script' = Script
           /\ \A t : Was(t)' = Was(t) /\ Becomes(t)' = Becomes(t)
  <1>1. \A t : Was(t)' = Was(t) /\ Becomes(t)' = Becomes(t)
    BY DEF Was, Becomes
  <1>2. Script' = Script
    BY DEF Script
  <1>3. Order' = Order
    BY DEF Order
  <1>4. \A op, x : PhaseOf(op, x)' = PhaseOf(op, x)
    BY DEF PhaseOf
  <1>5. \A x : PlaceOf(x)' = PlaceOf(x)
    BY <1>3 DEF PlaceOf, Position
  <1>6. \A op, x : StepOf(op, x)' = StepOf(op, x)
    BY DEF StepOf
  <1>7. \A op, x, i : StatementOf(op, x, i)' = StatementOf(op, x, i)
    BY <1>4, <1>5, <1>6 DEF StatementOf
  <1>8. \A op, x, i : Wanted(op, x, i)' <=> Wanted(op, x, i)
    BY <1>1 DEF Wanted
  <1>9. QED
    BY <1>1, <1>2, <1>7, <1>8

LEMMA AwaitsNext ==
    ASSUME Step
    PROVE  \A op, x, i :
              Awaits(op, x, i)' <=> Awaits(op, x, i) /\ ~(op = Due.op /\ x = at /\ i = index)
  <1> TAKE op, x, i
  <1>1. StatementOf(op, x, i)' = StatementOf(op, x, i)
    BY Fixed DEF Step
  <1>2. StatementOf(op, x, i) = Due <=> op = Due.op /\ x = at /\ i = index
    <2>1. Due = StatementOf(Due.op, at, index)
      BY DueIs DEF Step
    <2>2. /\ StatementOf(op, x, i).op = op /\ StatementOf(op, x, i).at = x
          /\ StatementOf(op, x, i).index = i
      BY DEF StatementOf, Statement
    <2>3. QED
      BY <2>1, <2>2 DEF at, index
  <1>3. QED
    BY <1>1, <1>2 DEF Awaits, Step

LEMMA StaysInOrder == Step => InOrder'
  <1> SUFFICES ASSUME Step PROVE InOrder'
    OBVIOUS
  <1>1. Script' = Script
    BY Fixed DEF Step
  <1>2. \A u \in todo : ~Before(u, Due)
    BY DueIs DEF Step
  <1>3. QED
    BY <1>1, <1>2 DEF InOrder, Step

(* What comes before what, where the proofs below need it.                 *)
LEMMA Precedence ==
    /\ \A t \in Altered(from, want) : \A i, j : Precedes("createIndex", t, i, "dropIndex", t, j)
    /\ \A t \in Added(from, want) : \A i, j : Precedes("createTable", t, i, "createIndex", t, j)
    /\ \A t \in Rebuilt(from, want) : \A i, j :
          /\ Precedes("createNew", t, i, "copy", t, j)
          /\ \A op \in {"createNew", "copy"} : Precedes(op, t, i, "carry", t, j)
          /\ \A op \in {"createNew", "copy", "carry"} : Precedes(op, t, i, "dropTable", t, j)
          /\ \A op \in {"createNew", "copy", "carry", "dropTable"} :
                Precedes(op, t, i, "rename", t, j)
          /\ \A op \in {"createNew", "copy", "carry", "dropTable", "rename"} :
                Precedes(op, t, i, "createIndex", t, j)
    /\ \A o \in Objects, t \in Rebuilt(from, want) : \A i, j :
          \A op \in {"dropTable", "rename"} : Precedes("dropObject", o, i, op, t, j)
    /\ \A o \in Objects : \A i, j :
          /\ \A p \in Objects : Precedes("dropObject", o, i, "createObject", p, j)
          /\ \A t \in Added(from, want) : Precedes("createTable", t, i, "createObject", o, j)
          /\ \A t \in Removed(from, want) : Precedes("dropTable", t, i, "createObject", o, j)
          /\ \A t \in Rebuilt(from, want) : \A op \in {"dropTable", "rename"} :
                Precedes(op, t, i, "createObject", o, j)
    /\ \A v \in Views, o \in Triggers : \A i, j : Precedes("createObject", v, i, "createObject", o, j)
  <1> DEFINE Phase(op, x, i, n) == StatementOf(op, x, i).phase = n
  <1>1. /\ \A t \in Added(from, want) : \A i : Phase("createTable", t, i, 3)
        /\ \A t \in Removed(from, want) : \A i : Phase("dropTable", t, i, 4)
        /\ \A t \in Rebuilt(from, want) : \A i :
              /\ Phase("createNew", t, i, 7) /\ Phase("copy", t, i, 7) /\ Phase("carry", t, i, 7)
              /\ Phase("dropTable", t, i, 8) /\ Phase("rename", t, i, 8)
              /\ Phase("createIndex", t, i, 9)
    BY Stands DEF Statement
  <1>2. /\ \A o \in Triggers : \A i :
              Phase("dropObject", o, i, 5) /\ Phase("createObject", o, i, 11)
        /\ \A o \in Views : \A i :
              Phase("dropObject", o, i, 6) /\ Phase("createObject", o, i, 10)
    BY Stands DEF Statement
  <1>3. \A op, x, i, m, next, y, j, n :
           Phase(op, x, i, m) /\ Phase(next, y, j, n) /\ m \in Nat /\ n \in Nat /\ m < n
           => Precedes(op, x, i, next, y, j)
    BY DEF Precedes, Before
  <1>4. \A t \in Altered(from, want) : \A i, j : Precedes("createIndex", t, i, "dropIndex", t, j)
    BY Stands DEF Precedes, Before, Statement
  <1>5. \A t \in Added(from, want) : \A i, j : Precedes("createTable", t, i, "createIndex", t, j)
    BY Stands DEF Precedes, Before, Statement
  <1>6. \A t \in Rebuilt(from, want) : \A i, j :
          /\ Precedes("createNew", t, i, "copy", t, j)
          /\ Precedes("createNew", t, i, "carry", t, j)
          /\ Precedes("copy", t, i, "carry", t, j)
          /\ Precedes("dropTable", t, i, "rename", t, j)
    BY Stands DEF Precedes, Before, Statement
  <1> HIDE DEF Phase
  <1>7. ASSUME NEW t \in Rebuilt(from, want), NEW i, NEW j PROVE
          /\ \A op \in {"createNew", "copy", "carry"} : Precedes(op, t, i, "dropTable", t, j)
          /\ \A op \in {"createNew", "copy", "carry"} : Precedes(op, t, i, "rename", t, j)
          /\ \A op \in {"createNew", "copy", "carry", "dropTable", "rename"} :
                Precedes(op, t, i, "createIndex", t, j)
    BY <1>1, <1>3
  <1>8. ASSUME NEW o \in Objects, NEW t \in Rebuilt(from, want), NEW i, NEW j,
               NEW op \in {"dropTable", "rename"}
        PROVE  Precedes("dropObject", o, i, op, t, j)
    <2>1. \E n \in {5, 6} : Phase("dropObject", o, i, n)
      BY <1>2 DEF Objects
    <2>2. Phase(op, t, j, 8)
      BY <1>1, <1>8
    <2>3. QED
      BY <1>3, <2>1, <2>2
  <1>9. ASSUME NEW o \in Objects, NEW i, NEW j PROVE
          /\ \A p \in Objects : Precedes("dropObject", p, i, "createObject", o, j)
          /\ \A t \in Added(from, want) : Precedes("createTable", t, i, "createObject", o, j)
          /\ \A t \in Removed(from, want) : Precedes("dropTable", t, i, "createObject", o, j)
          /\ \A t \in Rebuilt(from, want) : \A op \in {"dropTable", "rename"} :
                Precedes(op, t, i, "createObject", o, j)
    <2>1. PICK n \in {10, 11} : Phase("createObject", o, j, n)
      BY <1>2 DEF Objects
    <2>2. ASSUME NEW p \in Objects PROVE Precedes("dropObject", p, i, "createObject", o, j)
      <3>1. \E m \in {5, 6} : Phase("dropObject", p, i, m)
        BY <1>2 DEF Objects
      <3>2. QED
        BY <1>3, <2>1, <3>1
    <2>3. /\ \A t \in Added(from, want) : Phase("createTable", t, i, 3)
          /\ \A t \in Removed(from, want) : Phase("dropTable", t, i, 4)
          /\ \A t \in Rebuilt(from, want) :
                Phase("dropTable", t, i, 8) /\ Phase("rename", t, i, 8)
      BY <1>1
    <2>4. \A m \in {3, 4, 8} : \A op, x : Phase(op, x, i, m)
                                      => Precedes(op, x, i, "createObject", o, j)
      BY <1>3, <2>1
    <2>5. QED
      BY <2>2, <2>3, <2>4
  <1>10. \A v \in Views, o \in Triggers : \A i, j :
            Precedes("createObject", v, i, "createObject", o, j)
    BY <1>2, <1>3
  <1>11. /\ \A t \in Rebuilt(from, want) : \A i, j :
               /\ \A op \in {"createNew", "copy"} : Precedes(op, t, i, "carry", t, j)
               /\ \A op \in {"createNew", "copy", "carry", "dropTable"} :
                     Precedes(op, t, i, "rename", t, j)
    BY <1>6, <1>7
  <1>12. QED
    BY <1>4, <1>5, <1>6, <1>7, <1>8, <1>9, <1>10, <1>11

-----------------------------------------------------------------------------
(***************************************************************************)
(* What the database comes to: a table depends on which statements about   *)
(* it are awaited, and on nothing else.                                    *)
(***************************************************************************)
With(d, columns, indexes) ==
    [columns |-> columns, key |-> d.key, rowid |-> d.rowid, auto |-> d.auto,
     rest |-> d.rest, indexes |-> indexes]

IndexNow(t, i) ==
    IF Awaits("dropIndex", t, i) THEN Was(t).indexes[i]
    ELSE IF Awaits("createIndex", t, i) THEN 0 ELSE Becomes(t).indexes[i]

IndexesNow(t) == [i \in Indexes |-> IndexNow(t, i)]

MarkBefore(t) == IF Was(t).auto THEN Mark ELSE 0

Start(t) == IF Was(t) = NoTable THEN NoTable ELSE Table(Was(t), rows[t], MarkBefore(t))

Filled(t) == {FilledRow(Was(t), Becomes(t), r) : r \in rows[t]}

ColumnsNow(t) == IF Awaits("addColumns", t, 0) THEN Was(t).columns ELSE Becomes(t).columns

FilledNow(t) ==
    IF Awaits("addColumns", t, 0) \/ AddedColumns(Was(t), Becomes(t)) = {} THEN rows[t]
    ELSE Filled(t)

AlteredNow(t) ==
    Table(With(Becomes(t), ColumnsNow(t), IndexesNow(t)), FilledNow(t), MarkBefore(t))

AddedNow(t) ==
    IF Awaits("createTable", t, 0) THEN NoTable
    ELSE Table(With(Becomes(t), Becomes(t).columns, IndexesNow(t)), {}, 0)

RemovedNow(t) == IF Awaits("dropTable", t, 0) THEN Start(t) ELSE NoTable

CopiedRows(t) == {NewRow(Was(t), Bare(Becomes(t)), rows[t], r) : r \in rows[t]}

CopiedMark(t) == IF Becomes(t).auto THEN Highest(CopiedRows(t)) ELSE 0

CarriedMark(t) == IF Becomes(t).auto THEN Max({CopiedMark(t), MarkBefore(t)}) ELSE 0

RebuiltNow(t) ==
    IF Awaits("dropTable", t, 0) THEN Start(t)
    ELSE IF Awaits("rename", t, 0) THEN NoTable
    ELSE Table(With(Becomes(t), Becomes(t).columns, IndexesNow(t)),
               CopiedRows(t), CarriedMark(t))

NewNow(t) ==
    IF Awaits("createNew", t, 0) \/ ~Awaits("rename", t, 0) THEN NoTable
    ELSE IF Awaits("copy", t, 0) THEN Table(Bare(Becomes(t)), {}, 0)
    ELSE IF Awaits("carry", t, 0) THEN Table(Bare(Becomes(t)), CopiedRows(t), CopiedMark(t))
    ELSE Table(Bare(Becomes(t)), CopiedRows(t), CarriedMark(t))

Others ==
    Tables \ (Altered(from, want) \cup Added(from, want) \cup Removed(from, want)
                \cup Rebuilt(from, want))

TableFollows(t) ==
    /\ t \in Altered(from, want) => db.tables[t] = AlteredNow(t)
    /\ t \in Added(from, want) => db.tables[t] = AddedNow(t)
    /\ t \in Removed(from, want) => db.tables[t] = RemovedNow(t)
    /\ t \in Rebuilt(from, want) => db.tables[t] = RebuiltNow(t)
    /\ t \in Others => db.tables[t] = Start(t)
    /\ new[t] = IF t \in Rebuilt(from, want) THEN NewNow(t) ELSE NoTable

TablesFollow == \A t \in Tables : TableFollows(t)

(* Which table of the database has index i, and that an index which is to  *)
(* be redefined still waits: its CREATE fails.                             *)
IndexesFollow ==
    /\ \A i \in Indexes, t, u \in Tables :
          HasIndex(db.tables[t], i) /\ HasIndex(db.tables[u], i) => t = u
    /\ \A t \in Altered(from, want) :
          \A i \in NewIndexes(Was(t), Becomes(t)) \cap OldIndexes(Was(t), Becomes(t)) :
             Awaits("createIndex", t, i)

(* Where triggers and views are: those that are dropped come back as the   *)
(* edit has them; of the others only triggers go, and only edited ones.    *)
ObjectFollows(o) ==
    /\ o \in Dropped(from, want) =>
          IF Awaits("dropObject", o, 0) THEN db.objects[o] \in {from.objects[o], NoObject}
          ELSE IF Awaits("createObject", o, 0) THEN db.objects[o] = NoObject
          ELSE db.objects[o] = want.objects[o]
    /\ o \notin Dropped(from, want) =>
          \/ db.objects[o] = from.objects[o]
          \/ /\ db.objects[o] = NoObject
             /\ o \in Triggers /\ from.objects[o] # want.objects[o]

ObjectsComeBack == \A o \in Objects : ObjectFollows(o)

Shaped ==
    /\ db = [tables |-> db.tables, objects |-> db.objects]
    /\ db.tables = [t \in Tables |-> db.tables[t]]
    /\ db.objects = [o \in Objects |-> db.objects[o]]
    /\ new = [t \in Tables |-> new[t]]

Running == InOrder /\ Shaped /\ TablesFollow /\ IndexesFollow /\ ObjectsComeBack

InputsFit ==
    /\ from \in Schemas /\ want \in Schemas
    /\ WellFormed(from) /\ WellFormed(want)
    /\ \E ids \in RowSets :
          rows = [t \in Tables |-> IF Was(t) = NoTable THEN {} ELSE Held(Was(t), ids)]

Untouched ==
    /\ db = [tables |-> [t \in Tables |-> Start(t)], objects |-> from.objects]
    /\ new = [t \in Tables |-> NoTable]

Inv ==
    /\ InputsFit
    /\ \/ pc = "generate" /\ outcome = "none" /\ todo = {} /\ Untouched
       \/ pc = "end" /\ outcome \in {"unchanged", "refused"} /\ todo = {} /\ Untouched
       \/ /\ \/ pc = "run" /\ outcome = "none"
             \/ pc = "end" /\ outcome = "failed"
             \/ pc = "end" /\ outcome = "done" /\ todo = {}
          /\ Destructive(from, want) => allow
          /\ Running

(* A table that no statement is about stays what it comes to.              *)
LEMMA NowStays ==
    ASSUME Step, rows' = rows, NEW t, t # at
    PROVE  /\ IndexesNow(t)' = IndexesNow(t) /\ Start(t)' = Start(t)
           /\ AlteredNow(t)' = AlteredNow(t) /\ AddedNow(t)' = AddedNow(t)
           /\ RemovedNow(t)' = RemovedNow(t) /\ RebuiltNow(t)' = RebuiltNow(t)
           /\ NewNow(t)' = NewNow(t)
  <1>1. \A op, i : Awaits(op, t, i)' <=> Awaits(op, t, i)
    BY AwaitsNext
  <1>2. Was(t)' = Was(t) /\ Becomes(t)' = Becomes(t)
    BY Fixed DEF Step
  <1>3. IndexesNow(t)' = IndexesNow(t)
    BY <1>1, <1>2 DEF IndexesNow, IndexNow
  <1>4. MarkBefore(t)' = MarkBefore(t) /\ CopiedRows(t)' = CopiedRows(t) /\ Filled(t)' = Filled(t)
    BY <1>2 DEF MarkBefore, CopiedRows, Filled
  <1>5. CopiedMark(t)' = CopiedMark(t) /\ CarriedMark(t)' = CarriedMark(t)
    BY <1>2, <1>4 DEF CopiedMark, CarriedMark
  <1>6. Start(t)' = Start(t)
    BY <1>2, <1>4 DEF Start
  <1>7. AlteredNow(t)' = AlteredNow(t)
    BY <1>1, <1>2, <1>3, <1>4 DEF AlteredNow, ColumnsNow, FilledNow
  <1>8. AddedNow(t)' = AddedNow(t)
    BY <1>1, <1>2, <1>3 DEF AddedNow
  <1>9. RemovedNow(t)' = RemovedNow(t)
    BY <1>1, <1>6 DEF RemovedNow
  <1>10. RebuiltNow(t)' = RebuiltNow(t)
    BY <1>1, <1>2, <1>3, <1>4, <1>5, <1>6 DEF RebuiltNow
  <1>11. NewNow(t)' = NewNow(t)
    BY <1>1, <1>2, <1>4, <1>5 DEF NewNow
  <1>12. QED
    BY <1>3, <1>6, <1>7, <1>8, <1>9, <1>10, <1>11

-----------------------------------------------------------------------------
(***************************************************************************)
(* Rows.                                                                   *)
(***************************************************************************)

(* What Stored says of the rows of a table with definition d.              *)
RowsFit(d, held) ==
    /\ held \in SUBSET Rows
    /\ \A r \in held :
          /\ \A c \in Columns : (r.values[c] = Missing) <=> (d.columns[c].is = "none")
          /\ d.key # 0 => r.values[d.key] = r.id
    /\ \A q, r \in held : q.id = r.id => q = r

(* The rows a table has at first.                                          *)
FirstRows(d, held) ==
    /\ IsFiniteSet(held) /\ RowsFit(d, held)
    /\ \A r \in held, c \in Columns :
          d.columns[c].is # "none" /\ c # d.key => r.values[c] = Given(c, r.id)

LEMMA GivenIs ==
    ASSUME NEW c \in Columns, NEW id \in Nat \ {0}, NEW other \in Nat \ {0}
    PROVE  Given(c, id) \in Nat \ {0} /\ (Given(c, id) = Given(c, other) => id = other)
  <1> DEFINE product == c * (Mark + 1)
  <1>1. product \in Nat
    BY RowsAssumption
  <1> HIDE DEF product
  <1>2. Given(c, id) = product + id /\ Given(c, other) = product + other
    BY DEF Given, product
  <1>3. QED
    BY <1>1, <1>2

LEMMA HeldFits ==
    ASSUME NEW d \in Definitions, Sound(d), NEW ids \in RowSets
    PROVE  FirstRows(d, Held(d, ids))
  <1> DEFINE values(id) == [c \in Columns |-> IF d.columns[c].is = "none" THEN Missing
                                              ELSE IF c = d.key THEN id ELSE Given(c, id)]
             row == [id \in ids |-> [id |-> id, values |-> values(id)]]
  <1>1. ids \in SUBSET (Nat \ {0}) /\ IsFiniteSet(ids)
    <2>1. ids \in SUBSET (1 .. Mark) /\ Mark \in Nat
      BY RowsAssumption
    <2>2. IsFiniteSet(1 .. Mark)
      BY <2>1, FS_Interval
    <2>3. IsFiniteSet(ids)
      BY <2>1, <2>2, FS_Subset
    <2>4. \A id \in ids : id \in Nat \ {0}
      BY <2>1
    <2>5. QED
      BY <2>3, <2>4
  <1>2. Held(d, ids) = {row[id] : id \in ids}
    BY DEF Held
  <1>3. IsFiniteSet(Held(d, ids))
    <2> HIDE DEF row
    <2>1. QED
      BY <1>1, <1>2, FiniteImage
  <1>4. \A id \in ids : \A c \in Columns : Given(c, id) \in Nat \ {0}
    BY <1>1, GivenIs
  <1>5. ASSUME NEW r \in Held(d, ids)
        PROVE  /\ r \in Rows
               /\ \A c \in Columns : (r.values[c] = Missing) <=> (d.columns[c].is = "none")
               /\ d.key # 0 => r.values[d.key] = r.id
               /\ \A c \in Columns : d.columns[c].is # "none" /\ c # d.key
                                     => r.values[c] = Given(c, r.id)
               /\ r = row[r.id]
    <2>1. PICK id \in ids : r = [id |-> id, values |-> values(id)]
      BY <1>2
    <2>2. values(id) \in [Columns -> Int]
      BY <1>1, <1>4 DEF Missing
    <2>3. r.id = id /\ r.values = values(id) /\ r \in Rows
      BY <1>1, <2>1, <2>2 DEF Rows
    <2>4. \A c \in Columns : (r.values[c] = Missing) <=> (d.columns[c].is = "none")
      BY <1>1, <1>4, <2>3 DEF Missing
    <2>5. QED
      BY <2>1, <2>3, <2>4 DEF Definitions, Sound
  <1> HIDE DEF row
  <1>6. QED
    BY <1>3, <1>5 DEF FirstRows, RowsFit

RowId(b, a, held, r) ==
    IF ~a.rowid \/ Carried(b, a) # "none" THEN r.id
    ELSE IF a.key \in Copied(b, a) THEN r.values[a.key]
    ELSE Cardinality({q \in held : q.id <= r.id})

LEMMA RanksAre ==
    ASSUME NEW held \in SUBSET Rows, IsFiniteSet(held),
           \A q, r \in held : q.id = r.id => q = r,
           NEW r \in held, NEW s \in held
    PROVE  /\ Cardinality({q \in held : q.id <= r.id}) \in Nat \ {0}
           /\ Cardinality({q \in held : q.id <= r.id}) = Cardinality({q \in held : q.id <= s.id})
              => r = s
  <1> DEFINE upto(x) == {q \in held : q.id <= x.id}
  <1>1. \A q \in held : q.id \in Nat
    BY DEF Rows
  <1>2. ASSUME NEW x \in held
        PROVE  /\ IsFiniteSet(upto(x)) /\ Cardinality(upto(x)) \in Nat
               /\ x \in upto(x) /\ Cardinality(upto(x)) # 0
    <2>1. upto(x) \in SUBSET held /\ x \in upto(x)
      BY <1>1
    <2> HIDE DEF upto
    <2>2. IsFiniteSet(upto(x))
      BY <2>1, FS_Subset
    <2>3. QED
      BY <2>1, <2>2, FS_CardinalityType, FS_EmptySet
  <1>3. ASSUME NEW x \in held, NEW y \in held, x.id <= y.id,
               Cardinality(upto(x)) = Cardinality(upto(y))
        PROVE  x = y
    <2>1. upto(x) \in SUBSET upto(y)
      BY <1>1, <1>3
    <2>2. upto(x) = upto(y)
      <3> HIDE DEF upto
      <3>1. QED
        BY <1>2, <1>3, <2>1, FS_Subset
    <2>3. y.id <= x.id
      BY <1>2, <2>2
    <2>4. x.id = y.id
      BY <1>1, <1>3, <2>3
    <2>5. QED
      BY <2>4
  <1>4. Cardinality(upto(r)) \in Nat \ {0}
    BY <1>2
  <1>5. Cardinality(upto(r)) = Cardinality(upto(s)) => r = s
    <2> SUFFICES ASSUME Cardinality(upto(r)) = Cardinality(upto(s)) PROVE r = s
      OBVIOUS
    <2> HIDE DEF upto
    <2>1. r.id <= s.id \/ s.id <= r.id
      BY <1>1
    <2>2. QED
      BY <1>3, <2>1
  <1>6. QED
    BY <1>4, <1>5

(* What a row holds in a column that is the old table's, and copied.       *)
LEMMA CopiedIs ==
    ASSUME NEW b \in Definitions, NEW held, FirstRows(b, held), NEW c \in Named(b)
    PROVE  /\ \A r \in held : r.values[c] \in Nat \ {0}
           /\ \A q, r \in held : q.values[c] = r.values[c] => q = r
  <1>1. c \in Columns /\ b.columns[c].is # "none"
    BY DEF Named
  <1>2. /\ held \in SUBSET Rows /\ \A q, r \in held : q.id = r.id => q = r
        /\ \A r \in held : r.id \in Nat \ {0}
    BY DEF FirstRows, RowsFit, Rows
  <1>3. CASE c = b.key
    <2>1. b.key # 0
      BY <1>1, <1>3
    <2>2. \A r \in held : r.values[c] = r.id
      BY <1>3, <2>1 DEF FirstRows, RowsFit
    <2>3. QED
      BY <1>2, <2>2
  <1>4. CASE c # b.key
    <2>1. \A r \in held : r.values[c] = Given(c, r.id)
      BY <1>1, <1>4 DEF FirstRows
    <2>2. QED
      BY <1>1, <1>2, <2>1, GivenIs
  <1>5. QED
    BY <1>3, <1>4

LEMMA RowIdsAre ==
    ASSUME NEW b \in Definitions, NEW a \in Definitions, NEW held, FirstRows(b, held)
    PROVE  /\ \A r \in held : RowId(b, a, held, r) \in Nat \ {0}
           /\ \A q, r \in held : RowId(b, a, held, q) = RowId(b, a, held, r) => q = r
  <1>1. /\ held \in SUBSET Rows /\ \A q, r \in held : q.id = r.id => q = r
        /\ \A r \in held : r.id \in Nat \ {0}
        /\ IsFiniteSet(held)
    BY DEF FirstRows, RowsFit, Rows
  <1>2. CASE ~a.rowid \/ Carried(b, a) # "none"
    BY <1>1, <1>2 DEF RowId
  <1>3. CASE a.rowid /\ Carried(b, a) = "none" /\ a.key \in Copied(b, a)
    <2>1. a.key \in Named(b)
      BY <1>3 DEF Copied
    <2>2. QED
      BY <1>3, <2>1, CopiedIs DEF RowId
  <1>4. CASE a.rowid /\ Carried(b, a) = "none" /\ a.key \notin Copied(b, a)
    BY <1>1, <1>4, RanksAre DEF RowId
  <1>5. QED
    BY <1>2, <1>3, <1>4 DEF Definitions

NewValues(b, a, held, r) ==
    [c \in Columns |->
       IF a.columns[c].is = "none" THEN Missing
       ELSE IF a.columns[c].is \in Generated THEN Computed
       ELSE IF c = a.key THEN RowId(b, a, held, r)
       ELSE IF c \in Copied(b, a) THEN r.values[c]
       ELSE Default]

LEMMA NewRowIs ==
    \A b, a, held, r :
        NewRow(b, a, held, r) = [id |-> RowId(b, a, held, r), values |-> NewValues(b, a, held, r)]
  BY DEF NewRow, RowId, NewValues

(* The copy gives each row a row, with an id of its own.                   *)
LEMMA CopyFits ==
    ASSUME NEW b \in Definitions, NEW a \in Definitions, Sound(a),
           NEW held, FirstRows(b, held), NEW copied,
           copied = {NewRow(b, a, held, r) : r \in held}
    PROVE  /\ IsFiniteSet(copied) /\ RowsFit(a, copied)
           /\ Cardinality(copied) = Cardinality(held)
  <1> DEFINE f == [r \in held |-> NewRow(b, a, held, r)]
  <1>1. ASSUME NEW r \in held
        PROVE  /\ f[r].id = RowId(b, a, held, r) /\ f[r].values = NewValues(b, a, held, r)
               /\ f[r] \in Rows
               /\ \A c \in Columns : (f[r].values[c] = Missing) <=> (a.columns[c].is = "none")
               /\ a.key # 0 => f[r].values[a.key] = f[r].id
    <2> DEFINE id == RowId(b, a, held, r)
               values == NewValues(b, a, held, r)
    <2>1. f[r] = [id |-> id, values |-> values]
      BY NewRowIs
    <2>2. id \in Nat \ {0}
      BY RowIdsAre
    <2>3. \A c \in Copied(b, a) : r.values[c] \in Nat \ {0}
      BY CopiedIs DEF Copied
    <2> HIDE DEF id, f
    <2>4. \A c \in Columns : values[c] \in Int /\ ((values[c] = Missing) <=> (a.columns[c].is = "none"))
      BY <2>2, <2>3 DEF NewValues, id, Missing, Computed, Default
    <2>5. values \in [Columns -> Int]
      BY <2>4 DEF NewValues
    <2>6. a.key # 0 => values[a.key] = id
      <3>1. ASSUME a.key # 0
            PROVE  a.key \in Columns /\ a.columns[a.key].is = "plain"
        BY <3>1 DEF Definitions, Sound
      <3>2. "plain" \notin Generated \cup {"none"}
        BY DEF Generated
      <3>3. QED
        BY <3>1, <3>2 DEF NewValues, id
    <2> HIDE DEF values
    <2>7. f[r].id = id /\ f[r].values = values /\ f[r] \in Rows
      BY <2>1, <2>2, <2>5 DEF Rows
    <2>8. QED
      BY <2>4, <2>6, <2>7 DEF id, values
  <1>2. copied = {f[r] : r \in held}
    OBVIOUS
  <1> HIDE DEF f
  <1>3. \A q, r \in held : f[q].id = f[r].id => q = r
    BY <1>1, RowIdsAre
  <1>4. RowsFit(a, copied)
    <2>1. \A n \in copied : \E r \in held : n = f[r]
      BY <1>2
    <2>2. ASSUME NEW n \in copied
          PROVE  /\ n \in Rows
                 /\ \A c \in Columns : (n.values[c] = Missing) <=> (a.columns[c].is = "none")
                 /\ a.key # 0 => n.values[a.key] = n.id
      BY <1>1, <2>1
    <2>3. \A m, n \in copied : m.id = n.id => m = n
      BY <1>3, <2>1
    <2>4. QED
      BY <2>2, <2>3 DEF RowsFit
  <1>5. IsFiniteSet(held)
    BY DEF FirstRows
  <1>6. f \in Bijection(held, copied)
    BY <1>2, <1>3 DEF Bijection, Injection, Surjection, IsInjective, f
  <1>7. QED
    BY <1>4, <1>5, <1>6, FS_Bijection DEF ExistsBijection

-----------------------------------------------------------------------------
(***************************************************************************)
(* Whatever a table comes to is a table that SQLite may store.             *)
(***************************************************************************)
Bodies == [Columns -> ColumnDefinitions]
Lists == [Indexes -> Versions \cup {0}]

LEMMA WithIs ==
    ASSUME NEW d \in Definitions
    PROVE  /\ d = With(d, d.columns, d.indexes)
           /\ d.columns \in Bodies /\ d.indexes \in Lists
           /\ \A columns \in Bodies, indexes \in Lists :
                 With(d, columns, indexes) \in Definitions
           /\ Bare(d) = With(d, d.columns, [i \in Indexes |-> 0])
           /\ Bare(d) \in Definitions
           /\ Sound(d) => Sound(Bare(d))
           /\ d.columns = [c \in Columns |-> d.columns[c]]
           /\ d.indexes = [i \in Indexes |-> d.indexes[i]]
  <1>1. /\ d = With(d, d.columns, d.indexes)
        /\ d.columns \in Bodies /\ d.indexes \in Lists
    BY DEF With, Definitions, Bodies, Lists
  <1>2. ASSUME NEW columns \in Bodies, NEW indexes \in Lists
        PROVE  With(d, columns, indexes) \in Definitions
    BY DEF With, Definitions, Bodies, Lists
  <1>3. Bare(d) = With(d, d.columns, [i \in Indexes |-> 0])
    BY DEF With, Bare, Definitions
  <1>4. [i \in Indexes |-> 0] \in Lists
    BY DEF Lists
  <1>5. Bare(d) \in Definitions
    BY <1>1, <1>2, <1>3, <1>4
  <1>6. Sound(d) => Sound(Bare(d))
    BY <1>3 DEF Sound, With
  <1>7. /\ d.columns = [c \in Columns |-> d.columns[c]]
        /\ d.indexes = [i \in Indexes |-> d.indexes[i]]
    BY <1>1 DEF Bodies, Lists
  <1>8. QED
    BY <1>1, <1>2, <1>3, <1>5, <1>6, <1>7

LEMMA BareIs ==
    ASSUME NEW d \in Definitions
    PROVE  /\ Bare(d).columns = d.columns /\ Bare(d).key = d.key
           /\ Bare(d).rowid = d.rowid /\ Bare(d).auto = d.auto
           /\ \A i \in Indexes : Bare(d).indexes[i] = 0
  BY DEF Bare, Definitions

(* The two definitions of a table that is not rebuilt.                     *)
Alike(b, a) ==
    /\ b.key = a.key /\ b.rowid = a.rowid /\ b.auto = a.auto /\ b.rest = a.rest
    /\ \A c \in Columns : \/ b.columns[c] = a.columns[c]
                          \/ b.columns[c].is = "none" /\ a.columns[c].is # "none"

LEMMA AlikeIs ==
    ASSUME NEW b \in Definitions, Sound(b), NEW a \in Definitions, Sound(a),
           ~NeedsRebuild(b, a)
    PROVE  Alike(b, a) /\ (AddedColumns(b, a) = {} => b.columns = a.columns)
  <1>1. [b EXCEPT !.columns = a.columns, !.indexes = a.indexes] = a
    BY DEF NeedsRebuild
  <1>2. b.key = a.key /\ b.rowid = a.rowid /\ b.auto = a.auto /\ b.rest = a.rest
    <2> DEFINE e == [b EXCEPT !.columns = a.columns, !.indexes = a.indexes]
    <2>1. e.key = b.key /\ e.rowid = b.rowid /\ e.auto = b.auto /\ e.rest = b.rest
      BY DEF Definitions
    <2>2. e = a
      BY <1>1
    <2> HIDE DEF e
    <2>3. QED
      BY <2>1, <2>2
  <1>3. ASSUME NEW c \in Columns, b.columns[c] # a.columns[c]
        PROVE  b.columns[c].is = "none" /\ a.columns[c].is # "none"
    <2>1. b.columns[c].is = "none"
      BY <1>3 DEF NeedsRebuild
    <2>2. b.columns[c] \in ColumnDefinitions /\ a.columns[c] \in ColumnDefinitions
      BY DEF Definitions
    <2>3. ASSUME a.columns[c].is = "none" PROVE FALSE
      <3>1. b.columns[c].parents = {} /\ a.columns[c].parents = {}
        BY <2>1, <2>3 DEF Sound
      <3>2. \A d \in ColumnDefinitions : d = [is |-> d.is, parents |-> d.parents]
        BY DEF ColumnDefinitions
      <3>3. b.columns[c] = [is |-> "none", parents |-> {}]
        BY <2>1, <2>2, <3>1, <3>2
      <3>4. a.columns[c] = [is |-> "none", parents |-> {}]
        BY <2>2, <2>3, <3>1, <3>2
      <3>5. QED
        BY <1>3, <3>3, <3>4
    <2>4. QED
      BY <2>1, <2>3
  <1>4. ASSUME AddedColumns(b, a) = {} PROVE b.columns = a.columns
    <2>1. ASSUME NEW c \in Columns, b.columns[c] # a.columns[c] PROVE FALSE
      <3>1. a.columns[c] \in ColumnDefinitions
        BY DEF Definitions
      <3>2. a.columns[c].is \in {"plain"} \cup Generated
        BY <1>3, <2>1, <3>1 DEF ColumnDefinitions
      <3>3. a.columns[c].is # "plain"
        BY <1>3, <1>4, <2>1 DEF AddedColumns
      <3>4. c \in NewGenerated(b, a)
        BY <1>3, <2>1, <3>2, <3>3 DEF NewGenerated
      <3>5. QED
        BY <1>4, <3>4 DEF NeedsRebuild
    <2>2. /\ b.columns = [c \in Columns |-> b.columns[c]]
          /\ a.columns = [c \in Columns |-> a.columns[c]]
      BY WithIs
    <2>3. [c \in Columns |-> b.columns[c]] = [c \in Columns |-> a.columns[c]]
      BY <2>1
    <2>4. QED
      BY <2>2, <2>3
  <1>5. QED
    BY <1>2, <1>3, <1>4 DEF Alike

LEMMA InputsAre ==
    ASSUME InputsFit
    PROVE  /\ \A t \in Present(from) :
                 Was(t) \in Definitions /\ Sound(Was(t)) /\ FirstRows(Was(t), rows[t])
           /\ \A t \in Present(want) : Becomes(t) \in Definitions /\ Sound(Becomes(t))
           /\ \A t \in Tables \ Present(from) : rows[t] = {} /\ Was(t) = NoTable
           /\ \A t \in Tables \ Present(want) : Becomes(t) = NoTable
           /\ NoTable \notin Definitions
  <1>1. PICK ids \in RowSets :
           rows = [t \in Tables |-> IF Was(t) = NoTable THEN {} ELSE Held(Was(t), ids)]
    BY DEF InputsFit
  <1>2. \A t \in Present(from) : t \in Tables /\ Was(t) # NoTable
    BY DEF Present, Was
  <1>3. \A t \in Present(from) : Was(t) \in Definitions /\ Sound(Was(t))
    BY <1>2, ZenonT(40) DEF InputsFit, Schemas, WellFormed, Was
  <1>4. \A t \in Present(from) : FirstRows(Was(t), rows[t])
    <2> SUFFICES ASSUME NEW t \in Present(from) PROVE FirstRows(Was(t), rows[t])
      OBVIOUS
    <2>1. rows[t] = Held(Was(t), ids)
      BY <1>1, <1>2
    <2>2. QED
      BY <1>3, <2>1, HeldFits
  <1>5. \A t \in Present(want) : Becomes(t) \in Definitions /\ Sound(Becomes(t))
    BY DEF InputsFit, Schemas, WellFormed, Becomes, Present
  <1>6. \A t \in Tables \ Present(from) : rows[t] = {} /\ Was(t) = NoTable
    BY <1>1 DEF Present, Was
  <1>7. \A t \in Tables \ Present(want) : Becomes(t) = NoTable
    BY DEF Present, Becomes
  <1>8. QED
    BY <1>3, <1>4, <1>5, <1>6, <1>7

LEMMA ClassesAre ==
    ASSUME InputsFit
    PROVE  /\ Altered(from, want) \cup Rebuilt(from, want)
                \subseteq Present(from) \cap Present(want)
           /\ Added(from, want) \subseteq Present(want) \ Present(from)
           /\ Removed(from, want) \subseteq Present(from) \ Present(want)
           /\ \A t \in Others : Was(t) = Becomes(t)
           /\ \A t \in Altered(from, want) :
                 /\ Alike(Was(t), Becomes(t))
                 /\ AddedColumns(Was(t), Becomes(t)) = {} => Was(t).columns = Becomes(t).columns
  <1>1. /\ Altered(from, want) \cup Rebuilt(from, want) \subseteq Present(from) \cap Present(want)
        /\ Added(from, want) \subseteq Present(want) \ Present(from)
        /\ Removed(from, want) \subseteq Present(from) \ Present(want)
    BY DEF Altered, Rebuilt, Changed, Added, Removed
  <1>2. \A t \in Others : Was(t) = Becomes(t)
    BY DEF Others, Altered, Rebuilt, Changed, Added, Removed, Present, Was, Becomes
  <1>3. \A t \in Altered(from, want) : ~NeedsRebuild(Was(t), Becomes(t))
    BY DEF Altered, Rebuilt, Was, Becomes
  <1>4. \A t \in Altered(from, want) :
           /\ Was(t) \in Definitions /\ Sound(Was(t))
           /\ Becomes(t) \in Definitions /\ Sound(Becomes(t))
    BY <1>1, InputsAre
  <1>5. QED
    BY <1>1, <1>2, <1>3, <1>4, AlikeIs

LEMMA StoredIs ==
    ASSUME NEW d \in Definitions, Sound(d), NEW held, RowsFit(d, held),
           NEW m \in Nat, m # 0 => d.auto
    PROVE  Stored(Table(d, held, m)) /\ Table(d, held, m) # NoTable
  <1>1. Table(d, held, m) \in StoredTables
    BY DEF Table, StoredTables, RowsFit
  <1>2. /\ Table(d, held, m).def = d /\ Table(d, held, m).rows = held
        /\ Table(d, held, m).seq = m
    BY DEF Table
  <1>3. Stored(Table(d, held, m))
    <2> HIDE DEF Table
    <2>1. QED
      BY <1>1, <1>2 DEF Stored, RowsFit
  <1>4. QED
    BY <1>1, <1>3

LEMMA FitsAlike ==
    ASSUME NEW d, NEW e, NEW held, RowsFit(d, held), d.columns = e.columns, d.key = e.key
    PROVE  RowsFit(e, held)
  BY DEF RowsFit

LEMMA MarkIs ==
    ASSUME InputsFit, NEW t \in Present(from)
    PROVE  MarkBefore(t) \in Nat /\ (MarkBefore(t) # 0 => Was(t).auto)
  BY RowsAssumption DEF MarkBefore

LEMMA StartStored ==
    ASSUME InputsFit, NEW t \in Present(from)
    PROVE  /\ Start(t) = Table(Was(t), rows[t], MarkBefore(t))
           /\ Stored(Start(t)) /\ Start(t) # NoTable
  <1>1. Was(t) \in Definitions /\ Sound(Was(t)) /\ RowsFit(Was(t), rows[t])
    BY InputsAre DEF FirstRows
  <1>2. Start(t) = Table(Was(t), rows[t], MarkBefore(t))
    BY <1>1, InputsAre DEF Start
  <1>3. QED
    BY <1>1, <1>2, MarkIs, StoredIs

LEMMA IndexesAre ==
    ASSUME InputsFit, InOrder, NEW t \in Present(want)
    PROVE  IndexesNow(t) \in Lists
  <1>1. \A i \in Indexes : Awaits("dropIndex", t, i) => t \in Altered(from, want)
    BY WantedIsAwaited DEF Wanted
  <1>2. t \in Altered(from, want) => Was(t).indexes \in Lists
    BY ClassesAre, InputsAre, WithIs
  <1>3. Becomes(t).indexes \in Lists
    BY InputsAre, WithIs
  <1>4. \A i \in Indexes : IndexNow(t, i) \in Versions \cup {0}
    BY <1>1, <1>2, <1>3 DEF IndexNow, Lists
  <1>5. QED
    BY <1>4 DEF IndexesNow, Lists

(* What a row of a table that gains columns holds.                         *)
FilledValues(b, a, r) ==
    [c \in Columns |-> IF b.columns[c] = a.columns[c] THEN r.values[c]
                       ELSE IF a.columns[c].is = "plain" THEN Default
                       ELSE Computed]

LEMMA FilledRowIs ==
    ASSUME NEW b, NEW a, NEW r \in Rows
    PROVE  /\ FilledRow(b, a, r) = [id |-> r.id, values |-> FilledValues(b, a, r)]
           /\ FilledRow(b, a, r).id = r.id
           /\ FilledRow(b, a, r).values = FilledValues(b, a, r)
  <1>1. FilledRow(b, a, r) = [r EXCEPT !.values = FilledValues(b, a, r)]
    BY DEF FilledRow, FilledValues
  <1>2. FilledRow(b, a, r) = [id |-> r.id, values |-> FilledValues(b, a, r)]
    BY <1>1 DEF Rows
  <1>3. QED
    BY <1>2

LEMMA FilledFits ==
    ASSUME NEW b \in Definitions, NEW a \in Definitions, Sound(b), Alike(b, a),
           NEW held, RowsFit(b, held), NEW filled,
           filled = {FilledRow(b, a, r) : r \in held}
    PROVE  RowsFit(a, filled)
  <1> DEFINE values(r) == FilledValues(b, a, r)
  <1>2. ASSUME NEW n \in filled
        PROVE  \E r \in held : n = [id |-> r.id, values |-> values(r)]
    <2>1. PICK r \in held : n = FilledRow(b, a, r)
      OBVIOUS
    <2>2. r \in Rows
      BY DEF RowsFit
    <2>3. QED
      BY <2>1, <2>2, FilledRowIs
  <1>3. ASSUME NEW r \in held
        PROVE  /\ values(r) \in [Columns -> Int]
               /\ \A c \in Columns : (values(r)[c] = Missing) <=> (a.columns[c].is = "none")
               /\ a.key # 0 => values(r)[a.key] = r.id
               /\ r.id \in Nat \ {0}
    <2>1. r.values \in [Columns -> Int] /\ r.id \in Nat \ {0}
      BY DEF RowsFit, Rows
    <2>2. values(r) \in [Columns -> Int]
      BY <2>1 DEF FilledValues, Default, Computed
    <2>3. \A c \in Columns : (values(r)[c] = Missing) <=> (a.columns[c].is = "none")
      BY DEF FilledValues, Default, Computed, Missing, RowsFit, Alike
    <2>4. a.key # 0 => values(r)[a.key] = r.id
      <3>1. ASSUME a.key # 0
            PROVE  a.key \in Columns /\ b.columns[a.key] = a.columns[a.key] /\ b.key = a.key
        BY <3>1 DEF Alike, Sound, Definitions
      <3>2. QED
        BY <3>1 DEF FilledValues, RowsFit
    <2>5. QED
      BY <2>1, <2>2, <2>3, <2>4
  <1> HIDE DEF values
  <1>4. ASSUME NEW n \in filled
        PROVE  /\ n \in Rows
               /\ \A c \in Columns : (n.values[c] = Missing) <=> (a.columns[c].is = "none")
               /\ a.key # 0 => n.values[a.key] = n.id
    <2>1. PICK r \in held : n = [id |-> r.id, values |-> values(r)]
      BY <1>2
    <2>2. QED
      BY <1>3, <2>1 DEF Rows
  <1>5. ASSUME NEW m \in filled, NEW n \in filled, m.id = n.id
        PROVE  m = n
    <2>1. PICK q \in held : m = [id |-> q.id, values |-> values(q)]
      BY <1>2
    <2>2. PICK r \in held : n = [id |-> r.id, values |-> values(r)]
      BY <1>2
    <2>3. q = r
      BY <1>5, <2>1, <2>2 DEF RowsFit
    <2>4. QED
      BY <2>1, <2>2, <2>3
  <1>6. QED
    BY <1>4, <1>5 DEF RowsFit

LEMMA AlteredStored ==
    ASSUME InputsFit, InOrder, NEW t \in Altered(from, want)
    PROVE  Stored(AlteredNow(t)) /\ AlteredNow(t) # NoTable
  <1> DEFINE b == Was(t)
             a == Becomes(t)
             d == With(a, ColumnsNow(t), IndexesNow(t))
  <1>1. /\ b \in Definitions /\ Sound(b) /\ a \in Definitions /\ Sound(a)
        /\ RowsFit(b, rows[t])
    BY ClassesAre, InputsAre DEF FirstRows
  <1>2. Alike(b, a) /\ (AddedColumns(b, a) = {} => b.columns = a.columns)
    BY ClassesAre
  <1>3. IndexesNow(t) \in Lists
    BY ClassesAre, IndexesAre
  <1>4. ColumnsNow(t) \in Bodies /\ (ColumnsNow(t) = b.columns \/ ColumnsNow(t) = a.columns)
    BY <1>1, WithIs DEF ColumnsNow
  <1>5. d \in Definitions
    BY <1>1, <1>3, <1>4, WithIs
  <1>6. d.columns = ColumnsNow(t) /\ d.key = a.key /\ d.rowid = a.rowid /\ d.auto = a.auto
    BY DEF With
  <1> HIDE DEF d
  <1>7. Sound(d)
    BY <1>1, <1>2, <1>4, <1>6 DEF Sound, Alike
  <1>8. RowsFit(d, FilledNow(t))
    <2>1. CASE Awaits("addColumns", t, 0) \/ AddedColumns(b, a) = {}
      <3>1. FilledNow(t) = rows[t]
        BY <2>1 DEF FilledNow
      <3>2. d.columns = b.columns /\ d.key = b.key
        BY <1>2, <1>6, <2>1 DEF ColumnsNow, Alike
      <3>3. QED
        BY <1>1, <3>1, <3>2, FitsAlike
    <2>2. CASE ~(Awaits("addColumns", t, 0) \/ AddedColumns(b, a) = {})
      <3>1. FilledNow(t) = Filled(t) /\ d.columns = a.columns
        BY <1>6, <2>2 DEF FilledNow, ColumnsNow
      <3>2. RowsFit(a, Filled(t))
        BY <1>1, <1>2, FilledFits DEF Filled
      <3>3. QED
        BY <1>6, <3>1, <3>2, FitsAlike
    <2>3. QED
      BY <2>1, <2>2
  <1>9. MarkBefore(t) \in Nat /\ (MarkBefore(t) # 0 => d.auto)
    BY <1>2, <1>6, ClassesAre, MarkIs DEF Alike
  <1>10. AlteredNow(t) = Table(d, FilledNow(t), MarkBefore(t))
    BY DEF AlteredNow, d
  <1>11. QED
    BY <1>5, <1>7, <1>8, <1>9, <1>10, StoredIs

LEMMA AddedStored ==
    ASSUME InputsFit, InOrder, NEW t \in Present(want)
    PROVE  LET d == With(Becomes(t), Becomes(t).columns, IndexesNow(t))
           IN  /\ d \in Definitions /\ Sound(d) /\ d.auto = Becomes(t).auto
               /\ d.columns = Becomes(t).columns /\ d.key = Becomes(t).key
               /\ Stored(Table(d, {}, 0)) /\ Table(d, {}, 0) # NoTable
               /\ Stored(Table(Bare(Becomes(t)), {}, 0)) /\ Table(Bare(Becomes(t)), {}, 0) # NoTable
  <1> DEFINE a == Becomes(t)
             d == With(a, a.columns, IndexesNow(t))
  <1>1. a \in Definitions /\ Sound(a) /\ Bare(a) \in Definitions /\ Sound(Bare(a))
    BY InputsAre, WithIs
  <1>2. d \in Definitions
    BY <1>1, IndexesAre, WithIs
  <1>3. /\ d.columns = a.columns /\ d.key = a.key /\ d.rowid = a.rowid /\ d.auto = a.auto
    BY DEF With
  <1> HIDE DEF d, a
  <1>4. Sound(d)
    BY <1>1, <1>3 DEF Sound
  <1>5. \A e : RowsFit(e, {})
    BY DEF RowsFit
  <1>6. Stored(Table(d, {}, 0)) /\ Table(d, {}, 0) # NoTable
    BY <1>2, <1>4, <1>5, StoredIs
  <1>7. Stored(Table(Bare(a), {}, 0)) /\ Table(Bare(a), {}, 0) # NoTable
    BY <1>1, <1>5, StoredIs
  <1>8. QED
    BY <1>2, <1>3, <1>4, <1>6, <1>7 DEF d, a

(* The copy, and what AUTOINCREMENT may give out after it.                 *)
LEMMA CopiedFit ==
    ASSUME InputsFit, NEW t \in Rebuilt(from, want)
    PROVE  /\ IsFiniteSet(CopiedRows(t)) /\ RowsFit(Becomes(t), CopiedRows(t))
           /\ Cardinality(CopiedRows(t)) = Cardinality(rows[t])
           /\ CopiedMark(t) \in Nat /\ (CopiedMark(t) # 0 => Becomes(t).auto)
           /\ CarriedMark(t) \in Nat /\ (CarriedMark(t) # 0 => Becomes(t).auto)
           /\ Becomes(t).auto => CarriedMark(t) >= MarkBefore(t)
  <1> DEFINE b == Was(t)
             a == Becomes(t)
             copied == CopiedRows(t)
  <1>1. /\ b \in Definitions /\ Sound(b) /\ a \in Definitions /\ Sound(a)
        /\ FirstRows(b, rows[t])
    BY ClassesAre, InputsAre
  <1>2. Bare(a) \in Definitions /\ Sound(Bare(a))
    BY <1>1, WithIs
  <1>3. copied = {NewRow(b, Bare(a), rows[t], r) : r \in rows[t]}
    BY DEF CopiedRows
  <1> HIDE DEF copied
  <1>4. /\ IsFiniteSet(copied) /\ RowsFit(Bare(a), copied)
        /\ Cardinality(copied) = Cardinality(rows[t])
    BY <1>1, <1>2, <1>3, CopyFits
  <1>5. RowsFit(a, copied)
    <2>1. Bare(a).columns = a.columns /\ Bare(a).key = a.key
      BY <1>1, BareIs
    <2>2. QED
      BY <1>4, <2>1, FitsAlike
  <1>6. Highest(copied) \in Nat
    <2> DEFINE ids == {r.id : r \in copied}
    <2>1. ids \in SUBSET Nat
      BY <1>5 DEF RowsFit, Rows
    <2>2. IsFiniteSet(ids)
      <3> DEFINE f == [r \in copied |-> r.id]
      <3>1. ids = {f[r] : r \in copied}
        OBVIOUS
      <3> HIDE DEF f, ids
      <3>2. QED
        BY <1>4, <3>1, FiniteImage
    <2>3. ids # {} => Max(ids) \in Nat
      <3> HIDE DEF ids
      <3>1. QED
        BY <2>1, <2>2, GreatestIs
    <2>4. QED
      BY <2>3 DEF Highest
  <1>7. CopiedMark(t) \in Nat /\ (CopiedMark(t) # 0 => a.auto)
    BY <1>6 DEF CopiedMark, copied
  <1>8. MarkBefore(t) \in Nat
    BY ClassesAre, MarkIs
  <1>9. Max({CopiedMark(t), MarkBefore(t)}) \in Nat
        /\ Max({CopiedMark(t), MarkBefore(t)}) >= MarkBefore(t)
    <2> DEFINE S == {CopiedMark(t), MarkBefore(t)}
    <2>1. S \in SUBSET Nat /\ S # {} /\ MarkBefore(t) \in S
      BY <1>7, <1>8
    <2>2. IsFiniteSet(S)
      <3>1. S = {CopiedMark(t)} \cup {MarkBefore(t)}
        OBVIOUS
      <3>2. IsFiniteSet({CopiedMark(t)})
        BY FS_Singleton
      <3>3. IsFiniteSet({CopiedMark(t)} \cup {MarkBefore(t)})
        BY <3>2, FS_AddElement
      <3>4. QED
        BY <3>1, <3>3, Zenon
    <2> HIDE DEF S
    <2>3. Max(S) \in Nat /\ Max(S) >= MarkBefore(t)
      BY <2>1, <2>2, GreatestIs
    <2>4. QED
      BY <2>3 DEF S
  <1>10. /\ CarriedMark(t) \in Nat /\ (CarriedMark(t) # 0 => a.auto)
         /\ a.auto => CarriedMark(t) >= MarkBefore(t)
    BY <1>9 DEF CarriedMark
  <1>11. QED
    BY <1>4, <1>5, <1>7, <1>10 DEF copied

LEMMA RebuiltStored ==
    ASSUME InputsFit, InOrder, NEW t \in Rebuilt(from, want)
    PROVE  /\ LET table == Table(With(Becomes(t), Becomes(t).columns, IndexesNow(t)),
                                 CopiedRows(t), CarriedMark(t))
              IN  Stored(table) /\ table # NoTable
           /\ \A m \in {CopiedMark(t), CarriedMark(t)} :
                 LET table == Table(Bare(Becomes(t)), CopiedRows(t), m)
                 IN  Stored(table) /\ table # NoTable
  <1> DEFINE a == Becomes(t)
             d == With(a, a.columns, IndexesNow(t))
  <1>1. t \in Present(want)
    BY ClassesAre
  <1>2. /\ d \in Definitions /\ Sound(d) /\ d.auto = a.auto
        /\ d.columns = a.columns /\ d.key = a.key
    BY <1>1, AddedStored
  <1>3. a \in Definitions /\ Bare(a) \in Definitions /\ Sound(Bare(a))
    BY <1>1, InputsAre, WithIs
  <1>4. Bare(a).columns = a.columns /\ Bare(a).key = a.key /\ Bare(a).auto = a.auto
    BY <1>3, BareIs
  <1>5. RowsFit(d, CopiedRows(t)) /\ RowsFit(Bare(a), CopiedRows(t))
    BY <1>2, <1>4, CopiedFit, FitsAlike
  <1> HIDE DEF a, d
  <1>6. /\ CopiedMark(t) \in Nat /\ (CopiedMark(t) # 0 => a.auto)
        /\ CarriedMark(t) \in Nat /\ (CarriedMark(t) # 0 => a.auto)
    BY CopiedFit DEF a
  <1>7. /\ Stored(Table(d, CopiedRows(t), CarriedMark(t)))
        /\ Table(d, CopiedRows(t), CarriedMark(t)) # NoTable
    BY <1>2, <1>5, <1>6, StoredIs
  <1>8. \A m \in {CopiedMark(t), CarriedMark(t)} :
           /\ Stored(Table(Bare(a), CopiedRows(t), m))
           /\ Table(Bare(a), CopiedRows(t), m) # NoTable
    BY <1>3, <1>4, <1>5, <1>6, StoredIs
  <1>9. QED
    BY <1>7, <1>8 DEF a, d

-----------------------------------------------------------------------------
(***************************************************************************)
(* Every statement leaves its table as it comes to, and the others alone.  *)
(***************************************************************************)
LEMMA RunsIs ==
    ASSUME InOrder, NEW op, Runs(op)
    PROVE  /\ Step /\ rows' = rows /\ Due.op = op /\ Wanted(op, at, index)
           /\ InOrder'
           /\ Awaits(op, at, index)
           /\ \A prior, x, i : Precedes(prior, x, i, op, at, index) => ~Awaits(prior, x, i)
           /\ \A next, x, i : Wanted(next, x, i) /\ Precedes(op, at, index, next, x, i)
                              => Awaits(next, x, i)
           /\ \A any, x, i : Awaits(any, x, i)' <=>
                 Awaits(any, x, i) /\ ~(any = op /\ x = at /\ i = index)
  <1>1. Step /\ rows' = rows /\ Due.op = op
    BY DEF Runs, Step, inputs
  <1>2. todo # {}
    BY DEF Runs
  <1>3. InOrder'
    BY <1>1, StaysInOrder
  <1>4. Wanted(op, at, index)
    BY <1>1, <1>2, DueIs
  <1>5. /\ Awaits(op, at, index)
        /\ \A prior, x, i : Precedes(prior, x, i, op, at, index) => ~Awaits(prior, x, i)
        /\ \A next, x, i : Wanted(next, x, i) /\ Precedes(op, at, index, next, x, i)
                           => Awaits(next, x, i)
    BY <1>1, <1>2, DueSplits
  <1>6. \A any, x, i : Awaits(any, x, i)' <=>
           Awaits(any, x, i) /\ ~(any = op /\ x = at /\ i = index)
    BY <1>1, AwaitsNext
  <1>7. QED
    BY <1>1, <1>3, <1>4, <1>5, <1>6

LEMMA OthersFollow ==
    ASSUME Step, rows' = rows, NEW t, t # at, TableFollows(t),
           db'.tables[t] = db.tables[t], new'[t] = new[t]
    PROVE  TableFollows(t)'
  <1>1. /\ AlteredNow(t)' = AlteredNow(t) /\ AddedNow(t)' = AddedNow(t)
        /\ RemovedNow(t)' = RemovedNow(t) /\ RebuiltNow(t)' = RebuiltNow(t)
        /\ NewNow(t)' = NewNow(t) /\ Start(t)' = Start(t)
    BY NowStays
  <1>2. from' = from /\ want' = want
    BY DEF Step
  <1>3. Others' = Others
    BY <1>2 DEF Others
  <1>4. QED
    BY <1>1, <1>2, <1>3 DEF TableFollows

LEMMA ObjectsStay ==
    ASSUME Step, ObjectsComeBack, db'.objects = db.objects,
           Due.op \notin {"dropObject", "createObject"}
    PROVE  ObjectsComeBack'
  <1>1. from' = from /\ want' = want
    BY DEF Step
  <1>2. \A o : /\ Awaits("dropObject", o, 0)' <=> Awaits("dropObject", o, 0)
               /\ Awaits("createObject", o, 0)' <=> Awaits("createObject", o, 0)
    BY AwaitsNext
  <1>3. \A o \in Objects : ObjectFollows(o)' <=> ObjectFollows(o)
    BY <1>1, <1>2 DEF ObjectFollows
  <1>4. QED
    BY <1>3 DEF ObjectsComeBack

LEMMA IndexesStay ==
    ASSUME Step, IndexesFollow, Due.op # "createIndex",
           \A t \in Tables, i \in Indexes : HasIndex(db'.tables[t], i) => HasIndex(db.tables[t], i)
    PROVE  IndexesFollow'
  <1>1. /\ from' = from /\ want' = want
        /\ \A t : Was(t)' = Was(t) /\ Becomes(t)' = Becomes(t)
    BY Fixed DEF Step
  <1>2. \A t, i : Awaits("createIndex", t, i)' <=> Awaits("createIndex", t, i)
    BY AwaitsNext
  <1>3. \A i \in Indexes, t, u \in Tables :
           HasIndex(db'.tables[t], i) /\ HasIndex(db'.tables[u], i) => t = u
    BY DEF IndexesFollow
  <1>4. \A t \in Altered(from, want) :
           \A i \in NewIndexes(Was(t), Becomes(t)) \cap OldIndexes(Was(t), Becomes(t)) :
              Awaits("createIndex", t, i)'
    BY <1>2 DEF IndexesFollow
  <1>5. QED
    BY <1>1, <1>3, <1>4 DEF IndexesFollow

(* One table of the database changes.                                      *)
LEMMA PutTable ==
    ASSUME Shaped, NEW t \in Tables, NEW v, db' = [db EXCEPT !.tables[t] = v]
    PROVE  /\ db'.tables[t] = v /\ db'.objects = db.objects
           /\ \A u \in Tables : u # t => db'.tables[u] = db.tables[u]
           /\ new' = [u \in Tables |-> new'[u]] => Shaped'
  <1>1. db = [tables |-> db.tables, objects |-> db.objects]
    BY DEF Shaped
  <1>2. db' = [tables |-> [db.tables EXCEPT ![t] = v], objects |-> db.objects]
    BY <1>1
  <1>3. db'.tables = [db.tables EXCEPT ![t] = v] /\ db'.objects = db.objects
    BY <1>2
  <1>4. db.tables = [u \in Tables |-> db.tables[u]]
    BY DEF Shaped
  <1>5. /\ db'.tables[t] = v
        /\ \A u \in Tables : u # t => db'.tables[u] = db.tables[u]
    BY <1>3, <1>4
  <1>6. db'.tables = [u \in Tables |-> db'.tables[u]]
    BY <1>3, <1>4
  <1>7. db'.objects = [o \in Objects |-> db'.objects[o]]
    BY <1>3 DEF Shaped
  <1>8. db' = [tables |-> db'.tables, objects |-> db'.objects]
    BY <1>2, <1>3
  <1>9. new' = [u \in Tables |-> new'[u]] => Shaped'
    BY <1>6, <1>7, <1>8 DEF Shaped
  <1>10. QED
    BY <1>3, <1>5, <1>9

LEMMA OneTableRuns ==
    ASSUME InputsFit, Running, NEW op, Runs(op), op \notin {"dropObject", "createObject"},
           db'.objects = db.objects, Shaped', IndexesFollow',
           NEW t \in Tables, t = at, TableFollows(t)',
           \A u \in Tables : u # t => db'.tables[u] = db.tables[u] /\ new'[u] = new[u]
    PROVE  Running'
  <1>1. Step /\ rows' = rows /\ Due.op = op /\ InOrder'
    BY RunsIs DEF Running
  <1>2. \A u \in Tables : u # t => TableFollows(u)'
    BY <1>1, OthersFollow DEF Running, TablesFollow
  <1>3. TablesFollow'
    BY <1>2 DEF TablesFollow
  <1>4. ObjectsComeBack'
    BY <1>1, ObjectsStay DEF Running
  <1>5. QED
    BY <1>1, <1>3, <1>4 DEF Running

(* One of the new tables changes.                                          *)
LEMMA PutNew ==
    ASSUME Shaped, NEW t \in Tables, NEW v, new' = [new EXCEPT ![t] = v]
    PROVE  /\ new'[t] = v /\ \A u \in Tables : u # t => new'[u] = new[u]
           /\ new' = [u \in Tables |-> new'[u]]
           /\ db' = db => Shaped'
  <1>1. new = [u \in Tables |-> new[u]]
    BY DEF Shaped
  <1>2. /\ new'[t] = v /\ \A u \in Tables : u # t => new'[u] = new[u]
        /\ new' = [u \in Tables |-> new'[u]]
    BY <1>1
  <1>3. QED
    BY <1>2 DEF Shaped

(* What a statement does not change.                                       *)
LEMMA Unmoved ==
    ASSUME Step, rows' = rows, NEW t
    PROVE  /\ Was(t)' = Was(t) /\ Becomes(t)' = Becomes(t)
           /\ MarkBefore(t)' = MarkBefore(t) /\ Start(t)' = Start(t)
           /\ Filled(t)' = Filled(t) /\ CopiedRows(t)' = CopiedRows(t)
           /\ CopiedMark(t)' = CopiedMark(t) /\ CarriedMark(t)' = CarriedMark(t)
           /\ from' = from /\ want' = want /\ Others' = Others
           /\ Due.op \notin {"createIndex", "dropIndex"} => IndexesNow(t)' = IndexesNow(t)
           /\ Due.op \notin {"dropTable", "rename", "createIndex", "dropIndex"}
              => RebuiltNow(t)' = RebuiltNow(t)
           /\ Due.op \notin {"createNew", "copy", "carry", "rename"} => NewNow(t)' = NewNow(t)
  <1>1. /\ Was(t)' = Was(t) /\ Becomes(t)' = Becomes(t)
        /\ from' = from /\ want' = want
    BY Fixed DEF Step
  <1>2. /\ MarkBefore(t)' = MarkBefore(t) /\ CopiedRows(t)' = CopiedRows(t)
        /\ Filled(t)' = Filled(t)
    BY <1>1 DEF MarkBefore, CopiedRows, Filled
  <1>3. CopiedMark(t)' = CopiedMark(t) /\ CarriedMark(t)' = CarriedMark(t)
    BY <1>1, <1>2 DEF CopiedMark, CarriedMark
  <1>4. Start(t)' = Start(t)
    BY <1>1, <1>2 DEF Start
  <1>5. Others' = Others
    BY <1>1 DEF Others
  <1>6. \A op, i : Due.op # op => (Awaits(op, t, i)' <=> Awaits(op, t, i))
    BY AwaitsNext
  <1>7. ASSUME Due.op \notin {"createIndex", "dropIndex"}
        PROVE  IndexesNow(t)' = IndexesNow(t)
    BY <1>1, <1>6, <1>7 DEF IndexesNow, IndexNow
  <1>8. ASSUME Due.op \notin {"dropTable", "rename", "createIndex", "dropIndex"}
        PROVE  RebuiltNow(t)' = RebuiltNow(t)
    BY <1>1, <1>2, <1>3, <1>4, <1>6, <1>7, <1>8 DEF RebuiltNow
  <1>9. ASSUME Due.op \notin {"createNew", "copy", "carry", "rename"}
        PROVE  NewNow(t)' = NewNow(t)
    BY <1>1, <1>2, <1>3, <1>6, <1>9 DEF NewNow
  <1>10. QED
    BY <1>1, <1>2, <1>3, <1>4, <1>5, <1>7, <1>8, <1>9

PutColumns(table, columns, held) == [table EXCEPT !.def.columns = columns, !.rows = held]
PutIndex(table, i, n) == [table EXCEPT !.def.indexes[i] = n]

LEMMA ColumnsPut ==
    ASSUME NEW a, NEW columns, NEW more, NEW indexes, NEW held, NEW other, NEW m
    PROVE  PutColumns(Table(With(a, columns, indexes), held, m), more, other)
           = Table(With(a, more, indexes), other, m)
  <1> DEFINE table == Table(With(a, columns, indexes), held, m)
  <1>1. [table.def EXCEPT !.columns = more] = With(a, more, indexes)
    BY DEF Table, With
  <1>2. [table EXCEPT !.def = With(a, more, indexes)] = Table(With(a, more, indexes), held, m)
    BY DEF Table
  <1>3. [Table(With(a, more, indexes), held, m) EXCEPT !.rows = other]
        = Table(With(a, more, indexes), other, m)
    BY DEF Table
  <1> HIDE DEF table
  <1>4. PutColumns(table, more, other) = Table(With(a, more, indexes), other, m)
    BY <1>1, <1>2, <1>3 DEF PutColumns
  <1>5. QED
    BY <1>4 DEF table

LEMMA IndexPut ==
    ASSUME NEW a, NEW columns, NEW indexes, NEW held, NEW m, NEW i, NEW n
    PROVE  PutIndex(Table(With(a, columns, indexes), held, m), i, n)
           = Table(With(a, columns, [indexes EXCEPT ![i] = n]), held, m)
  <1> DEFINE table == Table(With(a, columns, indexes), held, m)
             more == [indexes EXCEPT ![i] = n]
  <1>1. table.def.indexes = indexes /\ table.def = With(a, columns, indexes)
    BY DEF Table, With
  <1>2. [With(a, columns, indexes) EXCEPT !.indexes = more] = With(a, columns, more)
    BY DEF With
  <1>3. [table EXCEPT !.def = With(a, columns, more)] = Table(With(a, columns, more), held, m)
    BY DEF Table
  <1> HIDE DEF table
  <1>4. PutIndex(table, i, n) = Table(With(a, columns, more), held, m)
    BY <1>1, <1>2, <1>3 DEF PutIndex
  <1>5. QED
    BY <1>4 DEF table

LEMMA AddColumnsRuns ==
    ASSUME InputsFit, Running, AddColumns
    PROVE  Running'
  <1> DEFINE b == Was(at)
             a == Becomes(at)
             old == db.tables[at]
             S == {FilledRow(b, a, r) : r \in old.rows}
             v == PutColumns(old, a.columns, S)
  <1>1. PICK t : t = at
    OBVIOUS
  <1>2. Runs("addColumns")
    BY DEF AddColumns
  <1>3. /\ Step /\ rows' = rows /\ Due.op = "addColumns" /\ Wanted("addColumns", t, index)
        /\ Awaits("addColumns", t, index)
        /\ \A any, x, i : Awaits(any, x, i)' <=>
                 Awaits(any, x, i) /\ ~(any = "addColumns" /\ x = t /\ i = index)
    BY <1>1, <1>2, RunsIs DEF Running
  <1>4. /\ t \in Altered(from, want) /\ index = 0 /\ t \in Tables
        /\ AddedColumns(Was(t), Becomes(t)) # {}
    BY <1>3, Classes DEF Wanted
  <1>5. old = AlteredNow(t) /\ new[t] = NoTable /\ t \notin Rebuilt(from, want)
    BY <1>1, <1>4, Classes DEF Running, TablesFollow, TableFollows
  <1>6. old = Table(With(Becomes(t), Was(t).columns, IndexesNow(t)), rows[t], MarkBefore(t))
    BY <1>3, <1>4, <1>5 DEF AlteredNow, ColumnsNow, FilledNow
  <1>7. db' = [db EXCEPT !.tables[at] = v] /\ new' = new
    BY DEF AddColumns, Was, Becomes, PutColumns
  <1>8. S = Filled(t)
    <2>1. old.rows = rows[at]
      BY <1>1, <1>6 DEF Table
    <2>2. S = Filled(at)
      BY <2>1, Zenon DEF Filled
    <2>3. QED
      BY <1>1, <2>2
  <1>9. v = Table(With(Becomes(t), Becomes(t).columns, IndexesNow(t)), Filled(t), MarkBefore(t))
    <2> HIDE DEF S
    <2>1. PutColumns(old, Becomes(t).columns, Filled(t))
          = Table(With(Becomes(t), Becomes(t).columns, IndexesNow(t)), Filled(t), MarkBefore(t))
      <3> HIDE DEF old
      <3>1. QED
        BY <1>6, ColumnsPut
    <2>2. QED
      BY <1>1, <1>8, <2>1
  <1> HIDE DEF v
  <1>10. /\ db'.tables[t] = v /\ db'.objects = db.objects
         /\ \A u \in Tables : u # t => db'.tables[u] = db.tables[u]
         /\ Shaped'
    BY <1>1, <1>4, <1>7, PutTable DEF Running, Shaped
  <1>11. AlteredNow(t)' = v
    BY <1>3, <1>4, <1>9, Unmoved DEF AlteredNow, ColumnsNow, FilledNow
  <1>12. TableFollows(t)'
    BY <1>3, <1>4, <1>5, <1>7, <1>10, <1>11, Classes, Unmoved DEF TableFollows, Others
  <1>13. \A i \in Indexes : HasIndex(v, i) => HasIndex(old, i)
    <2>1. old # NoTable
      BY <1>4, <1>5, AlteredStored DEF Running
    <2>2. v.def.indexes = old.def.indexes
      BY <1>6, <1>9 DEF Table, With
    <2>3. QED
      BY <2>1, <2>2 DEF HasIndex
  <1>14. IndexesFollow'
    BY <1>1, <1>3, <1>10, <1>13, IndexesStay DEF Running
  <1>15. QED
    BY <1>1, <1>2, <1>4, <1>7, <1>10, <1>12, <1>14, OneTableRuns

(* A table that was just created has none of its indexes.                  *)
LEMMA NoIndexesYet ==
    ASSUME InputsFit, InOrder, NEW t \in Added(from, want) \cup Rebuilt(from, want),
           \A i \in IndexesOf(Becomes(t)) : Awaits("createIndex", t, i)
    PROVE  With(Becomes(t), Becomes(t).columns, IndexesNow(t)) = Bare(Becomes(t))
  <1>1. t \in Present(want) /\ t \notin Altered(from, want)
    BY Classes, ClassesAre
  <1>2. \A i : ~Awaits("dropIndex", t, i)
    BY <1>1, WantedIsAwaited DEF Wanted
  <1>3. \A i \in Indexes : IndexNow(t, i) = 0
    BY <1>2 DEF IndexNow, IndexesOf
  <1>4. IndexesNow(t) = [i \in Indexes |-> 0]
    BY <1>3 DEF IndexesNow
  <1>5. QED
    BY <1>1, <1>4, InputsAre, WithIs

LEMMA CreateTableRuns ==
    ASSUME InputsFit, Running, CreateTable
    PROVE  Running'
  <1> DEFINE v == Table(Bare(want.tables[at]), {}, 0)
  <1>1. PICK t : t = at
    OBVIOUS
  <1>2. Runs("createTable")
    BY DEF CreateTable
  <1>3. /\ Step /\ rows' = rows /\ Due.op = "createTable" /\ Wanted("createTable", t, index)
        /\ \A next, x, i : Wanted(next, x, i) /\ Precedes("createTable", t, index, next, x, i)
                           => Awaits(next, x, i)
        /\ \A any, x, i : Awaits(any, x, i)' <=>
                 Awaits(any, x, i) /\ ~(any = "createTable" /\ x = t /\ i = index)
    BY <1>1, <1>2, RunsIs DEF Running
  <1>4. t \in Added(from, want) /\ index = 0 /\ t \in Tables
    BY <1>3, Classes DEF Wanted
  <1>5. new[t] = NoTable /\ t \notin Rebuilt(from, want)
    BY <1>4, Classes DEF Running, TablesFollow, TableFollows
  <1>6. db' = [db EXCEPT !.tables[at] = v] /\ new' = new
    BY DEF CreateTable
  <1>7. v = Table(Bare(Becomes(t)), {}, 0)
    BY <1>1 DEF Becomes
  <1> HIDE DEF v
  <1>8. /\ db'.tables[t] = v /\ db'.objects = db.objects
        /\ \A u \in Tables : u # t => db'.tables[u] = db.tables[u]
        /\ Shaped'
    BY <1>1, <1>4, <1>6, PutTable DEF Running, Shaped
  <1>9. \A i \in IndexesOf(Becomes(t)) : Awaits("createIndex", t, i)
    BY <1>3, <1>4, Precedence DEF Wanted
  <1>10. v = Table(With(Becomes(t), Becomes(t).columns, IndexesNow(t)), {}, 0)
    BY <1>4, <1>7, <1>9, NoIndexesYet DEF Running
  <1>11. AddedNow(t)' = v
    BY <1>3, <1>4, <1>10, Unmoved DEF AddedNow
  <1>12. TableFollows(t)'
    BY <1>3, <1>4, <1>5, <1>6, <1>8, <1>11, Classes, Unmoved DEF TableFollows, Others
  <1>13. \A i \in Indexes : ~HasIndex(v, i)
    <2>1. v.def = Bare(Becomes(t)) /\ Becomes(t) \in Definitions
      BY <1>4, <1>7, ClassesAre, InputsAre DEF Table
    <2>2. QED
      BY <2>1, BareIs DEF HasIndex
  <1>14. IndexesFollow'
    BY <1>1, <1>3, <1>8, <1>13, IndexesStay DEF Running
  <1>15. QED
    BY <1>1, <1>2, <1>4, <1>6, <1>8, <1>12, <1>14, OneTableRuns

(* While an index waits to be dropped, it is there.                        *)
LEMMA OldIndexIsThere ==
    ASSUME InputsFit, Running, NEW t, NEW i, Awaits("dropIndex", t, i)
    PROVE  t \in Altered(from, want) /\ i \in Indexes /\ HasIndex(db.tables[t], i)
  <1>1. Wanted("dropIndex", t, i)
    BY WantedIsAwaited DEF Running
  <1>2. t \in Altered(from, want) /\ t \in Tables /\ i \in OldIndexes(Was(t), Becomes(t))
    BY <1>1, Classes DEF Wanted
  <1>3. i \in Indexes /\ Was(t).indexes[i] # 0
    BY <1>2 DEF OldIndexes, IndexesOf
  <1>4. db.tables[t] = AlteredNow(t) /\ db.tables[t] # NoTable
    BY <1>2, AlteredStored DEF Running, TablesFollow, TableFollows
  <1>5. AlteredNow(t).def.indexes = IndexesNow(t)
    BY DEF AlteredNow, Table, With
  <1>6. IndexesNow(t)[i] # 0
    BY <1>3 DEF IndexesNow, IndexNow
  <1>7. QED
    BY <1>2, <1>3, <1>4, <1>5, <1>6 DEF HasIndex

LEMMA CreateIndexRuns ==
    ASSUME InputsFit, Running, CreateIndex
    PROVE  Running'
  <1> DEFINE old == db.tables[at]
             v == PutIndex(old, index, Becomes(at).indexes[index])
  <1>1. PICK t, i : t = at /\ i = index
    OBVIOUS
  <1> DEFINE a == Becomes(t)
             more == [IndexesNow(t) EXCEPT ![i] = a.indexes[i]]
  <1>2. Runs("createIndex")
    BY DEF CreateIndex
  <1>3. /\ Step /\ rows' = rows /\ Due.op = "createIndex" /\ Wanted("createIndex", t, i)
        /\ \A prior, x, j : Precedes(prior, x, j, "createIndex", t, i) => ~Awaits(prior, x, j)
        /\ \A next, x, j : Wanted(next, x, j) /\ Precedes("createIndex", t, i, next, x, j)
                           => Awaits(next, x, j)
        /\ \A any, x, j : Awaits(any, x, j)' <=>
                 Awaits(any, x, j) /\ ~(any = "createIndex" /\ x = t /\ j = i)
    BY <1>1, <1>2, RunsIs DEF Running
  <1>4. /\ t \in Tables /\ t \in Present(want) /\ i \in Indexes /\ a.indexes[i] # 0
        /\ t \in Altered(from, want) \cup Added(from, want) \cup Rebuilt(from, want)
    BY <1>3, Classes, ClassesAre DEF Wanted, NewIndexes, IndexesOf
  <1>5. \A u \in Tables : ~HasIndex(db.tables[u], i)
    BY <1>1 DEF CreateIndex
  <1>6. ~Awaits("dropIndex", t, i)
    BY <1>4, <1>5, OldIndexIsThere
  <1>7. db' = [db EXCEPT !.tables[at] = v] /\ new' = new
    BY DEF CreateIndex, PutIndex, Becomes
  <1>8. IndexesNow(t)' = more
    <2>1. Becomes(t)' = Becomes(t) /\ Was(t)' = Was(t)
      BY <1>3, Fixed DEF Step
    <2>2. \A j \in Indexes : IndexNow(t, j)' = IF j = i THEN a.indexes[i] ELSE IndexNow(t, j)
      BY <1>3, <1>6, <2>1 DEF IndexNow
    <2>3. IndexesNow(t)' = [j \in Indexes |-> IF j = i THEN a.indexes[i] ELSE IndexNow(t, j)]
      BY <2>2 DEF IndexesNow
    <2>4. more = [j \in Indexes |-> IF j = i THEN a.indexes[i] ELSE IndexNow(t, j)]
      BY <1>4 DEF IndexesNow
    <2>5. QED
      BY <2>3, <2>4
  <1> HIDE DEF more
  <1>9. v = PutIndex(old, i, a.indexes[i])
    BY <1>1
  <1> HIDE DEF v
  <1>10. /\ db'.tables[t] = v /\ db'.objects = db.objects
         /\ \A u \in Tables : u # t => db'.tables[u] = db.tables[u]
         /\ Shaped'
    BY <1>1, <1>4, <1>7, PutTable DEF Running, Shaped
  <1>11. TableFollows(t) /\ t \notin Others /\ t \notin Removed(from, want)
    BY <1>4, Classes DEF Running, TablesFollow, Others
  <1>12. ASSUME NEW columns, NEW held, NEW m,
                old = Table(With(a, columns, IndexesNow(t)), held, m)
         PROVE  v = Table(With(a, columns, IndexesNow(t)'), held, m)
    <2>1. PutIndex(Table(With(a, columns, IndexesNow(t)), held, m), i, a.indexes[i])
          = Table(With(a, columns, more), held, m)
      BY IndexPut DEF more
    <2>2. PutIndex(Table(With(a, columns, IndexesNow(t)), held, m), i, a.indexes[i])
          = Table(With(a, columns, IndexesNow(t)'), held, m)
      BY <1>8, <2>1
    <2> HIDE DEF old, a
    <2>3. QED
      BY <1>9, <1>12, <2>2
  <1>13. ASSUME t \in Altered(from, want) PROVE TableFollows(t)'
    <2>1. old = AlteredNow(t)
      BY <1>1, <1>11, <1>13 DEF TableFollows
    <2>2. v = Table(With(a, ColumnsNow(t), IndexesNow(t)'), FilledNow(t), MarkBefore(t))
      BY <1>12, <2>1 DEF AlteredNow
    <2>3. ColumnsNow(t)' = ColumnsNow(t) /\ FilledNow(t)' = FilledNow(t)
      BY <1>3, Unmoved DEF ColumnsNow, FilledNow
    <2>4. AlteredNow(t)' = v
      BY <1>3, <2>2, <2>3, Unmoved DEF AlteredNow
    <2>5. QED
      BY <1>3, <1>7, <1>10, <1>11, <1>13, <2>4, Classes, Unmoved DEF TableFollows
  <1>14. ASSUME t \in Added(from, want) PROVE TableFollows(t)'
    <2>1. ~Awaits("createTable", t, 0)
      BY <1>3, <1>14, Precedence
    <2>2. old = Table(With(a, a.columns, IndexesNow(t)), {}, 0)
      BY <1>1, <1>11, <1>14, <2>1 DEF TableFollows, AddedNow
    <2>3. v = Table(With(a, a.columns, IndexesNow(t)'), {}, 0)
      BY <1>12, <2>2
    <2>4. AddedNow(t)' = v
      BY <1>3, <2>1, <2>3, Unmoved DEF AddedNow
    <2>5. QED
      BY <1>3, <1>7, <1>10, <1>11, <1>14, <2>4, Classes, Unmoved DEF TableFollows
  <1>15. ASSUME t \in Rebuilt(from, want) PROVE TableFollows(t)'
    <2>1. ~Awaits("dropTable", t, 0) /\ ~Awaits("rename", t, 0)
      BY <1>3, <1>15, Precedence
    <2>2. old = Table(With(a, a.columns, IndexesNow(t)), CopiedRows(t), CarriedMark(t))
      BY <1>1, <1>11, <1>15, <2>1 DEF TableFollows, RebuiltNow
    <2>3. v = Table(With(a, a.columns, IndexesNow(t)'), CopiedRows(t), CarriedMark(t))
      BY <1>12, <2>2
    <2>4. RebuiltNow(t)' = v
      BY <1>3, <2>1, <2>3, Unmoved DEF RebuiltNow
    <2>5. NewNow(t)' = NewNow(t)
      BY <1>3, Unmoved
    <2>6. QED
      BY <1>3, <1>7, <1>10, <1>11, <1>15, <2>4, <2>5, Classes, Unmoved DEF TableFollows
  <1>16. \A j \in Indexes : j # i /\ HasIndex(v, j) => HasIndex(old, j)
    <2>1. PICK columns, held, m : old = Table(With(a, columns, IndexesNow(t)), held, m)
      <3>1. CASE t \in Altered(from, want)
        BY <1>1, <1>11, <3>1 DEF TableFollows, AlteredNow
      <3>2. CASE t \in Added(from, want)
        <4>1. ~Awaits("createTable", t, 0)
          BY <1>3, <3>2, Precedence
        <4>2. QED
          BY <1>1, <1>11, <3>2, <4>1 DEF TableFollows, AddedNow
      <3>3. CASE t \in Rebuilt(from, want)
        <4>1. ~Awaits("dropTable", t, 0) /\ ~Awaits("rename", t, 0)
          BY <1>3, <3>3, Precedence
        <4>2. QED
          BY <1>1, <1>11, <3>3, <4>1 DEF TableFollows, RebuiltNow
      <3>4. QED
        BY <1>4, <3>1, <3>2, <3>3
    <2>2. v = Table(With(a, columns, IndexesNow(t)'), held, m)
      BY <1>12, <2>1
    <2>3. v.def.indexes = more /\ old.def.indexes = IndexesNow(t)
      BY <1>8, <2>1, <2>2 DEF Table, With
    <2>4. \A j \in Indexes : j # i => v.def.indexes[j] = old.def.indexes[j]
      BY <2>3 DEF more, IndexesNow
    <2>5. old # NoTable
      <3>1. CASE t \in Altered(from, want)
        BY <1>1, <1>11, <3>1, AlteredStored DEF TableFollows, Running
      <3>2. CASE t \in Added(from, want)
        <4>1. ~Awaits("createTable", t, 0)
          BY <1>3, <3>2, Precedence
        <4>2. old = Table(With(a, a.columns, IndexesNow(t)), {}, 0)
          BY <1>1, <1>11, <3>2, <4>1 DEF TableFollows, AddedNow
        <4>3. QED
          BY <1>4, <4>2, AddedStored DEF Running
      <3>3. CASE t \in Rebuilt(from, want)
        <4>1. ~Awaits("dropTable", t, 0) /\ ~Awaits("rename", t, 0)
          BY <1>3, <3>3, Precedence
        <4>2. old = Table(With(a, a.columns, IndexesNow(t)), CopiedRows(t), CarriedMark(t))
          BY <1>1, <1>11, <3>3, <4>1 DEF TableFollows, RebuiltNow
        <4>3. QED
          BY <3>3, <4>2, RebuiltStored DEF Running
      <3>4. QED
        BY <1>4, <3>1, <3>2, <3>3
    <2>6. QED
      BY <2>4, <2>5 DEF HasIndex
  <1>17. IndexesFollow'
    <2>1. \A j \in Indexes, x, u \in Tables :
             HasIndex(db'.tables[x], j) /\ HasIndex(db'.tables[u], j) => x = u
      <3> SUFFICES ASSUME NEW j \in Indexes, NEW x \in Tables, NEW u \in Tables,
                          HasIndex(db'.tables[x], j), HasIndex(db'.tables[u], j)
                   PROVE  x = u
        OBVIOUS
      <3>1. CASE j = i
        BY <1>5, <1>10, <3>1
      <3>2. CASE j # i
        <4>1. HasIndex(db.tables[x], j) /\ HasIndex(db.tables[u], j)
          BY <1>1, <1>10, <1>16, <3>2
        <4>2. QED
          BY <4>1 DEF Running, IndexesFollow
      <3>3. QED
        BY <3>1, <3>2
    <2>2. \A x \in Altered(from, want) :
             \A j \in NewIndexes(Was(x), Becomes(x)) \cap OldIndexes(Was(x), Becomes(x)) :
                Awaits("createIndex", x, j)'
      <3> SUFFICES ASSUME NEW x \in Altered(from, want),
                          NEW j \in NewIndexes(Was(x), Becomes(x)) \cap OldIndexes(Was(x), Becomes(x))
                   PROVE  Awaits("createIndex", x, j)'
        OBVIOUS
      <3>1. Awaits("createIndex", x, j)
        BY DEF Running, IndexesFollow
      <3>2. ASSUME x = t, j = i PROVE FALSE
        <4>1. Wanted("dropIndex", t, i)
          BY <3>2 DEF Wanted
        <4>2. Awaits("dropIndex", t, i)
          BY <1>3, <3>2, <4>1, Precedence
        <4>3. QED
          BY <1>6, <4>2
      <3>3. QED
        BY <1>3, <3>1, <3>2
    <2>3. /\ from' = from /\ want' = want
          /\ \A x : Was(x)' = Was(x) /\ Becomes(x)' = Becomes(x)
      BY <1>3, Fixed DEF Step
    <2>4. QED
      BY <2>1, <2>2, <2>3 DEF IndexesFollow
  <1>18. TableFollows(t)'
    BY <1>4, <1>13, <1>14, <1>15
  <1>19. QED
    BY <1>1, <1>2, <1>4, <1>7, <1>10, <1>17, <1>18, OneTableRuns

LEMMA DropIndexRuns ==
    ASSUME InputsFit, Running, DropIndex
    PROVE  Running'
  <1> DEFINE v == PutIndex(db.tables[at], index, 0)
  <1>1. PICK t, i : t = at /\ i = index
    OBVIOUS
  <1> DEFINE a == Becomes(t)
             more == [IndexesNow(t) EXCEPT ![i] = 0]
  <1>2. Runs("dropIndex")
    BY DEF DropIndex
  <1>3. /\ Step /\ rows' = rows /\ Due.op = "dropIndex" /\ Wanted("dropIndex", t, i)
        /\ Awaits("dropIndex", t, i)
        /\ \A prior, x, j : Precedes(prior, x, j, "dropIndex", t, i) => ~Awaits(prior, x, j)
        /\ \A any, x, j : Awaits(any, x, j)' <=>
                 Awaits(any, x, j) /\ ~(any = "dropIndex" /\ x = t /\ j = i)
    BY <1>1, <1>2, RunsIs DEF Running
  <1>4. /\ t \in Altered(from, want) /\ t \in Tables /\ i \in Indexes
        /\ HasIndex(db.tables[t], i)
    BY <1>3, OldIndexIsThere, Classes
  <1>5. \A u \in Tables : HasIndex(db.tables[u], i) <=> u = t
    BY <1>4 DEF Running, IndexesFollow
  <1>6. db' = [db EXCEPT !.tables[at] = v] /\ new' = new
    <2>1. db' = [db EXCEPT !.tables = [u \in Tables |->
                   IF HasIndex(@[u], index) THEN PutIndex(@[u], index, 0) ELSE @[u]]]
          /\ new' = new
      BY DEF DropIndex, PutIndex
    <2> HIDE DEF v
    <2>2. [u \in Tables |-> IF HasIndex(db.tables[u], index)
                            THEN PutIndex(db.tables[u], index, 0) ELSE db.tables[u]]
          = [u \in Tables |-> IF u = at THEN v ELSE db.tables[u]]
      BY <1>1, <1>5 DEF v
    <2>3. [db.tables EXCEPT ![at] = v] = [u \in Tables |-> IF u = at THEN v ELSE db.tables[u]]
      <3>1. db.tables = [u \in Tables |-> db.tables[u]]
        BY DEF Running, Shaped
      <3>2. QED
        BY <3>1
    <2>4. QED
      BY <2>1, <2>2, <2>3
  <1>7. a.indexes[i] = 0
    <2>1. ~Awaits("createIndex", t, i)
      BY <1>3, <1>4, Precedence
    <2>2. i \notin NewIndexes(Was(t), a)
      BY <1>3, <1>4, <2>1, Classes DEF Running, IndexesFollow, Wanted
    <2>3. i \in OldIndexes(Was(t), a)
      BY <1>3, <1>4, Classes DEF Wanted
    <2>4. QED
      BY <2>2, <2>3 DEF NewIndexes, OldIndexes, IndexesOf
  <1>8. IndexesNow(t)' = more
    <2>1. Becomes(t)' = Becomes(t) /\ Was(t)' = Was(t)
      BY <1>3, Fixed DEF Step
    <2>2. ~Awaits("createIndex", t, i)
      BY <1>3, <1>4, Precedence
    <2>3. \A j \in Indexes : IndexNow(t, j)' = IF j = i THEN 0 ELSE IndexNow(t, j)
      BY <1>3, <1>7, <2>1, <2>2 DEF IndexNow
    <2>4. IndexesNow(t)' = [j \in Indexes |-> IF j = i THEN 0 ELSE IndexNow(t, j)]
      BY <2>3 DEF IndexesNow
    <2>5. more = [j \in Indexes |-> IF j = i THEN 0 ELSE IndexNow(t, j)]
      BY <1>4 DEF IndexesNow
    <2>6. QED
      BY <2>4, <2>5
  <1> HIDE DEF v, more
  <1>9. /\ db'.tables[t] = v /\ db'.objects = db.objects
        /\ \A u \in Tables : u # t => db'.tables[u] = db.tables[u]
        /\ Shaped'
    BY <1>1, <1>4, <1>6, PutTable DEF Running, Shaped
  <1>10. TableFollows(t) /\ t \notin Others /\ t \notin Removed(from, want)
         /\ t \notin Added(from, want) /\ t \notin Rebuilt(from, want)
    BY <1>4, Classes DEF Running, TablesFollow, Others
  <1>11. db.tables[t] = Table(With(a, ColumnsNow(t), IndexesNow(t)), FilledNow(t), MarkBefore(t))
    BY <1>4, <1>10 DEF TableFollows, AlteredNow
  <1>12. v = Table(With(a, ColumnsNow(t), more), FilledNow(t), MarkBefore(t))
    <2>1. PutIndex(Table(With(a, ColumnsNow(t), IndexesNow(t)), FilledNow(t), MarkBefore(t)), i, 0)
          = Table(With(a, ColumnsNow(t), more), FilledNow(t), MarkBefore(t))
      BY IndexPut DEF more
    <2>2. v = PutIndex(db.tables[t], i, 0)
      BY <1>1 DEF v
    <2> HIDE DEF a
    <2>3. QED
      BY <1>11, <2>1, <2>2
  <1>13. AlteredNow(t)' = v
    <2>1. ColumnsNow(t)' = ColumnsNow(t) /\ FilledNow(t)' = FilledNow(t)
      BY <1>3, Unmoved DEF ColumnsNow, FilledNow
    <2>2. QED
      BY <1>3, <1>8, <1>12, <2>1, Unmoved DEF AlteredNow
  <1>14. TableFollows(t)'
    BY <1>3, <1>4, <1>6, <1>9, <1>10, <1>13, Unmoved DEF TableFollows
  <1>15. \A j \in Indexes : HasIndex(v, j) => HasIndex(db.tables[t], j)
    <2>1. v.def.indexes = more /\ db.tables[t].def.indexes = IndexesNow(t)
      BY <1>11, <1>12 DEF Table, With
    <2>2. \A j \in Indexes : more[j] # 0 => IndexesNow(t)[j] # 0
      BY DEF more, IndexesNow
    <2>3. db.tables[t] # NoTable
      BY <1>4 DEF HasIndex
    <2>4. QED
      BY <2>1, <2>2, <2>3 DEF HasIndex
  <1>16. IndexesFollow'
    BY <1>3, <1>9, <1>15, IndexesStay DEF Running
  <1>17. QED
    BY <1>1, <1>2, <1>4, <1>6, <1>9, <1>14, <1>16, OneTableRuns

(* Making and filling a new table leaves the database alone.               *)
LEMMA NewTableRuns ==
    ASSUME InputsFit, Running, NEW op \in {"createNew", "copy", "carry"}, Runs(op),
           db' = db, NEW t, t = at, NEW v, new' = [new EXCEPT ![t] = v],
           t \in Rebuilt(from, want), NewNow(t)' = v
    PROVE  Running'
  <1>1. Step /\ rows' = rows /\ Due.op = op
    BY RunsIs DEF Running
  <1>2. t \in Tables /\ TableFollows(t)
    BY Classes DEF Running, TablesFollow
  <1>3. /\ new'[t] = v /\ \A u \in Tables : u # t => new'[u] = new[u]
        /\ Shaped'
    BY <1>2, PutNew DEF Running
  <1>4. /\ t \notin Altered(from, want) /\ t \notin Added(from, want)
        /\ t \notin Removed(from, want) /\ t \notin Others
    BY Classes DEF Others
  <1>5. /\ from' = from /\ want' = want /\ Others' = Others
        /\ RebuiltNow(t)' = RebuiltNow(t)
    BY <1>1, Unmoved
  <1>6. TableFollows(t)'
    BY <1>2, <1>3, <1>4, <1>5 DEF TableFollows
  <1>7. IndexesFollow'
    BY <1>1, IndexesStay DEF Running
  <1>8. QED
    BY <1>2, <1>3, <1>6, <1>7, OneTableRuns

(* The statements before the next one on a table that is rebuilt, and those *)
(* after it.                                                               *)
LEMMA RebuildRuns ==
    ASSUME InputsFit, Running, NEW op, Runs(op), NEW t \in Rebuilt(from, want), t = at
    PROVE  /\ op = "copy" => ~Awaits("createNew", t, 0)
           /\ op = "carry" => ~Awaits("createNew", t, 0) /\ ~Awaits("copy", t, 0)
           /\ op \in {"dropTable", "rename"} =>
                 ~Awaits("createNew", t, 0) /\ ~Awaits("copy", t, 0) /\ ~Awaits("carry", t, 0)
           /\ op = "rename" => ~Awaits("dropTable", t, 0)
           /\ op = "createNew" => Awaits("copy", t, 0)
           /\ op \in {"createNew", "copy"} /\ Becomes(t).auto => Awaits("carry", t, 0)
           /\ op \in {"createNew", "copy", "carry"} => Awaits("dropTable", t, 0)
           /\ op \in {"createNew", "copy", "carry", "dropTable"} => Awaits("rename", t, 0)
           /\ op \in {"createNew", "copy", "carry", "dropTable", "rename"} =>
                 \A i \in IndexesOf(Becomes(t)) : Awaits("createIndex", t, i)
  <1>1. /\ \A prior, x, i : Precedes(prior, x, i, op, t, index) => ~Awaits(prior, x, i)
        /\ \A next, x, i : Wanted(next, x, i) /\ Precedes(op, t, index, next, x, i)
                           => Awaits(next, x, i)
    BY RunsIs DEF Running
  <1>2. /\ \A next \in {"createNew", "copy", "dropTable", "rename"} : Wanted(next, t, 0)
        /\ Becomes(t).auto => Wanted("carry", t, 0)
        /\ \A i \in IndexesOf(Becomes(t)) : Wanted("createIndex", t, i)
    BY DEF Wanted
  <1>3. \A i, j :
          /\ Precedes("createNew", t, i, "copy", t, j)
          /\ \A prior \in {"createNew", "copy"} : Precedes(prior, t, i, "carry", t, j)
          /\ \A prior \in {"createNew", "copy", "carry"} : Precedes(prior, t, i, "dropTable", t, j)
          /\ \A prior \in {"createNew", "copy", "carry", "dropTable"} :
                Precedes(prior, t, i, "rename", t, j)
          /\ \A prior \in {"createNew", "copy", "carry", "dropTable", "rename"} :
                Precedes(prior, t, i, "createIndex", t, j)
    BY Precedence
  <1>4. /\ op = "copy" => ~Awaits("createNew", t, 0)
        /\ op = "carry" => ~Awaits("createNew", t, 0) /\ ~Awaits("copy", t, 0)
        /\ op \in {"dropTable", "rename"} =>
              ~Awaits("createNew", t, 0) /\ ~Awaits("copy", t, 0) /\ ~Awaits("carry", t, 0)
        /\ op = "rename" => ~Awaits("dropTable", t, 0)
    BY <1>1, <1>3
  <1>5. /\ op = "createNew" => Awaits("copy", t, 0)
        /\ op \in {"createNew", "copy"} /\ Becomes(t).auto => Awaits("carry", t, 0)
        /\ op \in {"createNew", "copy", "carry"} => Awaits("dropTable", t, 0)
        /\ op \in {"createNew", "copy", "carry", "dropTable"} => Awaits("rename", t, 0)
    BY <1>1, <1>2, <1>3
  <1>6. op \in {"createNew", "copy", "carry", "dropTable", "rename"} =>
           \A i \in IndexesOf(Becomes(t)) : Awaits("createIndex", t, i)
    BY <1>1, <1>2, <1>3
  <1>7. QED
    BY <1>4, <1>5, <1>6

LEMMA CreateNewRuns ==
    ASSUME InputsFit, Running, CreateNew
    PROVE  Running'
  <1> DEFINE v == Table(Bare(want.tables[at]), {}, 0)
  <1>1. PICK t : t = at
    OBVIOUS
  <1>2. Runs("createNew")
    BY DEF CreateNew
  <1>3. /\ Step /\ rows' = rows /\ Wanted("createNew", t, index)
        /\ \A any, x, i : Awaits(any, x, i)' <=>
                 Awaits(any, x, i) /\ ~(any = "createNew" /\ x = t /\ i = index)
    BY <1>1, <1>2, RunsIs DEF Running
  <1>4. t \in Rebuilt(from, want) /\ index = 0
    BY <1>3 DEF Wanted
  <1>5. Awaits("copy", t, 0) /\ Awaits("rename", t, 0)
    BY <1>1, <1>2, <1>4, RebuildRuns
  <1>6. v = Table(Bare(Becomes(t)), {}, 0)
    BY <1>1 DEF Becomes
  <1>7. NewNow(t)' = Table(Bare(Becomes(t)), {}, 0)
    BY <1>3, <1>4, <1>5, Unmoved DEF NewNow
  <1>8. new' = [new EXCEPT ![t] = v] /\ db' = db
    BY <1>1 DEF CreateNew
  <1> HIDE DEF v
  <1>9. NewNow(t)' = v
    BY <1>6, <1>7
  <1>10. QED
    BY <1>1, <1>2, <1>4, <1>8, <1>9, NewTableRuns

LEMMA CopyRuns ==
    ASSUME InputsFit, Running, Copy
    PROVE  Running'
  <1> DEFINE old == db.tables[at]
             copied == {NewRow(old.def, new[at].def, old.rows, r) : r \in old.rows}
             v == Table(new[at].def, copied, IF new[at].def.auto THEN Highest(copied) ELSE 0)
  <1>1. PICK t : t = at
    OBVIOUS
  <1> DEFINE a == Becomes(t)
  <1>2. Runs("copy")
    BY DEF Copy
  <1>3. /\ Step /\ rows' = rows /\ Wanted("copy", t, index) /\ Awaits("copy", t, index)
        /\ \A any, x, i : Awaits(any, x, i)' <=>
                 Awaits(any, x, i) /\ ~(any = "copy" /\ x = t /\ i = index)
    BY <1>1, <1>2, RunsIs DEF Running
  <1>4. t \in Rebuilt(from, want) /\ index = 0 /\ t \in Tables
    BY <1>3, Classes DEF Wanted
  <1>5. /\ ~Awaits("createNew", t, 0) /\ Awaits("dropTable", t, 0) /\ Awaits("rename", t, 0)
        /\ a.auto => Awaits("carry", t, 0)
    BY <1>1, <1>2, <1>4, RebuildRuns
  <1>6. db.tables[t] = RebuiltNow(t) /\ new[t] = NewNow(t)
    BY <1>4 DEF Running, TablesFollow, TableFollows
  <1>7. new[t] = Table(Bare(a), {}, 0)
    BY <1>3, <1>4, <1>5, <1>6 DEF NewNow
  <1>8. db.tables[t] = Table(Was(t), rows[t], MarkBefore(t))
    BY <1>4, <1>5, <1>6, ClassesAre, StartStored DEF RebuiltNow
  <1>9. /\ new[at].def = Bare(a) /\ old.def = Was(t) /\ old.rows = rows[t]
        /\ Bare(a).auto = a.auto
    <2>1. a \in Definitions
      BY <1>4, ClassesAre, InputsAre
    <2>2. QED
      BY <1>1, <1>7, <1>8, <2>1, BareIs DEF Table
  <1>10. copied = CopiedRows(t)
    BY <1>9, Zenon DEF CopiedRows
  <1>11. v = Table(Bare(a), CopiedRows(t), CopiedMark(t))
    <2> HIDE DEF copied, a
    <2>1. (IF new[at].def.auto THEN Highest(copied) ELSE 0) = CopiedMark(t)
      BY <1>9, <1>10 DEF CopiedMark, a
    <2>2. QED
      BY <1>9, <1>10, <2>1
  <1>12. new' = [new EXCEPT ![t] = v] /\ db' = db
    BY <1>1 DEF Copy
  <1> HIDE DEF v
  <1>13. NewNow(t)' = v
    <2>1. ~a.auto => CopiedMark(t) = CarriedMark(t)
      BY DEF CopiedMark, CarriedMark
    <2>2. Awaits("carry", t, 0) => a.auto
      BY <1>4, WantedIsAwaited DEF Running, Wanted
    <2>3. /\ Awaits("rename", t, 0)' /\ ~Awaits("createNew", t, 0)' /\ ~Awaits("copy", t, 0)'
          /\ Awaits("carry", t, 0)' <=> a.auto
      BY <1>3, <1>4, <1>5, <2>2
    <2>4. NewNow(t)' = Table(Bare(a), CopiedRows(t), CopiedMark(t))
      BY <1>3, <2>1, <2>3, Unmoved DEF NewNow
    <2>5. QED
      BY <1>11, <2>4
  <1>14. QED
    BY <1>1, <1>2, <1>4, <1>12, <1>13, NewTableRuns

LEMMA CarryRuns ==
    ASSUME InputsFit, Running, Carry
    PROVE  Running'
  <1> DEFINE v == [new[at] EXCEPT !.seq = Max({@, db.tables[at].seq})]
  <1>1. PICK t : t = at
    OBVIOUS
  <1> DEFINE a == Becomes(t)
  <1>2. Runs("carry")
    BY DEF Carry
  <1>3. /\ Step /\ rows' = rows /\ Wanted("carry", t, index) /\ Awaits("carry", t, index)
        /\ \A any, x, i : Awaits(any, x, i)' <=>
                 Awaits(any, x, i) /\ ~(any = "carry" /\ x = t /\ i = index)
    BY <1>1, <1>2, RunsIs DEF Running
  <1>4. t \in Rebuilt(from, want) /\ index = 0 /\ t \in Tables /\ a.auto
    BY <1>3, Classes DEF Wanted
  <1>5. /\ ~Awaits("createNew", t, 0) /\ ~Awaits("copy", t, 0)
        /\ Awaits("dropTable", t, 0) /\ Awaits("rename", t, 0)
    BY <1>1, <1>2, <1>4, RebuildRuns
  <1>6. db.tables[t] = RebuiltNow(t) /\ new[t] = NewNow(t)
    BY <1>4 DEF Running, TablesFollow, TableFollows
  <1>7. new[t] = Table(Bare(a), CopiedRows(t), CopiedMark(t))
    BY <1>3, <1>4, <1>5, <1>6 DEF NewNow
  <1>8. db.tables[t] = Table(Was(t), rows[t], MarkBefore(t))
    BY <1>4, <1>5, <1>6, ClassesAre, StartStored DEF RebuiltNow
  <1>9. v = Table(Bare(a), CopiedRows(t), CarriedMark(t))
    <2>1. db.tables[at].seq = MarkBefore(t)
      BY <1>1, <1>8 DEF Table
    <2>2. [Table(Bare(a), CopiedRows(t), CopiedMark(t)) EXCEPT !.seq = Max({@, MarkBefore(t)})]
          = Table(Bare(a), CopiedRows(t), Max({CopiedMark(t), MarkBefore(t)}))
      BY DEF Table
    <2>3. CarriedMark(t) = Max({CopiedMark(t), MarkBefore(t)})
      BY <1>4 DEF CarriedMark
    <2> HIDE DEF a
    <2>4. QED
      BY <1>1, <1>7, <2>1, <2>2, <2>3
  <1>10. new' = [new EXCEPT ![t] = v] /\ db' = db
    <2>1. new = [u \in Tables |-> new[u]]
      BY DEF Running, Shaped
    <2>2. QED
      BY <1>1, <2>1 DEF Carry
  <1> HIDE DEF v
  <1>11. NewNow(t)' = v
    BY <1>3, <1>4, <1>5, <1>9, Unmoved DEF NewNow
  <1>12. QED
    BY <1>1, <1>2, <1>4, <1>10, <1>11, NewTableRuns

LEMMA RenameRuns ==
    ASSUME InputsFit, Running, Rename
    PROVE  Running'
  <1> DEFINE v == new[at]
  <1>1. PICK t : t = at
    OBVIOUS
  <1> DEFINE a == Becomes(t)
  <1>2. Runs("rename")
    BY DEF Rename
  <1>3. /\ Step /\ rows' = rows /\ Due.op = "rename" /\ Wanted("rename", t, index)
        /\ Awaits("rename", t, index) /\ InOrder'
        /\ \A any, x, i : Awaits(any, x, i)' <=>
                 Awaits(any, x, i) /\ ~(any = "rename" /\ x = t /\ i = index)
    BY <1>1, <1>2, RunsIs DEF Running
  <1>4. t \in Rebuilt(from, want) /\ index = 0 /\ t \in Tables
    BY <1>3, Classes DEF Wanted
  <1>5. /\ ~Awaits("createNew", t, 0) /\ ~Awaits("copy", t, 0) /\ ~Awaits("carry", t, 0)
        /\ ~Awaits("dropTable", t, 0)
        /\ \A i \in IndexesOf(a) : Awaits("createIndex", t, i)
    BY <1>1, <1>2, <1>4, RebuildRuns
  <1>6. new[t] = NewNow(t)
    BY <1>4 DEF Running, TablesFollow, TableFollows
  <1>7. new[t] = Table(Bare(a), CopiedRows(t), CarriedMark(t))
    BY <1>3, <1>4, <1>5, <1>6 DEF NewNow
  <1>8. /\ db' = [db EXCEPT !.tables[at] = v] /\ new' = [new EXCEPT ![at] = NoTable]
    BY DEF Rename
  <1>9. v = Table(With(a, a.columns, IndexesNow(t)), CopiedRows(t), CarriedMark(t))
    BY <1>1, <1>4, <1>5, <1>7, NoIndexesYet DEF Running
  <1> HIDE DEF v
  <1>10. /\ new'[t] = NoTable /\ \A u \in Tables : u # t => new'[u] = new[u]
         /\ new' = [u \in Tables |-> new'[u]]
    BY <1>1, <1>4, <1>8, PutNew DEF Running
  <1>11. /\ db'.tables[t] = v /\ db'.objects = db.objects
         /\ \A u \in Tables : u # t => db'.tables[u] = db.tables[u]
         /\ Shaped'
    BY <1>1, <1>4, <1>8, <1>10, PutTable DEF Running
  <1>12. RebuiltNow(t)' = v
    <2>1. IndexesNow(t)' = IndexesNow(t)
      BY <1>3, Unmoved
    <2>2. ~Awaits("dropTable", t, 0)' /\ ~Awaits("rename", t, 0)'
      BY <1>3, <1>4, <1>5
    <2>3. QED
      BY <1>3, <1>9, <2>1, <2>2, Unmoved DEF RebuiltNow
  <1>13. NewNow(t)' = NoTable
    BY <1>3, <1>4 DEF NewNow
  <1>14. TableFollows(t)'
    <2>1. /\ t \notin Altered(from, want) /\ t \notin Added(from, want)
          /\ t \notin Removed(from, want) /\ t \notin Others
      BY <1>4, Classes DEF Others
    <2>2. /\ from' = from /\ want' = want /\ Others' = Others
      BY <1>3, Unmoved
    <2>3. QED
      BY <1>4, <1>10, <1>11, <1>12, <1>13, <2>1, <2>2 DEF TableFollows
  <1>15. \A i \in Indexes : ~HasIndex(v, i)
    <2>1. v.def = Bare(a) /\ a \in Definitions
      BY <1>1, <1>4, <1>7, ClassesAre, InputsAre DEF Table, v
    <2>2. QED
      BY <2>1, BareIs DEF HasIndex
  <1>16. IndexesFollow'
    BY <1>3, <1>11, <1>15, IndexesStay DEF Running
  <1>17. QED
    BY <1>1, <1>2, <1>4, <1>10, <1>11, <1>14, <1>16, OneTableRuns

-----------------------------------------------------------------------------
(***************************************************************************)
(* What becomes of triggers and views.                                     *)
(***************************************************************************)

(* Before the first of them comes back, all that shall come back wait.     *)
LEMMA NoneIsBack ==
    ASSUME InputsFit, Running, NEW op, Runs(op), op \in {"dropObject", "dropTable"},
           NEW o \in Dropped(from, want)
    PROVE  /\ want.objects[o] # NoObject => Awaits("createObject", o, 0)
           /\ ~Awaits("dropObject", o, 0) => db.objects[o] = NoObject
  <1>1. \A next, x, i : Wanted(next, x, i) /\ Precedes(op, at, index, next, x, i)
                        => Awaits(next, x, i)
    BY RunsIs DEF Running
  <1>2. Wanted(op, at, index)
    BY RunsIs DEF Running
  <1>3. o \in Objects
    BY DroppedAre
  <1>4. ASSUME want.objects[o] # NoObject PROVE Awaits("createObject", o, 0)
    <2>1. Wanted("createObject", o, 0)
      BY <1>4 DEF Recreated, Wanted
    <2>2. Precedes(op, at, index, "createObject", o, 0)
      <3>1. CASE op = "dropObject"
        <4>1. at \in Objects
          BY <1>2, <3>1, DroppedAre DEF Wanted
        <4>2. QED
          BY <1>3, <3>1, <4>1, Precedence
      <3>2. CASE op = "dropTable"
        <4>1. at \in Removed(from, want) \cup Rebuilt(from, want)
          BY <1>2, <3>2 DEF Wanted
        <4>2. QED
          BY <1>3, <3>2, <4>1, Precedence
      <3>3. QED
        BY <3>1, <3>2
    <2>3. QED
      BY <1>1, <2>1, <2>2
  <1>5. ASSUME ~Awaits("dropObject", o, 0) PROVE db.objects[o] = NoObject
    BY <1>3, <1>4, <1>5 DEF Running, ObjectsComeBack, ObjectFollows
  <1>6. QED
    BY <1>4, <1>5

(* A trigger or view that names what is rebuilt, or what is dropped, is    *)
(* dropped; one that is on what goes for good cannot stay as it is.        *)
LEMMA DroppedWith ==
    ASSUME InputsFit, NEW o \in Objects, o \notin Dropped(from, want),
           from.objects[o] # NoObject, NEW r, from.objects[o].on = r,
           r \in Removed(from, want) \cup Rebuilt(from, want) \cup Dropped(from, want)
    PROVE  o \in Triggers /\ from.objects[o] # want.objects[o]
  <1>1. r \in Tables \cup Objects
    BY Classes, DroppedAre
  <1>2. o \in Triggers /\ r \in from.objects[o].names
    BY <1>1, NamesAssumption DEF InputsFit, WellFormed, Objects
  <1>3. r \notin Rebuilt(from, want) /\ r \notin Affected(Rebuilt(from, want), from)
    BY <1>2, AffectedIsClosed DEF ClosedUnder, Dropped
  <1>4. ASSUME from.objects[o] = want.objects[o] PROVE FALSE
    <2>1. r \notin Affected(Rebuilt(from, want), want)
      BY <1>2, <1>4, AffectedIsClosed DEF ClosedUnder, Dropped
    <2>2. r \in Removed(from, want)
      BY <1>3, <2>1 DEF Dropped
    <2>3. Has(want, r)
      BY <1>2, <1>4 DEF InputsFit, WellFormed
    <2>4. QED
      BY <2>2, <2>3, NamesAssumption DEF Has, Removed, Present, Objects
  <1>5. QED
    BY <1>2, <1>4

(* What a DROP TABLE or DROP VIEW takes along.                             *)
LEMMA WithoutFollows ==
    ASSUME InputsFit, Running, NEW op, Runs(op), op \in {"dropObject", "dropTable"},
           db'.objects = Without(db.objects, at)
    PROVE  ObjectsComeBack'
  <1>1. /\ Step /\ rows' = rows /\ Wanted(op, at, index)
        /\ \A any, x, i : Awaits(any, x, i)' <=>
                 Awaits(any, x, i) /\ ~(any = op /\ x = at /\ i = index)
    BY RunsIs DEF Running
  <1>2. from' = from /\ want' = want
    BY <1>1 DEF Step
  <1> SUFFICES ASSUME NEW o \in Objects PROVE ObjectFollows(o)'
    BY DEF ObjectsComeBack
  <1>3. ObjectFollows(o)
    BY DEF Running, ObjectsComeBack
  <1>4. \/ db'.objects[o] = db.objects[o] /\ (o = at => db.objects[o] = NoObject)
        \/ db'.objects[o] = NoObject /\ db.objects[o] # NoObject
           /\ (o = at \/ db.objects[o].on = at)
    BY DEF Without
  <1>5. at \in Removed(from, want) \cup Rebuilt(from, want) \cup Dropped(from, want)
    BY <1>1 DEF Wanted
  <1>6. Awaits("createObject", o, 0)' <=> Awaits("createObject", o, 0)
    BY <1>1
  <1>7. ASSUME o \in Dropped(from, want) PROVE ObjectFollows(o)'
    <2>1. /\ want.objects[o] # NoObject => Awaits("createObject", o, 0)
          /\ ~Awaits("dropObject", o, 0) => db.objects[o] = NoObject
      BY <1>7, NoneIsBack
    <2>2. CASE Awaits("dropObject", o, 0)'
      <3>1. Awaits("dropObject", o, 0)
        BY <1>1, <2>2
      <3>2. db'.objects[o] \in {from.objects[o], NoObject}
        BY <1>3, <1>4, <1>7, <3>1 DEF ObjectFollows
      <3>3. QED
        BY <1>2, <1>7, <2>2, <3>2 DEF ObjectFollows
    <2>3. CASE ~Awaits("dropObject", o, 0)'
      <3>1. ~Awaits("dropObject", o, 0) \/ o = at
        BY <1>1, <2>3
      <3>2. db'.objects[o] = NoObject
        BY <1>4, <2>1, <3>1
      <3>3. QED
        BY <1>2, <1>6, <1>7, <2>1, <2>3, <3>2 DEF ObjectFollows
    <2>4. QED
      BY <2>2, <2>3
  <1>8. ASSUME o \notin Dropped(from, want) PROVE ObjectFollows(o)'
    <2>1. CASE db'.objects[o] = db.objects[o]
      BY <1>2, <1>3, <1>8, <2>1 DEF ObjectFollows
    <2>2. CASE db'.objects[o] # db.objects[o]
      <3>1. db'.objects[o] = NoObject /\ db.objects[o] # NoObject
            /\ (o = at \/ db.objects[o].on = at)
        BY <1>4, <2>2
      <3>2. db.objects[o] = from.objects[o]
        BY <1>3, <1>8, <3>1 DEF ObjectFollows
      <3>3. o # at
        BY <1>5, <1>8, Classes, NamesAssumption
      <3>4. o \in Triggers /\ from.objects[o] # want.objects[o]
        BY <1>5, <1>8, <3>1, <3>2, <3>3, DroppedWith
      <3>5. QED
        BY <1>2, <1>8, <3>1, <3>4 DEF ObjectFollows
    <2>3. QED
      BY <2>1, <2>2
  <1>9. QED
    BY <1>7, <1>8

(* A statement about a trigger or view changes no table.                   *)
LEMMA NoTableRuns ==
    ASSUME InputsFit, Running, NEW op \in {"dropObject", "createObject"}, Runs(op),
           NEW w, w = [o \in Objects |-> w[o]], db' = [db EXCEPT !.objects = w],
           new' = new, db'.objects = w => ObjectsComeBack'
    PROVE  Running'
  <1>1. Step /\ rows' = rows /\ Due.op = op /\ InOrder' /\ Wanted(op, at, index)
    BY RunsIs DEF Running
  <1>2. at \notin Tables
    BY <1>1, DroppedAre, NamesAssumption DEF Wanted
  <1>3. db' = [tables |-> db.tables, objects |-> w]
    BY DEF Running, Shaped
  <1>4. db'.tables = db.tables /\ db'.objects = w
    BY <1>3
  <1>5. Shaped'
    BY <1>3, <1>4 DEF Running, Shaped
  <1>6. TablesFollow'
    <2> SUFFICES ASSUME NEW t \in Tables PROVE TableFollows(t)'
      BY DEF TablesFollow
    <2>1. TableFollows(t) /\ t # at
      BY <1>2 DEF Running, TablesFollow
    <2>2. QED
      BY <1>1, <1>4, <2>1, OthersFollow
  <1>7. IndexesFollow'
    BY <1>1, <1>4, IndexesStay DEF Running
  <1>8. QED
    BY <1>1, <1>4, <1>5, <1>6, <1>7 DEF Running

LEMMA DropObjectRuns ==
    ASSUME InputsFit, Running, DropObject
    PROVE  Running'
  <1> DEFINE w == Without(db.objects, at)
  <1>1. Runs("dropObject") /\ db' = [db EXCEPT !.objects = w] /\ new' = new
    BY DEF DropObject
  <1>2. w = [o \in Objects |-> w[o]]
    BY DEF Without
  <1>3. db'.objects = w => ObjectsComeBack'
    BY <1>1, WithoutFollows
  <1> HIDE DEF w
  <1>4. QED
    BY <1>1, <1>2, <1>3, NoTableRuns

LEMMA CreateObjectRuns ==
    ASSUME InputsFit, Running, CreateObject
    PROVE  Running'
  <1> DEFINE w == [db.objects EXCEPT ![at] = want.objects[at]]
  <1>1. Runs("createObject") /\ db' = [db EXCEPT !.objects = w] /\ new' = new
    BY DEF CreateObject
  <1>2. /\ Step /\ rows' = rows /\ Wanted("createObject", at, index)
        /\ \A prior, x, i : Precedes(prior, x, i, "createObject", at, index)
                            => ~Awaits(prior, x, i)
        /\ \A any, x, i : Awaits(any, x, i)' <=>
                 Awaits(any, x, i) /\ ~(any = "createObject" /\ x = at /\ i = index)
    BY <1>1, RunsIs DEF Running
  <1>3. at \in Dropped(from, want) /\ at \in Objects /\ index = 0
    BY <1>2, DroppedAre DEF Wanted
  <1>4. ~Awaits("dropObject", at, 0)
    BY <1>2, <1>3, Precedence
  <1>5. /\ w = [o \in Objects |-> w[o]]
        /\ w[at] = want.objects[at] /\ \A o \in Objects : o # at => w[o] = db.objects[o]
    <2>1. db.objects = [o \in Objects |-> db.objects[o]]
      BY DEF Running, Shaped
    <2>2. QED
      BY <1>3, <2>1
  <1> HIDE DEF w
  <1>6. ASSUME db'.objects = w PROVE ObjectsComeBack'
    <2> SUFFICES ASSUME NEW o \in Objects PROVE ObjectFollows(o)'
      BY DEF ObjectsComeBack
    <2>1. from' = from /\ want' = want
      BY <1>2 DEF Step
    <2>2. CASE o = at
      BY <1>2, <1>3, <1>4, <1>5, <1>6, <2>1, <2>2 DEF ObjectFollows
    <2>3. CASE o # at
      <3>1. /\ Awaits("dropObject", o, 0)' <=> Awaits("dropObject", o, 0)
            /\ Awaits("createObject", o, 0)' <=> Awaits("createObject", o, 0)
        BY <1>2, <2>3
      <3>2. ObjectFollows(o)
        BY DEF Running, ObjectsComeBack
      <3>3. db'.objects[o] = db.objects[o]
        BY <1>5, <1>6, <2>3
      <3>4. QED
        BY <2>1, <3>1, <3>2, <3>3 DEF ObjectFollows
    <2>4. QED
      BY <2>2, <2>3
  <1>7. QED
    BY <1>1, <1>5, <1>6, NoTableRuns

LEMMA DropTableRuns ==
    ASSUME InputsFit, Running, DropTable
    PROVE  Running'
  <1> DEFINE w == Without(db.objects, at)
  <1>1. PICK t : t = at
    OBVIOUS
  <1>2. Runs("dropTable") /\ new' = new
    BY DEF DropTable
  <1>3. /\ Step /\ rows' = rows /\ Due.op = "dropTable" /\ Wanted("dropTable", t, index)
        /\ InOrder'
        /\ \A any, x, i : Awaits(any, x, i)' <=>
                 Awaits(any, x, i) /\ ~(any = "dropTable" /\ x = t /\ i = index)
    BY <1>1, <1>2, RunsIs DEF Running
  <1>4. t \in Removed(from, want) \cup Rebuilt(from, want) /\ t \in Tables /\ index = 0
    BY <1>3, Classes DEF Wanted
  <1>5. db' = [tables |-> [db.tables EXCEPT ![t] = NoTable], objects |-> w]
    BY <1>1 DEF DropTable, Running, Shaped
  <1>6. w = [o \in Objects |-> w[o]]
    BY DEF Without
  <1>7. ObjectsComeBack'
    BY <1>2, <1>5, WithoutFollows
  <1> HIDE DEF w
  <1>8. /\ db'.tables = [db.tables EXCEPT ![t] = NoTable] /\ db'.objects = w
    BY <1>5
  <1>9. /\ db'.tables[t] = NoTable
        /\ \A u \in Tables : u # t => db'.tables[u] = db.tables[u]
        /\ db'.tables = [u \in Tables |-> db'.tables[u]]
    <2>1. db.tables = [u \in Tables |-> db.tables[u]]
      BY DEF Running, Shaped
    <2>2. QED
      BY <1>4, <1>8, <2>1
  <1>10. Shaped'
    BY <1>2, <1>5, <1>6, <1>8, <1>9 DEF Running, Shaped
  <1>11. TableFollows(t)'
    <2>1. /\ from' = from /\ want' = want /\ Others' = Others /\ NewNow(t)' = NewNow(t)
      BY <1>3, Unmoved
    <2>2. TableFollows(t)
      BY <1>4 DEF Running, TablesFollow
    <2>3. ~Awaits("dropTable", t, 0)'
      BY <1>3, <1>4
    <2>4. /\ t \notin Altered(from, want) /\ t \notin Added(from, want) /\ t \notin Others
      BY <1>4, Classes DEF Others
    <2>5. RemovedNow(t)' = NoTable
      BY <2>3 DEF RemovedNow
    <2>6. ASSUME t \in Rebuilt(from, want) PROVE RebuiltNow(t)' = NoTable
      <3>1. Awaits("rename", t, 0)
        BY <1>1, <1>2, <2>6, RebuildRuns
      <3>2. Awaits("rename", t, 0)'
        BY <1>3, <3>1
      <3>3. QED
        BY <2>3, <3>2 DEF RebuiltNow
    <2>7. QED
      BY <1>2, <1>9, <2>1, <2>2, <2>4, <2>5, <2>6 DEF TableFollows
  <1>12. TablesFollow'
    <2> SUFFICES ASSUME NEW u \in Tables PROVE TableFollows(u)'
      BY DEF TablesFollow
    <2>1. CASE u = t
      BY <1>11, <2>1
    <2>2. CASE u # t
      <3>1. TableFollows(u)
        BY DEF Running, TablesFollow
      <3>2. QED
        BY <1>1, <1>2, <1>3, <1>9, <2>2, <3>1, OthersFollow
    <2>3. QED
      BY <2>1, <2>2
  <1>13. IndexesFollow'
    <2>1. \A u \in Tables, i \in Indexes :
             HasIndex(db'.tables[u], i) => HasIndex(db.tables[u], i)
      BY <1>9 DEF HasIndex
    <2>2. QED
      BY <1>3, <2>1, IndexesStay DEF Running
  <1>14. QED
    BY <1>3, <1>7, <1>10, <1>12, <1>13 DEF Running

-----------------------------------------------------------------------------
(***************************************************************************)
(* The invariant.                                                          *)
(***************************************************************************)
LEMMA InvStarts == Init => Inv
  <1> SUFFICES ASSUME Init PROVE Inv
    OBVIOUS
  <1>1. PICK e \in Edits : from = e.from /\ want = e.want
    BY DEF Init
  <1>2. PICK ids \in RowSets :
           rows = [t \in Tables |->
                     IF from.tables[t] = NoTable THEN {} ELSE Held(from.tables[t], ids)]
    BY DEF Init
  <1>3. InputsFit
    BY <1>1, <1>2, EditsAssumption DEF InputsFit, Was
  <1>4. Untouched
    <2>1. \A t : (IF from.tables[t] = NoTable THEN NoTable
                  ELSE Table(from.tables[t], rows[t], IF from.tables[t].auto THEN Mark ELSE 0))
                 = Start(t)
      BY DEF Start, Was, MarkBefore
    <2>2. db = [tables |-> [t \in Tables |-> Start(t)], objects |-> from.objects]
      BY <2>1, Zenon DEF Init
    <2>3. QED
      BY <2>2 DEF Init, Untouched
  <1>5. QED
    BY <1>3, <1>4 DEF Inv, Init

(* Where a body begins.                                                    *)
LEMMA ScriptStarts ==
    ASSUME InputsFit, Untouched, todo' = Script,
           UNCHANGED <<from, want, rows, db, new>>
    PROVE  Running'
  <1>1. /\ from' = from /\ want' = want /\ rows' = rows /\ db' = db /\ new' = new
    OBVIOUS
  <1>2. /\ \A op, x, i : StatementOf(op, x, i)' = StatementOf(op, x, i)
        /\ Script' = Script
        /\ \A t : Was(t)' = Was(t) /\ Becomes(t)' = Becomes(t)
    BY <1>1, Fixed
  <1>3. \A op, x, i : Awaits(op, x, i)' <=> Wanted(op, x, i)
    <2> TAKE op, x, i
    <2>1. /\ StatementOf(op, x, i).op = op /\ StatementOf(op, x, i).at = x
          /\ StatementOf(op, x, i).index = i
      BY DEF StatementOf, Statement
    <2>2. StatementOf(op, x, i) \in Script => Wanted(op, x, i)
      BY <2>1, ScriptIs
    <2>3. QED
      BY <1>2, <2>2, ScriptHas DEF Awaits
  <1>4. InOrder'
    BY <1>2 DEF InOrder
  <1>5. /\ db.tables = [t \in Tables |-> Start(t)] /\ db.objects = from.objects
        /\ new = [t \in Tables |-> NoTable]
    BY DEF Untouched
  <1>6. Shaped'
    <2>1. from.objects = [o \in Objects |-> from.objects[o]]
      BY DEF InputsFit, Schemas
    <2>2. db = [tables |-> db.tables, objects |-> db.objects]
      BY <1>5 DEF Untouched
    <2>3. db.tables = [t \in Tables |-> db.tables[t]]
      BY <1>5
    <2>4. new = [t \in Tables |-> new[t]]
      BY <1>5
    <2>5. QED
      BY <1>1, <1>5, <2>1, <2>2, <2>3, <2>4 DEF Shaped
  <1>7. \A t : /\ MarkBefore(t)' = MarkBefore(t) /\ Start(t)' = Start(t)
    BY <1>1, <1>2 DEF MarkBefore, Start
  <1>8. TablesFollow'
    <2> SUFFICES ASSUME NEW t \in Tables PROVE TableFollows(t)'
      BY DEF TablesFollow
    <2>1. db'.tables[t] = Start(t) /\ new'[t] = NoTable
      BY <1>1, <1>5
    <2>2. ASSUME t \in Altered(from, want) PROVE AlteredNow(t)' = Start(t)
      <3>1. t \in Present(from) /\ t \in Present(want)
        BY <2>2, ClassesAre
      <3>2. /\ Was(t) \in Definitions /\ Becomes(t) \in Definitions
            /\ Alike(Was(t), Becomes(t))
            /\ AddedColumns(Was(t), Becomes(t)) = {} => Was(t).columns = Becomes(t).columns
        BY <2>2, <3>1, ClassesAre, InputsAre
      <3>3. ColumnsNow(t)' = Was(t).columns /\ FilledNow(t)' = rows[t]
        BY <1>1, <1>2, <1>3, <2>2, <3>2 DEF ColumnsNow, FilledNow, Wanted
      <3>4. \A i \in Indexes : IndexNow(t, i)' = Was(t).indexes[i]
        <4> SUFFICES ASSUME NEW i \in Indexes PROVE IndexNow(t, i)' = Was(t).indexes[i]
          OBVIOUS
        <4>1. Awaits("dropIndex", t, i)' <=> i \in OldIndexes(Was(t), Becomes(t))
          BY <1>3, <2>2 DEF Wanted
        <4>2. Awaits("createIndex", t, i)' <=> i \in NewIndexes(Was(t), Becomes(t))
          BY <1>3, <2>2, Classes DEF Wanted
        <4>3. QED
          BY <1>2, <4>1, <4>2 DEF IndexNow, NewIndexes, OldIndexes, IndexesOf
      <3>5. IndexesNow(t)' = Was(t).indexes
        BY <3>2, <3>4, WithIs, ZenonT(40) DEF IndexesNow
      <3>6. With(Becomes(t), Was(t).columns, Was(t).indexes) = Was(t)
        <4>1. With(Becomes(t), Was(t).columns, Was(t).indexes)
              = With(Was(t), Was(t).columns, Was(t).indexes)
          BY <3>2 DEF With, Alike
        <4>2. QED
          BY <3>2, <4>1, WithIs
      <3>7. QED
        BY <1>2, <1>7, <3>1, <3>3, <3>5, <3>6, StartStored DEF AlteredNow
    <2>3. ASSUME t \in Added(from, want) PROVE AddedNow(t)' = Start(t)
      <3>1. Was(t) = NoTable
        BY <2>3, ClassesAre, InputsAre
      <3>2. Awaits("createTable", t, 0)'
        BY <1>3, <2>3 DEF Wanted
      <3>3. QED
        BY <3>1, <3>2 DEF AddedNow, Start
    <2>4. ASSUME t \in Removed(from, want) PROVE RemovedNow(t)' = Start(t)
      <3>1. Awaits("dropTable", t, 0)'
        BY <1>3, <2>4 DEF Wanted
      <3>2. QED
        BY <1>7, <3>1 DEF RemovedNow
    <2>5. ASSUME t \in Rebuilt(from, want)
          PROVE  RebuiltNow(t)' = Start(t) /\ NewNow(t)' = NoTable
      <3>1. Awaits("dropTable", t, 0)' /\ Awaits("createNew", t, 0)'
        BY <1>3, <2>5 DEF Wanted
      <3>2. QED
        BY <1>7, <3>1 DEF RebuiltNow, NewNow
    <2>6. QED
      BY <1>1, <1>7, <2>1, <2>2, <2>3, <2>4, <2>5 DEF TableFollows, Others
  <1>9. IndexesFollow'
    <2>1. \A t \in Tables, i \in Indexes : HasIndex(db.tables[t], i) =>
             from.tables[t] # NoTable /\ from.tables[t].indexes[i] # 0
      BY <1>5 DEF HasIndex, Start, Was, Table
    <2>2. \A i \in Indexes, t, u \in Tables :
             HasIndex(db.tables[t], i) /\ HasIndex(db.tables[u], i) => t = u
      BY <2>1 DEF InputsFit, WellFormed
    <2>3. \A t \in Altered(from, want) :
             \A i \in NewIndexes(Was(t), Becomes(t)) : Awaits("createIndex", t, i)'
      BY <1>3 DEF Wanted
    <2>4. QED
      BY <1>1, <1>2, <2>2, <2>3 DEF IndexesFollow
  <1>10. ObjectsComeBack'
    <2>1. \A o \in Dropped(from, want) : Awaits("dropObject", o, 0)'
      BY <1>3 DEF Wanted
    <2>2. QED
      BY <1>1, <1>5, <2>1 DEF ObjectsComeBack, ObjectFollows
  <1>11. QED
    BY <1>4, <1>6, <1>8, <1>9, <1>10 DEF Running

(* An edit that changes no table has nothing to generate.                  *)
LEMMA InvGenerates ==
    ASSUME Inv, Generate
    PROVE  Inv'
  <1>1. /\ InputsFit /\ pc = "generate" /\ outcome = "none" /\ todo = {} /\ Untouched
    BY DEF Inv, Generate
  <1>2. UNCHANGED <<from, want, allow, rows, db, new>>
    BY DEF Generate, inputs
  <1>3. InputsFit'
    BY <1>1, <1>2 DEF InputsFit, Was
  <1>4. Untouched'
    <2>1. \A t : Start(t)' = Start(t)
      BY <1>2 DEF Start, Was, MarkBefore
    <2>2. [t \in Tables |-> Start(t)]' = [t \in Tables |-> Start(t)]
      BY <2>1
    <2>3. QED
      BY <1>1, <1>2, <2>2 DEF Untouched
  <1>5. CASE \E o \in {"unchanged", "refused"} : End(o) /\ UNCHANGED todo
    BY <1>1, <1>3, <1>4, <1>5 DEF End, Inv
  <1>6. CASE /\ todo' = Script /\ pc' = "run" /\ UNCHANGED outcome
             /\ Destructive(from, want) => allow
    <2>1. Running'
      BY <1>1, <1>2, <1>6, ScriptStarts
    <2>2. Destructive(from, want)' => allow'
      BY <1>2, <1>6
    <2>3. QED
      BY <1>1, <1>3, <1>6, <2>1, <2>2 DEF Inv
  <1>7. QED
    BY <1>5, <1>6 DEF Generate, Script

(* A statement that runs.                                                  *)
LEMMA InvRuns ==
    ASSUME Inv, NEW op, Runs(op), InputsFit /\ Running => Running'
    PROVE  Inv'
  <1>1. /\ InputsFit /\ pc = "run" /\ outcome = "none"
        /\ Destructive(from, want) => allow
        /\ Running
    BY DEF Inv, Runs
  <1>2. UNCHANGED <<from, want, allow, rows, pc, outcome>>
    BY DEF Runs, inputs
  <1>3. InputsFit'
    BY <1>1, <1>2 DEF InputsFit, Was
  <1>4. Destructive(from, want)' => allow'
    BY <1>1, <1>2
  <1>5. QED
    BY <1>1, <1>2, <1>3, <1>4 DEF Inv

LEMMA RunningStays ==
    ASSUME Running, UNCHANGED <<from, want, rows, db, new, todo>>
    PROVE  Running'
  <1>1. /\ \A op, x, i : StatementOf(op, x, i)' = StatementOf(op, x, i)
        /\ Script' = Script
        /\ \A t : Was(t)' = Was(t) /\ Becomes(t)' = Becomes(t)
    BY Fixed
  <1>2. \A op, x, i : Awaits(op, x, i)' <=> Awaits(op, x, i)
    BY <1>1 DEF Awaits
  <1>3. InOrder'
    BY <1>1 DEF Running, InOrder
  <1>4. Shaped'
    BY DEF Running, Shaped
  <1>5. \A t : /\ IndexesNow(t)' = IndexesNow(t) /\ MarkBefore(t)' = MarkBefore(t)
               /\ Filled(t)' = Filled(t) /\ CopiedRows(t)' = CopiedRows(t)
    BY <1>1, <1>2 DEF IndexesNow, IndexNow, MarkBefore, Filled, CopiedRows
  <1>6. \A t : CopiedMark(t)' = CopiedMark(t) /\ CarriedMark(t)' = CarriedMark(t)
               /\ Start(t)' = Start(t)
    BY <1>1, <1>5 DEF CopiedMark, CarriedMark, Start
  <1>7. \A t : /\ AlteredNow(t)' = AlteredNow(t) /\ AddedNow(t)' = AddedNow(t)
               /\ RemovedNow(t)' = RemovedNow(t) /\ RebuiltNow(t)' = RebuiltNow(t)
               /\ NewNow(t)' = NewNow(t)
    <2> TAKE t
    <2>1. AlteredNow(t)' = AlteredNow(t)
      BY <1>1, <1>2, <1>5 DEF AlteredNow, ColumnsNow, FilledNow
    <2>2. AddedNow(t)' = AddedNow(t) /\ RemovedNow(t)' = RemovedNow(t)
      BY <1>1, <1>2, <1>5, <1>6 DEF AddedNow, RemovedNow
    <2>3. RebuiltNow(t)' = RebuiltNow(t)
      BY <1>1, <1>2, <1>5, <1>6 DEF RebuiltNow
    <2>4. NewNow(t)' = NewNow(t)
      BY <1>1, <1>2, <1>5, <1>6 DEF NewNow
    <2>5. QED
      BY <2>1, <2>2, <2>3, <2>4
  <1>8. TablesFollow'
    BY <1>6, <1>7 DEF Running, TablesFollow, TableFollows, Others
  <1>9. IndexesFollow'
    BY <1>1, <1>2 DEF Running, IndexesFollow
  <1>10. ObjectsComeBack'
    BY <1>2 DEF Running, ObjectsComeBack, ObjectFollows
  <1>11. QED
    BY <1>3, <1>4, <1>8, <1>9, <1>10 DEF Running

LEMMA InvSteps == Inv /\ [Next]_vars => Inv'
  <1> SUFFICES ASSUME Inv, [Next]_vars PROVE Inv'
    OBVIOUS
  <1>1. CASE Generate
    BY <1>1, InvGenerates
  <1>2. CASE DropObject
    BY <1>2, DropObjectRuns, InvRuns DEF DropObject
  <1>3. CASE DropTable
    BY <1>3, DropTableRuns, InvRuns DEF DropTable
  <1>4. CASE CreateTable
    BY <1>4, CreateTableRuns, InvRuns DEF CreateTable
  <1>5. CASE AddColumns
    BY <1>5, AddColumnsRuns, InvRuns DEF AddColumns
  <1>6. CASE CreateIndex
    BY <1>6, CreateIndexRuns, InvRuns DEF CreateIndex
  <1>7. CASE DropIndex
    BY <1>7, DropIndexRuns, InvRuns DEF DropIndex
  <1>8. CASE CreateNew
    BY <1>8, CreateNewRuns, InvRuns DEF CreateNew
  <1>9. CASE Copy
    BY <1>9, CopyRuns, InvRuns DEF Copy
  <1>10. CASE Carry
    BY <1>10, CarryRuns, InvRuns DEF Carry
  <1>11. CASE Rename
    BY <1>11, RenameRuns, InvRuns DEF Rename
  <1>12. CASE CreateObject
    BY <1>12, CreateObjectRuns, InvRuns DEF CreateObject
  <1>13. CASE Fails \/ Finish
    <2>1. InputsFit /\ pc = "run" /\ Running /\ (Destructive(from, want) => allow)
      BY <1>13 DEF Inv, Fails, Finish
    <2>2. UNCHANGED <<from, want, allow, rows, db, new, todo>>
      BY <1>13 DEF Fails, Finish, inputs
    <2>3. Running' /\ InputsFit'
      BY <2>1, <2>2, RunningStays DEF InputsFit, Was
    <2>4. \/ pc' = "end" /\ outcome' = "failed"
          \/ pc' = "end" /\ outcome' = "done" /\ todo' = {}
      BY <1>13 DEF Fails, Finish, End
    <2>5. Destructive(from, want)' => allow'
      BY <2>1, <2>2
    <2>6. QED
      BY <2>3, <2>4, <2>5 DEF Inv
  <1>14. CASE UNCHANGED vars
    <2>1. UNCHANGED <<from, want, allow, rows, db, new, pc, todo, outcome>>
      BY <1>14 DEF vars
    <2>2. InputsFit'
      BY <2>1 DEF Inv, InputsFit, Was
    <2>3. Running => Running'
      BY <2>1, RunningStays
    <2>4. Untouched => Untouched'
      <3>1. \A t : Start(t)' = Start(t)
        BY <2>1 DEF Start, Was, MarkBefore
      <3>2. [t \in Tables |-> Start(t)]' = [t \in Tables |-> Start(t)]
        BY <3>1
      <3>3. QED
        BY <2>1, <3>2 DEF Untouched
    <2>5. (Destructive(from, want) => allow) => (Destructive(from, want) => allow)'
      BY <2>1
    <2>6. QED
      BY <2>1, <2>2, <2>3, <2>4, <2>5 DEF Inv
  <1>15. QED
    BY <1>1, <1>2, <1>3, <1>4, <1>5, <1>6, <1>7, <1>8, <1>9, <1>10, <1>11, <1>12, <1>13, <1>14
       DEF Next

(* What a table holds, and which triggers and views are there, follows at  *)
(* every moment from the statements that have not run.                     *)
THEOREM Invariance == Spec => []Inv
  BY InvStarts, InvSteps, PTL DEF Spec

-----------------------------------------------------------------------------
(***************************************************************************)
(* What the invariant shows.                                               *)
(***************************************************************************)
LEMMA TablesStored ==
    ASSUME InputsFit, Running, NEW t \in Tables
    PROVE  /\ db.tables[t] = NoTable \/ Stored(db.tables[t])
           /\ new[t] = NoTable \/ Stored(new[t])
  <1>1. TableFollows(t) /\ InOrder
    BY DEF Running, TablesFollow
  <1>2. t \in Present(from) => Stored(Start(t))
    BY StartStored
  <1>3. t \notin Present(from) => Start(t) = NoTable
    BY InputsAre DEF Start
  <1>4. Start(t) = NoTable \/ Stored(Start(t))
    BY <1>2, <1>3
  <1>5. CASE t \in Altered(from, want)
    <2>1. db.tables[t] = AlteredNow(t) /\ new[t] = NoTable
      BY <1>1, <1>5, Classes DEF TableFollows
    <2>2. QED
      BY <1>1, <1>5, <2>1, AlteredStored
  <1>6. CASE t \in Added(from, want)
    <2>1. db.tables[t] = AddedNow(t) /\ new[t] = NoTable
      BY <1>1, <1>6, Classes DEF TableFollows
    <2>2. AddedNow(t) = NoTable \/ Stored(AddedNow(t))
      BY <1>1, <1>6, ClassesAre, AddedStored DEF AddedNow
    <2>3. QED
      BY <2>1, <2>2
  <1>7. CASE t \in Removed(from, want)
    <2>1. db.tables[t] = RemovedNow(t) /\ new[t] = NoTable
      BY <1>1, <1>7, Classes DEF TableFollows
    <2>2. QED
      BY <1>4, <2>1 DEF RemovedNow
  <1>8. CASE t \in Rebuilt(from, want)
    <2>1. db.tables[t] = RebuiltNow(t) /\ new[t] = NewNow(t)
      BY <1>1, <1>8 DEF TableFollows
    <2>2. /\ Stored(Table(With(Becomes(t), Becomes(t).columns, IndexesNow(t)),
                          CopiedRows(t), CarriedMark(t)))
          /\ Stored(Table(Bare(Becomes(t)), CopiedRows(t), CopiedMark(t)))
          /\ Stored(Table(Bare(Becomes(t)), CopiedRows(t), CarriedMark(t)))
          /\ Stored(Table(Bare(Becomes(t)), {}, 0))
      BY <1>1, <1>8, ClassesAre, RebuiltStored, AddedStored
    <2>3. RebuiltNow(t) = NoTable \/ Stored(RebuiltNow(t))
      BY <1>4, <2>2 DEF RebuiltNow
    <2>4. NewNow(t) = NoTable \/ Stored(NewNow(t))
      BY <2>2 DEF NewNow
    <2>5. QED
      BY <2>1, <2>3, <2>4
  <1>9. CASE t \in Others
    <2>1. db.tables[t] = Start(t) /\ new[t] = NoTable
      BY <1>1, <1>9 DEF TableFollows, Others
    <2>2. QED
      BY <1>4, <2>1
  <1>10. QED
    BY <1>5, <1>6, <1>7, <1>8, <1>9 DEF Others

LEMMA InvTypes == Inv => TypeOK
  <1> SUFFICES ASSUME Inv PROVE TypeOK
    OBVIOUS
  <1>1. /\ InputsFit
        /\ pc \in {"generate", "run", "end"}
        /\ outcome \in {"none", "unchanged", "refused", "failed", "done"}
        /\ Untouched \/ Running
    BY DEF Inv
  <1>2. /\ from.objects \in [Objects -> ObjectDefinitions \cup {NoObject}]
        /\ want.objects \in [Objects -> ObjectDefinitions \cup {NoObject}]
    BY <1>1 DEF InputsFit, Schemas
  <1>3. CASE Untouched
    <2>1. /\ db.tables = [t \in Tables |-> Start(t)] /\ db.objects = from.objects
          /\ new = [t \in Tables |-> NoTable]
      BY <1>3 DEF Untouched
    <2>2. \A t \in Tables : Start(t) = NoTable \/ Stored(Start(t))
      BY <1>1, StartStored, InputsAre DEF Start
    <2>3. QED
      BY <1>1, <1>2, <2>1, <2>2 DEF TypeOK
  <1>4. CASE Running
    <2>1. \A t \in Tables : /\ db.tables[t] = NoTable \/ Stored(db.tables[t])
                            /\ new[t] = NoTable \/ Stored(new[t])
      BY <1>1, <1>4, TablesStored
    <2>2. \A o \in Objects : db.objects[o] \in {from.objects[o], want.objects[o], NoObject}
      BY <1>4 DEF Running, ObjectsComeBack, ObjectFollows
    <2>3. db.objects = [o \in Objects |-> db.objects[o]]
      BY <1>4 DEF Running, Shaped
    <2>4. \A o \in Objects : db.objects[o] \in ObjectDefinitions \cup {NoObject}
      BY <1>2, <2>2
    <2>5. db.objects \in [Objects -> ObjectDefinitions \cup {NoObject}]
      BY <2>3, <2>4
    <2>6. QED
      BY <1>1, <2>1, <2>5 DEF TypeOK
  <1>5. QED
    BY <1>1, <1>3, <1>4

(* When the body has run.                                                  *)
LEMMA AtTheEnd ==
    ASSUME Inv, outcome = "done", NEW t \in Tables
    PROVE  /\ Destructive(from, want) => allow
           /\ t \in Altered(from, want) => db.tables[t] = Table(Becomes(t),
                 IF AddedColumns(Was(t), Becomes(t)) = {} THEN rows[t] ELSE Filled(t),
                 MarkBefore(t))
           /\ t \in Added(from, want) => db.tables[t] = Table(Becomes(t), {}, 0)
           /\ t \in Removed(from, want) => db.tables[t] = NoTable
           /\ t \in Rebuilt(from, want) =>
                 db.tables[t] = Table(Becomes(t), CopiedRows(t), CarriedMark(t))
           /\ t \in Others => db.tables[t] = Start(t)
           /\ \A o \in Objects : ObjectFollows(o)
           /\ \A op, x, i : ~Awaits(op, x, i)
           /\ InputsFit
  <1>1. /\ InputsFit /\ Running /\ todo = {}
        /\ Destructive(from, want) => allow
    BY DEF Inv
  <1>2. \A op, x, i : ~Awaits(op, x, i)
    BY <1>1 DEF Awaits
  <1>3. TableFollows(t)
    BY <1>1 DEF Running, TablesFollow
  <1>4. ASSUME t \in Present(want)
        PROVE  /\ IndexesNow(t) = Becomes(t).indexes
               /\ With(Becomes(t), Becomes(t).columns, IndexesNow(t)) = Becomes(t)
    <2>1. Becomes(t) \in Definitions
      BY <1>1, <1>4, InputsAre
    <2>2. Becomes(t).indexes = [i \in Indexes |-> Becomes(t).indexes[i]]
      BY <2>1, WithIs
    <2>3. IndexesNow(t) = [i \in Indexes |-> Becomes(t).indexes[i]]
      BY <1>2 DEF IndexesNow, IndexNow
    <2>4. QED
      BY <2>1, <2>2, <2>3, WithIs
  <1>5. ASSUME t \in Altered(from, want)
        PROVE  db.tables[t] = Table(Becomes(t),
                  IF AddedColumns(Was(t), Becomes(t)) = {} THEN rows[t] ELSE Filled(t),
                  MarkBefore(t))
    <2>1. With(Becomes(t), Becomes(t).columns, IndexesNow(t)) = Becomes(t)
      BY <1>1, <1>4, <1>5, ClassesAre
    <2>2. ColumnsNow(t) = Becomes(t).columns
      BY <1>2 DEF ColumnsNow
    <2>3. FilledNow(t) = IF AddedColumns(Was(t), Becomes(t)) = {} THEN rows[t] ELSE Filled(t)
      BY <1>2 DEF FilledNow
    <2>4. QED
      BY <1>3, <1>5, <2>1, <2>2, <2>3 DEF TableFollows, AlteredNow
  <1>6. t \in Added(from, want) => db.tables[t] = Table(Becomes(t), {}, 0)
    BY <1>1, <1>2, <1>3, <1>4, ClassesAre DEF TableFollows, AddedNow
  <1>7. t \in Removed(from, want) => db.tables[t] = NoTable
    BY <1>2, <1>3 DEF TableFollows, RemovedNow
  <1>8. t \in Rebuilt(from, want) =>
           db.tables[t] = Table(Becomes(t), CopiedRows(t), CarriedMark(t))
    BY <1>1, <1>2, <1>3, <1>4, ClassesAre DEF TableFollows, RebuiltNow
  <1>9. t \in Others => db.tables[t] = Start(t)
    BY <1>3 DEF TableFollows
  <1>10. \A o \in Objects : ObjectFollows(o)
    BY <1>1 DEF Running, ObjectsComeBack
  <1>11. QED
    BY <1>1, <1>2, <1>5, <1>6, <1>7, <1>8, <1>9, <1>10

LEMMA InvReaches == Inv => SchemaReached
  <1> SUFFICES ASSUME Inv, outcome = "done", NEW t \in Tables
               PROVE  IF want.tables[t] = NoTable THEN db.tables[t] = NoTable
                      ELSE db.tables[t] # NoTable /\ db.tables[t].def = want.tables[t]
    BY DEF SchemaReached
  <1>1. InputsFit
    BY AtTheEnd
  <1>2. /\ db.tables[t] = NoTable \/ Stored(db.tables[t])
        /\ NoTable \notin StoredTables
    BY InvTypes, NamesAssumption DEF TypeOK
  <1>3. CASE t \in Altered(from, want) \cup Added(from, want) \cup Rebuilt(from, want)
    <2>1. want.tables[t] # NoTable
      BY <1>1, <1>3, ClassesAre DEF Present
    <2>2. PICK held, m : db.tables[t] = Table(want.tables[t], held, m)
      BY <1>3, AtTheEnd DEF Becomes
    <2>3. db.tables[t].def = want.tables[t]
      BY <2>2 DEF Table
    <2>4. db.tables[t] # NoTable
      <3>1. CASE t \in Altered(from, want)
        <4>1. db.tables[t] = AlteredNow(t) /\ InOrder
          BY <3>1 DEF Inv, Running, TablesFollow, TableFollows
        <4>2. QED
          BY <1>1, <3>1, <4>1, AlteredStored
      <3>2. CASE t \in Added(from, want)
        <4>1. db.tables[t] = AddedNow(t) /\ InOrder
          BY <3>2 DEF Inv, Running, TablesFollow, TableFollows
        <4>2. ~Awaits("createTable", t, 0)
          BY AtTheEnd
        <4>3. QED
          BY <1>1, <3>2, <4>1, <4>2, ClassesAre, AddedStored DEF AddedNow
      <3>3. CASE t \in Rebuilt(from, want)
        <4>1. db.tables[t] = RebuiltNow(t) /\ InOrder
          BY <3>3 DEF Inv, Running, TablesFollow, TableFollows
        <4>2. ~Awaits("dropTable", t, 0) /\ ~Awaits("rename", t, 0)
          BY AtTheEnd
        <4>3. QED
          BY <1>1, <3>3, <4>1, <4>2, RebuiltStored DEF RebuiltNow
      <3>4. QED
        BY <1>3, <3>1, <3>2, <3>3
    <2>5. QED
      BY <2>1, <2>3, <2>4
  <1>4. CASE t \in Removed(from, want)
    BY <1>1, <1>4, AtTheEnd, ClassesAre DEF Present
  <1>5. CASE t \in Others
    <2>1. db.tables[t] = Start(t) /\ Was(t) = Becomes(t)
      BY <1>1, <1>5, AtTheEnd, ClassesAre
    <2>2. CASE t \in Present(from)
      <3>1. db.tables[t] # NoTable /\ db.tables[t].def = Was(t)
        BY <1>1, <2>1, <2>2, StartStored DEF Table
      <3>2. QED
        BY <2>1, <2>2, <3>1 DEF Was, Becomes, Present
    <2>3. CASE t \notin Present(from)
      BY <2>1, <2>3 DEF Was, Becomes, Present, Start
    <2>4. QED
      BY <2>2, <2>3
  <1>6. QED
    BY <1>3, <1>4, <1>5 DEF Others

LEMMA InvFollows == Inv => ObjectsFollow
  <1> SUFFICES ASSUME Inv, outcome = "done", NEW o \in Objects
               PROVE  \/ db.objects[o] = want.objects[o]
                      \/ /\ from.objects[o] # want.objects[o]
                         /\ \A s \in {from, want} : s.objects[o] # NoObject =>
                               s.objects[o].names \cap Rebuilt(from, want) = {}
    BY DEF ObjectsFollow
  <1>1. ObjectFollows(o) /\ \A op, x, i : ~Awaits(op, x, i)
    <2>1. Tables # {} => ObjectFollows(o) /\ \A op, x, i : ~Awaits(op, x, i)
      BY AtTheEnd
    <2>2. Running /\ todo = {}
      BY DEF Inv
    <2>3. QED
      BY <2>2 DEF Running, ObjectsComeBack, Awaits
  <1>2. CASE o \in Dropped(from, want)
    BY <1>1, <1>2 DEF ObjectFollows
  <1>3. CASE o \notin Dropped(from, want)
    <2>1. \A s \in {from, want} : o \notin Affected(Rebuilt(from, want), s)
      BY <1>3 DEF Dropped
    <2>2. \A s \in {from, want} : s.objects[o] # NoObject =>
             s.objects[o].names \cap Rebuilt(from, want) = {}
      BY <2>1, AffectedIsClosed DEF ClosedUnder
    <2>3. db.objects[o] = from.objects[o] \/ from.objects[o] # want.objects[o]
      BY <1>1, <1>3 DEF ObjectFollows
    <2>4. QED
      BY <2>2, <2>3
  <1>4. QED
    BY <1>2, <1>3

LEMMA InvMarks == Inv => MarkSurvives
  <1> SUFFICES ASSUME Inv, outcome = "done", NEW t \in Present(from) \cap Present(want),
                      Was(t).auto, Becomes(t).auto
               PROVE  db.tables[t].seq >= Mark
    BY DEF MarkSurvives, Was, Becomes
  <1>1. InputsFit /\ t \in Tables /\ MarkBefore(t) = Mark /\ Mark \in Nat
    BY AtTheEnd, RowsAssumption DEF Present, MarkBefore
  <1>2. t \in Altered(from, want) \cup Rebuilt(from, want) \cup Others
    <2>1. t \notin Added(from, want) /\ t \notin Removed(from, want)
      BY DEF Added, Removed
    <2>2. QED
      BY <1>1, <2>1 DEF Others
  <1>3. CASE t \in Altered(from, want) \cup Others
    <2>1. \E d, held : db.tables[t] = Table(d, held, MarkBefore(t))
      <3>1. CASE t \in Altered(from, want)
        BY <1>1, <3>1, AtTheEnd
      <3>2. CASE t \in Others
        BY <1>1, <3>2, AtTheEnd, StartStored
      <3>3. QED
        BY <1>3, <3>1, <3>2
    <2>2. db.tables[t].seq = MarkBefore(t)
      BY <2>1 DEF Table
    <2>3. QED
      BY <1>1, <2>2
  <1>4. CASE t \in Rebuilt(from, want)
    <2>1. db.tables[t] = Table(Becomes(t), CopiedRows(t), CarriedMark(t))
      BY <1>1, <1>4, AtTheEnd
    <2>2. db.tables[t].seq = CarriedMark(t)
      BY <2>1 DEF Table
    <2>3. CarriedMark(t) >= MarkBefore(t)
      BY <1>1, <1>4, CopiedFit
    <2>4. QED
      BY <1>1, <2>2, <2>3
  <1>5. QED
    BY <1>2, <1>3, <1>4

(* A row of a table that gains columns keeps its id and what it holds.     *)
Keeps(b, held, filled) ==
    /\ Cardinality(filled) = Cardinality(held)
    /\ \A r \in held : \E q \in filled :
          /\ q.id = r.id
          /\ \A c \in Columns : b.columns[c].is # "none" => q.values[c] = r.values[c]

LEMMA FilledKeeps ==
    ASSUME NEW b \in Definitions, NEW a \in Definitions, Alike(b, a),
           NEW held, FirstRows(b, held), NEW filled,
           filled = {FilledRow(b, a, r) : r \in held}
    PROVE  Keeps(b, held, filled)
  <1> DEFINE f == [r \in held |-> FilledRow(b, a, r)]
  <1>1. filled = {f[r] : r \in held}
    OBVIOUS
  <1>2. /\ held \in SUBSET Rows /\ \A q, r \in held : q.id = r.id => q = r
        /\ IsFiniteSet(held)
    BY DEF FirstRows, RowsFit
  <1>3. ASSUME NEW r \in held
        PROVE  /\ f[r].id = r.id
               /\ \A c \in Columns : b.columns[c].is # "none" => f[r].values[c] = r.values[c]
    <2>1. r \in Rows
      BY <1>2
    <2>2. f[r].id = r.id /\ f[r].values = FilledValues(b, a, r)
      BY <2>1, FilledRowIs
    <2>3. \A c \in Columns : b.columns[c].is # "none" => b.columns[c] = a.columns[c]
      BY DEF Alike
    <2> HIDE DEF f
    <2>4. QED
      BY <2>2, <2>3 DEF FilledValues
  <1> HIDE DEF f
  <1>4. f \in Bijection(held, filled)
    <2>1. \A q, r \in held : f[q] = f[r] => q = r
      BY <1>2, <1>3
    <2>2. f = [r \in held |-> f[r]]
      BY DEF f
    <2>3. QED
      BY <1>1, <2>1, <2>2 DEF Bijection, Injection, Surjection, IsInjective
  <1>5. Cardinality(filled) = Cardinality(held)
    BY <1>2, <1>4, FS_Bijection DEF ExistsBijection
  <1>6. QED
    BY <1>1, <1>3, <1>5 DEF Keeps

(* When the rows of a rebuilt table keep their ids.                        *)
SameId(b, a) ==
    \/ a.key # 0 /\ a.key = b.key
    \/ /\ b.rowid /\ a.rowid
       /\ a.key = 0 \/ b.columns[a.key].is = "none"
       /\ \E n \in Spellings : \A c \in {n} : b.columns[c].is = "none" /\ a.columns[c].is = "none"

LEMMA CopyKeeps ==
    ASSUME NEW b \in Definitions, Sound(b), NEW a \in Definitions, Sound(a),
           NEW held, FirstRows(b, held), NEW r \in held
    PROVE  LET q == NewRow(b, a, held, r)
           IN  /\ \A c \in Columns : b.columns[c].is # "none" /\ a.columns[c].is = "plain"
                                     => q.values[c] = r.values[c]
               /\ SameId(b, a) => q.id = r.id
  <1> DEFINE id == RowId(b, a, held, r)
             q == NewRow(b, a, held, r)
  <1>1. q.id = id /\ q.values = NewValues(b, a, held, r)
    BY NewRowIs
  <1>2. /\ b.key # 0 => r.values[b.key] = r.id
    BY DEF FirstRows, RowsFit
  <1>3. a.key # 0 => a.rowid /\ a.columns[a.key].is = "plain" /\ a.key \in Columns
    BY DEF Sound, Definitions
  <1>4. b.key # 0 => b.rowid /\ b.columns[b.key].is = "plain" /\ b.key \in Columns
    BY DEF Sound, Definitions
  <1>5. ASSUME a.key # 0, a.key \in Named(b)
        PROVE  id = r.values[a.key]
    <2>1. Carried(b, a) = "none"
      BY <1>5 DEF Carried
    <2>2. a.rowid /\ a.key \in Copied(b, a)
      BY <1>3, <1>5 DEF Copied
    <2>3. QED
      BY <2>1, <2>2 DEF RowId
  <1>6. ASSUME NEW c \in Columns, b.columns[c].is # "none", a.columns[c].is = "plain"
        PROVE  q.values[c] = r.values[c]
    <2>1. c \in Copied(b, a) /\ c \in Named(b) /\ c # 0
      BY <1>6, NamesAssumption DEF Copied, Named
    <2>2. c = a.key => id = r.values[c]
      BY <1>5, <2>1
    <2>3. a.columns[c].is \notin Generated \cup {"none"}
      BY <1>6 DEF Generated
    <2>4. NewValues(b, a, held, r)[c] = IF c = a.key THEN id ELSE r.values[c]
      BY <2>1, <2>3 DEF NewValues
    <2> HIDE DEF q, id
    <2>5. QED
      BY <1>1, <2>2, <2>4
  <1>7. ASSUME SameId(b, a) PROVE q.id = r.id
    <2>1. CASE a.key # 0 /\ a.key = b.key
      <3>1. a.key \in Named(b)
        BY <1>4, <2>1 DEF Named
      <3>2. id = r.id
        BY <1>2, <1>5, <2>1, <3>1
      <3>3. QED
        BY <1>1, <3>2
    <2>2. CASE /\ b.rowid /\ a.rowid
               /\ a.key = 0 \/ b.columns[a.key].is = "none"
               /\ \E n \in Spellings : \A c \in {n} : b.columns[c].is = "none" /\ a.columns[c].is = "none"
      <3>1. a.key = 0 \/ a.key \notin Named(b)
        BY <2>2 DEF Named
      <3>2. ~(Spellings \subseteq Named(b) \cup Named(a))
        BY <2>2 DEF Named
      <3>3. Carried(b, a) # "none"
        BY <2>2, <3>1, <3>2 DEF Carried
      <3>4. id = r.id
        BY <3>3 DEF RowId
      <3>5. QED
        BY <1>1, <3>4
    <2>3. QED
      BY <1>7, <2>1, <2>2 DEF SameId
  <1>8. QED
    BY <1>6, <1>7

(* What RowsSurvive says of one table.                                     *)
Survive(t) ==
    /\ Cardinality(db.tables[t].rows) = Cardinality(rows[t])
    /\ \A r \in rows[t] : \E q \in db.tables[t].rows :
          /\ \A c \in Columns : Was(t).columns[c].is # "none" /\ Becomes(t).columns[c].is = "plain"
                                => q.values[c] = r.values[c]
          /\ SameId(Was(t), Becomes(t)) => q.id = r.id

LEMMA RowsLive ==
    ASSUME Inv, outcome = "done", NEW t \in Present(from) \cap Present(want)
    PROVE  Survive(t)
  <1> DEFINE b == Was(t)
             a == Becomes(t)
  <1>1. InputsFit /\ t \in Tables
    BY AtTheEnd DEF Present
  <1>2. /\ b \in Definitions /\ Sound(b) /\ FirstRows(b, rows[t])
        /\ a \in Definitions /\ Sound(a)
    BY <1>1, InputsAre
  <1>3. t \in Altered(from, want) \cup Rebuilt(from, want) \cup Others
    <2>1. t \notin Added(from, want) /\ t \notin Removed(from, want)
      BY DEF Added, Removed
    <2>2. QED
      BY <1>1, <2>1 DEF Others
  <1>4. ASSUME db.tables[t].rows = rows[t] PROVE Survive(t)
    BY <1>4 DEF Survive
  <1>5. CASE t \in Altered(from, want)
    <2>1. db.tables[t] = Table(a, IF AddedColumns(b, a) = {} THEN rows[t] ELSE Filled(t),
                               MarkBefore(t))
      BY <1>1, <1>5, AtTheEnd
    <2>2. db.tables[t].rows = IF AddedColumns(b, a) = {} THEN rows[t] ELSE Filled(t)
      BY <2>1 DEF Table
    <2>3. Alike(b, a)
      BY <1>1, <1>5, ClassesAre
    <2>4. Keeps(b, rows[t], Filled(t))
      <3>1. Filled(t) = {FilledRow(b, a, r) : r \in rows[t]}
        BY DEF Filled
      <3> HIDE DEF a, b
      <3>2. QED
        BY <1>2, <2>3, <3>1, FilledKeeps
    <2>5. CASE db.tables[t].rows = Filled(t)
      BY <2>4, <2>5 DEF Survive, Keeps
    <2>6. QED
      BY <1>4, <2>2, <2>5
  <1>6. CASE t \in Rebuilt(from, want)
    <2>1. db.tables[t] = Table(a, CopiedRows(t), CarriedMark(t))
      BY <1>1, <1>6, AtTheEnd
    <2>2. db.tables[t].rows = CopiedRows(t)
      BY <2>1 DEF Table
    <2>3. Cardinality(CopiedRows(t)) = Cardinality(rows[t])
      BY <1>1, <1>6, CopiedFit
    <2>4. /\ Bare(a) \in Definitions /\ Sound(Bare(a))
          /\ Bare(a).columns = a.columns /\ Bare(a).key = a.key /\ Bare(a).rowid = a.rowid
      BY <1>2, WithIs, BareIs
    <2>5. SameId(b, a) <=> SameId(b, Bare(a))
      BY <2>4 DEF SameId
    <2>6. ASSUME NEW r \in rows[t]
          PROVE  \E q \in CopiedRows(t) :
                    /\ \A c \in Columns : b.columns[c].is # "none" /\ a.columns[c].is = "plain"
                                          => q.values[c] = r.values[c]
                    /\ SameId(b, a) => q.id = r.id
      <3> DEFINE q == NewRow(b, Bare(a), rows[t], r)
      <3>1. q \in CopiedRows(t)
        BY DEF CopiedRows
      <3>2. /\ \A c \in Columns : b.columns[c].is # "none" /\ Bare(a).columns[c].is = "plain"
                                  => q.values[c] = r.values[c]
            /\ SameId(b, Bare(a)) => q.id = r.id
        BY <1>2, <2>4, CopyKeeps
      <3> HIDE DEF q
      <3>3. QED
        BY <2>4, <2>5, <3>1, <3>2
    <2>7. QED
      BY <2>2, <2>3, <2>6 DEF Survive
  <1>7. CASE t \in Others
    <2>1. db.tables[t] = Table(Was(t), rows[t], MarkBefore(t))
      BY <1>1, <1>7, AtTheEnd, StartStored
    <2>2. db.tables[t].rows = rows[t]
      BY <2>1 DEF Table
    <2>3. QED
      BY <1>4, <2>2
  <1>8. QED
    BY <1>3, <1>5, <1>6, <1>7

LEMMA InvRows == Inv => RowsSurvive
  <1> DEFINE same(t) == {c \in Columns : from.tables[t].columns[c].is # "none"
                                         /\ want.tables[t].columns[c].is = "plain"}
             sameId(t) == SameId(from.tables[t], want.tables[t])
             lives(t) == /\ Cardinality(db.tables[t].rows) = Cardinality(rows[t])
                         /\ \A r \in rows[t] : \E q \in db.tables[t].rows :
                               /\ \A c \in same(t) : q.values[c] = r.values[c]
                               /\ sameId(t) => q.id = r.id
  <1>1. (outcome = "done" => \A t \in Present(from) \cap Present(want) : lives(t)) => RowsSurvive
    BY Zenon DEF RowsSurvive, SameId
  <1>2. ASSUME Inv, outcome = "done", NEW t \in Present(from) \cap Present(want)
        PROVE  lives(t)
    <2>1. Survive(t)
      BY <1>2, RowsLive
    <2>2. \A c \in same(t) : c \in Columns /\ Was(t).columns[c].is # "none"
                            /\ Becomes(t).columns[c].is = "plain"
      BY DEF Was, Becomes
    <2>3. sameId(t) <=> SameId(Was(t), Becomes(t))
      BY DEF Was, Becomes
    <2> HIDE DEF same, sameId
    <2>4. QED
      BY <2>1, <2>2, <2>3, ZenonT(40) DEF Survive
  <1>3. QED
    BY <1>1, <1>2

LEMMA InvLoses == Inv => NothingLostUnasked
  <1> SUFFICES ASSUME Inv, outcome = "done", ~allow, NEW t \in Present(from)
               PROVE  /\ db.tables[t] # NoTable
                      /\ \A r \in rows[t], c \in Columns : from.tables[t].columns[c].is = "plain" =>
                            \E q \in db.tables[t].rows : q.values[c] = r.values[c]
    BY DEF NothingLostUnasked
  <1>1. t \in Tables
    BY DEF Present
  <1>2. ~Destructive(from, want) /\ InputsFit
    BY <1>1, AtTheEnd
  <1>3. t \in Present(want)
    BY <1>2 DEF Destructive, Removed
  <1>4. db.tables[t] # NoTable
    BY <1>1, <1>3, InvReaches DEF SchemaReached, Present
  <1>5. Survive(t)
    BY <1>3, RowsLive
  <1>6. ASSUME NEW r \in rows[t], NEW c \in Columns, Was(t).columns[c].is = "plain"
        PROVE  \E q \in db.tables[t].rows : q.values[c] = r.values[c]
    <2>1. Becomes(t).columns[c].is = "plain"
      <3>1. CASE t \in Changed(from, want)
        BY <1>2, <1>6, <3>1 DEF Destructive, RemovedColumns, Was, Becomes
      <3>2. CASE t \notin Changed(from, want)
        BY <1>3, <1>6, <3>2 DEF Changed, Was, Becomes
      <3>3. QED
        BY <3>1, <3>2
    <2>2. PICK q \in db.tables[t].rows :
             \A x \in Columns : Was(t).columns[x].is # "none" /\ Becomes(t).columns[x].is = "plain"
                                => q.values[x] = r.values[x]
      BY <1>5 DEF Survive
    <2>3. QED
      BY <1>6, <2>1, <2>2
  <1>7. QED
    BY <1>4, <1>6 DEF Was

LEMMA InvOrders == Inv => ParentsFirst
  <1> SUFFICES ASSUME Inv, NEW s \in todo, NEW u \in todo,
                      s.op = "copy", u.op = "copy", Before(s, u),
                      u.at \in ParentsOf(want.tables[s.at])
               PROVE  Reaches(u.at, s.at, want)
    BY DEF ParentsFirst
  <1>1. todo \subseteq Script
    BY DEF Inv, Running, InOrder
  <1>2. /\ s = StatementOf("copy", s.at, s.index) /\ Wanted("copy", s.at, s.index)
        /\ u = StatementOf("copy", u.at, u.index) /\ Wanted("copy", u.at, u.index)
    BY <1>1, ScriptIs
  <1> DEFINE x == s.at
             y == u.at
  <1>3. x \in Rebuilt(from, want) /\ y \in Rebuilt(from, want) /\ s.index = 0 /\ u.index = 0
    BY <1>2 DEF Wanted
  <1>4. s = Statement(7, Position(x), 1, "copy", x, 0) /\ u = Statement(7, Position(y), 1, "copy", y, 0)
    BY <1>2, <1>3, Stands
  <1>5. /\ s.phase = 7 /\ s.place = Position(x) /\ s.step = 1
        /\ u.phase = 7 /\ u.place = Position(y) /\ u.step = 1
    BY <1>4 DEF Statement
  <1> HIDE DEF x, y
  <1>6. Position(x) < Position(y)
    BY <1>3, <1>5 DEF Before
  <1>7. y \in Kin(x)
    <2>1. x # y
      BY <1>3, <1>6, Positions
    <2>2. QED
      BY <1>3, <2>1 DEF Kin, Parents, x, y
  <1>8. Sorted(Order) /\ Position(x) \in 1 .. Len(Order) /\ Order[Position(x)] = x
    BY <1>3, OrderIs, Positions
  <1>9. ASSUME NEW j \in 1 .. Position(x) - 1, Order[j] = y PROVE FALSE
    <2>1. j \in 1 .. Len(Order) /\ j < Position(x)
      BY <1>8, <1>9, Positions
    <2>2. Position(y) = j
      BY <1>9, <2>1, Positions
    <2>3. QED
      BY <1>6, <1>8, <2>1, <2>2, Positions
  <1>10. Reaches(y, x, want)
    <2>1. PICK i : i = Position(x)
      OBVIOUS
    <2>2. \/ \E j \in 1 .. i - 1 : Order[j] = y
          \/ Reaches(y, Order[i], want)
      BY <1>7, <1>8, <2>1 DEF Sorted
    <2>3. QED
      BY <1>8, <1>9, <2>1, <2>2
  <1>11. QED
    BY <1>10 DEF x, y

-----------------------------------------------------------------------------
(***************************************************************************)
(* No statement fails.                                                     *)
(***************************************************************************)
EditedObjects == {o \in Objects : from.objects[o] # want.objects[o]}

FewEdits == EditedObjects = {} \/ (Cardinality(EditedObjects) = 1 /\ Removed(from, want) = {})

LEMMA EditsAre ==
    ASSUME FewEdits
    PROVE  /\ \A o, p \in Objects :
                 from.objects[o] # want.objects[o] /\ from.objects[p] # want.objects[p] => o = p
           /\ (\E o \in Objects : from.objects[o] # want.objects[o]) => Removed(from, want) = {}
  <1>1. IsFiniteSet(EditedObjects)
    <2>1. EditedObjects \subseteq Objects
      BY DEF EditedObjects
    <2>2. QED
      BY <2>1, NamesAssumption, FS_Subset
  <1>2. EditedObjects = {} \/ \E x : EditedObjects = {x}
    BY <1>1, FS_Singleton DEF FewEdits
  <1>3. \A o, p \in EditedObjects : o = p
    BY <1>2
  <1>4. QED
    BY <1>3 DEF FewEdits, EditedObjects

(* An index that is created is nowhere yet, if names of indexes are not    *)
(* used twice.                                                             *)
LEMMA IndexIsNew ==
    ASSUME InputsFit, Running, todo # {}, Due.op = "createIndex", IndexesKept,
           NEW u \in Tables
    PROVE  ~HasIndex(db.tables[u], index)
  <1>1. PICK t, i : t = at /\ i = index
    OBVIOUS
  <1>2. InOrder /\ TableFollows(u)
    BY DEF Running, TablesFollow
  <1>3. /\ Wanted("createIndex", t, i) /\ Awaits("createIndex", t, i)
        /\ \A op, x, j : Precedes(op, x, j, "createIndex", t, i) => ~Awaits(op, x, j)
    BY <1>1, <1>2, DueIs, DueSplits
  <1>4. /\ t \in Altered(from, want) \cup Added(from, want) \cup Rebuilt(from, want)
        /\ t \in Tables /\ t \in Present(want) /\ i \in Indexes /\ Becomes(t).indexes[i] # 0
    BY <1>3, Classes, ClassesAre DEF Wanted, NewIndexes, IndexesOf
  <1>5. \A x \in Present(from) : Was(x).indexes[i] # 0
                                 => x = t /\ Was(x).indexes[i] = Becomes(t).indexes[i]
    BY <1>4 DEF IndexesKept, Present, Was, Becomes
  <1>6. \A x \in Present(want) : Becomes(x).indexes[i] # 0 => x = t
    BY <1>4 DEF InputsFit, WellFormed, Present, Becomes
  <1> SUFFICES ASSUME HasIndex(db.tables[u], i) PROVE FALSE
    BY <1>1
  <1>7. ASSUME db.tables[u] = Start(u) PROVE u = t /\ u \in Present(from)
    <2>1. u \in Present(from)
      BY <1>7, InputsAre DEF HasIndex, Start
    <2>2. db.tables[u] = Table(Was(u), rows[u], MarkBefore(u))
      BY <1>7, <2>1, StartStored
    <2>3. Was(u).indexes[i] # 0
      BY <2>2 DEF HasIndex, Table
    <2>4. QED
      BY <1>5, <2>1, <2>3
  <1>8. ASSUME NEW columns, NEW held, NEW m, u \in Present(want), u \notin Altered(from, want),
               db.tables[u] = Table(With(Becomes(u), columns, IndexesNow(u)), held, m)
        PROVE  FALSE
    <2>1. IndexNow(u, i) # 0
      BY <1>4, <1>8 DEF HasIndex, Table, With, IndexesNow
    <2>2. ~Awaits("dropIndex", u, i)
      BY <1>2, <1>8, WantedIsAwaited DEF Wanted
    <2>3. Becomes(u).indexes[i] # 0 /\ ~Awaits("createIndex", u, i)
      BY <2>1, <2>2 DEF IndexNow
    <2>4. QED
      BY <1>3, <1>6, <1>8, <2>3
  <1>9. CASE u \in Altered(from, want)
    <2>1. db.tables[u] = AlteredNow(u) /\ u \in Present(from) /\ u \in Present(want)
      BY <1>2, <1>9, ClassesAre DEF TableFollows
    <2>2. IndexNow(u, i) # 0
      BY <1>4, <2>1 DEF HasIndex, AlteredNow, Table, With, IndexesNow
    <2>3. CASE Awaits("dropIndex", u, i)
      <3>1. Wanted("dropIndex", u, i)
        BY <1>2, <2>3, WantedIsAwaited
      <3>2. Was(u).indexes[i] # 0 /\ Was(u).indexes[i] # Becomes(u).indexes[i]
        BY <3>1 DEF Wanted, OldIndexes, IndexesOf
      <3>3. QED
        BY <1>5, <2>1, <3>2
    <2>4. CASE ~Awaits("dropIndex", u, i)
      <3>1. Becomes(u).indexes[i] # 0 /\ ~Awaits("createIndex", u, i)
        BY <2>2, <2>4 DEF IndexNow
      <3>2. QED
        BY <1>3, <1>6, <2>1, <3>1
    <2>5. QED
      BY <2>3, <2>4
  <1>10. CASE u \in Added(from, want)
    <2>1. db.tables[u] = AddedNow(u) /\ u \in Present(want) /\ u \notin Altered(from, want)
      BY <1>2, <1>10, Classes, ClassesAre DEF TableFollows
    <2>2. QED
      BY <1>8, <2>1 DEF AddedNow, HasIndex
  <1>11. CASE u \in Removed(from, want)
    <2>1. db.tables[u] = Start(u)
      BY <1>2, <1>11 DEF TableFollows, RemovedNow, HasIndex
    <2>2. QED
      BY <1>4, <1>7, <1>11, <2>1, Classes
  <1>12. CASE u \in Rebuilt(from, want)
    <2>1. db.tables[u] = RebuiltNow(u) /\ u \in Present(want) /\ u \notin Altered(from, want)
      BY <1>2, <1>12, Classes, ClassesAre DEF TableFollows
    <2>2. CASE Awaits("dropTable", u, 0)
      <3>1. u = t
        BY <1>7, <2>1, <2>2 DEF RebuiltNow
      <3>2. QED
        BY <1>3, <1>12, <2>2, <3>1, Precedence
    <2>3. CASE ~Awaits("dropTable", u, 0)
      BY <1>8, <2>1, <2>3 DEF RebuiltNow, HasIndex
    <2>4. QED
      BY <2>2, <2>3
  <1>13. CASE u \in Others
    <2>1. db.tables[u] = Start(u)
      BY <1>2, <1>13 DEF TableFollows
    <2>2. QED
      BY <1>4, <1>7, <1>13, <2>1 DEF Others
  <1>14. QED
    BY <1>9, <1>10, <1>11, <1>12, <1>13 DEF Others

(* What is affected after an edit of one object that is not, was before.   *)
LEMMA AffectedAlike ==
    ASSUME NEW T, NEW o, o \notin Affected(T, want),
           \A p \in Objects : from.objects[p] # want.objects[p] => p = o
    PROVE  Affected(T, want) \subseteq Affected(T, from)
  <1> DEFINE both == Affected(T, want) \cap Affected(T, from)
  <1>1. both \in SUBSET Objects
    BY AffectedIsClosed
  <1>2. ClosedUnder(both, T, want)
    <2> SUFFICES ASSUME NEW p \in Objects, want.objects[p] # NoObject,
                        want.objects[p].names \cap (T \cup both) # {}
                 PROVE  p \in both
      BY DEF ClosedUnder
    <2>1. p \in Affected(T, want)
      BY AffectedIsClosed DEF ClosedUnder
    <2>2. from.objects[p] = want.objects[p]
      BY <2>1
    <2>3. p \in Affected(T, from)
      BY <2>2, AffectedIsClosed DEF ClosedUnder
    <2>4. QED
      BY <2>1, <2>3
  <1>3. Affected(T, want) \subseteq both
    BY <1>1, <1>2, AffectedIsLeast
  <1>4. QED
    BY <1>3

(* A table that stays is there, unless it is being replaced.               *)
LEMMA StaysThere ==
    ASSUME InputsFit, Running, NEW t \in Present(from) \cup Present(want),
           t \notin Rebuilt(from, want), t \notin Removed(from, want),
           t \in Added(from, want) => ~Awaits("createTable", t, 0)
    PROVE  There(t)
  <1>1. t \in Tables /\ InOrder
    BY DEF Present, Running
  <1>2. TableFollows(t)
    BY <1>1 DEF Running, TablesFollow
  <1>3. CASE t \in Altered(from, want)
    BY <1>1, <1>2, <1>3, AlteredStored DEF TableFollows, There
  <1>4. CASE t \in Added(from, want)
    <2>1. db.tables[t] = Table(With(Becomes(t), Becomes(t).columns, IndexesNow(t)), {}, 0)
      BY <1>2, <1>4 DEF TableFollows, AddedNow
    <2>2. t \in Present(want)
      BY <1>4, ClassesAre
    <2>3. QED
      BY <1>1, <2>1, <2>2, AddedStored DEF There
  <1>5. CASE t \in Others
    <2>1. db.tables[t] = Start(t) /\ Was(t) = Becomes(t)
      BY <1>2, <1>5, ClassesAre DEF TableFollows
    <2>2. t \in Present(from)
      BY <2>1 DEF Present, Was, Becomes
    <2>3. QED
      BY <1>1, <2>1, <2>2, StartStored DEF There
  <1>6. QED
    BY <1>1, <1>3, <1>4, <1>5 DEF Others

(* When a new table gets its name, every trigger and view there compiles.  *)
LEMMA RenameCompiles ==
    ASSUME InputsFit, Running, todo # {}, Due.op = "rename", FewEdits
    PROVE  Compiles
  <1> DEFINE R == Rebuilt(from, want)
  <1>1. PICK t : t = at
    OBVIOUS
  <1>2. /\ Wanted("rename", t, index)
        /\ \A op, x, j : Precedes(op, x, j, "rename", t, index) => ~Awaits(op, x, j)
        /\ \A op, x, j : Wanted(op, x, j) /\ Precedes("rename", t, index, op, x, j)
                         => Awaits(op, x, j)
    BY <1>1, DueIs, DueSplits DEF Running
  <1>3. t \in R
    BY <1>2 DEF Wanted
  <1>4. \A o \in Dropped(from, want) : db.objects[o] = NoObject
    <2> SUFFICES ASSUME NEW o \in Dropped(from, want) PROVE db.objects[o] = NoObject
      OBVIOUS
    <2>1. o \in Objects
      BY DroppedAre
    <2>2. ~Awaits("dropObject", o, 0)
      BY <1>2, <1>3, <2>1, Precedence
    <2>3. want.objects[o] # NoObject => Awaits("createObject", o, 0)
      BY <1>2, <1>3, <2>1, Precedence DEF Wanted, Recreated
    <2>4. QED
      BY <2>1, <2>2, <2>3 DEF Running, ObjectsComeBack, ObjectFollows
  <1> SUFFICES ASSUME NEW o \in Objects, db.objects[o] # NoObject,
                      NEW r \in db.objects[o].names
               PROVE  There(r)
    BY DEF Compiles
  <1>5. o \notin Dropped(from, want)
    BY <1>4
  <1>6. db.objects[o] = from.objects[o]
    BY <1>5 DEF Running, ObjectsComeBack, ObjectFollows
  <1>7. Has(from, r) /\ r \in from.objects[o].names
    BY <1>6 DEF InputsFit, WellFormed
  <1>8. from.objects[o] = want.objects[o] => Has(want, r)
    BY <1>6 DEF InputsFit, WellFormed
  <1>9. r \notin R /\ r \notin Affected(R, from)
    BY <1>5, <1>6, <1>7, AffectedIsClosed DEF ClosedUnder, Dropped
  <1>10. CASE r \in Tables
    <2>1. r \in Present(from)
      BY <1>7, <1>10, NamesAssumption DEF Has, Present, Objects
    <2>2. r \notin Added(from, want)
      BY <2>1 DEF Added
    <2>3. r \notin Removed(from, want)
      <3>1. CASE from.objects[o] = want.objects[o]
        BY <1>8, <1>10, <3>1, NamesAssumption DEF Has, Removed, Present, Objects
      <3>2. CASE from.objects[o] # want.objects[o]
        BY <3>2, EditsAre
      <3>3. QED
        BY <3>1, <3>2
    <2>4. QED
      BY <1>9, <2>1, <2>2, <2>3, StaysThere
  <1>11. CASE r \notin Tables
    <2>1. r \in Views /\ from.objects[r] # NoObject /\ r \in Objects
      BY <1>7, <1>11 DEF Has, Objects
    <2>2. r \notin Affected(R, want)
      <3>1. CASE from.objects[o] = want.objects[o]
        BY <1>5, <1>6, <1>7, <3>1, AffectedIsClosed DEF ClosedUnder, Dropped
      <3>2. CASE from.objects[o] # want.objects[o]
        <4>1. \A p \in Objects : from.objects[p] # want.objects[p] => p = o
          BY <3>2, EditsAre
        <4>2. o \notin Affected(R, want)
          BY <1>5 DEF Dropped
        <4>3. Affected(R, want) \subseteq Affected(R, from)
          BY <4>1, <4>2, AffectedAlike
        <4>4. QED
          BY <1>9, <4>3
      <3>3. QED
        BY <3>1, <3>2
    <2>3. r \notin Dropped(from, want) /\ r \notin Triggers
      BY <1>9, <2>1, <2>2, NamesAssumption DEF Dropped
    <2>4. db.objects[r] = from.objects[r]
      BY <2>1, <2>3 DEF Running, ObjectsComeBack, ObjectFollows
    <2>5. QED
      BY <1>11, <2>1, <2>4 DEF There
  <1>12. QED
    BY <1>10, <1>11

(* What a trigger is on is there when it comes back.                       *)
LEMMA TriggerHasTable ==
    ASSUME InputsFit, Running, todo # {}, Due.op = "createObject", at \in Triggers, FewEdits
    PROVE  There(want.objects[at].on)
  <1>1. PICK o : o = at
    OBVIOUS
  <1>2. /\ Wanted("createObject", o, index) /\ InOrder
        /\ \A op, x, j : Precedes(op, x, j, "createObject", o, index) => ~Awaits(op, x, j)
    BY <1>1, DueIs, DueSplits DEF Running
  <1>3. /\ o \in Dropped(from, want) /\ o \in Objects /\ o \in Triggers /\ o \notin Views
        /\ want.objects[o] # NoObject
    BY <1>1, <1>2, DroppedAre, NamesAssumption DEF Wanted, Recreated
  <1> DEFINE r == want.objects[o].on
  <1>4. Has(want, r) /\ r \in want.objects[o].names
    BY <1>3 DEF InputsFit, WellFormed
  <1> HIDE DEF r
  <1>5. CASE r \in Tables
    <2>1. r \in Present(want)
      BY <1>4, <1>5, NamesAssumption DEF Has, Present, Objects
    <2>2. r \notin Removed(from, want)
      BY <2>1 DEF Removed
    <2>3. r \in Added(from, want) => ~Awaits("createTable", r, 0)
      BY <1>2, <1>3, Precedence
    <2>4. ASSUME r \in Rebuilt(from, want) PROVE There(r)
      <3>1. ~Awaits("dropTable", r, 0) /\ ~Awaits("rename", r, 0)
        BY <1>2, <1>3, <2>4, Precedence
      <3>2. db.tables[r] = Table(With(Becomes(r), Becomes(r).columns, IndexesNow(r)),
                                 CopiedRows(r), CarriedMark(r))
        BY <1>5, <2>4, <3>1 DEF Running, TablesFollow, TableFollows, RebuiltNow
      <3>3. QED
        BY <1>2, <1>5, <2>4, <3>2, RebuiltStored DEF There
    <2>5. ASSUME r \notin Rebuilt(from, want) PROVE There(r)
      BY <2>1, <2>2, <2>3, <2>5, StaysThere
    <2>6. There(r)
      BY <2>4, <2>5
    <2>7. QED
      BY <1>1, <2>6 DEF r
  <1>6. CASE r \notin Tables
    <2>1. r \in Views /\ want.objects[r] # NoObject /\ r \in Objects /\ r \notin Triggers
      BY <1>4, <1>6, NamesAssumption DEF Has, Objects
    <2>2. CASE r \in Dropped(from, want)
      <3>1. ~Awaits("dropObject", r, 0)
        BY <1>2, <1>3, <2>1, Precedence
      <3>2. ~Awaits("createObject", r, 0)
        BY <1>2, <1>3, <2>1, Precedence
      <3>3. db.objects[r] = want.objects[r]
        BY <2>1, <2>2, <3>1, <3>2 DEF Running, ObjectsComeBack, ObjectFollows
      <3>4. QED
        BY <1>1, <1>6, <2>1, <3>3 DEF There, r
    <2>3. CASE r \notin Dropped(from, want)
      <3>1. db.objects[r] = from.objects[r]
        BY <2>1, <2>3 DEF Running, ObjectsComeBack, ObjectFollows
      <3>2. from.objects[r] # NoObject
        <4>1. SUFFICES ASSUME from.objects[r] = NoObject PROVE FALSE
          OBVIOUS
        <4>2. from.objects[o] = want.objects[o]
          BY <1>3, <2>1, <4>1, EditsAre
        <4>3. Has(from, r)
          BY <1>3, <1>4, <4>2 DEF InputsFit, WellFormed
        <4>4. QED
          BY <1>6, <2>1, <4>1, <4>3 DEF Has
      <3>3. QED
        BY <1>1, <1>6, <3>1, <3>2 DEF There, r
    <2>4. QED
      BY <2>2, <2>3
  <1>7. QED
    BY <1>5, <1>6

(* Where a body stops.                                                     *)
Refused ==
    /\ todo # {}
    /\ \/ Due.op = "addColumns" /\ AddRefused(at)
       \/ Due.op = "createIndex" /\ \E t \in Tables : HasIndex(db.tables[t], index)
       \/ Due.op = "rename" /\ ~Compiles
       \/ /\ Due.op = "createObject" /\ at \in Triggers
          /\ ~There(want.objects[at].on)

FailsThere == outcome = "failed" => Refused

LEMMA FailuresStay == Inv /\ FailsThere /\ [Next]_vars => FailsThere'
  <1> SUFFICES ASSUME Inv, FailsThere, [Next]_vars, outcome' = "failed" PROVE Refused'
    BY DEF FailsThere
  <1>1. CASE Fails
    <2>1. Refused
      BY <1>1 DEF Fails, Refused
    <2>2. UNCHANGED <<from, want, db, todo>>
      BY <1>1 DEF Fails, inputs
    <2>3. QED
      BY <2>1, <2>2 DEF Refused, AddRefused, HasIndex, Compiles, There, Due, at, index
  <1>2. CASE UNCHANGED vars
    <2>1. Refused
      BY <1>2 DEF FailsThere, vars
    <2>2. UNCHANGED <<from, want, db, todo>>
      BY <1>2 DEF vars
    <2>3. QED
      BY <2>1, <2>2 DEF Refused, AddRefused, HasIndex, Compiles, There, Due, at, index
  <1>3. CASE Generate \/ Finish
    <2>1. pc \in {"generate", "run"} /\ outcome = "none"
      BY <1>3 DEF Generate, Finish, Inv
    <2>2. QED
      BY <1>3, <2>1 DEF Generate, Finish, End
  <1>4. ASSUME NEW op, Runs(op) PROVE FALSE
    <2>1. pc = "run" /\ outcome = "none"
      BY <1>4 DEF Runs, Inv
    <2>2. QED
      BY <1>4, <2>1 DEF Runs
  <1>5. QED
    BY <1>1, <1>2, <1>3, <1>4 DEF Next, DropObject, DropTable, CreateTable, AddColumns,
       CreateIndex, DropIndex, CreateNew, Copy, Carry, Rename, CreateObject

(* ADD COLUMN finds the rows the table had before.                         *)
LEMMA AddSucceeds ==
    ASSUME InputsFit, Running, todo # {}, Due.op = "addColumns", ~StoredOnRows
    PROVE  ~AddRefused(at)
  <1>1. PICK t : t = at
    OBVIOUS
  <1>2. Wanted("addColumns", t, index) /\ Awaits("addColumns", t, index)
    <2>1. Due = StatementOf(Due.op, at, index) /\ Due \in todo /\ Wanted(Due.op, at, index)
      BY DueIs DEF Running
    <2>2. QED
      BY <1>1, <2>1 DEF Awaits
  <1>3. t \in Altered(from, want) /\ index = 0 /\ t \in Tables
    BY <1>2, Classes DEF Wanted
  <1>4. db.tables[t] = AlteredNow(t)
    BY <1>3 DEF Running, TablesFollow, TableFollows
  <1>5. db.tables[t].rows = rows[t]
    <2>1. FilledNow(t) = rows[t]
      BY <1>2, <1>3 DEF FilledNow
    <2>2. QED
      BY <1>4, <2>1 DEF AlteredNow, Table
  <1>6. QED
    BY <1>1, <1>3, <1>5 DEF AddRefused, StoredOnRows

LEMMA InvSucceeds == Inv /\ FailsThere => ScriptRuns
  <1> SUFFICES ASSUME Inv, FailsThere, IndexesKept, FewEdits, ~StoredOnRows,
                      outcome = "failed"
               PROVE  FALSE
    BY DEF ScriptRuns, FewEdits, EditedObjects
  <1>1. InputsFit /\ Running /\ Refused
    BY DEF Inv, FailsThere
  <1>2. QED
    BY <1>1, AddSucceeds, IndexIsNew, RenameCompiles, TriggerHasTable DEF Refused

-----------------------------------------------------------------------------
(* Whatever has run, each table that is stored is one SQLite may store: its *)
(* rows have ids of their own and values where the definition has columns, *)
(* so that no copy merges rows.                                            *)
THEOREM BodyTypeCorrect == Spec => []TypeOK
  BY Invariance, InvTypes, PTL

(* A body that has run leaves every table as schema.sql has it: the routing *)
(* of buildMigrationBody misses no change.                                 *)
THEOREM BodyReachesSchema == Spec => []SchemaReached
  BY Invariance, InvReaches, PTL

(* preserve.go: triggers and views that a rebuild is about come back as    *)
(* schema.sql has them, and no other one that stays as it is is lost.      *)
THEOREM BodyKeepsObjects == Spec => []ObjectsFollow
  BY Invariance, InvFollows, PTL

(* generator.go: a rebuilt table has all rows of the old one, with what    *)
(* they hold, and with their rowids when they can be copied.               *)
THEOREM BodyKeepsRows == Spec => []RowsSurvive
  BY Invariance, InvRows, PTL

(* generator.go: the AUTOINCREMENT number of a table never goes down.      *)
THEOREM BodyKeepsMarks == Spec => []MarkSurvives
  BY Invariance, InvMarks, PTL

(* Without --allow-destructive no value is lost.                           *)
THEOREM BodyLosesNothing == Spec => []NothingLostUnasked
  BY Invariance, InvLoses, PTL

(* orderByDependency: a table is copied after those it refers to, unless   *)
(* they refer to it.                                                       *)
THEOREM BodyCopiesParentsFirst == Spec => []ParentsFirst
  BY Invariance, InvOrders, PTL

(* preserve.go: no statement of the body fails, if the edit redefines no   *)
(* index, and changes no trigger or view, or but one while no table goes,  *)
(* and if no table with rows gains a STORED column by ADD COLUMN.          *)
THEOREM BodyRuns == Spec => []ScriptRuns
  <1>1. Init => Inv /\ FailsThere
    BY InvStarts DEF Init, FailsThere
  <1>2. Inv /\ FailsThere /\ [Next]_vars => (Inv /\ FailsThere)'
    BY InvSteps, FailuresStay
  <1>3. QED
    BY <1>1, <1>2, InvSucceeds, PTL DEF Spec

=============================================================================
