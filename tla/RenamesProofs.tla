--------------------------- MODULE RenamesProofs ---------------------------
(***************************************************************************)
(* Theorems about Renames, for schemas of any size, any edit, any flags    *)
(* and any input: the types, what Detect proposes, which questions are     *)
(* asked and by which answers they are settled, and that no column is lost *)
(* without consent.                                                        *)
(***************************************************************************)
EXTENDS Renames, FoldProofs, SequenceTheorems

USE NamesAssumption

-----------------------------------------------------------------------------
(***************************************************************************)
(* assignGreedy, as a recursion over the pairs that are assigned before.   *)
(***************************************************************************)
Pairs == [gone : Nat, new : Nat, removedIdx : Nat, addedIdx : Nat, score : Nat]

LEMMA LastPairIs ==
    ASSUME NEW pairs \in SUBSET Pairs, IsFiniteSet(pairs), pairs # {}
    PROVE  LastPair(pairs) \in pairs /\ \A q \in pairs : ~Precedes(LastPair(pairs), q)
  <1> DEFINE R == {pq \in pairs \X pairs : Precedes(pq[1], pq[2])}
  <1>1. \A p, q \in pairs : <<p, q>> \in R <=> Precedes(p, q)
    OBVIOUS
  <1> HIDE DEF R
  <1>2. \A p \in pairs : <<p, p>> \notin R
    BY <1>1 DEF Precedes, Pairs
  <1>3. \A p, q, r \in pairs : <<p, q>> \in R /\ <<q, r>> \in R => <<p, r>> \in R
    <2>1. \A p, q, r \in Pairs : Precedes(p, q) /\ Precedes(q, r) => Precedes(p, r)
      BY DEF Precedes, Pairs
    <2>2. QED
      BY <1>1, <2>1
  <1>4. \E p \in pairs : \A q \in pairs : ~Precedes(p, q)
    <2>1. \E p \in pairs : \A q \in pairs : <<p, q>> \notin R
      BY <1>2, <1>3, LastExists
    <2>2. QED
      BY <1>1, <2>1
  <1>5. QED
    BY <1>4 DEF LastPair

LEMMA GreedyRuns ==
    ASSUME NEW pairs \in SUBSET Pairs, IsFiniteSet(pairs)
    PROVE  \E f : /\ assignGreedy(pairs) = f[pairs]
                  /\ \A T \in SUBSET pairs :
                        f[T] = IF T = {} THEN {}
                               ELSE Claim(LastPair(T), f[T \ {LastPair(T)}])
  <1> DEFINE pick == [T \in SUBSET pairs |-> LastPair(T)]
             step == [x \in pairs \X SUBSET pairs |-> Claim(x[1], x[2])]
             Recursion(g) ==
               g = [T \in SUBSET pairs |->
                      IF T = {} THEN {} ELSE Claim(LastPair(T), g[T \ {LastPair(T)}])]
             chosen == CHOOSE g : Recursion(g)
  <1>1. \A T \in SUBSET pairs : T # {} => pick[T] \in T
    BY LastPairIs, FS_Subset
  <1>2. step \in [pairs \X SUBSET pairs -> SUBSET pairs]
    BY DEF Claim
  <1>3. \E f \in [SUBSET pairs -> SUBSET pairs] : IsFold(f, pairs, {}, pick, step)
    <2> HIDE DEF pick, step
    <2>1. {} \in SUBSET pairs
      OBVIOUS
    <2>2. QED
      BY <1>1, <1>2, <2>1, FoldExists
  <1>4. PICK f \in [SUBSET pairs -> SUBSET pairs] : IsFold(f, pairs, {}, pick, step)
    BY <1>3
  <1>5. \A T \in SUBSET pairs :
            T # {} => f[T] = Claim(LastPair(T), f[T \ {LastPair(T)}])
    <2> SUFFICES ASSUME NEW T \in SUBSET pairs, T # {}
                 PROVE  f[T] = Claim(LastPair(T), f[T \ {LastPair(T)}])
      OBVIOUS
    <2>1. f[T] = step[<<LastPair(T), f[T \ {LastPair(T)}]>>]
      BY <1>4 DEF IsFold
    <2>2. LastPair(T) \in pairs /\ f[T \ {LastPair(T)}] \in SUBSET pairs
      BY <1>1
    <2>3. QED
      BY <2>1, <2>2
  <1>6. f[{}] = {}
    BY <1>4 DEF IsFold
  <1>7. Recursion(f)
    BY <1>5, <1>6
  <1>8. Recursion(chosen)
    <2> HIDE DEF Recursion
    <2>1. QED
      BY <1>7
  <1>9. assignGreedy(pairs) = chosen[pairs]
    BY DEF assignGreedy, MapThenFoldSet
  <1>10. \A T \in SUBSET pairs :
            chosen[T] = IF T = {} THEN {}
                        ELSE Claim(LastPair(T), chosen[T \ {LastPair(T)}])
    <2> HIDE DEF chosen
    <2>1. QED
      BY <1>8
  <1> HIDE DEF chosen
  <1>11. QED
    BY <1>9, <1>10

(* A pair is left out only for one that is at least as good.               *)
LEMMA GreedyIsStable ==
    ASSUME NEW pairs \in SUBSET Pairs, IsFiniteSet(pairs)
    PROVE  Stable(pairs)
  <1> DEFINE Settles(chosen, T) ==
               /\ chosen \subseteq T
               /\ \A p, q \in chosen : Clash(p, q) => p = q
               /\ \A p \in T \ chosen :
                     \E q \in chosen : Clash(p, q) /\ p.score <= q.score
  <1>1. PICK f : /\ assignGreedy(pairs) = f[pairs]
                 /\ \A T \in SUBSET pairs :
                       f[T] = IF T = {} THEN {}
                              ELSE Claim(LastPair(T), f[T \ {LastPair(T)}])
    BY GreedyRuns
  <1> DEFINE P == {T \in SUBSET pairs : Settles(f[T], T)}
  <1>2. ASSUME NEW T \in SUBSET pairs, \A U \in SUBSET T : U # T => U \in P
        PROVE  T \in P
    <2>1. CASE T = {}
      BY <1>1, <2>1
    <2>2. CASE T # {}
      <3> DEFINE x == LastPair(T)
                 U == T \ {x}
      <3>1. x \in T /\ \A q \in T : ~Precedes(x, q)
        BY <2>2, LastPairIs, FS_Subset
      <3> HIDE DEF x
      <3>2. Settles(f[U], U)
        <4>1. U \in SUBSET T /\ U # T
          BY <3>1
        <4>2. U \in P
          <5> HIDE DEF P, U
          <5>1. QED
            BY <4>1, <1>2
        <4>3. QED
          BY <4>2
      <3>3. f[T] = Claim(x, f[U])
        BY <1>1, <2>2 DEF x
      <3> HIDE DEF U
      <3>4. U \subseteq T /\ T = U \cup {x}
        BY <3>1 DEF U
      <3>5. \A q \in T : x.score <= q.score
        <4>1. \A q \in T : x \in Pairs /\ q \in Pairs
          BY <3>1
        <4>2. QED
          BY <3>1, <4>1 DEF Precedes, Pairs
      <3>6. CASE \E q \in f[U] : Clash(x, q)
        <4>1. f[T] = f[U]
          BY <3>3, <3>6 DEF Claim
        <4>2. Settles(f[U], T)
          BY <3>2, <3>4, <3>5, <3>6
        <4>3. QED
          BY <4>1, <4>2
      <3>7. CASE ~\E q \in f[U] : Clash(x, q)
        <4>1. f[T] = f[U] \cup {x}
          BY <3>3, <3>7 DEF Claim
        <4>2. \A q \in f[U] : ~Clash(x, q) /\ ~Clash(q, x)
          BY <3>7 DEF Clash
        <4>3. Settles(f[U] \cup {x}, T)
          BY <3>2, <3>4, <4>2
        <4>4. QED
          BY <4>1, <4>3
      <3>8. QED
        BY <3>6, <3>7
    <2>3. QED
      BY <2>1, <2>2
  <1>3. \A T \in SUBSET pairs : T \in P
    <2> HIDE DEF P
    <2>1. QED
      BY <1>2, GrowingSets
  <1>4. Settles(assignGreedy(pairs), pairs)
    BY <1>1, <1>3
  <1>5. QED
    BY <1>4 DEF Stable

-----------------------------------------------------------------------------
(***************************************************************************)
(* The pairs there are between two schemas.                                *)
(***************************************************************************)
LEMMA Scores ==
    /\ \A t, u \in Tables : Similarity[<<t, u>>] \in Nat
    /\ \A c, d \in Columns : Similarity[<<c, d>>] \in Nat
  <1>1. \A p \in (Tables \X Tables) \cup (Columns \X Columns) : Similarity[p] \in Nat
    BY SimilarityAssumption
  <1>2. QED
    BY <1>1

LEMMA TablePairsAre ==
    ASSUME NEW s \in Schemas, NEW w \in Schemas
    PROVE  /\ TablePairs(s, w) \in SUBSET Pairs
           /\ IsFiniteSet(TablePairs(s, w))
           /\ \A p \in TablePairs(s, w) : /\ p.gone \in Present(s) \ Present(w)
                                         /\ p.new \in Present(w) \ Present(s)
  <1> DEFINE gone == Present(s) \ Present(w)
             new == Present(w) \ Present(s)
             Fits(p) == SignaturesMatch(s[p[1]], w[p[2]])
             Q == {q \in gone \X new : Fits(q) \/ Similarity[q] >= High}
             made == [p \in Q |-> Pair(p[1], p[2], Rank(p[1], gone), Rank(p[2], new),
                                       Similarity[p], Fits(p))]
  <1>1. TablePairs(s, w) = {made[p] : p \in Q}
    BY DEF TablePairs
  <1>2. gone \subseteq Tables /\ new \subseteq Tables
    BY DEF Present
  <1>3. IsFiniteSet(gone) /\ IsFiniteSet(new)
    BY <1>2, FS_Subset
  <1>4. IsFiniteSet(Q)
    <2>1. IsFiniteSet(gone \X new)
      BY <1>3, FS_Product
    <2>2. Q \in SUBSET (gone \X new)
      OBVIOUS
    <2> HIDE DEF Q
    <2>3. QED
      BY <2>1, <2>2, FS_Subset
  <1>5. \A n : Rank(n, gone) \in Nat /\ Rank(n, new) \in Nat
    BY <1>3, FS_Subset, FS_CardinalityType DEF Rank
  <1>6. ASSUME NEW p \in Q
        PROVE  made[p] \in Pairs /\ made[p].gone \in gone /\ made[p].new \in new
    <2>1. p[1] \in gone /\ p[2] \in new /\ p = <<p[1], p[2]>>
      OBVIOUS
    <2>2. p[1] \in Nat /\ p[2] \in Nat /\ Similarity[p] \in Nat
      BY <1>2, <2>1, Scores
    <2>4. made[p] = Pair(p[1], p[2], Rank(p[1], gone), Rank(p[2], new), Similarity[p], Fits(p))
      OBVIOUS
    <2> DEFINE i == Rank(p[1], gone)
               j == Rank(p[2], new)
    <2>5. i \in Nat /\ j \in Nat /\ made[p] = Pair(p[1], p[2], i, j, Similarity[p], Fits(p))
      BY <1>5, <2>4
    <2> HIDE DEF made, Fits, Q, gone, new, i, j
    <2>6. made[p] \in Pairs /\ made[p].gone = p[1] /\ made[p].new = p[2]
      BY <2>2, <2>5 DEF Pair, Pairs
    <2>7. QED
      BY <2>1, <2>6
  <1> HIDE DEF made, Q
  <1>7. QED
    BY <1>1, <1>4, <1>6, FiniteImage

LEMMA ColumnPairsAre ==
    ASSUME NEW b \in TableDefs, NEW a \in TableDefs
    PROVE  /\ ColumnPairs(b, a) \in SUBSET Pairs
           /\ IsFiniteSet(ColumnPairs(b, a))
           /\ \A p \in ColumnPairs(b, a) : p.gone \in Gone(b, a) /\ p.new \in New(b, a)
  <1> DEFINE gone == Gone(b, a)
             new == New(b, a)
             At(p) == <<Place(p[1], gone, b), Place(p[2], new, a)>>
             Fits(p) == At(p)[1] = At(p)[2]
             Q == {q \in gone \X new : /\ b[q[1]].type = a[q[2]].type
                                       /\ Fits(q) \/ Similarity[q] >= High}
             made == [p \in Q |-> Pair(p[1], p[2], At(p)[1], At(p)[2], Similarity[p], Fits(p))]
  <1>1. ColumnPairs(b, a) = {made[p] : p \in Q}
    BY DEF ColumnPairs
  <1>2. gone \subseteq Columns /\ new \subseteq Columns
    BY DEF Gone, New, Listed
  <1>3. IsFiniteSet(gone) /\ IsFiniteSet(new)
    BY <1>2, FS_Subset
  <1>4. IsFiniteSet(Q)
    <2>1. IsFiniteSet(gone \X new)
      BY <1>3, FS_Product
    <2>2. Q \in SUBSET (gone \X new)
      OBVIOUS
    <2> HIDE DEF Q
    <2>3. QED
      BY <2>1, <2>2, FS_Subset
  <1>5. \A p : At(p)[1] \in Nat /\ At(p)[2] \in Nat
    BY <1>3, FS_Subset, FS_CardinalityType DEF Place
  <1>6. ASSUME NEW p \in Q
        PROVE  made[p] \in Pairs /\ made[p].gone \in gone /\ made[p].new \in new
    <2>1. p[1] \in gone /\ p[2] \in new /\ p = <<p[1], p[2]>>
      OBVIOUS
    <2>2. p[1] \in Nat /\ p[2] \in Nat /\ Similarity[p] \in Nat
      BY <1>2, <2>1, Scores
    <2>4. made[p] = Pair(p[1], p[2], At(p)[1], At(p)[2], Similarity[p], Fits(p))
      OBVIOUS
    <2> DEFINE i == At(p)[1]
               j == At(p)[2]
    <2>5. i \in Nat /\ j \in Nat /\ made[p] = Pair(p[1], p[2], i, j, Similarity[p], Fits(p))
      BY <1>5, <2>4
    <2> HIDE DEF made, Fits, At, Q, gone, new, i, j
    <2>6. made[p] \in Pairs /\ made[p].gone = p[1] /\ made[p].new = p[2]
      BY <2>2, <2>5 DEF Pair, Pairs
    <2>7. QED
      BY <2>1, <2>6
  <1> HIDE DEF made, Q, gone, new
  <1>7. QED
    BY <1>1, <1>4, <1>6, FiniteImage DEF gone, new

-----------------------------------------------------------------------------
(***************************************************************************)
(* InOrder, as a recursion over the candidates that are asked before.      *)
(***************************************************************************)
LEMMA CandidateType ==
    ASSUME NEW c \in Candidates
    PROVE  /\ c.kind \in {"table", "column"} /\ c.table \in Nat
           /\ c.gone \in Nat /\ c.new \in Nat
           /\ c.kind = "table" => c.table = 0 /\ c.gone \in Tables /\ c.new \in Tables
           /\ c.kind = "column" => /\ c.table \in Tables
                                  /\ c.gone \in Columns /\ c.new \in Columns
  <1>1. CASE c \in [kind : {"table"}, table : {0}, gone : Tables, new : Tables]
    <2>1. /\ c.kind = "table" /\ c.table = 0
          /\ c.gone \in Tables /\ c.new \in Tables
      BY <1>1
    <2>2. c.gone \in Nat /\ c.new \in Nat /\ c.table \in Nat
      <3>1. c.gone \in Nat
        BY <2>1
      <3>2. c.table \in Nat
        BY <2>1
      <3>3. c.new \in Nat
        BY <2>1
      <3>4. QED
        BY <3>1, <3>2, <3>3
    <2>3. c.kind # "column"
      BY <2>1
    <2>4. QED
      BY <2>1, <2>2, <2>3
  <1>2. CASE c \in [kind : {"column"}, table : Tables, gone : Columns, new : Columns]
    <2>1. /\ c.kind = "column" /\ c.table \in Tables
          /\ c.gone \in Columns /\ c.new \in Columns
      BY <1>2
    <2>2. QED
      BY <2>1
  <1>3. QED
    BY <1>1, <1>2 DEF Candidates

LEMMA LastAskedIs ==
    ASSUME NEW S \in SUBSET Candidates, IsFiniteSet(S), S # {}
    PROVE  LastAsked(S) \in S
  <1> DEFINE R == {cd \in S \X S : CandidateOrder(cd[1], cd[2])}
  <1>1. \A c, d \in S : <<c, d>> \in R <=> CandidateOrder(c, d)
    OBVIOUS
  <1> HIDE DEF R
  <1>2. \A c \in Candidates : /\ c.kind \in {"table", "column"}
                             /\ c.table \in Nat /\ c.gone \in Nat
    BY CandidateType
  <1>3. \A c \in S : <<c, c>> \notin R
    BY <1>1, <1>2 DEF CandidateOrder
  <1>4. \A c, d, e \in S : <<c, d>> \in R /\ <<d, e>> \in R => <<c, e>> \in R
    <2>1. \A c, d, e \in Candidates :
              CandidateOrder(c, d) /\ CandidateOrder(d, e) => CandidateOrder(c, e)
      BY <1>2 DEF CandidateOrder
    <2>2. QED
      BY <1>1, <2>1
  <1>5. \E c \in S : \A d \in S : ~CandidateOrder(c, d)
    <2>1. \E c \in S : \A d \in S : <<c, d>> \notin R
      BY <1>3, <1>4, LastExists
    <2>2. QED
      BY <1>1, <2>1
  <1>6. QED
    BY <1>5 DEF LastAsked

LEMMA InOrderRuns ==
    ASSUME NEW S \in SUBSET Candidates, IsFiniteSet(S)
    PROVE  \E f : /\ InOrder(S) = f[S]
                  /\ \A T \in SUBSET S :
                        f[T] = IF T = {} THEN << >>
                               ELSE Append(f[T \ {LastAsked(T)}], LastAsked(T))
  <1> DEFINE pick == [T \in SUBSET S |-> LastAsked(T)]
             step == [x \in S \X Seq(S) |-> Append(x[2], x[1])]
             Recursion(g) ==
               g = [T \in SUBSET S |->
                      IF T = {} THEN << >> ELSE Append(g[T \ {LastAsked(T)}], LastAsked(T))]
             chosen == CHOOSE g : Recursion(g)
  <1>1. \A T \in SUBSET S : T # {} => pick[T] \in T
    BY LastAskedIs, FS_Subset
  <1>2. step \in [S \X Seq(S) -> Seq(S)]
    BY AppendProperties
  <1>3. \E f \in [SUBSET S -> Seq(S)] : IsFold(f, S, << >>, pick, step)
    <2> HIDE DEF pick, step
    <2>1. << >> \in Seq(S)
      OBVIOUS
    <2>2. QED
      BY <1>1, <1>2, <2>1, FoldExists
  <1>4. PICK f \in [SUBSET S -> Seq(S)] : IsFold(f, S, << >>, pick, step)
    BY <1>3
  <1>5. \A T \in SUBSET S :
            T # {} => f[T] = Append(f[T \ {LastAsked(T)}], LastAsked(T))
    <2> SUFFICES ASSUME NEW T \in SUBSET S, T # {}
                 PROVE  f[T] = Append(f[T \ {LastAsked(T)}], LastAsked(T))
      OBVIOUS
    <2>1. f[T] = step[<<LastAsked(T), f[T \ {LastAsked(T)}]>>]
      BY <1>4 DEF IsFold
    <2>2. LastAsked(T) \in S /\ f[T \ {LastAsked(T)}] \in Seq(S)
      BY <1>1
    <2>3. QED
      BY <2>1, <2>2
  <1>6. f[{}] = << >>
    BY <1>4 DEF IsFold
  <1>7. Recursion(f)
    BY <1>5, <1>6
  <1>8. Recursion(chosen)
    <2> HIDE DEF Recursion
    <2>1. QED
      BY <1>7
  <1>9. InOrder(S) = chosen[S]
    BY DEF InOrder, MapThenFoldSet
  <1>10. \A T \in SUBSET S :
            chosen[T] = IF T = {} THEN << >>
                        ELSE Append(chosen[T \ {LastAsked(T)}], LastAsked(T))
    <2> HIDE DEF chosen
    <2>1. QED
      BY <1>8
  <1> HIDE DEF chosen
  <1>11. QED
    BY <1>9, <1>10

(* A list of the candidates, each once.                                    *)
Listing(s, S) ==
    /\ s \in Seq(S)
    /\ \A i, j \in 1 .. Len(s) : s[i] = s[j] => i = j

LEMMA InOrderIs ==
    ASSUME NEW S \in SUBSET Candidates, IsFiniteSet(S)
    PROVE  Listing(InOrder(S), S)
  <1>1. PICK f : /\ InOrder(S) = f[S]
                 /\ \A T \in SUBSET S :
                       f[T] = IF T = {} THEN << >>
                              ELSE Append(f[T \ {LastAsked(T)}], LastAsked(T))
    BY InOrderRuns
  <1> DEFINE P == {T \in SUBSET S : Listing(f[T], T)}
  <1>2. ASSUME NEW T \in SUBSET S, \A U \in SUBSET T : U # T => U \in P
        PROVE  T \in P
    <2>1. CASE T = {}
      <3>1. f[T] = << >>
        BY <1>1, <2>1
      <3>2. Listing(<< >>, T)
        BY DEF Listing
      <3>3. QED
        BY <3>1, <3>2
    <2>2. CASE T # {}
      <3> DEFINE x == LastAsked(T)
                 U == T \ {x}
      <3>1. x \in T
        BY <2>2, LastAskedIs, FS_Subset
      <3>2. f[T] = Append(f[U], x)
        BY <1>1, <2>2
      <3> HIDE DEF x
      <3>3. Listing(f[U], U)
        <4>1. U \in SUBSET T /\ U # T
          BY <3>1
        <4>2. U \in P
          <5> HIDE DEF P, U
          <5>1. QED
            BY <4>1, <1>2
        <4>3. QED
          BY <4>2
      <3> DEFINE s == f[U]
      <3>4. s \in Seq(U) /\ s \in Seq(T) /\ Len(s) \in Nat /\ \A i \in 1 .. Len(s) : s[i] \in U
        <4>1. U \subseteq T
          OBVIOUS
        <4> HIDE DEF U, s
        <4>2. s \in Seq(U)
          BY <3>3 DEF Listing, s
        <4>3. QED
          BY <4>1, <4>2, SeqMonotonic, ElementOfSeq, LenProperties
      <3>5. x \notin U
        OBVIOUS
      <3> HIDE DEF U, s
      <3>6. /\ Append(s, x) \in Seq(T)
            /\ Len(Append(s, x)) = Len(s) + 1
            /\ \A i \in 1 .. Len(s) : Append(s, x)[i] = s[i]
            /\ Append(s, x)[Len(s) + 1] = x
        BY <3>1, <3>4, AppendProperties
      <3>7. \A i, j \in 1 .. Len(s) : s[i] = s[j] => i = j
        BY <3>3 DEF Listing, s
      <3>8. ASSUME NEW i \in 1 .. Len(s) + 1, NEW j \in 1 .. Len(s) + 1,
                   Append(s, x)[i] = Append(s, x)[j]
            PROVE  i = j
        <4>1. (i \in 1 .. Len(s) \/ i = Len(s) + 1) /\ (j \in 1 .. Len(s) \/ j = Len(s) + 1)
          BY <3>4
        <4>2. QED
          BY <3>4, <3>5, <3>6, <3>7, <3>8, <4>1
      <3>9. Listing(Append(s, x), T)
        BY <3>6, <3>8 DEF Listing
      <3>10. QED
        BY <3>2, <3>9 DEF s
    <2>3. QED
      BY <2>1, <2>2
  <1>3. \A T \in SUBSET S : T \in P
    <2> HIDE DEF P
    <2>1. QED
      BY <1>2, GrowingSets
  <1>4. QED
    BY <1>1, <1>3

-----------------------------------------------------------------------------
(***************************************************************************)
(* What Detect and the second pass ask about: no name twice.               *)
(***************************************************************************)
SameName(c, d) == c.kind = d.kind /\ c.table = d.table /\ Clash(c, d)

OneToOne(S) ==
    /\ S \in SUBSET Candidates
    /\ IsFiniteSet(S)
    /\ \A c, d \in S : SameName(c, d) => c = d

LEMMA TableRenamesAre ==
    ASSUME NEW s \in Schemas, NEW w \in Schemas
    PROVE  /\ OneToOne(detectTableRenames(s, w))
           /\ \A c \in detectTableRenames(s, w) : c.kind = "table" /\ c.new \notin Present(s)
  <1> DEFINE pairs == TablePairs(s, w)
             chosen == assignGreedy(pairs)
             of == [p \in chosen |->
                      [kind |-> "table", table |-> 0, gone |-> p.gone, new |-> p.new]]
  <1>1. /\ pairs \in SUBSET Pairs
        /\ IsFiniteSet(pairs)
        /\ \A p \in pairs : /\ p.gone \in Present(s) \ Present(w)
                           /\ p.new \in Present(w) \ Present(s)
    BY TablePairsAre
  <1> HIDE DEF pairs
  <1>2. chosen \in SUBSET pairs /\ \A p, q \in chosen : Clash(p, q) => p = q
    BY <1>1, GreedyIsStable DEF Stable
  <1>3. detectTableRenames(s, w) = {of[p] : p \in chosen}
    BY DEF detectTableRenames, pairs
  <1> HIDE DEF chosen
  <1>4. ASSUME NEW p \in chosen
        PROVE  /\ of[p] \in Candidates /\ of[p].kind = "table" /\ of[p].new \notin Present(s)
               /\ of[p].gone = p.gone /\ of[p].new = p.new
    <2>1. p.gone \in Tables /\ p.new \in Tables /\ p.new \notin Present(s)
      BY <1>1, <1>2 DEF Present
    <2>2. QED
      BY <2>1 DEF Candidates
  <1> HIDE DEF of
  <1>5. IsFiniteSet({of[p] : p \in chosen})
    <2>1. IsFiniteSet(chosen)
      BY <1>1, <1>2, FS_Subset
    <2>2. QED
      BY <2>1, FiniteImage
  <1>6. \A p, q \in chosen : SameName(of[p], of[q]) => of[p] = of[q]
    BY <1>2, <1>4 DEF SameName, Clash
  <1>7. QED
    BY <1>3, <1>4, <1>5, <1>6 DEF OneToOne

LEMMA ColumnRenamesAre ==
    ASSUME NEW t \in Tables, NEW b \in TableDefs, NEW a \in TableDefs
    PROVE  /\ OneToOne(detectColumnRenames(t, b, a))
           /\ \A c \in detectColumnRenames(t, b, a) : c.kind = "column" /\ c.table = t
  <1> DEFINE pairs == ColumnPairs(b, a)
             chosen == assignGreedy(pairs)
             of == [p \in chosen |->
                      [kind |-> "column", table |-> t, gone |-> p.gone, new |-> p.new]]
  <1>1. /\ pairs \in SUBSET Pairs
        /\ IsFiniteSet(pairs)
        /\ \A p \in pairs : p.gone \in Gone(b, a) /\ p.new \in New(b, a)
    BY ColumnPairsAre
  <1> HIDE DEF pairs
  <1>2. chosen \in SUBSET pairs /\ \A p, q \in chosen : Clash(p, q) => p = q
    BY <1>1, GreedyIsStable DEF Stable
  <1>3. detectColumnRenames(t, b, a) = {of[p] : p \in chosen}
    BY DEF detectColumnRenames, pairs
  <1> HIDE DEF chosen
  <1>4. ASSUME NEW p \in chosen
        PROVE  /\ of[p] \in Candidates /\ of[p].kind = "column" /\ of[p].table = t
               /\ of[p].gone = p.gone /\ of[p].new = p.new
    <2>1. p.gone \in Columns /\ p.new \in Columns
      BY <1>1, <1>2 DEF Gone, New, Listed
    <2>2. QED
      BY <2>1 DEF Candidates
  <1> HIDE DEF of
  <1>5. IsFiniteSet({of[p] : p \in chosen})
    <2>1. IsFiniteSet(chosen)
      BY <1>1, <1>2, FS_Subset
    <2>2. QED
      BY <2>1, FiniteImage
  <1>6. \A p, q \in chosen : SameName(of[p], of[q]) => of[p] = of[q]
    BY <1>2, <1>4 DEF SameName, Clash
  <1>7. QED
    BY <1>3, <1>4, <1>5, <1>6 DEF OneToOne

LEMMA ColumnsAre ==
    ASSUME NEW s \in Schemas, NEW w \in Schemas, NEW tables \in SUBSET Tables
    PROVE  /\ OneToOne(ColumnsOf(tables, s, w))
           /\ \A c \in ColumnsOf(tables, s, w) :
                 c.kind = "column" /\ c.table \in tables \cap Present(s)
  <1> DEFINE T == tables \cap Present(s) \cap Present(w)
             of == [t \in T |-> detectColumnRenames(t, s[t], w[t])]
  <1>1. ColumnsOf(tables, s, w) = UNION {of[t] : t \in T}
    BY DEF ColumnsOf
  <1>2. \A t \in T : /\ OneToOne(of[t])
                     /\ \A c \in of[t] : c.kind = "column" /\ c.table = t
    <2>1. \A t \in T : t \in Tables /\ s[t] \in TableDefs /\ w[t] \in TableDefs
      BY DEF Present, Schemas
    <2>2. QED
      BY <2>1, ColumnRenamesAre
  <1>3. T \in SUBSET Tables /\ T \subseteq tables \cap Present(s)
    OBVIOUS
  <1> HIDE DEF of, T
  <1>4. IsFiniteSet(UNION {of[t] : t \in T})
    <2> DEFINE sets == {of[t] : t \in T}
    <2>1. IsFiniteSet(T)
      BY <1>3, FS_Subset
    <2>2. IsFiniteSet(sets)
      BY <2>1, FiniteImage
    <2>3. \A S \in sets : IsFiniteSet(S)
      BY <1>2 DEF OneToOne
    <2> HIDE DEF sets
    <2>4. IsFiniteSet(UNION sets)
      BY <2>2, <2>3, FS_UNION
    <2>5. QED
      BY <2>4 DEF sets
  <1>5. \A c \in UNION {of[t] : t \in T} :
            \E t \in T : c \in of[t] /\ c \in Candidates /\ c.kind = "column" /\ c.table = t
    BY <1>2 DEF OneToOne
  <1>6. \A c, d \in UNION {of[t] : t \in T} : SameName(c, d) => c = d
    <2> SUFFICES ASSUME NEW c \in UNION {of[t] : t \in T}, NEW d \in UNION {of[t] : t \in T},
                        SameName(c, d)
                 PROVE  c = d
      OBVIOUS
    <2>1. PICK t \in T : c \in of[t] /\ d \in of[t]
      BY <1>5 DEF SameName
    <2>2. QED
      BY <1>2, <2>1 DEF OneToOne
  <1>7. QED
    BY <1>1, <1>3, <1>4, <1>5, <1>6 DEF OneToOne

(* The first pass: tables that are renamed were not there before.          *)
LEMMA DetectIs ==
    ASSUME NEW s \in Schemas, NEW w \in Schemas
    PROVE  \E S : /\ Listing(Detect(s, w), S) /\ OneToOne(S)
                  /\ \A c \in S : IF c.kind = "table" THEN c.new \notin Present(s)
                                  ELSE c.table \in Present(s)
  <1> DEFINE A == detectTableRenames(s, w)
             B == ColumnsOf(Tables, s, w)
  <1>1. OneToOne(A) /\ \A c \in A : c.kind = "table" /\ c.new \notin Present(s)
    BY TableRenamesAre
  <1>2. OneToOne(B) /\ \A c \in B : c.kind = "column" /\ c.table \in Present(s)
    BY ColumnsAre
  <1>3. Detect(s, w) = InOrder(A \cup B)
    BY DEF Detect
  <1> HIDE DEF A, B
  <1>4. OneToOne(A \cup B)
    <2>1. IsFiniteSet(A \cup B)
      BY <1>1, <1>2, FS_Union DEF OneToOne
    <2>2. QED
      BY <1>1, <1>2, <2>1 DEF OneToOne, SameName
  <1>5. Listing(InOrder(A \cup B), A \cup B)
    BY <1>4, InOrderIs DEF OneToOne
  <1>6. QED
    BY <1>1, <1>2, <1>3, <1>4, <1>5

LEMMA ListingType ==
    ASSUME NEW s, NEW S, Listing(s, S), OneToOne(S)
    PROVE  s \in Seq(Candidates)
  BY SeqMonotonic DEF Listing, OneToOne

-----------------------------------------------------------------------------
(***************************************************************************)
(* Types.                                                                  *)
(***************************************************************************)
LEMMA InitType == Init => TypeOK
  <1> SUFFICES ASSUME Init PROVE TypeOK
    OBVIOUS
  <1>1. from \in Schemas /\ want \in Schemas /\ taken \subseteq Tables /\ now \in Schemas
    BY EditsAssumption DEF Init
  <1>2. /\ << >> \in Seq(Candidates) /\ << >> \in Seq(Lines)
        /\ << >> \in Seq([c : Candidates, yes : BOOLEAN])
    BY EmptySeq
  <1>3. QED
    BY <1>1, <1>2 DEF Init, TypeOK

(* A candidate is settled.                                                 *)
LEMMA ResolveType ==
    ASSUME TypeOK, pending # << >>, NEW yes \in BOOLEAN, Resolve(yes)
    PROVE  /\ Head(pending) \in Candidates
           /\ pending' \in Seq(Candidates) /\ script' \in Seq(Candidates)
           /\ asked' \in Seq([c : Candidates, yes : BOOLEAN])
           /\ renamed' \subseteq Tables
  <1> DEFINE c == Head(pending)
             settled == [c |-> c, yes |-> yes]
  <1>1. c \in Candidates /\ Tail(pending) \in Seq(Candidates)
    BY HeadTailProperties DEF TypeOK
  <1>2. settled \in [c : Candidates, yes : BOOLEAN]
    BY <1>1
  <1>3. Append(asked, settled) \in Seq([c : Candidates, yes : BOOLEAN])
    BY <1>2, AppendProperties DEF TypeOK
  <1>4. Append(script, c) \in Seq(Candidates)
    BY <1>1, AppendProperties DEF TypeOK
  <1>5. c.kind = "table" => c.new \in Tables
    BY <1>1, CandidateType
  <1>6. QED
    BY <1>1, <1>3, <1>4, <1>5 DEF Resolve, TypeOK

LEMMA AskType ==
    ASSUME TypeOK, Assume \/ Fill \/ Answer \/ AskAgain \/ DeclineAtEnd
    PROVE  TypeOK'
  <1> USE DEF fixed, input
  <1>1. buffer # << >> => Tail(buffer) \in Seq(Lines)
    BY HeadTailProperties DEF TypeOK
  <1>2. CASE Assume
    <2>1. ("renames" \in mode) \in BOOLEAN
      OBVIOUS
    <2>2. /\ pending' \in Seq(Candidates) /\ script' \in Seq(Candidates)
          /\ asked' \in Seq([c : Candidates, yes : BOOLEAN])
          /\ renamed' \subseteq Tables
      BY <1>2, <2>1, ResolveType DEF Assume
    <2>3. QED
      BY <1>2, <2>2 DEF Assume, TypeOK
  <1>3. CASE Fill
    <2>1. PICK n \in 0 .. MaxLines - Len(typed) : \E lines \in [1 .. n -> Lines] :
              /\ buffer' = lines /\ typed' = typed \o lines
              /\ closed' \in IF n = 0 THEN {TRUE} ELSE BOOLEAN
      BY <1>3 DEF Fill
    <2>2. PICK lines \in [1 .. n -> Lines] :
              /\ buffer' = lines /\ typed' = typed \o lines
              /\ closed' \in IF n = 0 THEN {TRUE} ELSE BOOLEAN
      BY <2>1
    <2>3. lines \in Seq(Lines)
      <3>1. n \in Nat
        BY MaxLinesAssumption, LenProperties DEF TypeOK
      <3>2. QED
        BY <3>1, SeqDef
    <2>4. typed \o lines \in Seq(Lines)
      BY <2>3, ConcatProperties DEF TypeOK
    <2>5. closed' \in BOOLEAN
      BY <2>2
    <2>6. QED
      BY <1>3, <2>2, <2>3, <2>4, <2>5 DEF Fill, TypeOK
  <1>4. CASE Answer
    <2>1. (Head(buffer) = "yes") \in BOOLEAN
      OBVIOUS
    <2>2. /\ pending' \in Seq(Candidates) /\ script' \in Seq(Candidates)
          /\ asked' \in Seq([c : Candidates, yes : BOOLEAN])
          /\ renamed' \subseteq Tables
      BY <1>4, <2>1, ResolveType DEF Answer
    <2>3. QED
      BY <1>1, <1>4, <2>2 DEF Answer, TypeOK
  <1>5. CASE AskAgain
    BY <1>1, <1>5 DEF AskAgain, TypeOK
  <1>6. CASE DeclineAtEnd
    <2>1. /\ pending' \in Seq(Candidates) /\ script' \in Seq(Candidates)
          /\ asked' \in Seq([c : Candidates, yes : BOOLEAN])
          /\ renamed' \subseteq Tables
      BY <1>6, ResolveType DEF DeclineAtEnd
    <2>2. QED
      BY <1>6, <2>1 DEF DeclineAtEnd, TypeOK
  <1>7. QED
    BY <1>2, <1>3, <1>4, <1>5, <1>6

LEMMA RenamedType ==
    ASSUME now \in Schemas, NEW c \in Candidates, Runs(c)
    PROVE  Renamed(c) \in Schemas
  <1>1. CASE c.kind = "table"
    <2>1. c.gone \in Tables /\ c.new \in Tables /\ now[c.gone] \in TableDefs
      BY <1>1, CandidateType DEF Runs, Schemas
    <2>2. QED
      BY <1>1, <2>1 DEF Renamed, Schemas
  <1>2. CASE c.kind # "table"
    <2>1. c.table \in Tables /\ c.gone \in Columns /\ c.new \in Columns
      BY <1>2, CandidateType
    <2>2. now[c.table] \in TableDefs
      BY <1>2, <2>1 DEF Runs, Schemas
    <2>3. now[c.table][c.gone] \in ColumnDefs \cup {NoColumn}
      BY <2>1, <2>2 DEF TableDefs
    <2> DEFINE d == [now[c.table] EXCEPT ![c.new] = now[c.table][c.gone],
                                         ![c.gone] = NoColumn]
    <2>4. d \in TableDefs
      BY <2>1, <2>2, <2>3 DEF TableDefs
    <2>5. Renamed(c) = [now EXCEPT ![c.table] = d]
      BY <1>2, <2>1 DEF Renamed, Schemas
    <2> HIDE DEF d
    <2>6. QED
      BY <2>1, <2>4, <2>5 DEF Schemas
  <1>3. QED
    BY <1>1, <1>2

LEMMA RunType ==
    ASSUME TypeOK, Start \/ Resolved \/ Replay \/ RefuseRename \/ SecondPass \/ Gate
    PROVE  TypeOK'
  <1> USE DEF fixed, input, Goto
  <1>1. CASE Start
    <2>1. Detect(from, want) \in Seq(Candidates)
      BY DetectIs, ListingType DEF TypeOK
    <2>2. QED
      BY <1>1, <2>1 DEF Start, TypeOK, Ends
  <1>2. CASE Resolved \/ RefuseRename \/ Gate
    BY <1>2 DEF Resolved, RefuseRename, Gate, TypeOK, Ends
  <1>3. CASE Replay
    <2>1. Head(script) \in Candidates /\ Tail(script) \in Seq(Candidates)
      BY <1>3, HeadTailProperties DEF Replay, TypeOK
    <2>2. now' \in Schemas
      BY <1>3, <2>1, RenamedType DEF Replay, TypeOK
    <2>3. QED
      BY <1>3, <2>1, <2>2 DEF Replay, TypeOK
  <1>4. CASE SecondPass
    <2> DEFINE S == ColumnsOf(renamed, now, want)
    <2>1. OneToOne(S)
      BY ColumnsAre DEF TypeOK
    <2> HIDE DEF S
    <2>2. Listing(InOrder(S), S)
      BY <2>1, InOrderIs DEF OneToOne
    <2>3. Revealed \in Seq(Candidates)
      BY <2>1, <2>2, ListingType DEF Revealed, S
    <2>4. QED
      BY <1>4, <2>3 DEF SecondPass, TypeOK
  <1>5. QED
    BY <1>1, <1>2, <1>3, <1>4

LEMMA NextType == TypeOK /\ [Next]_vars => TypeOK'
  <1> SUFFICES ASSUME TypeOK, [Next]_vars PROVE TypeOK'
    OBVIOUS
  <1>1. CASE UNCHANGED vars
    BY <1>1 DEF vars, fixed, input, TypeOK
  <1>2. CASE Next
    BY <1>1, <1>2, AskType, RunType DEF Next, Step, Ended
  <1>3. QED
    BY <1>1, <1>2

(* Every variable keeps its type, for schemas of any size and any input.   *)
THEOREM RenamesTypeCorrect == Spec => []TypeOK
  BY InitType, NextType, PTL DEF Spec

(* What Detect proposes between two schemas of any size is one-to-one, and *)
(* a plausible pair is left out only for one that is at least as good and  *)
(* shares a name with it: the greedy choice leaves nobody a better offer.  *)
THEOREM ProposalsStable == Spec => []ProposalsAreStable
  <1>1. TypeOK => ProposalsAreStable
    <2> SUFFICES ASSUME TypeOK PROVE ProposalsAreStable
      OBVIOUS
    <2>1. Stable(TablePairs(from, want))
      BY TablePairsAre, GreedyIsStable DEF TypeOK
    <2>2. ASSUME NEW t \in Present(from) \cap Present(want)
          PROVE  Stable(ColumnPairs(from[t], want[t]))
      <3>1. from[t] \in TableDefs /\ want[t] \in TableDefs
        BY DEF TypeOK, Present, Schemas
      <3>2. QED
        BY <3>1, ColumnPairsAre, GreedyIsStable
    <2>3. QED
      BY <2>1, <2>2 DEF ProposalsAreStable
  <1>2. QED
    BY <1>1, RenamesTypeCorrect, PTL

-----------------------------------------------------------------------------
(***************************************************************************)
(* Where the data is.  A rename that runs moves a table or a column to a   *)
(* name that was free, so nothing is overwritten on the way.               *)
(***************************************************************************)
Somewhere(t, c) ==
    \E u \in Present(now) : \E d \in Listed(now[u]) : now[u][d].of = <<t, c>>

Consented ==
    /\ TypeOK
    /\ \A t \in Present(from) : \A c \in Listed(from[t]) : Somewhere(t, c)
    /\ pc = "written" => allow \/ ~Destructive(now, want)

LEMMA RenamedMoves ==
    ASSUME now \in Schemas, NEW c \in Candidates, Runs(c),
           NEW u \in Present(now), NEW d \in Listed(now[u])
    PROVE  \E v \in Present(Renamed(c)) : \E e \in Listed(Renamed(c)[v]) :
              Renamed(c)[v][e] = now[u][d]
  <1> DEFINE then == Renamed(c)
  <1>1. then \in Schemas
    BY RenamedType
  <1>2. u \in Tables /\ now[u] \in TableDefs /\ d \in Columns /\ now[u][d] # NoColumn
    BY DEF Present, Listed, Schemas
  <1>3. CASE c.kind = "table"
    <2>1. c.gone \in Tables /\ c.new \in Tables
      BY <1>3, CandidateType
    <2>2. now[c.gone] # NoTable /\ now[c.new] = NoTable
      BY <1>3 DEF Runs
    <2>3. then = [now EXCEPT ![c.new] = now[c.gone], ![c.gone] = NoTable]
      BY <1>3 DEF Renamed
    <2> HIDE DEF then
    <2>4. u # c.new /\ c.gone # c.new
      BY <2>2 DEF Present
    <2>5. CASE u = c.gone
      <3>1. then[c.new] = now[u]
        BY <2>1, <2>3, <2>4, <2>5 DEF Schemas
      <3>2. c.new \in Present(then) /\ d \in Listed(then[c.new])
        BY <2>1, <3>1 DEF Present
      <3>3. QED
        BY <3>1, <3>2 DEF then
    <2>6. CASE u # c.gone
      <3>1. then[u] = now[u]
        BY <2>1, <2>3, <2>4, <2>6, <1>2 DEF Schemas
      <3>2. u \in Present(then) /\ d \in Listed(then[u])
        BY <3>1 DEF Present
      <3>3. QED
        BY <3>1, <3>2 DEF then
    <2>7. QED
      BY <2>5, <2>6
  <1>4. CASE c.kind # "table"
    <2>1. c.table \in Tables /\ c.gone \in Columns /\ c.new \in Columns
      BY <1>4, CandidateType
    <2>2. /\ now[c.table] \in TableDefs /\ now[c.table][c.gone] # NoColumn
          /\ now[c.table][c.new] = NoColumn
      BY <1>4, <2>1 DEF Runs, Schemas
    <2> DEFINE there == [now[c.table] EXCEPT ![c.new] = now[c.table][c.gone],
                                             ![c.gone] = NoColumn]
    <2>3. then = [now EXCEPT ![c.table] = there]
      BY <1>4, <2>1 DEF Renamed, Schemas
    <2> HIDE DEF then
    <2>4. CASE u # c.table
      <3>1. then[u] = now[u]
        BY <2>1, <2>3, <2>4, <1>2 DEF Schemas
      <3>2. u \in Present(then) /\ d \in Listed(then[u])
        BY <3>1 DEF Present
      <3>3. QED
        BY <3>1, <3>2 DEF then
    <2>5. CASE u = c.table
      <3>1. then[u] = there
        BY <2>1, <2>3, <2>5 DEF Schemas
      <3>2. c.new # d /\ c.new # c.gone
        BY <1>2, <2>2, <2>5
      <3>3. \E e \in Columns : there[e] = now[u][d]
        <4>1. CASE d = c.gone
          <5>1. there[c.new] = now[u][d]
            BY <2>1, <2>2, <2>5, <3>2, <4>1 DEF TableDefs
          <5>2. QED
            BY <2>1, <5>1
        <4>2. CASE d # c.gone
          <5>1. there[d] = now[u][d]
            BY <1>2, <2>1, <2>2, <2>5, <3>2, <4>2 DEF TableDefs
          <5>2. QED
            BY <1>2, <5>1
        <4>3. QED
          BY <4>1, <4>2
      <3> HIDE DEF there
      <3>4. PICK e \in Columns : then[u][e] = now[u][d]
        BY <3>1, <3>3
      <3>5. e \in Listed(then[u])
        BY <3>4 DEF Listed
      <3>6. u \in Present(then)
        <4>1. there \in TableDefs
          BY <1>1, <2>1, <2>5, <3>1, <2>2 DEF there, TableDefs
        <4>2. QED
          BY <1>2, <3>1, <4>1 DEF Present
      <3>7. QED
        BY <3>4, <3>5, <3>6 DEF then
    <2>6. QED
      BY <2>4, <2>5
  <1>5. QED
    BY <1>3, <1>4

LEMMA StepConsented == Consented /\ [Next]_vars => Consented'
  <1> SUFFICES ASSUME Consented, [Next]_vars PROVE Consented'
    OBVIOUS
  <1>1. TypeOK /\ TypeOK'
    BY NextType DEF Consented
  <1>2. CASE Replay
    <2>1. Head(script) \in Candidates
      BY <1>1, <1>2, HeadTailProperties DEF Replay, TypeOK
    <2>2. /\ Runs(Head(script)) /\ now' = Renamed(Head(script))
          /\ UNCHANGED <<from, pc>> /\ pc = "replay"
      BY <1>2 DEF Replay, fixed
    <2>3. ASSUME NEW t \in Present(from), NEW c \in Listed(from[t])
          PROVE  Somewhere(t, c)'
      <3>1. PICK u \in Present(now), d \in Columns :
                d \in Listed(now[u]) /\ now[u][d].of = <<t, c>>
        BY DEF Consented, Somewhere, Listed
      <3> DEFINE r == Head(script)
      <3>2. r \in Candidates /\ Runs(r) /\ now \in Schemas /\ now' = Renamed(r)
        BY <1>1, <2>1, <2>2 DEF TypeOK
      <3> HIDE DEF r
      <3>3. \E v \in Present(Renamed(r)) : \E e \in Listed(Renamed(r)[v]) :
                Renamed(r)[v][e] = now[u][d]
        BY <3>1, <3>2, RenamedMoves
      <3>4. QED
        BY <3>1, <3>2, <3>3 DEF Somewhere
    <2>4. QED
      BY <1>1, <2>2, <2>3 DEF Consented
  <1>3. CASE ~Replay
    <2>1. UNCHANGED <<from, want, allow, now>>
      BY <1>3 DEF Next, Step, Ended, vars, fixed, Start, Assume, Fill, Answer, AskAgain,
                  DeclineAtEnd, Resolved, RefuseRename, SecondPass, Gate, Goto
    <2>2. pc' = "written" => pc = "written" \/ allow \/ ~Destructive(now, want)
      BY <1>3 DEF Next, Step, Ended, vars, fixed, Start, Assume, Fill, Answer, AskAgain,
                  DeclineAtEnd, Resolved, RefuseRename, SecondPass, Gate, Goto
    <2>3. \A t, c : Somewhere(t, c)' <=> Somewhere(t, c)
      BY <2>1 DEF Somewhere
    <2>4. QED
      BY <1>1, <2>1, <2>2, <2>3 DEF Consented
  <1>4. QED
    BY <1>2, <1>3

(* Without --allow-destructive, what is written keeps the data of every    *)
(* column of the journal under some name: through any chain of table and   *)
(* column renames, whatever was answered, assumed or cut short.  A rename  *)
(* that would overwrite is refused, and the gate stands after the renames, *)
(* so that a name they have settled is not counted as lost.                *)
THEOREM NothingIsLost == Spec => []NothingLostUnconsented
  <1>1. Init => Consented
    <2> SUFFICES ASSUME Init PROVE Consented
      OBVIOUS
    <2>1. PICK e \in Edits : from = e.from
      BY DEF Init
    <2>2. now = from /\ pc = "start"
      BY DEF Init
    <2>3. ASSUME NEW t \in Present(from), NEW c \in Listed(from[t])
          PROVE  Somewhere(t, c)
      <3>1. t \in Tables /\ c \in Columns /\ from[t] # NoTable /\ from[t][c] # NoColumn
        BY DEF Present, Listed
      <3>2. from[t][c].of = <<t, c>>
        BY <2>1, <3>1, EditsAssumption
      <3>3. QED
        BY <2>2, <3>2 DEF Somewhere
    <2>4. QED
      BY <2>2, <2>3, InitType DEF Consented
  <1>2. Consented => NothingLostUnconsented
    <2> SUFFICES ASSUME Consented, pc = "written", ~allow,
                        NEW t \in Present(from), NEW c \in Listed(from[t])
                 PROVE  Kept(t, c)
      BY DEF NothingLostUnconsented
    <2>1. PICK u \in Present(now), d \in Columns :
              d \in Listed(now[u]) /\ now[u][d].of = <<t, c>>
      BY DEF Consented, Somewhere, Listed
    <2>2. ~Destructive(now, want)
      BY DEF Consented
    <2>3. u \in Present(want) /\ d \in Listed(want[u])
      BY <2>1, <2>2 DEF Destructive, Gone
    <2>4. QED
      BY <2>1, <2>3 DEF Kept
  <1>3. QED
    BY <1>1, <1>2, StepConsented, PTL DEF Spec

-----------------------------------------------------------------------------
(***************************************************************************)
(* Which questions are asked.  The first pass asks about tables and about  *)
(* the columns of tables that stay; the second about columns of tables     *)
(* that exist by a rename, which the first can not have asked about.       *)
(***************************************************************************)
InFirstPass(c) ==
    IF c.kind = "table" THEN c.new \notin Present(from) ELSE c.table \in Present(from)

Questions ==
    /\ \A i, j \in 1 .. Len(asked) : SameName(asked[i].c, asked[j].c) => i = j
    /\ \A i, j \in 1 .. Len(pending) : SameName(pending[i], pending[j]) => i = j
    /\ \A i \in 1 .. Len(asked), j \in 1 .. Len(pending) : ~SameName(asked[i].c, pending[j])

Passes ==
    /\ renamed \cap Present(from) = {}
    /\ pass = 1 => /\ \A i \in 1 .. Len(asked) : InFirstPass(asked[i].c)
                   /\ \A j \in 1 .. Len(pending) : InFirstPass(pending[j])
    /\ pass = 2 => \A j \in 1 .. Len(pending) : pending[j].kind = "column"
    /\ pc = "start" => pass = 1 /\ asked = << >>
    /\ pc = "replay" => pending = << >>

Asking == TypeOK /\ Questions /\ Passes

(* The next candidate has become the last one asked about.                 *)
LEMMA ResolveMoves ==
    ASSUME TypeOK, pending # << >>, NEW yes, Resolve(yes), yes \in BOOLEAN
    PROVE  /\ Len(pending) \in Nat /\ Len(pending') = Len(pending) - 1
           /\ pending[1] \in Candidates
           /\ \A j \in 1 .. Len(pending') : pending'[j] = pending[j + 1]
           /\ Len(asked) \in Nat /\ Len(asked') = Len(asked) + 1
           /\ \A i \in 1 .. Len(asked) : asked'[i] = asked[i]
           /\ asked'[Len(asked) + 1].c = pending[1] /\ asked'[Len(asked) + 1].yes = yes
           /\ renamed' = IF yes /\ pending[1].kind = "table" THEN renamed \cup {pending[1].new}
                         ELSE renamed
  <1> DEFINE c == Head(pending)
             settled == [c |-> c, yes |-> yes]
  <1>1. c \in Candidates /\ settled \in [c : Candidates, yes : BOOLEAN]
    BY HeadTailProperties DEF TypeOK
  <1>2. /\ Len(pending) \in Nat /\ Len(asked) \in Nat /\ c = pending[1]
        /\ Len(Tail(pending)) = Len(pending) - 1
        /\ \A j \in 1 .. Len(Tail(pending)) : Tail(pending)[j] = pending[j + 1]
    BY HeadTailProperties, LenProperties DEF TypeOK
  <1>3. /\ Len(Append(asked, settled)) = Len(asked) + 1
        /\ \A i \in 1 .. Len(asked) : Append(asked, settled)[i] = asked[i]
        /\ Append(asked, settled)[Len(asked) + 1] = settled
    BY <1>1, AppendProperties DEF TypeOK
  <1>4. settled.c = pending[1] /\ settled.yes = yes
    BY <1>2
  <1>5. /\ pending' = Tail(pending) /\ asked' = Append(asked, settled)
        /\ renamed' = IF yes /\ c.kind = "table" THEN renamed \cup {c.new} ELSE renamed
    BY DEF Resolve
  <1> HIDE DEF settled, c
  <1>6. QED
    BY <1>1, <1>2, <1>3, <1>4, <1>5

LEMMA ResolveAsking ==
    ASSUME Asking, pc = "ask", pending # << >>, NEW yes \in BOOLEAN, Resolve(yes), TypeOK',
           UNCHANGED <<from, pc, pass>>
    PROVE  Asking'
  <1>1. TypeOK /\ Questions /\ Passes
    BY DEF Asking
  <1> DEFINE n == Len(asked)
             m == Len(pending)
  <1>2. /\ m \in Nat /\ n \in Nat /\ m # 0 /\ pending[1] \in Candidates
        /\ Len(pending') = m - 1 /\ \A j \in 1 .. m - 1 : pending'[j] = pending[j + 1]
        /\ Len(asked') = n + 1 /\ \A i \in 1 .. n : asked'[i] = asked[i]
        /\ asked'[n + 1].c = pending[1]
        /\ renamed' = IF yes /\ pending[1].kind = "table" THEN renamed \cup {pending[1].new}
                      ELSE renamed
    BY <1>1, ResolveMoves, EmptySeq DEF TypeOK
  <1> HIDE DEF n, m
  <1>3. \A j \in 1 .. m - 1 : j + 1 \in 1 .. m /\ j + 1 # 1
    BY <1>2
  <1>4. \A i \in 1 .. n + 1 : i \in 1 .. n \/ i = n + 1
    BY <1>2
  <1>5. 1 \in 1 .. m
    BY <1>2
  <1>6. \A i \in 1 .. n : \A j \in 1 .. m : ~SameName(asked[i].c, pending[j])
    BY <1>1 DEF Questions, n, m
  <1>7. \A i \in 1 .. n, j \in 1 .. n : SameName(asked[i].c, asked[j].c) => i = j
    BY <1>1 DEF Questions, n
  <1>8. \A i \in 1 .. m, j \in 1 .. m : SameName(pending[i], pending[j]) => i = j
    BY <1>1 DEF Questions, m
  <1>9. \A c, d : SameName(c, d) <=> SameName(d, c)
    BY DEF SameName, Clash
  <1>10. Questions'
    <2>1. \A i, j \in 1 .. n + 1 : SameName(asked'[i].c, asked'[j].c) => i = j
      BY <1>2, <1>4, <1>5, <1>6, <1>7, <1>9
    <2>2. \A i, j \in 1 .. m - 1 : SameName(pending'[i], pending'[j]) => i = j
      BY <1>2, <1>3, <1>8
    <2>3. \A i \in 1 .. n + 1, j \in 1 .. m - 1 : ~SameName(asked'[i].c, pending'[j])
      <3>1. \A j \in 1 .. m - 1 : ~SameName(pending[1], pending[j + 1])
        BY <1>3, <1>5, <1>8
      <3>2. QED
        BY <1>2, <1>3, <1>4, <1>6, <3>1
    <2>4. QED
      BY <1>2, <2>1, <2>2, <2>3 DEF Questions
  <1>11. Passes'
    <2>1. renamed' \cap Present(from) = {}
      <3>1. CASE pass = 1
        BY <1>1, <1>2, <1>5, <3>1 DEF Passes, InFirstPass, m
      <3>2. CASE pass = 2
        BY <1>1, <1>2, <1>5, <3>2 DEF Passes, m
      <3>3. QED
        BY <1>1, <3>1, <3>2 DEF TypeOK
    <2>2. pass = 1 => /\ \A i \in 1 .. n + 1 : InFirstPass(asked'[i].c)
                      /\ \A j \in 1 .. m - 1 : InFirstPass(pending'[j])
      <3>1. pass = 1 => /\ \A i \in 1 .. n : InFirstPass(asked[i].c)
                        /\ \A j \in 1 .. m : InFirstPass(pending[j])
        BY <1>1 DEF Passes, n, m
      <3>2. QED
        BY <1>2, <1>3, <1>4, <1>5, <3>1
    <2>3. pass = 2 => \A j \in 1 .. m - 1 : pending'[j].kind = "column"
      <3>1. pass = 2 => \A j \in 1 .. m : pending[j].kind = "column"
        BY <1>1 DEF Passes, m
      <3>2. QED
        BY <1>2, <1>3, <3>1
    <2>4. \A c : InFirstPass(c)' <=> InFirstPass(c)
      BY DEF InFirstPass
    <2>5. QED
      BY <1>2, <2>1, <2>2, <2>3, <2>4 DEF Passes
  <1>12. QED
    BY <1>10, <1>11 DEF Asking

LEMMA AskAsking ==
    ASSUME Asking, TypeOK', Assume \/ Fill \/ Answer \/ AskAgain \/ DeclineAtEnd
    PROVE  Asking'
  <1> USE DEF fixed, input
  <1>1. CASE Assume
    <2>1. ("renames" \in mode) \in BOOLEAN
      OBVIOUS
    <2>2. QED
      BY <1>1, <2>1, ResolveAsking DEF Assume
  <1>2. CASE Answer
    <2>1. (Head(buffer) = "yes") \in BOOLEAN
      OBVIOUS
    <2>2. QED
      BY <1>2, <2>1, ResolveAsking DEF Answer
  <1>3. CASE DeclineAtEnd
    BY <1>3, ResolveAsking DEF DeclineAtEnd
  <1>4. CASE Fill \/ AskAgain
    BY <1>4 DEF Fill, AskAgain, Asking, Questions, Passes, InFirstPass
  <1>5. QED
    BY <1>1, <1>2, <1>3, <1>4

LEMMA StartAsking == ASSUME Asking, TypeOK', Start PROVE Asking'
  <1> USE DEF fixed, input, Goto
  <1>1. /\ asked = << >> /\ pass = 1 /\ pc = "start" /\ UNCHANGED <<from, renamed, asked, pass>>
        /\ \/ UNCHANGED pending
           \/ pending' = Detect(from, want)
        /\ pc' # "start" /\ pc' # "replay"
    BY DEF Start, Asking, Passes
  <1>2. CASE UNCHANGED pending
    BY <1>1, <1>2 DEF Asking, Questions, Passes, InFirstPass
  <1>3. CASE pending' = Detect(from, want)
    <2>1. PICK S : /\ Listing(Detect(from, want), S) /\ OneToOne(S)
                   /\ \A c \in S : IF c.kind = "table" THEN c.new \notin Present(from)
                                   ELSE c.table \in Present(from)
      BY DetectIs DEF Asking, TypeOK
    <2>2. \A j \in 1 .. Len(pending') : pending'[j] \in S /\ InFirstPass(pending'[j])
      <3>1. \A j \in 1 .. Len(pending') : pending'[j] \in S
        BY <1>3, <2>1, ElementOfSeq DEF Listing
      <3>2. QED
        BY <2>1, <3>1 DEF InFirstPass
    <2>3. \A i, j \in 1 .. Len(pending') : SameName(pending'[i], pending'[j]) => i = j
      BY <1>3, <2>1, <2>2 DEF Listing, OneToOne
    <2>4. asked' = << >> /\ Len(asked') = 0
      BY <1>1
    <2>5. Questions'
      BY <2>3, <2>4 DEF Questions
    <2>6. \A c : InFirstPass(c)' <=> InFirstPass(c)
      BY <1>1 DEF InFirstPass
    <2>7. Passes'
      BY <1>1, <2>2, <2>4, <2>6 DEF Asking, Passes
    <2>8. QED
      BY <2>5, <2>7 DEF Asking
  <1>4. QED
    BY <1>1, <1>2, <1>3

LEMMA SecondPassAsking == ASSUME Asking, TypeOK', SecondPass PROVE Asking'
  <1> USE DEF fixed, input, Goto
  <1> DEFINE S == ColumnsOf(renamed, now, want)
  <1>1. OneToOne(S) /\ \A c \in S : c.kind = "column" /\ c.table \in renamed
    BY ColumnsAre DEF Asking, TypeOK
  <1>2. pending' = InOrder(S)
    BY DEF SecondPass, Revealed
  <1> HIDE DEF S
  <1>3. Listing(pending', S)
    BY <1>1, <1>2, InOrderIs DEF OneToOne
  <1>4. /\ pass = 1 /\ pass' = 2 /\ pc' = "ask" /\ UNCHANGED <<from, renamed, asked>>
    BY DEF SecondPass
  <1>5. \A j \in 1 .. Len(pending') : pending'[j] \in S
    BY <1>3, ElementOfSeq DEF Listing
  <1>6. \A i, j \in 1 .. Len(pending') : SameName(pending'[i], pending'[j]) => i = j
    BY <1>1, <1>3, <1>5 DEF Listing, OneToOne
  <1>7. ASSUME NEW i \in 1 .. Len(asked), NEW j \in 1 .. Len(pending')
        PROVE  ~SameName(asked[i].c, pending'[j])
    <2>1. InFirstPass(asked[i].c)
      BY <1>4 DEF Asking, Passes
    <2>2. pending'[j].kind = "column" /\ pending'[j].table \notin Present(from)
      BY <1>1, <1>5 DEF Asking, Passes
    <2>3. QED
      BY <2>1, <2>2 DEF InFirstPass, SameName
  <1>8. QED
    BY <1>1, <1>4, <1>5, <1>6, <1>7 DEF Asking, Questions, Passes

LEMMA StepAsking == Asking /\ [Next]_vars => Asking'
  <1> SUFFICES ASSUME Asking, [Next]_vars PROVE Asking'
    OBVIOUS
  <1>1. TypeOK /\ TypeOK'
    BY NextType DEF Asking
  <1>2. CASE Resolved \/ Replay \/ RefuseRename \/ Gate \/ UNCHANGED vars
    BY <1>1, <1>2 DEF Resolved, Replay, RefuseRename, Gate, vars, fixed, input, Goto, Asking,
                      Questions, Passes, InFirstPass
  <1>3. QED
    BY <1>1, <1>2, AskAsking, StartAsking, SecondPassAsking DEF Next, Step, Ended

(* No name is part of two questions, over both passes: not two tables or   *)
(* two columns of one table are offered the same new name, no name is      *)
(* offered twice, and the second pass does not ask again what the first    *)
(* has settled.                                                            *)
THEOREM NamesAreAskedOnce == Spec => []OneQuestionPerName
  <1>1. Init => Asking
    <2> SUFFICES ASSUME Init PROVE Asking
      OBVIOUS
    <2>1. /\ asked = << >> /\ pending = << >> /\ renamed = {} /\ pass = 1 /\ pc = "start"
      BY DEF Init
    <2>2. Len(asked) = 0 /\ Len(pending) = 0
      BY <2>1
    <2>3. QED
      BY <2>1, <2>2, InitType DEF Asking, Questions, Passes
  <1>2. Asking => OneQuestionPerName
    BY DEF Asking, Questions, OneQuestionPerName, SameName
  <1>3. QED
    BY <1>1, <1>2, StepAsking, PTL DEF Spec

-----------------------------------------------------------------------------
(***************************************************************************)
(* Which answer a question gets.  Taken lines have left the reader: the    *)
(* answers among them are as many as the questions settled, until the      *)
(* input is at its end.                                                    *)
(***************************************************************************)
AnswersIn(lines, i) == Cardinality({j \in 1 .. i : lines[j] \in Answers})

LEMMA AnswersCount ==
    ASSUME NEW lines, NEW i \in Nat
    PROVE  /\ AnswersIn(lines, i) \in Nat
           /\ AnswersIn(lines, i + 1) =
                 AnswersIn(lines, i) + (IF lines[i + 1] \in Answers THEN 1 ELSE 0)
           /\ \A j \in 0 .. i : AnswersIn(lines, j) <= AnswersIn(lines, i)
  <1> DEFINE A(n) == {j \in 1 .. n : lines[j] \in Answers}
  <1>1. \A n \in Nat : IsFiniteSet(A(n)) /\ Cardinality(A(n)) \in Nat
    <2> SUFFICES ASSUME NEW n \in Nat PROVE IsFiniteSet(A(n)) /\ Cardinality(A(n)) \in Nat
      OBVIOUS
    <2>1. IsFiniteSet(1 .. n)
      BY FS_Interval
    <2>2. QED
      BY <2>1, FS_Subset, FS_CardinalityType
  <1>2. /\ AnswersIn(lines, i) \in Nat
        /\ \A j \in 0 .. i : AnswersIn(lines, j) <= AnswersIn(lines, i)
    <2>1. \A j \in 0 .. i : A(j) \in SUBSET A(i)
      OBVIOUS
    <2>2. QED
      BY <1>1, <2>1, FS_Subset DEF AnswersIn
  <1>3. CASE lines[i + 1] \in Answers
    <2>1. A(i + 1) = A(i) \cup {i + 1} /\ i + 1 \notin A(i)
      BY <1>3
    <2>2. IsFiniteSet(A(i))
      BY <1>1
    <2> HIDE DEF A
    <2>3. Cardinality(A(i + 1)) = Cardinality(A(i)) + 1
      BY <2>1, <2>2, FS_AddElement
    <2>4. QED
      BY <1>2, <1>3, <2>3 DEF A, AnswersIn
  <1>4. CASE lines[i + 1] \notin Answers
    <2>1. A(i + 1) = A(i)
      BY <1>4
    <2>2. QED
      BY <1>2, <1>4, <2>1 DEF AnswersIn
  <1>5. QED
    BY <1>3, <1>4

(* Lines that are typed later do not count for the ones before.            *)
LEMMA AnswersStay ==
    ASSUME NEW lines, NEW more, NEW i \in Nat, \A j \in 1 .. i : lines[j] = more[j]
    PROVE  \A j \in 0 .. i : AnswersIn(lines, j) = AnswersIn(more, j)
  <1> SUFFICES ASSUME NEW j \in 0 .. i PROVE AnswersIn(lines, j) = AnswersIn(more, j)
    OBVIOUS
  <1>1. {k \in 1 .. j : lines[k] \in Answers} = {k \in 1 .. j : more[k] \in Answers}
    OBVIOUS
  <1>2. QED
    BY <1>1 DEF AnswersIn

Taken == Len(typed) - Len(buffer)

(* The answer to the k-th question, among the first n lines.               *)
SaysYes(lines, n, k) == \E i \in 1 .. n : lines[i] = "yes" /\ AnswersIn(lines, i) = k

Reading ==
    /\ Taken \in Nat
    /\ \A i \in 1 .. Len(buffer) : buffer[i] = typed[Taken + i]
    /\ mode = {} =>
          /\ \/ Len(asked) = AnswersIn(typed, Taken)
             \/ closed /\ buffer = << >> /\ Len(asked) >= AnswersIn(typed, Taken)
          /\ \A k \in 1 .. Len(asked) : asked[k].yes <=> SaysYes(typed, Taken, k)

(* One more line is taken.                                                 *)
LEMMA TakeLine ==
    ASSUME TypeOK, Reading, buffer # << >>, buffer' = Tail(buffer), UNCHANGED typed
    PROVE  /\ Taken' = Taken + 1 /\ Taken \in Nat /\ Head(buffer) = typed[Taken + 1]
           /\ \A i \in 1 .. Len(buffer') : buffer'[i] = typed[Taken' + i]
  <1>1. /\ Len(buffer) \in Nat /\ Len(typed) \in Nat /\ Len(buffer) # 0
        /\ Len(buffer') = Len(buffer) - 1 /\ Head(buffer) = buffer[1]
        /\ \A i \in 1 .. Len(buffer') : buffer'[i] = buffer[i + 1]
    BY HeadTailProperties, LenProperties, EmptySeq DEF TypeOK
  <1>2. Taken' = Taken + 1 /\ Taken \in Nat
    BY <1>1 DEF Taken, Reading
  <1>3. \A i \in 1 .. Len(buffer) : buffer[i] = typed[Taken + i]
    BY DEF Reading
  <1>4. Head(buffer) = typed[Taken + 1]
    BY <1>1, <1>3
  <1>5. ASSUME NEW i \in 1 .. Len(buffer') PROVE buffer'[i] = typed[Taken' + i]
    <2>1. i + 1 \in 1 .. Len(buffer) /\ Taken + (i + 1) = Taken' + i
      BY <1>1, <1>2
    <2>2. QED
      BY <1>1, <1>3, <2>1
  <1>6. QED
    BY <1>2, <1>4, <1>5

LEMMA FillReading ==
    ASSUME TypeOK, TypeOK', Reading, Fill
    PROVE  Reading'
  <1>1. PICK lines : buffer' = lines /\ typed' = typed \o lines /\ lines \in Seq(Lines)
    BY DEF Fill, TypeOK
  <1>2. /\ buffer = << >> /\ ~closed /\ Len(buffer) = 0 /\ UNCHANGED <<mode, asked>>
    BY DEF Fill, fixed
  <1>3. /\ Len(typed) \in Nat /\ Len(lines) \in Nat
        /\ Len(typed') = Len(typed) + Len(lines)
        /\ \A i \in 1 .. Len(typed) + Len(lines) :
              typed'[i] = IF i <= Len(typed) THEN typed[i] ELSE lines[i - Len(typed)]
    BY <1>1, ConcatProperties, LenProperties DEF TypeOK
  <1>4. Taken = Len(typed) /\ Taken' = Len(typed)
    BY <1>1, <1>2, <1>3 DEF Taken
  <1>5. ASSUME NEW i \in 1 .. Len(lines) PROVE lines[i] = typed'[Taken' + i]
    <2>1. Len(typed) + i \in 1 .. Len(typed) + Len(lines) /\ ~(Len(typed) + i <= Len(typed))
          /\ (Len(typed) + i) - Len(typed) = i
      BY <1>3
    <2>2. QED
      BY <1>3, <1>4, <2>1
  <1>6. \A i \in 1 .. Taken : typed[i] = typed'[i]
    BY <1>3, <1>4
  <1>7. \A i \in 0 .. Taken : AnswersIn(typed, i) = AnswersIn(typed', i)
    <2>1. Taken \in Nat
      BY <1>3, <1>4
    <2>2. QED
      BY <1>6, <2>1, AnswersStay
  <1>8. \A k : SaysYes(typed, Taken, k) <=> SaysYes(typed', Taken, k)
    <2>1. \A i \in 1 .. Taken : i \in 0 .. Taken
      BY <1>3, <1>4
    <2>2. QED
      BY <1>6, <1>7, <2>1 DEF SaysYes
  <1>9. mode' = {} => /\ Len(asked') = AnswersIn(typed', Taken')
                      /\ \A k \in 1 .. Len(asked') : asked'[k].yes <=> SaysYes(typed', Taken', k)
    <2>1. Taken \in 0 .. Taken /\ Taken' = Taken
      BY <1>3, <1>4
    <2>2. QED
      BY <1>2, <1>7, <1>8, <2>1 DEF Reading
  <1>10. QED
    BY <1>1, <1>3, <1>4, <1>5, <1>9 DEF Reading

LEMMA AnswerReading ==
    ASSUME TypeOK, Reading, Answer
    PROVE  Reading'
  <1> DEFINE n == Len(asked)
             k == n + 1
             t == Taken
             yes == Head(buffer) = "yes"
  <1>1. /\ mode = {} /\ pending # << >> /\ buffer # << >> /\ Head(buffer) \in Answers
        /\ buffer' = Tail(buffer) /\ UNCHANGED <<typed, mode>> /\ Resolve(yes)
    BY DEF Answer, fixed
  <1>2. /\ Taken' = t + 1 /\ t \in Nat /\ Head(buffer) = typed[t + 1]
        /\ \A i \in 1 .. Len(buffer') : buffer'[i] = typed[Taken' + i]
    BY <1>1, TakeLine
  <1>3. /\ n \in Nat /\ Len(asked') = n + 1 /\ \A i \in 1 .. n : asked'[i] = asked[i]
        /\ asked'[n + 1].yes = yes
    <2>1. yes \in BOOLEAN
      OBVIOUS
    <2> HIDE DEF yes
    <2>2. QED
      BY <1>1, <2>1, ResolveMoves
  <1>4. n = AnswersIn(typed, t) /\ \A i \in 1 .. n : asked[i].yes <=> SaysYes(typed, t, i)
    BY <1>1 DEF Reading
  <1> HIDE DEF n, t
  <1>5. /\ AnswersIn(typed, t + 1) = n + 1
        /\ \A i \in 0 .. t : AnswersIn(typed, i) <= n
    BY <1>1, <1>2, <1>4, AnswersCount
  <1>6. ASSUME NEW i \in 1 .. n + 1
        PROVE  asked'[i].yes <=> SaysYes(typed, t + 1, i)
    <2>1. \A j \in 1 .. t + 1 : j \in 1 .. t \/ j = t + 1
      BY <1>2
    <2>2. \A j \in 1 .. t : j \in 1 .. t + 1 /\ j \in 0 .. t
      BY <1>2
    <2>3. t + 1 \in 1 .. t + 1
      BY <1>2
    <2>4. CASE i \in 1 .. n
      <3>1. i # n + 1
        BY <1>3, <2>4
      <3>2. SaysYes(typed, t + 1, i) <=> SaysYes(typed, t, i)
        BY <1>5, <2>1, <2>2, <3>1 DEF SaysYes
      <3>3. QED
        BY <1>3, <1>4, <2>4, <3>2
    <2>5. CASE i = n + 1
      <3>1. \A j \in 1 .. t : AnswersIn(typed, j) # i
        <4>1. \A j \in 0 .. t : AnswersIn(typed, j) \in Nat
          BY <1>2, AnswersCount
        <4>2. QED
          BY <1>3, <1>5, <2>2, <2>5, <4>1
      <3>2. SaysYes(typed, t + 1, i) <=> typed[t + 1] = "yes"
        BY <1>5, <2>1, <2>3, <2>5, <3>1 DEF SaysYes
      <3>3. QED
        BY <1>2, <1>3, <2>5, <3>2
    <2>6. QED
      BY <1>3, <2>4, <2>5
  <1>7. QED
    BY <1>1, <1>2, <1>3, <1>5, <1>6 DEF Reading

LEMMA AskAgainReading ==
    ASSUME TypeOK, Reading, AskAgain
    PROVE  Reading'
  <1> DEFINE t == Taken
  <1>1. /\ mode = {} /\ buffer # << >> /\ Head(buffer) \notin Answers
        /\ buffer' = Tail(buffer) /\ UNCHANGED <<typed, mode, asked>>
    BY DEF AskAgain, fixed
  <1>2. /\ Taken' = t + 1 /\ t \in Nat /\ Head(buffer) = typed[t + 1]
        /\ \A i \in 1 .. Len(buffer') : buffer'[i] = typed[Taken' + i]
    BY <1>1, TakeLine
  <1>3. /\ Len(asked) = AnswersIn(typed, t)
        /\ \A k \in 1 .. Len(asked) : asked[k].yes <=> SaysYes(typed, t, k)
    BY <1>1 DEF Reading
  <1> HIDE DEF t
  <1>4. AnswersIn(typed, t + 1) = AnswersIn(typed, t)
    <2>1. t \in Nat /\ typed[t + 1] \notin Answers
      BY <1>1, <1>2
    <2>2. /\ AnswersIn(typed, t) \in Nat
          /\ AnswersIn(typed, t + 1) =
                AnswersIn(typed, t) + (IF typed[t + 1] \in Answers THEN 1 ELSE 0)
      BY <2>1, AnswersCount
    <2>3. QED
      BY <2>1, <2>2
  <1>5. \A k : SaysYes(typed, t + 1, k) <=> SaysYes(typed, t, k)
    <2>1. typed[t + 1] # "yes"
      BY <1>1, <1>2 DEF Answers
    <2>2. \A j : j \in 1 .. t + 1 <=> (j \in 1 .. t \/ j = t + 1)
      BY <1>2
    <2>3. QED
      BY <2>1, <2>2 DEF SaysYes
  <1>6. QED
    BY <1>1, <1>2, <1>3, <1>4, <1>5 DEF Reading

LEMMA DeclineReading ==
    ASSUME TypeOK, Reading, DeclineAtEnd
    PROVE  Reading'
  <1> DEFINE n == Len(asked)
             t == Taken
  <1>1. /\ mode = {} /\ pending # << >> /\ buffer = << >> /\ closed
        /\ UNCHANGED <<typed, buffer, closed, mode>> /\ Resolve(FALSE)
    BY DEF DeclineAtEnd, fixed, input
  <1>2. /\ n \in Nat /\ Len(asked') = n + 1 /\ \A i \in 1 .. n : asked'[i] = asked[i]
        /\ asked'[n + 1].yes = FALSE
    BY <1>1, ResolveMoves
  <1>3. /\ t \in Nat /\ Taken' = t /\ n >= AnswersIn(typed, t)
        /\ \A k \in 1 .. n : asked[k].yes <=> SaysYes(typed, t, k)
    <2>1. Taken' = t
      BY <1>1 DEF Taken
    <2>2. AnswersIn(typed, t) \in Nat
      BY AnswersCount DEF Reading
    <2>3. QED
      BY <1>1, <1>2, <2>1, <2>2 DEF Reading
  <1> HIDE DEF n, t
  <1>4. ~SaysYes(typed, t, n + 1)
    <2>1. \A i \in 0 .. t : AnswersIn(typed, i) \in Nat /\ AnswersIn(typed, i) <= n
      <3>1. \A i \in 0 .. t : /\ AnswersIn(typed, i) \in Nat
                             /\ AnswersIn(typed, i) <= AnswersIn(typed, t)
        BY <1>3, AnswersCount
      <3>2. AnswersIn(typed, t) \in Nat
        BY <1>3, AnswersCount
      <3>3. QED
        BY <1>2, <1>3, <3>1, <3>2
    <2>2. \A i \in 1 .. t : i \in 0 .. t
      OBVIOUS
    <2>3. QED
      BY <1>2, <2>1, <2>2 DEF SaysYes
  <1>5. \A k \in 1 .. n + 1 : asked'[k].yes <=> SaysYes(typed, t, k)
    <2>1. \A k \in 1 .. n + 1 : k \in 1 .. n \/ k = n + 1
      BY <1>2
    <2>2. QED
      BY <1>2, <1>3, <1>4, <2>1
  <1>6. n + 1 >= AnswersIn(typed, t)
    <2>1. AnswersIn(typed, t) \in Nat
      BY <1>3, AnswersCount
    <2>2. QED
      BY <1>2, <1>3, <2>1
  <1>7. \A i \in 1 .. Len(buffer') : buffer'[i] = typed'[Taken' + i]
    BY <1>1, <1>3 DEF Reading, t
  <1>8. QED
    BY <1>1, <1>2, <1>3, <1>5, <1>6, <1>7 DEF Reading

LEMMA StepReading ==
    ASSUME TypeOK, Reading, TypeOK', [Next]_vars
    PROVE  Reading'
  <1>1. CASE Fill \/ Answer \/ AskAgain \/ DeclineAtEnd
    BY <1>1, FillReading, AnswerReading, AskAgainReading, DeclineReading
  <1>2. CASE Assume
    <2>1. mode # {} /\ UNCHANGED <<mode, typed, buffer>>
      BY <1>2 DEF Assume, fixed, input
    <2>2. Taken' = Taken
      BY <2>1 DEF Taken
    <2>3. QED
      BY <2>1, <2>2 DEF Reading
  <1>3. CASE Start \/ Resolved \/ Replay \/ RefuseRename \/ SecondPass \/ Gate \/ UNCHANGED vars
    <2>1. UNCHANGED <<mode, typed, buffer, closed, asked>>
      BY <1>3 DEF Start, Resolved, Replay, RefuseRename, SecondPass, Gate, Goto, vars, fixed, input
    <2>2. Taken' = Taken
      BY <2>1 DEF Taken
    <2>3. QED
      BY <2>1, <2>2 DEF Reading
  <1>4. QED
    BY <1>1, <1>2, <1>3 DEF Next, Step, Ended

(* Lines the reader has not given out are answers to later questions.      *)
LEMMA ReadingInOrder ==
    ASSUME TypeOK, Reading
    PROVE  AnswersInOrder
  <1> SUFFICES ASSUME mode = {}, NEW k \in 1 .. Len(asked)
               PROVE  asked[k].yes <=>
                        \E i \in 1 .. Len(typed) : typed[i] = "yes" /\ AnswersUpTo(i) = k
    BY DEF AnswersInOrder
  <1>1. \A i : AnswersUpTo(i) = AnswersIn(typed, i)
    BY DEF AnswersUpTo, AnswersIn
  <1>2. /\ Len(typed) \in Nat /\ Len(buffer) \in Nat /\ Len(asked) \in Nat
        /\ Taken \in Nat /\ Taken <= Len(typed)
    BY LenProperties DEF TypeOK, Reading, Taken
  <1>3. asked[k].yes <=> SaysYes(typed, Taken, k)
    BY DEF Reading
  <1>4. ASSUME NEW i \in 1 .. Len(typed), i > Taken, typed[i] = "yes"
        PROVE  AnswersIn(typed, i) # k
    <2>1. Taken # Len(typed)
      BY <1>2, <1>4
    <2>2. buffer # << >>
      <3>1. Len(<< >>) = 0
        OBVIOUS
      <3>2. QED
        BY <1>2, <2>1, <3>1 DEF Taken
    <2>3. Len(asked) = AnswersIn(typed, Taken)
      BY <2>2 DEF Reading
    <2>4. i - 1 \in Nat /\ (i - 1) + 1 = i /\ Taken \in 0 .. i - 1
      BY <1>2, <1>4
    <2>5. AnswersIn(typed, i) = AnswersIn(typed, i - 1) + 1
      <3>1. typed[(i - 1) + 1] \in Answers
        BY <1>4, <2>4 DEF Answers
      <3>2. QED
        BY <2>4, <3>1, AnswersCount
    <2>6. AnswersIn(typed, i - 1) \in Nat /\ AnswersIn(typed, Taken) <= AnswersIn(typed, i - 1)
      BY <2>4, AnswersCount
    <2>7. QED
      BY <1>2, <2>3, <2>5, <2>6
  <1>5. (\E i \in 1 .. Len(typed) : typed[i] = "yes" /\ AnswersIn(typed, i) = k)
           <=> SaysYes(typed, Taken, k)
    <2>1. \A i \in 1 .. Len(typed) : i \in 1 .. Taken \/ i > Taken
      BY <1>2
    <2>2. \A i \in 1 .. Taken : i \in 1 .. Len(typed)
      BY <1>2
    <2>3. QED
      BY <1>4, <2>1, <2>2 DEF SaysYes
  <1>6. QED
    BY <1>1, <1>3, <1>5

(* The k-th question gets the k-th answer of the input and no other, over  *)
(* both passes and however the lines arrive: the reader that takes in more *)
(* than a line at a time loses none of them.                               *)
THEOREM AnswersGoInOrder == Spec => []AnswersInOrder
  <1>1. Init => TypeOK /\ Reading
    <2> SUFFICES ASSUME Init PROVE Reading
      BY InitType
    <2>1. asked = << >> /\ typed = << >> /\ buffer = << >>
      BY DEF Init
    <2>2. Len(asked) = 0 /\ Len(typed) = 0 /\ Len(buffer) = 0 /\ Taken = 0
      BY <2>1 DEF Taken
    <2>3. AnswersIn(typed, 0) = 0
      <3>1. {j \in 1 .. 0 : typed[j] \in Answers} = {}
        OBVIOUS
      <3>2. QED
        BY <3>1, FS_EmptySet DEF AnswersIn
    <2>4. QED
      BY <2>2, <2>3 DEF Reading
  <1>2. TypeOK /\ Reading /\ [Next]_vars => (TypeOK /\ Reading)'
    BY NextType, StepReading
  <1>3. TypeOK /\ Reading => AnswersInOrder
    BY ReadingInOrder
  <1>4. QED
    BY <1>1, <1>2, <1>3, PTL DEF Spec
=============================================================================
