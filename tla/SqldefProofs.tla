----------------------------- MODULE SqldefProofs -----------------------------
(***************************************************************************)
(* Theorems about Sqldef, for texts of every size: what sqldef is sent and *)
(* what Diff returns.  The invariant has two parts.  SendInv says what the *)
(* variables hold until sqldef has been asked: the text follows the grammar, *)
(* has been paid for, and each text is sent as it is sealed, a placeholder *)
(* for each expression and quotes round each name (WalkerProofs).  DdlInv  *)
(* follows sqldef's statements back: each column has the words of its      *)
(* symbols, and each expression comes back whole.                          *)
(***************************************************************************)
EXTENDS WalkerProofs

-----------------------------------------------------------------------------
(***************************************************************************)
(* More about what a text says.                                            *)
(***************************************************************************)
(* The first n of the words.                                               *)
Upfront(words, n) == [i \in 1 .. (IF n <= Len(words) THEN n ELSE Len(words)) |-> words[i]]

(* The first words, one by one.                                            *)
LEMMA UpfrontMore ==
    ASSUME NEW X, NEW e \in Seq(X), NEW n \in Nat
    PROVE  /\ Upfront(e, 0) = << >> /\ Upfront(e, Len(e)) = e
           /\ n + 1 <= Len(e) => Upfront(e, n + 1) = Upfront(e, n) \o <<e[n + 1]>>
           /\ ~(n + 1 <= Len(e)) => Upfront(e, n + 1) = Upfront(e, n) \o << >>
  <1>0. Len(e) \in Nat /\ e = [i \in 1 .. Len(e) |-> e[i]] /\ \A i \in 1 .. Len(e) : e[i] \in X
    BY LenProperties, ElementOfSeq
  <1>1. Upfront(e, 0) = << >>
    <2>1. Upfront(e, 0) = [i \in 1 .. 0 |-> e[i]]
      BY <1>0 DEF Upfront
    <2>2. QED
      BY <2>1
  <1>2. Upfront(e, Len(e)) = e
    BY <1>0 DEF Upfront
  <1>3. ASSUME NEW k \in 0 .. Len(e)
        PROVE  Upfront(e, k) \in Seq(X) /\ Len(Upfront(e, k)) = k
               /\ \A i \in 1 .. k : Upfront(e, k)[i] = e[i]
    <2>1. Upfront(e, k) = [i \in 1 .. k |-> e[i]]
      BY <1>0 DEF Upfront
    <2>2. \A i \in 1 .. k : e[i] \in X
      BY <1>0
    <2>3. k \in Nat
      BY <1>0
    <2>4. [i \in 1 .. k |-> e[i]] \in Seq(X)
      BY <2>2, <2>3, IsASeq
    <2>5. QED
      BY <2>1, <2>3, <2>4
  <1>4. ASSUME n + 1 <= Len(e)
        PROVE  Upfront(e, n + 1) = Upfront(e, n) \o <<e[n + 1]>>
    <2> DEFINE a == Upfront(e, n)
               b == Upfront(e, n + 1)
               c == <<e[n + 1]>>
    <2>1. n \in 0 .. Len(e) /\ n + 1 \in 0 .. Len(e) /\ n + 1 \in 1 .. Len(e)
      BY <1>0, <1>4
    <2>2. a \in Seq(X) /\ Len(a) = n /\ \A i \in 1 .. n : a[i] = e[i]
      BY <1>3, <2>1
    <2>3. b \in Seq(X) /\ Len(b) = n + 1 /\ \A i \in 1 .. n + 1 : b[i] = e[i]
      BY <1>3, <2>1
    <2>4. c \in Seq(X) /\ Len(c) = 1 /\ c[1] = e[n + 1]
      BY <1>0, <2>1
    <2> HIDE DEF a, b, c
    <2>5. a \o c \in Seq(X) /\ Len(a \o c) = n + 1
          /\ \A i \in 1 .. n + 1 : (a \o c)[i] = IF i <= n THEN a[i] ELSE c[i - n]
      <3>1. /\ a \o c \in Seq(X) /\ Len(a \o c) = Len(a) + Len(c)
            /\ \A i \in 1 .. Len(a) + Len(c) :
                  (a \o c)[i] = IF i <= Len(a) THEN a[i] ELSE c[i - Len(a)]
        BY <2>2, <2>4, ConcatProperties
      <3>2. QED
        BY <2>2, <2>4, <3>1
    <2>6. \A i \in 1 .. n + 1 : b[i] = (a \o c)[i]
      BY <2>2, <2>3, <2>4, <2>5
    <2>7. b = a \o c
      <3>1. Len(b) = Len(a \o c) /\ \A i \in 1 .. Len(b) : b[i] = (a \o c)[i]
        BY <2>3, <2>5, <2>6
      <3> DEFINE d == a \o c
      <3> HIDE DEF d
      <3>2. d \in Seq(X) /\ Len(b) = Len(d) /\ \A i \in 1 .. Len(b) : b[i] = d[i]
        BY <2>5, <3>1 DEF d
      <3>3. b = d
        BY <2>3, <3>2, SeqEqual
      <3>4. QED
        BY <3>3 DEF d
    <2>8. QED
      BY <2>7 DEF a, b, c
  <1>5. ASSUME ~(n + 1 <= Len(e)) PROVE Upfront(e, n + 1) = Upfront(e, n) \o << >>
    <2>1. Upfront(e, n + 1) = e /\ Upfront(e, n) = e
      BY <1>0, <1>5 DEF Upfront
    <2>2. QED
      BY <2>1, ConcatEmptySeq
  <1>6. QED
    BY <1>1, <1>2, <1>4, <1>5

(* Single words, and then nothing.                                         *)
LEMMA FlattenSingles ==
    ASSUME NEW X, NEW e \in Seq(X), NEW g \in Seq(Seq(X)), Len(e) <= Len(g),
           \A i \in 1 .. Len(g) : g[i] = IF i <= Len(e) THEN <<e[i]>> ELSE << >>
    PROVE  FlattenSeq(g) = e
  <1> DEFINE Singles(h) == \A i \in 1 .. Len(h) : h[i] = IF i <= Len(e) THEN <<e[i]>> ELSE << >>
             P == {h \in Seq(Seq(X)) : Singles(h) => FlattenSeq(h) = Upfront(e, Len(h))}
  <1>0. << >> \in Seq(Seq(X)) /\ Len(<< >>) = 0 /\ Len(e) \in Nat
    BY LenProperties
  <1>1. << >> \in P
    BY <1>0, UpfrontMore, FlattenNone
  <1>2. ASSUME NEW h \in Seq(Seq(X)), NEW x \in Seq(X), h \in P
        PROVE  Append(h, x) \in P
    <2> DEFINE t == Append(h, x)
               n == Len(h)
    <2>1. t \in Seq(Seq(X)) /\ Len(t) = n + 1 /\ t[n + 1] = x /\ \A i \in 1 .. n : t[i] = h[i]
      BY AppendProperties
    <2>2. n \in Nat
      BY LenProperties
    <2>3. FlattenSeq(t) = FlattenSeq(h) \o x
      BY FlattenMore
    <2>4. ASSUME Singles(t) PROVE FlattenSeq(t) = Upfront(e, n + 1)
      <3>1. Singles(h)
        <4> HIDE DEF t
        <4>1. \A i \in 1 .. n : i \in 1 .. Len(t) /\ t[i] = h[i]
          BY <2>1, <2>2
        <4>2. QED
          BY <2>4, <4>1
      <3>2. FlattenSeq(h) = Upfront(e, n)
        BY <1>2, <3>1
      <3>3. x = IF n + 1 <= Len(e) THEN <<e[n + 1]>> ELSE << >>
        <4> HIDE DEF t
        <4>1. n + 1 \in 1 .. Len(t)
          BY <2>1, <2>2
        <4>2. t[n + 1] = IF n + 1 <= Len(e) THEN <<e[n + 1]>> ELSE << >>
          BY <2>4, <4>1
        <4>3. QED
          BY <2>1, <4>2
      <3> HIDE DEF t, Singles, P, n
      <3>4. CASE n + 1 <= Len(e)
        <4>1. Upfront(e, n + 1) = Upfront(e, n) \o <<e[n + 1]>>
          BY <2>2, <3>4, UpfrontMore
        <4>2. x = <<e[n + 1]>>
          BY <3>3, <3>4
        <4>3. QED
          BY <2>3, <3>2, <4>1, <4>2
      <3>5. CASE ~(n + 1 <= Len(e))
        <4>1. Upfront(e, n + 1) = Upfront(e, n) \o << >>
          BY <2>2, <3>5, UpfrontMore
        <4>2. x = << >>
          BY <3>3, <3>5
        <4>3. QED
          BY <2>3, <3>2, <4>1, <4>2
      <3>6. QED
        BY <3>4, <3>5
    <2>5. QED
      BY <2>1, <2>4
  <1>3. \A h \in Seq(Seq(X)) : h \in P
    <2> HIDE DEF P
    <2>1. QED
      BY <1>1, <1>2, WordByWord
  <1>4. FlattenSeq(g) = Upfront(e, Len(g))
    BY <1>3
  <1>5. Upfront(e, Len(g)) = e
    <2>1. Len(g) \in Nat
      BY LenProperties
    <2>2. Upfront(e, Len(g)) = Upfront(e, Len(e))
      BY <1>0, <2>1 DEF Upfront
    <2>3. QED
      BY <1>0, <2>2, UpfrontMore
  <1>6. QED
    BY <1>4, <1>5

(* Symbols that say nothing say nothing.                                   *)
LEMMA SayingSilent ==
    ASSUME NEW S, NEW f, NEW s \in Seq(S), \A i \in DOMAIN s : f[s[i]] = << >>
    PROVE  Saying(f, s) = << >>
  <1> DEFINE g == [i \in DOMAIN s |-> f[s[i]]]
             e == << >>
  <1>1. DOMAIN s = 1 .. Len(s) /\ Len(s) \in Nat
    BY LenProperties
  <1>2. g = [i \in 1 .. Len(s) |-> << >>]
    BY <1>1
  <1>3. e \in Seq(S) /\ Len(e) = 0
    OBVIOUS
  <1>4. g \in Seq(Seq(S)) /\ Len(g) = Len(s) /\ \A i \in 1 .. Len(s) : g[i] = << >>
    <2>1. [i \in 1 .. Len(s) |-> << >>] \in Seq(Seq(S))
      <3>1. << >> \in Seq(S)
        OBVIOUS
      <3>2. QED
        BY <1>1, <3>1, IsASeq
    <2>2. g \in Seq(Seq(S)) /\ DOMAIN g = 1 .. Len(s) /\ \A i \in 1 .. Len(s) : g[i] = << >>
      BY <1>2, <2>1
    <2> HIDE DEF g
    <2>3. DOMAIN g = 1 .. Len(g) /\ Len(g) \in Nat
      BY <2>2, LenProperties
    <2>4. QED
      BY <1>1, <2>2, <2>3
  <1> HIDE DEF g, e
  <1>5. \A i \in 1 .. Len(g) : g[i] = IF i <= Len(e) THEN <<e[i]>> ELSE << >>
    BY <1>1, <1>3, <1>4
  <1>6. Len(e) <= Len(g)
    BY <1>1, <1>3, <1>4
  <1>7. FlattenSeq(g) = e
    BY <1>3, <1>4, <1>5, <1>6, FlattenSingles
  <1>8. QED
    BY <1>7 DEF Saying, g, e

Singly(f, g, s, X) == \A i \in DOMAIN s : g[s[i]] \in X /\ f[s[i]] = <<g[s[i]]>>

(* Symbols that say a word each say their words in their places.           *)
LEMMA SayingSingles ==
    ASSUME NEW S, NEW X, NEW f, NEW g, NEW s \in Seq(S), Singly(f, g, s, X)
    PROVE  Saying(f, s) = [i \in DOMAIN s |-> g[s[i]]]
  <1> DEFINE h == [i \in DOMAIN s |-> f[s[i]]]
             e == [i \in DOMAIN s |-> g[s[i]]]
  <1>1. DOMAIN s = 1 .. Len(s) /\ Len(s) \in Nat
    BY LenProperties
  <1>2. e \in Seq(X) /\ Len(e) = Len(s) /\ \A i \in 1 .. Len(s) : e[i] = g[s[i]]
    <2>1. [i \in 1 .. Len(s) |-> g[s[i]]] \in Seq(X)
      BY <1>1, IsASeq DEF Singly
    <2>2. QED
      BY <1>1, <2>1
  <1>3. h \in Seq(Seq(X)) /\ Len(h) = Len(s) /\ \A i \in 1 .. Len(s) : h[i] = <<e[i]>>
    <2>1. \A i \in 1 .. Len(s) : f[s[i]] \in Seq(X)
      <3>1. \A x \in X : <<x>> \in Seq(X)
        OBVIOUS
      <3>2. QED
        BY <1>1, <3>1 DEF Singly
    <2>2. [i \in 1 .. Len(s) |-> f[s[i]]] \in Seq(Seq(X))
      BY <1>1, <2>1, IsASeq
    <2>3. /\ h \in Seq(Seq(X)) /\ DOMAIN h = 1 .. Len(s)
          /\ \A i \in 1 .. Len(s) : h[i] = f[s[i]]
      BY <1>1, <2>2
    <2> HIDE DEF h, e
    <2>4. DOMAIN h = 1 .. Len(h) /\ Len(h) \in Nat
      BY <2>3, LenProperties
    <2>5. ASSUME NEW i \in 1 .. Len(s) PROVE h[i] = <<e[i]>>
      <3>1. h[i] = f[s[i]] /\ e[i] = g[s[i]]
        BY <1>2, <2>3
      <3>2. f[s[i]] = <<g[s[i]]>>
        BY <1>1 DEF Singly
      <3>3. QED
        BY <3>1, <3>2
    <2>6. Len(h) = Len(s)
      BY <1>1, <2>3, <2>4
    <2>7. QED
      BY <2>3, <2>5, <2>6
  <1> HIDE DEF h, e
  <1>4. Len(e) <= Len(h) /\ \A i \in 1 .. Len(h) : h[i] = IF i <= Len(e) THEN <<e[i]>> ELSE << >>
    BY <1>1, <1>2, <1>3
  <1>5. FlattenSeq(h) = e
    BY <1>2, <1>3, <1>4, FlattenSingles
  <1>6. QED
    BY <1>5 DEF Saying, h, e

(* What is in a sequence that is flattened.                                *)
Occurs(x, s) == \E i \in DOMAIN s : s[i] = x

(* What occurs in two sequences joined occurs in one of them.              *)
LEMMA WithinBoth ==
    ASSUME NEW X, NEW a \in Seq(X), NEW b \in Seq(X), NEW x
    PROVE  Occurs(x, a \o b) <=> Occurs(x, a) \/ Occurs(x, b)
  <1> DEFINE c == a \o b
  <1>1. /\ c \in Seq(X) /\ Len(c) = Len(a) + Len(b)
        /\ \A i \in 1 .. Len(a) + Len(b) : c[i] = IF i <= Len(a) THEN a[i] ELSE b[i - Len(a)]
    BY ConcatProperties
  <1>2. /\ DOMAIN a = 1 .. Len(a) /\ DOMAIN b = 1 .. Len(b) /\ DOMAIN c = 1 .. Len(c)
        /\ Len(a) \in Nat /\ Len(b) \in Nat
    BY <1>1, LenProperties
  <1> HIDE DEF c
  <1>3. ASSUME NEW i \in DOMAIN a PROVE i \in DOMAIN c /\ c[i] = a[i]
    BY <1>1, <1>2
  <1>4. ASSUME NEW i \in DOMAIN b
        PROVE  Len(a) + i \in DOMAIN c /\ c[Len(a) + i] = b[i]
    BY <1>1, <1>2
  <1>5. ASSUME NEW i \in DOMAIN c
        PROVE  (i \in DOMAIN a /\ c[i] = a[i]) \/ (i - Len(a) \in DOMAIN b /\ c[i] = b[i - Len(a)])
    BY <1>1, <1>2
  <1>6. QED
    BY <1>3, <1>4, <1>5 DEF Occurs, c

(* What occurs in FlattenSeq occurs in one of the sequences.               *)
LEMMA FlattenHas ==
    ASSUME NEW X, NEW g \in Seq(Seq(X)), NEW x
    PROVE  Occurs(x, FlattenSeq(g)) <=> \E i \in DOMAIN g : Occurs(x, g[i])
  <1> DEFINE Some(h) == \E i \in DOMAIN h : Occurs(x, h[i])
             P == {h \in Seq(Seq(X)) : Occurs(x, FlattenSeq(h)) <=> Some(h)}
  <1>1. << >> \in P
    <2>1. DOMAIN << >> = {} /\ << >> \in Seq(Seq(X))
      OBVIOUS
    <2>2. QED
      BY <2>1, FlattenNone DEF Occurs
  <1>2. ASSUME NEW h \in Seq(Seq(X)), NEW y \in Seq(X), h \in P
        PROVE  Append(h, y) \in P
    <2> DEFINE t == Append(h, y)
               n == Len(h)
    <2>1. t \in Seq(Seq(X)) /\ Len(t) = n + 1 /\ t[n + 1] = y /\ \A i \in 1 .. n : t[i] = h[i]
      BY AppendProperties
    <2>2. n \in Nat /\ DOMAIN h = 1 .. n /\ DOMAIN t = 1 .. n + 1
      BY <2>1, LenProperties
    <2>3. FlattenSeq(t) = FlattenSeq(h) \o y /\ FlattenSeq(h) \in Seq(X)
      BY FlattenMore, FlattenType
    <2> HIDE DEF t, n
    <2>4. Occurs(x, FlattenSeq(t)) <=> Occurs(x, FlattenSeq(h)) \/ Occurs(x, y)
      BY <2>3, WithinBoth
    <2>5. Some(t) <=> Some(h) \/ Occurs(x, y)
      <3>1. DOMAIN t = DOMAIN h \cup {n + 1}
        BY <2>2
      <3>2. \A i \in DOMAIN h : t[i] = h[i]
        BY <2>1, <2>2
      <3>3. QED
        BY <2>1, <3>1, <3>2
    <2>6. t \in P
      BY <1>2, <2>1, <2>4, <2>5
    <2>7. QED
      BY <2>6 DEF t
  <1>3. \A h \in Seq(Seq(X)) : h \in P
    <2> HIDE DEF P
    <2>1. QED
      BY <1>1, <1>2, WordByWord
  <1>4. QED
    BY <1>3

(***************************************************************************)
(* The text without its new columns.                                       *)
(***************************************************************************)
Upto(n) == [x \in Symbols |-> IF x.column > n THEN << >> ELSE <<x>>]

(* Leaving out the later columns is a saying of symbols.                   *)
LEMMA UptoType ==
    ASSUME NEW n
    PROVE  Upto(n) \in Sayings(Symbols, Symbols)
  <1>1. ASSUME NEW x \in Symbols
        PROVE  (IF x.column > n THEN << >> ELSE <<x>>) \in Seq(Symbols)
    OBVIOUS
  <1>2. QED
    BY <1>1 DEF Upto, Sayings

(* Without is that saying.                                                 *)
LEMMA WithoutIs ==
    ASSUME NEW s \in Seq(Symbols), NEW n, n # 0
    PROVE  Without(s, n) = Saying(Upto(n), s)
  <1>1. \A i \in DOMAIN s : s[i] \in Symbols
    BY ElementOfSeq, LenProperties
  <1>2. [i \in DOMAIN s |-> IF s[i].column > n THEN << >> ELSE <<s[i]>>]
        = [i \in DOMAIN s |-> Upto(n)[s[i]]]
    BY <1>1 DEF Upto
  <1>3. QED
    BY <1>2 DEF Without, Saying

Parts(s, w) == \E a, b, c \in Seq(Symbols) : s = (a \o b) \o c /\ w = a \o c

Parted(s, n) ==
    LET w == Saying(Upto(n), s)
        p == Place(s)
    IN  /\ Legal(w)
        /\ \/ w = s /\ p.column <= n
           \/ /\ p.column > n /\ Place(w).column = n /\ Place(w).at \in AtRest
              /\ \E b \in Seq(Symbols) : s = w \o b
           \/ p.column = 0 /\ p.at \notin Early /\ Place(w) = p /\ Parts(s, w)

(* Behind a definition the list may end.                                   *)
LEMMA RestEnds ==
    ASSUME NEW p, p.at \in AtRest, NEW arc \in End(p)
    PROVE  arc \in Arcs(p)
  <1>1. arc \in Rest(p)
    BY DEF Rest
  <1>2. CASE p.at = "rest"
    BY <1>1, <1>2 DEF Arcs, From
  <1>3. CASE p.at = "parented"
    BY <1>1, <1>3 DEF Arcs, From
  <1>4. CASE p.at = "keyed"
    BY <1>1, <1>4 DEF Arcs, From
  <1>5. QED
    BY <1>2, <1>3, <1>4 DEF AtRest

(* An entry of another place's ends in the same way.                       *)
LEMMA EndsAre ==
    ASSUME NEW p, p.column \in Nat, NEW arc \in End(p)
    PROVE  \/ arc.is.column = p.column + 1 /\ p.column # 0
           \/ /\ arc.is.column = 0 /\ arc.is.at \notin Early
              /\ \A r : arc \in End(r)
  <1>1. \/ arc = Ends(1, "comma", "constraint", 0) \/ arc = Ends(0, ")", "options", 0)
        \/ p.column # 0 /\ arc = Ends(1, "comma", "column", p.column + 1)
    BY DEF End
  <1>2. CASE arc = Ends(1, "comma", "constraint", 0)
    <2>1. arc.is.column = 0 /\ arc.is.at = "constraint"
      BY <1>2 DEF Ends, Arc, Symbol
    <2>2. \A r : arc \in End(r)
      BY <1>2 DEF End
    <2>3. QED
      BY <2>1, <2>2 DEF Early
  <1>3. CASE arc = Ends(0, ")", "options", 0)
    <2>1. arc.is.column = 0 /\ arc.is.at = "options"
      BY <1>3 DEF Ends, Arc, Symbol
    <2>2. \A r : arc \in End(r)
      BY <1>3 DEF End
    <2>3. QED
      BY <2>1, <2>2 DEF Early
  <1>4. CASE p.column # 0 /\ arc = Ends(1, "comma", "column", p.column + 1)
    BY <1>4 DEF Ends, Arc, Symbol
  <1>5. QED
    BY <1>1, <1>2, <1>3, <1>4

(* The text without the later columns, with a symbol more.                 *)
LEMMA UptoMore ==
    ASSUME NEW n, NEW s \in Seq(Symbols), NEW x \in Symbols
    PROVE  /\ x.column > n => Saying(Upto(n), Append(s, x)) = Saying(Upto(n), s)
           /\ ~(x.column > n) => Saying(Upto(n), Append(s, x)) = Append(Saying(Upto(n), s), x)
           /\ Saying(Upto(n), s) \in Seq(Symbols)
  <1> DEFINE f == Upto(n)
             u == Saying(f, s)
  <1>1. f \in Sayings(Symbols, Symbols) /\ f[x] = IF x.column > n THEN << >> ELSE <<x>>
    BY UptoType DEF Upto
  <1> HIDE DEF f
  <1>2. Saying(f, Append(s, x)) = u \o f[x] /\ u \in Seq(Symbols)
    BY <1>1, SayingMore, SayingType
  <1> HIDE DEF u
  <1>3. u \o << >> = u /\ u \o <<x>> = Append(u, x)
    BY <1>2, ConcatEmptySeq, AppendIsConcat
  <1>4. QED
    BY <1>1, <1>2, <1>3 DEF f, u

(* A symbol appended to two sequences is appended to the second.           *)
LEMMA SymbolsJoin ==
    ASSUME NEW a \in Seq(Symbols), NEW b \in Seq(Symbols), NEW x \in Symbols
    PROVE  Append(a \o b, x) = a \o Append(b, x)
  <1>1. Append(a \o b, x) = a \o (b \o <<x>>)
    <2> HIDE DEF Symbols
    <2>1. QED
      BY JoinedEnd
  <1>2. b \o <<x>> = Append(b, x)
    BY AppendIsConcat
  <1>3. QED
    BY <1>1, <1>2

(* A middle part left out stays the only one left out when both go on      *)
(* alike.                                                                  *)
LEMMA PartsMore ==
    ASSUME NEW s, NEW w, Parts(s, w), NEW x \in Symbols
    PROVE  Parts(Append(s, x), Append(w, x))
  <1>1. PICK a \in Seq(Symbols), b \in Seq(Symbols), c \in Seq(Symbols) : s = (a \o b) \o c /\ w = a \o c
    BY DEF Parts
  <1>2. a \o b \in Seq(Symbols) /\ Append(c, x) \in Seq(Symbols) /\ c \o <<x>> = Append(c, x)
    BY AppendIsConcat
  <1>3. Append((a \o b) \o c, x) = (a \o b) \o Append(c, x)
    BY <1>2, SymbolsJoin
  <1>4. Append(a \o c, x) = a \o Append(c, x)
    BY SymbolsJoin
  <1>5. QED
    BY <1>1, <1>2, <1>3, <1>4 DEF Parts

(* Without its columns from the n-th on a text follows the grammar still:  *)
(* such a text ends behind a definition, where the list may end or go on   *)
(* as if they had not been there.                                          *)
LEMMA PartedOn ==
    ASSUME NEW n \in Nat \ {0}, NEW s \in Seq(Symbols), Parted(s, n), Placed(Place(s)),
           NEW arc \in Arcs(Place(s)), arc.is \in Symbols
    PROVE  Parted(Append(s, arc.is), n)
  <1> DEFINE x == arc.is
             p == Place(s)
             w == Saying(Upto(n), s)
             t == Append(s, x)
             v == Saying(Upto(n), t)
  <1>1. /\ t \in Seq(Symbols) /\ w \in Seq(Symbols) /\ Place(t) = x /\ x.column \in Nat /\ p.column \in Nat
        /\ x.column > n => v = w
        /\ x.column <= n => v = Append(w, x)
    <2>1. x.column \in Nat /\ p.column \in Nat
      BY DEF Placed, Symbols
    <2>2. /\ x.column > n => v = w
          /\ ~(x.column > n) => v = Append(w, x)
          /\ w \in Seq(Symbols)
      BY UptoMore
    <2>3. x.column <= n => ~(x.column > n)
      BY <2>1
    <2>4. t \in Seq(Symbols) /\ Place(t) = x
      BY PlaceIs, AppendProperties
    <2>5. QED
      BY <2>1, <2>2, <2>3, <2>4
  <1>2. Steers(p, x)
    BY ArcsAreSteady DEF Steady
  <1>3. Follows(s, x)
    BY DEF Follows
  <1>4. p.at = "columns" => p.column = 0
    BY DEF Placed, Settled, Titles, ColumnPlaces, ConstraintPlaces, EntryPlaces,
           ListPlaces, ExpressionPlaces
  <1>5. \/ x.column = p.column /\ (x.at \in Early => p.at \in Early)
        \/ p.column = 0 /\ p.at \in Early /\ x.column = 1
        \/ p.at \in AtRest /\ x.column = p.column + 1 /\ p.column # 0
        \/ p.at \in AtRest /\ x.column = 0 /\ x.at \notin Early /\ \A r : r.at \in AtRest => \E c \in Arcs(r) : x = c.is
    <2>1. CASE x.column = p.column /\ (x.at \in Early => p.at \in Early)
      BY <2>1
    <2>2. CASE p.at = "columns" /\ x.column = 1
      BY <1>4, <2>2 DEF Early
    <2>3. CASE p.at \in AtRest /\ \E c \in End(p) : x = c.is
      <3>1. PICK c \in End(p) : x = c.is
        BY <2>3
      <3>2. \/ c.is.column = p.column + 1 /\ p.column # 0
            \/ /\ c.is.column = 0 /\ c.is.at \notin Early
               /\ \A r : c \in End(r)
        BY <1>1, EndsAre
      <3>3. (\A r : c \in End(r)) => \A r : r.at \in AtRest => c \in Arcs(r)
        BY RestEnds
      <3> HIDE DEF x, p
      <3>4. QED
        BY <2>3, <3>1, <3>2, <3>3
    <2>4. QED
      BY <1>2, <2>1, <2>2, <2>3 DEF Steers
  <1> HIDE DEF x, p, w, t, v
  <1>6. Legal(w)
    BY DEF Parted, w
  <1>7. CASE w = s /\ p.column <= n
    <2>1. CASE x.column <= n
      <3>1. v = t
        BY <1>1, <1>7, <2>1 DEF t
      <3>2. Legal(t)
        BY <1>3, <1>6, <1>7, LegalMore DEF t, x
      <3>3. QED
        BY <1>1, <2>1, <3>1, <3>2 DEF Parted, t, v, x
    <2>2. CASE x.column > n
      <3>1. p.column = n /\ p.at \in AtRest
        BY <1>1, <1>5, <1>7, <2>2
      <3>2. v = w
        BY <1>1, <2>2
      <3>3. Place(w) = p
        BY <1>7 DEF p
      <3>4. t = w \o <<x>> /\ <<x>> \in Seq(Symbols)
        BY <1>7, AppendIsConcat DEF t, x
      <3>5. QED
        BY <1>1, <1>6, <2>2, <3>1, <3>2, <3>3, <3>4 DEF Parted, t, v, x
    <2>3. QED
      BY <1>1, <2>1, <2>2
  <1>8. CASE /\ p.column > n /\ Place(w).column = n /\ Place(w).at \in AtRest
             /\ \E b \in Seq(Symbols) : s = w \o b
    <2>1. PICK b \in Seq(Symbols) : s = w \o b
      BY <1>8
    <2>2. CASE x.column > n
      <3>1. v = w
        BY <1>1, <2>2
      <3>2. t = w \o Append(b, x) /\ Append(b, x) \in Seq(Symbols)
        <4>1. Append(w \o b, x) = w \o Append(b, x)
          BY <1>1, SymbolsJoin DEF x
        <4>2. Append(b, x) \in Seq(Symbols)
          BY AppendProperties DEF x
        <4>3. QED
          BY <2>1, <4>1, <4>2 DEF t
      <3>3. QED
        BY <1>1, <1>6, <1>8, <2>2, <3>1, <3>2 DEF Parted, t, v, x
    <2>3. CASE x.column <= n
      <3>1. x.column = 0 /\ x.at \notin Early /\ \A r : r.at \in AtRest => \E c \in Arcs(r) : x = c.is
        BY <1>1, <1>5, <1>8, <2>3
      <3>2. v = Append(w, x)
        BY <1>1, <2>3
      <3>3. Follows(w, x)
        BY <1>8, <3>1 DEF Follows
      <3>4. Legal(v) /\ Place(v) = x
        BY <1>1, <1>6, <3>2, <3>3, LegalMore, PlaceIs DEF x
      <3>5. Parts(t, v)
        <4>1. <<x>> \in Seq(Symbols) /\ w \o <<x>> = Append(w, x)
          BY <1>1, AppendIsConcat DEF x
        <4>2. w \o b \in Seq(Symbols) /\ (w \o b) \o <<x>> = Append(w \o b, x)
          BY <1>1, AppendIsConcat DEF x
        <4>3. t = (w \o b) \o <<x>> /\ v = w \o <<x>>
          BY <2>1, <3>2, <4>1, <4>2 DEF t
        <4>4. QED
          BY <1>1, <4>1, <4>3 DEF Parts
      <3>6. QED
        BY <1>1, <3>1, <3>4, <3>5 DEF Parted, t, v, x
    <2>4. QED
      BY <1>1, <2>2, <2>3
  <1>9. CASE p.column = 0 /\ p.at \notin Early /\ Place(w) = p /\ Parts(s, w)
    <2>1. x.column = 0 /\ x.at \notin Early
      BY <1>1, <1>5, <1>9
    <2>2. v = Append(w, x)
      BY <1>1, <2>1
    <2>3. Follows(w, x)
      BY <1>3, <1>9 DEF Follows, p
    <2>4. Legal(v) /\ Place(v) = x
      BY <1>1, <1>6, <2>2, <2>3, LegalMore, PlaceIs DEF x
    <2>5. Parts(t, v)
      BY <1>9, <2>2, PartsMore DEF t, x
    <2>6. QED
      BY <1>1, <2>1, <2>4, <2>5 DEF Parted, t, v, x
  <1>10. \/ w = s /\ p.column <= n
         \/ /\ p.column > n /\ Place(w).column = n /\ Place(w).at \in AtRest
            /\ \E b \in Seq(Symbols) : s = w \o b
         \/ p.column = 0 /\ p.at \notin Early /\ Place(w) = p /\ Parts(s, w)
    BY DEF Parted, w, p
  <1>11. QED
    BY <1>7, <1>8, <1>9, <1>10 DEF t, x

(* What is left is a legal text, and the rest is cut out of its middle.    *)
LEMMA WithoutParts ==
    ASSUME NEW s, Legal(s), NEW n \in Nat \ {0}
    PROVE  Legal(Without(s, n)) /\ Parts(s, Without(s, n))
  <1> DEFINE P == {t \in Seq(Symbols) : Parted(t, n)}
             w == Saying(Upto(n), s)
  <1>0. s \in Seq(Symbols)
    BY DEF Legal
  <1>1. << >> \in P
    <2>1. Saying(Upto(n), << >>) = << >> /\ << >> \in Seq(Symbols)
      BY SayingNothing
    <2>4. Place(<< >>).column = 0
      <3>1. Nothing.column = 0
        BY DEF Nothing, Symbol
      <3>2. Place(<< >>) = Nothing
        BY PlaceIs
      <3>3. QED
        BY <3>1, <3>2
    <2>2. 0 <= n
      OBVIOUS
    <2>3. QED
      BY <2>1, <2>2, <2>4, LegalNone DEF Parted
  <1>2. ASSUME NEW t \in P, NEW arc, Legal(t), Placed(Place(t)), arc \in Arcs(Place(t)), arc.is \in Symbols
        PROVE  Append(t, arc.is) \in P
    <2>1. t \in Seq(Symbols) /\ Append(t, arc.is) \in Seq(Symbols)
      BY <1>2, AppendProperties
    <2>2. QED
      BY <1>2, <2>1, PartedOn
  <1>3. s \in P
    <2> HIDE DEF P
    <2>1. QED
      BY <1>1, <1>2, ArcByArc
  <1>4. w = Without(s, n)
    BY <1>0, WithoutIs
  <1>5. Legal(w) /\ w \in Seq(Symbols)
    BY <1>3 DEF Parted, Legal
  <1>6. Parts(s, w)
    <2>1. << >> \in Seq(Symbols) /\ \A u \in Seq(Symbols) : u \o << >> = u
      BY ConcatEmptySeq
    <2>2. CASE w = s
      <3>1. s = (s \o << >>) \o << >> /\ s = s \o << >>
        BY <1>0, <2>1
      <3> HIDE DEF w
      <3>2. QED
        BY <1>0, <2>1, <2>2, <3>1 DEF Parts
    <2>3. ASSUME NEW b \in Seq(Symbols), s = w \o b PROVE Parts(s, w)
      <3> HIDE DEF w
      <3>1. s = (w \o b) \o << >> /\ w = w \o << >>
        BY <1>0, <1>5, <2>1, <2>3
      <3>2. QED
        BY <1>5, <2>1, <3>1 DEF Parts
    <2>4. QED
      BY <1>3, <2>2, <2>3 DEF Parted
  <1>7. QED
    BY <1>4, <1>5, <1>6

(***************************************************************************)
(* Widths, and what a cut leaves.                                          *)
(***************************************************************************)
LEMMA MaxIs ==
    ASSUME NEW S \in SUBSET Nat, IsFiniteSet(S), S # {}
    PROVE  Max(S) \in S /\ \A y \in S : Max(S) >= y
  <1> DEFINE R == {p \in Nat \X Nat : p[1] < p[2]}
  <1>1. \A x, y \in S : <<x, y>> \in R <=> x < y
    OBVIOUS
  <1>2. \A x \in S : <<x, x>> \notin R
    BY <1>1
  <1>3. \A x, y, z \in S : <<x, y>> \in R /\ <<y, z>> \in R => <<x, z>> \in R
    BY <1>1
  <1> HIDE DEF R
  <1>4. PICK x \in S : \A y \in S : <<x, y>> \notin R
    BY <1>2, <1>3, LastExists
  <1>5. ASSUME NEW y \in S PROVE x >= y
    <2>1. ~(x < y)
      BY <1>1, <1>4
    <2>2. x \in Nat /\ y \in Nat
      OBVIOUS
    <2>3. QED
      BY <2>1, <2>2
  <1>6. QED
    BY <1>4, <1>5 DEF Max

(* A text has finitely many columns.                                       *)
LEMMA ColumnsFinite ==
    ASSUME NEW s \in Seq(Symbols)
    PROVE  Columns(s) \in SUBSET Nat /\ IsFiniteSet(Columns(s))
  <1> DEFINE f == [i \in DOMAIN s |-> s[i].column]
  <1>1. DOMAIN s = 1 .. Len(s) /\ Len(s) \in Nat
    BY LenProperties
  <1>2. IsFiniteSet(DOMAIN s)
    BY <1>1, FS_Interval
  <1>3. Columns(s) = {f[i] : i \in DOMAIN s}
    BY DEF Columns
  <1>4. \A i \in DOMAIN s : f[i] \in Nat
    <2>1. \A i \in DOMAIN s : s[i] \in Symbols
      BY <1>1, ElementOfSeq
    <2>2. QED
      BY <2>1 DEF Symbols
  <1> HIDE DEF f
  <1>5. IsFiniteSet({f[i] : i \in DOMAIN s})
    BY <1>2, FiniteImage
  <1>6. QED
    BY <1>3, <1>4, <1>5

(* Width is the largest of them.                                           *)
LEMMA WidthIs ==
    ASSUME NEW s \in Seq(Symbols), NEW n \in Nat, \A i \in DOMAIN s : s[i].column <= n
    PROVE  /\ Width(s) \in 0 .. n
           /\ \A i \in DOMAIN s : s[i].column <= Width(s)
  <1> DEFINE S == {0} \cup Columns(s)
  <1>1. S \in SUBSET Nat /\ IsFiniteSet(S) /\ S # {}
    <2>1. Columns(s) \in SUBSET Nat /\ IsFiniteSet(Columns(s))
      BY ColumnsFinite
    <2>2. IsFiniteSet({0})
      BY FS_Singleton
    <2>3. IsFiniteSet(S)
      BY <2>1, <2>2, FS_Union
    <2>4. QED
      BY <2>1, <2>3
  <1>2. \A i \in DOMAIN s : s[i].column \in S
    BY DEF Columns
  <1>3. \A y \in S : y <= n
    BY DEF Columns
  <1> HIDE DEF S
  <1>4. Max(S) \in S /\ \A y \in S : Max(S) >= y
    BY <1>1, MaxIs
  <1>5. Width(s) = Max(S)
    BY DEF Width, S
  <1>6. Max(S) \in Nat /\ Max(S) <= n
    BY <1>1, <1>3, <1>4
  <1>7. \A i \in DOMAIN s : s[i].column <= Max(S)
    BY <1>1, <1>2, <1>4
  <1>8. QED
    BY <1>5, <1>6, <1>7

(* A text with parts left out needs no other placeholders.                 *)
LEMMA PartsCovers ==
    ASSUME NEW B, NEW s, NEW w, Parts(s, w), Covers(B, s)
    PROVE  Covers(B, w)
  <1>1. PICK a \in Seq(Symbols), b \in Seq(Symbols), c \in Seq(Symbols) : s = (a \o b) \o c /\ w = a \o c
    BY DEF Parts
  <1> DEFINE ab == a \o b
  <1>2. /\ ab \in Seq(Symbols) /\ Len(ab) = Len(a) + Len(b)
        /\ \A i \in 1 .. Len(a) : ab[i] = a[i]
        /\ Len(a) \in Nat /\ Len(b) \in Nat /\ Len(c) \in Nat
    OBVIOUS
  <1> HIDE DEF ab
  <1>3. /\ Len(s) = Len(ab) + Len(c) /\ Len(w) = Len(a) + Len(c)
        /\ \A i \in 1 .. Len(ab) : s[i] = ab[i]
        /\ \A i \in 1 .. Len(c) : s[Len(ab) + i] = c[i] /\ w[Len(a) + i] = c[i]
        /\ \A i \in 1 .. Len(a) : w[i] = a[i]
        /\ DOMAIN s = 1 .. Len(s) /\ DOMAIN w = 1 .. Len(w)
    BY <1>1, <1>2 DEF ab
  <1>4. ASSUME NEW i \in 1 .. Len(w) PROVE Shows(w[i], B)
    <2>1. CASE i \in 1 .. Len(a)
      <3>1. w[i] = s[i] /\ i \in 1 .. Len(s)
        BY <1>2, <1>3, <2>1
      <3>2. QED
        BY <1>3, <3>1 DEF Covers
    <2>2. CASE i \notin 1 .. Len(a)
      <3>1. PICK j \in 1 .. Len(c) : i = Len(a) + j
        <4>1. i - Len(a) \in 1 .. Len(c) /\ i = Len(a) + (i - Len(a))
          BY <1>2, <1>3, <2>2
        <4>2. QED
          BY <4>1
      <3>2. w[i] = s[Len(ab) + j] /\ Len(ab) + j \in 1 .. Len(s)
        BY <1>2, <1>3, <3>1
      <3>3. QED
        BY <1>3, <3>2 DEF Covers
    <2>3. QED
      BY <2>1, <2>2
  <1>5. QED
    BY <1>3, <1>4 DEF Covers

(* A middle that is cut out.                                               *)
Cut(s, r) ==
    \E i, j \in 0 .. Len(s) : r = SubSeq(s, 1, i) \o SubSeq(s, j + 1, Len(s))

(* A sequence less its middle.                                             *)
LEMMA MiddleCut ==
    ASSUME NEW W, NEW a \in Seq(W), NEW b \in Seq(W), NEW c \in Seq(W),
           NEW s, s = (a \o b) \o c
    PROVE  Cut(s, a \o c)
  <1> DEFINE ab == a \o b
             i == Len(a)
             j == Len(a) + Len(b)
  <1>1. /\ ab \in Seq(W) /\ Len(ab) = Len(a) + Len(b)
        /\ \A k \in 1 .. Len(a) : ab[k] = a[k]
        /\ Len(a) \in Nat /\ Len(b) \in Nat /\ Len(c) \in Nat
    OBVIOUS
  <1> HIDE DEF ab
  <1>2. /\ s \in Seq(W) /\ Len(s) = Len(ab) + Len(c)
        /\ \A k \in 1 .. Len(ab) : s[k] = ab[k]
        /\ \A k \in 1 .. Len(c) : s[Len(ab) + k] = c[k]
    BY <1>1 DEF ab
  <1>3. i \in 0 .. Len(s) /\ j \in 0 .. Len(s)
    BY <1>1, <1>2
  <1>4. SubSeq(s, 1, i) = a
    <2>1. \A k \in 1 .. i : s[k] \in W
      BY <1>1, <1>2
    <2>2. /\ SubSeq(s, 1, i) \in Seq(W)
          /\ Len(SubSeq(s, 1, i)) = IF 1 <= i THEN i - 1 + 1 ELSE 0
          /\ \A k \in 1 .. i - 1 + 1 : SubSeq(s, 1, i)[k] = s[1 + k - 1]
      BY <1>1, <2>1, SubSeqProperties
    <2>3. Len(SubSeq(s, 1, i)) = i
      BY <1>1, <2>2
    <2>4. \A k \in 1 .. i : SubSeq(s, 1, i)[k] = a[k]
      BY <1>1, <1>2, <2>2
    <2>5. QED
      BY <2>2, <2>3, <2>4, SeqEqual
  <1>5. SubSeq(s, j + 1, Len(s)) = c
    <2>1. \A k \in j + 1 .. Len(s) : s[k] \in W
      BY <1>1, <1>2
    <2>2. j + 1 \in Int /\ Len(s) \in Int
      BY <1>1, <1>2
    <2> DEFINE t == SubSeq(s, j + 1, Len(s))
    <2>3. /\ t \in Seq(W)
          /\ Len(t) = IF j + 1 <= Len(s) THEN Len(s) - (j + 1) + 1 ELSE 0
          /\ \A k \in 1 .. Len(s) - (j + 1) + 1 : t[k] = s[(j + 1) + k - 1]
      BY <2>1, <2>2, SubSeqProperties
    <2> HIDE DEF t
    <2>4. Len(t) = Len(c)
      BY <1>1, <1>2, <2>3
    <2>5. \A k \in 1 .. Len(c) : t[k] = c[k]
      <3>1. ASSUME NEW k \in 1 .. Len(c) PROVE t[k] = c[k]
        <4>1. (j + 1) + k - 1 = Len(ab) + k /\ k \in 1 .. Len(s) - (j + 1) + 1
          BY <1>1, <1>2
        <4>2. QED
          BY <1>2, <2>3, <4>1
      <3>2. QED
        BY <3>1
    <2>6. t = c
      BY <2>3, <2>4, <2>5, SeqEqual
    <2>7. QED
      BY <2>6 DEF t
  <1>6. QED
    BY <1>3, <1>4, <1>5 DEF Cut

(* What sqldef should get for a symbol is what the walkers write.          *)
LEMMA SaidIs ==
    ASSUME NEW x \in Symbols
    PROVE  Said(x) = Sealed(bodies)[x]
  <1>1. Hidden(x.body) = Kept(bodies, x.body)
    BY DEF Hidden, Kept
  <1>2. CASE x.role = "body"
    BY <1>2 DEF Said, Sealed
  <1>3. CASE x.role = "close"
    BY <1>1, <1>3 DEF Said, Sealed
  <1>4. CASE x.role # "body" /\ x.role # "close"
    BY <1>4 DEF Said, Sealed
  <1>5. QED
    BY <1>2, <1>3, <1>4

(* And so for a text.                                                      *)
LEMMA ReadableIs ==
    ASSUME NEW s \in Seq(Symbols)
    PROVE  Readable(s) = Saying(Sealed(bodies), s)
  <1>1. \A i \in DOMAIN s : s[i] \in Symbols
    BY ElementOfSeq, LenProperties
  <1>2. [i \in DOMAIN s |-> Said(s[i])] = [i \in DOMAIN s |-> Sealed(bodies)[s[i]]]
    BY <1>1, SaidIs
  <1>3. QED
    BY <1>2 DEF Readable, Saying

(***************************************************************************)
(* What a text costs.                                                      *)
(***************************************************************************)
(* n is left: enough for each expression and each column so far.           *)
Paid(s, n) ==
    /\ Len(Saying(Shuttings, s)) + Due(Place(s).at) + n <= Budget
    /\ \A i \in DOMAIN s : s[i].column + n <= Budget + 1

(* The empty text has cost nothing.                                        *)
LEMMA NothingPaid == Paid(<< >>, Budget)
  <1>1. Saying(Shuttings, << >>) = << >>
    BY SayingNothing
  <1>2. Place(<< >>).at = "create"
    BY PlaceIs, NothingIsPlaced
  <1>3. Due("create") = 0
    BY DEF Due, DuePlaces, ExpressionPlaces
  <1>4. DOMAIN << >> = {}
    OBVIOUS
  <1>5. Len(<< >>) = 0
    OBVIOUS
  <1>6. QED
    BY <1>1, <1>2, <1>3, <1>4, <1>5, BudgetIsNat DEF Paid

(* The expressions of a text are counted by the parentheses behind them.   *)
LEMMA ShuttingMore ==
    ASSUME NEW s \in Seq(Symbols), NEW x \in Symbols
    PROVE  /\ Len(Saying(Shuttings, s)) \in Nat
           /\ Len(Saying(Shuttings, Append(s, x))) = Len(Saying(Shuttings, s)) + Shut(x.role)
  <1> DEFINE a == Saying(Shuttings, s)
             b == Shuttings[x]
  <1>1. Saying(Shuttings, Append(s, x)) = a \o b /\ a \in Seq(Symbols)
    BY WritingMore
  <1>2. b \in Seq(Symbols) /\ Len(b) = Shut(x.role)
    <2>1. CASE x.role = "close"
      <3>1. b = <<x>>
        BY <2>1 DEF Shuttings
      <3>2. QED
        BY <2>1, <3>1 DEF Shut
    <2>2. CASE x.role # "close"
      <3>1. b = << >>
        BY <2>2 DEF Shuttings
      <3>2. QED
        BY <2>2, <3>1 DEF Shut
    <2>3. QED
      BY <2>1, <2>2
  <1> HIDE DEF a, b
  <1>3. Len(a \o b) = Len(a) + Len(b) /\ Len(a) \in Nat
    BY <1>1, <1>2, ConcatProperties, LenProperties
  <1>4. QED
    BY <1>1, <1>2, <1>3 DEF a

(* The column that a place is in is paid for.                              *)
LEMMA PlacePaid ==
    ASSUME NEW s \in Seq(Symbols), NEW n \in 0 .. Budget, Paid(s, n)
    PROVE  Place(s).column \in Nat /\ Place(s).column + n <= Budget + 1
  <1>1. CASE Len(s) = 0
    <2>1. s = << >>
      BY <1>1, EmptySeq
    <2>2. Nothing.column = 0
      BY DEF Nothing, Symbol
    <2>3. QED
      BY <2>1, <2>2, PlaceIs, BudgetIsNat
  <1>2. CASE Len(s) # 0
    <2>1. Place(s) = s[Len(s)] /\ s[Len(s)] \in Symbols /\ Len(s) \in DOMAIN s
      BY <1>2, PlaceIs, LenProperties
    <2>2. s[Len(s)].column \in Nat
      BY <2>1 DEF Symbols
    <2>3. QED
      BY <2>1, <2>2 DEF Paid
  <1>3. QED
    BY <1>1, <1>2

(* A symbol more is paid for: columns and expressions are never more than  *)
(* what the text has cost.                                                 *)
LEMMA PaidMore ==
    ASSUME NEW s, Legal(s), NEW n \in 0 .. Budget, Paid(s, n),
           NEW arc \in Arcs(Place(s)), arc.cost <= n
    PROVE  /\ Legal(Append(s, arc.is)) /\ Append(s, arc.is) \in Seq(Symbols)
           /\ n - arc.cost \in 0 .. Budget
           /\ Paid(Append(s, arc.is), n - arc.cost)
  <1> DEFINE p == Place(s)
             x == arc.is
             t == Append(s, x)
  <1>1. s \in Seq(Symbols) /\ Placed(p)
    BY LegalPlaced DEF Legal
  <1>2. x \in Symbols /\ Steady(p, arc)
    BY <1>1, ArcsLead, ArcsAreSteady
  <1>3. t \in Seq(Symbols) /\ Legal(t)
    <2>1. Follows(s, x)
      BY DEF Follows
    <2>2. QED
      BY <1>1, <1>2, <2>1, LegalMore, AppendProperties
  <1>4. arc.cost \in Nat
    BY <1>2 DEF Steady
  <1>5. n - arc.cost \in 0 .. Budget
    BY <1>4, BudgetIsNat
  <1>6. Place(t) = x
    BY <1>1, <1>2, PlaceIs
  <1>7. Len(Saying(Shuttings, t)) + Due(x.at) + (n - arc.cost) <= Budget
    <2>1. Due(x.at) + Shut(x.role) <= Due(p.at) + arc.cost
      BY <1>2 DEF Steady
    <2>2. /\ Len(Saying(Shuttings, s)) \in Nat
          /\ Len(Saying(Shuttings, t)) = Len(Saying(Shuttings, s)) + Shut(x.role)
      BY <1>1, <1>2, ShuttingMore
    <2>3. Due(x.at) \in {0, 1} /\ Due(p.at) \in {0, 1} /\ Shut(x.role) \in {0, 1}
      BY DEF Due, Shut
    <2>4. Len(Saying(Shuttings, s)) + Due(p.at) + n <= Budget
      BY DEF Paid
    <2> HIDE DEF t, x, p
    <2>5. QED
      BY <1>4, <2>1, <2>2, <2>3, <2>4, BudgetIsNat
  <1>8. x.column \in Nat /\ x.column + (n - arc.cost) <= Budget + 1
    <2>1. x.column \in Nat
      BY <1>2 DEF Symbols
    <2>2. p.column \in Nat /\ p.column + n <= Budget + 1
      BY <1>1, PlacePaid
    <2>3. x.column = 0 \/ p.at = "columns" \/ x.column <= p.column + arc.cost
      BY <1>2 DEF Steady
    <2>4. CASE x.column = 0
      BY <1>5, <2>4, BudgetIsNat
    <2>5. CASE p.at = "columns"
      <3>1. p.at \notin AtRest
        BY <2>5 DEF AtRest
      <3>2. x.column = p.column \/ x.column = 1
        BY <1>2, <3>1 DEF Steady, Steers
      <3>3. QED
        BY <1>4, <1>5, <2>2, <3>2, BudgetIsNat
    <2>6. CASE x.column <= p.column + arc.cost
      BY <1>4, <2>1, <2>2, <2>6, BudgetIsNat
    <2>7. QED
      BY <2>1, <2>3, <2>4, <2>5, <2>6
  <1>9. ASSUME NEW i \in DOMAIN t PROVE t[i].column + (n - arc.cost) <= Budget + 1
    <2>1. /\ DOMAIN t = 1 .. Len(s) + 1 /\ DOMAIN s = 1 .. Len(s) /\ Len(s) \in Nat
          /\ \A j \in 1 .. Len(s) : t[j] = s[j]
          /\ t[Len(s) + 1] = x
      BY <1>1, <1>2, AppendProperties, LenProperties
    <2>2. CASE i = Len(s) + 1
      BY <1>8, <2>1, <2>2
    <2>3. CASE i \in 1 .. Len(s)
      <3>1. s[i] \in Symbols /\ s[i].column + n <= Budget + 1
        BY <1>1, <2>1, <2>3, ElementOfSeq DEF Paid
      <3>2. s[i].column \in Nat
        BY <3>1 DEF Symbols
      <3>3. s[i].column + (n - arc.cost) <= Budget + 1
        BY <1>4, <3>1, <3>2, BudgetIsNat
      <3>4. QED
        BY <2>1, <2>3, <3>3
    <2>4. QED
      BY <2>1, <2>2, <2>3
  <1>10. QED
    BY <1>3, <1>5, <1>6, <1>7, <1>9 DEF Paid

(* So a text is at most Budget + 1 columns wide.                           *)
LEMMA WidthPaid ==
    ASSUME NEW s \in Seq(Symbols), NEW n \in 0 .. Budget, Paid(s, n)
    PROVE  Width(s) \in 0 .. Budget + 1
  <1>1. \A i \in DOMAIN s : s[i].column \in Nat
    <2>1. \A i \in DOMAIN s : s[i] \in Symbols
      BY ElementOfSeq, LenProperties
    <2>2. QED
      BY <2>1 DEF Symbols
  <1>2. \A i \in DOMAIN s : s[i].column <= Budget + 1
    BY <1>1, BudgetIsNat DEF Paid
  <1>3. Budget + 1 \in Nat
    BY BudgetIsNat
  <1>4. QED
    BY <1>2, <1>3, WidthIs

(***************************************************************************)
(* What Ask does with the two texts.                                       *)
(***************************************************************************)
LEMMA WithoutText ==
    ASSUME NEW s, Legal(s), NEW n \in Nat
    PROVE  Legal(Without(s, n)) /\ Parts(s, Without(s, n))
  <1>1. CASE n = 0
    <2>1. Without(s, n) = << >>
      BY <1>1 DEF Without
    <2>2. s \in Seq(Symbols) /\ << >> \in Seq(Symbols)
      BY DEF Legal
    <2>3. s = (<< >> \o s) \o << >> /\ << >> = << >> \o << >>
      BY <2>2
    <2>4. Parts(s, << >>)
      BY <2>2, <2>3 DEF Parts
    <2>5. QED
      BY <2>1, <2>4, LegalNone
  <1>2. CASE n # 0
    BY <1>2, WithoutParts
  <1>3. QED
    BY <1>1, <1>2

(* No bodies are distinct bodies.                                          *)
LEMMA NoneIsGood == Good(<< >>)
  BY DEF Good, IsInjective

(* What Ask computes: both texts sealed with the bodies of the two walks,  *)
(* of which there are no more than placeholders.                           *)
LEMMA Asked ==
    ASSUME NEW s, Legal(s), NEW n \in 0 .. Budget, Paid(s, n), NEW had \in Nat,
           NEW t, t = Without(s, had)
    PROVE  LET after == K!mask(WordsOf(s), << >>)
               before == K!mask(WordsOf(t), after.bodies)
               B == before.bodies
           IN  /\ Good(B) /\ Len(B) <= Budget /\ Covers(B, s)
               /\ Q!quoteCollidingKeywords(after.out) = Saying(Sealed(B), s)
               /\ Q!quoteCollidingKeywords(before.out) = Saying(Sealed(B), t)
  <1> DEFINE after == K!mask(WordsOf(s), << >>)
             A == after.bodies
             before == K!mask(WordsOf(t), A)
  <1>1. Legal(t) /\ Parts(s, t)
    BY WithoutText
  <1>2. MaskedAt(<< >>, after, s)
    BY NoneIsGood, MaskFinds
  <1>3. Good(A) /\ Covers(A, s) /\ after.out = Saying(Masked(A), s)
    BY <1>2 DEF MaskedAt
  <1>4. Len(A) <= Budget /\ Len(A) <= Len(Placeholder)
    <2>1. Len(A) <= Len(<< >>) + Len(Saying(Shuttings, s))
      BY <1>2 DEF MaskedAt
    <2>2. Len(Saying(Shuttings, s)) \in Nat
      <3>1. s \in Seq(Symbols)
        BY DEF Legal
      <3>2. Nothing \in Symbols => Len(Saying(Shuttings, s)) \in Nat
        BY <3>1, ShuttingMore
      <3>3. Saying(Shuttings, s) \in Seq(Symbols)
        BY <3>1, SayingsAre, SayingType
      <3>4. QED
        BY <3>3, LenProperties
    <2>3. Due(Place(s).at) \in {0, 1}
      BY DEF Due
    <2>4. Len(Saying(Shuttings, s)) + Due(Place(s).at) + n <= Budget
      BY DEF Paid
    <2>5. Len(A) \in Nat
      BY <1>3, LenProperties DEF Good
    <2>6. Len(Placeholder) >= Budget /\ Len(Placeholder) \in Nat
      BY PlaceholdersAreNew, LenProperties
    <2>7. Len(<< >>) = 0
      OBVIOUS
    <2> HIDE DEF A
    <2>8. QED
      BY <2>1, <2>2, <2>3, <2>4, <2>5, <2>6, <2>7, BudgetIsNat
  <1>5. Covers(A, t)
    BY <1>1, <1>3, PartsCovers
  <1>6. MaskedAt(A, before, t)
    BY <1>1, <1>3, MaskFinds
  <1>7. before.bodies = A /\ before.out = Saying(Masked(A), t)
    BY <1>5, <1>6 DEF MaskedAt
  <1>8. Q!quoteCollidingKeywords(after.out) = Saying(Sealed(A), s)
    <2>1. QuotedAt(A, Q!walked(Saying(Masked(A), s)), s)
      BY <1>3, <1>4, QuoteFinds
    <2>2. QED
      BY <1>3, <2>1 DEF QuotedAt, Q!quoteCollidingKeywords
  <1>9. Q!quoteCollidingKeywords(before.out) = Saying(Sealed(A), t)
    <2>1. QuotedAt(A, Q!walked(Saying(Masked(A), t)), t)
      BY <1>1, <1>3, <1>4, <1>5, QuoteFinds
    <2>2. QED
      BY <1>7, <2>1 DEF QuotedAt, Q!quoteCollidingKeywords
  <1> HIDE DEF after, before
  <1>10. QED
    BY <1>3, <1>4, <1>7, <1>8, <1>9 DEF after, before

(* A text and the same text less its new columns, as sqldef gets them.     *)
LEMMA SentParts ==
    ASSUME NEW B, NEW s, NEW t, Parts(s, t)
    PROVE  Cut(Saying(Sealed(B), s), Saying(Sealed(B), t))
  <1>1. PICK a \in Seq(Symbols), b \in Seq(Symbols), c \in Seq(Symbols) : s = (a \o b) \o c /\ t = a \o c
    BY DEF Parts
  <1> DEFINE f == Sealed(B)
             W == Words \cup Drops(B) \cup Quotations
             x == Saying(f, a)
             y == Saying(f, b)
             z == Saying(f, c)
  <1>2. f \in Sayings(Symbols, W)
    BY SayingsAre
  <1> HIDE DEF f, W
  <1>3. x \in Seq(W) /\ y \in Seq(W) /\ z \in Seq(W)
    BY <1>2, SayingType
  <1> DEFINE ab == a \o b
             u == Saying(f, s)
  <1>4. ab \in Seq(Symbols) /\ s = ab \o c
    BY <1>1
  <1>5. Saying(f, t) = x \o z
    <2>1. Saying(f, a \o c) = Saying(f, a) \o Saying(f, c)
      BY <1>2, SayingBoth
    <2>2. QED
      BY <1>1, <2>1
  <1>6. Saying(f, ab) = x \o y
    BY <1>2, SayingBoth
  <1> HIDE DEF ab
  <1>7. Saying(f, ab \o c) = Saying(f, ab) \o z
    <2> HIDE DEF x, y
    <2>1. ab \in Seq(Symbols)
      BY <1>4
    <2>2. Saying(f, ab \o c) = Saying(f, ab) \o Saying(f, c)
      BY <1>2, <2>1, SayingBoth
    <2>3. QED
      BY <2>2
  <1> HIDE DEF x, y, z
  <1>8. u = (x \o y) \o z
    BY <1>4, <1>6, <1>7
  <1> HIDE DEF u
  <1>9. Cut(u, x \o z)
    BY <1>3, <1>8, MiddleCut
  <1>10. QED
    BY <1>5, <1>9 DEF f, u

(***************************************************************************)
(* The inductive invariant.                                                *)
(***************************************************************************)
Stages == {"write", "diff", "ask", "answer", "done", "refused"}

(* The text follows the grammar, and has been paid for.                    *)
TextAsWritten ==
    /\ pc \in Stages
    /\ text \in [Sides -> Seq(Symbols)]
    /\ Legal(text["after"])
    /\ left \in 0 .. Budget /\ Paid(text["after"], left)
    /\ old \in 0 .. Budget
    /\ text["before"] = Without(text["after"], old)
    /\ pc = "write" => old = 0
    /\ pc # "write" => Place(text["after"]).at = "ended" /\ old < Width(text["after"])

(* What sqldef gets is what the grammar says, and the masker keeps what it *)
(* has to put back.                                                        *)
SentAsSealed ==
    IF pc \in {"write", "diff"} THEN bodies = << >>
    ELSE /\ Good(bodies) /\ Len(bodies) <= Budget
         /\ Covers(bodies, text["after"])
         /\ sent = [after |-> Saying(Sealed(bodies), text["after"]),
                    before |-> Saying(Sealed(bodies), text["before"])]

SendInv == TextAsWritten /\ SentAsSealed

(* SendInv holds at first.                                                 *)
LEMMA InitSends ==
    ASSUME Init
    PROVE  SendInv
  <1>1. text["after"] = << >> /\ text["before"] = << >>
    BY DEF Init, Neither, Sides
  <1>2. text \in [Sides -> Seq(Symbols)]
    BY DEF Init, Neither, Sides
  <1>3. Without(<< >>, 0) = << >>
    BY DEF Without
  <1>4. TextAsWritten
    BY <1>1, <1>2, <1>3, LegalNone, NothingPaid, BudgetIsNat
       DEF Init, TextAsWritten, Stages
  <1>5. SentAsSealed
    BY DEF Init, SentAsSealed
  <1>6. QED
    BY <1>4, <1>5 DEF SendInv

(* Write leaves a text of the grammar, paid for.                           *)
LEMMA WriteSends ==
    ASSUME SendInv, Write
    PROVE  SendInv'
  <1>0. TextAsWritten /\ bodies = << >> /\ pc = "write" /\ old = 0
    BY DEF SendInv, SentAsSealed, Write, TextAsWritten
  <1> DEFINE s == text["after"]
  <1>1. PICK arc \in Arcs(Place(s)) :
            /\ arc.cost <= left
            /\ left' = left - arc.cost
            /\ text' = [text EXCEPT !["after"] = Append(@, arc.is)]
    BY DEF Write
  <1>2. Legal(s) /\ left \in 0 .. Budget /\ Paid(s, left)
    BY <1>0 DEF TextAsWritten
  <1> HIDE DEF s
  <1>3. /\ Legal(Append(s, arc.is)) /\ Append(s, arc.is) \in Seq(Symbols)
        /\ left - arc.cost \in 0 .. Budget
        /\ Paid(Append(s, arc.is), left - arc.cost)
    BY <1>1, <1>2, PaidMore
  <1>4. text'["after"] = Append(s, arc.is) /\ text'["before"] = text["before"]
    BY <1>0, <1>1 DEF TextAsWritten, Sides, s
  <1>5. text' \in [Sides -> Seq(Symbols)]
    BY <1>0, <1>1, <1>3 DEF TextAsWritten, Sides, s
  <1>6. \A t : Without(t, 0) = << >>
    BY DEF Without
  <1>7. pc' = pc /\ old' = old /\ bodies' = bodies
    BY DEF Write
  <1>8. TextAsWritten'
    BY <1>0, <1>1, <1>3, <1>4, <1>5, <1>6, <1>7 DEF TextAsWritten
  <1>9. SentAsSealed'
    BY <1>0, <1>7 DEF SentAsSealed
  <1>10. QED
    BY <1>8, <1>9 DEF SendInv

(* Start leaves a text for the database that follows the grammar too.      *)
LEMMA StartSends ==
    ASSUME SendInv, Start
    PROVE  SendInv'
  <1>0. TextAsWritten /\ bodies = << >> /\ pc = "write"
    BY DEF SendInv, SentAsSealed, Start
  <1> DEFINE s == text["after"]
  <1>1. PICK n \in 0 .. Width(s) - 1 :
            old' = n /\ text' = [text EXCEPT !["before"] = Without(s, n)]
    BY DEF Start
  <1>2. /\ s \in Seq(Symbols) /\ Legal(s) /\ left \in 0 .. Budget /\ Paid(s, left)
        /\ Place(s).at = "ended"
    BY <1>0 DEF TextAsWritten, Legal, Start
  <1>3. text'["after"] = s /\ text'["before"] = Without(s, n)
    BY <1>0, <1>1 DEF TextAsWritten, Sides
  <1> HIDE DEF s
  <1>4. Width(s) \in 0 .. Budget + 1
    BY <1>2, WidthPaid
  <1>5. n \in 0 .. Budget /\ n < Width(s)
    BY <1>1, <1>4, BudgetIsNat
  <1>6. Without(s, n) \in Seq(Symbols)
    BY <1>2, <1>5, WithoutText DEF Legal
  <1>7. text' \in [Sides -> Seq(Symbols)]
    BY <1>0, <1>1, <1>2, <1>6 DEF TextAsWritten, Sides
  <1>8. pc' = "diff" /\ left' = left /\ bodies' = bodies
    BY DEF Start
  <1>9. TextAsWritten'
    BY <1>1, <1>2, <1>3, <1>5, <1>7, <1>8 DEF TextAsWritten, Stages
  <1>10. SentAsSealed'
    BY <1>0, <1>8 DEF SentAsSealed
  <1>11. QED
    BY <1>9, <1>10 DEF SendInv

(* Ask sends both texts sealed.                                            *)
LEMMA AskSends ==
    ASSUME SendInv, Ask
    PROVE  SendInv'
  <1>0. TextAsWritten /\ pc = "diff"
    BY DEF SendInv, Ask
  <1> DEFINE s == text["after"]
             t == text["before"]
             after == K!mask(WordsOf(s), << >>)
             before == K!mask(WordsOf(t), after.bodies)
  <1>1. /\ bodies' = before.bodies
        /\ sent' = [after |-> Q!quoteCollidingKeywords(after.out),
                    before |-> Q!quoteCollidingKeywords(before.out)]
        /\ text' = text /\ pc' = "ask" /\ left' = left /\ old' = old
    BY DEF Ask
  <1>2. /\ Legal(s) /\ left \in 0 .. Budget /\ Paid(s, left) /\ old \in Nat
        /\ t = Without(s, old)
    BY <1>0 DEF TextAsWritten
  <1> HIDE DEF s, t
  <1>3. /\ Good(before.bodies) /\ Len(before.bodies) <= Budget /\ Covers(before.bodies, s)
        /\ Q!quoteCollidingKeywords(after.out) = Saying(Sealed(before.bodies), s)
        /\ Q!quoteCollidingKeywords(before.out) = Saying(Sealed(before.bodies), t)
    BY <1>2, Asked
  <1> HIDE DEF after, before
  <1>4. TextAsWritten'
    BY <1>0, <1>1 DEF TextAsWritten, Stages
  <1>5. SentAsSealed'
    BY <1>1, <1>3 DEF SentAsSealed, s, t
  <1>6. QED
    BY <1>4, <1>5 DEF SendInv

(* The steps behind Ask leave the texts alone.                             *)
LEMMA OthersSend ==
    ASSUME SendInv, Answer \/ Refuse \/ Restore \/ UNCHANGED vars
    PROVE  SendInv'
  <1>1. /\ UNCHANGED <<left, old, text, bodies>>
        /\ pc' \in Stages
        /\ pc' \in {"write", "diff"} <=> pc \in {"write", "diff"}
        /\ pc' \in {"write", "diff"} \/ UNCHANGED sent
        /\ pc' = "write" <=> pc = "write"
    BY DEF SendInv, TextAsWritten, Stages, Answer, Refuse, Restore, vars
  <1>2. TextAsWritten'
    BY <1>1 DEF SendInv, TextAsWritten
  <1>3. SentAsSealed'
    BY <1>1 DEF SendInv, SentAsSealed
  <1>4. QED
    BY <1>2, <1>3 DEF SendInv

(* SendInv is inductive.                                                   *)
LEMMA NextSends ==
    ASSUME SendInv, [Next]_vars
    PROVE  SendInv'
  BY WriteSends, StartSends, AskSends, OthersSend DEF Next, Ended

(* What the variables hold until sqldef has been asked (SendInv), for      *)
(* every Budget: the inductive half that speaks of the texts, the masker's *)
(* bodies and what sqldef is sent. Behind Ask, both texts are what the     *)
(* grammar reads, sealed with the same bodies.                             *)
THEOREM AlwaysSent == Spec => []SendInv
  <1>1. Init => SendInv
    BY InitSends
  <1>2. SendInv /\ [Next]_vars => SendInv'
    BY NextSends
  <1>3. QED
    BY <1>1, <1>2, PTL DEF Spec

(* What SendInv says of a text sent is what the property says.             *)
LEMMA SentReads ==
    ASSUME SendInv
    PROVE  SentAsTheGrammarReads
  <1>1. ASSUME pc = "ask", NEW side \in Sides
        PROVE  sent[side] = Readable(text[side])
    <2>1. sent[side] = Saying(Sealed(bodies), text[side])
      BY <1>1 DEF SendInv, SentAsSealed, Sides
    <2>2. text[side] \in Seq(Symbols)
      BY DEF SendInv, TextAsWritten
    <2>3. QED
      BY <2>1, <2>2, ReadableIs
  <1>2. QED
    BY <1>1 DEF SentAsTheGrammarReads

(* sqldef is sent the text with a placeholder for exactly the expressions  *)
(* its parser rejects and quotes round exactly the identifiers it rejects  *)
(* (exprMasker.mask, quoteCollidingKeywords), for texts of every size and  *)
(* parentheses of every depth.                                             *)
THEOREM SentAsRead == Spec => []SentAsTheGrammarReads
  BY AlwaysSent, SentReads, PTL

(* The text for the database, masked after the schema's, is the schema's   *)
(* without the new columns, word for word.                                 *)
LEMMA SentAlike ==
    ASSUME SendInv
    PROVE  CommonPartAlike
  <1>1. ASSUME pc = "ask" PROVE Cut(sent["after"], sent["before"])
    <2>1. /\ sent["after"] = Saying(Sealed(bodies), text["after"])
          /\ sent["before"] = Saying(Sealed(bodies), text["before"])
      BY <1>1 DEF SendInv, SentAsSealed
    <2>2. Parts(text["after"], text["before"])
      BY WithoutText DEF SendInv, TextAsWritten
    <2>3. QED
      BY <2>1, <2>2, SentParts
  <1>2. QED
    BY <1>1 DEF CommonPartAlike, Cut

(* sqldef sees what the two texts share in the same words: the text of the *)
(* database is that of the schema less a middle part (Diff masks both with *)
(* one exprMasker), for texts of every size.                               *)
THEOREM SentTheCommonPartAlike == Spec => []CommonPartAlike
  BY AlwaysSent, SentAlike, PTL

(***************************************************************************)
(* What is kept of an expression, and of a key.                            *)
(***************************************************************************)
Bare(arc) == arc.is.body = << >>

(* A symbol outside of expressions carries no words of one.                *)
LEMMA BareArcs ==
    ASSUME NEW p
    PROVE  /\ \A cost, word, role, at : Bare(Goes(p, cost, word, role, at))
           /\ \A word, role, at, what : Bare(Opens(p, word, role, at, what))
           /\ \A role, at : Bare(Closes(p, role, at))
           /\ \A cost, word, at, column : Bare(Ends(cost, word, at, column))
  BY DEF Bare, Goes, Opens, Closes, Ends, Arc, Symbol

(* Nor do those the grammar groups.                                        *)
LEMMA BareSets ==
    ASSUME NEW p
    PROVE  /\ \A role, at : \A arc \in Id(p, role, at) : Bare(arc)
           /\ \A arc \in Rest(p) : Bare(arc)
           /\ \A arc \in Constraint(p) : Bare(arc)
           /\ \A arc \in More(p) \cup Listed(p) : Bare(arc)
  <1>1. \A role, at : \A arc \in Id(p, role, at) : Bare(arc)
    BY BareArcs DEF Id
  <1>2. \A arc \in Clauses(p) : Bare(arc)
    BY BareArcs DEF Clauses
  <1>3. \A arc \in End(p) : Bare(arc)
    BY BareArcs DEF End
  <1>4. \A arc \in Constraint(p) : Bare(arc)
    BY BareArcs DEF Constraint
  <1>5. \A arc \in More(p) : Bare(arc)
    BY BareArcs DEF More
  <1>6. \A arc \in Listed(p) : Bare(arc)
    BY BareArcs DEF Listed
  <1>7. QED
    BY <1>1, <1>2, <1>3, <1>4, <1>5, <1>6 DEF Rest

(* An expression begins with no words.                                     *)
LEMMA BareBegin ==
    ASSUME NEW p, Placed(p), p.at \notin ExpressionPlaces, NEW arc \in Arcs(p)
    PROVE  arc.is.body = << >>
  <1>0. p.at \in Places
    BY DEF Placed, Settled, Places
  <1>1. CASE arc \in Space(p)
    <2>1. ~Inside(p)
      <3>1. p.deep = << >> \/ (p.at \in ListPlaces /\ InList(p))
        BY DEF Placed
      <3>2. ASSUME p.at \in ListPlaces, InList(p) PROVE p.deep[1] # "body"
        BY <3>2 DEF InList, Last
      <3>3. QED
        BY <3>1, <3>2 DEF Inside
    <2>2. arc = Goes(p, 3, "space", "word", p.at)
      BY <1>1, <2>1 DEF Space
    <2>3. QED
      BY <2>2, BareArcs DEF Bare
  <1>2. CASE arc \in From(p) /\ p.at = "create"
    BY <1>2, BareArcs, BareSets DEF From, Bare
  <1>3. CASE arc \in From(p) /\ p.at = "table"
    BY <1>3, BareArcs, BareSets DEF From, Bare
  <1>4. CASE arc \in From(p) /\ p.at = "title"
    BY <1>4, BareArcs, BareSets DEF From, Bare
  <1>5. CASE arc \in From(p) /\ p.at = "columns"
    BY <1>5, BareArcs, BareSets DEF From, Bare
  <1>6. CASE arc \in From(p) /\ p.at = "options"
    BY <1>6, BareArcs, BareSets DEF From, Bare
  <1>7. CASE arc \in From(p) /\ p.at = "ended"
    BY <1>7, BareArcs, BareSets DEF From, Bare
  <1>8. CASE arc \in From(p) /\ p.at = "column"
    BY <1>8, BareArcs, BareSets DEF From, Bare
  <1>9. CASE arc \in From(p) /\ p.at = "type"
    BY <1>9, BareArcs, BareSets DEF From, Bare
  <1>10. CASE arc \in From(p) /\ p.at = "label"
    BY <1>10, BareArcs, BareSets DEF From, Bare
  <1>11. CASE arc \in From(p) /\ p.at = "labelled"
    BY <1>11, BareArcs, BareSets DEF From, Bare
  <1>12. CASE arc \in From(p) /\ p.at = "inline"
    BY <1>12, BareArcs, BareSets DEF From, Bare
  <1>13. CASE arc \in From(p) /\ p.at = "default"
    BY <1>13, BareArcs, BareSets DEF From, Bare
  <1>14. CASE arc \in From(p) /\ p.at = "constraint"
    BY <1>14, BareArcs, BareSets DEF From, Bare
  <1>15. CASE arc \in From(p) /\ p.at = "name"
    BY <1>15, BareArcs, BareSets DEF From, Bare
  <1>16. CASE arc \in From(p) /\ p.at = "named"
    BY <1>16, BareArcs, BareSets DEF From, Bare
  <1>17. CASE arc \in From(p) /\ p.at = "primary"
    BY <1>17, BareArcs, BareSets DEF From, Bare
  <1>18. CASE arc \in From(p) /\ p.at = "keys"
    BY <1>18, BareArcs, BareSets DEF From, Bare
  <1>19. CASE arc \in From(p) /\ p.at = "foreign"
    BY <1>19, BareArcs, BareSets DEF From, Bare
  <1>20. CASE arc \in From(p) /\ p.at = "children"
    BY <1>20, BareArcs, BareSets DEF From, Bare
  <1>21. CASE arc \in From(p) /\ p.at = "references"
    BY <1>21, BareArcs, BareSets DEF From, Bare
  <1>22. CASE arc \in From(p) /\ p.at = "rest"
    BY <1>22, BareArcs, BareSets DEF From, Bare
  <1>23. CASE arc \in From(p) /\ p.at = "expression"
    BY <1>23, BareArcs, BareSets DEF From, Bare
  <1>24. CASE arc \in From(p) /\ p.at = "parent"
    BY <1>24, BareArcs, BareSets DEF From, Bare
  <1>25. CASE arc \in From(p) /\ p.at = "parented"
    BY <1>25, BareArcs, BareSets DEF From, Bare
  <1>26. CASE arc \in From(p) /\ p.at = "keyed"
    BY <1>26, BareArcs, BareSets DEF From, Bare
  <1>27. CASE arc \in From(p) /\ p.at = "set"
    BY <1>27, BareArcs, BareSets DEF From, Bare
  <1>28. CASE arc \in From(p) /\ p.at = "list"
    BY <1>28, BareArcs, BareSets DEF From, Bare
  <1>29. CASE arc \in From(p) /\ p.at = "listed"
    BY <1>29, BareArcs, BareSets DEF From, Bare
  <1>30. CASE arc \in From(p) /\ p.at = "collation"
    BY <1>30, BareArcs, BareSets DEF From, Bare
  <1>31. QED
    BY <1>0, <1>1, <1>2, <1>3, <1>4, <1>5, <1>6, <1>7, <1>8, <1>9, <1>10, <1>11,
       <1>12, <1>13, <1>14, <1>15, <1>16, <1>17, <1>18, <1>19, <1>20, <1>21, <1>22,
       <1>23, <1>24, <1>25, <1>26, <1>27, <1>28, <1>29, <1>30
       DEF Arcs, Places, Titles, ColumnPlaces, ConstraintPlaces, EntryPlaces, ListPlaces, ExpressionPlaces

(* Where a column's REFERENCES clause is.                                  *)
KeyPlaces == {"parent", "parented", "keyed", "set"} \cup ListPlaces
Opening(x) == x.word = "REFERENCES" /\ x.role = "key"

InKey(x) == x.column # 0 /\ (Keyed(x) \/ x.at \in KeyPlaces)

(* What ends an entry belongs to no REFERENCES clause.                     *)
LEMMA EndIsNoKey ==
    ASSUME NEW p, NEW arc \in End(p)
    PROVE  ~InKey(arc.is)
  <1>1. \/ arc = Ends(1, "comma", "constraint", 0) \/ arc = Ends(0, ")", "options", 0)
        \/ arc = Ends(1, "comma", "column", p.column + 1)
    BY DEF End
  <1>2. arc.is.role = "end" /\ arc.is.at \in {"constraint", "options", "column"}
    BY <1>1 DEF Ends, Arc, Symbol
  <1>3. QED
    BY <1>2 DEF InKey, Keyed, KeyPlaces, ListPlaces

(* Nor does any other symbol whose role and place say so.                  *)
LEMMA GoesIsNoKey ==
    ASSUME NEW p, NEW at, at \notin KeyPlaces
    PROVE  /\ \A cost, word : ~InKey(Goes(p, cost, word, "word", at).is)
           /\ \A cost, word : ~InKey(Goes(p, cost, word, "name", at).is)
           /\ \A word, what : ~InKey(Opens(p, word, "word", at, what).is)
  BY DEF InKey, Keyed, Goes, Opens, Arc, Symbol

(* A key begins at its REFERENCES, and goes on in its column.              *)
LEMMA KeysBegin ==
    ASSUME NEW p, Placed(p), NEW arc \in Arcs(p), InKey(arc.is)
    PROVE  \/ Opening(arc.is)
           \/ p.at \in KeyPlaces /\ p.column = arc.is.column
  <1>0. p.at \in Places /\ p.column \in Nat /\ Steady(p, arc)
    BY ArcsAreSteady DEF Placed, Settled, Places
  <1>1. arc.is.column = p.column \/ p.at = "columns"
    <2>1. \A end \in End(p) : arc.is # end.is
      BY EndIsNoKey
    <2>2. QED
      BY <1>0, <2>1 DEF Steady, Steers
  <1>2. CASE p.at \in KeyPlaces
    BY <1>1, <1>2 DEF KeyPlaces, ListPlaces
  <1>3. CASE p.at = "columns"
    <2>1. ~Inside(p) => Space(p) = {Goes(p, 3, "space", "word", p.at)}
      BY <1>3 DEF Space
    <2>2. p.deep = << >>
      BY <1>3 DEF Placed, ListPlaces, ExpressionPlaces
    <2>3. arc = Goes(p, 3, "space", "word", p.at) \/ arc = Ends(0, "(", "column", 1)
      BY <1>3, <2>1, <2>2 DEF Arcs, From, Inside
    <2>4. ~InKey(Goes(p, 3, "space", "word", p.at).is)
      BY <1>3, GoesIsNoKey DEF KeyPlaces, ListPlaces
    <2>5. ~InKey(Ends(0, "(", "column", 1).is)
      BY DEF InKey, Ends, Arc, Symbol, Keyed, KeyPlaces, ListPlaces
    <2>6. QED
      BY <2>3, <2>4, <2>5
  <1>4. CASE p.at \in ExpressionPlaces
    <2>1. Hides(p, arc.is) \/ Shuts(p, arc.is)
      BY <1>4, EveryArc
    <2>2. ~InKey(arc.is)
      <3>1. CASE Hides(p, arc.is)
        BY <3>1 DEF Hides, InKey, Keyed, KeyPlaces, ListPlaces, ExpressionPlaces
      <3>2. CASE Shuts(p, arc.is)
        BY <3>2 DEF Shuts, Symbol, InKey, Keyed, KeyPlaces, ListPlaces
      <3>3. QED
        BY <2>1, <3>1, <3>2
    <2>3. QED
      BY <2>2
  <1>5. CASE p.at \notin KeyPlaces /\ p.at # "columns" /\ p.at \notin ExpressionPlaces
    <2>1. p.column # 0
      BY <1>1, <1>5 DEF InKey
    <2>2. p.deep = << >> /\ Settled(p)
      BY <1>5, Outside DEF KeyPlaces
    <2>3. p.at \in ColumnPlaces \cup {"rest", "expression"}
      BY <1>5, <2>1, <2>2
         DEF Settled, Titles, ColumnPlaces, ConstraintPlaces, EntryPlaces, KeyPlaces
    <2>4. CASE arc \in Space(p)
      <3>1. arc = Goes(p, 3, "space", "word", p.at)
        BY <2>2, <2>4 DEF Space, Inside
      <3>2. QED
        BY <1>5, <3>1, GoesIsNoKey
    <2>5. CASE arc \in From(p) /\ p.at = "rest"
      <3>1. arc \in Clauses(p)
        BY <2>5, EndIsNoKey DEF From, Rest
      <3>2. \/ arc = Goes(p, 1, "REFERENCES", "key", "parent")
            \/ \E word, at : at \notin KeyPlaces /\ arc = Goes(p, 1, word, "word", at)
        BY <3>1 DEF Clauses, KeyPlaces, ListPlaces
      <3>3. Opening(Goes(p, 1, "REFERENCES", "key", "parent").is)
        BY DEF Opening, Goes, Arc, Symbol
      <3>4. QED
        BY <3>2, <3>3, GoesIsNoKey
    <2>6. CASE arc \in From(p) /\ p.at # "rest"
      <3>1. \/ \E cost, word, at : at \notin KeyPlaces /\ arc = Goes(p, cost, word, "word", at)
            \/ \E cost, word, at : at \notin KeyPlaces /\ arc = Goes(p, cost, word, "name", at)
            \/ arc = Opens(p, "(", "word", "expr", "body")
        <4>1. CASE p.at = "column"
          BY <2>6, <4>1 DEF From, Id, KeyPlaces, ListPlaces
        <4>2. CASE p.at = "type"
          BY <2>6, <4>2 DEF From, KeyPlaces, ListPlaces
        <4>3. CASE p.at = "label"
          BY <2>6, <4>3 DEF From, KeyPlaces, ListPlaces
        <4>4. CASE p.at = "labelled"
          BY <2>6, <4>4 DEF From, KeyPlaces, ListPlaces
        <4>5. CASE p.at = "inline"
          BY <2>6, <4>5 DEF From, KeyPlaces, ListPlaces
        <4>6. CASE p.at = "default"
          BY <2>6, <4>6 DEF From, KeyPlaces, ListPlaces
        <4>7. CASE p.at = "expression"
          BY <2>6, <4>7 DEF From, KeyPlaces, ListPlaces
        <4>8. QED
          BY <2>3, <2>6, <4>1, <4>2, <4>3, <4>4, <4>5, <4>6, <4>7 DEF ColumnPlaces
      <3>2. "expr" \notin KeyPlaces
        BY DEF KeyPlaces, ListPlaces
      <3>3. QED
        BY <3>1, <3>2, GoesIsNoKey
    <2>7. QED
      BY <2>4, <2>5, <2>6 DEF Arcs
  <1>6. QED
    BY <1>2, <1>3, <1>4, <1>5

(* The key of a column has its REFERENCES.                                 *)
KeyOpens(s, x) == InKey(x) => References(s, x.column) # {}

(* A REFERENCES found stays found, and one more is found too.              *)
LEMMA ReferencesMore ==
    ASSUME NEW s \in Seq(Symbols), NEW x \in Symbols, NEW n
    PROVE  /\ References(s, n) # {} => References(Append(s, x), n) # {}
           /\ x.column = n /\ Opening(x) => References(Append(s, x), n) # {}
  <1> DEFINE t == Append(s, x)
  <1>1. /\ DOMAIN t = 1 .. Len(s) + 1 /\ DOMAIN s = 1 .. Len(s) /\ Len(s) \in Nat
        /\ \A i \in 1 .. Len(s) : t[i] = s[i]
        /\ t[Len(s) + 1] = x
    BY AppendProperties, LenProperties
  <1> HIDE DEF t
  <1>2. ASSUME NEW i \in References(s, n) PROVE i \in References(t, n)
    <2>1. i \in DOMAIN s /\ i \in DOMAIN t
      BY <1>1 DEF References
    <2>2. t[i] = s[i]
      BY <1>1, <2>1
    <2>3. QED
      BY <2>1, <2>2 DEF References
  <1>3. ASSUME x.column = n, Opening(x) PROVE Len(s) + 1 \in References(t, n)
    BY <1>1, <1>3 DEF References, Opening, Keyed
  <1>4. QED
    BY <1>2, <1>3 DEF t

(* A column that has a word of a key has the REFERENCES that begins it.    *)
LEMMA KeysReference ==
    ASSUME NEW s, Legal(s)
    PROVE  \A i \in DOMAIN s : KeyOpens(s, s[i])
  <1> DEFINE Knows(t) == /\ \A i \in DOMAIN t : KeyOpens(t, t[i])
                         /\ Place(t).at \in KeyPlaces /\ Place(t).column # 0
                            => References(t, Place(t).column) # {}
             P == {t \in Seq(Symbols) : Knows(t)}
  <1>1. << >> \in P
    <2>1. Place(<< >>).at = "create"
      BY PlaceIs, NothingIsPlaced
    <2>2. "create" \notin KeyPlaces
      BY DEF KeyPlaces, ListPlaces
    <2>3. << >> \in Seq(Symbols) /\ DOMAIN << >> = {}
      OBVIOUS
    <2>4. QED
      BY <2>1, <2>2, <2>3
  <1>2. ASSUME NEW t \in P, NEW arc, Legal(t), Placed(Place(t)), arc \in Arcs(Place(t)), arc.is \in Symbols
        PROVE  Append(t, arc.is) \in P
    <2> DEFINE x == arc.is
               u == Append(t, x)
    <2>1. /\ u \in Seq(Symbols) /\ DOMAIN u = 1 .. Len(t) + 1 /\ DOMAIN t = 1 .. Len(t) /\ Len(t) \in Nat
          /\ \A i \in 1 .. Len(t) : u[i] = t[i]
          /\ u[Len(t) + 1] = x /\ Place(u) = x /\ x \in Symbols
      BY <1>2, AppendProperties, LenProperties, PlaceIs
    <2>2. \A n : References(t, n) # {} => References(u, n) # {}
      BY <1>2, ReferencesMore
    <2>3. x.column = x.column /\ Opening(x) => References(u, x.column) # {}
      BY <1>2, ReferencesMore
    <2>4. InKey(x) => Opening(x) \/ (Place(t).at \in KeyPlaces /\ Place(t).column = x.column)
      BY <1>2, KeysBegin
    <2> HIDE DEF u, x
    <2>5. InKey(x) => References(u, x.column) # {}
      <3>1. ASSUME InKey(x), Place(t).at \in KeyPlaces, Place(t).column = x.column
            PROVE  References(t, x.column) # {}
        BY <1>2, <3>1 DEF InKey
      <3>2. QED
        BY <2>2, <2>3, <2>4, <3>1
    <2>6. \A i \in DOMAIN t : KeyOpens(u, t[i])
      BY <1>2, <2>2 DEF KeyOpens
    <2>7. \A i \in DOMAIN u : KeyOpens(u, u[i])
      <3>1. ASSUME NEW i \in DOMAIN u PROVE KeyOpens(u, u[i])
        <4>1. CASE i = Len(t) + 1
          BY <2>1, <2>5, <4>1 DEF KeyOpens
        <4>2. CASE i \in DOMAIN t
          BY <2>1, <2>6, <4>2
        <4>3. QED
          BY <2>1, <4>1, <4>2
      <3>2. QED
        BY <3>1
    <2>8. Place(u).at \in KeyPlaces /\ Place(u).column # 0 => References(u, Place(u).column) # {}
      BY <2>1, <2>5 DEF InKey
    <2>9. u \in P
      BY <2>1, <2>7, <2>8
    <2>10. QED
      BY <2>9 DEF u, x
  <1>3. s \in P
    <2> HIDE DEF P
    <2>1. QED
      BY <1>1, <1>2, ArcByArc
  <1>4. QED
    BY <1>3

(***************************************************************************)
(* Words that are put back.                                                *)
(***************************************************************************)
Script == Words \cup Quotations
Vocab(B) == Words \cup Drops(B) \cup Quotations

Squeezing(V) == [word \in V |-> IF word = "space" THEN << >> ELSE <<word>>]

Back(B) ==
    [word \in Vocab(B) |->
        IF \E n \in DOMAIN B : Placeholder[n] = word
        THEN B[CHOOSE n \in DOMAIN B : Placeholder[n] = word] ELSE <<word>>]

(* A symbol as it is written, and with all of its expression behind it.    *)
Ink == [x \in Symbols |-> <<InQuotes(x)>>]
Open ==
    [x \in Symbols |->
        IF x.role = "body" THEN << >>
        ELSE IF x.role = "close" THEN x.body \o <<x.word>> ELSE <<InQuotes(x)>>]

Chosen(F, f) == [x \in Symbols |-> IF x \in F THEN f[x] ELSE << >>]

(* One symbol says what it says.                                           *)
LEMMA SayingOne ==
    ASSUME NEW S, NEW X, NEW f \in Sayings(S, X), NEW x \in S
    PROVE  Saying(f, <<x>>) = f[x]
  <1>1. << >> \in Seq(S) /\ Append(<< >>, x) = <<x>>
    OBVIOUS
  <1>2. Saying(f, Append(<< >>, x)) = Saying(f, << >>) \o f[x]
    BY <1>1, SayingMore
  <1>3. f[x] \in Seq(X)
    BY SaysAWord
  <1>4. << >> \o f[x] = f[x]
    BY <1>3, ConcatEmptySeq
  <1>5. QED
    BY <1>1, <1>2, <1>4, SayingNothing

(* Leaving out space is a saying of words.                                 *)
LEMMA SqueezingType ==
    ASSUME NEW V
    PROVE  Squeezing(V) \in Sayings(V, V)
  <1>1. ASSUME NEW word \in V
        PROVE  (IF word = "space" THEN << >> ELSE <<word>>) \in Seq(V)
    OBVIOUS
  <1>2. QED
    BY <1>1 DEF Squeezing, Sayings

(* Dense leaves out space word by word.                                    *)
LEMMA DenseIs ==
    ASSUME NEW V, NEW words \in Seq(V)
    PROVE  Dense(words) = Saying(Squeezing(V), words) /\ Dense(words) \in Seq(V)
  <1>1. \A i \in DOMAIN words : words[i] \in V
    BY ElementOfSeq, LenProperties
  <1>2. [i \in DOMAIN words |-> IF words[i] = "space" THEN << >> ELSE <<words[i]>>]
        = [i \in DOMAIN words |-> Squeezing(V)[words[i]]]
    BY <1>1 DEF Squeezing
  <1>3. Dense(words) = Saying(Squeezing(V), words)
    BY <1>2 DEF Dense, Saying
  <1>4. QED
    BY <1>3, SqueezingType, SayingType

(* Dense of two sequences is Dense of each.                                *)
LEMMA DenseBoth ==
    ASSUME NEW V, NEW a \in Seq(V), NEW b \in Seq(V)
    PROVE  Dense(a \o b) = Dense(a) \o Dense(b)
  <1> DEFINE f == Squeezing(V)
             c == a \o b
  <1>1. f \in Sayings(V, V)
    BY SqueezingType
  <1>2. c \in Seq(V)
    OBVIOUS
  <1>3. Saying(f, c) = Saying(f, a) \o Saying(f, b)
    <2> HIDE DEF f
    <2>1. QED
      BY <1>1, SayingBoth
  <1>4. Dense(a) = Saying(f, a) /\ Dense(b) = Saying(f, b)
    BY DenseIs
  <1> HIDE DEF c
  <1>5. Dense(c) = Saying(f, c)
    BY <1>2, DenseIs
  <1>6. QED
    BY <1>3, <1>4, <1>5 DEF c

(* Putting back is a saying of words.                                      *)
LEMMA BackType ==
    ASSUME NEW B, Good(B)
    PROVE  Back(B) \in Sayings(Vocab(B), Vocab(B))
  <1>1. ASSUME NEW word \in Vocab(B) PROVE Back(B)[word] \in Seq(Vocab(B))
    <2>1. CASE \E n \in DOMAIN B : Placeholder[n] = word
      <3> DEFINE n == CHOOSE n \in DOMAIN B : Placeholder[n] = word
      <3>1. n \in DOMAIN B
        BY <2>1
      <3>2. Back(B)[word] = B[n]
        BY <2>1 DEF Back
      <3> HIDE DEF n
      <3>3. B \in Seq(Seq(Words)) /\ DOMAIN B = 1 .. Len(B)
        BY LenProperties DEF Good
      <3>4. B[n] \in Seq(Words)
        BY <3>1, <3>3, ElementOfSeq
      <3>5. Words \subseteq Vocab(B)
        BY DEF Vocab
      <3>6. QED
        BY <3>2, <3>4, <3>5
    <2>2. CASE ~ \E n \in DOMAIN B : Placeholder[n] = word
      <3>1. Back(B)[word] = <<word>>
        BY <2>2 DEF Back
      <3>2. QED
        BY <3>1
    <2>3. QED
      BY <2>1, <2>2
  <1>2. Back(B) = [word \in Vocab(B) |-> Back(B)[word]]
    BY DEF Back
  <1> DEFINE f == Back(B)
  <1> HIDE DEF f
  <1>3. f \in [Vocab(B) -> Seq(Vocab(B))]
    BY <1>1, <1>2 DEF f
  <1>4. QED
    BY <1>3 DEF Sayings, f

(* The masker's FlattenSeq is Sqldef's.                                    *)
LEMMA SameFlatten == \A s : K!FlattenSeq(s) = FlattenSeq(s)
  BY DEF K!FlattenSeq, FlattenSeq

(* unmaskOne puts back word by word.                                       *)
LEMMA UnmaskIs ==
    ASSUME NEW B, Good(B), NEW words \in Seq(Vocab(B))
    PROVE  /\ K!unmaskOne(words, B) = Saying(Back(B), words)
           /\ K!unmaskOne(words, B) \in Seq(Vocab(B))
  <1>1. \A i \in DOMAIN words : words[i] \in Vocab(B)
    BY ElementOfSeq, LenProperties
  <1>2. [i \in DOMAIN words |->
            IF \E n \in DOMAIN B : Placeholder[n] = words[i]
            THEN B[CHOOSE n \in DOMAIN B : Placeholder[n] = words[i]] ELSE <<words[i]>>]
        = [i \in DOMAIN words |-> Back(B)[words[i]]]
    BY <1>1 DEF Back
  <1>3. K!unmaskOne(words, B) = Saying(Back(B), words)
    BY <1>2, SameFlatten DEF K!unmaskOne, Saying
  <1>4. QED
    BY <1>3, BackType, SayingType

(* What is no placeholder stays.                                           *)
LEMMA BackWord ==
    ASSUME NEW B, Good(B), Len(B) <= Len(Placeholder), NEW word \in Script
    PROVE  Back(B)[word] = <<word>>
  <1>1. DOMAIN B \subseteq DOMAIN Placeholder
    BY LenProperties, PlaceholdersAreNew DEF Good
  <1>2. \A i \in DOMAIN Placeholder : Placeholder[i] # word
    BY PlaceholdersAreNew DEF Script, Quotations
  <1>3. word \in Vocab(B)
    BY DEF Script, Vocab
  <1>4. QED
    BY <1>1, <1>2, <1>3 DEF Back

(* What holds no placeholder stays as it is.                               *)
LEMMA BackScript ==
    ASSUME NEW B, Good(B), Len(B) <= Len(Placeholder), NEW words \in Seq(Script)
    PROVE  Saying(Back(B), words) = words
  <1> DEFINE f == Back(B)
             g == [word \in Script |-> word]
  <1>1. DOMAIN words = 1 .. Len(words) /\ \A i \in DOMAIN words : words[i] \in Script
    BY ElementOfSeq, LenProperties
  <1>2. Singly(f, g, words, Script)
    BY <1>1, BackWord DEF Singly
  <1>3. [i \in DOMAIN words |-> g[words[i]]] = words
    BY <1>1, LenProperties
  <1> HIDE DEF f, g
  <1>4. Saying(f, words) = [i \in DOMAIN words |-> g[words[i]]]
    BY <1>2, SayingSingles
  <1>5. QED
    BY <1>3, <1>4 DEF f

(* A placeholder gives its expression back.                                *)
LEMMA BackDrop ==
    ASSUME NEW B, Good(B), Len(B) <= Len(Placeholder), NEW body \in Seq(Words), Has(B, body)
    PROVE  /\ K!placeholderFor(B, body) \in Vocab(B)
           /\ Back(B)[K!placeholderFor(B, body)] = body
  <1> DEFINE i == CHOOSE i \in DOMAIN B : B[i] = body
             n == CHOOSE n \in DOMAIN B : Placeholder[n] = Placeholder[i]
  <1>1. i \in DOMAIN B /\ B[i] = body
    BY DEF Has
  <1>2. DOMAIN B \subseteq DOMAIN Placeholder
    BY LenProperties, PlaceholdersAreNew DEF Good
  <1>3. n \in DOMAIN B /\ Placeholder[n] = Placeholder[i]
    BY <1>1
  <1>4. K!placeholderFor(B, body) = Placeholder[i]
    BY DEF K!placeholderFor
  <1>5. Placeholder[i] \in Vocab(B)
    BY <1>4 DEF Vocab, Drops
  <1>6. Back(B)[Placeholder[i]] = B[n]
    BY <1>1, <1>5 DEF Back
  <1> HIDE DEF i, n
  <1>7. n = i
    BY <1>1, <1>2, <1>3, PlaceholdersAreNew DEF IsInjective
  <1>8. QED
    BY <1>1, <1>4, <1>5, <1>6, <1>7

(* A word in quotes is no placeholder.                                     *)
LEMMA InQuotesType ==
    ASSUME NEW x \in Symbols
    PROVE  InQuotes(x) \in Script
  <1>1. x.word \in Words
    BY SymbolParts
  <1>2. QED
    BY <1>1 DEF InQuotes, Script, Quotations

(* What is written for a symbol, put back, is the symbol with all of its   *)
(* expression.                                                             *)
LEMMA BackSealed ==
    ASSUME NEW B, Good(B), Len(B) <= Len(Placeholder), NEW x \in Symbols, Shows(x, B)
    PROVE  Saying(Back(B), Sealed(B)[x]) = Open[x]
  <1>0. Back(B) \in Sayings(Vocab(B), Vocab(B)) /\ x.word \in Words /\ x.body \in Seq(Words)
    BY BackType, SymbolParts
  <1>1. CASE x.role = "body"
    <2>1. Sealed(B)[x] = << >> /\ Open[x] = << >>
      BY <1>1 DEF Sealed, Open
    <2>2. QED
      BY <2>1, SayingNothing
  <1>2. CASE x.role = "close"
    <2> DEFINE f == Back(B)
               a == Kept(B, x.body)
               b == <<x.word>>
    <2>1. Sealed(B)[x] = a \o b /\ Open[x] = x.body \o b
      BY <1>2 DEF Sealed, Open
    <2>2. b \in Seq(Vocab(B)) /\ b \in Seq(Script)
      <3>1. x.word \in Vocab(B) /\ x.word \in Script
        BY <1>0 DEF Vocab, Script
      <3>2. QED
        BY <3>1
    <2>3. Saying(f, b) = b
      BY <2>2, BackScript
    <2>4. a \in Seq(Vocab(B)) /\ Saying(f, a) = x.body
      <3>1. CASE K!sqldefRejectsExpression(x.body)
        <4>1. Has(B, x.body)
          BY <1>2, <3>1 DEF Shows
        <4>2. a = <<K!placeholderFor(B, x.body)>>
          BY <3>1 DEF Kept
        <4>3. /\ K!placeholderFor(B, x.body) \in Vocab(B)
              /\ f[K!placeholderFor(B, x.body)] = x.body
          BY <1>0, <4>1, BackDrop
        <4> DEFINE ph == K!placeholderFor(B, x.body)
        <4> HIDE DEF ph, f
        <4>4. ph \in Vocab(B) /\ f[ph] = x.body /\ a = <<ph>>
          BY <4>2, <4>3 DEF ph
        <4>5. Saying(f, <<ph>>) = f[ph]
          BY <1>0, <4>4, SayingOne DEF f
        <4> HIDE DEF a
        <4>6. QED
          BY <4>4, <4>5
      <3>2. CASE ~K!sqldefRejectsExpression(x.body)
        <4>1. a = x.body
          BY <3>2 DEF Kept
        <4>2. x.body \in Seq(Script) /\ x.body \in Seq(Vocab(B))
          <5>1. Words \subseteq Script /\ Words \subseteq Vocab(B)
            BY DEF Script, Vocab
          <5>2. QED
            BY <1>0, <5>1
        <4>3. QED
          BY <4>1, <4>2, BackScript
      <3>3. QED
        BY <3>1, <3>2
    <2> DEFINE V == Vocab(B)
    <2>F. f \in Sayings(V, V) /\ a \in Seq(V) /\ b \in Seq(V)
      BY <1>0, <2>2, <2>4
    <2> HIDE DEF f, a, b, V
    <2>5. Saying(f, a \o b) = Saying(f, a) \o Saying(f, b)
      BY <2>F, SayingBoth
    <2>6. QED
      BY <2>1, <2>3, <2>4, <2>5 DEF f
  <1>3. CASE x.role # "body" /\ x.role # "close"
    <2>1. Sealed(B)[x] = <<InQuotes(x)>> /\ Open[x] = <<InQuotes(x)>>
      BY <1>3 DEF Sealed, Open
    <2>2. <<InQuotes(x)>> \in Seq(Script)
      BY InQuotesType
    <2>3. QED
      BY <2>1, <2>2, BackScript
  <1>4. QED
    BY <1>1, <1>2, <1>3

-----------------------------------------------------------------------------
(***************************************************************************)
(* Putting back.                                                           *)
(***************************************************************************)
LEMMA OpenType ==
    /\ Open \in Sayings(Symbols, Script) /\ Ink \in Sayings(Symbols, Script)
  <1>1. ASSUME NEW x \in Symbols
        PROVE  Open[x] \in Seq(Script) /\ Ink[x] \in Seq(Script)
    <2>1. x.body \in Seq(Words) /\ x.word \in Words /\ InQuotes(x) \in Script /\ Words \subseteq Script
      BY SymbolParts, InQuotesType DEF Script
    <2>2. <<InQuotes(x)>> \in Seq(Script) /\ <<x.word>> \in Seq(Script) /\ x.body \in Seq(Script)
      BY <2>1
    <2>3. x.body \o <<x.word>> \in Seq(Script)
      BY <2>2, ConcatProperties
    <2>4. << >> \in Seq(Script)
      OBVIOUS
    <2>5. QED
      BY <2>2, <2>3, <2>4 DEF Open, Ink
  <1>2. Open = [x \in Symbols |-> Open[x]] /\ Ink = [x \in Symbols |-> Ink[x]]
    BY DEF Open, Ink
  <1>3. QED
    BY <1>1, <1>2 DEF Sayings

(* What some of the symbols say is a saying too.                           *)
LEMMA ChosenType ==
    ASSUME NEW F, NEW X, NEW f \in Sayings(Symbols, X)
    PROVE  Chosen(F, f) \in Sayings(Symbols, X)
  <1>1. \A x \in Symbols : f[x] \in Seq(X)
    BY DEF Sayings
  <1>2. << >> \in Seq(X)
    OBVIOUS
  <1>3. \A x \in Symbols : (IF x \in F THEN f[x] ELSE << >>) \in Seq(X)
    BY <1>1, <1>2
  <1>4. QED
    BY <1>3 DEF Chosen, Sayings

(* What is written is words sqldef may get.                                *)
LEMMA VocabType ==
    ASSUME NEW B
    PROVE  Sealed(B) \in Sayings(Symbols, Vocab(B))
  BY SayingsAre DEF Vocab

(* What is put back is the whole of each symbol.                           *)
LEMMA Unmasked ==
    ASSUME NEW B, Good(B), Len(B) <= Len(Placeholder), NEW s \in Seq(Symbols), Covers(B, s), NEW F
    PROVE  /\ Saying(Chosen(F, Sealed(B)), s) \in Seq(Vocab(B))
           /\ K!unmaskOne(Saying(Chosen(F, Sealed(B)), s), B) = Saying(Chosen(F, Open), s)
  <1> DEFINE f == Chosen(F, Sealed(B))
             V == Vocab(B)
             g == Back(B)
             h == [x \in Symbols |-> Saying(g, f[x])]
  <1>1. f \in Sayings(Symbols, V)
    BY VocabType, ChosenType
  <1>2. g \in Sayings(V, V)
    BY BackType
  <1>3. \A i \in DOMAIN s : s[i] \in Symbols /\ Shows(s[i], B)
    BY ElementOfSeq, LenProperties DEF Covers
  <1>4. ASSUME NEW i \in DOMAIN s PROVE h[s[i]] = Chosen(F, Open)[s[i]]
    <2>1. h[s[i]] = Saying(g, f[s[i]])
      BY <1>3
    <2>2. CASE s[i] \in F
      <3>1. f[s[i]] = Sealed(B)[s[i]] /\ Chosen(F, Open)[s[i]] = Open[s[i]]
        BY <1>3, <2>2 DEF Chosen
      <3>2. Saying(g, Sealed(B)[s[i]]) = Open[s[i]]
        BY <1>3, BackSealed
      <3>3. QED
        BY <2>1, <3>1, <3>2
    <2>3. CASE s[i] \notin F
      <3>1. f[s[i]] = << >> /\ Chosen(F, Open)[s[i]] = << >>
        BY <1>3, <2>3 DEF Chosen
      <3>2. Saying(g, << >>) = << >>
        BY SayingNothing
      <3>3. QED
        BY <2>1, <3>1, <3>2
    <2>4. QED
      BY <2>2, <2>3
  <1> HIDE DEF f, V, g
  <1>5. Saying(g, Saying(f, s)) = Saying(h, s)
    BY <1>1, <1>2, SayingTwice
  <1> HIDE DEF h
  <1>6. Saying(h, s) = Saying(Chosen(F, Open), s)
    BY <1>4, SayingAlike
  <1>7. Saying(f, s) \in Seq(V)
    BY <1>1, SayingType
  <1>8. K!unmaskOne(Saying(f, s), B) = Saying(g, Saying(f, s))
    BY <1>7, UnmaskIs DEF V, g
  <1>9. QED
    BY <1>5, <1>6, <1>7, <1>8 DEF f, V

(* Space that is left out first is out.                                    *)
LEMMA DenseAgain ==
    ASSUME NEW B, Good(B), Len(B) <= Len(Placeholder), NEW words \in Seq(Vocab(B))
    PROVE  Dense(K!unmaskOne(Dense(words), B)) = Dense(K!unmaskOne(words, B))
  <1> DEFINE V == Vocab(B)
             f == Squeezing(V)
             g == Back(B)
             h == [word \in V |-> Saying(g, f[word])]
             j == [word \in V |-> Saying(f, h[word])]
             k == [word \in V |-> Saying(f, g[word])]
  <1>1. f \in Sayings(V, V) /\ g \in Sayings(V, V) /\ words \in Seq(V)
    BY SqueezingType, BackType
  <1>2. h \in Sayings(V, V)
    <2> HIDE DEF V, f, g
    <2>1. \A word \in V : Saying(g, f[word]) \in Seq(V)
      BY <1>1, SaysAWord, SayingType
    <2>2. QED
      BY <2>1 DEF Sayings
  <1>3. "space" \in V /\ "space" \in Script
    BY DEF Vocab, Script, Words
  <1>4. ASSUME NEW word \in V PROVE j[word] = k[word]
    <2>1. CASE word = "space"
      <3>1. f[word] = << >>
        BY <2>1 DEF Squeezing
      <3>2. h[word] = << >>
        BY <3>1, SayingNothing
      <3>3. j[word] = << >>
        BY <3>2, SayingNothing
      <3>4. g["space"] = <<"space">>
        BY <1>3, BackWord
      <3> HIDE DEF V, f, g
      <3>5. Saying(f, <<"space">>) = f["space"]
        BY <1>1, <1>3, SayingOne
      <3>6. QED
        BY <2>1, <3>1, <3>3, <3>4, <3>5
    <2>2. CASE word # "space"
      <3>1. f[word] = <<word>>
        BY <2>2 DEF Squeezing
      <3> HIDE DEF V, f, g
      <3>2. Saying(g, <<word>>) = g[word]
        BY <1>1, SayingOne
      <3>3. QED
        BY <3>1, <3>2
    <2>3. QED
      BY <2>1, <2>2
  <1>5. Dense(words) = Saying(f, words) /\ Dense(words) \in Seq(V)
    BY DenseIs
  <1>6. K!unmaskOne(Dense(words), B) = Saying(g, Dense(words)) /\ Saying(g, Dense(words)) \in Seq(V)
    BY <1>5, UnmaskIs
  <1>7. K!unmaskOne(words, B) = Saying(g, words) /\ Saying(g, words) \in Seq(V)
    BY UnmaskIs
  <1>8. /\ Dense(Saying(g, Dense(words))) = Saying(f, Saying(g, Dense(words)))
        /\ Dense(Saying(g, words)) = Saying(f, Saying(g, words))
    BY <1>6, <1>7, DenseIs
  <1> HIDE DEF V, f, g
  <1>9. Saying(g, Saying(f, words)) = Saying(h, words)
    BY <1>1, SayingTwice
  <1> HIDE DEF h
  <1>10. Saying(f, Saying(h, words)) = Saying(j, words)
    BY <1>1, <1>2, SayingTwice
  <1>11. Saying(f, Saying(g, words)) = Saying(k, words)
    BY <1>1, SayingTwice
  <1>12. Saying(j, words) = Saying(k, words)
    <2>1. \A i \in DOMAIN words : words[i] \in V
      BY <1>1, ElementOfSeq, LenProperties
    <2>2. \A i \in DOMAIN words : j[words[i]] = k[words[i]]
      BY <1>4, <2>1
    <2> HIDE DEF j, k
    <2>3. QED
      BY <2>2, SayingAlike
  <1>13. QED
    BY <1>5, <1>6, <1>7, <1>8, <1>9, <1>10, <1>11, <1>12

(***************************************************************************)
(* The words of a column.                                                  *)
(***************************************************************************)
Defining(n) == {x \in Symbols : Defines(x, n)}
Keying(n) == {x \in Symbols : x.column = n /\ Keyed(x)}

(* The definition of a column is what its symbols outside of its key say,  *)
(* less space.                                                             *)
LEMMA DefinitionIs ==
    ASSUME NEW s \in Seq(Symbols), NEW n
    PROVE  DefinitionOf(s, n) = Dense(Saying(Chosen(Defining(n), Sealed(bodies)), s))
  <1> DEFINE V == Vocab(bodies)
             f == Chosen(Defining(n), Sealed(bodies))
             g == Squeezing(V)
             h == [x \in Symbols |-> Saying(g, f[x])]
             d == [i \in DOMAIN s |-> IF Defines(s[i], n) THEN Dense(Said(s[i])) ELSE << >>]
  <1>1. f \in Sayings(Symbols, V) /\ g \in Sayings(V, V)
    BY VocabType, ChosenType, SqueezingType
  <1>2. \A i \in DOMAIN s : s[i] \in Symbols
    BY ElementOfSeq, LenProperties
  <1>3. ASSUME NEW i \in DOMAIN s
        PROVE  (IF Defines(s[i], n) THEN Dense(Said(s[i])) ELSE << >>) = h[s[i]]
    <2>1. s[i] \in Symbols /\ h[s[i]] = Saying(g, f[s[i]])
      BY <1>2
    <2>2. CASE Defines(s[i], n)
      <3>1. f[s[i]] = Sealed(bodies)[s[i]]
        BY <2>1, <2>2 DEF Chosen, Defining
      <3>2. Said(s[i]) = Sealed(bodies)[s[i]]
        BY <2>1, SaidIs
      <3>3. Sealed(bodies)[s[i]] \in Seq(V)
        BY <2>1, VocabType, SaysAWord
      <3>4. Dense(Sealed(bodies)[s[i]]) = Saying(g, Sealed(bodies)[s[i]])
        BY <3>3, DenseIs
      <3>5. QED
        BY <2>1, <2>2, <3>1, <3>2, <3>4
    <2>3. CASE ~Defines(s[i], n)
      <3>1. f[s[i]] = << >>
        BY <2>1, <2>3 DEF Chosen, Defining
      <3>2. QED
        BY <2>1, <2>3, <3>1, SayingNothing
    <2>4. QED
      BY <2>2, <2>3
  <1>4. d = [i \in DOMAIN s |-> h[s[i]]]
    BY <1>3
  <1>5. DefinitionOf(s, n) = FlattenSeq(d)
    BY DEF DefinitionOf
  <1>6. DefinitionOf(s, n) = Saying(h, s)
    <2> HIDE DEF d, h
    <2>1. QED
      BY <1>4, <1>5 DEF Saying
  <1> HIDE DEF f, g, V
  <1>7. Saying(g, Saying(f, s)) = Saying(h, s) /\ Saying(f, s) \in Seq(V)
    BY <1>1, SayingTwice, SayingType
  <1>8. Dense(Saying(f, s)) = Saying(g, Saying(f, s))
    BY <1>7, DenseIs DEF g
  <1>9. QED
    BY <1>6, <1>7, <1>8 DEF f

(* The key of a column is what the symbols of the key say.                 *)
LEMMA KeyIs ==
    ASSUME NEW s \in Seq(Symbols), NEW n
    PROVE  KeyOf(s, n) = Saying(Chosen(Keying(n), Sealed(bodies)), s)
  <1>1. \A i \in DOMAIN s : s[i] \in Symbols
    BY ElementOfSeq, LenProperties
  <1>2. \A i \in DOMAIN s : Said(s[i]) = Sealed(bodies)[s[i]]
    BY <1>1, SaidIs
  <1>3. [i \in DOMAIN s |-> IF s[i].column = n /\ Keyed(s[i]) THEN Said(s[i]) ELSE << >>]
        = [i \in DOMAIN s |-> Chosen(Keying(n), Sealed(bodies))[s[i]]]
    BY <1>1, <1>2 DEF Chosen, Keying
  <1>4. QED
    BY <1>3 DEF KeyOf, Saying

(* The words of a column as they are written are those of both.            *)
LEMMA PlainIs ==
    ASSUME NEW s \in Seq(Symbols), NEW n
    PROVE  Plain(s, n) = Saying(Chosen(Defining(n), Ink), s) \o Saying(Chosen(Keying(n), Ink), s)
  <1> DEFINE Part(keyed) ==
                [i \in DOMAIN s |->
                    IF /\ s[i].column = n /\ s[i].role # "end"
                       /\ Keyed(s[i]) = keyed
                    THEN <<InQuotes(s[i])>> ELSE << >>]
  <1>1. \A i \in DOMAIN s : s[i] \in Symbols
    BY ElementOfSeq, LenProperties
  <1>2. ASSUME NEW i \in DOMAIN s
        PROVE  (IF s[i].column = n /\ s[i].role # "end" /\ Keyed(s[i]) = FALSE
                THEN <<InQuotes(s[i])>> ELSE << >>) = Chosen(Defining(n), Ink)[s[i]]
    BY <1>1 DEF Chosen, Defining, Defines, Ink, Keyed
  <1>3. ASSUME NEW i \in DOMAIN s
        PROVE  (IF s[i].column = n /\ s[i].role # "end" /\ Keyed(s[i]) = TRUE
                THEN <<InQuotes(s[i])>> ELSE << >>) = Chosen(Keying(n), Ink)[s[i]]
    BY <1>1 DEF Chosen, Keying, Ink, Keyed
  <1>4. /\ Part(FALSE) = [i \in DOMAIN s |-> Chosen(Defining(n), Ink)[s[i]]]
        /\ Part(TRUE) = [i \in DOMAIN s |-> Chosen(Keying(n), Ink)[s[i]]]
    BY <1>2, <1>3
  <1>5. Plain(s, n) = FlattenSeq(Part(FALSE)) \o FlattenSeq(Part(TRUE))
    BY DEF Plain
  <1> HIDE DEF Part
  <1>6. QED
    BY <1>4, <1>5 DEF Saying

(* Symbols of which none leaves an expression in part: those of its column.*)
Whole(F, C) ==
    \A x \in Symbols : x.role \in {"body", "close"} => (x \in F <=> x.column \in C)

(* What has been read of an expression that goes on.                       *)
Pending(C, p) == IF p.at \in ExpressionPlaces /\ p.column \in C THEN p.body ELSE << >>

(* Each symbol, as it is written: an expression's words are pending till   *)
(* its parenthesis, which says them all.                                   *)
LEMMA PendingOne ==
    ASSUME NEW F, NEW C, Whole(F, C), NEW p, Placed(p), NEW arc \in Arcs(p)
    PROVE  LET x == arc.is
           IN  /\ x \in Symbols /\ Pending(C, p) \in Seq(Script) /\ Pending(C, x) \in Seq(Script)
               /\ Pending(C, p) \o Chosen(F, Ink)[x] = Chosen(F, Open)[x] \o Pending(C, x)
  <1> DEFINE x == arc.is
             a == Pending(C, p)
             b == Pending(C, x)
             i == Chosen(F, Ink)[x]
             o == Chosen(F, Open)[x]
  <1>0. x \in Symbols /\ Placed(x) /\ x.body \in Seq(Words) /\ x.word \in Words /\ Words \subseteq Script
    BY ArcsLead, SymbolParts DEF Script
  <1>1. i \in Seq(Script) /\ o \in Seq(Script) /\ << >> \in Seq(Script)
    BY <1>0, OpenType, ChosenType, SaysAWord
  <1>2. b \in Seq(Script)
    <2>1. x.body \in Seq(Script)
      BY <1>0
    <2>2. QED
      BY <1>1, <2>1 DEF Pending
  <1>3. CASE p.at \notin ExpressionPlaces
    <2>1. a = << >>
      BY <1>3 DEF Pending
    <2>2. b = << >>
      <3>1. x.body = << >>
        BY <1>3, BareBegin
      <3>2. QED
        BY <3>1 DEF Pending
    <2>3. x.role \in Plainly
      BY <1>3, ArcsAreSteady DEF Steady
    <2>4. i = o
      BY <1>0, <2>3 DEF Chosen, Ink, Open, Plainly
    <2> HIDE DEF a, b, i, o
    <2>5. << >> \o i = i /\ o \o << >> = o
      BY <1>1, ConcatEmptySeq
    <2>6. a \in Seq(Script) /\ a \o i = o \o b
      BY <1>1, <2>1, <2>2, <2>4, <2>5
    <2>7. QED
      BY <1>0, <1>2, <2>6 DEF a, b, i, o
  <1>4. CASE p.at \in ExpressionPlaces
    <2>1. Hides(p, x) \/ Shuts(p, x)
      BY <1>4, EveryArc
    <2>2. p.body \in Seq(Words)
      BY <1>4
         DEF Placed, InExpression, Settled, ExpressionPlaces, ListPlaces, Titles,
             ColumnPlaces, ConstraintPlaces, EntryPlaces
    <2>3. a \in Seq(Script)
      <3>1. p.body \in Seq(Script)
        BY <1>0, <2>2
      <3>2. QED
        BY <1>1, <3>1 DEF Pending
    <2>4. x.role \in {"body", "close"} /\ x.column = p.column
      <3>1. CASE Hides(p, x)
        BY <3>1 DEF Hides
      <3>2. CASE Shuts(p, x)
        BY <3>2 DEF Shuts, Symbol
      <3>3. QED
        BY <2>1, <3>1, <3>2
    <2>5. x \in F <=> p.column \in C
      BY <1>0, <2>4 DEF Whole
    <2>6. InQuotes(x) = x.word
      BY <2>4 DEF InQuotes
    <2>7. CASE p.column \notin C
      <3>1. a = << >> /\ i = << >> /\ o = << >> /\ b = << >>
        BY <1>0, <2>4, <2>5, <2>7 DEF Pending, Chosen
      <3> HIDE DEF a, b, i, o
      <3>2. a \o i = o \o b
        BY <3>1
      <3>3. QED
        BY <1>0, <1>2, <2>3, <3>2 DEF a, b, i, o
    <2>8. CASE p.column \in C /\ Hides(p, x)
      <3>1. a = p.body /\ i = <<x.word>>
        BY <1>0, <1>4, <2>5, <2>6, <2>8 DEF Pending, Chosen, Ink
      <3>2. o = << >> /\ b = Append(p.body, x.word)
        BY <1>0, <2>5, <2>8 DEF Pending, Chosen, Open, Hides
      <3>3. p.body \o <<x.word>> = Append(p.body, x.word)
        BY <1>0, <2>2
      <3> HIDE DEF a, b, i, o
      <3>4. << >> \o b = b
        BY <1>2, ConcatEmptySeq
      <3>5. a \o i = o \o b
        BY <3>1, <3>2, <3>3, <3>4
      <3>6. QED
        BY <1>0, <1>2, <2>3, <3>5 DEF a, b, i, o
    <2>9. CASE p.column \in C /\ Shuts(p, x)
      <3>1. x.role = "close" /\ x.body = p.body /\ x.at = "rest"
        BY <2>9 DEF Shuts, Symbol
      <3>2. a = p.body /\ i = <<x.word>>
        BY <1>0, <1>4, <2>5, <2>6, <2>9 DEF Pending, Chosen, Ink
      <3>3. o = p.body \o <<x.word>> /\ b = << >>
        BY <1>0, <2>5, <2>9, <3>1 DEF Pending, Chosen, Open, ExpressionPlaces
      <3> HIDE DEF a, b, i, o
      <3>4. o \o << >> = o
        BY <1>1, ConcatEmptySeq
      <3>5. a \o i = o \o b
        BY <3>2, <3>3, <3>4
      <3>6. QED
        BY <1>0, <1>2, <2>3, <3>5 DEF a, b, i, o
    <2>10. QED
      BY <2>1, <2>7, <2>8, <2>9
  <1>5. QED
    BY <1>3, <1>4

(* The words in their places are those of whole symbols.                   *)
LEMMA InkIsOpen ==
    ASSUME NEW F, NEW C, Whole(F, C), NEW s, Legal(s)
    PROVE  Saying(Chosen(F, Ink), s) = Saying(Chosen(F, Open), s) \o Pending(C, Place(s))
  <1> DEFINE f == Chosen(F, Ink)
             g == Chosen(F, Open)
             P == {t \in Seq(Symbols) : Saying(f, t) = Saying(g, t) \o Pending(C, Place(t))}
  <1>0. f \in Sayings(Symbols, Script) /\ g \in Sayings(Symbols, Script)
    BY OpenType, ChosenType
  <1>1. << >> \in P
    <2>1. Place(<< >>).at = "create"
      BY PlaceIs, NothingIsPlaced
    <2>2. Pending(C, Place(<< >>)) = << >>
      BY <2>1 DEF Pending, ExpressionPlaces
    <2>3. Saying(f, << >>) = << >> /\ Saying(g, << >>) = << >>
      BY SayingNothing
    <2>4. << >> \in Seq(Symbols) /\ << >> \o << >> = << >>
      OBVIOUS
    <2> HIDE DEF f, g
    <2>5. QED
      BY <2>2, <2>3, <2>4
  <1>2. ASSUME NEW t \in P, NEW arc, Legal(t), Placed(Place(t)), arc \in Arcs(Place(t)), arc.is \in Symbols
        PROVE  Append(t, arc.is) \in P
    <2> DEFINE x == arc.is
               p == Place(t)
               u == Append(t, x)
               b == Pending(C, p)
               c == Pending(C, x)
    <2>1. t \in Seq(Symbols) /\ u \in Seq(Symbols) /\ x \in Symbols /\ Place(u) = x
      BY <1>2, AppendProperties, PlaceIs
    <2>2. b \in Seq(Script) /\ c \in Seq(Script) /\ b \o f[x] = g[x] \o c
      BY <1>2, PendingOne
    <2>3. Saying(f, t) = Saying(g, t) \o b
      BY <1>2
    <2> HIDE DEF f, g, b, c, x
    <2>4. Saying(f, u) = Saying(f, t) \o f[x] /\ Saying(g, u) = Saying(g, t) \o g[x]
      BY <1>0, <2>1, SayingMore
    <2>5. Saying(g, t) \in Seq(Script) /\ f[x] \in Seq(Script) /\ g[x] \in Seq(Script)
      BY <1>0, <2>1, SayingType, SaysAWord
    <2>6. (Saying(g, t) \o b) \o f[x] = (Saying(g, t) \o g[x]) \o c
      <3>1. b \o f[x] = g[x] \o c
        BY <2>2
      <3>2. Regroups(Saying(g, t), b, f[x]) /\ Regroups(Saying(g, t), g[x], c)
        BY <2>2, <2>5, Associates, Zenon
      <3> HIDE DEF u, p, P
      <3>3. QED
        BY <3>1, <3>2 DEF Regroups
    <2>7. Saying(f, u) = Saying(g, u) \o c
      BY <2>3, <2>4, <2>6
    <2> HIDE DEF u
    <2>8. u \in P
      BY <2>1, <2>7 DEF c
    <2>9. QED
      BY <2>8 DEF u, x
  <1>3. s \in P
    <2> HIDE DEF P
    <2>1. QED
      BY <1>1, <1>2, ArcByArc
  <1>4. QED
    BY <1>3

(* At the end of a text nothing is pending.                                *)
LEMMA EndedInk ==
    ASSUME NEW F, NEW C, Whole(F, C), NEW s, Legal(s), Place(s).at = "ended"
    PROVE  Saying(Chosen(F, Ink), s) = Saying(Chosen(F, Open), s)
  <1>1. Pending(C, Place(s)) = << >>
    BY DEF Pending, ExpressionPlaces
  <1>2. Saying(Chosen(F, Open), s) \in Seq(Script)
    <2>1. s \in Seq(Symbols)
      BY DEF Legal
    <2>2. QED
      BY <2>1, OpenType, ChosenType, SayingType
  <1>3. Saying(Chosen(F, Open), s) \o << >> = Saying(Chosen(F, Open), s)
    BY <1>2, ConcatEmptySeq
  <1>4. QED
    BY <1>1, <1>3, InkIsOpen

(* The text, and a column's definition and key, are made of whole          *)
(* expressions.                                                            *)
LEMMA WholeParts ==
    /\ Whole(Symbols, Nat)
    /\ \A n : Whole(Defining(n), {n}) /\ Whole(Keying(n), {})
  <1>1. Whole(Symbols, Nat)
    BY DEF Whole, Symbols
  <1>2. \A n : Whole(Defining(n), {n})
    BY DEF Whole, Defining, Defines, Keyed
  <1>3. \A n : Whole(Keying(n), {})
    BY DEF Whole, Keying, Keyed
  <1>4. QED
    BY <1>1, <1>2, <1>3

(* What is put back is what is written.                                    *)
LEMMA PutBack ==
    ASSUME NEW B, Good(B), Len(B) <= Len(Placeholder), NEW s, Legal(s), Covers(B, s),
           Place(s).at = "ended", NEW F, NEW C, Whole(F, C)
    PROVE  /\ Saying(Chosen(F, Sealed(B)), s) \in Seq(Vocab(B))
           /\ K!unmaskOne(Saying(Chosen(F, Sealed(B)), s), B) = Saying(Chosen(F, Ink), s)
  <1>1. s \in Seq(Symbols)
    BY DEF Legal
  <1>2. QED
    BY <1>1, Unmasked, EndedInk

(* The whole text, put back, is what is written: unmask undoes mask.       *)
LEMMA TableBack ==
    ASSUME NEW B, Good(B), Len(B) <= Len(Placeholder), NEW s, Legal(s), Covers(B, s),
           Place(s).at = "ended"
    PROVE  /\ Saying(Sealed(B), s) \in Seq(Vocab(B))
           /\ K!unmaskOne(Saying(Sealed(B), s), B) = [i \in DOMAIN s |-> InQuotes(s[i])]
  <1>1. s \in Seq(Symbols) /\ \A i \in DOMAIN s : s[i] \in Symbols
    BY ElementOfSeq, LenProperties DEF Legal
  <1>2. Saying(Chosen(Symbols, Sealed(B)), s) = Saying(Sealed(B), s)
    <2>1. \A i \in DOMAIN s : Chosen(Symbols, Sealed(B))[s[i]] = Sealed(B)[s[i]]
      BY <1>1 DEF Chosen
    <2>2. QED
      BY <2>1, SayingAlike
  <1>3. Saying(Chosen(Symbols, Ink), s) = [i \in DOMAIN s |-> InQuotes(s[i])]
    <2> DEFINE f == Chosen(Symbols, Ink)
               g == [x \in Symbols |-> InQuotes(x)]
    <2>1. Singly(f, g, s, Script)
      BY <1>1, InQuotesType DEF Singly, Chosen, Ink
    <2>2. [i \in DOMAIN s |-> g[s[i]]] = [i \in DOMAIN s |-> InQuotes(s[i])]
      BY <1>1
    <2> HIDE DEF f, g
    <2>3. Saying(f, s) = [i \in DOMAIN s |-> g[s[i]]]
      BY <1>1, <2>1, SayingSingles
    <2>4. QED
      BY <2>2, <2>3 DEF f
  <1>4. QED
    BY <1>2, <1>3, PutBack, WholeParts

(***************************************************************************)
(* Statements on their way back.                                           *)
(***************************************************************************)
Kinds == {"table", "column", "key"}
Stated(V) == [kind : Kinds, column : Nat, words : Seq(V)]

(* A statement has the parts it is made of.                                *)
LEMMA StatementIs ==
    /\ \A kind, n, words :
          LET s == Statement(kind, n, words)
          IN  s.kind = kind /\ s.column = n /\ s.words = words
    /\ \A V : \A kind \in Kinds, n \in Nat, words \in Seq(V) : Statement(kind, n, words) \in Stated(V)
    /\ \A kind, n, words, more :
          [Statement(kind, n, words) EXCEPT !.words = more] = Statement(kind, n, more)
  BY DEF Statement, Stated

(* The columns from the k-th on, each with its definition, and then the    *)
(* keys of those in R.                                                     *)
Ordered(d, m, k, R, defs, keys) ==
    /\ m <= Len(d)
    /\ \A i \in 1 .. m : d[i] = Statement("column", k + i, defs[i])
    /\ \A i \in m + 1 .. Len(d) : \E j \in R : d[i] = Statement("key", k + j, keys[j])
    /\ \A j \in R : \E i \in m + 1 .. Len(d) : d[i] = Statement("key", k + j, keys[j])

(* The last key of a statement among d.                                    *)
LastKey(d, s, key) == KeysOf(d, s) # {} /\ d[Max(KeysOf(d, s))] = key

(* The last key of a column among such statements is its own.              *)
LEMMA OrderedKeys ==
    ASSUME NEW V, NEW m \in Nat, NEW k \in Nat, NEW R \in SUBSET (1 .. m), NEW defs, NEW keys,
           NEW d \in Seq(Stated(V)), Ordered(d, m, k, R, defs, keys), NEW i \in 1 .. m
    PROVE  /\ i \notin R => KeysOf(d, d[i]) = {}
           /\ i \in R => LastKey(d, d[i], Statement("key", k + i, keys[i]))
  <1> DEFINE S == KeysOf(d, d[i])
  <1>0. DOMAIN d = 1 .. Len(d) /\ Len(d) \in Nat /\ m <= Len(d)
    BY LenProperties DEF Ordered
  <1>1. d[i].column = k + i
    BY StatementIs DEF Ordered
  <1>2. S = {j \in DOMAIN d : d[j].kind = "key" /\ d[j].column = k + i}
    BY <1>1 DEF KeysOf
  <1> HIDE DEF S
  <1>3. ASSUME NEW j \in S PROVE i \in R /\ d[j] = Statement("key", k + i, keys[i])
    <2>1. j \in DOMAIN d /\ d[j].kind = "key" /\ d[j].column = k + i
      BY <1>2
    <2>2. j \notin 1 .. m
      <3>1. ASSUME j \in 1 .. m PROVE FALSE
        <4>1. d[j].kind = "column"
          BY <3>1, StatementIs DEF Ordered
        <4>2. QED
          BY <2>1, <4>1
      <3>2. QED
        BY <3>1
    <2>3. j \in m + 1 .. Len(d)
      BY <1>0, <2>1, <2>2
    <2>4. PICK o \in R : d[j] = Statement("key", k + o, keys[o])
      BY <2>3 DEF Ordered
    <2>5. k + o = k + i
      BY <2>1, <2>4, StatementIs
    <2>6. o = i
      BY <2>5
    <2>7. QED
      BY <2>4, <2>6
  <1>4. ASSUME i \in R PROVE S # {}
    <2>1. PICK j \in m + 1 .. Len(d) : d[j] = Statement("key", k + i, keys[i])
      BY <1>4 DEF Ordered
    <2>2. j \in DOMAIN d
      BY <1>0
    <2>3. d[j].kind = "key" /\ d[j].column = k + i
      BY <2>1, StatementIs
    <2>4. QED
      BY <1>2, <2>2, <2>3
  <1>5. ASSUME S # {} PROVE Max(S) \in S
    <2>1. S \in SUBSET Nat
      BY <1>0, <1>2
    <2>2. IsFiniteSet(S)
      <3>1. IsFiniteSet(DOMAIN d)
        BY <1>0, FS_Interval
      <3>2. S \in SUBSET DOMAIN d
        BY <1>2
      <3>3. QED
        BY <3>1, <3>2, FS_Subset
    <2>3. QED
      BY <1>5, <2>1, <2>2, MaxIs
  <1>6. QED
    BY <1>3, <1>4, <1>5 DEF S, LastKey

(* A column and its key.                                                   *)
Both(R, defs, keys, i) == IF i \in R THEN defs[i] \o keys[i] ELSE defs[i]

(* One statement to a column, with its key.                                *)
OneEach(d, m, k, R, defs, keys) ==
    d = [i \in 1 .. m |-> Statement("column", k + i, Both(R, defs, keys, i))]

(* foldForeignKeysIntoAddColumn gives one statement to a column, with the  *)
(* key behind the definition.                                              *)
LEMMA Folds ==
    ASSUME NEW V, NEW m \in Nat, NEW k \in Nat, NEW R \in SUBSET (1 .. m),
           NEW defs \in [1 .. m -> Seq(V)], NEW keys \in [1 .. m -> Seq(V)],
           NEW d \in Seq(Stated(V)), Ordered(d, m, k, R, defs, keys)
    PROVE  OneEach(foldForeignKeysIntoAddColumn(d), m, k, R, defs, keys)
  <1>a. ASSUME NEW i \in 1 .. m, i \in R
        PROVE  /\ KeysOf(d, d[i]) # {}
               /\ d[Max(KeysOf(d, d[i]))] = Statement("key", k + i, keys[i])
    <2>1. LastKey(d, d[i], Statement("key", k + i, keys[i]))
      BY <1>a, OrderedKeys
    <2>2. QED
      BY <2>1 DEF LastKey
  <1>b. ASSUME NEW i \in 1 .. m, i \notin R PROVE KeysOf(d, d[i]) = {}
    BY <1>b, OrderedKeys
  <1> DEFINE e == [i \in 1 .. m |-> Statement("column", k + i, Both(R, defs, keys, i))]
             Folded(s) == IF KeysOf(d, s) = {} THEN s
                          ELSE [s EXCEPT !.words = @ \o d[Max(KeysOf(d, s))].words]
             g == [i \in DOMAIN d |-> IF d[i].kind = "key" THEN << >> ELSE <<Folded(d[i])>>]
             X == Stated(V)
  <1>0. DOMAIN d = 1 .. Len(d) /\ Len(d) \in Nat /\ m <= Len(d)
    BY LenProperties DEF Ordered
  <1>1. foldForeignKeysIntoAddColumn(d) = FlattenSeq(g)
    BY DEF foldForeignKeysIntoAddColumn
  <1>2. ASSUME NEW i \in 1 .. m PROVE e[i] \in X
    <2>1. Both(R, defs, keys, i) \in Seq(V)
      <3>1. defs[i] \in Seq(V) /\ keys[i] \in Seq(V)
        OBVIOUS
      <3>2. defs[i] \o keys[i] \in Seq(V)
        BY <3>1, ConcatProperties
      <3>3. QED
        BY <3>1, <3>2 DEF Both
    <2>2. k + i \in Nat
      OBVIOUS
    <2>3. QED
      BY <2>1, <2>2, StatementIs DEF Kinds
  <1>3. e \in Seq(X) /\ Len(e) = m
    <2>1. \A i \in 1 .. m : Statement("column", k + i, Both(R, defs, keys, i)) \in X
      BY <1>2
    <2> HIDE DEF X
    <2>2. e \in Seq(X)
      BY <2>1, IsASeq
    <2>3. DOMAIN e = 1 .. m
      OBVIOUS
    <2> HIDE DEF e
    <2>4. QED
      BY <2>2, <2>3, LenProperties
  <1>4. ASSUME NEW i \in 1 .. m PROVE g[i] = <<e[i]>>
    <2>1. d[i] = Statement("column", k + i, defs[i]) /\ i \in DOMAIN d
      BY <1>0 DEF Ordered
    <2>2. d[i].kind = "column" /\ d[i].words = defs[i]
      BY <2>1, StatementIs
    <2>3. Folded(d[i]) = e[i]
      <3>1. CASE i \in R
        <4>1. KeysOf(d, d[i]) # {} /\ d[Max(KeysOf(d, d[i]))] = Statement("key", k + i, keys[i])
          BY <1>a, <3>1
        <4>2. d[Max(KeysOf(d, d[i]))].words = keys[i]
          BY <4>1, StatementIs
        <4>3. Folded(d[i]) = [d[i] EXCEPT !.words = defs[i] \o keys[i]]
          BY <2>2, <4>1, <4>2
        <4> HIDE DEF Folded
        <4>4. Folded(d[i]) = Statement("column", k + i, defs[i] \o keys[i])
          <5>1. \A words, more :
                   [Statement("column", k + i, words) EXCEPT !.words = more]
                      = Statement("column", k + i, more)
            BY StatementIs
          <5> DEFINE w == defs[i] \o keys[i]
          <5> HIDE DEF w
          <5>2. [d[i] EXCEPT !.words = w] = [Statement("column", k + i, defs[i]) EXCEPT !.words = w]
            BY <2>1
          <5>3. [d[i] EXCEPT !.words = w] = Statement("column", k + i, w)
            BY <5>1, <5>2
          <5>4. QED
            BY <4>3, <5>3 DEF w
        <4>5. QED
          BY <3>1, <4>4 DEF Both
      <3>2. CASE i \notin R
        <4>1. KeysOf(d, d[i]) = {}
          BY <1>b, <3>2
        <4>2. Folded(d[i]) = d[i]
          BY <4>1
        <4> HIDE DEF Folded
        <4>3. QED
          BY <2>1, <3>2, <4>2 DEF Both
      <3>3. QED
        BY <3>1, <3>2
    <2> HIDE DEF Folded, e
    <2>4. g[i] = <<Folded(d[i])>>
      BY <2>1, <2>2
    <2>5. QED
      BY <2>3, <2>4
  <1>5. ASSUME NEW i \in 1 .. Len(d), i \notin 1 .. m PROVE g[i] = << >>
    <2>1. i \in m + 1 .. Len(d)
      BY <1>0, <1>5
    <2>2. PICK j \in R : d[i] = Statement("key", k + j, keys[j])
      BY <2>1 DEF Ordered
    <2>3. d[i].kind = "key"
      BY <2>2, StatementIs
    <2>4. QED
      BY <1>0, <2>3
  <1>6. DOMAIN g = 1 .. Len(d)
    BY <1>0
  <1>7. g = [i \in 1 .. Len(d) |-> g[i]]
    BY <1>6
  <1> HIDE DEF g, e, X
  <1>8. g \in Seq(Seq(X)) /\ Len(g) = Len(d)
    <2>1. ASSUME NEW i \in 1 .. Len(d) PROVE g[i] \in Seq(X)
      <3>1. CASE i \in 1 .. m
        <4>1. g[i] = <<e[i]>> /\ e[i] \in X
          BY <1>2, <1>4, <3>1
        <4>2. QED
          BY <4>1
      <3>2. CASE i \notin 1 .. m
        <4>1. g[i] = << >>
          BY <1>5, <3>2
        <4>2. QED
          BY <4>1
      <3>3. QED
        BY <3>1, <3>2
    <2>2. [i \in 1 .. Len(d) |-> g[i]] \in Seq(Seq(X))
      BY <1>0, <2>1, IsASeq
    <2>3. g \in Seq(Seq(X))
      BY <1>7, <2>2
    <2>4. QED
      BY <1>0, <1>6, <2>3, LenProperties
  <1>9. \A i \in 1 .. Len(g) : g[i] = IF i <= Len(e) THEN <<e[i]>> ELSE << >>
    <2>1. ASSUME NEW i \in 1 .. Len(g)
          PROVE  g[i] = IF i <= Len(e) THEN <<e[i]>> ELSE << >>
      <3>1. i \in 1 .. Len(d)
        BY <1>8
      <3>2. CASE i \in 1 .. m
        <4>1. i <= Len(e)
          BY <1>3, <3>2
        <4>2. QED
          BY <1>4, <3>2, <4>1
      <3>3. CASE i \notin 1 .. m
        <4>1. ~(i <= Len(e))
          BY <1>0, <1>3, <3>1, <3>3
        <4>2. QED
          BY <1>5, <3>1, <3>3, <4>1
      <3>4. QED
        BY <3>2, <3>3
    <2>2. QED
      BY <2>1
  <1>10. Len(e) <= Len(g)
    BY <1>0, <1>3, <1>8
  <1>11. FlattenSeq(g) = e
    BY <1>3, <1>8, <1>9, <1>10, FlattenSingles
  <1>12. QED
    BY <1>1, <1>11 DEF e, OneEach

(* unmask changes the words alone: the statements stay in their order.     *)
LEMMA UnmaskOrdered ==
    ASSUME Good(bodies), NEW m \in Nat, NEW k \in Nat, NEW R \in SUBSET (1 .. m), NEW defs, NEW keys,
           NEW d \in Seq(Stated(Vocab(bodies))), Ordered(d, m, k, R, defs, keys)
    PROVE  /\ unmask(d) \in Seq(Stated(Vocab(bodies)))
           /\ Ordered(unmask(d), m, k, R,
                      [i \in 1 .. m |-> K!unmaskOne(defs[i], bodies)],
                      [i \in 1 .. m |-> K!unmaskOne(keys[i], bodies)])
  <1> DEFINE V == Vocab(bodies)
             u == unmask(d)
             defs1 == [i \in 1 .. m |-> K!unmaskOne(defs[i], bodies)]
             keys1 == [i \in 1 .. m |-> K!unmaskOne(keys[i], bodies)]
  <1>0. DOMAIN d = 1 .. Len(d) /\ Len(d) \in Nat /\ m <= Len(d)
    BY LenProperties DEF Ordered
  <1>1. u = [i \in 1 .. Len(d) |-> [d[i] EXCEPT !.words = K!unmaskOne(@, bodies)]]
    BY <1>0 DEF unmask
  <1>2. \A i \in 1 .. Len(d) : u[i] = [d[i] EXCEPT !.words = K!unmaskOne(d[i].words, bodies)]
    BY <1>1
  <1>3. ASSUME NEW i \in 1 .. Len(d) PROVE u[i] \in Stated(V)
    <2>1. d[i] \in Stated(V)
      BY ElementOfSeq
    <2>2. d[i].words \in Seq(V)
      BY <2>1 DEF Stated
    <2>3. K!unmaskOne(d[i].words, bodies) \in Seq(V)
      BY <2>2, UnmaskIs
    <2>4. [d[i] EXCEPT !.words = K!unmaskOne(d[i].words, bodies)] \in Stated(V)
      BY <2>1, <2>3 DEF Stated
    <2>5. QED
      BY <1>2, <2>4
  <1>4. DOMAIN u = 1 .. Len(d)
    BY <1>1
  <1>5. u = [i \in 1 .. Len(d) |-> u[i]]
    BY <1>1, <1>4
  <1> HIDE DEF u, V
  <1>6. u \in Seq(Stated(V)) /\ Len(u) = Len(d)
    <2>1. [i \in 1 .. Len(d) |-> u[i]] \in Seq(Stated(V))
      BY <1>0, <1>3, IsASeq
    <2>2. u \in Seq(Stated(V))
      BY <1>5, <2>1
    <2>3. QED
      BY <1>0, <1>4, <2>2, LenProperties
  <1>7. ASSUME NEW i \in 1 .. Len(d), NEW kind, NEW n, NEW words, d[i] = Statement(kind, n, words)
        PROVE  u[i] = Statement(kind, n, K!unmaskOne(words, bodies))
    <2>1. d[i].words = words
      BY <1>7, StatementIs
    <2>2. u[i] = [Statement(kind, n, words) EXCEPT !.words = K!unmaskOne(words, bodies)]
      BY <1>2, <1>7, <2>1
    <2>3. QED
      BY <2>2, StatementIs
  <1>8. ASSUME NEW i \in 1 .. m PROVE u[i] = Statement("column", k + i, defs1[i])
    <2>1. d[i] = Statement("column", k + i, defs[i]) /\ i \in 1 .. Len(d)
      BY <1>0 DEF Ordered
    <2>2. QED
      BY <1>7, <2>1
  <1>9. ASSUME NEW i \in 1 .. Len(d), NEW j \in R, d[i] = Statement("key", k + j, keys[j])
        PROVE  u[i] = Statement("key", k + j, keys1[j])
    <2>1. u[i] = Statement("key", k + j, K!unmaskOne(keys[j], bodies))
      BY <1>7, <1>9
    <2>2. QED
      BY <2>1
  <1> HIDE DEF defs1, keys1
  <1>10. ASSUME NEW i \in m + 1 .. Len(u)
         PROVE  \E j \in R : u[i] = Statement("key", k + j, keys1[j])
    <2>1. i \in 1 .. Len(d) /\ i \in m + 1 .. Len(d)
      BY <1>0, <1>6
    <2>2. PICK j \in R : d[i] = Statement("key", k + j, keys[j])
      BY <2>1 DEF Ordered
    <2>3. QED
      BY <1>9, <2>1, <2>2
  <1>11. ASSUME NEW j \in R
         PROVE  \E i \in m + 1 .. Len(u) : u[i] = Statement("key", k + j, keys1[j])
    <2>1. PICK i \in m + 1 .. Len(d) : d[i] = Statement("key", k + j, keys[j])
      BY DEF Ordered
    <2>2. i \in 1 .. Len(d) /\ i \in m + 1 .. Len(u)
      BY <1>0, <1>6
    <2>3. QED
      BY <1>9, <2>1, <2>2
  <1>12. Ordered(u, m, k, R, defs1, keys1)
    BY <1>0, <1>6, <1>8, <1>10, <1>11 DEF Ordered
  <1>13. QED
    BY <1>6, <1>12 DEF u, V, defs1, keys1

-----------------------------------------------------------------------------
(***************************************************************************)
(* What sqldef says.                                                       *)
(***************************************************************************)
Defs(B, s, k, m) == [i \in 1 .. m |-> Dense(Saying(Chosen(Defining(k + i), Sealed(B)), s))]
Keys(B, s, k, m) == [i \in 1 .. m |-> Saying(Chosen(Keying(k + i), Sealed(B)), s)]
Referring(s, k, m) == {i \in 1 .. m : References(s, k + i) # {}}

(* What sqldef says of columns and keys are sequences of words.            *)
LEMMA DefsType ==
    ASSUME NEW B, NEW s \in Seq(Symbols), NEW k \in Nat, NEW m \in Nat
    PROVE  /\ Defs(B, s, k, m) \in [1 .. m -> Seq(Vocab(B))]
           /\ Keys(B, s, k, m) \in [1 .. m -> Seq(Vocab(B))]
           /\ Referring(s, k, m) \in SUBSET (1 .. m)
  <1>1. ASSUME NEW F
        PROVE  /\ Saying(Chosen(F, Sealed(B)), s) \in Seq(Vocab(B))
               /\ Dense(Saying(Chosen(F, Sealed(B)), s)) \in Seq(Vocab(B))
    <2>1. Chosen(F, Sealed(B)) \in Sayings(Symbols, Vocab(B))
      BY VocabType, ChosenType
    <2>2. Saying(Chosen(F, Sealed(B)), s) \in Seq(Vocab(B))
      BY <2>1, SayingType
    <2>3. QED
      BY <2>2, DenseIs
  <1>2. QED
    BY <1>1 DEF Defs, Keys, Referring

(* sqldef's statements are the columns, then the keys.                     *)
ColumnsSaid(a, m, k, defs) == a = [i \in 1 .. m |-> Statement("column", k + i, defs[i])]
KeysSaid(g, m, k, R, keys) ==
    g = [i \in 1 .. m |-> IF i \in R THEN <<Statement("key", k + i, keys[i])>> ELSE << >>]

(* sqldef's statements are the definitions and then the keys.              *)
LEMMA ColumnsThenKeys ==
    ASSUME NEW V, NEW m \in Nat, NEW k \in Nat, NEW R \in SUBSET (1 .. m),
           NEW defs \in [1 .. m -> Seq(V)], NEW keys \in [1 .. m -> Seq(V)],
           NEW a, ColumnsSaid(a, m, k, defs), NEW g, KeysSaid(g, m, k, R, keys)
    PROVE  /\ a \o FlattenSeq(g) \in Seq(Stated(V))
           /\ Ordered(a \o FlattenSeq(g), m, k, R, defs, keys)
  <1>a. a = [i \in 1 .. m |-> Statement("column", k + i, defs[i])]
    BY DEF ColumnsSaid
  <1>g. g = [i \in 1 .. m |-> IF i \in R THEN <<Statement("key", k + i, keys[i])>> ELSE << >>]
    BY DEF KeysSaid
  <1> DEFINE X == Stated(V)
             e == FlattenSeq(g)
             d == a \o e
  <1>1. ASSUME NEW i \in 1 .. m
        PROVE  Statement("column", k + i, defs[i]) \in X /\ Statement("key", k + i, keys[i]) \in X
    <2>1. "column" \in Kinds /\ "key" \in Kinds /\ k + i \in Nat
      BY DEF Kinds
    <2>2. defs[i] \in Seq(V) /\ keys[i] \in Seq(V)
      OBVIOUS
    <2>3. Statement("column", k + i, defs[i]) \in X
      BY <2>1, <2>2, StatementIs
    <2>4. Statement("key", k + i, keys[i]) \in X
      BY <2>1, <2>2, StatementIs
    <2>5. QED
      BY <2>3, <2>4
  <1>2. \A i \in 1 .. m :
           (IF i \in R THEN <<Statement("key", k + i, keys[i])>> ELSE << >>) \in Seq(X)
    <2>1. \A x \in X : <<x>> \in Seq(X)
      OBVIOUS
    <2>2. << >> \in Seq(X)
      OBVIOUS
    <2> HIDE DEF X
    <2>3. QED
      BY <1>1, <2>1, <2>2
  <1> HIDE DEF X
  <1>3. a \in Seq(X) /\ Len(a) = m
    <2>1. [i \in 1 .. m |-> Statement("column", k + i, defs[i])] \in Seq(X)
      BY <1>1, IsASeq
    <2>2. DOMAIN a = 1 .. m
      BY <1>a
    <2>3. QED
      BY <1>a, <2>1, <2>2, LenProperties
  <1>4. g \in Seq(Seq(X)) /\ DOMAIN g = 1 .. m
    <2>1. [i \in 1 .. m |-> IF i \in R THEN <<Statement("key", k + i, keys[i])>> ELSE << >>]
             \in Seq(Seq(X))
      BY <1>2, IsASeq
    <2>2. QED
      BY <1>g, <2>1
  <1>5. e \in Seq(X)
    BY <1>4, FlattenType
  <1>6. \A x : Occurs(x, e) <=> \E i \in 1 .. m : Occurs(x, g[i])
    BY <1>4, FlattenHas
  <1>7. \A i \in 1 .. m : \A x : Occurs(x, g[i]) <=> i \in R /\ x = Statement("key", k + i, keys[i])
    <2>1. \A x, y : Occurs(x, <<y>>) <=> x = y
      BY DEF Occurs
    <2>2. \A x : ~Occurs(x, << >>)
      BY DEF Occurs
    <2>3. QED
      BY <1>g, <2>1, <2>2
  <1>8. \A x : Occurs(x, e) <=> \E i \in R : x = Statement("key", k + i, keys[i])
    BY <1>6, <1>7
  <1> HIDE DEF e
  <1>9. /\ d \in Seq(X) /\ Len(d) = m + Len(e)
        /\ \A i \in 1 .. m + Len(e) : d[i] = IF i <= m THEN a[i] ELSE e[i - m]
    BY <1>3, <1>5, ConcatProperties
  <1>10. DOMAIN e = 1 .. Len(e) /\ Len(e) \in Nat
    BY <1>5, LenProperties
  <1> HIDE DEF d
  <1>11. m <= Len(d)
    BY <1>9, <1>10
  <1>12. ASSUME NEW i \in 1 .. m PROVE d[i] = Statement("column", k + i, defs[i])
    <2>1. i \in 1 .. m + Len(e) /\ i <= m
      BY <1>10
    <2>2. d[i] = a[i]
      BY <1>9, <2>1
    <2>3. QED
      BY <1>a, <2>2
  <1>13. ASSUME NEW i \in m + 1 .. Len(d)
         PROVE  \E j \in R : d[i] = Statement("key", k + j, keys[j])
    <2>1. i \in 1 .. m + Len(e) /\ ~(i <= m) /\ i - m \in DOMAIN e
      BY <1>9, <1>10
    <2>2. d[i] = e[i - m]
      BY <1>9, <2>1
    <2>3. Occurs(d[i], e)
      BY <2>1, <2>2 DEF Occurs
    <2>4. QED
      BY <1>8, <2>3
  <1>14. ASSUME NEW j \in R
         PROVE  \E i \in m + 1 .. Len(d) : d[i] = Statement("key", k + j, keys[j])
    <2>1. Occurs(Statement("key", k + j, keys[j]), e)
      BY <1>8
    <2>2. PICK n \in DOMAIN e : e[n] = Statement("key", k + j, keys[j])
      BY <2>1 DEF Occurs
    <2>3. m + n \in 1 .. m + Len(e) /\ m + n \in m + 1 .. Len(d) /\ ~(m + n <= m) /\ (m + n) - m = n
      BY <1>9, <1>10
    <2>4. d[m + n] = e[n]
      BY <1>9, <2>3
    <2>5. QED
      BY <2>2, <2>3, <2>4
  <1>15. Ordered(d, m, k, R, defs, keys)
    BY <1>11, <1>12, <1>13, <1>14 DEF Ordered
  <1>16. QED
    BY <1>9, <1>15 DEF d, e, X

(* The words of a column, back in their places.                            *)
LEMMA NoKey ==
    ASSUME NEW s, Legal(s), NEW n \in Nat \ {0}, References(s, n) = {}
    PROVE  Saying(Chosen(Keying(n), Ink), s) = << >>
  <1>1. s \in Seq(Symbols) /\ \A i \in DOMAIN s : s[i] \in Symbols /\ KeyOpens(s, s[i])
    BY KeysReference, ElementOfSeq, LenProperties DEF Legal
  <1>2. \A i \in DOMAIN s : s[i] \notin Keying(n)
    BY <1>1 DEF Keying, KeyOpens, InKey
  <1>3. \A i \in DOMAIN s : Chosen(Keying(n), Ink)[s[i]] = << >>
    BY <1>1, <1>2 DEF Chosen
  <1>4. QED
    BY <1>1, <1>3, SayingSilent

(* A column's definition and key, put back and less space, are the         *)
(* column's words.                                                         *)
LEMMA WordsBack ==
    ASSUME NEW B, Good(B), Len(B) <= Len(Placeholder), NEW s, Legal(s), Covers(B, s),
           Place(s).at = "ended", NEW n \in Nat \ {0}
    PROVE  LET def == K!unmaskOne(Dense(Saying(Chosen(Defining(n), Sealed(B)), s)), B)
               key == K!unmaskOne(Saying(Chosen(Keying(n), Sealed(B)), s), B)
           IN  /\ Dense(def \o key) = Dense(Plain(s, n))
               /\ References(s, n) = {} => Dense(def) = Dense(Plain(s, n))
  <1> DEFINE V == Vocab(B)
             a == Saying(Chosen(Defining(n), Sealed(B)), s)
             b == Saying(Chosen(Keying(n), Sealed(B)), s)
             def == K!unmaskOne(Dense(a), B)
             key == K!unmaskOne(b, B)
             p == Saying(Chosen(Defining(n), Ink), s)
             q == Saying(Chosen(Keying(n), Ink), s)
  <1>1. a \in Seq(V) /\ K!unmaskOne(a, B) = p
    BY PutBack, WholeParts
  <1>2. b \in Seq(V) /\ key = q
    BY PutBack, WholeParts
  <1>3. Plain(s, n) = p \o q
    <2>1. s \in Seq(Symbols)
      BY DEF Legal
    <2>2. QED
      BY <2>1, PlainIs
  <1>4. References(s, n) = {} => q = << >>
    BY NoKey
  <1> HIDE DEF a, b, p, q
  <1>5. Dense(a) \in Seq(V)
    BY <1>1, DenseIs
  <1>6. def \in Seq(V) /\ key \in Seq(V) /\ p \in Seq(V)
    BY <1>1, <1>2, <1>5, UnmaskIs
  <1>7. Dense(def) = Dense(p)
    BY <1>1, DenseAgain
  <1> HIDE DEF def, key, V
  <1>8. Dense(def \o key) = Dense(def) \o Dense(key)
    BY <1>6, DenseBoth
  <1>9. Dense(p \o q) = Dense(p) \o Dense(q)
    BY <1>2, <1>6, DenseBoth
  <1>10. Dense(def \o key) = Dense(Plain(s, n))
    BY <1>2, <1>3, <1>7, <1>8, <1>9
  <1>11. ASSUME References(s, n) = {} PROVE Dense(def) = Dense(Plain(s, n))
    <2>1. p \o << >> = p
      BY <1>6, ConcatEmptySeq
    <2>2. QED
      BY <1>3, <1>4, <1>7, <1>11, <2>1
  <1>12. QED
    BY <1>10, <1>11 DEF def, key, a, b

-----------------------------------------------------------------------------
(***************************************************************************)
(* The way back.                                                           *)
(***************************************************************************)
(* What Answer leaves in ddls, and what Restore does.                      *)
Told(d, B, s, k) ==
    IF k = 0 THEN d = <<Statement("table", 0, Saying(Sealed(B), s))>>
    ELSE LET m == Width(s) - k
         IN  /\ d \in Seq(Stated(Vocab(B)))
             /\ Ordered(d, m, k, Referring(s, k, m), Defs(B, s, k, m), Keys(B, s, k, m))

Unspaced(d) == [i \in DOMAIN d |-> [d[i] EXCEPT !.words = Dense(@)]]

Finished(d, s, k) ==
    /\ \A i \in DOMAIN d : d[i].kind \in Kinds
    /\ Unspaced(d) =
          IF k = 0
          THEN <<Statement("table", 0, Dense([i \in DOMAIN s |-> InQuotes(s[i])]))>>
          ELSE [i \in 1 .. Width(s) - k |-> Statement("column", k + i, Dense(Plain(s, k + i)))]

DdlInv ==
    /\ pc \in {"write", "diff", "ask", "refused"} => ddls = << >>
    /\ pc = "answer" => Told(ddls, bodies, text["after"], old)
    /\ pc = "done" => Finished(ddls, text["after"], old)

(* A text that has ended.                                                  *)
Final(s, B, k) ==
    /\ Legal(s) /\ Place(s).at = "ended" /\ Good(B) /\ Len(B) <= Len(Placeholder) /\ Covers(B, s)
    /\ k \in Nat /\ Width(s) \in Nat /\ k < Width(s)

(* Behind Ask the text has ended, and each of its rejected expressions has *)
(* a placeholder.                                                          *)
LEMMA SentIsFinal ==
    ASSUME SendInv, pc \notin {"write", "diff"}
    PROVE  Final(text["after"], bodies, old)
  <1> DEFINE s == text["after"]
  <1>1. /\ Legal(s) /\ left \in 0 .. Budget /\ Paid(s, left) /\ old \in 0 .. Budget
        /\ Place(s).at = "ended" /\ old < Width(s)
    BY DEF SendInv, TextAsWritten
  <1>2. Good(bodies) /\ Len(bodies) <= Budget /\ Covers(bodies, s)
    BY DEF SendInv, SentAsSealed
  <1>3. Len(bodies) <= Len(Placeholder)
    <2>1. Len(bodies) \in Nat /\ Len(Placeholder) \in Nat
      BY <1>2, LenProperties, PlaceholdersAreNew DEF Good
    <2>2. QED
      BY <1>2, <2>1, PlaceholdersAreNew, BudgetIsNat
  <1> HIDE DEF s
  <1>4. Width(s) \in Nat
    <2>1. s \in Seq(Symbols)
      BY <1>1 DEF Legal
    <2>2. Width(s) \in 0 .. Budget + 1
      BY <1>1, <2>1, WidthPaid
    <2>3. QED
      BY <2>2
  <1>5. old \in Nat
    BY <1>1
  <1>6. QED
    BY <1>1, <1>2, <1>3, <1>4, <1>5 DEF Final, s

(* What Answer leaves in ddls.                                             *)
LEMMA Answered ==
    ASSUME SendInv, Answer
    PROVE  Told(ddls', bodies, text["after"], old)
  <1> DEFINE s == text["after"]
             columns == [i \in 1 .. Fresh |-> Statement("column", old + i, DefinitionOf(s, old + i))]
             keys == [i \in 1 .. Fresh |->
                        IF References(s, old + i) = {} THEN << >>
                        ELSE <<Statement("key", old + i, KeyOf(s, old + i))>>]
  <1>0. pc = "ask" /\ Final(s, bodies, old)
    BY SentIsFinal DEF Answer
  <1>1. s \in Seq(Symbols) /\ old \in Nat /\ Width(s) \in Nat /\ old < Width(s)
    BY <1>0 DEF Final, Legal
  <1>2. ddls' = IF old = 0 THEN <<Statement("table", 0, sent["after"])>> ELSE columns \o FlattenSeq(keys)
    BY DEF Answer
  <1>3. CASE old = 0
    <2>1. sent["after"] = Saying(Sealed(bodies), s)
      BY <1>0 DEF SendInv, SentAsSealed
    <2>2. QED
      BY <1>2, <1>3, <2>1 DEF Told
  <1>4. CASE old # 0
    <2> DEFINE V == Vocab(bodies)
               m == Width(s) - old
               R == Referring(s, old, m)
               defs == Defs(bodies, s, old, m)
               kept == Keys(bodies, s, old, m)
    <2>1. Fresh = m /\ m \in Nat
      BY <1>1 DEF Fresh
    <2>2. ASSUME NEW i \in 1 .. m
          PROVE  /\ DefinitionOf(s, old + i) = defs[i] /\ KeyOf(s, old + i) = kept[i]
                 /\ i \in R <=> References(s, old + i) # {}
      BY <1>1, DefinitionIs, KeyIs DEF Defs, Keys, Referring
    <2> HIDE DEF m, R, defs, kept, s
    <2>3. ColumnsSaid(columns, m, old, defs)
      BY <2>1, <2>2 DEF ColumnsSaid
    <2>4. KeysSaid(keys, m, old, R, kept)
      BY <2>1, <2>2 DEF KeysSaid
    <2>5. R \in SUBSET (1 .. m) /\ defs \in [1 .. m -> Seq(V)] /\ kept \in [1 .. m -> Seq(V)]
      BY <1>1, <2>1, DefsType DEF R, defs, kept
    <2> HIDE DEF columns, keys, V
    <2>6. /\ columns \o FlattenSeq(keys) \in Seq(Stated(V))
          /\ Ordered(columns \o FlattenSeq(keys), m, old, R, defs, kept)
      <3>1. m \in Nat /\ old \in Nat
        BY <1>1, <2>1
      <3>2. QED
        BY <2>3, <2>4, <2>5, <3>1, ColumnsThenKeys
    <2>7. QED
      BY <1>2, <1>4, <2>6 DEF Told, m, R, defs, kept, s, V
  <1>5. QED
    BY <1>3, <1>4

(* Restore gives each new column its own words.                            *)
LEMMA ColumnsRestored ==
    ASSUME NEW s, NEW k, Final(s, bodies, k), k # 0, NEW d, Told(d, bodies, s, k)
    PROVE  Finished(foldForeignKeysIntoAddColumn(unmask(d)), s, k)
  <1> DEFINE V == Vocab(bodies)
             m == Width(s) - k
             R == Referring(s, k, m)
             defs == Defs(bodies, s, k, m)
             keys == Keys(bodies, s, k, m)
             defs1 == [i \in 1 .. m |-> K!unmaskOne(defs[i], bodies)]
             keys1 == [i \in 1 .. m |-> K!unmaskOne(keys[i], bodies)]
             u == unmask(d)
             r == foldForeignKeysIntoAddColumn(u)
             words(i) == Both(R, defs1, keys1, i)
  <1>0. /\ Legal(s) /\ s \in Seq(Symbols) /\ Place(s).at = "ended" /\ Good(bodies)
        /\ Len(bodies) <= Len(Placeholder) /\ Covers(bodies, s) /\ k \in Nat /\ m \in Nat
    BY DEF Final, Legal
  <1>1. d \in Seq(Stated(V)) /\ Ordered(d, m, k, R, defs, keys)
    BY DEF Told
  <1>2. R \in SUBSET (1 .. m) /\ defs \in [1 .. m -> Seq(V)] /\ keys \in [1 .. m -> Seq(V)]
    BY <1>0, DefsType
  <1>3. ASSUME NEW i \in 1 .. m PROVE Dense(words(i)) = Dense(Plain(s, k + i))
    <2>1. /\ defs[i] = Dense(Saying(Chosen(Defining(k + i), Sealed(bodies)), s))
          /\ keys[i] = Saying(Chosen(Keying(k + i), Sealed(bodies)), s)
          /\ i \in R <=> References(s, k + i) # {}
      BY DEF Defs, Keys, Referring
    <2>2. k + i \in Nat \ {0}
      BY <1>0
    <2> HIDE DEF defs, keys, R, m
    <2>3. /\ Dense(K!unmaskOne(defs[i], bodies) \o K!unmaskOne(keys[i], bodies)) = Dense(Plain(s, k + i))
          /\ i \notin R => Dense(K!unmaskOne(defs[i], bodies)) = Dense(Plain(s, k + i))
      BY <1>0, <2>1, <2>2, WordsBack
    <2>4. QED
      BY <2>3 DEF Both
  <1> HIDE DEF V, m, R, defs, keys
  <1>4. ASSUME NEW i \in 1 .. m PROVE defs1[i] \in Seq(V) /\ keys1[i] \in Seq(V)
    <2>1. defs[i] \in Seq(V) /\ keys[i] \in Seq(V)
      BY <1>2
    <2>2. K!unmaskOne(defs[i], bodies) \in Seq(V)
      BY <1>0, <2>1, UnmaskIs DEF V
    <2>3. K!unmaskOne(keys[i], bodies) \in Seq(V)
      BY <1>0, <2>1, UnmaskIs DEF V
    <2>4. QED
      BY <2>2, <2>3
  <1>5. defs1 \in [1 .. m -> Seq(V)] /\ keys1 \in [1 .. m -> Seq(V)]
    BY <1>4
  <1> HIDE DEF u
  <1>6. u \in Seq(Stated(V)) /\ Ordered(u, m, k, R, defs1, keys1)
    <2>1. m \in Nat /\ k \in Nat /\ R \in SUBSET (1 .. m) /\ Good(bodies)
      BY <1>0, <1>2
    <2>2. d \in Seq(Stated(Vocab(bodies))) /\ Ordered(d, m, k, R, defs, keys)
      BY <1>1 DEF V
    <2>3. unmask(d) \in Seq(Stated(Vocab(bodies))) /\ Ordered(unmask(d), m, k, R, defs1, keys1)
      BY <2>1, <2>2, UnmaskOrdered
    <2>4. QED
      BY <2>3 DEF u, V
  <1> HIDE DEF defs1, keys1
  <1>7. r = [i \in 1 .. m |-> Statement("column", k + i, words(i))]
    <2>1. m \in Nat /\ k \in Nat /\ R \in SUBSET (1 .. m)
      BY <1>0, <1>2
    <2>2. OneEach(foldForeignKeysIntoAddColumn(u), m, k, R, defs1, keys1)
      BY <1>5, <1>6, <2>1, Folds
    <2>3. QED
      BY <2>2 DEF OneEach
  <1> HIDE DEF r, words
  <1>8. DOMAIN r = 1 .. m /\ \A i \in 1 .. m : r[i] = Statement("column", k + i, words(i))
    BY <1>7
  <1>9. \A i \in DOMAIN r : r[i].kind \in Kinds
    BY <1>8, StatementIs DEF Kinds
  <1>10. ASSUME NEW i \in 1 .. m
         PROVE  [r[i] EXCEPT !.words = Dense(@)] = Statement("column", k + i, Dense(Plain(s, k + i)))
    <2>1. r[i].words = words(i)
      BY <1>8, StatementIs
    <2>2. [r[i] EXCEPT !.words = Dense(@)]
             = [Statement("column", k + i, words(i)) EXCEPT !.words = Dense(Plain(s, k + i))]
      BY <1>3, <1>8, <2>1
    <2>3. QED
      BY <2>2, StatementIs
  <1>11. Unspaced(r) = [i \in 1 .. m |-> Statement("column", k + i, Dense(Plain(s, k + i)))]
    BY <1>8, <1>10 DEF Unspaced
  <1>12. QED
    BY <1>9, <1>11 DEF Finished, r, u, m

(* Restore gives a new table its own words.                                *)
LEMMA TableRestored ==
    ASSUME NEW s, Final(s, bodies, 0), NEW d, Told(d, bodies, s, 0)
    PROVE  Finished(foldForeignKeysIntoAddColumn(unmask(d)), s, 0)
  <1> DEFINE w == Saying(Sealed(bodies), s)
             v == K!unmaskOne(w, bodies)
             t == Statement("table", 0, v)
             u == unmask(d)
             g == [i \in DOMAIN <<t>> |->
                     IF <<t>>[i].kind = "key" THEN << >> ELSE <<t>>]
  <1>1. d = <<Statement("table", 0, w)>>
    BY DEF Told
  <1>2. v = [i \in DOMAIN s |-> InQuotes(s[i])]
    BY TableBack DEF Final
  <1> HIDE DEF v, w
  <1>3. u = <<t>>
    <2>1. d[1] = Statement("table", 0, w) /\ DOMAIN d = {1}
      BY <1>1
    <2>2. d[1].words = w
      BY <2>1, StatementIs
    <2>3. [d[1] EXCEPT !.words = K!unmaskOne(@, bodies)] = [Statement("table", 0, w) EXCEPT !.words = v]
      BY <2>1, <2>2 DEF v
    <2>4. [Statement("table", 0, w) EXCEPT !.words = v] = t
      BY StatementIs
    <2>5. u = [i \in {1} |-> [d[i] EXCEPT !.words = K!unmaskOne(@, bodies)]]
      BY <2>1 DEF unmask
    <2>6. u = [i \in {1} |-> t]
      BY <2>3, <2>4, <2>5
    <2>7. [i \in {1} |-> t] = <<t>>
      OBVIOUS
    <2>8. QED
      BY <2>6, <2>7
  <1>4. t.kind = "table" /\ t.words = v
    BY StatementIs
  <1> HIDE DEF u, t
  <1>5. KeysOf(<<t>>, t) = {}
    BY <1>4 DEF KeysOf
  <1>6. foldForeignKeysIntoAddColumn(<<t>>) = FlattenSeq(<<<<t>>>>)
    <2> DEFINE f == [i \in DOMAIN <<t>> |->
                       IF <<t>>[i].kind = "key" THEN << >>
                       ELSE <<IF KeysOf(<<t>>, <<t>>[i]) = {} THEN <<t>>[i]
                              ELSE [<<t>>[i] EXCEPT !.words =
                                      @ \o <<t>>[Max(KeysOf(<<t>>, <<t>>[i]))].words]>>]
    <2>1. f = <<<<t>>>>
      <3>1. DOMAIN <<t>> = {1} /\ <<t>>[1] = t
        OBVIOUS
      <3>2. DOMAIN f = {1}
        BY <3>1
      <3>3. f[1] = <<t>>
        BY <1>4, <1>5, <3>1
      <3>4. f = [i \in {1} |-> f[i]]
        BY <3>2
      <3> HIDE DEF f
      <3>5. f = [i \in {1} |-> <<t>>]
        BY <3>3, <3>4
      <3>6. QED
        BY <3>5
    <2>2. foldForeignKeysIntoAddColumn(<<t>>) = FlattenSeq(f)
      BY DEF foldForeignKeysIntoAddColumn
    <2>3. QED
      BY <2>1, <2>2
  <1>7. FlattenSeq(<<<<t>>>>) = <<t>>
    <2>1. /\ << >> \in Seq(Seq({t})) /\ <<t>> \in Seq({t})
          /\ Append(<< >>, <<t>>) = <<<<t>>>> /\ << >> \o <<t>> = <<t>>
      OBVIOUS
    <2>2. FlattenSeq(Append(<< >>, <<t>>)) = FlattenSeq(<< >>) \o <<t>>
      BY <2>1, FlattenMore
    <2>3. QED
      BY <2>1, <2>2, FlattenNone
  <1>8. foldForeignKeysIntoAddColumn(u) = <<t>>
    BY <1>3, <1>6, <1>7
  <1>9. Unspaced(<<t>>) = <<Statement("table", 0, Dense(v))>>
    <2>1. [t EXCEPT !.words = Dense(@)] = Statement("table", 0, Dense(v))
      <3>1. [t EXCEPT !.words = Dense(@)] = [Statement("table", 0, v) EXCEPT !.words = Dense(v)]
        BY <1>4 DEF t
      <3>2. QED
        BY <3>1, StatementIs
    <2>2. Unspaced(<<t>>) = <<[t EXCEPT !.words = Dense(@)]>>
      BY DEF Unspaced
    <2>3. QED
      BY <2>1, <2>2
  <1>10. \A i \in DOMAIN <<t>> : <<t>>[i].kind \in Kinds
    BY <1>4 DEF Kinds
  <1>11. QED
    BY <1>2, <1>8, <1>9, <1>10 DEF Finished, u

(* DdlInv is preserved, beside SendInv.                                    *)
LEMMA NextTells ==
    ASSUME SendInv, DdlInv, [Next]_vars
    PROVE  DdlInv'
  <1>1. CASE Write \/ Start \/ Ask \/ Refuse
    <2>1. pc' \in {"write", "diff", "ask", "refused"} /\ ddls = << >> /\ ddls' = ddls
      BY <1>1 DEF DdlInv, Write, Start, Ask, Refuse
    <2>2. QED
      BY <2>1 DEF DdlInv
  <1>2. CASE Answer
    <2>1. pc' = "answer" /\ bodies' = bodies /\ text' = text /\ old' = old
      BY <1>2 DEF Answer
    <2>2. Told(ddls', bodies, text["after"], old)
      BY <1>2, Answered
    <2>3. Told(ddls', bodies', text'["after"], old')
      BY <2>1, <2>2
    <2>4. QED
      BY <2>1, <2>3 DEF DdlInv
  <1>3. CASE Restore
    <2>1. /\ pc = "answer" /\ pc' = "done" /\ text' = text /\ old' = old
          /\ ddls' = foldForeignKeysIntoAddColumn(unmask(ddls))
      BY <1>3 DEF Restore
    <2>2. Final(text["after"], bodies, old) /\ Told(ddls, bodies, text["after"], old)
      BY <2>1, SentIsFinal DEF DdlInv
    <2> DEFINE s == text["after"]
    <2> HIDE DEF s
    <2>3. Finished(foldForeignKeysIntoAddColumn(unmask(ddls)), s, old)
      <3>1. CASE old = 0
        <4>1. Final(s, bodies, 0) /\ Told(ddls, bodies, s, 0)
          BY <2>2, <3>1 DEF s
        <4>2. Finished(foldForeignKeysIntoAddColumn(unmask(ddls)), s, 0)
          BY <4>1, TableRestored
        <4>3. QED
          BY <3>1, <4>2
      <3>2. CASE old # 0
        <4>1. Final(s, bodies, old) /\ Told(ddls, bodies, s, old)
          BY <2>2 DEF s
        <4>2. QED
          BY <3>2, <4>1, ColumnsRestored
      <3>3. QED
        BY <3>1, <3>2
    <2>4. Finished(ddls', text'["after"], old')
      BY <2>1, <2>3 DEF s
    <2>5. QED
      BY <2>1, <2>4 DEF DdlInv
  <1>4. CASE UNCHANGED vars
    BY <1>4 DEF DdlInv, vars
  <1>5. QED
    BY <1>1, <1>2, <1>3, <1>4 DEF Next, Ended

SqldefInv == SendInv /\ DdlInv

(* The inductive invariant of Sqldef: SendInv, and what the statements     *)
(* hold on their way back (DdlInv), for every Budget and whatever names    *)
(* the masker mints, as long as no text contains them.                     *)
THEOREM AlwaysInv == Spec => []SqldefInv
  <1>1. Init => SqldefInv
    BY InitSends DEF SqldefInv, DdlInv, Init
  <1>2. SqldefInv /\ [Next]_vars => SqldefInv'
    BY NextSends, NextTells DEF SqldefInv
  <1>3. QED
    BY <1>1, <1>2, PTL DEF Spec

(* What Diff returns says what the schema says, space aside: each new      *)
(* column with its own expressions and its foreign key, the key last, and  *)
(* no statement SQLite lacks (unmask, foldForeignKeysIntoAddColumn), for   *)
(* tables of every size.                                                   *)
THEOREM DiffAddsAsWritten == Spec => []AddedAsWritten
  <1>1. SqldefInv => AddedAsWritten
    <2>1. ASSUME SqldefInv, pc = "done" PROVE Finished(ddls, text["after"], old)
      BY <2>1 DEF SqldefInv, DdlInv
    <2>2. QED
      BY <2>1 DEF AddedAsWritten, Finished, Unspaced, Fresh
  <1>2. QED
    BY <1>1, AlwaysInv, PTL

(* A text with parts left out holds nothing new.                           *)
LEMMA PartsWithin ==
    ASSUME NEW s, NEW t, Parts(s, t), NEW x, Occurs(x, t)
    PROVE  Occurs(x, s)
  <1>1. PICK a \in Seq(Symbols), b \in Seq(Symbols), c \in Seq(Symbols) : s = (a \o b) \o c /\ t = a \o c
    BY DEF Parts
  <1> DEFINE ab == a \o b
  <1>2. ab \in Seq(Symbols)
    BY ConcatProperties
  <1>3. Occurs(x, t) <=> Occurs(x, a) \/ Occurs(x, c)
    BY <1>1, WithinBoth
  <1>4. Occurs(x, ab) <=> Occurs(x, a) \/ Occurs(x, b)
    BY WithinBoth
  <1> HIDE DEF ab
  <1>5. Occurs(x, ab \o c) <=> Occurs(x, ab) \/ Occurs(x, c)
    BY <1>2, WithinBoth
  <1>6. QED
    BY <1>1, <1>3, <1>4, <1>5 DEF ab

(* The symbols of both texts are of the grammar, and their columns within  *)
(* Budget + 1.                                                             *)
LEMMA SymbolsWithin ==
    ASSUME SendInv, NEW side \in Sides, NEW i \in DOMAIN text[side]
    PROVE  text[side][i].word \in Words /\ text[side][i].column \in 0 .. Budget + 1
  <1> DEFINE s == text["after"]
             t == text["before"]
             x == text[side][i]
  <1>1. /\ s \in Seq(Symbols) /\ Legal(s) /\ left \in 0 .. Budget
        /\ Paid(s, left) /\ old \in Nat /\ t = Without(s, old)
    BY DEF SendInv, TextAsWritten, Sides
  <1>2. Occurs(x, s)
    <2>1. CASE side = "after"
      BY <2>1 DEF Occurs
    <2>2. CASE side = "before"
      <3>1. Occurs(x, t)
        BY <2>2 DEF Occurs
      <3> HIDE DEF s, t, x
      <3>2. Parts(s, t)
        BY <1>1, WithoutText
      <3>3. QED
        BY <3>1, <3>2, PartsWithin
    <2>3. QED
      BY <2>1, <2>2 DEF Sides
  <1> HIDE DEF s, t, x
  <1>3. PICK j \in DOMAIN s : s[j] = x
    BY <1>2 DEF Occurs
  <1>4. s[j] \in Symbols
    BY <1>1, ElementOfSeq, LenProperties
  <1>5. x.word \in Words /\ x.column \in Nat
    BY <1>3, <1>4 DEF Symbols
  <1>6. x.column + left <= Budget + 1
    BY <1>1, <1>3 DEF Paid
  <1>7. x.column \in 0 .. Budget + 1
    BY <1>1, <1>5, <1>6, BudgetIsNat
  <1>8. QED
    BY <1>5, <1>7 DEF x

(* The masker's bodies are distinct, rejected by sqldef's parser and at    *)
(* most Budget.                                                            *)
LEMMA BodiesWithin ==
    ASSUME SendInv
    PROVE  /\ Len(bodies) <= Budget /\ IsInjective(bodies)
           /\ \A i \in DOMAIN bodies : K!sqldefRejectsExpression(bodies[i])
  <1>1. Good(bodies) /\ Len(bodies) <= Budget
    <2>1. CASE bodies = << >>
      <3>1. Len(<< >>) = 0
        OBVIOUS
      <3>2. QED
        BY <2>1, <3>1, NoneIsGood, BudgetIsNat
    <2>2. CASE bodies # << >>
      BY <2>2 DEF SendInv, SentAsSealed
    <2>3. QED
      BY <2>1, <2>2
  <1>2. QED
    BY <1>1 DEF Good

(* sqldef's statements are of the three kinds.                             *)
LEMMA KindsWithin ==
    ASSUME SendInv, DdlInv
    PROVE  \A i \in DOMAIN ddls : ddls[i].kind \in {"table", "column", "key"}
  <1>1. CASE ddls = << >>
    BY <1>1
  <1>2. CASE pc = "answer"
    <2>1. Told(ddls, bodies, text["after"], old)
      BY <1>2 DEF DdlInv
    <2>2. CASE old = 0
      <3> DEFINE w == Saying(Sealed(bodies), text["after"])
      <3>1. ddls = <<Statement("table", 0, w)>>
        BY <2>1, <2>2 DEF Told
      <3>2. Statement("table", 0, w).kind = "table"
        BY StatementIs
      <3> HIDE DEF w
      <3>3. QED
        BY <3>1, <3>2
    <2>3. CASE old # 0
      <3> DEFINE V == Vocab(bodies)
      <3>1. ddls \in Seq(Stated(V))
        BY <2>1, <2>3 DEF Told
      <3> HIDE DEF V
      <3>2. \A i \in DOMAIN ddls : ddls[i] \in Stated(V)
        BY <3>1, ElementOfSeq, LenProperties
      <3>3. QED
        BY <3>2 DEF Stated, Kinds
    <2>4. QED
      BY <2>2, <2>3
  <1>3. CASE pc = "done"
    <2>1. Finished(ddls, text["after"], old)
      BY <1>3 DEF DdlInv
    <2>2. QED
      BY <2>1 DEF Finished, Kinds
  <1>4. QED
    BY <1>1, <1>2, <1>3 DEF DdlInv, SendInv, TextAsWritten, Stages

(* Every variable holds what its declaration says: no text costs more than *)
(* Budget, so there are placeholders enough.                               *)
THEOREM TypeCorrect == Spec => []TypeOK
  <1>1. SqldefInv => TypeOK
    <2> SUFFICES ASSUME SqldefInv PROVE TypeOK
      OBVIOUS
    <2>1. SendInv /\ DdlInv
      BY DEF SqldefInv
    <2>2. /\ pc \in {"write", "diff", "ask", "answer", "done", "refused"}
          /\ left \in 0 .. Budget /\ old \in 0 .. Budget
      BY <2>1 DEF SendInv, TextAsWritten, Stages
    <2>3. QED
      BY <2>1, <2>2, SymbolsWithin, BodiesWithin, KindsWithin DEF TypeOK
  <1>2. QED
    BY <1>1, AlwaysInv, PTL
===============================================================================
