------------------------------ MODULE Renames ------------------------------
(***************************************************************************)
(* How generate tells a rename from a drop and an add: Detect proposes     *)
(* pairs of names, Confirm asks about each on a terminal or a pipe, the    *)
(* confirmed ones are replayed on the journal's schema, a second pass asks *)
(* about the columns of renamed tables, and Classify gates what is still   *)
(* missing.  The rest of the body is module Body's.                        *)
(*                                                                         *)
(* Every column carries the name it had in the journal's schema ("of"), so *)
(* that the model can say where its data went.                             *)
(***************************************************************************)
EXTENDS Integers, FiniteSets, Sequences, Folds

CONSTANTS
    Tables,      \* names of tables, as numbers in their sorting order
    Columns,     \* names of columns, as numbers in their sorting order
    Types,
    Similarity,  \* nameSimilarity of two names, in tenths
    NoTable,
    NoColumn,
    Edits,       \* a journal's schema, the schema.sql to reach, and the names
                 \* that views and indexes of the journal have
    Modes,       \* the --assume-* flags given: a set of sets of them
    MaxLines     \* bound: lines the user types

(* A hidden column is a generated one: PRAGMA table_info does not list it. *)
ColumnDefs ==
    [type : Types, at : Nat, hidden : BOOLEAN, of : Tables \X Columns]
TableDefs == [Columns -> ColumnDefs \cup {NoColumn}]
Schemas == [Tables -> TableDefs \cup {NoTable}]

ASSUME NamesAssumption ==
    /\ Tables \subseteq Nat /\ Columns \subseteq Nat
    /\ IsFiniteSet(Tables) /\ IsFiniteSet(Columns)
    /\ NoTable \notin TableDefs /\ NoColumn \notin ColumnDefs
ASSUME EditsAssumption ==
    \A e \in Edits :
        /\ e.from \in Schemas /\ e.want \in Schemas /\ e.taken \subseteq Tables
        /\ \A t \in Tables, c \in Columns :
              e.from[t] # NoTable /\ e.from[t][c] # NoColumn
              => e.from[t][c].of = <<t, c>>
ASSUME SimilarityAssumption == \A p \in Tables \X Tables \cup Columns \X Columns :
    Similarity[p] \in 0 .. 10
ASSUME ModesAssumption == Modes \subseteq SUBSET {"renames", "noRenames"}
ASSUME MaxLinesAssumption == MaxLines \in Nat

VARIABLES
    from,      \* the schema of the journal
    want,      \* the schema of schema.sql
    taken,     \* names in use that are no table's
    mode,      \* the --assume-* flags
    allow,     \* --allow-destructive
    pc,
    now,       \* the journal's schema with the renames replayed so far
    pass,      \* 1, or 2 when the columns of renamed tables are resolved
    pending,   \* candidates to be confirmed
    script,    \* confirmed renames of this pass, still to be replayed
    renamed,   \* tables that exist by a confirmed rename
    asked,     \* the candidates resolved so far, and how
    typed,     \* what the user has typed
    buffer,    \* lines the reader has taken in and not yet given out
    closed     \* the input has ended

input == <<typed, buffer, closed>>
fixed == <<from, want, taken, mode, allow>>
vars == <<fixed, pc, now, pass, pending, script, renamed, asked, input>>

Ends == {"written", "unchanged", "refused"}

-----------------------------------------------------------------------------
(***************************************************************************)
(* Diff and Classify, on names.                                            *)
(***************************************************************************)
Present(s) == {t \in Tables : s[t] # NoTable}
Listed(d) == {c \in Columns : d[c] # NoColumn /\ ~d[c].hidden}

Gone(b, a) == Listed(b) \ Listed(a)
New(b, a) == Listed(a) \ Listed(b)

Shape(d) == [c \in Columns |->
    IF d[c] = NoColumn THEN NoColumn ELSE [d[c] EXCEPT !.of = <<0, 0>>]]

Differs(s, w) ==
    \/ Present(s) # Present(w)
    \/ \E t \in Present(s) : Shape(s[t]) # Shape(w[t])

(* Mutant: the columns of tables that stay are not looked at.              *)
DropsTable(s, w) == ~(Present(s) \subseteq Present(w))
Destructive(s, w) ==
    \/ ~(Present(s) \subseteq Present(w))
    \/ \E t \in Present(s) \cap Present(w) : Gone(s[t], w[t]) # {}

-----------------------------------------------------------------------------
(***************************************************************************)
(* Detect: plausible pairs, and a one-to-one choice among them, by score.  *)
(***************************************************************************)
High == 6

(* The index of a name among the names of S: as d orders its columns, and  *)
(* for tables by name.                                                     *)
Place(c, S, d) == Cardinality({e \in S : d[e].at < d[c].at})
Rank(n, S) == Cardinality({m \in S : m < n})

Pair(gone, new, removedIdx, addedIdx, similar, fits) ==
    [gone |-> gone, new |-> new, removedIdx |-> removedIdx, addedIdx |-> addedIdx,
     score |-> similar + IF fits THEN 10 ELSE 0]

ColumnPairs(b, a) ==
    LET gone == Gone(b, a)
        new == New(b, a)
        At(p) == <<Place(p[1], gone, b), Place(p[2], new, a)>>
        Fits(p) == At(p)[1] = At(p)[2]
    IN  {Pair(p[1], p[2], At(p)[1], At(p)[2], Similarity[p], Fits(p)) :
            p \in {q \in gone \X new :
                      /\ b[q[1]].type = a[q[2]].type
                      /\ Fits(q) \/ Similarity[q] >= High}}

SignaturesMatch(b, a) ==
    LET signature(d) ==
            {<<Place(c, Listed(d), d), d[c].type>> : c \in Listed(d)}
    IN  signature(b) = signature(a)

TablePairs(s, w) ==
    LET gone == Present(s) \ Present(w)
        new == Present(w) \ Present(s)
        Fits(p) == SignaturesMatch(s[p[1]], w[p[2]])
    IN  {Pair(p[1], p[2], Rank(p[1], gone), Rank(p[2], new), Similarity[p], Fits(p)) :
            p \in {q \in gone \X new : Fits(q) \/ Similarity[q] >= High}}

(* The best pair first, ties by the removed and then the added index.      *)
Precedes(p, q) ==
    \/ p.score > q.score
    \/ p.score = q.score /\ p.removedIdx < q.removedIdx
    \/ p.score = q.score /\ p.removedIdx = q.removedIdx /\ p.addedIdx < q.addedIdx

Clash(p, q) == p.gone = q.gone \/ p.new = q.new

(* The pair that has none after it, and what becomes of it when all others *)
(* have been assigned.                                                     *)
LastPair(pairs) == CHOOSE p \in pairs : \A q \in pairs : ~Precedes(p, q)

(* Mutant: one new name may be paired with two that are gone.              *)
ClaimGone(p, chosen) ==
    IF \E q \in chosen : p.gone = q.gone THEN chosen ELSE chosen \cup {p}

Claim(p, chosen) ==
    IF \E q \in chosen : Clash(p, q) THEN chosen ELSE chosen \cup {p}

assignGreedy(pairs) == MapThenFoldSet(Claim, {}, LAMBDA p : p, LastPair, pairs)

detectTableRenames(s, w) ==
    {[kind |-> "table", table |-> 0, gone |-> p.gone, new |-> p.new] :
        p \in assignGreedy(TablePairs(s, w))}

detectColumnRenames(t, b, a) ==
    {[kind |-> "column", table |-> t, gone |-> p.gone, new |-> p.new] :
        p \in assignGreedy(ColumnPairs(b, a))}

(* Table renames first, then by table and by the name that is gone.        *)
CandidateOrder(c, d) ==
    \/ c.kind = "table" /\ d.kind = "column"
    \/ c.kind = d.kind /\ c.table < d.table
    \/ c.kind = d.kind /\ c.table = d.table /\ c.gone < d.gone

LastAsked(candidates) ==
    CHOOSE c \in candidates : \A d \in candidates : ~CandidateOrder(c, d)

InOrder(candidates) ==
    MapThenFoldSet(LAMBDA c, before : Append(before, c), << >>, LAMBDA c : c,
                   LastAsked, candidates)

ColumnsOf(tables, s, w) ==
    UNION {detectColumnRenames(t, s[t], w[t]) :
              t \in tables \cap Present(s) \cap Present(w)}

Detect(s, w) == InOrder(detectTableRenames(s, w) \cup ColumnsOf(Tables, s, w))

(* Mutant: the second pass looks at every table again.                     *)
RevealedAnywhere == InOrder(ColumnsOf(Tables, now, want))
Revealed == InOrder(ColumnsOf(renamed, now, want))

-----------------------------------------------------------------------------
(***************************************************************************)
(* Confirm: one bufio.Reader over standard input for the whole run.        *)
(***************************************************************************)
Answers == {"yes", "no"}  \* an empty line counts as yes
Lines == Answers \cup {"junk"}

(* Mutant: the table of a table rename is looked for in Candidate.Table,   *)
(* which is empty.                                                         *)
ResolveUnnamed(yes) ==
    LET c == Head(pending)
    IN  /\ pending' = Tail(pending)
        /\ asked' = Append(asked, [c |-> c, yes |-> yes])
        /\ script' = IF yes THEN Append(script, c) ELSE script
        /\ renamed' = IF yes /\ c.kind = "table" THEN renamed \cup {c.table}
                      ELSE renamed

Resolve(yes) ==
    LET c == Head(pending)
    IN  /\ pending' = Tail(pending)
        /\ asked' = Append(asked, [c |-> c, yes |-> yes])
        /\ script' = IF yes THEN Append(script, c) ELSE script
        /\ renamed' = IF yes /\ c.kind = "table" THEN renamed \cup {c.new}
                      ELSE renamed

(* A flag answers without a prompt.                                        *)
Assume ==
    /\ pc = "ask" /\ pending # << >>
    /\ mode # {}
    /\ Resolve("renames" \in mode)
    /\ UNCHANGED <<fixed, pc, now, pass, input>>

(* The reader takes in what there is: a line, or as much as a pipe holds.  *)
Fill ==
    /\ pc = "ask" /\ pending # << >> /\ mode = {}
    /\ buffer = << >> /\ ~closed
    /\ \E n \in 0 .. MaxLines - Len(typed) : \E lines \in [1 .. n -> Lines] :
          /\ buffer' = lines
          /\ typed' = typed \o lines
          /\ closed' \in IF n = 0 THEN {TRUE} ELSE BOOLEAN
    /\ UNCHANGED <<fixed, pc, now, pass, pending, script, renamed, asked>>

Answer ==
    /\ pc = "ask" /\ pending # << >> /\ mode = {}
    /\ buffer # << >> /\ Head(buffer) \in Answers
    /\ Resolve(Head(buffer) = "yes")
    /\ buffer' = Tail(buffer)
    /\ UNCHANGED <<fixed, pc, now, pass, typed, closed>>

(* Anything else is asked again.                                           *)
AskAgain ==
    /\ pc = "ask" /\ pending # << >> /\ mode = {}
    /\ buffer # << >> /\ Head(buffer) \notin Answers
    /\ buffer' = Tail(buffer)
    /\ UNCHANGED <<fixed, pc, now, pass, pending, script, renamed, asked,
                   typed, closed>>

(* Mutant: the end of the input is no answer either.                       *)
AskTheVoid ==
    /\ pc = "ask" /\ pending # << >> /\ mode = {}
    /\ buffer = << >> /\ closed
    /\ UNCHANGED vars

(* At the end of the input every further candidate is declined.  The end   *)
(* is for good, as in a file or a pipe; a terminal may give more lines     *)
(* after Ctrl-D, at which Confirm goes on with the next question.  A last  *)
(* line without a newline that is no answer is two steps here.             *)
DeclineAtEnd ==
    /\ pc = "ask" /\ pending # << >> /\ mode = {}
    /\ buffer = << >> /\ closed
    /\ Resolve(FALSE)
    /\ UNCHANGED <<fixed, pc, now, pass, input>>

-----------------------------------------------------------------------------
(***************************************************************************)
(* generate.                                                               *)
(***************************************************************************)
Goto(stage) == pc' = stage /\ UNCHANGED <<fixed, now, renamed, asked, input>>

(* Both flags at once are an error; two equal schemas need no migration.   *)
Start ==
    /\ pc = "start"
    /\ IF Cardinality(mode) = 2
       THEN Goto("refused") /\ UNCHANGED pending
       ELSE IF ~Differs(from, want)
       THEN Goto("unchanged") /\ UNCHANGED pending
       ELSE Goto("ask") /\ pending' = Detect(from, want)
    /\ UNCHANGED <<pass, script>>

Resolved ==
    /\ pc = "ask" /\ pending = << >>
    /\ Goto("replay")
    /\ UNCHANGED <<pass, pending, script>>

(* ALTER TABLE ... RENAME TO, RENAME COLUMN: a name in use is refused, that*)
(* of a view or of a hidden column included.                               *)
Runs(c) ==
    IF c.kind = "table"
    THEN now[c.gone] # NoTable /\ now[c.new] = NoTable /\ c.new \notin taken
    ELSE /\ now[c.table] # NoTable
         /\ now[c.table][c.gone] # NoColumn
         /\ now[c.table][c.new] = NoColumn

Renamed(c) ==
    IF c.kind = "table"
    THEN [now EXCEPT ![c.new] = now[c.gone], ![c.gone] = NoTable]
    ELSE [now EXCEPT ![c.table][c.new] = now[c.table][c.gone],
                     ![c.table][c.gone] = NoColumn]

Replay ==
    /\ pc = "replay" /\ script # << >>
    /\ Runs(Head(script))
    /\ now' = Renamed(Head(script))
    /\ script' = Tail(script)
    /\ UNCHANGED <<fixed, pc, pass, pending, renamed, asked, input>>

RefuseRename ==
    /\ pc = "replay" /\ script # << >>
    /\ ~Runs(Head(script))
    /\ Goto("refused")
    /\ UNCHANGED <<pass, pending, script>>

(* Mutant: the second pass has a reader of its own.                        *)
FreshReader ==
    /\ pc = "replay" /\ script = << >>
    /\ pass = 1
    /\ pc' = "ask" /\ pass' = 2 /\ pending' = Revealed
    /\ buffer' = << >>
    /\ UNCHANGED <<fixed, now, script, renamed, asked, typed, closed>>

SecondPass ==
    /\ pc = "replay" /\ script = << >>
    /\ pass = 1
    /\ Goto("ask") /\ pass' = 2 /\ pending' = Revealed
    /\ UNCHANGED script

Gate ==
    /\ pc = "replay" /\ script = << >>
    /\ pass = 2
    /\ Goto(IF Destructive(now, want) /\ ~allow THEN "refused" ELSE "written")
    /\ UNCHANGED <<pass, pending, script>>

Init ==
    /\ \E e \in Edits : from = e.from /\ want = e.want /\ taken = e.taken
    /\ mode \in Modes
    /\ allow \in BOOLEAN
    /\ pc = "start"
    /\ now = from
    /\ pass = 1
    /\ pending = << >> /\ script = << >> /\ asked = << >>
    /\ renamed = {}
    /\ typed = << >> /\ buffer = << >> /\ closed = FALSE

Step ==
    \/ Start
    \/ Assume \/ Fill \/ Answer \/ AskAgain \/ DeclineAtEnd \/ Resolved
    \/ Replay \/ RefuseRename \/ SecondPass \/ Gate

Ended == pc \in Ends /\ UNCHANGED vars

Next == Step \/ Ended

(* generate runs on, and its input is a line away or at its end: the only  *)
(* fairness there is.                                                      *)
Spec == Init /\ [][Next]_vars /\ WF_vars(Step)

-----------------------------------------------------------------------------
Candidates ==
    [kind : {"table"}, table : {0}, gone : Tables, new : Tables]
    \cup [kind : {"column"}, table : Tables, gone : Columns, new : Columns]

TypeOK ==
    /\ from \in Schemas /\ want \in Schemas /\ now \in Schemas
    /\ taken \subseteq Tables /\ mode \in Modes /\ allow \in BOOLEAN
    /\ pc \in {"start", "ask", "replay"} \cup Ends
    /\ pass \in {1, 2}
    /\ pending \in Seq(Candidates) /\ script \in Seq(Candidates)
    /\ asked \in Seq([c : Candidates, yes : BOOLEAN])
    /\ renamed \subseteq Tables
    /\ typed \in Seq(Lines) /\ buffer \in Seq(Lines) /\ closed \in BOOLEAN

(* Without --allow-destructive, what is written keeps the data of every    *)
(* column of the journal under some name, through table renames with       *)
(* column renames inside them, whatever the user answered and however the  *)
(* input ended.                                                            *)
Kept(t, c) ==
    \E u \in Present(now) \cap Present(want) :
        \E d \in Listed(now[u]) \cap Listed(want[u]) : now[u][d].of = <<t, c>>

NothingLostUnconsented ==
    pc = "written" /\ ~allow =>
        \A t \in Present(from) : \A c \in Listed(from[t]) : Kept(t, c)

(* How many of the first i lines typed are answers.                        *)
AnswersUpTo(i) == Cardinality({j \in 1 .. i : typed[j] \in Answers})

(* The k-th question of the run gets the user's k-th answer, however many  *)
(* lines the reader takes in at once and whichever pass asks: an answer is *)
(* neither lost nor given to another candidate.                            *)
AnswersInOrder ==
    mode = {} =>
        \A k \in 1 .. Len(asked) :
            asked[k].yes <=>
                \E i \in 1 .. Len(typed) : typed[i] = "yes" /\ AnswersUpTo(i) = k

(* No name is part of two questions: a rename that was declined is not     *)
(* proposed again, and no name is given to two tables or columns.          *)
OneQuestionPerName ==
    \A i, j \in 1 .. Len(asked) :
        LET c == asked[i].c
            d == asked[j].c
        IN  c.kind = d.kind /\ c.table = d.table /\ Clash(c, d) => i = j

(* What Detect proposes is one-to-one and stable: a plausible pair is left *)
(* out only for one that is at least as good and shares a name with it.    *)
Stable(pairs) ==
    LET chosen == assignGreedy(pairs)
    IN  /\ chosen \subseteq pairs
        /\ \A p, q \in chosen : Clash(p, q) => p = q
        /\ \A p \in pairs \ chosen :
              \E q \in chosen : Clash(p, q) /\ p.score <= q.score

ProposalsAreStable ==
    pc = "start" =>
        /\ Stable(TablePairs(from, want))
        /\ \A t \in Present(from) \cap Present(want) :
              Stable(ColumnPairs(from[t], want[t]))

(* Every run of generate ends, also without a terminal and when none of    *)
(* the lines is a proper answer: if the input ends, that is, as it does    *)
(* here after MaxLines lines.  Confirm asks again for ever if nonsense     *)
(* comes for ever.                                                         *)
RunEnds == <>(pc \in Ends)
=============================================================================
