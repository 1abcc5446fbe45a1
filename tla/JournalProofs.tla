---------------------------- MODULE JournalProofs -----------------------------
(***************************************************************************)
(* Theorems about Journal, for every set of tables, shapes, slugs and      *)
(* developers' edits: the types, with any number of processes; and, for    *)
(* one generate at a time by a clock that never steps back, that a         *)
(* migration file is appended, what replaying a journal of any length      *)
(* computes, and what follows for generate, check, status and verify.      *)
(***************************************************************************)
EXTENDS Journal, FoldProofs

USE ShapesAssumption, NumbersAssumption, SwitchesAssumption, NoFileAssumption

-----------------------------------------------------------------------------
(* A file generate makes, and one with an edited body, is a file.          *)
LEMMA FileTypes ==
    /\ \A b \in SUBSET Steps, s \in (SUBSET Steps) \cup {NoSum} :
          [sum |-> s, body |-> b] \in Files
    /\ \A f \in Files, b \in SUBSET Steps : [f EXCEPT !.body = b] \in Files
  BY DEF Files

(* The empty file, as os.WriteFile creates it.                             *)
LEMMA EmptyFile ==
    /\ [sum |-> NoSum, body |-> {}] \in Files
    /\ [sum |-> NoSum, body |-> {}] # NoFile
  <1>1. {} \in SUBSET Steps /\ NoSum \in (SUBSET Steps) \cup {NoSum}
    OBVIOUS
  <1>2. [sum |-> NoSum, body |-> {}] \in Files
    BY <1>1, FileTypes, Zenon
  <1>3. QED
    BY <1>2, Zenon

(* The body of a migration between two schemas consists of steps.          *)
LEMMA ChangesType ==
    ASSUME NEW current \in Schemas, NEW desired \in Schemas
    PROVE  Changes(current, desired) \in SUBSET Steps
  BY DEF Changes, Schemas, Steps

LEMMA InitType == Init => TypeOK
  <1> SUFFICES ASSUME Init PROVE TypeOK
    OBVIOUS
  <1>1. Names # {}
    <2>1. 1 \in Versions
      BY DEF Versions
    <2>2. PICK slug \in Slugs : TRUE
      OBVIOUS
    <2>3. <<1, slug>> \in Names
      BY <2>1, <2>2 DEF Names
    <2>4. QED
      BY <2>3
  <1>2. (CHOOSE n \in Names : TRUE) \in Names
    BY <1>1
  <1>3. Empty \in Schemas
    BY DEF Empty, Schemas
  <1>4. QED
    BY <1>2, <1>3 DEF Init, TypeOK, Stages, Results, Schemas

LEMMA GenerateType ==
    ASSUME TypeOK, NEW g \in Gens, Generate(g)
    PROVE  TypeOK'
  <1> USE DEF Return, Goto, developer, database
  <1>1. CASE ReadSchema(g)
    BY <1>1 DEF ReadSchema, TypeOK, Stages, Results
  <1>2. CASE ReadJournal(g)
    <2> DEFINE current == Replay(dir)
    <2>1. /\ UNCHANGED <<schema, edits, tampers, dir, clock, want, name, rows, deployed>>
          /\ \/ /\ pc' = [pc EXCEPT ![g] = "idle"]
                /\ \E r \in Results : result' = [result EXCEPT ![g] = r]
                /\ UNCHANGED body
             \/ /\ current \in Schemas
                /\ body' = [body EXCEPT ![g] = Changes(current, want[g])]
                /\ pc' = [pc EXCEPT ![g] = "write"]
                /\ UNCHANGED result
      BY <1>2 DEF ReadJournal, Broken, Results
    <2> HIDE DEF current
    <2>2. current \in Schemas => Changes(current, want[g]) \in SUBSET Steps
      BY ChangesType DEF TypeOK
    <2>3. QED
      BY <2>1, <2>2 DEF TypeOK, Stages
  <1>3. CASE Refuse(g)
    BY <1>3 DEF Refuse, TypeOK, Stages, Results
  <1>4. CASE PickName(g)
    BY <1>4 DEF PickName, TypeOK, Stages, Names
  <1>5. CASE Create(g)
    BY <1>5, EmptyFile DEF Create, TypeOK, Stages
  <1>6. CASE Fill(g)
    BY <1>6, FileTypes DEF Fill, TypeOK, Stages, Results
  <1>7. CASE FillFails(g)
    <2>1. PICK part \in SUBSET body[g] :
            dir' = [dir EXCEPT ![name[g]] = [sum |-> body[g], body |-> part]]
      BY <1>7 DEF FillFails
    <2>2. [sum |-> body[g], body |-> part] \in Files
      BY <2>1, FileTypes DEF TypeOK
    <2>3. QED
      BY <1>7, <2>1, <2>2 DEF FillFails, TypeOK, Stages, Results
  <1>8. CASE Fail(g)
    BY <1>8 DEF Fail, TypeOK, Stages, Results
  <1>9. QED
    BY <1>1, <1>2, <1>3, <1>4, <1>5, <1>6, <1>7, <1>8 DEF Generate

LEMMA ApplyType == TypeOK /\ Apply => TypeOK'
  <1> SUFFICES ASSUME TypeOK, Apply PROVE TypeOK'
    OBVIOUS
  <1>1. deployed' \in Schemas
    BY DEF Apply, Broken
  <1>2. rows' \in [Versions -> Files \cup {NoFile}]
    <2> DEFINE taken(v) == CHOOSE n \in Present(dir) : n[1] = v
    <2>1. \A v \in Versions : Used(v) => taken(v) \in Names
      BY DEF Used, Present
    <2>2. rows' = [v \in Versions |-> IF Used(v) THEN dir[taken(v)] ELSE NoFile]
      BY DEF Apply
    <2> HIDE DEF taken
    <2>3. QED
      BY <2>1, <2>2 DEF TypeOK
  <1>3. QED
    BY <1>1, <1>2 DEF Apply, TypeOK, developer, Schemas

LEMMA DeveloperType ==
    ASSUME TypeOK, EditSchema \/ EditFile \/ Tick
    PROVE  TypeOK'
  <1> USE DEF developer, database
  <1>1. CASE EditSchema
    BY <1>1 DEF EditSchema, TypeOK
  <1>2. CASE EditFile
    <2>1. PICK n \in Present(dir), step \in Steps :
            dir' = [dir EXCEPT ![n].body = {step}]
      BY <1>2 DEF EditFile
    <2>2. n \in Names /\ dir[n] \in Files
      BY DEF Present, TypeOK
    <2>3. [dir[n] EXCEPT !.body = {step}] \in Files
      BY <2>2, FileTypes
    <2>4. dir' \in [Names -> Files \cup {NoFile}]
      BY <2>1, <2>2, <2>3 DEF TypeOK
    <2>5. QED
      BY <1>2, <2>4 DEF EditFile, TypeOK
  <1>3. CASE Tick
    BY <1>3 DEF Tick, TypeOK, Versions
  <1>4. QED
    BY <1>1, <1>2, <1>3

LEMMA NextType == TypeOK /\ [Next]_vars => TypeOK'
  <1> SUFFICES ASSUME TypeOK, [Next]_vars PROVE TypeOK'
    OBVIOUS
  <1>1. CASE UNCHANGED vars
    BY <1>1 DEF vars, database, developer, TypeOK
  <1>2. CASE Next
    BY <1>2, GenerateType, ApplyType, DeveloperType DEF Next
  <1>3. QED
    BY <1>1, <1>2

(* Every variable keeps its type, with any number of generate runs that    *)
(* race and die, clocks that step back and files that are edited.          *)
THEOREM JournalTypeCorrect == Spec => []TypeOK
  BY InitType, NextType, PTL DEF Spec

-----------------------------------------------------------------------------
(***************************************************************************)
(* What nextTimestamp needs.  The files may run ahead of the clock, when   *)
(* several were made within a second, but they leave no gap: every second  *)
(* from now to the newest file is taken.  So the first free second is      *)
(* after every file, though the others are never looked at.                *)
(***************************************************************************)
NoGap == \A n \in Present(dir) : \A v \in clock .. n[1] : Used(v)

(* The name generate picked is still free, and keeps the files gapless.    *)
NameIsNext(g) ==
    /\ \A m \in Present(dir) : m[1] < name[g][1]
    /\ \A v \in clock .. name[g][1] - 1 : Used(v)

Appending ==
    /\ TypeOK
    /\ NoGap
    /\ \A g \in Gens : pc[g] = "create" => NameIsNext(g)
    /\ \A g \in Gens : pc[g] = "fill" => name[g] \in Present(dir)

LEMMA InitAppending == Init => Appending
  <1> SUFFICES ASSUME Init PROVE Appending
    OBVIOUS
  <1>1. TypeOK
    BY InitType
  <1>2. Present(dir) = {}
    BY DEF Init, Present
  <1>3. QED
    BY <1>1, <1>2 DEF Init, Appending, NoGap

(* A name that is taken keeps its file, and while no name is added, the    *)
(* clock and the process that creates stay, nothing changes.               *)
LEMMA Kept ==
    ASSUME Appending, TypeOK', Present(dir)' = Present(dir), clock' \in Nat,
           clock <= clock', UNCHANGED name,
           \A g \in Gens : pc'[g] \in {"create", "fill"} => pc'[g] = pc[g]
    PROVE  Appending'
  <1>1. \A v : Used(v)' <=> Used(v)
    BY DEF Used
  <1>2. clock \in Nat
    BY DEF Appending, TypeOK
  <1>3. \A i \in Int : clock' .. i \subseteq clock .. i
    BY <1>2
  <1>4. \A n \in Present(dir) : n[1] \in Int
    BY DEF Present, Names, Versions
  <1>5. NoGap'
    BY <1>1, <1>3, <1>4 DEF Appending, NoGap
  <1>6. \A g \in Gens : name[g][1] - 1 \in Int
    BY DEF Appending, TypeOK, Names, Versions
  <1>7. \A g \in Gens : pc'[g] = "create" => NameIsNext(g)'
    BY <1>1, <1>3, <1>6 DEF Appending, NameIsNext
  <1>8. \A g \in Gens : pc'[g] = "fill" => name'[g] \in Present(dir)'
    BY DEF Appending
  <1>9. QED
    BY <1>5, <1>7, <1>8 DEF Appending

(* The first second from now on that no file has taken is after every      *)
(* file.                                                                   *)
LEMMA PickAppending ==
    ASSUME Appending, TypeOK', NEW g \in Gens, PickName(g),
           \A h \in Gens : h = g
    PROVE  Appending'
  <1>1. PICK v \in Versions, slug \in Slugs :
          /\ NextTimestamp(v)
          /\ name' = [name EXCEPT ![g] = <<v, slug>>]
    BY DEF PickName
  <1>2. name'[g][1] = v /\ v \in Nat /\ clock \in Nat
    BY <1>1 DEF Appending, TypeOK, Versions
  <1>3. pc'[g] = "create" /\ UNCHANGED <<dir, clock>>
    BY DEF PickName, Goto, Appending, TypeOK
  <1>4. \A m \in Present(dir) : m[1] < v
    <2> SUFFICES ASSUME NEW m \in Present(dir), ~(m[1] < v) PROVE FALSE
      OBVIOUS
    <2>1. m[1] \in Nat
      BY DEF Present, Names, Versions
    <2>2. v \in clock .. m[1]
      BY <1>1, <1>2, <2>1 DEF NextTimestamp
    <2>3. Used(v)
      BY <2>2 DEF Appending, NoGap
    <2>4. QED
      BY <1>1, <2>3 DEF NextTimestamp
  <1>5. NameIsNext(g)'
    BY <1>1, <1>2, <1>3, <1>4 DEF NameIsNext, NextTimestamp, Used, Present
  <1>6. NoGap'
    BY <1>3 DEF Appending, NoGap, Present, Used
  <1>7. \A h \in Gens : pc'[h] = "create" /\ NameIsNext(h)'
    BY <1>3, <1>5
  <1>8. QED
    BY <1>6, <1>7 DEF Appending

LEMMA CreateAppending ==
    ASSUME Appending, TypeOK', NEW g \in Gens, Create(g),
           \A h \in Gens : h = g
    PROVE  /\ Appending'
           /\ Present(dir)' = Present(dir) \cup {name[g]}
  <1>1. name[g] \in Names /\ dir \in [Names -> Files \cup {NoFile}]
    BY DEF Appending, TypeOK
  <1>2. \E file \in Files : file # NoFile /\ dir' = [dir EXCEPT ![name[g]] = file]
    BY EmptyFile DEF Create
  <1>3. Present(dir)' = Present(dir) \cup {name[g]}
    BY <1>1, <1>2 DEF Present
  <1>4. NameIsNext(g)
    BY DEF Create, Appending
  <1>5. UNCHANGED <<name, clock>> /\ pc'[g] = "fill" /\ clock \in Nat
    BY DEF Create, Goto, Appending, TypeOK
  <1>6. \A v : Used(v) \/ v = name[g][1] => Used(v)'
    BY <1>3 DEF Used
  <1>7. NoGap'
    <2> SUFFICES ASSUME NEW n \in Present(dir)', NEW v \in clock .. n[1]
                 PROVE  Used(v)'
      BY <1>5 DEF NoGap
    <2>1. CASE n \in Present(dir)
      BY <2>1, <1>6 DEF Appending, NoGap
    <2>2. CASE n = name[g]
      <3>1. n[1] \in Nat /\ v \in Int /\ v <= n[1]
        BY <2>2, <1>1, <1>5 DEF Names, Versions
      <3>2. v = n[1] \/ v \in clock .. n[1] - 1
        BY <3>1, <1>5
      <3>3. QED
        BY <3>2, <2>2, <1>4, <1>6 DEF NameIsNext
    <2>3. QED
      BY <2>1, <2>2, <1>3
  <1>8. \A h \in Gens : pc'[h] = "fill" /\ name'[h] \in Present(dir)'
    BY <1>3, <1>5
  <1>9. Appending'
    BY <1>7, <1>8 DEF Appending
  <1>10. QED
    BY <1>3, <1>9

(* Every other step leaves the names that are taken as they were.          *)
LEMMA OverwriteKeeps ==
    ASSUME Appending, NEW n \in Present(dir), NEW file \in Files,
           dir' = [dir EXCEPT ![n] = file]
    PROVE  Present(dir)' = Present(dir)
  <1>1. dir \in [Names -> Files \cup {NoFile}] /\ n \in Names /\ dir[n] # NoFile
    BY DEF Appending, TypeOK, Present
  <1>2. file # NoFile
    OBVIOUS
  <1>3. \A m \in Names : dir'[m] # NoFile <=> dir[m] # NoFile
    BY <1>1, <1>2
  <1>4. QED
    BY <1>3 DEF Present

LEMMA RestAppending ==
    ASSUME Appending, TypeOK', ~ClockSteps, [Next]_vars,
           \A g \in Gens : ~PickName(g) /\ ~Create(g)
    PROVE  /\ Appending'
           /\ Present(dir)' = Present(dir)
  <1> USE DEF Return, Goto, developer, database
  <1>1. TypeOK
    BY DEF Appending
  <1>2. ASSUME NEW g \in Gens,
               ReadSchema(g) \/ ReadJournal(g) \/ Refuse(g) \/ Fail(g)
        PROVE  Appending' /\ Present(dir)' = Present(dir)
    <2>1. UNCHANGED <<dir, clock, name>>
      BY <1>2 DEF ReadSchema, ReadJournal, Refuse, Fail
    <2>2. \A h \in Gens : pc'[h] \in {"create", "fill"} => pc'[h] = pc[h]
      BY <1>1, <1>2 DEF ReadSchema, ReadJournal, Refuse, Fail, TypeOK
    <2>3. QED
      BY <1>1, <2>1, <2>2, Kept DEF Present, TypeOK
  <1>3. ASSUME NEW g \in Gens, Fill(g) \/ FillFails(g)
        PROVE  Appending' /\ Present(dir)' = Present(dir)
    <2>1. PICK part \in SUBSET body[g] :
            dir' = [dir EXCEPT ![name[g]] = [sum |-> body[g], body |-> part]]
      BY <1>3 DEF Fill, FillFails
    <2>2. [sum |-> body[g], body |-> part] \in Files
      BY <1>1, <2>1, FileTypes DEF TypeOK
    <2>3. name[g] \in Present(dir)
      BY <1>3 DEF Fill, FillFails, Appending
    <2>4. Present(dir)' = Present(dir)
      BY <2>1, <2>2, <2>3, OverwriteKeeps
    <2>5. UNCHANGED <<clock, name>>
      BY <1>3 DEF Fill, FillFails
    <2>6. \A h \in Gens : pc'[h] \in {"create", "fill"} => pc'[h] = pc[h]
      BY <1>1, <1>3 DEF Fill, FillFails, TypeOK
    <2>7. QED
      BY <1>1, <2>4, <2>5, <2>6, Kept DEF TypeOK
  <1>4. CASE Apply \/ EditSchema \/ UNCHANGED vars
    <2>1. UNCHANGED <<dir, clock, name, pc>>
      BY <1>4 DEF Apply, EditSchema, vars
    <2>2. QED
      BY <1>1, <2>1, Kept DEF Present, TypeOK
  <1>5. CASE EditFile
    <2>1. PICK n \in Present(dir), step \in Steps :
            dir' = [dir EXCEPT ![n].body = {step}]
      BY <1>5 DEF EditFile
    <2>2. n \in Names /\ dir[n] \in Files
      BY <1>1 DEF Present, TypeOK
    <2>3. [dir[n] EXCEPT !.body = {step}] \in Files
      BY <2>2, FileTypes
    <2>4. Present(dir)' = Present(dir)
      BY <2>1, <2>3, OverwriteKeeps
    <2>5. UNCHANGED <<clock, name, pc>>
      BY <1>5 DEF EditFile
    <2>6. QED
      BY <1>1, <2>4, <2>5, Kept DEF TypeOK
  <1>6. CASE Tick
    <2>1. clock' = clock + 1 /\ UNCHANGED <<dir, name, pc>>
      BY <1>6 DEF Tick
    <2>2. QED
      BY <1>1, <2>1, Kept DEF Present, TypeOK
  <1>7. QED
    BY <1>2, <1>3, <1>4, <1>5, <1>6 DEF Next, Generate

(* Every step of the whole system: a name is added only by Create, after   *)
(* all others.                                                             *)
LEMMA StepAppends ==
    ASSUME ~ClockSteps, \A g, h \in Gens : g = h, Appending, [Next]_vars
    PROVE  /\ Appending'
           /\ \/ Present(dir)' = Present(dir)
              \/ \E g \in Gens :
                    /\ Create(g)
                    /\ Present(dir)' = Present(dir) \cup {name[g]}
                    /\ \A m \in Present(dir) : m[1] < name[g][1]
  <1>1. TypeOK'
    BY NextType DEF Appending
  <1>2. ASSUME NEW g \in Gens, PickName(g)
        PROVE  Appending' /\ Present(dir)' = Present(dir)
    BY <1>1, <1>2, PickAppending DEF PickName, Present
  <1>3. ASSUME NEW g \in Gens, Create(g)
        PROVE  /\ Appending'
               /\ Present(dir)' = Present(dir) \cup {name[g]}
               /\ \A m \in Present(dir) : m[1] < name[g][1]
    BY <1>1, <1>3, CreateAppending DEF Create, Appending, NameIsNext
  <1>4. CASE \A g \in Gens : ~PickName(g) /\ ~Create(g)
    BY <1>1, <1>4, RestAppending
  <1>5. QED
    BY <1>2, <1>3, <1>4

(* One generate at a time, by a clock that never steps back, appends: a    *)
(* new file's version is greater than every version there, although        *)
(* nextTimestamp starts its search at the present and never looks at the   *)
(* newest file; failed runs, killed runs and edited files do not matter.   *)
THEOREM GeneratesAppend ==
    ASSUME ~ClockSteps, \A g, h \in Gens : g = h
    PROVE  Spec => NewestLast
  <1>1. Appending /\ [Next]_vars =>
            /\ Appending'
            /\ [\A n \in Present(dir)' \ Present(dir) :
                   \A m \in Present(dir) : m[1] < n[1]]_vars
    BY StepAppends
  <1>2. QED
    BY <1>1, InitAppending, PTL DEF Spec, NewestLast

-----------------------------------------------------------------------------
(***************************************************************************)
(* What replaying a journal computes.                                      *)
(***************************************************************************)
(***************************************************************************)
(* The order of names, and one body.                                       *)
(***************************************************************************)
Points == Nat \X Nat

(* What a replay may come to: tables of which a statement has failed too.  *)
States == [Tables -> Shapes \cup {NoTable, Invalid}]

LEMMA EffectType ==
    ASSUME NEW b \in SUBSET Steps, NEW s \in States
    PROVE  Effect(b, s) \in States
  <1> SUFFICES ASSUME NEW t \in Tables
               PROVE  Effect(b, s)[t] \in Shapes \cup {NoTable, Invalid}
    BY DEF Effect, States
  <1> DEFINE steps == {step \in b : step.table = t}
  <1>1. CASE steps = {}
    BY <1>1 DEF Effect, States
  <1>2. CASE steps # {}
    <2>1. (CHOOSE step \in steps : TRUE) \in Steps
      BY <1>2
    <2>2. (CHOOSE step \in steps : TRUE).to \in Shapes \cup {NoTable}
      BY <2>1 DEF Steps
    <2>3. Effect(b, s)[t] \in {(CHOOSE step \in steps : TRUE).to, Invalid}
      BY <1>2 DEF Effect
    <2>4. QED
      BY <2>2, <2>3
  <1>3. QED
    BY <1>1, <1>2

(* An empty body changes nothing.                                          *)
LEMMA NoSteps ==
    ASSUME NEW s \in States
    PROVE  Effect({}, s) = s
  BY DEF Effect, States

(* The body generate makes of two schemas takes the one to the other.      *)
LEMMA ChangesReach ==
    ASSUME NEW current \in Schemas, NEW desired \in Schemas
    PROVE  Effect(Changes(current, desired), current) = desired
  <1> DEFINE b == Changes(current, desired)
             step(t) == [table |-> t, from |-> current[t], to |-> desired[t]]
  <1>1. ASSUME NEW t \in Tables PROVE Effect(b, current)[t] = desired[t]
    <2> DEFINE steps == {x \in b : x.table = t}
    <2>1. CASE current[t] = desired[t]
      <3>1. steps = {}
        BY <2>1 DEF Changes
      <3>2. QED
        BY <3>1, <2>1 DEF Effect
    <2>2. CASE current[t] # desired[t]
      <3>1. steps = {step(t)}
        BY <2>2 DEF Changes
      <3>2. Succeeds(step(t), current[t])
        BY <2>2 DEF Succeeds, Schemas
      <3>3. (CHOOSE x \in steps : TRUE) = step(t)
        BY <3>1
      <3>4. Effect(b, current)[t] = step(t).to
        <4> HIDE DEF step
        <4>1. QED
          BY <3>1, <3>2, <3>3 DEF Effect
      <3>5. QED
        BY <3>4
    <2>3. QED
      BY <2>1, <2>2
  <1>2. current \in States /\ desired \in States
    BY DEF Schemas, States
  <1>3. Effect(b, current) \in States
    BY <1>2, ChangesType, EffectType
  <1>4. QED
    BY <1>1, <1>2, <1>3 DEF States

LEMMA LatestIs ==
    ASSUME NEW names \in SUBSET Points, IsFiniteSet(names), names # {}
    PROVE  /\ Latest(names) \in names
           /\ \A m \in names \ {Latest(names)} : Before(m, Latest(names))
  <1> DEFINE IsLatest(n, T) == n \in T /\ \A m \in T \ {n} : Before(m, n)
             P == {T \in SUBSET names : T = {} \/ \E n \in T : IsLatest(n, T)}
  <1>1. ASSUME NEW T \in SUBSET names, \A U \in SUBSET T : U # T => U \in P
        PROVE  T \in P
    <2> SUFFICES ASSUME T # {} PROVE \E n \in T : IsLatest(n, T)
      OBVIOUS
    <2>1. PICK x \in T : TRUE
      OBVIOUS
    <2>2. CASE T \ {x} = {}
      BY <2>1, <2>2
    <2>3. CASE T \ {x} # {}
      <3>1. PICK n \in T \ {x} : IsLatest(n, T \ {x})
        <4>1. T \ {x} \in P
          <5>1. T \ {x} \in SUBSET T /\ T \ {x} # T
            BY <2>1
          <5> HIDE DEF P
          <5>2. QED
            BY <5>1, <1>1
        <4>2. QED
          BY <4>1, <2>3
      <3>2. Before(n, x) \/ Before(x, n)
        BY <3>1 DEF Points, Before
      <3>3. CASE Before(x, n)
        BY <3>1, <3>3
      <3>4. CASE Before(n, x)
        <4>1. ASSUME NEW m \in T \ {x} PROVE Before(m, x)
          BY <3>1, <3>4 DEF Points, Before
        <4>2. IsLatest(x, T)
          BY <4>1, <2>1
        <4>3. QED
          BY <4>2, <2>1
      <3>5. QED
        BY <3>2, <3>3, <3>4
    <2>4. QED
      BY <2>2, <2>3
  <1>2. \A T \in SUBSET names : T \in P
    <2> HIDE DEF P
    <2>1. QED
      BY <1>1, GrowingSets
  <1>3. \E n \in names : \A m \in names \ {n} : Before(m, n)
    BY <1>2
  <1>4. QED
    BY <1>3 DEF Latest

LEMMA LatestIsOne ==
    ASSUME NEW names \in SUBSET Points, IsFiniteSet(names),
           NEW n \in names, \A m \in names \ {n} : Before(m, n)
    PROVE  Latest(names) = n
  <1>1. names # {}
    OBVIOUS
  <1>2. /\ Latest(names) \in names
        /\ \A m \in names \ {Latest(names)} : Before(m, Latest(names))
    BY <1>1, LatestIs
  <1>3. QED
    BY <1>2 DEF Points, Before

-----------------------------------------------------------------------------
(***************************************************************************)
(* RunAll: the bodies of d's files with these names, which run from s.     *)
(***************************************************************************)
Runnable(d, names) ==
    /\ names \in SUBSET Points
    /\ IsFiniteSet(names)
    /\ \A n \in names : d[n].body \in SUBSET Steps

(* f says what the files with any of these names come to.                  *)
IsReplay(f, d, names, s) ==
    \A T \in SUBSET names :
        f[T] = IF T = {} THEN s ELSE Effect(d[Latest(T)].body, f[T \ {Latest(T)}])

LEMMA ReplayExists ==
    ASSUME NEW d, NEW names, Runnable(d, names), NEW s \in States
    PROVE  \E f \in [SUBSET names -> States] : IsReplay(f, d, names, s)
  <1> DEFINE pick == [T \in SUBSET names |-> Latest(T)]
             step == [p \in names \X States |-> Effect(d[p[1]].body, p[2])]
  <1>1. \A T \in SUBSET names : T # {} => pick[T] \in T
    <2> SUFFICES ASSUME NEW T \in SUBSET names, T # {} PROVE Latest(T) \in T
      OBVIOUS
    <2>1. IsFiniteSet(T) /\ T \in SUBSET Points
      BY FS_Subset DEF Runnable
    <2>2. QED
      BY <2>1, LatestIs
  <1>2. step \in [names \X States -> States]
    <2>1. \A p \in names \X States : Effect(d[p[1]].body, p[2]) \in States
      BY EffectType DEF Runnable
    <2>2. QED
      BY <2>1
  <1>3. \E f \in [SUBSET names -> States] : IsFold(f, names, s, pick, step)
    <2> HIDE DEF pick, step
    <2>1. QED
      BY <1>1, <1>2, FoldExists DEF Runnable
  <1>4. PICK f \in [SUBSET names -> States] : IsFold(f, names, s, pick, step)
    BY <1>3
  <1>5. IsReplay(f, d, names, s)
    <2> SUFFICES ASSUME NEW T \in SUBSET names, T # {}
                 PROVE  f[T] = Effect(d[Latest(T)].body, f[T \ {Latest(T)}])
      BY <1>4 DEF IsFold, IsReplay
    <2>1. Latest(T) \in names /\ f[T \ {Latest(T)}] \in States
      BY <1>1
    <2>2. f[T] = step[<<Latest(T), f[T \ {Latest(T)}]>>]
      BY <1>4 DEF IsFold
    <2>3. QED
      BY <2>1, <2>2
  <1>6. QED
    BY <1>5

(* RunAll is such an f, on the names it is given and on fewer.             *)
LEMMA ReplayIsOne ==
    ASSUME NEW d, NEW names, Runnable(d, names), NEW s \in States,
           NEW f, IsReplay(f, d, names, s),
           NEW T \in SUBSET names, NEW g, IsReplay(g, d, T, s)
    PROVE  f[T] = g[T]
  <1> DEFINE P == {U \in SUBSET T : f[U] = g[U]}
  <1>1. ASSUME NEW U \in SUBSET T, \A W \in SUBSET U : W # U => W \in P
        PROVE  U \in P
    <2>1. CASE U = {}
      BY <2>1 DEF IsReplay
    <2>2. CASE U # {}
      <3>1. Latest(U) \in U
        BY <2>2, LatestIs, FS_Subset DEF Runnable
      <3>2. U \ {Latest(U)} \in P
        BY <1>1, <3>1
      <3>3. QED
        BY <3>2, <2>2 DEF IsReplay
    <2>3. QED
      BY <2>1, <2>2
  <1>2. IsFiniteSet(T)
    BY FS_Subset DEF Runnable
  <1>3. \A U \in SUBSET T : U \in P
    <2> HIDE DEF P
    <2>1. QED
      BY <1>1, <1>2, GrowingSets
  <1>4. QED
    BY <1>3

LEMMA RunAllIs ==
    ASSUME NEW d, NEW names, Runnable(d, names), NEW s \in States,
           NEW f, IsReplay(f, d, names, s)
    PROVE  \A T \in SUBSET names : RunAll(d, T, s) = f[T]
  <1> SUFFICES ASSUME NEW T \in SUBSET names PROVE RunAll(d, T, s) = f[T]
    OBVIOUS
  <1> DEFINE Recursion(g) ==
               g = [U \in SUBSET T |->
                      IF U = {} THEN s
                      ELSE Effect(d[Latest(U)].body, g[U \ {Latest(U)}])]
             chosen == CHOOSE g : Recursion(g)
  <1>1. RunAll(d, T, s) = chosen[T]
    BY DEF RunAll, MapThenFoldSet
  <1>2. \A U \in SUBSET T : U # {} => U \ {Latest(U)} \in SUBSET T
    OBVIOUS
  <1>3. Recursion([U \in SUBSET T |-> f[U]])
    BY <1>2 DEF IsReplay
  <1>4. Recursion(chosen)
    <2> HIDE DEF Recursion
    <2>1. QED
      BY <1>3
  <1>5. IsReplay(chosen, d, T, s)
    <2> HIDE DEF chosen
    <2>1. QED
      BY <1>4 DEF IsReplay
  <1> HIDE DEF chosen
  <1>6. QED
    BY <1>1, <1>5, ReplayIsOne

(* The latest file runs last, on what the others have made.                *)
LEMMA RunAllStep ==
    ASSUME NEW d, NEW names, Runnable(d, names), NEW s \in States
    PROVE  /\ RunAll(d, names, s) \in States
           /\ RunAll(d, {}, s) = s
           /\ names # {} =>
                RunAll(d, names, s) =
                    Effect(d[Latest(names)].body,
                           RunAll(d, names \ {Latest(names)}, s))
  <1>1. PICK f \in [SUBSET names -> States] : IsReplay(f, d, names, s)
    BY ReplayExists
  <1>2. \A T \in SUBSET names : RunAll(d, T, s) = f[T]
    BY <1>1, RunAllIs
  <1>3. {} \in SUBSET names /\ names \in SUBSET names
    OBVIOUS
  <1>4. f[{}] = s
    BY <1>1, <1>3 DEF IsReplay
  <1>5. names # {} =>
            f[names] = Effect(d[Latest(names)].body, f[names \ {Latest(names)}])
    BY <1>1, <1>3 DEF IsReplay
  <1>6. names \ {Latest(names)} \in SUBSET names
    OBVIOUS
  <1>7. QED
    BY <1>2, <1>3, <1>4, <1>5, <1>6

(* The same bodies in the same order come to the same, whatever the names  *)
(* of their files.                                                         *)
LEMMA RunAllRenamed ==
    ASSUME NEW d, NEW names, Runnable(d, names),
           NEW e, NEW others, Runnable(e, others), NEW s \in States,
           NEW h \in [names -> others],
           \A n \in names : d[n].body = e[h[n]].body,
           \A m, n \in names : Before(m, n) => Before(h[m], h[n]),
           \A o \in others : \E n \in names : o = h[n]
    PROVE  RunAll(d, names, s) = RunAll(e, others, s)
  <1> DEFINE Image(T) == {h[n] : n \in T}
             P == {T \in SUBSET names : RunAll(d, T, s) = RunAll(e, Image(T), s)}
  <1>1. ASSUME NEW T \in SUBSET names, \A U \in SUBSET T : U # T => U \in P
        PROVE  T \in P
    <2>1. Runnable(d, T) /\ Runnable(e, Image(T))
      BY FS_Subset DEF Runnable
    <2>2. CASE T = {}
      <3>1. Image(T) = {}
        BY <2>2
      <3> HIDE DEF Image
      <3>2. QED
        BY <2>1, <2>2, <3>1, RunAllStep
    <2>3. CASE T # {}
      <3> DEFINE n == Latest(T)
      <3>1. n \in T /\ \A m \in T \ {n} : Before(m, n)
        BY <2>1, <2>3, LatestIs DEF Runnable
      <3> HIDE DEF n
      <3>2. h[n] \in Image(T) /\ \A o \in Image(T) \ {h[n]} : Before(o, h[n])
        BY <3>1
      <3>3. Latest(Image(T)) = h[n]
        <4> HIDE DEF Image
        <4>1. QED
          BY <2>1, <3>2, LatestIsOne DEF Runnable
      <3>4. Image(T) \ {h[n]} = Image(T \ {n})
        <4>1. \A m \in T \ {n} : h[m] # h[n]
          <5> SUFFICES ASSUME NEW m \in T \ {n} PROVE h[m] # h[n]
            OBVIOUS
          <5>1. Before(h[m], h[n]) /\ h[m] \in Points /\ h[n] \in Points
            BY <3>1 DEF Runnable
          <5>2. QED
            BY <5>1 DEF Before, Points
        <4>2. QED
          BY <4>1, <3>1
      <3>5. RunAll(d, T \ {n}, s) = RunAll(e, Image(T \ {n}), s)
        <4>1. T \ {n} \in SUBSET T /\ T \ {n} # T
          BY <3>1
        <4>2. T \ {n} \in P
          <5> HIDE DEF P
          <5>1. QED
            BY <4>1, <1>1
        <4>3. QED
          BY <4>2
      <3>6. Image(T) # {}
        BY <3>2
      <3>7. RunAll(d, T, s) = Effect(d[n].body, RunAll(d, T \ {n}, s))
        BY <2>1, <2>3, RunAllStep DEF n
      <3>8. RunAll(e, Image(T), s) =
                Effect(e[h[n]].body, RunAll(e, Image(T) \ {h[n]}, s))
        <4> HIDE DEF Image
        <4>1. QED
          BY <2>1, <3>3, <3>6, RunAllStep
      <3>9. d[n].body = e[h[n]].body
        BY <3>1
      <3>10. RunAll(d, T, s) = RunAll(e, Image(T), s)
        <4> HIDE DEF Image
        <4>1. QED
          BY <3>4, <3>5, <3>7, <3>8, <3>9
      <3>11. QED
        BY <3>10
    <2>4. QED
      BY <2>2, <2>3
  <1>2. \A T \in SUBSET names : T \in P
    <2>1. IsFiniteSet(names)
      BY DEF Runnable
    <2> HIDE DEF P
    <2>2. QED
      BY <1>1, <2>1, GrowingSets
  <1>3. Image(names) = others
    OBVIOUS
  <1>4. QED
    BY <1>2, <1>3

(* A journal in two parts, one after the other: what the second part makes *)
(* of what the first has made.                                             *)
LEMMA RunAllInParts ==
    ASSUME NEW d, NEW first, NEW rest, Runnable(d, first), Runnable(d, rest),
           \A m \in first, n \in rest : Before(m, n), NEW s \in States
    PROVE  RunAll(d, first \cup rest, s) = RunAll(d, rest, RunAll(d, first, s))
  <1> DEFINE middle == RunAll(d, first, s)
             P == {T \in SUBSET rest : RunAll(d, first \cup T, s) = RunAll(d, T, middle)}
  <1>1. middle \in States
    BY RunAllStep
  <1> HIDE DEF middle
  <1>2. ASSUME NEW T \in SUBSET rest, \A U \in SUBSET T : U # T => U \in P
        PROVE  T \in P
    <2>1. Runnable(d, T) /\ Runnable(d, first \cup T)
      BY FS_Subset, FS_Union DEF Runnable
    <2>2. CASE T = {}
      <3>1. RunAll(d, {}, middle) = middle
        BY <1>1, <2>1, RunAllStep
      <3>2. QED
        BY <2>2, <3>1 DEF middle
    <2>3. CASE T # {}
      <3> DEFINE n == Latest(T)
      <3>1. n \in T /\ \A m \in T \ {n} : Before(m, n)
        BY <2>1, <2>3, LatestIs DEF Runnable
      <3> HIDE DEF n
      <3>2. \A m \in (first \cup T) \ {n} : Before(m, n)
        BY <3>1
      <3>3. Latest(first \cup T) = n
        BY <2>1, <3>1, <3>2, LatestIsOne DEF Runnable
      <3>4. n \notin first
        BY <3>1 DEF Before, Points, Runnable
      <3>5. (first \cup T) \ {n} = first \cup (T \ {n})
        BY <3>4
      <3>6. RunAll(d, first \cup (T \ {n}), s) = RunAll(d, T \ {n}, middle)
        <4>1. T \ {n} \in SUBSET T /\ T \ {n} # T
          BY <3>1
        <4>2. T \ {n} \in P
          <5> HIDE DEF P
          <5>1. QED
            BY <4>1, <1>2
        <4>3. QED
          BY <4>2
      <3>7. RunAll(d, first \cup T, s) =
                Effect(d[n].body, RunAll(d, (first \cup T) \ {n}, s))
        BY <2>1, <2>3, <3>3, RunAllStep
      <3>8. RunAll(d, T, middle) = Effect(d[n].body, RunAll(d, T \ {n}, middle))
        BY <1>1, <2>1, <2>3, RunAllStep DEF n
      <3>9. QED
        BY <3>5, <3>6, <3>7, <3>8
    <2>4. QED
      BY <2>2, <2>3
  <1>3. \A T \in SUBSET rest : T \in P
    <2>1. IsFiniteSet(rest)
      BY DEF Runnable
    <2> HIDE DEF P
    <2>2. QED
      BY <1>2, <2>1, GrowingSets
  <1>4. QED
    BY <1>3 DEF middle

(* The file that comes last by its version runs last.                      *)
LEMMA LastFile ==
    ASSUME NEW d, NEW names, Runnable(d, names), NEW s \in States,
           NEW n \in names, \A m \in names \ {n} : m[1] < n[1]
    PROVE  RunAll(d, names, s) = Effect(d[n].body, RunAll(d, names \ {n}, s))
  <1>1. \A m \in names \ {n} : Before(m, n)
    BY DEF Before
  <1>2. Latest(names) = n
    BY <1>1, LatestIsOne DEF Runnable
  <1>3. QED
    BY <1>2, RunAllStep

(* Only the bodies of the files that run matter.                           *)
LEMMA SameBodies ==
    ASSUME NEW d, NEW e, NEW names, Runnable(d, names), NEW s \in States,
           \A n \in names : d[n].body = e[n].body
    PROVE  RunAll(d, names, s) = RunAll(e, names, s) /\ Runnable(e, names)
  <1> DEFINE h == [n \in names |-> n]
  <1>1. Runnable(e, names)
    BY DEF Runnable
  <1>2. h \in [names -> names] /\ \A n \in names : h[n] = n
    OBVIOUS
  <1> HIDE DEF h
  <1>3. /\ \A n \in names : d[n].body = e[h[n]].body
        /\ \A m, n \in names : Before(m, n) => Before(h[m], h[n])
        /\ \A o \in names : \E n \in names : o = h[n]
    BY <1>2
  <1>4. QED
    BY <1>1, <1>2, <1>3, RunAllRenamed

LEMMA Starts == Empty \in Schemas /\ Schemas \subseteq States
  BY DEF Empty, Schemas, States

-----------------------------------------------------------------------------
(***************************************************************************)
(* What generate knows of the directory.                                   *)
(***************************************************************************)
Ordered ==
    /\ Appending
    /\ IsFiniteSet(Present(dir))
    /\ ~Collides(dir)

(* Until the file is filled, the body still leads from what is there to    *)
(* what was read, and the file is the last one.                            *)
Making(g) ==
    /\ pc[g] \in {"write", "create"} => Effect(body[g], Replay(dir)) = want[g]
    /\ pc[g] = "fill" =>
          /\ dir[name[g]].body = {}
          /\ \A m \in Present(dir) \ {name[g]} : m[1] < name[g][1]
          /\ Effect(body[g], Replay(dir)) = want[g]
    /\ result[g] \in {"written", "unchanged"} => Replay(dir) = want[g]

Generating ==
    /\ Ordered
    /\ \A g \in Gens : pc[g] # "idle" => result[g] = "none"
    /\ tampers = 0 => \A g \in Gens : Making(g)

LEMMA DirRuns ==
    ASSUME NEW d \in [Names -> Files \cup {NoFile}], IsFiniteSet(Present(d))
    PROVE  Runnable(d, Present(d))
  <1>1. ASSUME NEW n \in Names PROVE n \in Points
    <2>1. Versions \subseteq Nat /\ Slugs \subseteq Nat
      BY DEF Versions
    <2>2. QED
      BY <2>1 DEF Names, Points
  <1>2. \A f \in Files : f.body \in SUBSET Steps
    BY DEF Files
  <1>3. \A n \in Present(d) : n \in Names /\ d[n] \in Files
    BY DEF Present
  <1>4. QED
    BY <1>1, <1>2, <1>3 DEF Runnable

LEMMA InitGenerating == Init => Generating
  <1> SUFFICES ASSUME Init PROVE Generating
    OBVIOUS
  <1>1. Appending
    BY InitAppending
  <1>2. Present(dir) = {}
    BY DEF Init, Present
  <1>3. IsFiniteSet(Present(dir)) /\ ~Collides(dir)
    BY <1>2, FS_EmptySet DEF Collides
  <1>4. \A g \in Gens : pc[g] = "idle" /\ result[g] = "none"
    BY DEF Init
  <1>5. QED
    BY <1>1, <1>3, <1>4 DEF Generating, Ordered, Making

LEMMA OrderedStays ==
    ASSUME ~ClockSteps, \A g, h \in Gens : g = h, Ordered, [Next]_vars
    PROVE  Ordered'
  <1>1. Appending'
    BY StepAppends DEF Ordered
  <1>2. CASE Present(dir)' = Present(dir)
    BY <1>1, <1>2 DEF Ordered, Collides
  <1>3. ASSUME NEW g \in Gens,
               Present(dir)' = Present(dir) \cup {name[g]},
               \A m \in Present(dir) : m[1] < name[g][1]
        PROVE  Ordered'
    <2>1. IsFiniteSet(Present(dir))'
      BY <1>3, FS_AddElement DEF Ordered
    <2>2. \A m \in Present(dir)' : m[1] \in Nat
      BY <1>1 DEF Appending, Present, Names, Versions
    <2>3. ~Collides(dir)'
      BY <1>3, <2>2 DEF Ordered, Collides
    <2>4. QED
      BY <1>1, <2>1, <2>3 DEF Ordered
  <1>4. QED
    BY <1>2, <1>3, StepAppends DEF Ordered

LEMMA CreateMaking ==
    ASSUME TypeOK, Ordered, NEW g \in Gens, Create(g),
           pc[g] # "idle" => result[g] = "none", Making(g), Ordered',
           Present(dir)' = Present(dir) \cup {name[g]},
           \A m \in Present(dir) : m[1] < name[g][1]
    PROVE  Making(g)'
  <1> DEFINE n == name[g]
  <1>1. /\ pc[g] = "create" /\ pc'[g] = "fill" /\ result'[g] = "none"
        /\ dir' = [dir EXCEPT ![n] = [sum |-> NoSum, body |-> {}]]
        /\ UNCHANGED <<want, body, name>>
    BY DEF Create, Goto, TypeOK
  <1>2. n \in Names /\ n[1] \in Nat
    BY DEF TypeOK, Names, Versions
  <1>3. n \notin Present(dir)
    BY <1>2
  <1>4. dir'[n].body = {} /\ \A m \in Present(dir) : dir[m].body = dir'[m].body
    BY <1>1, <1>2, <1>3 DEF TypeOK, Present
  <1>5. Runnable(dir, Present(dir))
    BY DirRuns DEF Ordered, TypeOK
  <1>6. TypeOK' /\ IsFiniteSet(Present(dir))'
    BY DEF Ordered, Appending
  <1>7. Runnable(dir', Present(dir)')
    BY <1>6, DirRuns DEF TypeOK
  <1> HIDE DEF n
  <1>8. Replay(dir') = Effect({}, RunAll(dir', Present(dir), Empty))
    <2>1. Present(dir)' \ {n} = Present(dir) /\ n \in Present(dir)'
      BY <1>3 DEF n
    <2>2. \A m \in Present(dir)' \ {n} : m[1] < n[1]
      BY <2>1 DEF n
    <2>3. RunAll(dir', Present(dir)', Empty)
            = Effect(dir'[n].body, RunAll(dir', Present(dir)' \ {n}, Empty))
      BY <1>7, <2>1, <2>2, LastFile, Starts
    <2>4. QED
      BY <1>4, <2>1, <2>3 DEF Replay
  <1>9. RunAll(dir', Present(dir), Empty) = Replay(dir)
    BY <1>4, <1>5, SameBodies, Starts DEF Replay
  <1>10. Replay(dir) \in States
    BY <1>5, RunAllStep, Starts DEF Replay
  <1>11. Replay(dir') = Replay(dir)
    BY <1>8, <1>9, <1>10, NoSteps
  <1>12. Effect(body[g], Replay(dir)) = want[g]
    BY <1>1 DEF Making
  <1>13. QED
    BY <1>1, <1>4, <1>11, <1>12 DEF Making, n

LEMMA FillMaking ==
    ASSUME TypeOK, Ordered, NEW g \in Gens, Fill(g), Making(g), Ordered',
           Present(dir)' = Present(dir)
    PROVE  Making(g)'
  <1> DEFINE n == name[g]
             others == Present(dir) \ {n}
  <1>1. /\ pc[g] = "fill" /\ pc'[g] = "idle"
        /\ dir' = [dir EXCEPT ![n] = [sum |-> body[g], body |-> body[g]]]
        /\ UNCHANGED <<want, body, name>>
    BY DEF Fill, Return, TypeOK
  <1>2. n \in Present(dir)
    BY <1>1 DEF Ordered, Appending
  <1>3. dir'[n].body = body[g] /\ \A m \in others : dir[m].body = dir'[m].body
    BY <1>1, <1>2 DEF TypeOK, Present
  <1>4. Runnable(dir, Present(dir))
    BY DirRuns DEF Ordered, TypeOK
  <1>5. Runnable(dir', Present(dir))
    <2>1. TypeOK' /\ IsFiniteSet(Present(dir))'
      BY DEF Ordered, Appending
    <2>2. QED
      BY <2>1, DirRuns DEF TypeOK
  <1>6. /\ dir[n].body = {}
        /\ \A m \in others : m[1] < n[1]
        /\ Effect(body[g], Replay(dir)) = want[g]
    BY <1>1 DEF Making
  <1> HIDE DEF n
  <1>7. Runnable(dir, others)
    BY <1>4, FS_Subset DEF Runnable
  <1> HIDE DEF others
  <1>8. RunAll(dir, others, Empty) \in States
    BY <1>7, RunAllStep, Starts
  <1>9. Replay(dir) = RunAll(dir, others, Empty)
    <2>1. Empty \in States /\ \A m \in Present(dir) \ {n} : m[1] < n[1]
      BY <1>6, Starts DEF others
    <2>2. Replay(dir) = Effect(dir[n].body, RunAll(dir, others, Empty))
      BY <1>2, <1>4, <2>1, LastFile DEF Replay, others
    <2>3. QED
      BY <1>6, <1>8, <2>2, NoSteps
  <1>10. Replay(dir') = Effect(body[g], RunAll(dir', others, Empty))
    BY <1>2, <1>3, <1>5, <1>6, LastFile, Starts DEF Replay, others
  <1>11. RunAll(dir', others, Empty) = RunAll(dir, others, Empty)
    BY <1>3, <1>7, SameBodies, Starts
  <1>12. Replay(dir)' = want[g]
    BY <1>6, <1>9, <1>10, <1>11
  <1>13. QED
    BY <1>1, <1>12 DEF Making

LEMMA StepGenerating ==
    ASSUME ~ClockSteps, \A g, h \in Gens : g = h, Generating, [Next]_vars
    PROVE  Generating'
  <1> USE DEF Return, Goto, developer, database
  <1>1. Ordered' /\ TypeOK /\ TypeOK' /\ Ordered
    BY OrderedStays DEF Generating, Ordered, Appending
  <1>2. \A g \in Gens : pc'[g] # "idle" => result'[g] = "none"
    <2>1. ASSUME NEW g \in Gens, Generate(g)
          PROVE  pc'[g] # "idle" => result'[g] = "none"
      BY <2>1, <1>1 DEF Generate, ReadSchema, ReadJournal, Refuse, PickName, Create, Fill,
                        FillFails, Fail, Generating, TypeOK
    <2>2. CASE ~\E g \in Gens : Generate(g)
      BY <2>2 DEF Next, vars, Apply, EditSchema, EditFile, Tick, Generating
    <2>3. QED
      BY <2>1, <2>2
  <1>3. CASE tampers' # 0
    BY <1>1, <1>2, <1>3 DEF Generating
  <1>4. CASE tampers' = 0
    <2>1. tampers = 0 /\ ~EditFile
      <3>1. ~EditFile
        BY <1>1, <1>4 DEF EditFile, TypeOK
      <3>2. ASSUME NEW g \in Gens, Generate(g) PROVE UNCHANGED tampers
        BY <3>2 DEF Generate, ReadSchema, ReadJournal, Refuse, PickName, Create, Fill,
                    FillFails, Fail
      <3>3. Apply \/ EditSchema \/ Tick \/ UNCHANGED vars => UNCHANGED tampers
        BY DEF Apply, EditSchema, Tick, vars
      <3>4. UNCHANGED tampers
        BY <3>1, <3>2, <3>3 DEF Next
      <3>5. QED
        BY <3>1, <3>4, <1>4
    <2> SUFFICES ASSUME NEW g \in Gens PROVE Making(g)'
      BY <1>1, <1>2 DEF Generating
    <2>2. Making(g) /\ (pc[g] # "idle" => result[g] = "none")
      BY <2>1 DEF Generating
    <2>3. CASE ReadJournal(g)
      <3>1. CASE Broken(Replay(dir)) /\ Return(g, "refused") /\ UNCHANGED body
        BY <1>1, <2>3, <3>1 DEF ReadJournal, Making, TypeOK
      <3>2. CASE Replay(dir) = want[g] /\ Return(g, "unchanged") /\ UNCHANGED body
        BY <1>1, <2>3, <3>2 DEF ReadJournal, Making, TypeOK
      <3>3. CASE /\ ~Broken(Replay(dir)) /\ body' = [body EXCEPT ![g] = Changes(Replay(dir), want[g])]
                 /\ Goto(g, "write")
        <4>1. Effect(Changes(Replay(dir), want[g]), Replay(dir)) = want[g]
          BY <1>1, <3>3, ChangesReach DEF Broken, TypeOK
        <4>2. /\ UNCHANGED <<dir, want>> /\ body'[g] = Changes(Replay(dir), want[g])
              /\ pc'[g] = "write" /\ result'[g] = "none"
          BY <1>1, <2>2, <2>3, <3>3 DEF ReadJournal, TypeOK
        <4>3. QED
          BY <4>1, <4>2 DEF Making
      <3>4. QED
        BY <2>3, <3>1, <3>2, <3>3 DEF ReadJournal
    <2>4. CASE Create(g)
      <3>1. /\ Present(dir)' = Present(dir) \cup {name[g]}
            /\ \A m \in Present(dir) : m[1] < name[g][1]
        BY <1>1, <2>4, CreateAppending DEF Ordered, Create, Appending, NameIsNext
      <3>2. QED
        BY <1>1, <2>2, <2>4, <3>1, CreateMaking
    <2>5. CASE Fill(g)
      <3>1. Present(dir)' = Present(dir)
        BY <1>1, <2>5, StepAppends DEF Fill, Create, Ordered
      <3>2. QED
        BY <1>1, <2>2, <2>5, <3>1, FillMaking
    <2>6. CASE FillFails(g)
      BY <1>1, <2>6 DEF FillFails, Making, TypeOK
    <2>7. CASE ReadSchema(g)
      BY <1>1, <2>7 DEF ReadSchema, Making, TypeOK
    <2>8. CASE Refuse(g) \/ Fail(g)
      BY <1>1, <2>8 DEF Refuse, Fail, Making, TypeOK
    <2>9. CASE PickName(g)
      <3>1. /\ pc[g] = "write" /\ pc'[g] = "create"
            /\ UNCHANGED <<dir, want, body, result>>
        BY <1>1, <2>9 DEF PickName, TypeOK
      <3>2. QED
        BY <2>2, <3>1 DEF Making
    <2>10. CASE Apply \/ EditSchema \/ Tick \/ UNCHANGED vars
      <3>1. UNCHANGED <<dir, pc, want, body, name, result>>
        BY <2>10 DEF Apply, EditSchema, Tick, vars
      <3>2. QED
        BY <2>2, <3>1 DEF Making
    <2>11. QED
      BY <2>1, <2>3, <2>4, <2>5, <2>6, <2>7, <2>8, <2>9, <2>10 DEF Next, Generate
  <1>5. QED
    BY <1>3, <1>4

(* What verifyCandidate checked before the file was written is true of the *)
(* directory afterwards, for journals of any length and schemas of any     *)
(* size: the body leads from the replay of the files that were there to    *)
(* the schema that was read, and the new file runs after them all.  Failed *)
(* and killed runs do not matter: what they leave is replayed by the next. *)
THEOREM JournalReproduces ==
    ASSUME ~ClockSteps, \A g, h \in Gens : g = h
    PROVE  Spec => []GeneratedReproduces
  <1>1. Generating /\ [Next]_vars => Generating'
    BY StepGenerating
  <1>2. Generating => GeneratedReproduces
    BY DEF Generating, Making, GeneratedReproduces
  <1>3. QED
    BY <1>1, <1>2, InitGenerating, PTL DEF Spec

-----------------------------------------------------------------------------
(***************************************************************************)
(* What a database knows of the directory: a batch takes every file that   *)
(* is there, so whatever is still pending is later than every row.         *)
(***************************************************************************)
RowFiles(r) == [n \in Versions \X {0} |-> r[n[1]]]
Rowed(r) == {n \in Versions \X {0} : r[n[1]] # NoFile}

Deployed ==
    /\ \A v \in Versions : rows[v] # NoFile => Used(v)
    /\ \A v \in Versions, n \in Present(dir) :
          rows[v] # NoFile /\ ~Recorded(n) => v < n[1]
    /\ deployed = RunAll(RowFiles(rows), Rowed(rows), Empty)

LEMMA RowsRun ==
    ASSUME NEW r \in [Versions -> Files \cup {NoFile}]
    PROVE  Runnable(RowFiles(r), Rowed(r))
  <1>1. IsFiniteSet(Versions \X {0})
    <2>1. 1 \in Int /\ MaxVersion \in Int
      OBVIOUS
    <2>2. IsFiniteSet(Versions)
      BY <2>1, FS_Interval DEF Versions
    <2>3. IsFiniteSet({0})
      BY FS_Singleton
    <2>4. QED
      BY <2>2, <2>3, FS_Product
  <1>2. IsFiniteSet(Rowed(r))
    BY <1>1, FS_Subset DEF Rowed
  <1>3. \A n \in Rowed(r) : n \in Points /\ r[n[1]] \in Files
    BY DEF Rowed, Points, Versions
  <1>4. \A f \in Files : f.body \in SUBSET Steps
    BY DEF Files
  <1>5. \A n \in Rowed(r) : RowFiles(r)[n] = r[n[1]]
    BY DEF Rowed, RowFiles
  <1>6. QED
    BY <1>2, <1>3, <1>4, <1>5 DEF Runnable

(* Rows that record files of the directory, by their versions, replay like *)
(* the files.                                                              *)
LEMMA SameRows ==
    ASSUME TypeOK, Ordered, NEW r \in [Versions -> Files \cup {NoFile}],
           NEW names \in SUBSET Present(dir),
           \A n \in names : r[n[1]] = dir[n],
           \A v \in Versions : r[v] # NoFile => \E n \in names : n[1] = v
    PROVE  RunAll(dir, names, Empty) = RunAll(RowFiles(r), Rowed(r), Empty)
  <1> DEFINE h == [n \in names |-> <<n[1], 0>>]
  <1>1. \A n \in names : /\ n[1] \in Versions /\ n[1] \in Nat /\ n[2] \in Nat
                         /\ n = <<n[1], n[2]>> /\ dir[n] # NoFile
    <2>1. \A n \in Names : n[1] \in Versions /\ n[2] \in Slugs /\ n = <<n[1], n[2]>>
      BY DEF Names
    <2>2. \A n \in names : n \in Names /\ dir[n] # NoFile
      BY DEF Present
    <2>3. Versions \subseteq Nat /\ Slugs \subseteq Nat
      BY DEF Versions
    <2>4. QED
      BY <2>1, <2>2, <2>3
  <1>2. \A n \in names : h[n] = <<n[1], 0>> /\ h[n] \in Rowed(r)
    BY <1>1 DEF Rowed
  <1>3. h \in [names -> Rowed(r)]
    BY <1>2
  <1>4. \A n \in names : dir[n].body = RowFiles(r)[h[n]].body
    BY <1>1, <1>2 DEF RowFiles
  <1>5. \A m, n \in names : Before(m, n) => Before(h[m], h[n])
    <2> SUFFICES ASSUME NEW m \in names, NEW n \in names, Before(m, n)
                 PROVE  Before(h[m], h[n])
      OBVIOUS
    <2>1. m # n
      BY <1>1 DEF Before
    <2>2. m[1] # n[1]
      BY <2>1 DEF Ordered, Collides
    <2>3. QED
      BY <1>1, <1>2, <2>2 DEF Before
  <1>6. \A o \in Rowed(r) : \E n \in names : o = h[n]
    <2> SUFFICES ASSUME NEW o \in Rowed(r) PROVE \E n \in names : o = h[n]
      OBVIOUS
    <2>1. o = <<o[1], 0>> /\ o[1] \in Versions /\ r[o[1]] # NoFile
      BY DEF Rowed
    <2>2. PICK n \in names : n[1] = o[1]
      BY <2>1
    <2>3. QED
      BY <2>1, <2>2, <1>2
  <1> HIDE DEF h
  <1>7. Runnable(dir, names)
    BY DirRuns, FS_Subset DEF Ordered, TypeOK, Runnable
  <1>8. Runnable(RowFiles(r), Rowed(r)) /\ Empty \in States
    BY RowsRun, Starts
  <1>9. QED
    BY <1>3, <1>4, <1>5, <1>6, <1>7, <1>8, RunAllRenamed

(* However the batches were cut: what is deployed and what is pending come *)
(* to one replay of the directory.                                         *)
LEMMA Behind ==
    ASSUME TypeOK, Ordered, Deployed, Agrees
    PROVE  Upgraded = Replay(dir)
  <1> DEFINE done == {n \in Present(dir) : Recorded(n)}
  <1>1. RunAll(dir, done, Empty) = deployed
    <2>1. /\ done \in SUBSET Present(dir)
          /\ \A n \in done : rows[n[1]] = dir[n]
          /\ \A v \in Versions : rows[v] # NoFile => \E n \in done : n[1] = v
      BY DEF Agrees, Recorded, Used
    <2>2. rows \in [Versions -> Files \cup {NoFile}]
      BY DEF TypeOK
    <2> HIDE DEF done
    <2>3. QED
      BY <2>1, <2>2, SameRows DEF Deployed
  <1>2. \A m \in done, n \in Pending : Before(m, n)
    <2>1. \A m \in done : m[1] \in Versions
      BY DEF Present, Names
    <2>2. QED
      BY <2>1 DEF Deployed, Pending, Recorded, Before
  <1>3. Present(dir) = done \cup Pending
    BY DEF Pending
  <1>4. Runnable(dir, Present(dir)) /\ Empty \in States
    BY DirRuns, Starts DEF Ordered, TypeOK
  <1>5. Runnable(dir, done) /\ Runnable(dir, Pending)
    BY <1>3, <1>4, FS_Subset DEF Runnable
  <1> HIDE DEF done
  <1>6. RunAll(dir, done \cup Pending, Empty) = RunAll(dir, Pending, deployed)
    BY <1>1, <1>2, <1>4, <1>5, RunAllInParts
  <1>7. QED
    BY <1>3, <1>6 DEF Upgraded, Replay

LEMMA ApplyDeployed ==
    ASSUME TypeOK, TypeOK', Ordered, Deployed, Apply
    PROVE  Deployed'
  <1>1. UNCHANGED dir /\ deployed' = Replay(dir)
    BY Behind DEF Apply
  <1>2. \A v \in Versions :
            rows'[v] = IF Used(v) THEN dir[CHOOSE n \in Present(dir) : n[1] = v]
                       ELSE NoFile
    BY DEF Apply
  <1>3. \A n \in Present(dir) : n[1] \in Versions /\ dir[n] # NoFile
    BY DEF Present, Names
  <1>4. ASSUME NEW n \in Present(dir) PROVE rows'[n[1]] = dir[n]
    <2>1. Used(n[1])
      BY DEF Used
    <2>2. \A m \in Present(dir) : m[1] = n[1] => m = n
      BY DEF Ordered, Collides
    <2>3. (CHOOSE m \in Present(dir) : m[1] = n[1]) = n
      BY <2>2
    <2>4. QED
      BY <1>2, <1>3, <2>1, <2>3
  <1>5. \A v \in Versions : rows'[v] # NoFile => \E n \in Present(dir) : n[1] = v
    BY <1>2 DEF Used
  <1>6. rows' \in [Versions -> Files \cup {NoFile}]
    BY DEF TypeOK
  <1>7. deployed' = RunAll(RowFiles(rows'), Rowed(rows'), Empty)
    BY <1>1, <1>4, <1>5, <1>6, SameRows DEF Replay
  <1>8. \A v \in Versions : rows'[v] # NoFile => Used(v)'
    BY <1>1, <1>5 DEF Used
  <1>9. \A n \in Present(dir)' : Recorded(n)'
    BY <1>1, <1>3, <1>4 DEF Recorded
  <1>10. QED
    BY <1>7, <1>8, <1>9 DEF Deployed

LEMMA StepDeployed ==
    ASSUME ~ClockSteps, \A g, h \in Gens : g = h, Ordered, Deployed, [Next]_vars
    PROVE  Deployed'
  <1>1. Ordered' /\ TypeOK /\ TypeOK'
    BY OrderedStays DEF Ordered, Appending
  <1>2. CASE Apply
    BY <1>1, <1>2, ApplyDeployed
  <1>3. CASE ~Apply
    <2>1. UNCHANGED <<rows, deployed>>
      <3>1. ASSUME NEW g \in Gens, Generate(g) PROVE UNCHANGED <<rows, deployed>>
        BY <3>1 DEF Generate, ReadSchema, ReadJournal, Refuse, PickName, Create, Fill,
                    FillFails, Fail, database
      <3>2. EditSchema \/ EditFile \/ Tick \/ UNCHANGED vars => UNCHANGED <<rows, deployed>>
        BY DEF EditSchema, EditFile, Tick, vars, database
      <3>3. QED
        BY <1>3, <3>1, <3>2 DEF Next
    <2>2. \/ Present(dir)' = Present(dir)
          \/ \E g \in Gens : /\ Present(dir)' = Present(dir) \cup {name[g]}
                            /\ \A m \in Present(dir) : m[1] < name[g][1]
      BY StepAppends DEF Ordered
    <2>3. \A v : Used(v) => Used(v)'
      BY <2>2 DEF Used
    <2>4. \A v \in Versions, n \in Present(dir)' :
              rows'[v] # NoFile /\ ~Recorded(n)' => v < n[1]
      <3> SUFFICES ASSUME NEW v \in Versions, NEW n \in Present(dir)',
                          rows[v] # NoFile, ~Recorded(n)
                   PROVE  v < n[1]
        BY <2>1 DEF Recorded
      <3>1. CASE n \in Present(dir)
        BY <3>1 DEF Deployed
      <3>2. CASE n \notin Present(dir)
        <4>1. \A m \in Present(dir) : m[1] < n[1]
          BY <2>2, <3>2
        <4>2. PICK m \in Present(dir) : m[1] = v
          BY DEF Deployed, Used
        <4>3. QED
          BY <4>1, <4>2
      <3>3. QED
        BY <3>1, <3>2
    <2>5. QED
      BY <2>1, <2>3, <2>4 DEF Deployed
  <1>4. QED
    BY <1>2, <1>3

LEMMA InitDeployed == Init => Deployed
  <1> SUFFICES ASSUME Init PROVE Deployed
    OBVIOUS
  <1>1. rows \in [Versions -> Files \cup {NoFile}] /\ deployed = Empty
    BY InitType DEF TypeOK, Init
  <1>2. \A v \in Versions : rows[v] = NoFile
    BY DEF Init
  <1>3. Rowed(rows) = {}
    BY <1>2 DEF Rowed
  <1>4. RunAll(RowFiles(rows), {}, Empty) = Empty
    BY <1>1, <1>3, RowsRun, RunAllStep, Starts
  <1>5. QED
    BY <1>1, <1>2, <1>3, <1>4 DEF Deployed

(* What holds of the directory and the database together.                  *)
LEMMA DatabaseInvariant ==
    ASSUME ~ClockSteps, \A g, h \in Gens : g = h
    PROVE  Spec => [](Ordered /\ Deployed)
  <1>1. Init => Ordered /\ Deployed
    BY InitGenerating, InitDeployed DEF Generating
  <1>2. Ordered /\ Deployed /\ [Next]_vars => Ordered' /\ Deployed'
    BY OrderedStays, StepDeployed
  <1>3. QED
    BY <1>1, <1>2, PTL DEF Spec

(* The schema of a database is the replay, in version order, of the files  *)
(* it was applied from: batches add nothing and lose nothing.              *)
THEOREM DatabaseHasNoDrift ==
    ASSUME ~ClockSteps, \A g, h \in Gens : g = h
    PROVE  Spec => []NoDrift
  <1>1. Deployed => NoDrift
    BY DEF Deployed, NoDrift, RowFiles, Rowed
  <1>2. QED
    BY <1>1, DatabaseInvariant, PTL

(* apply takes a database that is anywhere behind a journal that passes    *)
(* check to schema.sql: what check replays from nothing is what apply      *)
(* makes of the pending files.                                             *)
THEOREM CheckedJournalApplies ==
    ASSUME ~ClockSteps, \A g, h \in Gens : g = h
    PROVE  Spec => []CheckedApplies
  <1>1. Ordered /\ Deployed => CheckedApplies
    BY Behind DEF Ordered, Appending, CheckedApplies, Checks
  <1>2. QED
    BY <1>1, DatabaseInvariant, PTL

(* A database of which status shows nothing amiss is one in which verify   *)
(* finds no drift, though the two compute it differently: status compares  *)
(* each row with its file, verify replays the directory from nothing.      *)
THEOREM CleanStatusHasNoDrift ==
    ASSUME ~ClockSteps, \A g, h \in Gens : g = h
    PROVE  Spec => []CleanStatusVerifies
  <1>1. ASSUME Ordered, Deployed PROVE CleanStatusVerifies
    <2> SUFFICES ASSUME ~Collides(dir), Orphans = {},
                        \A n \in Present(dir) : Status(n) = "applied"
                 PROVE  Verify = "ok"
      BY DEF CleanStatusVerifies
    <2>1. TypeOK
      BY <1>1 DEF Ordered, Appending
    <2>2. \A n \in Present(dir) : Recorded(n) /\ rows[n[1]] = dir[n]
      BY DEF Status
    <2>3. Agrees /\ Pending = {}
      BY <2>2 DEF Agrees, Pending, Orphans
    <2>4. Replay(dir) = RunAll(dir, {}, deployed)
      BY <1>1, <2>1, <2>3, Behind DEF Upgraded
    <2>5. deployed \in Schemas
      BY <2>1 DEF TypeOK, Schemas
    <2>6. Runnable(dir, {})
      BY FS_EmptySet DEF Runnable
    <2>7. Replay(dir) = deployed
      BY <2>4, <2>5, <2>6, RunAllStep, Starts
    <2>8. QED
      BY <2>5, <2>7 DEF Verify, Broken
  <1>2. QED
    BY <1>1, DatabaseInvariant, PTL
===============================================================================
