----------------------------- MODULE RunnerProofs -----------------------------
(***************************************************************************)
(* Theorems about Runner, for every set of processes, versions and bodies, *)
(* and for both journal modes: what a process may do to the database, and  *)
(* that Runner implements Ledger.                                          *)
(***************************************************************************)
EXTENDS Runner, TLAPS

USE VersionsAssumption, BodiesAssumption, MaxAppAssumption, MaxEditsAssumption

-----------------------------------------------------------------------------
(* The operators on database contents stay within Contents.                *)

LEMMA FreshType == Fresh \in Contents
  BY DEF Fresh, Contents, Journals

LEMMA RanType ==
    ASSUME NEW d \in Contents, NEW v \in Versions, NEW body \in Bodies
    PROVE  /\ Ran(d, v, body) \in Contents
           /\ Ran(d, v, body).rows = d.rows
           /\ Ran(d, v, body).log =
                Append(d.log, [version |-> v, body |-> body,
                               whole |-> body \notin NulBodies])
  <1> DEFINE run == [version |-> v, body |-> body, whole |-> body \notin NulBodies]
             orphans == (d.orphans \/ body \in Orphaning) /\ body \notin Healing
             logged == [d EXCEPT !.log = Append(d.log, run)]
  <1>1. run \in Runs
    BY DEF Runs
  <1>2. orphans \in BOOLEAN
    OBVIOUS
  <1>3. Append(d.log, run) \in Seq(Runs)
    BY <1>1 DEF Contents
  <1> HIDE DEF run, orphans
  <1>4. logged \in Contents /\ logged.rows = d.rows /\ logged.log = Append(d.log, run)
    BY <1>3 DEF Contents
  <1> HIDE DEF logged
  <1>5. /\ [logged EXCEPT !.orphans = orphans] \in Contents
        /\ [logged EXCEPT !.orphans = orphans].rows = d.rows
        /\ [logged EXCEPT !.orphans = orphans].log = Append(d.log, run)
    BY <1>2, <1>4 DEF Contents
  <1>6. Ran(d, v, body) = [logged EXCEPT !.orphans = orphans]
    BY DEF Ran, logged, run, orphans
  <1>7. QED
    BY <1>5, <1>6 DEF run

LEMMA RecordedType ==
    ASSUME NEW d \in Contents, NEW v \in Versions, NEW body \in Bodies
    PROVE  /\ Recorded(d, v, body) \in Contents
           /\ Recorded(d, v, body).rows = [d.rows EXCEPT ![v] = body]
           /\ Recorded(d, v, body).log = d.log
  BY DEF Recorded, Contents, Journals

LEMMA FirstIsUnique ==
    ASSUME NEW S \in SUBSET Versions, NEW v \in S, NEW w \in S,
           First(v, S), First(w, S)
    PROVE  v = w
  BY DEF First

(* Running a whole body and recording it keeps rows and runs in agreement. *)
LEMMA RunAndRecord ==
    ASSUME NEW d \in Contents, Consistent(d),
           NEW v \in Versions, NEW body \in Bodies,
           body \notin NulBodies, d.rows[v] = NoBody
    PROVE  Consistent(Recorded(Ran(d, v, body), v, body))
  <1> DEFINE e == Recorded(Ran(d, v, body), v, body)
             run == [version |-> v, body |-> body, whole |-> body \notin NulBodies]
  <1>1. /\ e.rows = [d.rows EXCEPT ![v] = body]
        /\ e.log = Append(d.log, run)
    BY RanType, RecordedType
  <1>2. run.version = v /\ run.body = body /\ run.whole
    OBVIOUS
  <1> HIDE DEF e, run
  <1>3. d.log \in Seq(Runs) /\ d.rows \in [Versions -> Bodies \cup {NoBody}]
    BY DEF Contents, Journals
  <1>4. /\ Len(e.log) = Len(d.log) + 1
        /\ \A i \in 1 .. Len(d.log) : e.log[i] = d.log[i]
        /\ e.log[Len(d.log) + 1] = run
    BY <1>1, <1>3
  <1>5. \A i \in 1 .. Len(d.log) :
          d.log[i].version \in Versions /\ d.log[i].body \in Bodies
    <2>1. \A i \in 1 .. Len(d.log) : d.log[i] \in Runs
      BY <1>3
    <2>2. QED
      BY <2>1 DEF Runs
  <1>6. \A i \in 1 .. Len(d.log) : d.log[i].version # v
    BY <1>5 DEF Consistent
  <1>7. \A i \in 1 .. Len(e.log) :
          e.log[i].whole /\ e.rows[e.log[i].version] = e.log[i].body
    <2> TAKE i \in 1 .. Len(e.log)
    <2>1. CASE i = Len(d.log) + 1
      BY <2>1, <1>1, <1>2, <1>3, <1>4
    <2>2. CASE i \in 1 .. Len(d.log)
      BY <2>2, <1>1, <1>3, <1>4, <1>5, <1>6 DEF Consistent
    <2>3. QED
      BY <2>1, <2>2, <1>3, <1>4
  <1>8. \A i, j \in 1 .. Len(e.log) :
          e.log[i].version = e.log[j].version => i = j
    <2> SUFFICES ASSUME NEW i \in 1 .. Len(e.log), NEW j \in 1 .. Len(e.log),
                        e.log[i].version = e.log[j].version
                 PROVE  i = j
      OBVIOUS
    <2>1. CASE i \in 1 .. Len(d.log) /\ j \in 1 .. Len(d.log)
      BY <2>1, <1>4 DEF Consistent
    <2>2. CASE i = Len(d.log) + 1 /\ j \in 1 .. Len(d.log)
      <3>1. e.log[i].version = v
        BY <2>2, <1>2, <1>4
      <3>2. e.log[j].version # v
        BY <2>2, <1>4, <1>6
      <3>3. QED
        BY <3>1, <3>2
    <2>3. CASE j = Len(d.log) + 1 /\ i \in 1 .. Len(d.log)
      <3>1. e.log[j].version = v
        BY <2>3, <1>2, <1>4
      <3>2. e.log[i].version # v
        BY <2>3, <1>4, <1>6
      <3>3. QED
        BY <3>1, <3>2
    <2>4. CASE i = Len(d.log) + 1 /\ j = Len(d.log) + 1
      BY <2>4
    <2>5. QED
      BY <2>1, <2>2, <2>3, <2>4, <1>3, <1>4
  <1>9. \A w \in Present(e.rows) :
          \E i \in 1 .. Len(e.log) : e.log[i].version = w
    <2> TAKE w \in Present(e.rows)
    <2>1. CASE w = v
      <3>1. Len(d.log) + 1 \in 1 .. Len(e.log)
        BY <1>3, <1>4
      <3>2. QED
        BY <3>1, <2>1, <1>2, <1>4
    <2>2. CASE w # v
      <3>1. w \in Present(d.rows)
        BY <2>2, <1>1, <1>3 DEF Present
      <3>2. PICK i \in 1 .. Len(d.log) : d.log[i].version = w
        BY <3>1 DEF Consistent
      <3>3. i \in 1 .. Len(e.log) /\ e.log[i].version = w
        BY <3>2, <1>3, <1>4
      <3>4. QED
        BY <3>3
    <2>3. QED
      BY <2>1, <2>2
  <1>10. Consistent(e)
    BY <1>7, <1>8, <1>9 DEF Consistent
  <1>11. QED
    BY <1>10 DEF e

(* Rows and runs agree in contents that differ only in what the            *)
(* application owns.                                                       *)
LEMMA SameLedger ==
    ASSUME NEW d, NEW e, Consistent(d), e.rows = d.rows, e.log = d.log
    PROVE  Consistent(e)
  BY DEF Consistent

LEMMA FreshConsistent == Consistent(Fresh)
  BY DEF Consistent, Fresh, Present

-----------------------------------------------------------------------------
(* The inductive invariant.                                                *)

LEMMA InitInv == Init => Inv
  <1> SUFFICES ASSUME Init PROVE Inv
    OBVIOUS
  <1>1. TypeOK
    BY FreshType DEF Init, TypeOK, Stages, Outcomes, Contents
  <1>2. RowsMatchRuns
    BY FreshConsistent DEF Init, RowsMatchRuns
  <1>3. \A p \in Procs : WorkInv(p)
    BY DEF Init, WorkInv
  <1>4. QED
    BY <1>1, <1>2, <1>3 DEF Inv

(* A process is not disturbed by the steps of the others.                  *)
LEMMA Undisturbed ==
    ASSUME NEW q, WorkInv(q), pc'[q] = pc[q], files'[q] = files[q],
           work'[q] = work[q], todo'[q] = todo[q]
    PROVE  WorkInv(q)'
  BY DEF WorkInv

(* However a call ends, the others and the database keep what they had.    *)
LEMMA ReturnInv ==
    ASSUME Inv, NEW p \in Procs, NEW o \in Outcomes, Return(p, o)
    PROVE  Inv'
  <1> USE DEF Inv, Return
  <1>1. TypeOK'
    BY FreshType DEF TypeOK, Stages
  <1>2. RowsMatchRuns'
    BY DEF RowsMatchRuns
  <1>3. \A q \in Procs : WorkInv(q)'
    <2> TAKE q \in Procs
    <2>1. CASE q = p
      BY <2>1 DEF WorkInv, TypeOK
    <2>2. CASE q # p
      BY <2>2, Undisturbed DEF TypeOK
    <2>3. QED
      BY <2>1, <2>2
  <1>4. QED
    BY <1>1, <1>2, <1>3

(* A step that opens the transaction, on contents that are consistent.     *)
LEMMA OpenInv ==
    ASSUME Inv, NEW p \in Procs, BeginReading(p) \/ BeginWriting(p)
    PROVE  Inv'
  <1>1. /\ pc' = [pc EXCEPT ![p] = "plan"]
        /\ base' = [base EXCEPT ![p] = db]
        /\ UNCHANGED <<dir, edits, wal, db, files, image, todo, outcome>>
        /\ \E l \in {"read", "write"} : lock' = [lock EXCEPT ![p] = l]
        /\ \E d \in {db, [db EXCEPT !.table = TRUE]} : work' = [work EXCEPT ![p] = d]
    BY DEF BeginReading, BeginWriting, Goto
  <1>2. PICK d \in {db, [db EXCEPT !.table = TRUE]} : work' = [work EXCEPT ![p] = d]
    BY <1>1
  <1>3. d \in Contents /\ d.rows = db.rows /\ d.log = db.log
    BY DEF Inv, TypeOK, Contents
  <1>4. TypeOK'
    BY <1>1, <1>2, <1>3 DEF Inv, TypeOK, Stages
  <1>5. RowsMatchRuns'
    BY <1>1 DEF Inv, RowsMatchRuns
  <1>6. \A q \in Procs : WorkInv(q)'
    <2> TAKE q \in Procs
    <2>1. CASE q = p
      <3>1. Consistent(d)
        BY <1>3, SameLedger DEF Inv, RowsMatchRuns
      <3>2. pc'[p] = "plan" /\ work'[p] = d
        BY <1>1, <1>2 DEF Inv, TypeOK
      <3>3. QED
        BY <2>1, <3>1, <3>2 DEF WorkInv
    <2>2. CASE q # p
      BY <2>2, <1>1, <1>2, Undisturbed DEF Inv, TypeOK
    <2>3. QED
      BY <2>1, <2>2
  <1>7. QED
    BY <1>4, <1>5, <1>6 DEF Inv

LEMMA PlanInv ==
    ASSUME Inv, NEW p \in Procs, Plan(p)
    PROVE  Inv'
  <1> USE DEF Plan, Goto
  <1>1. Pending(files[p], work[p].rows) \subseteq Versions
    BY DEF Pending, Present
  <1>2. TypeOK'
    BY <1>1 DEF Inv, TypeOK, Stages
  <1>3. RowsMatchRuns'
    BY DEF Inv, RowsMatchRuns
  <1>4. \A q \in Procs : WorkInv(q)'
    <2> TAKE q \in Procs
    <2>1. CASE q = p
      <3>1. /\ pc'[p] = "run" /\ work'[p] = work[p] /\ files'[p] = files[p]
            /\ todo'[p] = Pending(files[p], work[p].rows)
        BY DEF Inv, TypeOK
      <3>2. \A v \in todo'[p] : work[p].rows[v] = NoBody /\ files[p][v] \in Bodies
        BY <3>1 DEF Inv, TypeOK, Pending, Present, Journals, Contents
      <3>3. Consistent(work[p])
        BY DEF Inv, WorkInv
      <3>4. QED
        BY <2>1, <3>1, <3>2, <3>3 DEF WorkInv
    <2>2. CASE q # p
      BY <2>2, Undisturbed DEF Inv, TypeOK
    <2>3. QED
      BY <2>1, <2>2
  <1>5. QED
    BY <1>2, <1>3, <1>4 DEF Inv

LEMMA ExecuteInv ==
    ASSUME Inv, NEW p \in Procs, Execute(p)
    PROVE  Inv'
  <1>1. PICK v \in todo[p] :
          /\ pc[p] = "run"
          /\ First(v, todo[p])
          /\ files[p][v] \notin NulBodies
          /\ lock' = [lock EXCEPT ![p] = "write"]
          /\ work' = [work EXCEPT ![p] = Ran(work[p], v, files[p][v])]
          /\ pc' = [pc EXCEPT ![p] = "record"]
          /\ UNCHANGED <<dir, edits, wal, db, files, image, base, todo, outcome>>
    BY DEF Execute, Goto
  <1>2. /\ v \in Versions /\ work[p] \in Contents
        /\ files[p][v] \in Bodies /\ work[p].rows[v] = NoBody
        /\ Consistent(work[p])
    BY <1>1 DEF Inv, TypeOK, WorkInv
  <1>3. /\ Ran(work[p], v, files[p][v]) \in Contents
        /\ Ran(work[p], v, files[p][v]).rows = work[p].rows
    <2>1. \A d \in Contents, u \in Versions, b \in Bodies :
            Ran(d, u, b) \in Contents /\ Ran(d, u, b).rows = d.rows
      BY RanType, Zenon
    <2>2. QED
      BY <1>2, <2>1
  <1>4. TypeOK'
    BY <1>1, <1>3 DEF Inv, TypeOK, Stages
  <1>5. RowsMatchRuns'
    BY <1>1 DEF Inv, RowsMatchRuns
  <1>6. \A q \in Procs : WorkInv(q)'
    <2> TAKE q \in Procs
    <2>1. CASE q = p
      <3>1. /\ pc'[p] = "record" /\ work'[p] = Ran(work[p], v, files[p][v])
            /\ files'[p] = files[p] /\ todo'[p] = todo[p]
        BY <1>1 DEF Inv, TypeOK
      <3>2. \A w \in todo[p] : work[p].rows[w] = NoBody /\ files[p][w] \in Bodies
        BY <1>1 DEF Inv, WorkInv
      <3>3. Consistent(Recorded(work'[p], v, files[p][v]))
        BY <1>1, <1>2, <3>1, RunAndRecord
      <3>4. QED
        BY <2>1, <1>1, <1>3, <3>1, <3>2, <3>3 DEF WorkInv
    <2>2. CASE q # p
      BY <2>2, <1>1, Undisturbed DEF Inv, TypeOK
    <2>3. QED
      BY <2>1, <2>2
  <1>7. QED
    BY <1>4, <1>5, <1>6 DEF Inv

LEMMA RecordInv ==
    ASSUME Inv, NEW p \in Procs, Record(p)
    PROVE  Inv'
  <1>1. PICK v \in todo[p] :
          /\ pc[p] = "record"
          /\ First(v, todo[p])
          /\ work' = [work EXCEPT ![p] = Recorded(work[p], v, files[p][v])]
          /\ todo' = [todo EXCEPT ![p] = todo[p] \ {v}]
          /\ pc' = [pc EXCEPT ![p] = "run"]
          /\ UNCHANGED <<dir, edits, wal, db, files, image, lock, base, outcome>>
    BY DEF Record, Goto
  <1>2. /\ v \in Versions /\ work[p] \in Contents /\ todo[p] \in SUBSET Versions
        /\ \A w \in todo[p] : work[p].rows[w] = NoBody /\ files[p][w] \in Bodies
    BY <1>1 DEF Inv, TypeOK, WorkInv
  <1>3. /\ Recorded(work[p], v, files[p][v]) \in Contents
        /\ Recorded(work[p], v, files[p][v]).rows =
              [work[p].rows EXCEPT ![v] = files[p][v]]
    BY <1>2, RecordedType
  <1>4. TypeOK'
    BY <1>1, <1>3 DEF Inv, TypeOK, Stages
  <1>5. RowsMatchRuns'
    BY <1>1 DEF Inv, RowsMatchRuns
  <1>6. \A q \in Procs : WorkInv(q)'
    <2> TAKE q \in Procs
    <2>1. CASE q = p
      <3>1. /\ pc'[p] = "run" /\ work'[p] = Recorded(work[p], v, files[p][v])
            /\ files'[p] = files[p] /\ todo'[p] = todo[p] \ {v}
        BY <1>1 DEF Inv, TypeOK
      <3>2. PICK w \in todo[p] :
              /\ First(w, todo[p])
              /\ Consistent(Recorded(work[p], w, files[p][w]))
        BY <1>1 DEF Inv, WorkInv
      <3>3. w = v
        BY <1>1, <1>2, <3>2, FirstIsUnique
      <3>4. \A u \in todo'[p] : work'[p].rows[u] = NoBody /\ files[p][u] \in Bodies
        BY <1>2, <1>3, <3>1 DEF Contents, Journals
      <3>5. QED
        BY <2>1, <3>1, <3>2, <3>3, <3>4 DEF WorkInv
    <2>2. CASE q # p
      BY <2>2, <1>1, Undisturbed DEF Inv, TypeOK
    <2>3. QED
      BY <2>1, <2>2
  <1>7. QED
    BY <1>4, <1>5, <1>6 DEF Inv

LEMMA CommitInv ==
    ASSUME Inv, NEW p \in Procs, Commit(p)
    PROVE  Inv'
  <1> USE DEF Commit, Goto
  <1>1. work[p] \in Contents /\ Consistent(work[p])
    BY DEF Inv, TypeOK, WorkInv
  <1>2. TypeOK'
    BY <1>1, FreshType DEF Inv, TypeOK, Stages
  <1>3. RowsMatchRuns'
    BY <1>1 DEF Inv, RowsMatchRuns
  <1>4. \A q \in Procs : WorkInv(q)'
    <2> TAKE q \in Procs
    <2>1. CASE q = p
      BY <2>1 DEF Inv, TypeOK, WorkInv
    <2>2. CASE q # p
      BY <2>2, Undisturbed DEF Inv, TypeOK
    <2>3. QED
      BY <2>1, <2>2
  <1>5. QED
    BY <1>2, <1>3, <1>4 DEF Inv

(* Steps that leave the transaction alone: loading, the snapshot, waiting, *)
(* and the checks before COMMIT.                                           *)
LEMMA QuietInv ==
    ASSUME Inv, NEW p \in Procs,
           Load(p) \/ Backup(p) \/ WaitToCreate(p) \/ Check(p)
    PROVE  Inv'
  <1> USE DEF Load, Backup, WaitToCreate, Check, Goto, local
  <1>1. TypeOK'
    BY DEF Inv, TypeOK, Stages, Outcomes
  <1>2. RowsMatchRuns'
    BY DEF Inv, TypeOK, RowsMatchRuns
  <1>3. \A q \in Procs : WorkInv(q)'
    <2> TAKE q \in Procs
    <2>1. CASE q = p
      BY <2>1 DEF Inv, TypeOK, WorkInv
    <2>2. CASE q # p
      BY <2>2, Undisturbed DEF Inv, TypeOK
    <2>3. QED
      BY <2>1, <2>2
  <1>4. QED
    BY <1>1, <1>2, <1>3 DEF Inv

(* The environment: the application writes, a developer edits a file.      *)
LEMMA EnvironmentInv ==
    ASSUME Inv,
           \/ AppWrite
           \/ \E v \in Versions, b \in Bodies \cup {NoBody} : Edit(v, b)
    PROVE  Inv'
  <1> USE DEF local
  <1>1. CASE AppWrite
    <2>1. PICK o \in BOOLEAN : db' = [db EXCEPT !.app = db.app + 1, !.orphans = o]
      BY <1>1 DEF AppWrite
    <2>2. db' \in Contents /\ db'.rows = db.rows /\ db'.log = db.log
      <3>1. db \in Contents /\ db.app < MaxApp
        BY <1>1 DEF AppWrite, Inv, TypeOK
      <3>2. db.app \in 0 .. MaxApp
        BY <3>1 DEF Contents
      <3>3. db.app + 1 \in 0 .. MaxApp
        BY <3>1, <3>2
      <3>4. QED
        BY <2>1, <3>1, <3>3 DEF Contents
    <2>3. TypeOK'
      BY <1>1, <2>2 DEF AppWrite, Inv, TypeOK
    <2>4. RowsMatchRuns'
      BY <1>1, <2>2, SameLedger DEF AppWrite, Inv, RowsMatchRuns
    <2>5. \A q \in Procs : WorkInv(q)'
      BY <1>1, Undisturbed DEF AppWrite, Inv
    <2>6. QED
      BY <2>3, <2>4, <2>5 DEF Inv
  <1>2. ASSUME NEW v \in Versions, NEW b \in Bodies \cup {NoBody}, Edit(v, b)
        PROVE  Inv'
    <2>1. TypeOK'
      BY <1>2 DEF Edit, Inv, TypeOK, Journals
    <2>2. RowsMatchRuns'
      BY <1>2 DEF Edit, Inv, RowsMatchRuns
    <2>3. \A q \in Procs : WorkInv(q)'
      BY <1>2, Undisturbed DEF Edit, Inv
    <2>4. QED
      BY <2>1, <2>2, <2>3 DEF Inv
  <1>3. QED
    BY <1>1, <1>2

LEMMA NextInv == Inv /\ [Next]_vars => Inv'
  <1> SUFFICES ASSUME Inv, [Next]_vars PROVE Inv'
    OBVIOUS
  <1>1. CASE UNCHANGED vars
    BY <1>1 DEF vars, Inv, TypeOK, RowsMatchRuns, WorkInv
  <1>2. ASSUME NEW p \in Procs, Advance(p) \/ Fail(p) \/ RestoreFails(p) \/ Crash(p)
        PROVE  Inv'
    <2>1. CASE Load(p) \/ Backup(p) \/ WaitToCreate(p) \/ Check(p)
      BY <2>1, QuietInv
    <2>2. CASE BeginReading(p) \/ BeginWriting(p)
      BY <2>2, OpenInv
    <2>3. CASE Plan(p)
      BY <2>3, PlanInv
    <2>4. CASE Execute(p)
      BY <2>4, ExecuteInv
    <2>5. CASE Record(p)
      BY <2>5, RecordInv
    <2>6. CASE Commit(p)
      BY <2>6, CommitInv
    <2>7. CASE \E o \in Outcomes : Return(p, o)
      BY <2>7, ReturnInv
    <2>8. QED
      BY <1>2, <2>1, <2>2, <2>3, <2>4, <2>5, <2>6, <2>7
      DEF Advance, RefusePlan, RefuseNul, RefuseOrphans, UpgradeBusy,
          WaitTimesOut, Restore, Fail, RestoreFails, Crash, Outcomes
  <1>3. CASE \/ AppWrite
             \/ \E v \in Versions, b \in Bodies \cup {NoBody} : Edit(v, b)
    BY <1>3, EnvironmentInv
  <1>4. QED
    BY <1>1, <1>2, <1>3 DEF Next

-----------------------------------------------------------------------------
(* Every variable keeps its type, whatever processes, edits and faults do. *)
THEOREM TypeCorrect == Spec => []TypeOK
  <1>1. Inv => TypeOK
    BY DEF Inv
  <1>2. QED
    BY <1>1, InitInv, NextInv, PTL DEF Spec

(* The bookkeeping rows are the truth about what ran: each recorded        *)
(* migration ran exactly once, whole and with the recorded body, and       *)
(* nothing ran unrecorded, in the database and in every snapshot, for any  *)
(* number of processes that race, fail or die, in both journal modes.  It  *)
(* needs no property of SQLite's locks: only that a transaction commits    *)
(* what it read and wrote as a whole.                                      *)
THEOREM BookkeepingIsTrue == Spec => []RowsMatchRuns
  <1>1. Inv => RowsMatchRuns
    BY DEF Inv
  <1>2. QED
    BY <1>1, InitInv, NextInv, PTL DEF Spec

-----------------------------------------------------------------------------
(***************************************************************************)
(* Runner implements Ledger: what Apply does to the database is a sequence *)
(* of whole batches.  Unlike the theorems above this one rests on SQLite's *)
(* locks: a transaction that commits must have read the database as it     *)
(* still is.                                                               *)
(***************************************************************************)
(* What the database may become: it only grows.                            *)
Grown(d, e) ==
    /\ IsPrefixOf(d.log, e.log)
    /\ d.app <= e.app
    /\ \A v \in Present(d.rows) : e.rows[v] = d.rows[v]

(* The batch of a transaction, and the part of it that has run.            *)
Batch(p) == Pending(files[p], base[p].rows)
Done(p) == Batch(p) \ todo[p]

(* A transaction that may still write has read what there is.              *)
LockInv(p) ==
    /\ lock[p] # "none" <=> InTransaction(p)
    /\ pc[p] = "record" => Writing(p)
    /\ InTransaction(p) /\ (wal => Writing(p)) => base[p] = db

OneWriter == \A p, q \in Procs : Writing(p) /\ Writing(q) => p = q

(* A transaction has read a state of the database's past and left what the *)
(* application owns alone.                                                 *)
ReadInv(p) ==
    /\ InTransaction(p) =>
          /\ work[p].table
          /\ work[p].app = base[p].app
          /\ Grown(base[p], db)
          /\ ~Writing(p) => work[p] = base[p]
    /\ pc[p] = "plan" => work[p].rows = base[p].rows /\ work[p].log = base[p].log

(* It has run, in order, the part of its batch that is not still to do.    *)
BatchInv(p) ==
    /\ pc[p] \in {"run", "record", "commit"} =>
          /\ Mismatched(files[p], base[p].rows) = {}
          /\ Missing(files[p], base[p].rows) = {}
          /\ todo[p] \subseteq Batch(p)
          /\ \A v \in Versions :
                work[p].rows[v] = IF v \in todo[p] THEN NoBody ELSE files[p][v]
          /\ \A v \in Done(p) : files[p][v] \notin NulBodies
          /\ \A v \in Done(p), w \in todo[p] : v < w
    /\ pc[p] \in {"run", "commit"} =>
          Continues(base[p].log, work[p].log, files[p], Done(p))
    /\ pc[p] = "record" =>
          \E v \in todo[p] :
              /\ First(v, todo[p])
              /\ files[p][v] \notin NulBodies
              /\ Continues(base[p].log, work[p].log, files[p], Done(p) \cup {v})
    /\ pc[p] = "commit" => ~work[p].orphans
    /\ pc[p] \notin {"run", "record"} => todo[p] = {}

(* Its snapshot is older than what it has read.                            *)
ImageInv(p) ==
    image[p] # NoImage =>
        /\ Grown(image[p], db)
        /\ InTransaction(p) => Grown(image[p], base[p])

(* What OkMeansRecorded says of one process.                               *)
OkInv(p) ==
    pc[p] = "restore" \/ outcome[p] = "ok" =>
        \A v \in Present(files[p]) : db.rows[v] = files[p][v]

ProcInv(p) == LockInv(p) /\ ReadInv(p) /\ BatchInv(p) /\ ImageInv(p) /\ OkInv(p)

IInv == Inv /\ OneWriter /\ \A p \in Procs : ProcInv(p)

USE VersionsAssumption, BodiesAssumption, MaxAppAssumption, MaxEditsAssumption

-----------------------------------------------------------------------------
(* Growth is a preorder, and a batch is grown run by run.                  *)

LEMMA GrownReflexive ==
    ASSUME NEW d \in Contents
    PROVE  Grown(d, d)
  BY DEF Grown, IsPrefixOf, Contents

LEMMA GrownTransitive ==
    ASSUME NEW c \in Contents, NEW d \in Contents, NEW e \in Contents,
           Grown(c, d), Grown(d, e)
    PROVE  Grown(c, e)
  <1>1. IsPrefixOf(c.log, e.log)
    <2>1. Len(c.log) <= Len(e.log)
      BY DEF Grown, IsPrefixOf, Contents
    <2>2. \A i \in 1 .. Len(c.log) : c.log[i] = e.log[i]
      BY DEF Grown, IsPrefixOf, Contents
    <2>3. QED
      BY <2>1, <2>2 DEF IsPrefixOf
  <1>2. c.app <= e.app
    BY DEF Grown, Contents
  <1>3. \A v \in Present(c.rows) : e.rows[v] = c.rows[v]
    BY DEF Grown, Present
  <1>4. QED
    BY <1>1, <1>2, <1>3 DEF Grown

LEMMA NothingToContinue ==
    ASSUME NEW log \in Seq(Runs), NEW given
    PROVE  Continues(log, log, given, {})
  BY DEF Continues

LEMMA ContinuesRunByRun ==
    ASSUME NEW earlier \in Seq(Runs), NEW later \in Seq(Runs), NEW given,
           NEW done \in SUBSET Versions, NEW run \in Runs,
           Continues(earlier, later, given, done),
           \A u \in done : u < run.version,
           run.body = given[run.version]
    PROVE  Continues(earlier, Append(later, run), given, done \cup {run.version})
  <1> DEFINE longer == Append(later, run)
             last == Len(later) + 1
             fresh == Len(earlier) + 1 .. Len(later)
  <1>1. /\ Len(longer) = last
        /\ \A i \in 1 .. Len(later) : longer[i] = later[i]
        /\ longer[last] = run
    OBVIOUS
  <1>2. /\ Len(earlier) \in Nat /\ Len(later) \in Nat
        /\ Len(later) >= Len(earlier)
        /\ \A i \in 1 .. Len(earlier) : later[i] = earlier[i]
        /\ \A i, j \in fresh : i < j => later[i].version < later[j].version
        /\ {later[i].version : i \in fresh} = done
        /\ \A i \in fresh : later[i].body = given[later[i].version]
    BY DEF Continues
  <1>3. /\ Len(earlier) + 1 .. Len(longer) = fresh \cup {last}
        /\ fresh \subseteq 1 .. Len(later)
        /\ last \notin fresh
    BY <1>1, <1>2
  <1> HIDE DEF longer
  <1>4. \A i \in fresh : later[i].version \in done
    BY <1>2
  <1>5. \A i, j \in fresh \cup {last} :
            i < j => longer[i].version < longer[j].version
    <2> SUFFICES ASSUME NEW i \in fresh \cup {last}, NEW j \in fresh \cup {last},
                        i < j
                 PROVE  longer[i].version < longer[j].version
      OBVIOUS
    <2>1. i \in fresh
      BY <1>2
    <2>2. longer[i].version = later[i].version
      BY <2>1, <1>1, <1>3
    <2>3. CASE j = last
      BY <2>1, <2>2, <2>3, <1>1, <1>4
    <2>4. CASE j \in fresh
      BY <2>1, <2>2, <2>4, <1>1, <1>2, <1>3
    <2>5. QED
      BY <2>3, <2>4
  <1>6. {longer[i].version : i \in fresh \cup {last}} = done \cup {run.version}
    <2>1. \A i \in fresh : longer[i].version = later[i].version
      BY <1>1, <1>3
    <2>2. longer[last].version = run.version
      BY <1>1
    <2> HIDE DEF last, fresh
    <2>3. QED
      BY <1>2, <2>1, <2>2
  <1>7. \A i \in fresh \cup {last} : longer[i].body = given[longer[i].version]
    BY <1>1, <1>2, <1>3
  <1>8. /\ Len(longer) >= Len(earlier)
        /\ \A i \in 1 .. Len(earlier) : longer[i] = earlier[i]
    BY <1>1, <1>2
  <1>9. Continues(earlier, longer, given, done \cup {run.version})
    BY <1>3, <1>5, <1>6, <1>7, <1>8 DEF Continues
  <1>10. QED
    BY <1>9 DEF longer

-----------------------------------------------------------------------------
(* Steps that leave the database alone.                                    *)

(* Nothing of a process q other than p changes.                            *)
Elsewhere(p) ==
    \A q \in Procs \ {p} :
        /\ pc'[q] = pc[q] /\ outcome'[q] = outcome[q]
        /\ files'[q] = files[q] /\ image'[q] = image[q]
        /\ lock'[q] = lock[q] /\ base'[q] = base[q]
        /\ work'[q] = work[q] /\ todo'[q] = todo[q]

(* What a process has read and promised outlives the growth of the         *)
(* database.                                                               *)
LEMMA Outlives ==
    ASSUME Inv, db' \in Contents, Grown(db, db'), NEW q \in Procs,
           ReadInv(q), BatchInv(q), ImageInv(q), OkInv(q),
           pc'[q] = pc[q], outcome'[q] = outcome[q],
           files'[q] = files[q], image'[q] = image[q], lock'[q] = lock[q],
           base'[q] = base[q], work'[q] = work[q], todo'[q] = todo[q]
    PROVE  ReadInv(q)' /\ BatchInv(q)' /\ ImageInv(q)' /\ OkInv(q)'
  <1>1. /\ db \in Contents /\ base[q] \in Contents
        /\ image[q] # NoImage => image[q] \in Contents
    BY DEF Inv, TypeOK
  <1>2. Grown(base[q], db) => Grown(base[q], db')
    BY <1>1, GrownTransitive
  <1>3. image[q] # NoImage /\ Grown(image[q], db) => Grown(image[q], db')
    BY <1>1, GrownTransitive
  <1>4. ReadInv(q)'
    BY <1>2 DEF ReadInv, InTransaction, Writing
  <1>5. BatchInv(q)'
    BY DEF BatchInv, Batch, Done
  <1>6. ImageInv(q)'
    BY <1>3 DEF ImageInv, InTransaction
  <1>7. OkInv(q)'
    <2>1. SUFFICES ASSUME pc[q] = "restore" \/ outcome[q] = "ok",
                          NEW v \in Present(files[q])
                   PROVE  db'.rows[v] = files[q][v]
      BY DEF OkInv
    <2>2. db.rows[v] = files[q][v]
      BY <2>1 DEF OkInv
    <2>3. v \in Present(db.rows)
      BY <2>2 DEF Present
    <2>4. QED
      BY <2>2, <2>3 DEF Grown
  <1>8. QED
    BY <1>4, <1>5, <1>6, <1>7

(* A step of p that leaves the database alone keeps IInv when it keeps     *)
(* what IInv says of p, and becomes a writer only when it may.             *)
LEMMA StepOfOne ==
    ASSUME IInv, Inv', NEW p \in Procs, Elsewhere(p), UNCHANGED <<wal, db>>,
           Writing(p)' => Writing(p) \/ MayWrite(p),
           ProcInv(p)'
    PROVE  IInv'
  <1>1. OneWriter'
    BY DEF IInv, OneWriter, Elsewhere, MayWrite, Others, Writing
  <1>2. ASSUME NEW q \in Procs \ {p}
        PROVE  ProcInv(q)'
    <2>1. db \in Contents /\ db' = db /\ Grown(db, db')
      BY GrownReflexive DEF IInv, Inv, TypeOK
    <2>2. ProcInv(q)
      BY DEF IInv
    <2>3. ReadInv(q)' /\ BatchInv(q)' /\ ImageInv(q)' /\ OkInv(q)'
      BY <2>1, <2>2, Outlives DEF ProcInv, Elsewhere, IInv
    <2>4. LockInv(q)'
      BY <2>2 DEF ProcInv, LockInv, Elsewhere, InTransaction, Writing
    <2>5. QED
      BY <2>3, <2>4 DEF ProcInv
  <1>3. QED
    BY <1>1, <1>2 DEF IInv

LEMMA ReturnIInv ==
    ASSUME IInv, NEW p \in Procs, NEW o \in Outcomes, Return(p, o),
           o = "ok" => pc[p] = "restore"
    PROVE  IInv'
  <1> USE DEF Return
  <1>1. Inv'
    BY ReturnInv DEF IInv
  <1>2. Elsewhere(p)
    BY DEF Elsewhere, IInv, Inv, TypeOK
  <1>3. /\ pc'[p] = "idle" /\ outcome'[p] = o /\ lock'[p] = "none" /\ todo'[p] = {}
        /\ image'[p] = image[p] /\ files'[p] = files[p] /\ db' = db
    BY DEF IInv, Inv, TypeOK
  <1>4. ProcInv(p)
    BY DEF IInv
  <1>5. LockInv(p)' /\ ReadInv(p)'
    BY <1>3 DEF LockInv, ReadInv, InTransaction, Writing
  <1>6. BatchInv(p)'
    BY <1>3 DEF BatchInv
  <1>7. ImageInv(p)' /\ OkInv(p)'
    BY <1>3, <1>4 DEF ProcInv, ImageInv, OkInv, InTransaction
  <1>8. ~Writing(p)'
    BY <1>3 DEF Writing
  <1>9. QED
    BY <1>1, <1>2, <1>5, <1>6, <1>7, <1>8, StepOfOne DEF ProcInv

LEMMA QuietIInv ==
    ASSUME IInv, NEW p \in Procs,
           Load(p) \/ Backup(p) \/ WaitToCreate(p) \/ Check(p)
    PROVE  IInv'
  <1> USE DEF Load, Backup, WaitToCreate, Check, Goto, local
  <1>1. Inv'
    BY QuietInv DEF IInv
  <1>2. Elsewhere(p)
    BY DEF Elsewhere, IInv, Inv, TypeOK
  <1>3. /\ lock'[p] = lock[p] /\ base'[p] = base[p] /\ work'[p] = work[p]
        /\ todo'[p] = todo[p] /\ db' = db /\ wal' = wal
    BY DEF IInv, Inv, TypeOK
  <1>4. ProcInv(p)
    BY DEF IInv
  <1>5. LockInv(p)' /\ ReadInv(p)'
    BY <1>3, <1>4
    DEF ProcInv, LockInv, ReadInv, InTransaction, Writing, IInv, Inv, TypeOK
  <1>6. BatchInv(p)'
    <2>1. CASE Load(p) \/ Backup(p) \/ WaitToCreate(p)
      <3>1. todo[p] = {} /\ pc'[p] \in {"backup", "begin", "createWait"}
        BY <2>1, <1>4 DEF ProcInv, BatchInv, IInv, Inv, TypeOK
      <3>2. QED
        BY <3>1, <1>3 DEF BatchInv
    <2>2. CASE Check(p)
      <3>1. pc[p] = "run" /\ pc'[p] = "commit" /\ files'[p] = files[p]
        BY <2>2 DEF IInv, Inv, TypeOK
      <3>2. todo[p] = {} /\ ~work[p].orphans
        BY <2>2
      <3>3. QED
        BY <1>3, <1>4, <3>1, <3>2 DEF ProcInv, BatchInv, Batch, Done
    <2>3. QED
      BY <2>1, <2>2
  <1>7. ImageInv(p)'
    <2>1. CASE Load(p)
      BY <2>1 DEF ImageInv, IInv, Inv, TypeOK
    <2>2. CASE Backup(p)
      <3>1. image'[p] = db /\ pc'[p] = "begin" /\ db \in Contents
        BY <2>2 DEF IInv, Inv, TypeOK
      <3>2. QED
        BY <1>3, <3>1, GrownReflexive DEF ImageInv, InTransaction
    <2>3. CASE WaitToCreate(p) \/ Check(p)
      BY <2>3, <1>3, <1>4 DEF ProcInv, ImageInv, InTransaction, IInv, Inv, TypeOK
    <2>4. QED
      BY <2>1, <2>2, <2>3
  <1>8. OkInv(p)'
    BY <1>3, <1>4 DEF ProcInv, OkInv, IInv, Inv, TypeOK
  <1>9. Writing(p)' => Writing(p)
    BY <1>3 DEF Writing
  <1>10. QED
    BY <1>1, <1>2, <1>3, <1>5, <1>6, <1>7, <1>8, <1>9, StepOfOne DEF ProcInv

LEMMA OpenIInv ==
    ASSUME IInv, NEW p \in Procs, BeginReading(p) \/ BeginWriting(p)
    PROVE  IInv'
  <1>1. Inv' /\ ProcInv(p)
    BY OpenInv DEF IInv
  <1>2. /\ pc[p] \in {"begin", "createWait"}
        /\ pc' = [pc EXCEPT ![p] = "plan"]
        /\ base' = [base EXCEPT ![p] = db]
        /\ UNCHANGED <<dir, edits, wal, db, files, image, todo, outcome>>
        /\ \/ /\ lock' = [lock EXCEPT ![p] = "read"]
              /\ work' = [work EXCEPT ![p] = db]
              /\ db.table
           \/ /\ lock' = [lock EXCEPT ![p] = "write"]
              /\ work' = [work EXCEPT ![p] = [db EXCEPT !.table = TRUE]]
              /\ MayWrite(p)
    BY DEF BeginReading, BeginWriting, Goto
  <1>3. Elsewhere(p)
    BY <1>2 DEF Elsewhere, IInv, Inv, TypeOK
  <1>4. /\ pc'[p] = "plan" /\ base'[p] = db /\ db' = db /\ wal' = wal
        /\ files'[p] = files[p] /\ image'[p] = image[p]
        /\ todo'[p] = todo[p] /\ outcome'[p] = outcome[p]
        /\ \/ lock'[p] = "read" /\ work'[p] = db /\ db.table
           \/ lock'[p] = "write" /\ work'[p] = [db EXCEPT !.table = TRUE] /\ MayWrite(p)
    BY <1>2 DEF IInv, Inv, TypeOK
  <1>5. LockInv(p)'
    BY <1>4 DEF LockInv, InTransaction
  <1>6. ReadInv(p)'
    <2>1. db \in Contents /\ Grown(db, db)
      BY GrownReflexive DEF IInv, Inv, TypeOK
    <2>2. /\ work'[p].table /\ work'[p].app = db.app
          /\ work'[p].rows = db.rows /\ work'[p].log = db.log
          /\ lock'[p] # "write" => work'[p] = db
      BY <2>1, <1>4 DEF Contents
    <2>3. QED
      BY <2>1, <2>2, <1>4 DEF ReadInv, Writing
  <1>7. BatchInv(p)'
    BY <1>1, <1>2, <1>4 DEF ProcInv, BatchInv
  <1>8. ImageInv(p)' /\ OkInv(p)'
    BY <1>1, <1>4 DEF ProcInv, ImageInv, OkInv
  <1>9. Writing(p)' => MayWrite(p)
    BY <1>4 DEF Writing
  <1>10. QED
    BY <1>1, <1>3, <1>4, <1>5, <1>6, <1>7, <1>8, <1>9, StepOfOne DEF ProcInv

LEMMA PlanIInv ==
    ASSUME IInv, NEW p \in Procs, Plan(p)
    PROVE  IInv'
  <1>1. Inv' /\ ProcInv(p)
    BY PlanInv DEF IInv
  <1>2. Elsewhere(p) /\ UNCHANGED <<wal, db>>
    BY DEF Plan, Goto, Elsewhere, IInv, Inv, TypeOK
  <1>3. /\ pc[p] = "plan" /\ pc'[p] = "run" /\ db' = db /\ wal' = wal
        /\ lock'[p] = lock[p] /\ base'[p] = base[p] /\ work'[p] = work[p]
        /\ files'[p] = files[p] /\ image'[p] = image[p]
        /\ outcome'[p] = outcome[p]
        /\ todo'[p] = Pending(files[p], work[p].rows)
        /\ Mismatched(files[p], work[p].rows) = {}
        /\ Missing(files[p], work[p].rows) = {}
    BY DEF Plan, Goto, IInv, Inv, TypeOK
  <1>4. LockInv(p)' /\ ReadInv(p)'
    BY <1>1, <1>3 DEF ProcInv, LockInv, ReadInv, InTransaction, Writing
  <1>5. BatchInv(p)'
    <2>1. /\ work[p].rows = base[p].rows /\ work[p].log = base[p].log
          /\ base[p].rows \in Journals /\ base[p].log \in Seq(Runs)
          /\ files[p] \in Journals
      BY <1>1, <1>3 DEF ProcInv, ReadInv, IInv, Inv, TypeOK, Contents
    <2>2. todo'[p] = Batch(p) /\ Batch(p)' = Batch(p) /\ Done(p)' = {}
      BY <1>3, <2>1 DEF Batch, Done
    <2>3. Continues(base[p].log, work[p].log, files[p], {})
      BY <2>1, NothingToContinue
    <2>4. \A v \in Versions :
             base[p].rows[v] = IF v \in Batch(p) THEN NoBody ELSE files[p][v]
      BY <1>3, <2>1
      DEF Batch, Pending, Present, Mismatched, Missing, Journals
    <2>5. QED
      BY <1>3, <2>1, <2>2, <2>3, <2>4 DEF BatchInv
  <1>6. ImageInv(p)' /\ OkInv(p)'
    BY <1>1, <1>3 DEF ProcInv, ImageInv, OkInv, InTransaction
  <1>7. Writing(p)' => Writing(p)
    BY <1>3 DEF Writing
  <1>8. QED
    BY <1>1, <1>2, <1>4, <1>5, <1>6, <1>7, StepOfOne DEF ProcInv

LEMMA ExecuteIInv ==
    ASSUME IInv, NEW p \in Procs, Execute(p)
    PROVE  IInv'
  <1>1. Inv' /\ ProcInv(p)
    BY ExecuteInv DEF IInv
  <1>2. PICK v \in todo[p] :
          /\ pc[p] = "run"
          /\ First(v, todo[p])
          /\ files[p][v] \notin NulBodies
          /\ Writing(p) \/ MayUpgrade(p)
          /\ lock' = [lock EXCEPT ![p] = "write"]
          /\ work' = [work EXCEPT ![p] = Ran(work[p], v, files[p][v])]
          /\ pc' = [pc EXCEPT ![p] = "record"]
          /\ UNCHANGED <<dir, edits, wal, db, files, image, base, todo, outcome>>
    BY DEF Execute, Goto
  <1> DEFINE run == [version |-> v, body |-> files[p][v],
                     whole |-> files[p][v] \notin NulBodies]
  <1>3. Elsewhere(p)
    BY <1>2 DEF Elsewhere, IInv, Inv, TypeOK
  <1>4. /\ v \in Versions /\ work[p] \in Contents /\ base[p] \in Contents
        /\ todo[p] \in SUBSET Versions /\ files[p][v] \in Bodies
    BY <1>2 DEF IInv, Inv, TypeOK, WorkInv
  <1>5. /\ Ran(work[p], v, files[p][v]) \in Contents
        /\ Ran(work[p], v, files[p][v]).rows = work[p].rows
        /\ Ran(work[p], v, files[p][v]).log = Append(work[p].log, run)
    <2>1. \A d \in Contents, u \in Versions, b \in Bodies :
            /\ Ran(d, u, b) \in Contents
            /\ Ran(d, u, b).rows = d.rows
            /\ Ran(d, u, b).log =
                 Append(d.log, [version |-> u, body |-> b,
                                whole |-> b \notin NulBodies])
      BY RanType, Zenon
    <2>2. QED
      BY <1>4, <2>1
  <1>6. /\ Ran(work[p], v, files[p][v]).table = work[p].table
        /\ Ran(work[p], v, files[p][v]).app = work[p].app
    BY <1>4 DEF Ran, Contents
  <1>7. /\ pc'[p] = "record" /\ db' = db /\ wal' = wal
        /\ lock'[p] = "write" /\ base'[p] = base[p]
        /\ work'[p] = Ran(work[p], v, files[p][v])
        /\ files'[p] = files[p] /\ image'[p] = image[p]
        /\ todo'[p] = todo[p] /\ outcome'[p] = outcome[p]
    BY <1>2 DEF IInv, Inv, TypeOK
  <1>8. LockInv(p)'
    BY <1>1, <1>2, <1>7 DEF ProcInv, LockInv, InTransaction, Writing, MayUpgrade
  <1>9. ReadInv(p)'
    BY <1>1, <1>2, <1>6, <1>7 DEF ProcInv, ReadInv, InTransaction, Writing
  <1>10. BatchInv(p)'
    <2>1. run \in Runs /\ run.version = v /\ run.body = files[p][v]
      BY <1>4 DEF Runs
    <2>2. /\ Continues(base[p].log, work[p].log, files[p], Done(p))
          /\ \A u \in Done(p) : u < v
          /\ Done(p) \in SUBSET Versions
      BY <1>1, <1>2 DEF ProcInv, BatchInv, Done, Batch, Pending, Present
    <2>3. base[p].log \in Seq(Runs) /\ work[p].log \in Seq(Runs)
      BY <1>4 DEF Contents
    <2> HIDE DEF run
    <2>4. Continues(base[p].log, Append(work[p].log, run), files[p],
                    Done(p) \cup {v})
      BY <2>1, <2>2, <2>3, ContinuesRunByRun
    <2>5. Batch(p)' = Batch(p) /\ Done(p)' = Done(p)
      BY <1>7 DEF Batch, Done
    <2>6. /\ Mismatched(files[p], base[p].rows) = {}
          /\ Missing(files[p], base[p].rows) = {}
          /\ todo[p] \subseteq Batch(p)
          /\ \A u \in Versions :
                work[p].rows[u] = IF u \in todo[p] THEN NoBody ELSE files[p][u]
          /\ \A u \in Done(p) : files[p][u] \notin NulBodies
          /\ \A u \in Done(p), w \in todo[p] : u < w
      BY <1>1, <1>2 DEF ProcInv, BatchInv
    <2>7. work'[p].rows = work[p].rows /\ work'[p].log = Append(work[p].log, run)
      BY <1>5, <1>7 DEF run
    <2>8. \E u \in todo'[p] :
             /\ First(u, todo'[p])
             /\ files'[p][u] \notin NulBodies
             /\ Continues(base'[p].log, work'[p].log, files'[p],
                          Done(p)' \cup {u})
      BY <1>2, <1>7, <2>4, <2>5, <2>7
    <2>9. QED
      BY <1>7, <2>5, <2>6, <2>7, <2>8 DEF BatchInv
  <1>11. ImageInv(p)' /\ OkInv(p)'
    BY <1>1, <1>2, <1>7 DEF ProcInv, ImageInv, OkInv, InTransaction
  <1>12. Writing(p) \/ MayWrite(p)
    BY <1>2 DEF MayUpgrade
  <1>13. QED
    BY <1>1, <1>3, <1>7, <1>8, <1>9, <1>10, <1>11, <1>12, StepOfOne DEF ProcInv

LEMMA RecordIInv ==
    ASSUME IInv, NEW p \in Procs, Record(p)
    PROVE  IInv'
  <1>1. Inv' /\ ProcInv(p)
    BY RecordInv DEF IInv
  <1>2. PICK v \in todo[p] :
          /\ pc[p] = "record"
          /\ First(v, todo[p])
          /\ work' = [work EXCEPT ![p] = Recorded(work[p], v, files[p][v])]
          /\ todo' = [todo EXCEPT ![p] = todo[p] \ {v}]
          /\ pc' = [pc EXCEPT ![p] = "run"]
          /\ UNCHANGED <<dir, edits, wal, db, files, image, lock, base, outcome>>
    BY DEF Record, Goto
  <1>3. Elsewhere(p)
    BY <1>2 DEF Elsewhere, IInv, Inv, TypeOK
  <1>4. /\ v \in Versions /\ work[p] \in Contents
        /\ todo[p] \in SUBSET Versions /\ files[p][v] \in Bodies
    BY <1>2 DEF IInv, Inv, TypeOK, WorkInv
  <1>5. /\ Recorded(work[p], v, files[p][v]).rows =
               [work[p].rows EXCEPT ![v] = files[p][v]]
        /\ Recorded(work[p], v, files[p][v]).log = work[p].log
        /\ Recorded(work[p], v, files[p][v]).table = work[p].table
        /\ Recorded(work[p], v, files[p][v]).app = work[p].app
    BY <1>4 DEF Recorded, Contents, Journals
  <1>6. /\ pc'[p] = "run" /\ db' = db /\ wal' = wal
        /\ lock'[p] = lock[p] /\ base'[p] = base[p]
        /\ work'[p] = Recorded(work[p], v, files[p][v])
        /\ files'[p] = files[p] /\ image'[p] = image[p]
        /\ todo'[p] = todo[p] \ {v} /\ outcome'[p] = outcome[p]
    BY <1>2 DEF IInv, Inv, TypeOK
  <1>7. LockInv(p)' /\ ReadInv(p)'
    BY <1>1, <1>2, <1>5, <1>6
    DEF ProcInv, LockInv, ReadInv, InTransaction, Writing
  <1>8. BatchInv(p)'
    <2>1. /\ files[p][v] \notin NulBodies
          /\ Continues(base[p].log, work[p].log, files[p], Done(p) \cup {v})
      <3>1. PICK w \in todo[p] :
              /\ First(w, todo[p])
              /\ files[p][w] \notin NulBodies
              /\ Continues(base[p].log, work[p].log, files[p], Done(p) \cup {w})
        BY <1>1, <1>2 DEF ProcInv, BatchInv
      <3>2. w = v
        BY <3>1, <1>2, <1>4, FirstIsUnique
      <3>3. QED
        BY <3>1, <3>2
    <2>2. /\ Batch(p)' = Batch(p)
          /\ todo[p] \subseteq Batch(p)
          /\ Done(p)' = Done(p) \cup {v}
      BY <1>1, <1>2, <1>6 DEF ProcInv, BatchInv, Batch, Done
    <2>3. \A u \in Versions :
             work'[p].rows[u] = IF u \in todo'[p] THEN NoBody ELSE files[p][u]
      BY <1>1, <1>2, <1>4, <1>5, <1>6 DEF ProcInv, BatchInv, Contents, Journals
    <2>4. /\ \A u \in Done(p)' : files[p][u] \notin NulBodies
          /\ \A u \in Done(p)', w \in todo'[p] : u < w
      <3>1. \A w \in todo[p] \ {v} : v < w
        <4> TAKE w \in todo[p] \ {v}
        <4>1. v <= w /\ v \in Nat /\ w \in Nat
          BY <1>2, <1>4 DEF First
        <4>2. QED
          BY <4>1
      <3>2. QED
        BY <3>1, <2>1, <2>2, <1>1, <1>2, <1>6 DEF ProcInv, BatchInv
    <2>5. QED
      BY <1>1, <1>2, <1>5, <1>6, <2>1, <2>2, <2>3, <2>4 DEF ProcInv, BatchInv
  <1>9. ImageInv(p)' /\ OkInv(p)'
    BY <1>1, <1>2, <1>6 DEF ProcInv, ImageInv, OkInv, InTransaction
  <1>10. Writing(p)' => Writing(p)
    BY <1>6 DEF Writing
  <1>11. QED
    BY <1>1, <1>3, <1>6, <1>7, <1>8, <1>9, <1>10, StepOfOne DEF ProcInv

-----------------------------------------------------------------------------
(* Steps that change the database.                                         *)

(* What a transaction commits: the database it read, with its batch run    *)
(* and the rows of its journal.                                            *)
LEMMA CommitsBatch ==
    ASSUME IInv, NEW p \in Procs, pc[p] = "commit"
    PROVE  /\ Mismatched(files[p], base[p].rows) = {}
           /\ Missing(files[p], base[p].rows) = {}
           /\ \A v \in Batch(p) : files[p][v] \notin NulBodies
           /\ work[p] \in Contents /\ work[p].table
           /\ work[p].rows = files[p]
           /\ Continues(base[p].log, work[p].log, files[p], Batch(p))
           /\ ~work[p].orphans
           /\ work[p].app = base[p].app
           /\ Grown(base[p], work[p])
  <1>1. ProcInv(p)
    BY DEF IInv
  <1>2. todo[p] = {} /\ Done(p) = Batch(p)
    BY <1>1 DEF ProcInv, BatchInv, Done
  <1>3. /\ work[p] \in Contents /\ base[p] \in Contents /\ files[p] \in Journals
        /\ work[p].rows \in Journals
    BY DEF IInv, Inv, TypeOK, Contents
  <1>4. work[p].table /\ work[p].app = base[p].app
    BY <1>1 DEF ProcInv, ReadInv, InTransaction
  <1>5. /\ Mismatched(files[p], base[p].rows) = {}
        /\ Missing(files[p], base[p].rows) = {}
        /\ \A v \in Batch(p) : files[p][v] \notin NulBodies
        /\ \A v \in Versions : work[p].rows[v] = files[p][v]
        /\ Continues(base[p].log, work[p].log, files[p], Batch(p))
        /\ ~work[p].orphans
    BY <1>1, <1>2 DEF ProcInv, BatchInv
  <1>6. work[p].rows = files[p]
    <2>1. /\ work[p].rows = [v \in Versions |-> work[p].rows[v]]
          /\ files[p] = [v \in Versions |-> files[p][v]]
      BY <1>3, Zenon DEF Journals
    <2>2. [v \in Versions |-> work[p].rows[v]] = [v \in Versions |-> files[p][v]]
      BY <1>5, Zenon
    <2>3. QED
      BY <2>1, <2>2, Zenon
  <1>7. \A v \in Present(base[p].rows) : work[p].rows[v] = base[p].rows[v]
    BY <1>5, <1>6 DEF Mismatched, Missing, Present
  <1>8. Grown(base[p], work[p])
    BY <1>3, <1>4, <1>5, <1>7 DEF Grown, IsPrefixOf, Continues, Contents
  <1>9. QED
    BY <1>3, <1>4, <1>5, <1>6, <1>8

LEMMA CommitIInv ==
    ASSUME IInv, NEW p \in Procs, Commit(p)
    PROVE  IInv' /\ Grown(db, db')
  <1>1. Inv' /\ ProcInv(p) /\ pc[p] = "commit"
    BY CommitInv DEF IInv, Commit
  <1>2. Elsewhere(p)
    BY DEF Commit, Goto, Elsewhere, IInv, Inv, TypeOK
  <1>3. /\ pc'[p] = "restore" /\ lock'[p] = "none" /\ wal' = wal
        /\ files'[p] = files[p] /\ image'[p] = image[p]
        /\ todo'[p] = todo[p] /\ outcome'[p] = outcome[p]
        /\ db' = IF Writing(p) THEN work[p] ELSE db
    BY DEF Commit, Goto, IInv, Inv, TypeOK
  <1>4. Writing(p) => base[p] = db
    BY <1>1 DEF ProcInv, LockInv, InTransaction
  <1>5. /\ db \in Contents /\ db' \in Contents /\ work[p] \in Contents
        /\ base[p] \in Contents /\ files[p] \in Journals
    BY <1>1 DEF IInv, Inv, TypeOK
  <1>6. Grown(db, db')
    BY <1>1, <1>3, <1>4, <1>5, CommitsBatch, GrownReflexive
  <1>7. OneWriter'
    BY <1>2, <1>3 DEF IInv, OneWriter, Elsewhere, Writing
  <1>8. LockInv(p)' /\ ReadInv(p)'
    BY <1>3 DEF LockInv, ReadInv, InTransaction, Writing
  <1>9. BatchInv(p)'
    BY <1>1, <1>3 DEF ProcInv, BatchInv
  <1>10. ImageInv(p)'
    <2>1. image[p] # NoImage => image[p] \in Contents
      BY DEF IInv, Inv, TypeOK
    <2>2. image[p] # NoImage => Grown(image[p], db')
      BY <2>1, <1>1, <1>5, <1>6, GrownTransitive DEF ProcInv, ImageInv
    <2>3. QED
      BY <2>2, <1>3 DEF ImageInv, InTransaction
  <1>11. OkInv(p)'
    <2>1. work[p].rows = files[p]
      BY <1>1, CommitsBatch
    <2>2. ~Writing(p) => work[p] = base[p] /\ Grown(base[p], db)
      BY <1>1 DEF ProcInv, ReadInv, InTransaction
    <2>3. \A v \in Present(files[p]) : db'.rows[v] = files[p][v]
      BY <2>1, <2>2, <1>3 DEF Grown
    <2>4. QED
      BY <2>3, <1>3 DEF OkInv
  <1>12. ASSUME NEW q \in Procs \ {p}
         PROVE  ProcInv(q)'
    <2>1. ProcInv(q)
      BY DEF IInv
    <2>2. ReadInv(q)' /\ BatchInv(q)' /\ ImageInv(q)' /\ OkInv(q)'
      BY <2>1, <1>2, <1>5, <1>6, Outlives DEF ProcInv, Elsewhere, IInv
    <2>3. LockInv(q)'
      <3>1. CASE Writing(p)
        <4>1. ~(InTransaction(q) /\ (wal => Writing(q)))
          BY <3>1, <2>1
          DEF Commit, MayCommit, Others, IInv, OneWriter, ProcInv, LockInv
        <4>2. QED
          BY <4>1, <2>1, <1>2, <1>3
          DEF ProcInv, LockInv, Elsewhere, InTransaction, Writing
      <3>2. CASE ~Writing(p)
        BY <3>2, <2>1, <1>2, <1>3
        DEF ProcInv, LockInv, Elsewhere, InTransaction, Writing
      <3>3. QED
        BY <3>1, <3>2
    <2>4. QED
      BY <2>2, <2>3 DEF ProcInv
  <1>13. QED
    BY <1>1, <1>6, <1>7, <1>8, <1>9, <1>10, <1>11, <1>12 DEF IInv, ProcInv

LEMMA AppWriteIInv ==
    ASSUME IInv, AppWrite
    PROVE  IInv' /\ Grown(db, db')
  <1>1. Inv'
    BY EnvironmentInv DEF IInv
  <1>2. /\ db \in Contents /\ db' \in Contents
        /\ \E o \in BOOLEAN : db' = [db EXCEPT !.app = db.app + 1, !.orphans = o]
    BY <1>1 DEF AppWrite, IInv, Inv, TypeOK
  <1>3. db'.log = db.log /\ db'.rows = db.rows /\ db'.app = db.app + 1
    BY <1>2 DEF Contents
  <1>4. Grown(db, db')
    BY <1>2, <1>3 DEF Grown, IsPrefixOf, Contents
  <1>5. UNCHANGED <<wal, pc, files, image, lock, base, work, todo, outcome>>
    BY DEF AppWrite, local
  <1>6. OneWriter'
    BY <1>5 DEF IInv, OneWriter, Writing
  <1>7. ASSUME NEW q \in Procs
        PROVE  ProcInv(q)'
    <2>1. ProcInv(q)
      BY DEF IInv
    <2>2. ReadInv(q)' /\ BatchInv(q)' /\ ImageInv(q)' /\ OkInv(q)'
      BY <2>1, <1>2, <1>4, <1>5, Outlives DEF ProcInv, IInv
    <2>3. IF wal THEN ~Writing(q) ELSE lock[q] = "none"
      BY DEF AppWrite
    <2>4. LockInv(q)'
      BY <2>1, <2>3, <1>5 DEF ProcInv, LockInv, InTransaction, Writing
    <2>5. QED
      BY <2>2, <2>4 DEF ProcInv
  <1>8. QED
    BY <1>1, <1>4, <1>6, <1>7 DEF IInv

(* Steps that leave the database and every process alone.                  *)
LEMMA NobodyIInv ==
    ASSUME IInv, Inv',
           UNCHANGED <<wal, db, pc, files, image, lock, base, work, todo, outcome>>
    PROVE  IInv'
  <1>1. OneWriter'
    BY DEF IInv, OneWriter, Writing
  <1>2. ASSUME NEW q \in Procs
        PROVE  ProcInv(q)'
    <2>1. ProcInv(q)
      BY DEF IInv
    <2>2. db' = db /\ db' \in Contents /\ Grown(db, db')
      BY GrownReflexive DEF IInv, Inv, TypeOK
    <2>3. ReadInv(q)' /\ BatchInv(q)' /\ ImageInv(q)' /\ OkInv(q)'
      BY <2>1, <2>2, Outlives DEF ProcInv, IInv
    <2>4. LockInv(q)'
      BY <2>1 DEF ProcInv, LockInv, InTransaction, Writing
    <2>5. QED
      BY <2>3, <2>4 DEF ProcInv
  <1>3. QED
    BY <1>1, <1>2 DEF IInv

-----------------------------------------------------------------------------
LEMMA InitIInv == Init => IInv
  <1> SUFFICES ASSUME Init PROVE IInv
    OBVIOUS
  <1>1. Inv
    BY InitInv
  <1>2. OneWriter
    BY DEF Init, OneWriter, Writing
  <1>3. \A p \in Procs : ProcInv(p)
    BY DEF Init, ProcInv, LockInv, ReadInv, BatchInv, ImageInv, OkInv,
           InTransaction, Writing
  <1>4. QED
    BY <1>1, <1>2, <1>3 DEF IInv

(* Every step keeps the invariant.                                         *)
LEMMA NextIInv == IInv /\ [Next]_vars => IInv'
  <1> SUFFICES ASSUME IInv, [Next]_vars PROVE IInv'
    OBVIOUS
  <1>1. CASE UNCHANGED vars
    <2>1. Inv'
      BY <1>1, NextInv DEF IInv
    <2>2. QED
      BY <2>1, <1>1, NobodyIInv DEF vars
  <1>2. ASSUME NEW p \in Procs, Advance(p) \/ Fail(p) \/ RestoreFails(p) \/ Crash(p)
        PROVE  IInv'
    <2>1. CASE Load(p) \/ Backup(p) \/ WaitToCreate(p) \/ Check(p)
      BY <2>1, QuietIInv
    <2>2. CASE BeginReading(p) \/ BeginWriting(p)
      BY <2>2, OpenIInv
    <2>3. CASE Plan(p)
      BY <2>3, PlanIInv
    <2>4. CASE Execute(p)
      BY <2>4, ExecuteIInv
    <2>5. CASE Record(p)
      BY <2>5, RecordIInv
    <2>6. CASE Commit(p)
      BY <2>6, CommitIInv
    <2>7. CASE \E o \in Outcomes : Return(p, o) /\ (o = "ok" => pc[p] = "restore")
      BY <2>7, ReturnIInv
    <2>8. QED
      BY <1>2, <2>1, <2>2, <2>3, <2>4, <2>5, <2>6, <2>7
      DEF Advance, RefusePlan, RefuseNul, RefuseOrphans, UpgradeBusy,
          WaitTimesOut, Restore, Fail, RestoreFails, Crash, Outcomes
  <1>3. CASE AppWrite
    BY <1>3, AppWriteIInv
  <1>4. CASE \E v \in Versions, b \in Bodies \cup {NoBody} : Edit(v, b)
    <2>1. Inv'
      BY <1>4, EnvironmentInv DEF IInv
    <2>2. QED
      BY <2>1, <1>4, NobodyIInv DEF Edit, local
  <1>5. QED
    BY <1>1, <1>2, <1>3, <1>4 DEF Next

-----------------------------------------------------------------------------
(* A nil error from Apply means that every migration it was given is       *)
(* recorded in the database, also when it found nothing to do in a         *)
(* transaction whose contents were out of date.                            *)
THEOREM OkIsRecorded == Spec => []OkMeansRecorded
  <1>1. IInv => OkMeansRecorded
    BY DEF IInv, ProcInv, OkInv, OkMeansRecorded
  <1>2. QED
    BY <1>1, InitIInv, NextIInv, PTL DEF Spec

(* The snapshot an apply takes is a past state of the database and holds   *)
(* none of what that apply goes on to run: restoring it undoes the batch.  *)
THEOREM SnapshotPrecedesBatch == Spec => []ImagePrecedesBatch
  <1>1. ASSUME IInv, NEW p \in Procs, image[p] # NoImage
        PROVE  /\ IsPrefixOf(image[p].log, db.log)
               /\ image[p].app <= db.app
               /\ todo[p] \cap Present(image[p].rows) = {}
    <2>1. ImageInv(p) /\ BatchInv(p)
      BY <1>1 DEF IInv, ProcInv
    <2>2. Grown(image[p], db)
      BY <1>1, <2>1 DEF ImageInv
    <2>3. CASE pc[p] \in {"run", "record"}
      <3>1. Grown(image[p], base[p]) /\ todo[p] \subseteq Batch(p)
        BY <1>1, <2>1, <2>3 DEF ImageInv, BatchInv, InTransaction
      <3>2. Present(image[p].rows) \subseteq Present(base[p].rows)
        BY <3>1 DEF Grown, Present
      <3>3. QED
        BY <2>2, <3>1, <3>2 DEF Grown, Batch, Pending
    <2>4. CASE pc[p] \notin {"run", "record"}
      BY <2>1, <2>2, <2>4 DEF BatchInv, Grown
    <2>5. QED
      BY <2>3, <2>4
  <1>2. IInv => ImagePrecedesBatch
    BY <1>1 DEF ImagePrecedesBatch
  <1>3. QED
    BY <1>2, InitIInv, NextIInv, PTL DEF Spec

-----------------------------------------------------------------------------
(* The refinement: each step of Runner is a step of the Ledger or leaves   *)
(* the database as it is.                                                  *)

LEMMA InitLedger == Init => Abstract!Init
  BY DEF Init, Abstract!Init, Fresh, Abstract!Fresh

LEMMA CommitLedger ==
    ASSUME IInv, NEW p \in Procs, Commit(p), Writing(p)
    PROVE  Abstract!ApplyBatch(files[p])
  <1>1. pc[p] = "commit" /\ db' = work[p] /\ ProcInv(p)
    BY DEF Commit, IInv
  <1>2. base[p] = db
    BY <1>1 DEF ProcInv, LockInv, InTransaction
  <1>3. /\ Mismatched(files[p], db.rows) = {}
        /\ Missing(files[p], db.rows) = {}
        /\ \A v \in Pending(files[p], db.rows) : files[p][v] \notin NulBodies
        /\ db' \in Contents /\ db'.table
        /\ db'.rows = files[p]
        /\ Continues(db.log, db'.log, files[p], Pending(files[p], db.rows))
        /\ ~db'.orphans
        /\ db'.app = db.app
    BY <1>1, <1>2, CommitsBatch DEF Batch
  <1>4. QED
    BY <1>3
    DEF Abstract!ApplyBatch, Mismatched, Abstract!Mismatched, Missing,
        Abstract!Missing, Pending, Abstract!Pending, Present, Abstract!Present,
        Contents, Abstract!Contents, Journals, Abstract!Journals,
        Runs, Abstract!Runs, Continues, Abstract!Continues

LEMMA NextLedger == IInv /\ [Next]_vars => [Abstract!Next]_db
  <1> SUFFICES ASSUME IInv, [Next]_vars PROVE [Abstract!Next]_db
    OBVIOUS
  <1>1. ASSUME NEW p \in Procs, Commit(p)
        PROVE  [Abstract!Next]_db
    <2>1. CASE Writing(p)
      <3>1. Abstract!ApplyBatch(files[p])
        BY <1>1, <2>1, CommitLedger
      <3>2. files[p] \in Abstract!Journals
        BY DEF IInv, Inv, TypeOK, Journals, Abstract!Journals
      <3>3. QED
        BY <3>1, <3>2 DEF Abstract!Next
    <2>2. CASE ~Writing(p)
      BY <1>1, <2>2 DEF Commit
    <2>3. QED
      BY <2>1, <2>2
  <1>2. CASE AppWrite
    BY <1>2 DEF AppWrite, Abstract!AppWrite, Abstract!Next
  <1>3. CASE UNCHANGED db
    BY <1>3
  <1>4. UNCHANGED db \/ AppWrite \/ \E p \in Procs : Commit(p)
    BY DEF Next, vars, Advance, Load, Backup, BeginReading, WaitToCreate,
           BeginWriting, Plan, RefusePlan, Execute, RefuseNul, UpgradeBusy,
           Record, Check, RefuseOrphans, Restore, WaitTimesOut, Fail,
           RestoreFails, Crash, Return, Edit
  <1>5. QED
    BY <1>1, <1>2, <1>3, <1>4

(* Runner.Apply is atomic: whatever processes race, fail or die, and in    *)
(* both journal modes, the database only changes by whole batches, each    *)
(* from a journal that agrees with the rows, and by the application.       *)
THEOREM ApplyIsAtomic == Spec => LedgerSpec
  <1>1. QED
    BY InitLedger, NextLedger, InitIInv, NextIInv, PTL
    DEF Spec, LedgerSpec, Abstract!Spec

-----------------------------------------------------------------------------
(***************************************************************************)
(* With a journal that only grows at its end, what runs against a database *)
(* runs in the order of the journal, whatever processes race, fail or die. *)
(* What is added to the above is that every journal a process holds, and   *)
(* the rows, are the beginning of the directory, so that a batch follows   *)
(* all that ran before.                                                    *)
(***************************************************************************)
(* S is part of T and has all of it up to its last version.                *)
Beginning(S, T) ==
    /\ S \subseteq T
    /\ \A v \in S : \A w \in T : w < v => w \in S

OrderInv ==
    /\ Beginning(Present(db.rows), Present(dir))
    /\ \A p \in Procs : Beginning(Present(files[p]), Present(dir))
    /\ ReplayOrder

LEMMA BeginningOfLonger ==
    ASSUME NEW S, NEW T \in SUBSET Nat, NEW v \in Nat, Beginning(S, T),
           \A w \in T : w < v
    PROVE  Beginning(S, T \cup {v})
  BY DEF Beginning

LEMMA InitOrder == Init => OrderInv
  BY DEF Init, OrderInv, Beginning, Present, Fresh, ReplayOrder

(* A batch from a journal that begins the directory runs after all that    *)
(* has run.                                                                *)
LEMMA BatchFollows ==
    ASSUME IInv, OrderInv, db' \in Contents, NEW given \in Journals,
           Beginning(Present(given), Present(dir)),
           Continues(db.log, db'.log, given, Pending(given, db.rows))
    PROVE  ReplayOrder'
  <1> DEFINE old == 1 .. Len(db.log)
             fresh == Len(db.log) + 1 .. Len(db'.log)
  <1>1. /\ db \in Contents /\ dir \in Journals /\ Consistent(db)
        /\ db.log \in Seq(Runs) /\ db'.log \in Seq(Runs) /\ db.rows \in Journals
    BY DEF IInv, Inv, TypeOK, RowsMatchRuns, Contents
  <1>2. \A i \in old : db'.log[i] = db.log[i]
    BY DEF Continues
  <1>3. \A i \in old : db.log[i].version \in Present(db.rows)
    <2>1. \A i \in old : db.log[i] \in Runs
      BY <1>1
    <2>2. QED
      BY <1>1, <2>1 DEF Consistent, Runs, Present
  <1>4. \A j \in fresh : db'.log[j].version \in Present(given) \ Present(db.rows)
    BY DEF Continues, Pending
  <1>5. \A v \in Present(db.rows), w \in Present(given) \ Present(db.rows) : v < w
    <2>1. \A v \in Present(db.rows), w \in Present(given) \ Present(db.rows) :
             ~(w < v) /\ w # v
      BY DEF OrderInv, Beginning
    <2>2. Present(db.rows) \subseteq Nat /\ Present(given) \subseteq Nat
      BY DEF Present
    <2>3. QED
      BY <2>1, <2>2
  <1>6. \A i, j \in fresh : i < j => db'.log[i].version < db'.log[j].version
    BY DEF Continues
  <1>7. \A i, j \in old : i < j => db.log[i].version < db.log[j].version
    BY DEF OrderInv, ReplayOrder
  <1>8. \A i \in 1 .. Len(db'.log) : i \in old \/ i \in fresh
    BY <1>1
  <1>9. \A i \in fresh, j \in old : ~(i < j)
    BY <1>1
  <1> HIDE DEF old, fresh
  <1>10. SUFFICES ASSUME NEW i \in 1 .. Len(db'.log), NEW j \in 1 .. Len(db'.log),
                         i < j
                  PROVE  db'.log[i].version < db'.log[j].version
    BY DEF ReplayOrder
  <1>11. CASE i \in old /\ j \in old
    BY <1>2, <1>7, <1>10, <1>11
  <1>12. CASE i \in old /\ j \in fresh
    BY <1>2, <1>3, <1>4, <1>5, <1>12
  <1>13. CASE i \in fresh /\ j \in fresh
    BY <1>6, <1>10, <1>13
  <1>14. QED
    BY <1>8, <1>9, <1>10, <1>11, <1>12, <1>13

LEMMA CommitOrder ==
    ASSUME IInv, IInv', OrderInv, NEW p \in Procs, Commit(p)
    PROVE  OrderInv'
  <1>1. UNCHANGED <<dir, files>>
    BY DEF Commit, Goto
  <1>2. CASE ~Writing(p)
    <2>1. db' = db
      BY <1>2 DEF Commit
    <2>2. QED
      BY <1>1, <2>1 DEF OrderInv, ReplayOrder
  <1>3. CASE Writing(p)
    <2>1. pc[p] = "commit" /\ db' = work[p] /\ base[p] = db
      BY <1>3 DEF Commit, IInv, ProcInv, LockInv, InTransaction
    <2>2. /\ db' \in Contents /\ db'.rows = files[p]
          /\ Continues(db.log, db'.log, files[p], Pending(files[p], db.rows))
      BY <2>1, CommitsBatch DEF Batch
    <2>3. files[p] \in Journals /\ Beginning(Present(files[p]), Present(dir))
      BY DEF IInv, Inv, TypeOK, OrderInv
    <2>4. ReplayOrder'
      BY <2>2, <2>3, BatchFollows
    <2>5. QED
      BY <1>1, <2>2, <2>3, <2>4 DEF OrderInv
  <1>4. QED
    BY <1>2, <1>3

LEMMA EditOrder ==
    ASSUME AppendOnly, IInv, OrderInv, NEW v \in Versions,
           NEW b \in Bodies \cup {NoBody}, Edit(v, b)
    PROVE  OrderInv'
  <1>1. /\ b # NoBody /\ \A w \in Present(dir) : w < v
        /\ dir' = [dir EXCEPT ![v] = b]
        /\ UNCHANGED <<db, files>>
    BY DEF Edit, local
  <1>2. Present(dir)' = Present(dir) \cup {v}
    BY <1>1 DEF IInv, Inv, TypeOK, Journals, Present
  <1>3. Present(dir) \in SUBSET Nat /\ v \in Nat
    BY DEF Present
  <1>4. ASSUME NEW S, Beginning(S, Present(dir))
        PROVE  Beginning(S, Present(dir)')
    <2> DEFINE T == Present(dir)
    <2>1. T \in SUBSET Nat /\ v \in Nat /\ Beginning(S, T) /\ \A w \in T : w < v
      BY <1>1, <1>3, <1>4
    <2> HIDE DEF T
    <2>2. Beginning(S, T \cup {v})
      BY <2>1, BeginningOfLonger
    <2>3. QED
      BY <1>2, <2>2 DEF T
  <1>5. Beginning(Present(db.rows), Present(dir)')
    BY <1>4 DEF OrderInv
  <1>6. \A p \in Procs : Beginning(Present(files[p]), Present(dir)')
    BY <1>4 DEF OrderInv
  <1>7. QED
    BY <1>1, <1>5, <1>6 DEF OrderInv, ReplayOrder

LEMMA NextOrder == AppendOnly /\ IInv /\ IInv' /\ OrderInv /\ [Next]_vars => OrderInv'
  <1> SUFFICES ASSUME AppendOnly, IInv, IInv', OrderInv, [Next]_vars
               PROVE  OrderInv'
    OBVIOUS
  <1>1. ASSUME NEW p \in Procs, Commit(p) PROVE OrderInv'
    BY <1>1, CommitOrder
  <1>2. ASSUME NEW p \in Procs, Load(p) PROVE OrderInv'
    <2>1. UNCHANGED <<dir, db>> /\ files' = [files EXCEPT ![p] = dir]
      BY <1>2 DEF Load
    <2>2. Beginning(Present(dir), Present(dir))
      BY DEF Beginning
    <2>3. \A q \in Procs : files'[q] = files[q] \/ files'[q] = dir
      BY <2>1 DEF IInv, Inv, TypeOK
    <2>4. \A q \in Procs : Beginning(Present(files'[q]), Present(dir))
      BY <2>2, <2>3 DEF OrderInv
    <2>5. QED
      BY <2>1, <2>4 DEF OrderInv, ReplayOrder
  <1>3. ASSUME NEW v \in Versions, NEW b \in Bodies \cup {NoBody}, Edit(v, b)
        PROVE  OrderInv'
    BY <1>3, EditOrder
  <1>4. CASE AppWrite
    <2>1. UNCHANGED <<dir, files>> /\ db'.rows = db.rows /\ db'.log = db.log
      BY <1>4 DEF AppWrite, local, IInv, Inv, TypeOK, Contents
    <2>2. QED
      BY <2>1 DEF OrderInv, ReplayOrder
  <1>5. CASE UNCHANGED <<dir, db, files>>
    BY <1>5 DEF OrderInv, ReplayOrder
  <1>6. \/ UNCHANGED <<dir, db, files>>
        \/ AppWrite
        \/ \E p \in Procs : Commit(p) \/ Load(p)
        \/ \E v \in Versions, b \in Bodies \cup {NoBody} : Edit(v, b)
    BY DEF Next, vars, local, Goto, Advance, Backup, BeginReading, WaitToCreate,
           BeginWriting, Plan, RefusePlan, Execute, RefuseNul, UpgradeBusy,
           Record, Check, RefuseOrphans, Restore, WaitTimesOut, Fail,
           RestoreFails, Crash, Return
  <1>7. QED
    BY <1>1, <1>2, <1>3, <1>4, <1>5, <1>6

(* If files are only ever added after all that exist, as generate does,    *)
(* migrations run against a database in the order in which generate, check *)
(* and verify replay them, also when they come in several batches, from    *)
(* processes that loaded different directories.                            *)
THEOREM ReplaysInOrder == ASSUME AppendOnly PROVE Spec => []ReplayOrder
  <1>1. Init => IInv /\ OrderInv
    BY InitIInv, InitOrder
  <1>2. IInv /\ OrderInv /\ [Next]_vars => (IInv /\ OrderInv)'
    BY NextIInv, NextOrder
  <1>3. IInv /\ OrderInv => ReplayOrder
    BY DEF OrderInv
  <1>4. QED
    BY <1>1, <1>2, <1>3, PTL DEF Spec
===============================================================================
