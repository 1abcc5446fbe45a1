------------------------------- MODULE Runner -------------------------------
(***************************************************************************)
(* Runner.Apply (runner.go): several processes, each running               *)
(* `sqlite-migrate apply --yes` against one database file, next to the     *)
(* application that uses the file and to developers who edit the           *)
(* migrations directory.  SQLite's locks decide how the transactions       *)
(* interleave; nothing in the code takes a lock of its own.                *)
(***************************************************************************)
EXTENDS Migrations

CONSTANTS
    Procs,       \* processes that run apply
    Timeouts,    \* a wait for a lock may exceed BusyTimeoutMillis
    Faults,      \* statements may fail, contexts be cancelled, processes die
    AppendOnly,  \* developers only add files newer than every file there
    NoImage,     \* no snapshot was taken yet
    MaxEdits     \* bound: edits of the migrations directory

ASSUME ModesAssumption == {Timeouts, Faults, AppendOnly} \subseteq BOOLEAN
ASSUME NoImageAssumption == NoImage \notin Contents
ASSUME MaxEditsAssumption == MaxEdits \in Nat

VARIABLES
    dir,      \* the migrations directory
    edits,    \* how often it was edited
    wal,      \* the database is in WAL journal mode, not rollback mode:
              \* Runner never sets the mode, so it must be right in both
    db,       \* the committed contents of the database file
    pc,       \* where each process is in Apply
    files,    \* the migrations each process loaded
    image,    \* the snapshot each process took before applying
    lock,     \* what each transaction holds: "none", "read" or "write"
    base,     \* the contents its transaction reads from
    work,     \* the contents its transaction sees, its own writes included
    todo,     \* versions still to apply
    outcome   \* how its last call ended

local == <<files, image, lock, base, work, todo>>
vars == <<dir, edits, wal, db, pc, files, image, lock, base, work, todo, outcome>>

Stages == {"idle", "backup", "begin", "createWait", "plan", "run", "record",
           "commit", "restore"}
Outcomes == {"none", "ok", "refused", "busy", "failed", "restoreFailed", "died"}

InTransaction(p) == pc[p] \in {"plan", "run", "record", "commit"}

-----------------------------------------------------------------------------
(***************************************************************************)
(* SQLite's locks, as Runner meets them.  A rollback-mode database admits  *)
(* one writer next to readers, and a committing writer (PENDING) admits no *)
(* new reader and waits for the old ones.  In WAL mode readers never       *)
(* block, and a reader whose contents are out of date cannot become a      *)
(* writer.                                                                 *)
(***************************************************************************)
Writing(p) == lock[p] = "write"
Others(p) == Procs \ {p}

MayRead(p) == wal \/ \A q \in Others(p) : ~(pc[q] = "commit" /\ Writing(q))
MayWrite(p) == \A q \in Others(p) : ~Writing(q)
MayUpgrade(p) == MayWrite(p) /\ (wal => base[p] = db)
MayCommit(p) == Writing(p) /\ ~wal => \A q \in Others(p) : lock[q] = "none"

-----------------------------------------------------------------------------
(* Apply returns: the deferred Rollback and Close drop whatever the        *)
(* transaction still holds, and its work with it.                          *)
Return(p, o) ==
    /\ pc' = [pc EXCEPT ![p] = "idle"]
    /\ outcome' = [outcome EXCEPT ![p] = o]
    /\ lock' = [lock EXCEPT ![p] = "none"]
    /\ base' = [base EXCEPT ![p] = Fresh]
    /\ work' = [work EXCEPT ![p] = Fresh]
    /\ todo' = [todo EXCEPT ![p] = {}]
    /\ UNCHANGED <<dir, edits, wal, db, files, image>>

Goto(p, stage) ==
    /\ pc' = [pc EXCEPT ![p] = stage]
    /\ UNCHANGED <<dir, edits, wal, outcome>>

(* RunApply loads the directory; Apply copies and sorts it.                *)
Load(p) ==
    /\ pc[p] = "idle"
    /\ pc' = [pc EXCEPT ![p] = "backup"]
    /\ files' = [files EXCEPT ![p] = dir]
    /\ image' = [image EXCEPT ![p] = NoImage]
    /\ outcome' = [outcome EXCEPT ![p] = "none"]
    /\ UNCHANGED <<dir, edits, wal, db, lock, base, work, todo>>

(* Snapshot: VACUUM INTO reads one committed state of the database, before *)
(* the apply transaction begins.  Module Snapshot has its file handling.   *)
Backup(p) ==
    /\ pc[p] = "backup"
    /\ MayRead(p)
    /\ image' = [image EXCEPT ![p] = db]
    /\ Goto(p, "begin")
    /\ UNCHANGED <<db, files, lock, base, work, todo>>

(* The first statement after BEGIN: with the bookkeeping table there it    *)
(* only reads.                                                             *)
BeginReading(p) ==
    /\ pc[p] = "begin"
    /\ db.table
    /\ MayRead(p)
    /\ lock' = [lock EXCEPT ![p] = "read"]
    /\ base' = [base EXCEPT ![p] = db]
    /\ work' = [work EXCEPT ![p] = db]
    /\ Goto(p, "plan")
    /\ UNCHANGED <<db, files, image, todo>>

(* CREATE TABLE was compiled against a database without the table, and     *)
(* another writer holds the lock: the busy handler waits for it.           *)
WaitToCreate(p) ==
    /\ pc[p] = "begin"
    /\ ~db.table
    /\ ~(MayRead(p) /\ MayWrite(p))
    /\ Goto(p, "createWait")
    /\ UNCHANGED <<db, local>>

(* The statement runs as a write.  If another process has created the      *)
(* table by then it is compiled again to nothing, but the lock is held.    *)
BeginWriting(p) ==
    /\ \/ pc[p] = "begin" /\ ~db.table
       \/ pc[p] = "createWait"
    /\ MayRead(p) /\ MayWrite(p)
    /\ lock' = [lock EXCEPT ![p] = "write"]
    /\ base' = [base EXCEPT ![p] = db]
    /\ work' = [work EXCEPT ![p] = [db EXCEPT !.table = TRUE]]
    /\ Goto(p, "plan")
    /\ UNCHANGED <<db, files, image, todo>>

(* Mutant: the batch is planned from what was read before the transaction. *)
PlanFromImage(p) ==
    /\ pc[p] = "plan"
    /\ Mismatched(files[p], image[p].rows) = {}
    /\ Missing(files[p], image[p].rows) = {}
    /\ todo' = [todo EXCEPT ![p] = Pending(files[p], image[p].rows)]
    /\ Goto(p, "run")
    /\ UNCHANGED <<db, files, image, lock, base, work>>

(* recordedChecksums and pendingAgainstRecorded, inside the transaction.   *)
Plan(p) ==
    /\ pc[p] = "plan"
    /\ Mismatched(files[p], work[p].rows) = {}
    /\ Missing(files[p], work[p].rows) = {}
    /\ todo' = [todo EXCEPT ![p] = Pending(files[p], work[p].rows)]
    /\ Goto(p, "run")
    /\ UNCHANGED <<db, files, image, lock, base, work>>

(* ChecksumMismatchError or MissingMigrationError.                         *)
RefusePlan(p) ==
    /\ pc[p] = "plan"
    /\ \/ Mismatched(files[p], work[p].rows) # {}
       \/ Missing(files[p], work[p].rows) # {}
    /\ Return(p, "refused")

(* Mutant: a NUL byte is not looked for.                                   *)
ExecuteCutShort(p) ==
    \E v \in todo[p] :
        /\ pc[p] = "run"
        /\ First(v, todo[p])
        /\ Writing(p) \/ MayUpgrade(p)
        /\ lock' = [lock EXCEPT ![p] = "write"]
        /\ work' = [work EXCEPT ![p] = Ran(@, v, files[p][v])]
        /\ Goto(p, "record")
        /\ UNCHANGED <<db, files, image, base, todo>>

(* The next pending migration runs; the first one makes the transaction a  *)
(* writer.                                                                 *)
Execute(p) ==
    \E v \in todo[p] :
        /\ pc[p] = "run"
        /\ First(v, todo[p])
        /\ files[p][v] \notin NulBodies
        /\ Writing(p) \/ MayUpgrade(p)
        /\ lock' = [lock EXCEPT ![p] = "write"]
        /\ work' = [work EXCEPT ![p] = Ran(@, v, files[p][v])]
        /\ Goto(p, "record")
        /\ UNCHANGED <<db, files, image, base, todo>>

(* A NUL byte is refused before any of the body runs.                      *)
RefuseNul(p) ==
    \E v \in todo[p] :
        /\ pc[p] = "run"
        /\ First(v, todo[p])
        /\ files[p][v] \in NulBodies
        /\ Return(p, "refused")

(* The bookkeeping row of the migration that just ran.                     *)
Record(p) ==
    \E v \in todo[p] :
        /\ pc[p] = "record"
        /\ First(v, todo[p])
        /\ work' = [work EXCEPT ![p] = Recorded(@, v, files[p][v])]
        /\ todo' = [todo EXCEPT ![p] = @ \ {v}]
        /\ Goto(p, "run")
        /\ UNCHANGED <<db, files, image, lock, base>>

(* foreign_key_check over the whole database, then integrity_check (which  *)
(* fails only as a fault).                                                 *)
Check(p) ==
    /\ pc[p] = "run"
    /\ todo[p] = {}
    /\ ~work[p].orphans
    /\ Goto(p, "commit")
    /\ UNCHANGED <<db, local>>

RefuseOrphans(p) ==
    /\ pc[p] = "run"
    /\ todo[p] = {}
    /\ work[p].orphans
    /\ Return(p, "refused")

(* COMMIT; a transaction that wrote nothing only drops its read lock.      *)
Commit(p) ==
    /\ pc[p] = "commit"
    /\ MayCommit(p)
    /\ db' = IF Writing(p) THEN work[p] ELSE db
    /\ lock' = [lock EXCEPT ![p] = "none"]
    /\ base' = [base EXCEPT ![p] = Fresh]
    /\ work' = [work EXCEPT ![p] = Fresh]
    /\ Goto(p, "restore")
    /\ UNCHANGED <<files, image, todo>>

(* PRAGMA foreign_keys = ON, after the commit.                             *)
Restore(p) ==
    /\ pc[p] = "restore"
    /\ Return(p, "ok")

(* Mutant: SQLITE_BUSY is retried without ending the transaction.          *)
UpgradeRetried(p) ==
    /\ pc[p] = "run"
    /\ todo[p] # {}
    /\ ~Writing(p) /\ ~MayUpgrade(p)
    /\ Goto(p, "plan")
    /\ UNCHANGED <<db, local>>

(* SQLITE_BUSY.  A transaction that already reads gets it at once; any     *)
(* other waiter only after BusyTimeoutMillis.                              *)
UpgradeBusy(p) ==
    /\ pc[p] = "run"
    /\ todo[p] # {}
    /\ ~Writing(p) /\ ~MayUpgrade(p)
    /\ Return(p, "busy")

Waits(p) ==
    \/ pc[p] \in {"backup", "begin"} /\ ~MayRead(p)
    \/ pc[p] = "createWait" /\ ~(MayRead(p) /\ MayWrite(p))
    \/ pc[p] = "commit" /\ ~MayCommit(p)

WaitTimesOut(p) ==
    /\ Timeouts
    /\ Waits(p)
    /\ Return(p, "busy")

(* Any statement up to COMMIT can fail: a bad migration, a full disk, a    *)
(* failed integrity_check, a cancelled context.                            *)
Fail(p) ==
    /\ Faults
    /\ pc[p] \notin {"idle", "restore"}
    /\ Return(p, "failed")

(* The context is cancelled after COMMIT: the PRAGMA fails, and Apply      *)
(* returns its error.                                                      *)
RestoreFails(p) ==
    /\ Faults
    /\ pc[p] = "restore"
    /\ Return(p, "restoreFailed")

(* The process dies; SQLite rolls its transaction back.                    *)
Crash(p) ==
    /\ Faults
    /\ pc[p] # "idle"
    /\ Return(p, "died")

-----------------------------------------------------------------------------
(* The application writes in a transaction of its own.                     *)
AppWrite ==
    /\ db.app < MaxApp
    /\ \A q \in Procs : IF wal THEN ~Writing(q) ELSE lock[q] = "none"
    /\ \E o \in BOOLEAN : db' = [db EXCEPT !.app = @ + 1, !.orphans = o]
    /\ UNCHANGED <<dir, edits, wal, pc, local, outcome>>

(* A developer adds, edits or deletes a migration file.                    *)
Edit(v, b) ==
    /\ edits < MaxEdits
    /\ dir[v] # b
    /\ AppendOnly => b # NoBody /\ \A w \in Present(dir) : w < v
    /\ dir' = [dir EXCEPT ![v] = b]
    /\ edits' = edits + 1
    /\ UNCHANGED <<wal, db, pc, local, outcome>>

Init ==
    /\ dir \in Journals
    /\ edits = 0
    /\ wal \in BOOLEAN
    /\ db = Fresh
    /\ pc = [p \in Procs |-> "idle"]
    /\ files = [p \in Procs |-> Fresh.rows]
    /\ image = [p \in Procs |-> NoImage]
    /\ lock = [p \in Procs |-> "none"]
    /\ base = [p \in Procs |-> Fresh]
    /\ work = [p \in Procs |-> Fresh]
    /\ todo = [p \in Procs |-> {}]
    /\ outcome = [p \in Procs |-> "none"]

Advance(p) ==
    \/ Load(p) \/ Backup(p)
    \/ BeginReading(p) \/ WaitToCreate(p) \/ BeginWriting(p)
    \/ Plan(p) \/ RefusePlan(p)
    \/ Execute(p) \/ RefuseNul(p) \/ UpgradeBusy(p) \/ Record(p)
    \/ Check(p) \/ RefuseOrphans(p)
    \/ Commit(p) \/ Restore(p)
    \/ WaitTimesOut(p)

Next ==
    \/ \E p \in Procs : Advance(p) \/ Fail(p) \/ RestoreFails(p) \/ Crash(p)
    \/ AppWrite
    \/ \E v \in Versions, b \in Bodies \cup {NoBody} : Edit(v, b)

Spec == Init /\ [][Next]_vars

(* A process that runs keeps running: apply has no sleep and no retry.     *)
Fairness == \A p \in Procs : WF_vars(Advance(p))

FairSpec == Spec /\ Fairness

-----------------------------------------------------------------------------
TypeOK ==
    /\ dir \in Journals
    /\ edits \in 0 .. MaxEdits
    /\ wal \in BOOLEAN
    /\ db \in Contents
    /\ pc \in [Procs -> Stages]
    /\ files \in [Procs -> Journals]
    /\ image \in [Procs -> Contents \cup {NoImage}]
    /\ lock \in [Procs -> {"none", "read", "write"}]
    /\ base \in [Procs -> Contents]
    /\ work \in [Procs -> Contents]
    /\ todo \in [Procs -> SUBSET Versions]
    /\ outcome \in [Procs -> Outcomes]

(* Rows and runs agree: every recorded version ran exactly once, whole and *)
(* with the recorded body, and nothing ran that is not recorded.           *)
Consistent(d) ==
    /\ \A i \in 1 .. Len(d.log) :
          d.log[i].whole /\ d.rows[d.log[i].version] = d.log[i].body
    /\ \A i, j \in 1 .. Len(d.log) :
          d.log[i].version = d.log[j].version => i = j
    /\ \A v \in Present(d.rows) :
          \E i \in 1 .. Len(d.log) : d.log[i].version = v

(* The bookkeeping is the truth about the schema, in the database and in   *)
(* every snapshot of it, whatever processes raced, failed or died: the     *)
(* INSERT of applyInTransaction commits with the migration it records.     *)
RowsMatchRuns ==
    /\ Consistent(db)
    /\ \A p \in Procs : image[p] # NoImage => Consistent(image[p])

(* Apply's nil error means that every migration it was given is in the     *)
(* database, also when this call found nothing to do in a transaction      *)
(* whose contents were out of date.                                        *)
OkMeansRecorded ==
    \A p \in Procs : pc[p] = "restore" \/ outcome[p] = "ok" =>
        \A v \in Present(files[p]) : db.rows[v] = files[p][v]

(* What RowsMatchRuns rests on inside a transaction: between Execute and   *)
(* Record the contents are one INSERT away from being consistent, and what *)
(* is still to do has no row yet.                                          *)
WorkInv(p) ==
    /\ pc[p] \in {"plan", "run", "commit"} => Consistent(work[p])
    /\ pc[p] \in {"run", "record"} =>
          \A v \in todo[p] : work[p].rows[v] = NoBody /\ files[p][v] \in Bodies
    /\ pc[p] = "record" =>
          \E v \in todo[p] :
              /\ First(v, todo[p])
              /\ Consistent(Recorded(work[p], v, files[p][v]))

Inv == TypeOK /\ RowsMatchRuns /\ \A p \in Procs : WorkInv(p)

IsPrefixOf(s, t) ==
    Len(s) <= Len(t) /\ \A i \in 1 .. Len(s) : s[i] = t[i]

(* The snapshot of an apply is a past state of the database that holds     *)
(* none of the migrations the apply goes on to run: restoring it undoes    *)
(* the whole batch.                                                        *)
ImagePrecedesBatch ==
    \A p \in Procs : image[p] # NoImage =>
        /\ IsPrefixOf(image[p].log, db.log)
        /\ image[p].app <= db.app
        /\ todo[p] \cap Present(image[p].rows) = {}

(* With a journal that only grows at its end, migrations run against the   *)
(* database in the order generate, check and verify replay them in.        *)
ReplayOrder ==
    \A i, j \in 1 .. Len(db.log) :
        i < j => db.log[i].version < db.log[j].version

(* The database changes as the Ledger says: by whole batches, each from a  *)
(* journal that agrees with the rows, and no batch undoes a write of the   *)
(* application that was committed while it ran.                            *)
Abstract == INSTANCE Ledger WITH db <- db
LedgerSpec == Abstract!Spec

(* Every call returns: no wait for a lock is part of a cycle.              *)
CallsReturn == \A p \in Procs : pc[p] # "idle" ~> pc[p] = "idle"

(* Processes that retry until it works get the journal applied, however    *)
(* their transactions collide.                                             *)
JournalGetsApplied == <>[](db.rows = dir)
=============================================================================
