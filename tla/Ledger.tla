------------------------------- MODULE Ledger -------------------------------
(***************************************************************************)
(* What Runner.Apply promises, with no process, no lock and no transaction *)
(* in sight: the database changes by whole batches of migrations, each     *)
(* applied at once, and by writes of the application that owns it.         *)
(***************************************************************************)
EXTENDS Migrations

VARIABLE db

(* A batch: the database is brought up to the journal it was given, or is  *)
(* left alone.                                                             *)
ApplyBatch(files) ==
    LET pending == Pending(files, db.rows)
    IN  /\ Mismatched(files, db.rows) = {}
        /\ Missing(files, db.rows) = {}
        /\ \A v \in pending : files[v] \notin NulBodies
        /\ db' \in Contents
        /\ db'.table
        /\ db'.rows = files
        /\ Continues(db.log, db'.log, files, pending)
        /\ ~db'.orphans
        /\ db'.app = db.app

(* The application commits a transaction of its own: it may leave or       *)
(* repair rows that violate a foreign key, and never touches the ledger.   *)
AppWrite ==
    /\ db.app < MaxApp
    /\ \E o \in BOOLEAN : db' = [db EXCEPT !.app = @ + 1, !.orphans = o]

Init == db = Fresh

Next == AppWrite \/ \E files \in Journals : ApplyBatch(files)

Spec == Init /\ [][Next]_db
=============================================================================
