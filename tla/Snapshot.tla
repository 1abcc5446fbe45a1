------------------------------ MODULE Snapshot ------------------------------
(***************************************************************************)
(* Snapshot (snapshot.go): the backup Runner.Apply takes before it opens   *)
(* its transaction, as a sequence of file operations in one directory that *)
(* other calls, in the same process or in others, use at the same time.    *)
(* A snapshot's name is its nanosecond timestamp; the name of its          *)
(* temporary file is derived from it, so one record holds both.  Processes *)
(* die between any two operations, and the machine may lose power: then    *)
(* file data and directory entries that were not synced may be lost.       *)
(***************************************************************************)
EXTENDS Integers, FiniteSets

CONSTANTS
    Calls,        \* concurrent calls of Snapshot
    Processes,    \* operating-system processes
    ProcessOf,    \* the process each call runs in
    Retain,       \* RetainSnapshots: 0 keeps every snapshot
    MaxAttempts,  \* maxSnapshotNameAttempts
    MaxTime,      \* bound: last timestamp of the clock
    MaxSerial,    \* bound: number of VACUUM INTO runs
    CoarseClock,  \* several timestamps may be taken within one clock tick
    ClockSteps,   \* the wall clock may be set back
    Faults,       \* file operations and VACUUM INTO may fail
    Crashes,      \* processes may die
    PowerLosses   \* the machine may lose power

ASSUME ProcessAssumption == ProcessOf \in [Calls -> Processes]
ASSUME BoundsAssumption ==
    /\ {Retain, MaxSerial} \subseteq Nat
    /\ {MaxAttempts, MaxTime} \subseteq Nat \ {0}
ASSUME SwitchesAssumption ==
    {CoarseClock, ClockSteps, Faults, Crashes, PowerLosses} \subseteq BOOLEAN

Names == 1 .. MaxTime

(* What a timestamp's final and temporary name refer to, and the state of  *)
(* the file VACUUM INTO wrote: how much of it, by which run, synced or not.*)
Files == [final : {"none", "empty", "image"}, tmp : BOOLEAN,
          data : {"none", "part", "whole"}, synced : BOOLEAN,
          serial : 0 .. MaxSerial]

Absent == [final |-> "none", tmp |-> FALSE, data |-> "none",
           synced |-> FALSE, serial |-> 0]

Stages == {"idle", "stamp", "create", "vacuum", "write", "sync", "rename",
           "syncDir", "list", "prune", "apply"}

VARIABLES
    clock,     \* the wall clock
    last,      \* snapshotClockLast of each process
    fs,        \* the directory as processes see it
    disk,      \* the directory as of the last directory sync
    serial,    \* VACUUM INTO runs so far
    pc,        \* where each call is
    name,      \* its candidate, then its snapshot
    attempts,  \* candidates it has tried
    mine,      \* its VACUUM INTO run
    victims    \* snapshots it is going to prune

vars == <<clock, last, fs, disk, serial, pc, name, attempts, mine, victims>>
calls == <<name, attempts, mine, victims>>

Goto(c, stage) == pc' = [pc EXCEPT ![c] = stage]

(* The calls in C are over, and their variables gone.                      *)
End(C) ==
    /\ pc' = [c \in Calls |-> IF c \in C THEN "idle" ELSE pc[c]]
    /\ name' = [c \in Calls |-> IF c \in C THEN 1 ELSE name[c]]
    /\ attempts' = [c \in Calls |-> IF c \in C THEN 0 ELSE attempts[c]]
    /\ mine' = [c \in Calls |-> IF c \in C THEN 0 ELSE mine[c]]
    /\ victims' = [c \in Calls |-> IF c \in C THEN {} ELSE victims[c]]

Finals == {n \in Names : fs[n].final # "none"}
Images == {n \in Names : fs[n].final = "image"}

-----------------------------------------------------------------------------
(* MkdirAll is left out: when it fails nothing has changed and the call is *)
(* over.                                                                   *)
Start(c) ==
    /\ pc[c] = "idle"
    /\ serial < MaxSerial
    /\ Goto(c, "stamp")
    /\ UNCHANGED <<clock, last, fs, disk, serial, calls>>

(* nextSnapshotTimestamp, under its mutex: later than the clock's last     *)
(* answer in this process.                                                 *)
NextTimestamp(p) == IF clock <= last[p] THEN last[p] + 1 ELSE clock

Stamp(c) ==
    LET p == ProcessOf[c]
        t == NextTimestamp(p)
    IN  /\ pc[c] = "stamp"
        /\ t <= MaxTime
        /\ last' = [last EXCEPT ![p] = t]
        /\ name' = [name EXCEPT ![c] = t]
        /\ clock' = IF CoarseClock THEN clock ELSE t + 1
        /\ Goto(c, "create")
        /\ UNCHANGED <<fs, disk, serial, attempts, mine, victims>>

(* Mutant: without O_EXCL the name need not be free.                       *)
CreateAnyway(c) ==
    /\ pc[c] = "create"
    /\ fs' = [fs EXCEPT ![name[c]].final = "empty"]
    /\ Goto(c, "vacuum")
    /\ UNCHANGED <<clock, last, disk, serial, calls>>

(* O_CREATE|O_EXCL: an empty file under the final name claims it.          *)
Create(c) ==
    /\ pc[c] = "create"
    /\ fs[name[c]].final = "none"
    /\ fs' = [fs EXCEPT ![name[c]].final = "empty"]
    /\ Goto(c, "vacuum")
    /\ UNCHANGED <<clock, last, disk, serial, calls>>

(* Mutant: the attempts are not counted against their limit.               *)
CreateForever(c) ==
    /\ pc[c] = "create"
    /\ fs[name[c]].final # "none"
    /\ attempts' = [attempts EXCEPT ![c] = @ + 1]
    /\ Goto(c, "stamp")
    /\ UNCHANGED <<clock, last, fs, disk, serial, name, mine, victims>>

(* The name is taken: another candidate, or an error after too many.       *)
CreateTaken(c) ==
    /\ pc[c] = "create"
    /\ fs[name[c]].final # "none"
    /\ \/ /\ attempts[c] + 1 < MaxAttempts
          /\ attempts' = [attempts EXCEPT ![c] = @ + 1]
          /\ Goto(c, "stamp")
          /\ UNCHANGED <<name, mine, victims>>
       \/ attempts[c] + 1 = MaxAttempts /\ End({c})
    /\ UNCHANGED <<clock, last, fs, disk, serial>>

(* The placeholder cannot be created for another reason.                   *)
CreateFails(c) ==
    /\ Faults
    /\ pc[c] = "create"
    /\ End({c})
    /\ UNCHANGED <<clock, last, fs, disk, serial>>

(* VACUUM INTO creates the temporary file and fills it with one committed  *)
(* state of the database; it refuses a file that is already there.         *)
VacuumBegin(c) ==
    /\ pc[c] = "vacuum"
    /\ ~fs[name[c]].tmp
    /\ serial < MaxSerial
    /\ serial' = serial + 1
    /\ mine' = [mine EXCEPT ![c] = serial + 1]
    /\ fs' = [fs EXCEPT ![name[c]] =
                [@ EXCEPT !.tmp = TRUE, !.data = "part", !.synced = FALSE,
                          !.serial = serial + 1]]
    /\ Goto(c, "write")
    /\ UNCHANGED <<clock, last, disk, name, attempts, victims>>

VacuumEnd(c) ==
    /\ pc[c] = "write"
    /\ fs' = [fs EXCEPT ![name[c]].data = "whole"]
    /\ Goto(c, "sync")
    /\ UNCHANGED <<clock, last, disk, serial, calls>>

(* Mutant: the temporary file is not synced.                               *)
SyncNothing(c) ==
    /\ pc[c] = "sync"
    /\ Goto(c, "rename")
    /\ UNCHANGED <<clock, last, fs, disk, serial, calls>>

SyncFile(c) ==
    /\ pc[c] = "sync"
    /\ fs' = [fs EXCEPT ![name[c]].synced = TRUE]
    /\ Goto(c, "rename")
    /\ UNCHANGED <<clock, last, disk, serial, calls>>

(* os.Rename(tmp, final) replaces the placeholder, or whatever is there.   *)
Rename(c) ==
    /\ pc[c] = "rename"
    /\ fs' = [fs EXCEPT ![name[c]] = [@ EXCEPT !.tmp = FALSE, !.final = "image"]]
    /\ Goto(c, "syncDir")
    /\ UNCHANGED <<clock, last, disk, serial, calls>>

(* A failure to open the database or to set busy_timeout removes only the  *)
(* placeholder.                                                            *)
Abandon(c) ==
    /\ Faults
    /\ pc[c] = "vacuum"
    /\ fs' = [fs EXCEPT ![name[c]].final = "none"]
    /\ End({c})
    /\ UNCHANGED <<clock, last, disk, serial>>

(* Every later failure before the rename removes the temporary file too,   *)
(* also when it is there already and VACUUM INTO fails for that.  The two  *)
(* removals are one step, and succeed.                                     *)
Discard(c) ==
    /\ \/ Faults /\ pc[c] \in {"vacuum", "write", "sync", "rename"}
       \/ pc[c] = "vacuum" /\ fs[name[c]].tmp
    /\ fs' = [fs EXCEPT ![name[c]] = Absent]
    /\ End({c})
    /\ UNCHANGED <<clock, last, disk, serial>>

(* Mutant: the directory is not synced before old snapshots are pruned.    *)
SyncDirNothing(c) ==
    /\ pc[c] = "syncDir"
    /\ Goto(c, "list")
    /\ UNCHANGED <<clock, last, fs, disk, serial, calls>>

SyncDir(c) ==
    /\ pc[c] = "syncDir"
    /\ disk' = fs
    /\ Goto(c, "list")
    /\ UNCHANGED <<clock, last, fs, serial, calls>>

(* Mutants: a Retain of 0 is not special; the newest are pruned.           *)
ExcessOfZero(files) ==
    {n \in files : Cardinality({m \in files : m > n}) >= Retain}
ExcessNewest(files) ==
    {n \in files : Cardinality({m \in files : m < n}) >= Retain}

(* pruneSnapshots reads the directory once; placeholders count, temporary  *)
(* files do not.  All names are of the present format.                     *)
Excess(files) ==
    IF Retain = 0 THEN {}
    ELSE {n \in files : Cardinality({m \in files : m > n}) >= Retain}

List(c) ==
    /\ pc[c] = "list"
    /\ victims' = [victims EXCEPT ![c] = Excess(Finals)]
    /\ Goto(c, "prune")
    /\ UNCHANGED <<clock, last, fs, disk, serial, name, attempts, mine>>

(* The oldest victim goes first.                                           *)
Prune(c) ==
    \E n \in victims[c] :
        /\ pc[c] = "prune"
        /\ \A m \in victims[c] : n <= m
        /\ fs[n].final # "none"
        /\ fs' = [fs EXCEPT ![n] = IF @.tmp THEN [@ EXCEPT !.final = "none"]
                                   ELSE Absent]
        /\ victims' = [victims EXCEPT ![c] = @ \ {n}]
        /\ UNCHANGED <<clock, last, disk, serial, pc, name, attempts, mine>>

(* Apply goes on after a SnapshotWarning: the directory could not be       *)
(* synced or listed, or another call has removed the next victim already.  *)
Warn(c) ==
    /\ \/ Faults /\ pc[c] \in {"syncDir", "list", "prune"}
       \/ /\ pc[c] = "prune"
          /\ \E n \in victims[c] :
                /\ \A m \in victims[c] : n <= m
                /\ fs[n].final = "none"
    /\ Goto(c, "apply")
    /\ UNCHANGED <<clock, last, fs, disk, serial, calls>>

Pruned(c) ==
    /\ pc[c] = "prune"
    /\ victims[c] = {}
    /\ Goto(c, "apply")
    /\ UNCHANGED <<clock, last, fs, disk, serial, calls>>

(* The caller: the apply transaction runs, with this snapshot as its undo. *)
Apply(c) ==
    /\ pc[c] = "apply"
    /\ End({c})
    /\ UNCHANGED <<clock, last, fs, disk, serial>>

-----------------------------------------------------------------------------
Tick ==
    /\ \E t \in Names :
          /\ \/ CoarseClock /\ t = clock + 1
             \/ ClockSteps /\ t < clock
          /\ clock' = t
    /\ UNCHANGED <<last, fs, disk, serial, pc, calls>>

(* Processes P end; the next ones start their snapshotClockLast anew.      *)
Kill(P) ==
    /\ End({c \in Calls : ProcessOf[c] \in P})
    /\ last' = [p \in Processes |-> IF p \in P THEN 0 ELSE last[p]]

Exit(p) ==
    /\ Crashes \/ \A c \in Calls : ProcessOf[c] = p => pc[c] = "idle"
    /\ Kill({p})
    /\ UNCHANGED <<clock, fs, disk, serial>>

(* After a power loss a name refers to what it did, or to what it did at   *)
(* the last directory sync; data that was not synced may be gone.  The     *)
(* final and the temporary name of one timestamp are kept or lost together.*)
Linked(f) == f.tmp \/ f.final = "image"

Survivor(n, kept, torn) ==
    LET entry == IF kept THEN fs[n] ELSE disk[n]
        content == IF entry.serial = fs[n].serial THEN fs[n] ELSE entry
    IN  IF Linked(entry)
        THEN [entry EXCEPT
                !.data = IF torn /\ ~content.synced THEN "part" ELSE content.data,
                !.synced = TRUE]
        ELSE [Absent EXCEPT !.final = entry.final]

PowerLoss ==
    /\ PowerLosses
    /\ Kill(Processes)
    /\ \E kept \in SUBSET {n \in Names : fs[n] # disk[n]},
          torn \in SUBSET {n \in Names : Linked(fs[n]) \/ Linked(disk[n])} :
          /\ fs' = [n \in Names |-> Survivor(n, n \in kept, n \in torn)]
          /\ disk' = fs'
    /\ UNCHANGED <<clock, serial>>

Init ==
    /\ clock = 1
    /\ last = [p \in Processes |-> 0]
    /\ fs = [n \in Names |-> Absent]
    /\ disk = fs
    /\ serial = 0
    /\ pc = [c \in Calls |-> "idle"]
    /\ name = [c \in Calls |-> 1]
    /\ attempts = [c \in Calls |-> 0]
    /\ mine = [c \in Calls |-> 0]
    /\ victims = [c \in Calls |-> {}]

Advance(c) ==
    \/ Stamp(c) \/ Create(c) \/ CreateTaken(c) \/ CreateFails(c)
    \/ VacuumBegin(c) \/ VacuumEnd(c) \/ SyncFile(c) \/ Rename(c)
    \/ Abandon(c) \/ Discard(c)
    \/ SyncDir(c) \/ List(c) \/ Prune(c) \/ Warn(c) \/ Pruned(c) \/ Apply(c)

Next ==
    \/ \E c \in Calls : Start(c) \/ Advance(c)
    \/ \E p \in Processes : Exit(p)
    \/ Tick
    \/ PowerLoss

Spec == Init /\ [][Next]_vars

-----------------------------------------------------------------------------
TypeOK ==
    /\ clock \in 1 .. MaxTime + 1
    /\ last \in [Processes -> 0 .. MaxTime]
    /\ fs \in [Names -> Files]
    /\ disk \in [Names -> Files]
    /\ serial \in 0 .. MaxSerial
    /\ pc \in [Calls -> Stages]
    /\ name \in [Calls -> Names]
    /\ attempts \in [Calls -> 0 .. MaxAttempts]
    /\ mine \in [Calls -> 0 .. MaxSerial]
    /\ victims \in [Calls -> SUBSET Names]

(* snapshot.go: a file that is not empty and has a snapshot's name is a    *)
(* whole image, also when the power failed before the directory was        *)
(* synced: the temporary file is synced before it is renamed.              *)
FinalIsWhole == \A n \in Images : fs[n].data = "whole"

(* Two calls never write under one name, in one process or in several.     *)
Owns(c, n) ==
    name[c] = n /\ pc[c] \in {"vacuum", "write", "sync", "rename"}

OneOwner ==
    \A c, d \in Calls : \A n \in Names : Owns(c, n) /\ Owns(d, n) => c = d

(* A snapshot that reached the disk is never replaced by another one or by *)
(* a placeholder; it only goes by being pruned.                            *)
NeverReplaced ==
    [][\A n \in Names :
         fs[n].final = "image" /\ disk[n].final = "image" =>
            \/ fs'[n].final = "none"
            \/ fs'[n].final = "image" /\ fs'[n].serial = fs[n].serial]_vars

(* When an apply begins to change the database, the snapshot it has just   *)
(* taken is there to undo it.                                              *)
UndoAvailable ==
    \A c \in Calls : pc[c] = "apply" =>
        /\ fs[name[c]].final = "image"
        /\ fs[name[c]].data = "whole"
        /\ fs[name[c]].serial = mine[c]

(* Once a snapshot is durable, a durable snapshot remains, whatever is     *)
(* pruned and whenever the power fails: the new one's name is synced before *)
(* the old ones go.                                                        *)
Durable == {n \in Names : disk[n].final = "image"}

SomeSnapshotRemains == [][Durable # {} => Durable' # {}]_vars

(* Pruning by calls that race removes the oldest only: once no call runs,  *)
(* a snapshot that was taken is there, or has Retain newer ones that are,  *)
(* whatever each call saw and removed.  (A timestamp the clock has passed  *)
(* is one some call took, and where nothing fails this call has left an    *)
(* image under it: so an image that is missing was pruned.)                *)
NewestKept ==
    (\A c \in Calls : pc[c] = "idle") =>
        \A n \in Names : n < clock /\ n \notin Images =>
            Cardinality({m \in Images : m > n}) >= Retain
=============================================================================
