--------------------------- MODULE SnapshotProofs ---------------------------
(***************************************************************************)
(* Theorems about Snapshot, for any number of calls and processes, with    *)
(* failures, crashes and power losses: its types, and what it promises of  *)
(* a snapshot, provided that nothing is pruned, or that no two calls can   *)
(* be given the same timestamp.                                            *)
(***************************************************************************)
EXTENDS Snapshot, FiniteSetTheorems, TLAPS

USE ProcessAssumption, BoundsAssumption, SwitchesAssumption

-----------------------------------------------------------------------------
(* Files made and changed by the actions are files.                        *)
LEMMA FileTypes ==
    /\ Absent \in Files
    /\ \A f \in {"none", "empty"} : [Absent EXCEPT !.final = f] \in Files
  <1>1. Absent \in Files
    <2>1. 0 \in 0 .. MaxSerial
      OBVIOUS
    <2>2. QED
      BY <2>1, Zenon DEF Files, Absent
  <1>2. ASSUME NEW e \in Files, NEW f \in {"none", "empty"}
        PROVE  [e EXCEPT !.final = f] \in Files
    BY DEF Files
  <1>3. QED
    BY <1>1, <1>2

LEMMA SyncedType ==
    ASSUME NEW e \in Files, NEW d \in {"none", "part", "whole"}
    PROVE  [e EXCEPT !.data = d, !.synced = TRUE] \in Files
  BY DEF Files

LEMMA EndType ==
    ASSUME TypeOK, NEW C \in SUBSET Calls, End(C)
    PROVE  /\ pc' \in [Calls -> Stages]
           /\ name' \in [Calls -> Names]
           /\ attempts' \in [Calls -> 0 .. MaxAttempts]
           /\ mine' \in [Calls -> 0 .. MaxSerial]
           /\ victims' \in [Calls -> SUBSET Names]
  BY DEF End, TypeOK, Stages, Names

LEMMA InitType == Init => TypeOK
  BY DEF Init, TypeOK, Files, Absent, Names, Stages

LEMMA AdvanceType ==
    ASSUME TypeOK, NEW c \in Calls, Start(c) \/ Advance(c)
    PROVE  TypeOK'
  <1> USE DEF Goto, calls
  <1>0. name[c] \in Names /\ fs[name[c]] \in Files
    BY DEF TypeOK
  <1>e. ASSUME End({c})
        PROVE  /\ pc' \in [Calls -> Stages]
               /\ name' \in [Calls -> Names]
               /\ attempts' \in [Calls -> 0 .. MaxAttempts]
               /\ mine' \in [Calls -> 0 .. MaxSerial]
               /\ victims' \in [Calls -> SUBSET Names]
    <2>1. {c} \in SUBSET Calls
      OBVIOUS
    <2>2. QED
      BY <1>e, <2>1, EndType, Zenon
  <1>1. CASE Start(c)
    BY <1>1 DEF Start, TypeOK, Stages
  <1>2. CASE Stamp(c)
    <2> DEFINE p == ProcessOf[c]
               t == NextTimestamp(p)
    <2>1. p \in Processes
      OBVIOUS
    <2>2. t \in 1 .. MaxTime
      <3>1. clock \in Nat \ {0} /\ last[p] \in Nat
        BY <2>1 DEF TypeOK
      <3>2. t \in Nat \ {0}
        BY <3>1 DEF NextTimestamp
      <3>3. t <= MaxTime
        BY <1>2 DEF Stamp
      <3> HIDE DEF t
      <3>4. QED
        BY <3>2, <3>3
    <2>3. /\ last' = [last EXCEPT ![p] = t]
          /\ name' = [name EXCEPT ![c] = t]
          /\ clock' = clock \/ clock' = t + 1
          /\ pc' = [pc EXCEPT ![c] = "create"]
          /\ UNCHANGED <<fs, disk, serial, attempts, mine, victims>>
      BY <1>2 DEF Stamp
    <2> HIDE DEF p, t
    <2>4. clock' \in 1 .. MaxTime + 1
      BY <2>2, <2>3 DEF TypeOK
    <2>5. /\ last' \in [Processes -> 0 .. MaxTime]
          /\ name' \in [Calls -> Names]
      BY <2>1, <2>2, <2>3 DEF TypeOK, Names
    <2>6. pc' \in [Calls -> Stages]
      BY <2>3 DEF TypeOK, Stages
    <2>7. QED
      BY <2>3, <2>4, <2>5, <2>6 DEF TypeOK
  <1>3. CASE Create(c)
    <2>1. [fs[name[c]] EXCEPT !.final = "empty"] \in Files
      BY <1>0 DEF Files
    <2>2. fs' \in [Names -> Files]
      BY <1>3, <2>1 DEF Create, TypeOK
    <2>3. QED
      BY <1>3, <2>2 DEF Create, TypeOK, Stages
  <1>4. CASE CreateTaken(c)
    <2>1. CASE attempts[c] + 1 < MaxAttempts
      BY <1>4, <2>1 DEF CreateTaken, TypeOK, Stages
    <2>2. CASE ~(attempts[c] + 1 < MaxAttempts)
      BY <1>4, <1>e, <2>2 DEF CreateTaken, TypeOK
    <2>3. QED
      BY <2>1, <2>2
  <1>4a. CASE CreateFails(c)
    BY <1>4a, <1>e DEF CreateFails, TypeOK
  <1>5. CASE VacuumBegin(c)
    <2>1. serial + 1 \in 0 .. MaxSerial
      BY <1>5 DEF VacuumBegin, TypeOK
    <2>2. [fs[name[c]] EXCEPT !.tmp = TRUE, !.data = "part", !.synced = FALSE,
                              !.serial = serial + 1] \in Files
      BY <1>0, <2>1 DEF Files
    <2>3. fs' \in [Names -> Files]
      BY <1>5, <2>2 DEF VacuumBegin, TypeOK
    <2>4. QED
      BY <1>5, <2>1, <2>3 DEF VacuumBegin, TypeOK, Stages
  <1>6. CASE VacuumEnd(c)
    <2>1. [fs[name[c]] EXCEPT !.data = "whole"] \in Files
      BY <1>0 DEF Files
    <2>2. fs' \in [Names -> Files]
      BY <1>6, <2>1 DEF VacuumEnd, TypeOK
    <2>3. QED
      BY <1>6, <2>2 DEF VacuumEnd, TypeOK, Stages
  <1>7. CASE SyncFile(c)
    <2>1. [fs[name[c]] EXCEPT !.synced = TRUE] \in Files
      BY <1>0 DEF Files
    <2>2. fs' \in [Names -> Files]
      BY <1>7, <2>1 DEF SyncFile, TypeOK
    <2>3. QED
      BY <1>7, <2>2 DEF SyncFile, TypeOK, Stages
  <1>8. CASE Rename(c)
    <2>1. [fs[name[c]] EXCEPT !.tmp = FALSE, !.final = "image"] \in Files
      BY <1>0 DEF Files
    <2>2. fs' \in [Names -> Files]
      BY <1>8, <2>1 DEF Rename, TypeOK
    <2>3. QED
      BY <1>8, <2>2 DEF Rename, TypeOK, Stages
  <1>9. CASE Abandon(c)
    <2>1. [fs[name[c]] EXCEPT !.final = "none"] \in Files
      BY <1>0 DEF Files
    <2>2. fs' \in [Names -> Files]
      BY <1>9, <2>1 DEF Abandon, TypeOK
    <2>3. QED
      BY <1>9, <1>e, <2>2 DEF Abandon, TypeOK
  <1>10. CASE Discard(c)
    BY <1>10, <1>e, FileTypes DEF Discard, TypeOK
  <1>11. CASE SyncDir(c)
    BY <1>11 DEF SyncDir, TypeOK, Stages
  <1>12. CASE List(c)
    BY <1>12 DEF List, Excess, Finals, TypeOK, Stages
  <1>13. CASE Prune(c)
    <2>1. PICK n \in victims[c] :
            /\ fs' = [fs EXCEPT ![n] = IF @.tmp THEN [@ EXCEPT !.final = "none"]
                                       ELSE Absent]
            /\ victims' = [victims EXCEPT ![c] = @ \ {n}]
      BY <1>13 DEF Prune
    <2>2. n \in Names /\ fs[n] \in Files
      BY DEF TypeOK
    <2>3. [fs[n] EXCEPT !.final = "none"] \in Files
      BY <2>2 DEF Files
    <2>4. fs' \in [Names -> Files]
      BY <2>1, <2>3, FileTypes DEF TypeOK
    <2>5. QED
      BY <1>13, <2>1, <2>4 DEF Prune, TypeOK
  <1>14. CASE Warn(c)
    BY <1>14 DEF Warn, TypeOK, Stages
  <1>15. CASE Pruned(c)
    BY <1>15 DEF Pruned, TypeOK, Stages
  <1>16. CASE Apply(c)
    BY <1>16, <1>e DEF Apply, TypeOK
  <1>17. QED
    BY <1>1, <1>2, <1>3, <1>4, <1>4a, <1>5, <1>6, <1>7, <1>8, <1>9, <1>10, <1>11,
       <1>12, <1>13, <1>14, <1>15, <1>16 DEF Advance

LEMMA KillType ==
    ASSUME TypeOK, NEW P \in SUBSET Processes, Kill(P)
    PROVE  /\ pc' \in [Calls -> Stages]
           /\ name' \in [Calls -> Names]
           /\ attempts' \in [Calls -> 0 .. MaxAttempts]
           /\ mine' \in [Calls -> 0 .. MaxSerial]
           /\ victims' \in [Calls -> SUBSET Names]
           /\ last' \in [Processes -> 0 .. MaxTime]
  <1>1. {c \in Calls : ProcessOf[c] \in P} \in SUBSET Calls
    OBVIOUS
  <1>2. End({c \in Calls : ProcessOf[c] \in P})
    BY DEF Kill
  <1>3. last' \in [Processes -> 0 .. MaxTime]
    BY DEF Kill, TypeOK
  <1>4. QED
    BY <1>1, <1>2, <1>3, EndType, Zenon

LEMMA SurvivorType ==
    ASSUME TypeOK, NEW n \in Names, NEW kept \in BOOLEAN, NEW torn \in BOOLEAN
    PROVE  Survivor(n, kept, torn) \in Files
  <1> DEFINE entry == IF kept THEN fs[n] ELSE disk[n]
             content == IF entry.serial = fs[n].serial THEN fs[n] ELSE entry
  <1>1. entry \in Files /\ content \in Files
    BY DEF TypeOK
  <1>2. CASE Linked(entry)
    <2> DEFINE d == IF torn /\ ~content.synced THEN "part" ELSE content.data
    <2>1. Survivor(n, kept, torn) = [entry EXCEPT !.data = d, !.synced = TRUE]
      BY <1>2 DEF Survivor
    <2>2. d \in {"none", "part", "whole"}
      BY <1>1 DEF Files
    <2> HIDE DEF d, entry, content
    <2>3. [entry EXCEPT !.data = d, !.synced = TRUE] \in Files
      BY <1>1, <2>2, SyncedType
    <2>4. QED
      BY <2>1, <2>3, Zenon
  <1>3. CASE ~Linked(entry)
    <2>1. Survivor(n, kept, torn) = [Absent EXCEPT !.final = entry.final]
      BY <1>3 DEF Survivor
    <2>2. entry.final \in {"none", "empty"}
      BY <1>1, <1>3 DEF Files, Linked
    <2> HIDE DEF entry
    <2>3. QED
      BY <2>1, <2>2, FileTypes
  <1>4. QED
    BY <1>2, <1>3

LEMMA NextType == TypeOK /\ [Next]_vars => TypeOK'
  <1> SUFFICES ASSUME TypeOK, [Next]_vars PROVE TypeOK'
    OBVIOUS
  <1>1. ASSUME NEW c \in Calls, Start(c) \/ Advance(c) PROVE TypeOK'
    BY <1>1, AdvanceType
  <1>2. ASSUME NEW p \in Processes, Exit(p) PROVE TypeOK'
    <2>1. {p} \in SUBSET Processes /\ Kill({p})
      BY <1>2 DEF Exit
    <2>2. UNCHANGED <<clock, fs, disk, serial>>
      BY <1>2 DEF Exit
    <2>3. QED
      BY <2>1, <2>2, KillType DEF TypeOK
  <1>3. CASE Tick
    BY <1>3 DEF Tick, TypeOK, calls, Names
  <1>4. CASE PowerLoss
    <2>1. Kill(Processes) /\ UNCHANGED <<clock, serial>>
      BY <1>4 DEF PowerLoss
    <2>2. fs' \in [Names -> Files] /\ disk' \in [Names -> Files]
      <3>1. PICK kept \in SUBSET Names, torn \in SUBSET Names :
              /\ fs' = [n \in Names |-> Survivor(n, n \in kept, n \in torn)]
              /\ disk' = fs'
        BY <1>4 DEF PowerLoss
      <3>2. ASSUME NEW n \in Names
            PROVE  Survivor(n, n \in kept, n \in torn) \in Files
        <4>1. (n \in kept) \in BOOLEAN /\ (n \in torn) \in BOOLEAN
          OBVIOUS
        <4>2. QED
          BY <4>1, SurvivorType, Zenon
      <3>3. QED
        BY <3>1, <3>2
    <2>3. QED
      BY <2>1, <2>2, KillType DEF TypeOK
  <1>5. CASE UNCHANGED vars
    BY <1>5 DEF vars, calls, TypeOK
  <1>6. QED
    BY <1>1, <1>2, <1>3, <1>4, <1>5 DEF Next

(* Snapshot keeps its types, however many calls run, die and are cut off   *)
(* by a power loss.                                                        *)
THEOREM SnapshotTypeCorrect == Spec => []TypeOK
  BY InitType, NextType, PTL DEF Spec

-----------------------------------------------------------------------------
(* A call that has a placeholder, up to the rename.                        *)
Owner(c) == pc[c] \in {"vacuum", "write", "sync", "rename"}

Good(f) == f.data = "whole" /\ f.synced /\ f.serial # 0

(* A snapshot is whole and synced, in the directory and on the disk, and   *)
(* one that is in both is the same in both.                                *)
RecordInv(n) ==
    /\ fs[n].final = "image" => Good(fs[n])
    /\ disk[n].final = "image" => Good(disk[n])
    /\ fs[n].serial <= serial
    /\ disk[n].serial <= serial
    /\ disk[n].final = "image" /\ disk[n].serial = fs[n].serial => Good(fs[n])
    /\ disk[n].final = "image" /\ fs[n].final = "image" =>
          disk[n].serial = fs[n].serial

(* The temporary file of a call is its own, and as far as it has brought   *)
(* it; no snapshot has its name.                                           *)
OwnerInv(c) ==
    Owner(c) =>
        /\ fs[name[c]].final # "image"
        /\ disk[name[c]].final # "image"
        /\ pc[c] # "vacuum" =>
              fs[name[c]].tmp /\ fs[name[c]].serial = mine[c] /\ mine[c] # 0
        /\ pc[c] \in {"sync", "rename"} => fs[name[c]].data = "whole"
        /\ pc[c] = "rename" => fs[name[c]].synced

SoleOwner ==
    \A c, d \in Calls : Owner(c) /\ Owner(d) /\ name[c] = name[d] => c = d

Core ==
    /\ \A n \in Names : RecordInv(n)
    /\ \A c \in Calls : OwnerInv(c)
    /\ SoleOwner

(* What Core rests on: a name without a file is nobody's.                  *)
Free ==
    \A c \in Calls : pc[c] = "create" /\ fs[name[c]].final = "none" =>
        /\ disk[name[c]].final # "image"
        /\ \A d \in Calls : Owner(d) => name[d] # name[c]

LEMMA CoreInit == Init => Core
  BY DEF Init, Core, RecordInv, OwnerInv, SoleOwner, Owner, Absent

(* Steps that touch no file and make no owner.                             *)
LEMMA QuietCore ==
    ASSUME TypeOK, Core, UNCHANGED <<fs, disk, serial>>,
           \A d \in Calls : Owner(d)' =>
              /\ pc'[d] = pc[d]
              /\ name'[d] = name[d]
              /\ mine'[d] = mine[d]
    PROVE  Core'
  <1>1. \A n \in Names : RecordInv(n)'
    BY DEF Core, RecordInv, Good
  <1>2. \A d \in Calls : Owner(d)' => Owner(d)
    BY DEF Owner
  <1>3. \A d \in Calls : OwnerInv(d)'
    BY <1>2 DEF Core, OwnerInv
  <1>4. SoleOwner'
    BY <1>2 DEF Core, SoleOwner
  <1>5. QED
    BY <1>1, <1>3, <1>4 DEF Core

(* Steps of one call on the files of one name, which no other call owns.   *)
LEMMA OwnCore ==
    ASSUME TypeOK, Core, NEW c \in Calls, NEW m \in Names,
           UNCHANGED disk, serial' \in Nat, serial <= serial',
           \A n \in Names \ {m} : fs'[n] = fs[n],
           \A d \in Calls \ {c} :
              /\ pc'[d] = pc[d] /\ name'[d] = name[d] /\ mine'[d] = mine[d]
              /\ Owner(d) => name[d] # m,
           RecordInv(m)', OwnerInv(c)', Owner(c)' => name'[c] = m
    PROVE  Core'
  <1>1. ASSUME NEW n \in Names PROVE RecordInv(n)'
    <2>1. CASE n = m
      BY <2>1
    <2>2. CASE n # m
      <3>1. fs'[n] = fs[n] /\ fs[n] \in Files /\ disk[n] \in Files
        BY <2>2 DEF TypeOK
      <3>2. fs[n].serial \in Nat /\ disk[n].serial \in Nat /\ serial \in Nat
        BY <3>1 DEF Files, TypeOK
      <3>3. QED
        BY <3>1, <3>2 DEF Core, RecordInv, Good
    <2>3. QED
      BY <2>1, <2>2
  <1>2. ASSUME NEW d \in Calls, d # c PROVE OwnerInv(d)'
    <2>1. Owner(d)' => Owner(d) /\ name[d] # m
      BY <1>2 DEF Owner
    <2>2. name[d] \in Names
      BY DEF TypeOK
    <2>3. QED
      BY <1>2, <2>1, <2>2 DEF Core, OwnerInv
  <1>3. SoleOwner'
    <2>1. \A d \in Calls \ {c} : Owner(d)' => Owner(d) /\ name'[d] = name[d] /\ name[d] # m
      BY DEF Owner
    <2>2. QED
      BY <2>1 DEF Core, SoleOwner
  <1>4. QED
    BY <1>1, <1>2, <1>3 DEF Core

(* After a power loss there is no call, and what is left of a snapshot is  *)
(* whole.                                                                  *)
LEMMA KillIdle ==
    ASSUME TypeOK, NEW P \in SUBSET Processes, Kill(P)
    PROVE  \A c \in Calls :
              \/ pc'[c] = "idle" /\ victims'[c] = {}
              \/ /\ pc'[c] = pc[c] /\ name'[c] = name[c] /\ mine'[c] = mine[c]
                 /\ victims'[c] = victims[c] /\ ProcessOf[c] \notin P
  BY DEF Kill, End

LEMMA SurvivorGood ==
    ASSUME TypeOK, Core, NEW n \in Names, NEW kept \in BOOLEAN, NEW torn \in BOOLEAN
    PROVE  /\ Survivor(n, kept, torn).final =
                IF kept THEN fs[n].final ELSE disk[n].final
           /\ Survivor(n, kept, torn).final = "image" =>
                /\ Good(Survivor(n, kept, torn))
                /\ Survivor(n, kept, torn).serial =
                     IF kept THEN fs[n].serial ELSE disk[n].serial
           /\ Survivor(n, kept, torn).serial <= serial
  <1> DEFINE entry == IF kept THEN fs[n] ELSE disk[n]
             content == IF entry.serial = fs[n].serial THEN fs[n] ELSE entry
             d == IF torn /\ ~content.synced THEN "part" ELSE content.data
  <1>1. entry \in Files /\ RecordInv(n)
    BY DEF TypeOK, Core
  <1>2. entry.serial \in Nat /\ entry.serial <= serial /\ serial \in Nat
    BY <1>1 DEF Files, RecordInv, TypeOK
  <1>3. entry.final = "image" => Good(content) /\ entry.serial # 0
    BY <1>1 DEF RecordInv, Good
  <1>4. CASE Linked(entry)
    <2>1. Survivor(n, kept, torn) = [entry EXCEPT !.data = d, !.synced = TRUE]
      BY <1>4 DEF Survivor
    <2> HIDE DEF entry, content
    <2>2. /\ Survivor(n, kept, torn).final = entry.final
          /\ Survivor(n, kept, torn).data = d
          /\ Survivor(n, kept, torn).synced
          /\ Survivor(n, kept, torn).serial = entry.serial
      BY <1>1, <2>1 DEF Files
    <2>3. entry.final = "image" => d = "whole"
      BY <1>3 DEF Good
    <2>4. entry.final = "image" => Good(Survivor(n, kept, torn))
      BY <1>3, <2>2, <2>3 DEF Good
    <2>5. QED
      BY <1>2, <2>2, <2>4 DEF entry
  <1>5. CASE ~Linked(entry)
    <2>1. Survivor(n, kept, torn) = [Absent EXCEPT !.final = entry.final]
      BY <1>5 DEF Survivor
    <2>2. entry.final # "image"
      BY <1>5 DEF Linked
    <2> HIDE DEF entry
    <2>3. /\ Survivor(n, kept, torn).final = entry.final
          /\ Survivor(n, kept, torn).serial = 0
      BY <2>1 DEF Absent
    <2>4. QED
      BY <1>2, <2>2, <2>3 DEF entry
  <1>6. QED
    BY <1>4, <1>5

LEMMA PowerLossCore == TypeOK /\ Core /\ PowerLoss => Core'
  <1> SUFFICES ASSUME TypeOK, Core, PowerLoss PROVE Core'
    OBVIOUS
  <1>1. \A c \in Calls : pc'[c] = "idle"
    <2>1. Kill(Processes) /\ \A c \in Calls : ProcessOf[c] \in Processes
      BY DEF PowerLoss
    <2>2. QED
      BY <2>1, KillIdle
  <1>2. ASSUME NEW n \in Names PROVE RecordInv(n)'
    <2>1. PICK kept \in SUBSET Names, torn \in SUBSET Names :
            /\ fs' = [k \in Names |-> Survivor(k, k \in kept, k \in torn)]
            /\ disk' = fs' /\ serial' = serial
      BY DEF PowerLoss
    <2> DEFINE k == n \in kept
               t == n \in torn
    <2>2. k \in BOOLEAN /\ t \in BOOLEAN /\ fs'[n] = Survivor(n, k, t)
      BY <2>1
    <2> HIDE DEF k, t
    <2>3. /\ Survivor(n, k, t).final = "image" => Good(Survivor(n, k, t))
          /\ Survivor(n, k, t).serial <= serial
      BY <2>2, SurvivorGood, Zenon
    <2>4. QED
      BY <2>1, <2>2, <2>3 DEF RecordInv, Good
  <1>3. QED
    BY <1>1, <1>2 DEF Core, OwnerInv, SoleOwner, Owner

(* A name without a snapshot.                                              *)
LEMMA NoImage ==
    ASSUME NEW n \in Names, fs'[n].final # "image", disk'[n].final # "image",
           fs'[n].serial <= serial', disk'[n].serial <= serial'
    PROVE  RecordInv(n)'
  BY DEF RecordInv

(* The steps on a call's own files touch one name, which is neither        *)
(* another owner's nor a snapshot's.                                       *)
FileStep(c) ==
    \/ Create(c) \/ VacuumBegin(c) \/ VacuumEnd(c) \/ SyncFile(c)
    \/ Rename(c) \/ Abandon(c) \/ Discard(c)

LEMMA FileFrame ==
    ASSUME TypeOK, Core, Free, NEW c \in Calls, FileStep(c)
    PROVE  /\ disk' = disk /\ serial' \in Nat /\ serial <= serial'
           /\ \A n \in Names \ {name[c]} : fs'[n] = fs[n]
           /\ \A d \in Calls \ {c} :
                /\ pc'[d] = pc[d] /\ name'[d] = name[d] /\ mine'[d] = mine[d]
                /\ Owner(d) => name[d] # name[c]
           /\ fs[name[c]].final # "image"
           /\ disk[name[c]].final # "image"
           /\ UNCHANGED <<clock, last>>
  <1> USE DEF Goto, calls, FileStep
  <1>1. /\ disk' = disk /\ UNCHANGED <<clock, last>>
        /\ serial' \in Nat /\ serial <= serial'
    BY DEF TypeOK, Create, VacuumBegin, VacuumEnd, SyncFile, Rename, Abandon, Discard
  <1>2. \A n \in Names \ {name[c]} : fs'[n] = fs[n]
    BY DEF TypeOK, Create, VacuumBegin, VacuumEnd, SyncFile, Rename, Abandon, Discard
  <1>3. \A d \in Calls \ {c} :
           pc'[d] = pc[d] /\ name'[d] = name[d] /\ mine'[d] = mine[d]
    BY DEF TypeOK, Create, VacuumBegin, VacuumEnd, SyncFile, Rename, Abandon,
           Discard, End
  <1>4. /\ \A d \in Calls \ {c} : Owner(d) => name[d] # name[c]
        /\ fs[name[c]].final # "image"
        /\ disk[name[c]].final # "image"
    <2>1. CASE Create(c)
      BY <2>1 DEF Create, Free
    <2>2. CASE ~Create(c)
      <3>1. Owner(c)
        BY <2>2 DEF VacuumBegin, VacuumEnd, SyncFile, Rename, Abandon, Discard, Owner
      <3>2. QED
        BY <3>1 DEF Core, SoleOwner, OwnerInv
    <2>3. QED
      BY <2>1, <2>2
  <1>5. QED
    BY <1>1, <1>2, <1>3, <1>4

(* The steps on a call's own files, one by one.                            *)
LEMMA FileCore ==
    ASSUME TypeOK, Core, Free, NEW c \in Calls, FileStep(c)
    PROVE  Core'
  <1>0. PICK m \in Names : m = name[c]
    BY DEF TypeOK
  <1> DEFINE f == fs[m]
  <1> USE DEF Goto, calls
  <1>1. /\ m \in Names /\ f \in Files /\ disk[m] \in Files /\ serial \in Nat
        /\ f.serial \in Nat /\ disk[m].serial \in Nat /\ f.serial <= serial
        /\ disk[m].serial <= serial
        /\ RecordInv(m) /\ OwnerInv(c)
    <2>1. m \in Names /\ f \in Files /\ disk[m] \in Files /\ serial \in Nat
      BY DEF TypeOK
    <2>2. f.serial \in Nat /\ disk[m].serial \in Nat
      BY <2>1 DEF Files
    <2>3. QED
      BY <1>0, <2>1, <2>2 DEF Core, RecordInv
  <1>2. RecordInv(m)' /\ OwnerInv(c)' /\ (Owner(c)' => name'[c] = m)
    <2>1. CASE Create(c)
      <3>1. /\ fs'[m] = [f EXCEPT !.final = "empty"]
            /\ pc'[c] = "vacuum" /\ name'[c] = m /\ disk[m].final # "image"
            /\ disk' = disk /\ serial' = serial
        BY <1>0, <1>1, <2>1 DEF Create, Free, TypeOK
      <3>2. /\ fs'[m].final = "empty" /\ fs'[m].serial = f.serial
        BY <1>0, <1>1, <3>1 DEF Files
      <3>3. QED
        BY <1>0, <1>1, <3>1, <3>2 DEF RecordInv, OwnerInv
    <2>2. CASE VacuumBegin(c)
      <3>1. /\ fs'[m] = [f EXCEPT !.tmp = TRUE, !.data = "part", !.synced = FALSE,
                                  !.serial = serial + 1]
            /\ pc'[c] = "write" /\ name'[c] = m /\ mine'[c] = serial + 1
            /\ disk' = disk /\ serial' = serial + 1
            /\ pc[c] = "vacuum"
        BY <1>0, <1>1, <2>2 DEF VacuumBegin, TypeOK
      <3>2. /\ fs'[m].final = f.final /\ fs'[m].serial = serial + 1
            /\ fs'[m].tmp
        BY <1>0, <1>1, <3>1 DEF Files
      <3>3. f.final # "image" /\ disk[m].final # "image"
        BY <1>0, <1>1, <3>1 DEF OwnerInv, Owner
      <3>4. fs'[m].serial <= serial' /\ disk'[m].serial <= serial'
        BY <1>0, <1>1, <3>1, <3>2
      <3>5. RecordInv(m)'
        BY <1>0, <1>1, <3>1, <3>2, <3>3, <3>4, NoImage
      <3>6. mine'[c] # 0
        BY <1>0, <1>1, <3>1
      <3>7. OwnerInv(c)'
        BY <1>0, <3>1, <3>2, <3>3, <3>6 DEF OwnerInv
      <3>8. QED
        BY <3>1, <3>5, <3>7
    <2>3. CASE VacuumEnd(c)
      <3>1. /\ fs'[m] = [f EXCEPT !.data = "whole"]
            /\ pc'[c] = "sync" /\ name'[c] = m /\ mine'[c] = mine[c]
            /\ disk' = disk /\ serial' = serial
            /\ pc[c] = "write"
        BY <1>0, <1>1, <2>3 DEF VacuumEnd, TypeOK
      <3>2. /\ fs'[m].final = f.final /\ fs'[m].serial = f.serial
            /\ fs'[m].tmp = f.tmp /\ fs'[m].data = "whole"
        BY <1>0, <1>1, <3>1 DEF Files
      <3>3. /\ f.final # "image" /\ disk[m].final # "image"
            /\ f.tmp /\ f.serial = mine[c] /\ mine[c] # 0
        BY <1>0, <1>1, <3>1 DEF OwnerInv, Owner
      <3>4. RecordInv(m)'
        BY <1>0, <1>1, <3>1, <3>2, <3>3, NoImage
      <3>5. OwnerInv(c)'
        BY <1>0, <3>1, <3>2, <3>3 DEF OwnerInv
      <3>6. QED
        BY <3>1, <3>4, <3>5
    <2>4. CASE SyncFile(c)
      <3>1. /\ fs'[m] = [f EXCEPT !.synced = TRUE]
            /\ pc'[c] = "rename" /\ name'[c] = m /\ mine'[c] = mine[c]
            /\ disk' = disk /\ serial' = serial
            /\ pc[c] = "sync"
        BY <1>0, <1>1, <2>4 DEF SyncFile, TypeOK
      <3>2. /\ fs'[m].final = f.final /\ fs'[m].serial = f.serial
            /\ fs'[m].tmp = f.tmp /\ fs'[m].data = f.data /\ fs'[m].synced
        BY <1>0, <1>1, <3>1 DEF Files
      <3>3. /\ f.final # "image" /\ disk[m].final # "image" /\ f.data = "whole"
            /\ f.tmp /\ f.serial = mine[c] /\ mine[c] # 0
        BY <1>0, <1>1, <3>1 DEF OwnerInv, Owner
      <3>4. RecordInv(m)'
        BY <1>0, <1>1, <3>1, <3>2, <3>3, NoImage
      <3>5. OwnerInv(c)'
        BY <1>0, <3>1, <3>2, <3>3 DEF OwnerInv
      <3>6. QED
        BY <3>1, <3>4, <3>5
    <2>5. CASE Rename(c)
      <3>1. /\ fs'[m] = [f EXCEPT !.tmp = FALSE, !.final = "image"]
            /\ pc'[c] = "syncDir"
            /\ disk' = disk /\ serial' = serial
            /\ pc[c] = "rename"
        BY <1>0, <1>1, <2>5 DEF Rename, TypeOK
      <3>2. /\ fs'[m].data = f.data /\ fs'[m].serial = f.serial
            /\ fs'[m].synced = f.synced
        BY <1>0, <1>1, <3>1 DEF Files
      <3>3. /\ disk[m].final # "image" /\ f.data = "whole" /\ f.synced
            /\ f.serial # 0
        BY <1>0, <1>1, <3>1 DEF OwnerInv, Owner
      <3>4. ~Owner(c)'
        BY <3>1 DEF Owner
      <3>5. Good(fs'[m])
        BY <3>2, <3>3 DEF Good
      <3>6. RecordInv(m)'
        BY <1>0, <1>1, <3>1, <3>2, <3>3, <3>5 DEF RecordInv
      <3>7. QED
        BY <3>4, <3>6 DEF OwnerInv
    <2>6. CASE Abandon(c) \/ Discard(c)
      <3>1. Owner(c) /\ pc'[c] = "idle" /\ disk' = disk /\ serial' = serial
        BY <2>6 DEF Abandon, Discard, End, Owner
      <3>2. disk[m].final # "image"
        BY <1>0, <1>1, <3>1 DEF OwnerInv
      <3>3. fs'[m].final = "none" /\ (fs'[m].serial = f.serial \/ fs'[m].serial = 0)
        BY <1>0, <1>1, <2>6 DEF Abandon, Discard, Absent, TypeOK, Files
      <3>4. ~Owner(c)'
        BY <3>1 DEF Owner
      <3>5. fs'[m].serial <= serial' /\ disk'[m].serial <= serial'
        BY <1>0, <1>1, <3>1, <3>3
      <3>6. RecordInv(m)'
        BY <1>0, <1>1, <3>1, <3>2, <3>3, <3>5, NoImage
      <3>7. QED
        BY <3>4, <3>6 DEF OwnerInv
    <2>7. QED
      BY <2>1, <2>2, <2>3, <2>4, <2>5, <2>6 DEF FileStep
  <1>3. QED
    BY <1>0, <1>1, <1>2, FileFrame, OwnCore

LEMMA PruneCore ==
    ASSUME TypeOK, Core, NEW c \in Calls, Prune(c)
    PROVE  Core'
  <1>1. PICK n \in Names :
          /\ fs' = [fs EXCEPT ![n] = IF @.tmp THEN [@ EXCEPT !.final = "none"]
                                     ELSE Absent]
          /\ UNCHANGED <<disk, serial, pc, name, mine>>
    BY DEF Prune, TypeOK
  <1>2. fs[n] \in Files /\ RecordInv(n) /\ serial \in Nat
    BY DEF TypeOK, Core
  <1>3. /\ fs'[n].final = "none"
        /\ fs[n].tmp => /\ fs'[n].tmp /\ fs'[n].data = fs[n].data
                        /\ fs'[n].serial = fs[n].serial
                        /\ fs'[n].synced = fs[n].synced
        /\ ~fs[n].tmp => fs'[n] = Absent
    <2>1. fs'[n] = IF fs[n].tmp THEN [fs[n] EXCEPT !.final = "none"] ELSE Absent
      BY <1>1 DEF TypeOK
    <2>2. CASE fs[n].tmp
      BY <1>2, <2>1, <2>2 DEF Files
    <2>3. CASE ~fs[n].tmp
      BY <2>1, <2>3 DEF Absent
    <2>4. QED
      BY <2>2, <2>3
  <1>4. \A k \in Names \ {n} : fs'[k] = fs[k]
    BY <1>1 DEF TypeOK
  <1>5. RecordInv(n)'
    <2>1. CASE fs[n].tmp
      BY <1>1, <1>2, <1>3, <2>1 DEF RecordInv, Good
    <2>2. CASE ~fs[n].tmp
      BY <1>1, <1>2, <1>3, <2>2 DEF RecordInv, Good, Absent
    <2>3. QED
      BY <2>1, <2>2
  <1>6. ASSUME NEW k \in Names PROVE RecordInv(k)'
    BY <1>1, <1>4, <1>5 DEF Core, RecordInv, Good
  <1>7. ASSUME NEW d \in Calls PROVE OwnerInv(d)'
    <2>1. OwnerInv(d) /\ name[d] \in Names
      BY DEF Core, TypeOK
    <2>2. CASE name[d] # n
      <3>1. fs'[name[d]] = fs[name[d]]
        BY <1>4, <2>1, <2>2
      <3>2. QED
        BY <1>1, <2>1, <3>1 DEF OwnerInv, Owner
    <2>3. CASE name[d] = n
      BY <1>1, <1>3, <2>1, <2>3 DEF OwnerInv, Owner
    <2>4. QED
      BY <2>2, <2>3
  <1>8. SoleOwner'
    BY <1>1 DEF Core, SoleOwner, Owner
  <1>9. QED
    BY <1>6, <1>7, <1>8 DEF Core

LEMMA SyncDirCore ==
    ASSUME TypeOK, Core, NEW c \in Calls, SyncDir(c)
    PROVE  Core'
  <1>1. /\ disk' = fs /\ fs' = fs /\ serial' = serial
        /\ \A d \in Calls : Owner(d)' =>
             pc'[d] = pc[d] /\ name'[d] = name[d] /\ mine'[d] = mine[d]
    BY DEF SyncDir, Goto, calls, TypeOK, Owner
  <1>2. \A d \in Calls : Owner(d)' => Owner(d)
    BY <1>1 DEF Owner
  <1>3. \A n \in Names : RecordInv(n)'
    BY <1>1 DEF Core, RecordInv, Good
  <1>4. \A d \in Calls : OwnerInv(d)'
    BY <1>1, <1>2 DEF Core, OwnerInv
  <1>5. SoleOwner'
    BY <1>1, <1>2 DEF Core, SoleOwner
  <1>6. QED
    BY <1>3, <1>4, <1>5 DEF Core

LEMMA NextCore == TypeOK /\ Core /\ Free /\ [Next]_vars => Core'
  <1> SUFFICES ASSUME TypeOK, Core, Free, [Next]_vars PROVE Core'
    OBVIOUS
  <1>1. ASSUME NEW c \in Calls, Start(c) \/ Advance(c) PROVE Core'
    <2>1. CASE FileStep(c)
      BY <2>1, FileCore
    <2>2. CASE \/ Start(c) \/ Stamp(c) \/ CreateTaken(c) \/ CreateFails(c)
               \/ List(c) \/ Warn(c) \/ Pruned(c) \/ Apply(c)
      <3>1. UNCHANGED <<fs, disk, serial>>
        BY <2>2 DEF Start, Stamp, CreateTaken, CreateFails, List, Warn, Pruned, Apply
      <3>2. \A d \in Calls : Owner(d)' =>
               pc'[d] = pc[d] /\ name'[d] = name[d] /\ mine'[d] = mine[d]
        BY <2>2 DEF Start, Stamp, CreateTaken, CreateFails, List, Warn, Pruned,
                    Apply, End, Goto, calls, TypeOK, Owner
      <3>3. QED
        BY <3>1, <3>2, QuietCore
    <2>3. CASE Prune(c)
      BY <2>3, PruneCore
    <2>4. CASE SyncDir(c)
      BY <2>4, SyncDirCore
    <2>5. QED
      BY <1>1, <2>1, <2>2, <2>3, <2>4 DEF Advance, FileStep
  <1>2. ASSUME NEW p \in Processes, Exit(p) PROVE Core'
    <2>1. {p} \in SUBSET Processes /\ Kill({p}) /\ UNCHANGED <<fs, disk, serial>>
      BY <1>2 DEF Exit
    <2>2. \A d \in Calls : Owner(d)' =>
             pc'[d] = pc[d] /\ name'[d] = name[d] /\ mine'[d] = mine[d]
      BY <2>1, KillIdle DEF Owner
    <2>3. QED
      BY <2>1, <2>2, QuietCore
  <1>3. CASE Tick
    BY <1>3, QuietCore DEF Tick, calls
  <1>4. CASE PowerLoss
    BY <1>4, PowerLossCore
  <1>5. CASE UNCHANGED vars
    BY <1>5, QuietCore DEF vars, calls
  <1>6. QED
    BY <1>1, <1>2, <1>3, <1>4, <1>5 DEF Next

-----------------------------------------------------------------------------
(* If nothing is pruned, a name once used keeps a file unless its call     *)
(* gives it up, and a snapshot stays.                                      *)
Taken(c) == pc[c] \in {"syncDir", "list", "prune", "apply"}

Held(c) ==
    /\ Owner(c) => fs[name[c]].final # "none"
    /\ Taken(c) => fs[name[c]].final = "image" /\ fs[name[c]].serial = mine[c]

KeepInv ==
    /\ \A c \in Calls : victims[c] = {}
    /\ \A n \in Names : disk[n].final = "image" => fs[n].final = "image"
    /\ \A c \in Calls : Held(c)

LEMMA KeepInit == Init => KeepInv
  BY DEF Init, KeepInv, Held, Owner, Taken, Absent

LEMMA KeepFree == TypeOK /\ KeepInv => Free
  BY DEF TypeOK, KeepInv, Free, Held

LEMMA QuietKeep ==
    ASSUME TypeOK, KeepInv, fs' = fs, disk' = disk \/ disk' = fs,
           \A d \in Calls : victims'[d] = {},
           \A d \in Calls : Owner(d)' \/ Taken(d)' =>
              /\ name'[d] = name[d] /\ mine'[d] = mine[d]
              /\ Owner(d)' => Owner(d)
              /\ Taken(d)' => Taken(d)
    PROVE  KeepInv'
  <1>1. \A n \in Names : (disk[n].final = "image" => fs[n].final = "image")'
    BY DEF KeepInv
  <1>2. \A d \in Calls : Held(d)'
    BY DEF KeepInv, Held
  <1>3. QED
    BY <1>1, <1>2 DEF KeepInv

LEMMA FileHeld ==
    ASSUME TypeOK, Core, Free, \A d \in Calls : Held(d), NEW c \in Calls, FileStep(c)
    PROVE  \A d \in Calls : Held(d)'
  <1>0. PICK m \in Names : m = name[c] /\ fs[m] \in Files
    BY DEF TypeOK
  <1>1. /\ disk' = disk
        /\ \A n \in Names \ {m} : fs'[n] = fs[n]
        /\ \A d \in Calls \ {c} :
             /\ pc'[d] = pc[d] /\ name'[d] = name[d] /\ mine'[d] = mine[d]
             /\ Owner(d) => name[d] # m
        /\ fs[m].final # "image" /\ disk[m].final # "image"
    BY <1>0, FileFrame
  <1>4. ASSUME NEW d \in Calls, d # c PROVE Held(d)'
    <2>1. Taken(d) => name[d] # m
      BY <1>1 DEF Held
    <2>2. /\ Owner(d)' <=> Owner(d)
          /\ Taken(d)' <=> Taken(d)
      BY <1>1, <1>4 DEF Owner, Taken
    <2>3. name[d] \in Names
      BY DEF TypeOK
    <2>4. QED
      BY <1>1, <1>4, <2>1, <2>2, <2>3 DEF Held
  <1>5. Held(c)'
    <2> USE DEF Goto, calls
    <2>1. CASE Create(c)
      <3>1. /\ fs'[m] = [fs[m] EXCEPT !.final = "empty"]
            /\ name'[c] = m /\ pc'[c] = "vacuum"
        BY <1>0, <2>1 DEF Create, TypeOK
      <3>2. fs'[m].final = "empty"
        BY <1>0, <3>1 DEF Files
      <3>3. QED
        BY <3>1, <3>2 DEF Held, Taken
    <2>2. CASE VacuumBegin(c) \/ VacuumEnd(c) \/ SyncFile(c)
      <3>1. /\ name'[c] = m /\ ~Taken(c)' /\ Owner(c)
        BY <1>0, <2>2 DEF VacuumBegin, VacuumEnd, SyncFile, TypeOK, Taken, Owner
      <3>2. fs'[m].final = fs[m].final
        <4>1. CASE VacuumBegin(c)
          <5>1. fs'[m] = [fs[m] EXCEPT !.tmp = TRUE, !.data = "part",
                                       !.synced = FALSE, !.serial = serial + 1]
            BY <1>0, <4>1 DEF VacuumBegin, TypeOK
          <5>2. QED
            BY <1>0, <5>1 DEF Files
        <4>2. CASE VacuumEnd(c) \/ SyncFile(c)
          <5>1. \/ fs'[m] = [fs[m] EXCEPT !.data = "whole"]
                \/ fs'[m] = [fs[m] EXCEPT !.synced = TRUE]
            BY <1>0, <4>2 DEF VacuumEnd, SyncFile, TypeOK
          <5>2. QED
            BY <1>0, <5>1 DEF Files
        <4>3. QED
          BY <2>2, <4>1, <4>2
      <3>3. QED
        BY <1>0, <3>1, <3>2 DEF Held
    <2>3. CASE Rename(c)
      <3>1. /\ fs'[m] = [fs[m] EXCEPT !.tmp = FALSE, !.final = "image"]
            /\ name'[c] = m /\ mine'[c] = mine[c] /\ pc'[c] = "syncDir"
            /\ pc[c] = "rename"
        BY <1>0, <2>3 DEF Rename, TypeOK
      <3>2. fs'[m].final = "image" /\ fs'[m].serial = fs[m].serial
        BY <1>0, <3>1 DEF Files
      <3>3. fs[m].serial = mine[c]
        BY <1>0, <3>1 DEF Core, OwnerInv, Owner
      <3>4. QED
        BY <3>1, <3>2, <3>3 DEF Held
    <2>4. CASE Abandon(c) \/ Discard(c)
      <3>1. pc'[c] = "idle"
        BY <2>4 DEF Abandon, Discard, End
      <3>2. QED
        BY <3>1 DEF Held, Owner, Taken
    <2>5. QED
      BY <2>1, <2>2, <2>3, <2>4 DEF FileStep
  <1>6. QED
    BY <1>4, <1>5

LEMMA FileKeep ==
    ASSUME TypeOK, Core, KeepInv, NEW c \in Calls, FileStep(c)
    PROVE  KeepInv'
  <1>1. /\ disk' = disk
        /\ \A n \in Names \ {name[c]} : fs'[n] = fs[n]
        /\ disk[name[c]].final # "image"
    BY KeepFree, FileFrame
  <1>2. \A d \in Calls : victims'[d] = {}
    BY DEF FileStep, Create, VacuumBegin, VacuumEnd, SyncFile, Rename, Abandon,
           Discard, End, calls, KeepInv, TypeOK
  <1>3. \A n \in Names : (disk[n].final = "image" => fs[n].final = "image")'
    BY <1>1 DEF KeepInv
  <1>4. \A d \in Calls : Held(d)'
    BY KeepFree, FileHeld DEF KeepInv
  <1>5. QED
    BY <1>2, <1>3, <1>4 DEF KeepInv

LEMMA NextKeep == Retain = 0 /\ TypeOK /\ Core /\ KeepInv /\ [Next]_vars => KeepInv'
  <1> SUFFICES ASSUME Retain = 0, TypeOK, Core, KeepInv, [Next]_vars
               PROVE  KeepInv'
    OBVIOUS
  <1>1. ASSUME NEW c \in Calls, Start(c) \/ Advance(c) PROVE KeepInv'
    <2>1. CASE FileStep(c)
      BY <2>1, FileKeep
    <2>2. ASSUME \/ Start(c) \/ Stamp(c) \/ CreateTaken(c) \/ CreateFails(c)
                 \/ List(c) \/ Warn(c) \/ Pruned(c) \/ Apply(c) \/ SyncDir(c)
          PROVE KeepInv'
      <3>1. fs' = fs /\ (disk' = disk \/ disk' = fs)
        BY <2>2 DEF Start, Stamp, CreateTaken, CreateFails, List, Warn, Pruned,
                    Apply, SyncDir
      <3>2. \A d \in Calls : victims'[d] = {}
        BY <2>2 DEF Start, Stamp, CreateTaken, CreateFails, List, Warn, Pruned,
                    Apply, SyncDir, End, calls, Excess, KeepInv, TypeOK
      <3>3. \A d \in Calls : Owner(d)' \/ Taken(d)' =>
               /\ name'[d] = name[d] /\ mine'[d] = mine[d]
               /\ Owner(d)' => Owner(d)
               /\ Taken(d)' => Taken(d)
        <4>1. CASE Start(c) \/ Stamp(c) \/ CreateTaken(c) \/ CreateFails(c)
          BY <4>1 DEF Start, Stamp, CreateTaken, CreateFails, End, Goto, calls, TypeOK,
                      Owner, Taken
        <4>2. CASE List(c) \/ Warn(c)
          BY <4>2, <2>2 DEF List, Warn, Goto, calls, TypeOK, Owner, Taken, KeepInv
        <4>3. CASE Pruned(c) \/ Apply(c) \/ SyncDir(c)
          BY <4>3 DEF Pruned, Apply, SyncDir, End, Goto, calls, TypeOK, Owner, Taken
        <4>4. QED
          BY <2>2, <4>1, <4>2, <4>3
      <3>4. QED
        BY <3>1, <3>2, <3>3, QuietKeep
    <2>3. ~Prune(c)
      BY DEF Prune, KeepInv
    <2>4. QED
      BY <1>1, <2>1, <2>2, <2>3 DEF Advance, FileStep
  <1>2. ASSUME NEW p \in Processes, Exit(p) PROVE KeepInv'
    <2>1. {p} \in SUBSET Processes /\ Kill({p}) /\ UNCHANGED <<fs, disk>>
      BY <1>2 DEF Exit
    <2>2. \A d \in Calls :
             /\ victims'[d] = {}
             /\ Owner(d)' \/ Taken(d)' =>
                  pc'[d] = pc[d] /\ name'[d] = name[d] /\ mine'[d] = mine[d]
      BY <2>1, KillIdle DEF Owner, Taken, KeepInv
    <2>3. \A d \in Calls : (Owner(d)' => Owner(d)) /\ (Taken(d)' => Taken(d))
      BY <2>2 DEF Owner, Taken
    <2>4. QED
      BY <2>1, <2>2, <2>3, QuietKeep
  <1>3. CASE Tick
    BY <1>3, QuietKeep DEF Tick, calls, KeepInv, Owner, Taken
  <1>4. CASE PowerLoss
    <2>1. \A c \in Calls : pc'[c] = "idle" /\ victims'[c] = {}
      <3>1. Kill(Processes) /\ \A c \in Calls : ProcessOf[c] \in Processes
        BY <1>4 DEF PowerLoss
      <3>2. QED
        BY <3>1, KillIdle
    <2>2. disk' = fs'
      BY <1>4 DEF PowerLoss
    <2>3. QED
      BY <2>1, <2>2 DEF KeepInv, Held, Owner, Taken
  <1>5. CASE UNCHANGED vars
    BY <1>5, QuietKeep DEF vars, calls, KeepInv, Owner, Taken
  <1>6. QED
    BY <1>1, <1>2, <1>3, <1>4, <1>5 DEF Next

-----------------------------------------------------------------------------
(* If each tick of the clock gives one timestamp and the clock never steps *)
(* back, a timestamp is given once, and what is at or beyond the clock has *)
(* no file yet.                                                            *)
Distinct == ~CoarseClock /\ ~ClockSteps

Active(c) == pc[c] \notin {"idle", "stamp"}

ClockInv ==
    /\ \A p \in Processes : last[p] < clock
    /\ \A c \in Calls : Active(c) => name[c] < clock
    /\ \A c, d \in Calls : Active(c) /\ Active(d) /\ name[c] = name[d] => c = d
    /\ \A n \in Names :
          n >= clock => fs[n].final = "none" /\ disk[n].final = "none"
    /\ \A c \in Calls : pc[c] = "create" =>
          fs[name[c]].final = "none" /\ disk[name[c]].final = "none"

LEMMA ClockInit == Init => ClockInv
  BY DEF Init, ClockInv, Active, Absent, Names

LEMMA ClockFree == TypeOK /\ ClockInv => Free
  <1> SUFFICES ASSUME TypeOK, ClockInv PROVE Free
    OBVIOUS
  <1>1. \A c, d \in Calls : pc[c] = "create" /\ Owner(d) => name[d] # name[c]
    BY DEF ClockInv, Active, Owner
  <1>2. QED
    BY <1>1 DEF Free, ClockInv

(* Steps that draw no timestamp and make no file.                          *)
LEMMA QuietClock ==
    ASSUME TypeOK, ClockInv, clock' = clock,
           \A p \in Processes : last'[p] = last[p] \/ last'[p] = 0,
           \A d \in Calls : Active(d)' =>
              /\ Active(d) /\ name'[d] = name[d]
              /\ pc'[d] = "create" => pc[d] = "create",
           \A n \in Names :
              /\ fs'[n].final \in {"none", fs[n].final, disk[n].final}
              /\ disk'[n].final \in {"none", fs[n].final, disk[n].final}
    PROVE  ClockInv'
  <1>1. \A p \in Processes : last'[p] < clock'
    BY DEF TypeOK, ClockInv
  <1>2. \A d \in Calls : Active(d)' => name'[d] < clock'
    BY DEF ClockInv
  <1>3. \A c, d \in Calls : Active(c)' /\ Active(d)' /\ name'[c] = name'[d] => c = d
    BY DEF ClockInv
  <1>4. \A n \in Names :
           n >= clock' => fs'[n].final = "none" /\ disk'[n].final = "none"
    BY DEF ClockInv
  <1>5. ASSUME NEW d \in Calls, pc'[d] = "create"
        PROVE  fs'[name'[d]].final = "none" /\ disk'[name'[d]].final = "none"
    <2>1. name[d] \in Names /\ pc[d] = "create" /\ name'[d] = name[d]
      BY <1>5 DEF TypeOK, Active
    <2>2. fs[name[d]].final = "none" /\ disk[name[d]].final = "none"
      BY <2>1 DEF ClockInv
    <2>3. QED
      BY <2>1, <2>2
  <1>6. QED
    BY <1>1, <1>2, <1>3, <1>4, <1>5 DEF ClockInv

LEMMA FileClock ==
    ASSUME TypeOK, Core, ClockInv, NEW c \in Calls, FileStep(c)
    PROVE  ClockInv'
  <1>0. PICK m \in Names : m = name[c] /\ Free
    BY ClockFree DEF TypeOK
  <1>1. /\ disk' = disk /\ clock' = clock /\ last' = last
        /\ \A n \in Names \ {m} : fs'[n] = fs[n]
        /\ \A d \in Calls \ {c} : pc'[d] = pc[d] /\ name'[d] = name[d]
    BY <1>0, FileFrame
  <1>2. /\ Active(c) /\ pc'[c] # "create"
        /\ Active(c)' => name'[c] = m
    BY <1>0 DEF FileStep, Create, VacuumBegin, VacuumEnd, SyncFile, Rename,
                Abandon, Discard, End, Goto, calls, TypeOK, Active
  <1>3. m < clock
    BY <1>0, <1>2 DEF ClockInv
  <1>4. \A d \in Calls : Active(d)' => Active(d) /\ name'[d] = name[d]
    BY <1>0, <1>1, <1>2 DEF Active
  <1>5. \A d \in Calls : Active(d)' => name'[d] < clock'
    BY <1>1, <1>4 DEF ClockInv
  <1>6. \A d, e \in Calls : Active(d)' /\ Active(e)' /\ name'[d] = name'[e] => d = e
    BY <1>4 DEF ClockInv
  <1>7. \A n \in Names :
           n >= clock' => fs'[n].final = "none" /\ disk'[n].final = "none"
    <2>1. clock \in Int /\ \A n \in Names : n \in Int
      BY DEF TypeOK, Names
    <2>2. QED
      BY <1>1, <1>3, <2>1 DEF ClockInv
  <1>8. ASSUME NEW d \in Calls, pc'[d] = "create"
        PROVE  fs'[name'[d]].final = "none" /\ disk'[name'[d]].final = "none"
    <2>1. d # c /\ pc[d] = "create" /\ name'[d] = name[d]
      BY <1>1, <1>2, <1>8
    <2>2. name[d] # m /\ name[d] \in Names
      BY <1>0, <1>2, <2>1 DEF ClockInv, Active, TypeOK
    <2>3. QED
      BY <1>1, <2>1, <2>2 DEF ClockInv
  <1>9. QED
    BY <1>1, <1>5, <1>6, <1>7, <1>8 DEF ClockInv

LEMMA StampClock ==
    ASSUME Distinct, TypeOK, ClockInv, NEW c \in Calls, Stamp(c)
    PROVE  ClockInv'
  <1> DEFINE p == ProcessOf[c]
  <1>0. /\ p \in Processes /\ last[p] \in Int /\ clock \in Int
        /\ \A n \in Names : n \in Int
    BY DEF TypeOK, Names
  <1>1. NextTimestamp(p) = clock
    BY <1>0 DEF NextTimestamp, ClockInv
  <1>2. /\ clock' = clock + 1 /\ name'[c] = clock /\ pc'[c] = "create"
        /\ clock \in Names
        /\ last' = [last EXCEPT ![p] = clock] /\ UNCHANGED <<fs, disk>>
        /\ \A d \in Calls \ {c} : pc'[d] = pc[d] /\ name'[d] = name[d]
    BY <1>1 DEF Stamp, Goto, TypeOK, Distinct, Names
  <1> HIDE DEF p
  <1>3. \A d \in Calls : name[d] \in Int
    BY <1>0 DEF TypeOK
  <1>4. \A q \in Processes : last'[q] < clock'
    BY <1>0, <1>2 DEF ClockInv, TypeOK
  <1>5. \A d \in Calls \ {c} : Active(d)' => Active(d) /\ name[d] < clock
    BY <1>2 DEF ClockInv, Active
  <1>6. \A d \in Calls : Active(d)' => name'[d] < clock'
    BY <1>0, <1>2, <1>3, <1>5
  <1>7. \A d, e \in Calls : Active(d)' /\ Active(e)' /\ name'[d] = name'[e] => d = e
    BY <1>0, <1>2, <1>3, <1>5 DEF ClockInv
  <1>8. \A n \in Names :
           n >= clock' => fs'[n].final = "none" /\ disk'[n].final = "none"
    BY <1>0, <1>2 DEF ClockInv
  <1>9. \A d \in Calls : pc'[d] = "create" =>
           fs'[name'[d]].final = "none" /\ disk'[name'[d]].final = "none"
    BY <1>0, <1>2 DEF ClockInv
  <1>10. QED
    BY <1>4, <1>6, <1>7, <1>8, <1>9 DEF ClockInv

LEMMA NextClock == Distinct /\ TypeOK /\ Core /\ ClockInv /\ [Next]_vars => ClockInv'
  <1> SUFFICES ASSUME Distinct, TypeOK, Core, ClockInv, [Next]_vars
               PROVE  ClockInv'
    OBVIOUS
  <1>1. ASSUME NEW c \in Calls, Start(c) \/ Advance(c) PROVE ClockInv'
    <2>1. CASE FileStep(c)
      BY <2>1, FileClock
    <2>2. CASE Stamp(c)
      BY <2>2, StampClock
    <2>3. ASSUME \/ Start(c) \/ CreateFails(c) \/ List(c) \/ Warn(c) \/ Pruned(c) \/ Apply(c)
                 \/ SyncDir(c)
          PROVE  ClockInv'
      <3>1. /\ clock' = clock /\ last' = last /\ fs' = fs
            /\ disk' = disk \/ disk' = fs
        BY <2>3 DEF Start, CreateFails, List, Warn, Pruned, Apply, SyncDir
      <3>2. \A d \in Calls : Active(d)' =>
               /\ Active(d) /\ name'[d] = name[d]
               /\ pc'[d] = "create" => pc[d] = "create"
        BY <2>3 DEF Start, CreateFails, List, Warn, Pruned, Apply, SyncDir, End, Goto, calls,
                    TypeOK, Active
      <3>3. QED
        BY <3>1, <3>2, QuietClock
    <2>4. ~CreateTaken(c)
      BY DEF CreateTaken, ClockInv
    <2>5. CASE Prune(c)
      <3>1. PICK n \in Names :
              /\ fs' = [fs EXCEPT ![n] = IF @.tmp THEN [@ EXCEPT !.final = "none"]
                                         ELSE Absent]
              /\ UNCHANGED <<clock, last, disk, pc, name>>
        BY <2>5 DEF Prune, TypeOK
      <3>2. fs'[n].final = "none"
        <4>1. fs'[n] = IF fs[n].tmp THEN [fs[n] EXCEPT !.final = "none"] ELSE Absent
          BY <3>1 DEF TypeOK
        <4>2. fs[n] \in Files
          BY DEF TypeOK
        <4>3. CASE fs[n].tmp
          BY <4>1, <4>2, <4>3 DEF Files
        <4>4. CASE ~fs[n].tmp
          BY <4>1, <4>4 DEF Absent
        <4>5. QED
          BY <4>3, <4>4
      <3>3. \A k \in Names : fs'[k].final \in {"none", fs[k].final}
        BY <3>1, <3>2 DEF TypeOK
      <3>4. QED
        BY <3>1, <3>3, QuietClock DEF Active
    <2>6. QED
      BY <1>1, <2>1, <2>2, <2>3, <2>4, <2>5 DEF Advance, FileStep
  <1>2. ASSUME NEW p \in Processes, Exit(p) PROVE ClockInv'
    <2>1. {p} \in SUBSET Processes /\ Kill({p}) /\ UNCHANGED <<clock, fs, disk>>
      BY <1>2 DEF Exit
    <2>2. \A q \in Processes : last'[q] = last[q] \/ last'[q] = 0
      BY <2>1 DEF Kill
    <2>3. \A d \in Calls : Active(d)' => pc'[d] = pc[d] /\ name'[d] = name[d]
      BY <2>1, KillIdle DEF Active
    <2>4. QED
      BY <2>1, <2>2, <2>3, QuietClock DEF Active
  <1>3. ~Tick
    BY DEF Tick, Distinct
  <1>4. CASE PowerLoss
    <2>1. Kill(Processes) /\ clock' = clock /\ \A c \in Calls : ProcessOf[c] \in Processes
      BY <1>4 DEF PowerLoss
    <2>2. \A d \in Calls : pc'[d] = "idle"
      BY <2>1, KillIdle
    <2>3. \A q \in Processes : last'[q] = 0
      BY <2>1 DEF Kill
    <2>4. ASSUME NEW n \in Names
          PROVE  /\ fs'[n].final \in {fs[n].final, disk[n].final}
                 /\ disk' = fs'
      <3>1. PICK kept \in SUBSET Names, torn \in SUBSET Names :
              /\ fs' = [k \in Names |-> Survivor(k, k \in kept, k \in torn)]
              /\ disk' = fs'
        BY <1>4 DEF PowerLoss
      <3> DEFINE k == n \in kept
                 t == n \in torn
      <3>2. k \in BOOLEAN /\ t \in BOOLEAN /\ fs'[n] = Survivor(n, k, t)
        BY <3>1
      <3> HIDE DEF k, t
      <3>3. Survivor(n, k, t).final = IF k THEN fs[n].final ELSE disk[n].final
        BY <3>2, SurvivorGood, Zenon
      <3>4. QED
        BY <3>1, <3>2, <3>3
    <2>5. QED
      BY <2>1, <2>2, <2>3, <2>4, QuietClock DEF Active
  <1>5. CASE UNCHANGED vars
    BY <1>5, QuietClock DEF vars, calls, Active
  <1>6. QED
    BY <1>1, <1>2, <1>3, <1>4, <1>5 DEF Next

-----------------------------------------------------------------------------
(* The inductive invariant, under either hypothesis.                       *)
Safe == Retain = 0 \/ Distinct

SnapInv ==
    /\ TypeOK
    /\ Core
    /\ Retain = 0 => KeepInv
    /\ Distinct => ClockInv

LEMMA SnapInvCorrect == ASSUME Safe PROVE Spec => []SnapInv
  <1>1. Init => SnapInv
    BY InitType, CoreInit, KeepInit, ClockInit DEF SnapInv
  <1>2. SnapInv /\ [Next]_vars => SnapInv'
    <2> SUFFICES ASSUME SnapInv, [Next]_vars PROVE SnapInv'
      OBVIOUS
    <2>1. Free
      BY KeepFree, ClockFree DEF Safe, SnapInv
    <2>2. TypeOK' /\ Core'
      BY <2>1, NextType, NextCore DEF SnapInv
    <2>3. QED
      BY <2>2, NextKeep, NextClock DEF SnapInv
  <1>3. QED
    BY <1>1, <1>2, PTL DEF Spec

(* Two calls never write under one name, in one process or in several,     *)
(* whoever crashes (reserveSnapshotName): nothing is pruned, or the        *)
(* timestamps are distinct.                                                *)
THEOREM NamesAreOwned == ASSUME Safe PROVE Spec => []OneOwner
  <1>1. SnapInv => OneOwner
    BY DEF SnapInv, Core, SoleOwner, OneOwner, Owns, Owner
  <1>2. QED
    BY <1>1, SnapInvCorrect, PTL

(* A file under a snapshot's name that is not empty holds a whole image,   *)
(* after any crash and any power loss (snapshot.go: VACUUM INTO a          *)
(* temporary file, sync, rename).                                          *)
THEOREM SnapshotsAreWhole == ASSUME Safe PROVE Spec => []FinalIsWhole
  <1>1. SnapInv => FinalIsWhole
    BY DEF SnapInv, Core, RecordInv, Good, FinalIsWhole, Images
  <1>2. QED
    BY <1>1, SnapInvCorrect, PTL

(* Without retention, the snapshot an apply has taken is there when it     *)
(* begins to change the database.                                          *)
THEOREM UndoIsThere == ASSUME Retain = 0 PROVE Spec => []UndoAvailable
  <1>1. SnapInv => UndoAvailable
    BY DEF SnapInv, KeepInv, Held, Taken, Core, RecordInv, Good, UndoAvailable, TypeOK
  <1>2. Safe
    BY DEF Safe
  <1>3. QED
    BY <1>1, <1>2, SnapInvCorrect, PTL

(* A snapshot on the disk is not replaced, by another snapshot or by a     *)
(* placeholder; it goes only if it is pruned.                              *)
THEOREM SnapshotsStay == ASSUME Safe PROVE Spec => NeverReplaced
  <1> DEFINE Stays(n) ==
        fs[n].final = "image" /\ disk[n].final = "image" =>
            \/ fs'[n].final = "none"
            \/ fs'[n].final = "image" /\ fs'[n].serial = fs[n].serial
  <1>1. ASSUME SnapInv, [Next]_vars, NEW n \in Names PROVE Stays(n)
    <2>0. TypeOK /\ Core /\ Free /\ fs[n] \in Files /\ RecordInv(n)
      BY <1>1, KeepFree, ClockFree DEF Safe, SnapInv, TypeOK, Core
    <2>1. ASSUME NEW c \in Calls, FileStep(c) PROVE Stays(n)
      BY <2>0, <2>1, FileFrame
    <2>2. ASSUME NEW c \in Calls, Prune(c) PROVE Stays(n)
      <3>1. PICK k \in Names :
              fs' = [fs EXCEPT ![k] = IF @.tmp THEN [@ EXCEPT !.final = "none"]
                                      ELSE Absent]
        BY <2>0, <2>2 DEF Prune, TypeOK
      <3>2. CASE k # n
        BY <2>0, <3>1, <3>2 DEF TypeOK
      <3>3. CASE k = n
        <4>1. fs'[n] = IF fs[n].tmp THEN [fs[n] EXCEPT !.final = "none"] ELSE Absent
          BY <2>0, <3>1, <3>3 DEF TypeOK
        <4>2. CASE fs[n].tmp
          BY <2>0, <4>1, <4>2 DEF Files
        <4>3. CASE ~fs[n].tmp
          BY <4>1, <4>3 DEF Absent
        <4>4. QED
          BY <4>2, <4>3
      <3>4. QED
        BY <3>2, <3>3
    <2>3. CASE PowerLoss
      <3>1. PICK kept \in SUBSET Names, torn \in SUBSET Names :
              fs' = [k \in Names |-> Survivor(k, k \in kept, k \in torn)]
        BY <2>3 DEF PowerLoss
      <3> DEFINE k == n \in kept
                 t == n \in torn
      <3>2. k \in BOOLEAN /\ t \in BOOLEAN /\ fs'[n] = Survivor(n, k, t)
        BY <3>1
      <3> HIDE DEF k, t
      <3>3. /\ Survivor(n, k, t).final = IF k THEN fs[n].final ELSE disk[n].final
            /\ Survivor(n, k, t).final = "image" =>
                 Survivor(n, k, t).serial = IF k THEN fs[n].serial ELSE disk[n].serial
        BY <2>0, <3>2, SurvivorGood, ZenonT(40)
      <3>4. QED
        BY <2>0, <3>2, <3>3 DEF RecordInv
    <2>4. CASE UNCHANGED fs
      BY <2>4
    <2>5. QED
      BY <1>1, <2>1, <2>2, <2>3, <2>4 DEF Next, Advance, FileStep, Start, Stamp,
            CreateTaken, CreateFails, SyncDir, List, Warn, Pruned, Apply, Exit, Tick, vars
  <1>2. SnapInv /\ [Next]_vars => [\A n \in Names : Stays(n)]_vars
    BY <1>1
  <1> HIDE DEF Stays
  <1>3. Spec => [][\A n \in Names : Stays(n)]_vars
    BY <1>2, SnapInvCorrect, PTL DEF Spec
  <1>4. QED
    BY <1>3, PTL DEF NeverReplaced, Stays

-----------------------------------------------------------------------------
(***************************************************************************)
(* One call at a time, with distinct timestamps: its snapshot is the       *)
(* newest file under a snapshot's name, is on the disk before anything is  *)
(* pruned, and is not pruned itself.  So one snapshot, at least, is always *)
(* both in the directory and on the disk.                                  *)
(***************************************************************************)
Alone == Distinct /\ \A c, d \in Calls : c = d

Newest(c) ==
    /\ Active(c) => \A n \in Names : fs[n].final # "none" => n <= name[c]
    /\ pc[c] \in {"list", "prune"} => disk[name[c]].final = "image"
    /\ pc[c] = "prune" => name[c] \notin victims[c]

AloneInv ==
    /\ \A c \in Calls : Held(c) /\ Newest(c)
    /\ Durable # {} => Durable \cap Images # {}

LEMMA AloneInit == Init => AloneInv
  BY DEF Init, AloneInv, Held, Newest, Owner, Taken, Active, Durable, Absent

(* Steps that change no file: the call goes on with its snapshot, or ends. *)
LEMMA QuietAlone ==
    ASSUME TypeOK, AloneInv, UNCHANGED <<fs, disk>>,
           \A d \in Calls :
              \/ pc'[d] \in {"idle", "stamp"}
              \/ /\ name'[d] = name[d] /\ mine'[d] = mine[d] /\ Active(d)
                 /\ Owner(d)' => Owner(d)
                 /\ Taken(d)' => Taken(d)
                 /\ pc'[d] \notin {"list", "prune"} \/ pc'[d] = pc[d]
                 /\ victims'[d] = victims[d]
    PROVE  AloneInv'
  <1>1. \A d \in Calls : Held(d)'
    BY DEF AloneInv, Held, Owner, Taken
  <1>2. \A d \in Calls : Newest(d)'
    BY DEF AloneInv, Newest, Active
  <1>3. (Durable # {} => Durable \cap Images # {})'
    BY DEF AloneInv, Durable, Images
  <1>4. QED
    BY <1>1, <1>2, <1>3 DEF AloneInv

LEMMA FileAlone ==
    ASSUME Alone, TypeOK, Core, ClockInv, AloneInv, NEW c \in Calls, FileStep(c)
    PROVE  AloneInv'
  <1>0. PICK m \in Names : m = name[c] /\ Free
    BY ClockFree DEF TypeOK
  <1>1. /\ disk' = disk
        /\ \A n \in Names \ {m} : fs'[n] = fs[n]
        /\ fs[m].final # "image" /\ disk[m].final # "image"
    BY <1>0, FileFrame
  <1>2. /\ Active(c) /\ pc'[c] \notin {"list", "prune"}
        /\ Active(c)' => name'[c] = m
    BY <1>0 DEF FileStep, Create, VacuumBegin, VacuumEnd, SyncFile, Rename,
                Abandon, Discard, End, Goto, calls, TypeOK, Active
  <1>3. \A d \in Calls : Held(d)'
    BY <1>0, FileHeld DEF AloneInv
  <1>4. Newest(c)'
    <2>1. \A n \in Names : fs[n].final # "none" => n <= m
      BY <1>0, <1>2 DEF AloneInv, Newest
    <2>2. m <= m
      BY <1>0 DEF Names
    <2>3. QED
      BY <1>1, <1>2, <2>1, <2>2 DEF Newest
  <1>5. (Durable # {} => Durable \cap Images # {})'
    BY <1>1 DEF AloneInv, Durable, Images
  <1>6. QED
    BY <1>3, <1>4, <1>5 DEF AloneInv, Alone

LEMMA StampAlone ==
    ASSUME Alone, TypeOK, ClockInv, AloneInv, NEW c \in Calls, Stamp(c)
    PROVE  AloneInv'
  <1>1. /\ ProcessOf[c] \in Processes /\ last[ProcessOf[c]] \in Int /\ clock \in Int
        /\ \A n \in Names : n \in Int
    BY DEF TypeOK, Names
  <1>2. NextTimestamp(ProcessOf[c]) = clock
    BY <1>1 DEF NextTimestamp, ClockInv
  <1>3. name'[c] = clock /\ pc'[c] = "create" /\ UNCHANGED <<fs, disk>>
    BY <1>2 DEF Stamp, Goto, TypeOK
  <1>4. \A n \in Names : fs[n].final # "none" => n <= clock
    BY <1>1 DEF ClockInv
  <1>5. Held(c)' /\ Newest(c)'
    BY <1>3, <1>4 DEF Held, Newest, Owner, Taken
  <1>6. (Durable # {} => Durable \cap Images # {})'
    BY <1>3 DEF AloneInv, Durable, Images
  <1>7. QED
    BY <1>5, <1>6 DEF AloneInv, Alone

LEMMA SyncDirAlone ==
    ASSUME Alone, TypeOK, AloneInv, NEW c \in Calls, SyncDir(c)
    PROVE  AloneInv' /\ Durable' # {}
  <1>1. /\ pc[c] = "syncDir" /\ pc'[c] = "list" /\ disk' = fs
        /\ UNCHANGED <<fs, name, mine, victims>> /\ name[c] \in Names
    BY DEF SyncDir, Goto, calls, TypeOK
  <1>2. fs[name[c]].final = "image" /\ Held(c)'
    BY <1>1 DEF AloneInv, Held, Owner, Taken
  <1>3. Newest(c)'
    BY <1>1, <1>2 DEF AloneInv, Newest, Active
  <1>4. name[c] \in (Durable \cap Images)'
    BY <1>1, <1>2 DEF Durable, Images
  <1>5. QED
    BY <1>2, <1>3, <1>4 DEF AloneInv, Alone

(* The newest of the files is not one too many.                            *)
LEMMA ListAlone ==
    ASSUME Alone, TypeOK, AloneInv, NEW c \in Calls, List(c)
    PROVE  AloneInv'
  <1>1. /\ pc[c] = "list" /\ pc'[c] = "prune" /\ victims'[c] = Excess(Finals)
        /\ UNCHANGED <<fs, disk, name, mine>> /\ name[c] \in Names
    BY DEF List, Goto, TypeOK
  <1>2. Held(c)'
    BY <1>1 DEF AloneInv, Held, Owner, Taken
  <1>3. name[c] \notin Excess(Finals)
    <2>1. \A n \in Names : fs[n].final # "none" => ~(n > name[c])
      <3>1. \A n \in Names : n \in Int
        BY DEF Names
      <3>2. QED
        BY <1>1, <3>1 DEF AloneInv, Newest, Active
    <2>2. {m \in Finals : m > name[c]} = {}
      BY <2>1 DEF Finals
    <2>3. Cardinality({m \in Finals : m > name[c]}) = 0
      BY <2>2, FS_EmptySet
    <2>4. QED
      BY <2>3 DEF Excess
  <1>4. Newest(c)'
    BY <1>1, <1>3 DEF AloneInv, Newest, Active
  <1>5. (Durable # {} => Durable \cap Images # {})'
    BY <1>1 DEF AloneInv, Durable, Images
  <1>6. QED
    BY <1>2, <1>4, <1>5 DEF AloneInv, Alone

LEMMA PruneAlone ==
    ASSUME Alone, TypeOK, AloneInv, NEW c \in Calls, Prune(c)
    PROVE  AloneInv'
  <1>1. PICK n \in victims[c] :
          /\ pc[c] = "prune"
          /\ fs' = [fs EXCEPT ![n] = IF @.tmp THEN [@ EXCEPT !.final = "none"]
                                     ELSE Absent]
          /\ victims' = [victims EXCEPT ![c] = @ \ {n}]
          /\ UNCHANGED <<disk, pc, name, mine>>
    BY DEF Prune
  <1>2. n \in Names /\ name[c] \in Names /\ n # name[c] /\ victims'[c] \subseteq victims[c]
    BY <1>1 DEF AloneInv, Newest, TypeOK
  <1>3. \A k \in Names \ {n} : fs'[k] = fs[k]
    BY <1>1, <1>2 DEF TypeOK
  <1>4. fs'[n].final = "none"
    <2>1. fs'[n] = IF fs[n].tmp THEN [fs[n] EXCEPT !.final = "none"] ELSE Absent
      BY <1>1, <1>2 DEF TypeOK
    <2>2. fs[n] \in Files
      BY <1>2 DEF TypeOK
    <2>3. CASE fs[n].tmp
      BY <2>1, <2>2, <2>3 DEF Files
    <2>4. CASE ~fs[n].tmp
      BY <2>1, <2>4 DEF Absent
    <2>5. QED
      BY <2>3, <2>4
  <1>5. Held(c)'
    BY <1>1, <1>2, <1>3 DEF AloneInv, Held, Owner, Taken
  <1>6. Newest(c)'
    BY <1>1, <1>2, <1>3, <1>4 DEF AloneInv, Newest, Active
  <1>7. name[c] \in (Durable \cap Images)'
    <2>1. fs[name[c]].final = "image" /\ disk[name[c]].final = "image"
      BY <1>1 DEF AloneInv, Newest, Held, Taken
    <2>2. QED
      BY <1>1, <1>2, <1>3, <2>1 DEF Durable, Images
  <1>8. QED
    BY <1>5, <1>6, <1>7 DEF AloneInv, Alone

(* A power loss leaves what is in the directory and on the disk.           *)
LEMMA PowerLossAlone ==
    ASSUME TypeOK, Core, AloneInv, PowerLoss
    PROVE  AloneInv' /\ (Durable # {} => Durable' # {})
  <1>1. \A c \in Calls : pc'[c] = "idle"
    <2>1. Kill(Processes) /\ \A c \in Calls : ProcessOf[c] \in Processes
      BY DEF PowerLoss
    <2>2. QED
      BY <2>1, KillIdle
  <1>2. disk' = fs'
    BY DEF PowerLoss
  <1>3. ASSUME NEW n \in Durable \cap Images PROVE n \in Durable'
    <2>1. n \in Names /\ fs[n].final = "image" /\ disk[n].final = "image"
      BY DEF Durable, Images
    <2>2. PICK kept \in SUBSET Names, torn \in SUBSET Names :
            fs' = [k \in Names |-> Survivor(k, k \in kept, k \in torn)]
      BY DEF PowerLoss
    <2> DEFINE k == n \in kept
               t == n \in torn
    <2>3. k \in BOOLEAN /\ t \in BOOLEAN /\ fs'[n] = Survivor(n, k, t)
      BY <2>1, <2>2
    <2> HIDE DEF k, t
    <2>4. Survivor(n, k, t).final = IF k THEN fs[n].final ELSE disk[n].final
      BY <2>1, <2>3, SurvivorGood, Zenon
    <2>5. QED
      BY <1>2, <2>1, <2>3, <2>4 DEF Durable
  <1>4. (Durable # {} => Durable \cap Images # {})'
    BY <1>2 DEF Durable, Images
  <1>5. \A c \in Calls : Held(c)' /\ Newest(c)'
    BY <1>1 DEF Held, Newest, Owner, Taken, Active
  <1>6. QED
    BY <1>3, <1>4, <1>5 DEF AloneInv

LEMMA NextAlone ==
    ASSUME Alone, TypeOK, Core, ClockInv, AloneInv, [Next]_vars
    PROVE  AloneInv' /\ (Durable # {} => Durable' # {})
  <1> USE DEF Goto, calls
  <1>1. ASSUME NEW c \in Calls, Start(c) \/ Advance(c)
        PROVE  AloneInv' /\ (Durable # {} => Durable' # {})
    <2>1. CASE SyncDir(c)
      BY <2>1, SyncDirAlone
    <2>2. CASE FileStep(c) \/ Stamp(c) \/ List(c) \/ Prune(c)
      <3>1. AloneInv'
        BY <2>2, FileAlone, StampAlone, ListAlone, PruneAlone
      <3>2. disk' = disk
        BY <2>2 DEF FileStep, Create, VacuumBegin, VacuumEnd, SyncFile, Rename,
                    Abandon, Discard, Stamp, List, Prune
      <3>3. QED
        BY <3>1, <3>2 DEF Durable
    <2>3. CASE Start(c) \/ CreateFails(c) \/ Warn(c) \/ Pruned(c) \/ Apply(c)
      <3>1. UNCHANGED <<fs, disk>>
        BY <2>3 DEF Start, CreateFails, Warn, Pruned, Apply
      <3>2. \A d \in Calls :
              \/ pc'[d] \in {"idle", "stamp"}
              \/ /\ name'[d] = name[d] /\ mine'[d] = mine[d] /\ Active(d)
                 /\ Owner(d)' => Owner(d)
                 /\ Taken(d)' => Taken(d)
                 /\ pc'[d] \notin {"list", "prune"} \/ pc'[d] = pc[d]
                 /\ victims'[d] = victims[d]
        <4>1. CASE Start(c) \/ CreateFails(c) \/ Apply(c)
          BY <4>1 DEF Start, CreateFails, Apply, End, TypeOK, Owner, Taken, Active
        <4>2. CASE Warn(c) \/ Pruned(c)
          BY <4>2 DEF Warn, Pruned, TypeOK, Owner, Taken, Active
        <4>3. QED
          BY <2>3, <4>1, <4>2
      <3>3. QED
        BY <3>1, <3>2, QuietAlone DEF Durable
    <2>4. ~CreateTaken(c)
      BY DEF CreateTaken, ClockInv
    <2>5. QED
      BY <1>1, <2>1, <2>2, <2>3, <2>4 DEF Advance, FileStep
  <1>2. ASSUME NEW p \in Processes, Exit(p)
        PROVE  AloneInv' /\ (Durable # {} => Durable' # {})
    <2>1. {p} \in SUBSET Processes /\ Kill({p}) /\ UNCHANGED <<fs, disk>>
      BY <1>2 DEF Exit
    <2>2. \A d \in Calls :
            \/ pc'[d] \in {"idle", "stamp"}
            \/ /\ pc'[d] = pc[d] /\ name'[d] = name[d] /\ mine'[d] = mine[d]
               /\ victims'[d] = victims[d] /\ Active(d)
      BY <2>1, KillIdle DEF Active
    <2>3. QED
      BY <2>1, <2>2, QuietAlone DEF Owner, Taken, Durable
  <1>3. ~Tick
    BY DEF Tick, Alone, Distinct
  <1>4. CASE PowerLoss
    BY <1>4, PowerLossAlone
  <1>5. CASE UNCHANGED vars
    <2>1. AloneInv'
      BY <1>5 DEF vars, AloneInv, Held, Newest, Owner, Taken, Active, Durable, Images
    <2>2. QED
      BY <1>5, <2>1 DEF vars, Durable
  <1>6. QED
    BY <1>1, <1>2, <1>3, <1>4, <1>5 DEF Next

LEMMA AloneInvCorrect == ASSUME Alone PROVE Spec => [](SnapInv /\ AloneInv)
  <1>1. Distinct /\ Safe
    BY DEF Alone, Safe
  <1>2. SnapInv /\ AloneInv /\ [Next]_vars => AloneInv'
    BY <1>1, NextAlone DEF SnapInv
  <1>3. QED
    BY <1>1, <1>2, AloneInit, SnapInvCorrect, PTL DEF Spec

(* Once a snapshot is durable a durable one remains, whatever is pruned,   *)
(* whatever fails and whenever the power does: Snapshot syncs the          *)
(* directory before pruneSnapshots removes the first file.                 *)
THEOREM SomeSnapshotStays == ASSUME Alone PROVE Spec => SomeSnapshotRemains
  <1>1. SnapInv /\ AloneInv /\ [Next]_vars => [Durable # {} => Durable' # {}]_vars
    BY NextAlone DEF SnapInv, Alone
  <1>2. QED
    BY <1>1, AloneInvCorrect, PTL DEF Spec, SomeSnapshotRemains

(* With retention, too, the snapshot an apply has taken is there when it   *)
(* begins to change the database, as long as no other call prunes.         *)
THEOREM UndoIsThereAlone == ASSUME Alone PROVE Spec => []UndoAvailable
  <1>1. SnapInv /\ AloneInv => UndoAvailable
    BY DEF SnapInv, AloneInv, Held, Taken, Core, RecordInv, Good, UndoAvailable, TypeOK
  <1>2. QED
    BY <1>1, AloneInvCorrect, PTL

-----------------------------------------------------------------------------
(***************************************************************************)
(* Any number of calls that list and prune at the same time, where nothing *)
(* fails and nobody dies: whoever has listed what, each file to be pruned  *)
(* has Retain newer ones, also after others have pruned or taken more; and *)
(* so has each that has been pruned.                                       *)
(***************************************************************************)
Quiet == Distinct /\ ~Faults /\ ~Crashes /\ ~PowerLosses

Newer(n) == {m \in Finals : m > n}

Fresh(n) == ~fs[n].tmp /\ fs[n].serial = 0

(* A timestamp the clock has passed has its file, or will have, or had.    *)
Creating(n) == \E c \in Calls : pc[c] = "create" /\ name[c] = n

Accounted ==
    \A n \in Names : n < clock /\ n \notin Finals =>
        Creating(n) \/ Cardinality(Newer(n)) >= Retain

RetainInv ==
    /\ \A c \in Calls : \A n \in victims[c] : Cardinality(Newer(n)) >= Retain
    /\ Accounted
    /\ \A n \in Names : fs[n].final = "empty" => \E c \in Calls : Owner(c) /\ name[c] = n
    /\ \A n \in Names : n >= clock => Fresh(n)
    /\ \A c \in Calls : pc[c] \in {"create", "vacuum"} => Fresh(name[c])

LEMMA FinalsFinite ==
    \A S \in SUBSET Names :
        /\ IsFiniteSet(S) /\ Cardinality(S) \in Nat
        /\ \A T \in SUBSET S : Cardinality(T) <= Cardinality(S)
  <1> SUFFICES ASSUME NEW S \in SUBSET Names
               PROVE  /\ IsFiniteSet(S) /\ Cardinality(S) \in Nat
                      /\ \A T \in SUBSET S : Cardinality(T) <= Cardinality(S)
    OBVIOUS
  <1>1. IsFiniteSet(Names)
    BY FS_Interval DEF Names
  <1>2. IsFiniteSet(S)
    BY <1>1, FS_Subset
  <1>3. QED
    BY <1>2, FS_Subset, FS_CardinalityType

LEMMA RetainInit == Init => RetainInv
  <1> SUFFICES ASSUME Init PROVE RetainInv
    OBVIOUS
  <1>1. /\ \A n \in Names : fs[n] = Absent
        /\ clock = 1 /\ \A c \in Calls : pc[c] = "idle" /\ victims[c] = {}
    BY DEF Init
  <1>2. \A n \in Names : Fresh(n) /\ fs[n].final = "none"
    BY <1>1 DEF Fresh, Absent
  <1>3. \A n \in Names : ~(n < clock)
    BY <1>1 DEF Names
  <1>4. QED
    BY <1>1, <1>2, <1>3 DEF RetainInv, Accounted

(* More files under snapshots' names change nothing for those that are, or *)
(* are to be, pruned.                                                      *)
LEMMA FinalsGrow ==
    ASSUME Finals \subseteq Finals', NEW n \in Names, Cardinality(Newer(n)) >= Retain
    PROVE  Cardinality(Newer(n))' >= Retain
  <1>1. Newer(n)' \in SUBSET Names /\ Newer(n) \in SUBSET Newer(n)' /\ Newer(n) \in SUBSET Names
    BY DEF Newer, Finals
  <1>2. /\ Cardinality(Newer(n)) \in Nat /\ Cardinality(Newer(n)') \in Nat
        /\ Cardinality(Newer(n)) <= Cardinality(Newer(n)')
    BY <1>1, FinalsFinite
  <1>3. QED
    BY <1>2, BoundsAssumption

(* Steps that change no file: no owner comes or goes.                      *)
LEMMA QuietRetain ==
    ASSUME TypeOK, RetainInv, UNCHANGED fs,
           clock <= clock',  clock' \in Int,
           \A n \in Names : clock <= n /\ n < clock' => Creating(n)',
           \A d \in Calls :
              /\ Owner(d)' <=> Owner(d)
              /\ Owner(d) => name'[d] = name[d]
              /\ pc[d] = "create" => pc'[d] = "create" /\ name'[d] = name[d]
              /\ pc'[d] = "create" =>
                    (pc[d] = "create" /\ name'[d] = name[d]) \/ name'[d] >= clock
              /\ pc'[d] = "vacuum" => pc[d] = "vacuum"
              /\ victims'[d] \subseteq victims[d]
                    \/ \A n \in victims'[d] : Cardinality(Newer(n)) >= Retain,
           TypeOK'
    PROVE  RetainInv'
  <1>1. Finals' = Finals /\ \A n : Newer(n)' = Newer(n)
    BY DEF Finals, Newer
  <1>2. \A c \in Calls : \A n \in victims'[c] : Cardinality(Newer(n))' >= Retain
    BY <1>1 DEF RetainInv
  <1>3. Accounted'
    <2> SUFFICES ASSUME NEW n \in Names, n < clock', n \notin Finals'
                 PROVE  Creating(n)' \/ Cardinality(Newer(n)') >= Retain
      BY DEF Accounted
    <2>1. n \in Int /\ clock \in Int
      BY DEF TypeOK, Names
    <2>2. CASE n < clock
      <3>1. Creating(n) \/ Cardinality(Newer(n)) >= Retain
        BY <1>1, <2>2 DEF RetainInv, Accounted
      <3>2. Creating(n) => Creating(n)'
        BY DEF Creating
      <3>3. QED
        BY <1>1, <3>1, <3>2
    <2>3. QED
      BY <2>1, <2>2
  <1>4. \A n : Fresh(n)' <=> Fresh(n)
    BY DEF Fresh
  <1>5. \A n \in Names : fs'[n].final = "empty" => \E c \in Calls : Owner(c)' /\ name'[c] = n
    BY DEF RetainInv
  <1>6. \A n \in Names : n >= clock' => Fresh(n)'
    <2>1. clock \in Int /\ \A n \in Names : n \in Int
      BY DEF TypeOK, Names
    <2>2. QED
      BY <1>4, <2>1 DEF RetainInv
  <1>7. \A c \in Calls : pc'[c] \in {"create", "vacuum"} => Fresh(name[c])'
    <2> SUFFICES ASSUME NEW c \in Calls, pc'[c] \in {"create", "vacuum"}
                 PROVE  Fresh(name[c])'
      OBVIOUS
    <2>1. CASE pc[c] \in {"create", "vacuum"} /\ name'[c] = name[c]
      BY <2>1 DEF RetainInv, Fresh
    <2>2. CASE pc'[c] = "create" /\ name'[c] >= clock
      <3>1. name'[c] \in Names
        BY DEF TypeOK
      <3>2. QED
        BY <2>2, <3>1 DEF RetainInv, Fresh
    <2>3. QED
      BY <2>1, <2>2 DEF Owner
  <1>8. QED
    BY <1>2, <1>3, <1>5, <1>6, <1>7 DEF RetainInv

(* What a step on a call's own files does to them, if none of them fails.  *)
LEMMA FileEffects ==
    ASSUME Quiet, TypeOK, RetainInv, NEW c \in Calls, NEW m \in Names, m = name[c], FileStep(c)
    PROVE  /\ UNCHANGED <<victims, name>>
           /\ \/ /\ pc[c] = "create" /\ pc'[c] = "vacuum"
                 /\ fs[m].final = "none" /\ fs'[m].final = "empty"
                 /\ fs'[m].serial = fs[m].serial /\ fs'[m].tmp = fs[m].tmp
              \/ /\ pc[c] = "vacuum" /\ pc'[c] = "write"
                 /\ fs'[m].final = fs[m].final
              \/ /\ pc[c] \in {"write", "sync"} /\ pc'[c] \in {"sync", "rename"}
                 /\ fs'[m].final = fs[m].final
              \/ /\ pc[c] = "rename" /\ pc'[c] = "syncDir"
                 /\ fs'[m].final = "image"
  <1> USE DEF Goto, calls
  <1>0. fs[m] \in Files
    BY DEF TypeOK
  <1>1. ~Abandon(c) /\ ~Discard(c)
    BY DEF Abandon, Discard, Quiet, RetainInv, Fresh
  <1>2. CASE Create(c)
    <2>1. fs'[m] = [fs[m] EXCEPT !.final = "empty"]
      BY <1>2 DEF Create, TypeOK
    <2>2. /\ fs'[m].final = "empty" /\ fs'[m].serial = fs[m].serial
          /\ fs'[m].tmp = fs[m].tmp
      BY <1>0, <2>1 DEF Files
    <2>3. QED
      BY <1>2, <2>2 DEF Create, TypeOK
  <1>3. CASE VacuumBegin(c)
    <2>1. fs'[m] = [fs[m] EXCEPT !.tmp = TRUE, !.data = "part", !.synced = FALSE,
                                 !.serial = serial + 1]
      BY <1>3 DEF VacuumBegin, TypeOK
    <2>2. fs'[m].final = fs[m].final
      BY <1>0, <2>1 DEF Files
    <2>3. QED
      BY <1>3, <2>2 DEF VacuumBegin, TypeOK
  <1>4. CASE VacuumEnd(c) \/ SyncFile(c)
    <2>1. \/ fs'[m] = [fs[m] EXCEPT !.data = "whole"]
          \/ fs'[m] = [fs[m] EXCEPT !.synced = TRUE]
      BY <1>4 DEF VacuumEnd, SyncFile, TypeOK
    <2>2. fs'[m].final = fs[m].final
      BY <1>0, <2>1 DEF Files
    <2>3. QED
      BY <1>4, <2>2 DEF VacuumEnd, SyncFile, TypeOK
  <1>5. CASE Rename(c)
    <2>1. fs'[m] = [fs[m] EXCEPT !.tmp = FALSE, !.final = "image"]
      BY <1>5 DEF Rename, TypeOK
    <2>2. fs'[m].final = "image"
      BY <1>0, <2>1 DEF Files
    <2>3. QED
      BY <1>5, <2>2 DEF Rename, TypeOK
  <1>6. QED
    BY <1>1, <1>2, <1>3, <1>4, <1>5 DEF FileStep

LEMMA FileRetain ==
    ASSUME Quiet, TypeOK, Core, ClockInv, RetainInv, NEW c \in Calls, FileStep(c)
    PROVE  RetainInv'
  <1>0. PICK m \in Names : m = name[c] /\ Free
    BY ClockFree DEF TypeOK
  <1>1. /\ \A n \in Names \ {m} : fs'[n] = fs[n]
        /\ \A d \in Calls \ {c} : pc'[d] = pc[d] /\ name'[d] = name[d]
        /\ UNCHANGED <<clock, last>>
    BY <1>0, FileFrame
  <1>2. /\ UNCHANGED <<victims, name>>
        /\ \/ /\ pc[c] = "create" /\ pc'[c] = "vacuum"
              /\ fs[m].final = "none" /\ fs'[m].final = "empty"
              /\ fs'[m].serial = fs[m].serial /\ fs'[m].tmp = fs[m].tmp
           \/ /\ pc[c] = "vacuum" /\ pc'[c] = "write"
              /\ fs'[m].final = fs[m].final
           \/ /\ pc[c] \in {"write", "sync"} /\ pc'[c] \in {"sync", "rename"}
              /\ fs'[m].final = fs[m].final
           \/ /\ pc[c] = "rename" /\ pc'[c] = "syncDir"
              /\ fs'[m].final = "image"
    BY <1>0, FileEffects
  <1>3. Finals \subseteq Finals'
    BY <1>1, <1>2 DEF Finals
  <1>4. \A d \in Calls : \A n \in victims'[d] : Cardinality(Newer(n))' >= Retain
    BY <1>2, <1>3, FinalsGrow DEF RetainInv, TypeOK
  <1>5. Accounted'
    <2> SUFFICES ASSUME NEW n \in Names, n < clock', n \notin Finals'
                 PROVE  Creating(n)' \/ Cardinality(Newer(n))' >= Retain
      BY DEF Accounted
    <2>1. Creating(n) \/ Cardinality(Newer(n)) >= Retain
      BY <1>1, <1>3 DEF RetainInv, Accounted
    <2>2. ASSUME NEW d \in Calls, pc[d] = "create", name[d] = n PROVE Creating(n)'
      <3>1. CASE d = c
        BY <1>0, <1>2, <2>2, <3>1 DEF Finals
      <3>2. CASE d # c
        BY <1>1, <2>2, <3>2 DEF Creating
      <3>3. QED
        BY <3>1, <3>2
    <2>3. QED
      BY <1>3, <2>1, <2>2, FinalsGrow DEF Creating
  <1>6. ASSUME NEW n \in Names, fs'[n].final = "empty"
        PROVE  \E d \in Calls : Owner(d)' /\ name'[d] = n
    <2>1. CASE n = m
      <3>1. Owner(c)'
        BY <1>2, <1>6, <2>1 DEF Owner
      <3>2. QED
        BY <1>0, <1>2, <2>1, <3>1
    <2>2. CASE n # m
      <3>1. PICK d \in Calls : Owner(d) /\ name[d] = n
        BY <1>1, <1>6, <2>2 DEF RetainInv
      <3>2. d # c
        BY <1>0, <2>2, <3>1
      <3>3. QED
        BY <1>1, <3>1, <3>2 DEF Owner
    <2>3. QED
      BY <2>1, <2>2
  <1>7. \A n \in Names : n >= clock' => Fresh(n)'
    <2>0. Active(c)
      BY <1>2 DEF Active
    <2>1. m < clock /\ clock \in Int /\ \A n \in Names : n \in Int
      BY <1>0, <2>0 DEF ClockInv, TypeOK, Names
    <2>2. QED
      BY <1>1, <2>1 DEF RetainInv, Fresh
  <1>8. ASSUME NEW d \in Calls, pc'[d] \in {"create", "vacuum"}
        PROVE  Fresh(name[d])'
    <2>1. CASE d = c
      BY <1>0, <1>2, <1>8, <2>1 DEF RetainInv, Fresh
    <2>2. CASE d # c
      <3>1. /\ pc[d] \in {"create", "vacuum"} /\ name'[d] = name[d] /\ name[d] \in Names
            /\ Active(c) /\ Active(d)
        BY <1>1, <1>2, <1>8, <2>2 DEF Active, TypeOK
      <3>2. name[d] # m
        BY <1>0, <2>2, <3>1 DEF ClockInv
      <3>3. QED
        BY <1>1, <3>1, <3>2 DEF RetainInv, Fresh
    <2>3. QED
      BY <2>1, <2>2
  <1>9. QED
    BY <1>4, <1>5, <1>6, <1>7, <1>8 DEF RetainInv

LEMMA PruneRetain ==
    ASSUME TypeOK, ClockInv, RetainInv, NEW c \in Calls, Prune(c)
    PROVE  RetainInv'
  <1>1. PICK n \in victims[c] :
          /\ fs[n].final # "none"
          /\ fs' = [fs EXCEPT ![n] = IF @.tmp THEN [@ EXCEPT !.final = "none"]
                                     ELSE Absent]
          /\ victims' = [victims EXCEPT ![c] = @ \ {n}]
          /\ UNCHANGED <<clock, serial, pc, name>>
    BY DEF Prune
  <1>2. n \in Names /\ n \in Finals /\ \A d \in Calls : victims'[d] \subseteq victims[d]
    BY <1>1 DEF TypeOK, Finals
  <1>3. \A k \in Names \ {n} : fs'[k] = fs[k]
    BY <1>1, <1>2 DEF TypeOK
  <1>4. fs'[n].final = "none" /\ (Fresh(n) => Fresh(n)')
    <2>1. fs'[n] = IF fs[n].tmp THEN [fs[n] EXCEPT !.final = "none"] ELSE Absent
      BY <1>1, <1>2 DEF TypeOK
    <2>2. fs[n] \in Files
      BY <1>2 DEF TypeOK
    <2>3. CASE fs[n].tmp
      BY <2>1, <2>2, <2>3 DEF Files, Fresh
    <2>4. CASE ~fs[n].tmp
      BY <2>1, <2>4 DEF Absent, Fresh
    <2>5. QED
      BY <2>3, <2>4
  <1>5. Finals' = Finals \ {n}
    BY <1>2, <1>3, <1>4 DEF Finals
  <1>6. Cardinality(Newer(n)) >= Retain
    BY <1>1 DEF RetainInv
  <1>7. /\ Newer(n) \subseteq Finals'
        /\ \A S \in SUBSET Names : Newer(n) \subseteq S => Cardinality(S) >= Retain
    <2>1. Newer(n) \in SUBSET Names
      BY DEF Newer, Finals
    <2>2. \A S \in SUBSET Names : Newer(n) \subseteq S => Cardinality(S) >= Retain
      BY <1>6, <2>1, FinalsFinite
    <2>3. n \notin Newer(n)
      BY <1>2 DEF Newer, Names
    <2>4. Newer(n) \subseteq Finals'
      BY <1>5, <2>3 DEF Newer
    <2>5. QED
      BY <2>2, <2>4
  <1>8. ASSUME NEW k \in Names, Cardinality(Newer(k)) >= Retain
        PROVE  Cardinality(Newer(k))' >= Retain
    <2>1. k \in Names
      OBVIOUS
    <2>2. CASE n > k
      <3>1. \A i \in Names : i \in Int
        BY DEF Names
      <3>2. \A i \in Newer(n) : i > k
        BY <1>2, <2>1, <2>2, <3>1 DEF Newer, Finals
      <3>3. Newer(n) \subseteq Newer(k)'
        BY <1>7, <3>2 DEF Newer
      <3>4. Newer(k)' \in SUBSET Names
        BY DEF Newer, Finals
      <3>5. QED
        BY <1>7, <3>3, <3>4
    <2>3. CASE ~(n > k)
      <3>1. Newer(k)' = Newer(k)
        BY <1>5, <2>3 DEF Newer
      <3>2. QED
        BY <1>8, <3>1
    <2>4. QED
      BY <2>2, <2>3
  <1>9. /\ \A d \in Calls : \A k \in victims'[d] : Cardinality(Newer(k))' >= Retain
        /\ Accounted'
    <2>1. \A d \in Calls : \A k \in victims'[d] : Cardinality(Newer(k))' >= Retain
      BY <1>2, <1>8 DEF RetainInv, TypeOK
    <2>2. ASSUME NEW k \in Names, k < clock', k \notin Finals'
          PROVE  Creating(k)' \/ Cardinality(Newer(k))' >= Retain
      <3>1. CASE k = n
        BY <1>6, <1>8, <3>1
      <3>2. CASE k # n
        <4>1. Creating(k) \/ Cardinality(Newer(k)) >= Retain
          BY <1>1, <1>5, <2>2, <3>2 DEF RetainInv, Accounted
        <4>2. Creating(k) => Creating(k)'
          BY <1>1 DEF Creating
        <4>3. QED
          BY <1>8, <4>1, <4>2
      <3>3. QED
        BY <3>1, <3>2
    <2>3. QED
      BY <2>1, <2>2 DEF Accounted
  <1>10. \A k \in Names :
           fs'[k].final = "empty" => \E d \in Calls : Owner(d)' /\ name'[d] = k
    BY <1>1, <1>3, <1>4 DEF RetainInv, Owner
  <1>11. \A k \in Names : Fresh(k) => Fresh(k)'
    BY <1>3, <1>4 DEF Fresh
  <1>12. \A k \in Names : k >= clock' => Fresh(k)'
    BY <1>1, <1>11 DEF RetainInv
  <1>13. ASSUME NEW d \in Calls, pc'[d] \in {"create", "vacuum"}
         PROVE  Fresh(name[d])'
    <2>1. Fresh(name[d]) /\ name[d] \in Names /\ name'[d] = name[d]
      BY <1>1, <1>13 DEF RetainInv, TypeOK
    <2>2. PICK k \in Names : k = name[d]
      BY <2>1
    <2>3. Fresh(k)'
      BY <1>11, <2>1, <2>2
    <2>4. QED
      BY <2>1, <2>2, <2>3 DEF Fresh
  <1>14. QED
    BY <1>9, <1>10, <1>12, <1>13 DEF RetainInv

LEMMA NextRetain ==
    ASSUME Quiet, TypeOK, TypeOK', Core, ClockInv, RetainInv, [Next]_vars
    PROVE  RetainInv'
  <1> USE DEF Goto, calls
  <1> DEFINE Same(d) ==
        /\ Owner(d)' <=> Owner(d)
        /\ Owner(d) => name'[d] = name[d]
        /\ pc[d] = "create" => pc'[d] = "create" /\ name'[d] = name[d]
        /\ pc'[d] = "create" =>
              (pc[d] = "create" /\ name'[d] = name[d]) \/ name'[d] >= clock
        /\ pc'[d] = "vacuum" => pc[d] = "vacuum"
        /\ victims'[d] \subseteq victims[d]
              \/ \A n \in victims'[d] : Cardinality(Newer(n)) >= Retain
  <1>0. clock \in Int /\ clock <= clock /\ \A n \in Names : ~(clock <= n /\ n < clock)
    BY DEF TypeOK, Names
  <1>1. ASSUME NEW c \in Calls, Start(c) \/ Advance(c) PROVE RetainInv'
    <2>1. CASE FileStep(c)
      BY <2>1, FileRetain
    <2>2. CASE Prune(c)
      BY <2>2, PruneRetain
    <2>3. CASE Stamp(c)
      <3>1. /\ ProcessOf[c] \in Processes /\ last[ProcessOf[c]] \in Int
            /\ NextTimestamp(ProcessOf[c]) = clock
        BY <1>0 DEF NextTimestamp, ClockInv, TypeOK
      <3>2. /\ clock' = clock + 1 /\ UNCHANGED <<fs, victims>>
            /\ pc[c] = "stamp" /\ pc'[c] = "create" /\ name'[c] = clock
            /\ \A d \in Calls \ {c} : pc'[d] = pc[d] /\ name'[d] = name[d]
        BY <2>3, <3>1 DEF Stamp, TypeOK, Quiet, Distinct
      <3>3. clock <= clock' /\ clock' \in Int
        BY <1>0, <3>2
      <3>4. ASSUME NEW d \in Calls PROVE Same(d)
        <4>1. CASE d = c
          BY <1>0, <3>2, <4>1 DEF Owner
        <4>2. CASE d # c
          BY <3>2, <4>2 DEF Owner
        <4>3. QED
          BY <4>1, <4>2
      <3>5. \A n \in Names : clock <= n /\ n < clock' => Creating(n)'
        <4>1. \A n \in Names : clock <= n /\ n < clock' => n = clock
          BY <1>0, <3>2 DEF Names
        <4>2. QED
          BY <3>2, <4>1 DEF Creating
      <3>6. QED
        BY <3>2, <3>3, <3>4, <3>5, QuietRetain
    <2>4. CASE List(c)
      <3>1. \A n \in Excess(Finals) : Cardinality(Newer(n)) >= Retain
        BY DEF Excess, Newer
      <3>2. /\ UNCHANGED <<clock, fs, name>>
            /\ pc[c] = "list" /\ pc'[c] = "prune" /\ victims'[c] = Excess(Finals)
            /\ \A d \in Calls \ {c} : pc'[d] = pc[d] /\ victims'[d] = victims[d]
        BY <2>4 DEF List, TypeOK
      <3>3. ASSUME NEW d \in Calls PROVE Same(d)
        <4>1. CASE d = c
          BY <3>1, <3>2, <4>1 DEF Owner
        <4>2. CASE d # c
          BY <3>2, <4>2 DEF Owner
        <4>3. QED
          BY <4>1, <4>2
      <3>4. QED
        BY <1>0, <3>2, <3>3, QuietRetain
    <2>5. CASE Start(c) \/ Warn(c) \/ Pruned(c) \/ Apply(c) \/ SyncDir(c)
      <3>1. UNCHANGED <<clock, fs>>
        BY <2>5 DEF Start, Warn, Pruned, Apply, SyncDir
      <3>2. \A d \in Calls :
              /\ d # c => pc'[d] = pc[d]
              /\ ~Owner(c) /\ pc[c] # "create" /\ pc'[c] \in {"stamp", "apply", "idle", "list"}
              /\ d # c => name'[d] = name[d]
              /\ victims'[d] \subseteq victims[d]
        <4>1. CASE Start(c) \/ Warn(c) \/ Pruned(c) \/ SyncDir(c)
          BY <4>1 DEF Start, Warn, Pruned, SyncDir, TypeOK, Owner, Quiet
        <4>2. CASE Apply(c)
          BY <4>2 DEF Apply, End, TypeOK, Owner
        <4>3. QED
          BY <2>5, <4>1, <4>2
      <3>3. ASSUME NEW d \in Calls PROVE Same(d)
        <4>1. CASE d = c
          BY <3>2, <4>1 DEF Owner
        <4>2. CASE d # c
          BY <3>2, <4>2 DEF Owner
        <4>3. QED
          BY <4>1, <4>2
      <3>4. QED
        BY <1>0, <3>1, <3>3, QuietRetain
    <2>6. ~CreateTaken(c) /\ ~CreateFails(c)
      BY DEF CreateTaken, CreateFails, ClockInv, Quiet
    <2>7. QED
      BY <1>1, <2>1, <2>2, <2>3, <2>4, <2>5, <2>6 DEF Advance, FileStep
  <1>2. ASSUME NEW p \in Processes, Exit(p) PROVE RetainInv'
    <2>1. /\ {p} \in SUBSET Processes /\ Kill({p}) /\ UNCHANGED <<clock, fs>>
          /\ \A d \in Calls : ProcessOf[d] = p => pc[d] = "idle"
      BY <1>2 DEF Exit, Quiet
    <2>2. ASSUME NEW d \in Calls
          PROVE  /\ pc'[d] = pc[d]
                 /\ pc[d] # "idle" => name'[d] = name[d]
                 /\ victims'[d] = victims[d] \/ victims'[d] = {}
      BY <2>1 DEF Kill, End, TypeOK
    <2>3. ASSUME NEW d \in Calls PROVE Same(d)
      BY <2>2 DEF Owner
    <2>4. QED
      BY <1>0, <2>1, <2>3, QuietRetain
  <1>3. ~Tick /\ ~PowerLoss
    BY DEF Tick, PowerLoss, Quiet, Distinct
  <1>4. CASE UNCHANGED vars
    <2>1. ASSUME NEW d \in Calls PROVE Same(d)
      BY <1>4 DEF vars, Owner
    <2>2. UNCHANGED <<clock, fs>>
      BY <1>4 DEF vars
    <2>3. QED
      BY <1>0, <2>1, <2>2, QuietRetain
  <1>5. QED
    BY <1>1, <1>2, <1>3, <1>4 DEF Next

(* Calls that race to prune remove the oldest only: once no call runs, each*)
(* snapshot that was taken is there, or has Retain newer ones that are     *)
(* (pruneSnapshots lists once and removes by name).                        *)
THEOREM RetainedAreKept == ASSUME Quiet PROVE Spec => []NewestKept
  <1>1. Distinct /\ Safe
    BY DEF Quiet, Safe
  <1>2. SnapInv /\ RetainInv /\ SnapInv' /\ [Next]_vars => RetainInv'
    BY <1>1, NextRetain DEF SnapInv
  <1>3. ASSUME TypeOK, RetainInv PROVE NewestKept
    <2> SUFFICES ASSUME \A c \in Calls : pc[c] = "idle",
                        NEW n \in Names, n < clock, n \notin Images
                 PROVE  Cardinality({m \in Images : m > n}) >= Retain
      BY DEF NewestKept
    <2>1. \A m \in Names : fs[m].final # "empty"
      BY <1>3 DEF RetainInv, Owner
    <2>2. \A m \in Names : fs[m].final \in {"none", "empty", "image"}
      BY <1>3 DEF TypeOK, Files
    <2>3. Images = Finals
      BY <2>1, <2>2 DEF Images, Finals
    <2>4. ~Creating(n)
      BY DEF Creating
    <2>5. {m \in Images : m > n} = Newer(n)
      BY <2>3 DEF Newer
    <2>6. QED
      BY <1>3, <2>3, <2>4, <2>5 DEF RetainInv, Accounted
  <1>4. SnapInv => TypeOK
    BY DEF SnapInv
  <1>5. QED
    BY <1>1, <1>2, <1>3, <1>4, RetainInit, SnapInvCorrect, PTL DEF Spec
=============================================================================
