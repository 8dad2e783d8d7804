-------------------------- MODULE TrashStore_proofs ---------------------------
(* Proofs about the trash, for every set of processes, places, files and   *)
(* items, every exclusion rule and any number of commands stopped half-way.*)
EXTENDS TrashStore, FiniteSetTheorems, TLAPS

Moving    == {"checked", "moved", "inserted"}
Restoring == {"read", "toPath", "toAside", "restored", "updated"}

(* What a process at work holds.                                           *)
Holds(p) ==
  /\ at[p] \in Moving \cup Restoring => item[p] \in Item /\ path[p] \in Path \ Protected
  /\ at[p] = "unlinked" => item[p] \in todo[p]
  /\ at[p] = "idle" => done[p] = {}

(* The id of a move that has not inserted its row yet is its own.          *)
Owned(p) ==
  at[p] \in {"checked", "moved"} =>
    /\ rows[item[p]] = NoRow
    /\ \A q \in Process \ {p} : item[q] # item[p]

(* Restores and purges work on items that have a row.                      *)
HasRow(p) ==
  /\ at[p] \in Restoring => rows[item[p]] # NoRow
  /\ \A i \in todo[p] \cup done[p] : rows[i] # NoRow

(* What a restore or a purge is about to close, it has emptied.            *)
Emptied(p) ==
  /\ at[p] \in {"restored", "updated"} => trash[item[p]] = NoFile
  /\ at[p] = "unlinked" => trash[item[p]] = NoFile
  /\ \A i \in done[p] : trash[i] = NoFile

(* Rows only ever point to places that no rule protects.                   *)
RowsUnprotected == \A i \in Item : rows[i] # NoRow => rows[i].path \notin Protected

Private == \A p \in Process : Holds(p) /\ Owned(p) /\ HasRow(p) /\ Emptied(p)
TrashInv == TypeOK /\ Private /\ RowsUnprotected /\ ClosedRowHasNoFile

-----------------------------------------------------------------------------
(* The trash starts empty and every process idle.                          *)
LEMMA InitInv == Init => TrashInv
  BY NullAssumption, NoRowAssumption, BoundAssumption
  DEF Init, TrashInv, TypeOK, Private, Holds, Owned, HasRow, Emptied, RowsUnprotected,
      ClosedRowHasNoFile, Location, Moving, Restoring

(* What move inserts is a row.                                             *)
LEMMA InsertedRow ==
  ASSUME NEW x \in Path
  PROVE  /\ [path |-> x, restored |-> FALSE, purged |-> FALSE] \in Row
         /\ [path |-> x, restored |-> FALSE, purged |-> FALSE] # NoRow
<1>1. [path |-> x, restored |-> FALSE, purged |-> FALSE] \in Row
  BY DEF Row
<1>2. QED
  BY <1>1, NoRowAssumption

(* Marking a row restored or purged changes nothing else of it.            *)
LEMMA MarkedRow ==
  ASSUME NEW r \in Row
  PROVE  /\ [r EXCEPT !.restored = TRUE] \in Row /\ [r EXCEPT !.restored = TRUE] # NoRow
         /\ [r EXCEPT !.restored = TRUE].path = r.path
         /\ [r EXCEPT !.restored = TRUE].restored
         /\ [r EXCEPT !.purged = TRUE] \in Row /\ [r EXCEPT !.purged = TRUE] # NoRow
         /\ [r EXCEPT !.purged = TRUE].path = r.path
         /\ [r EXCEPT !.purged = TRUE].purged
<1>1. [r EXCEPT !.restored = TRUE] \in Row /\ [r EXCEPT !.purged = TRUE] \in Row
  BY DEF Row
<1>2. QED
  BY <1>1, NoRowAssumption DEF Row

(* A command that ends leaves the files and rows as they are.              *)
LEMMA LeaveInv ==
  ASSUME NEW p \in Process, TrashInv, Leave(p), UNCHANGED <<files, rows>>,
         audit' \subseteq (Action \X Item), writer' \in Process \cup {NoProcess},
         faults' \in 0 .. MaxFaults, torn' \subseteq Item
  PROVE  TrashInv'
  BY NullAssumption DEF TrashInv, Leave, files, TypeOK, Private, Holds, Owned, HasRow, Emptied, RowsUnprotected,
     ClosedRowHasNoFile, Active, Location, Moving, Restoring

(* Every step of every command keeps the invariant, a stop included.       *)
LEMMA NextInv == TrashInv /\ [Next]_vars => TrashInv'
<1> SUFFICES ASSUME TrashInv, [Next]_vars PROVE TrashInv'
  OBVIOUS
<1> USE NullAssumption, NoRowAssumption, PathAssumption
    DEF TrashInv, TypeOK, Private, Holds, Owned, HasRow, Emptied, RowsUnprotected, ClosedRowHasNoFile,
        Active, Location, Moving, Restoring, Goto, files, tables, stops
<1>1. ASSUME NEW p \in Process, NEW x \in Path, NEW i \in Item, MoveCheck(p, x, i)
      PROVE  TrashInv'
  BY <1>1 DEF MoveCheck, Unused
<1>2. ASSUME NEW p \in Process, MoveFile(p)
      PROVE  TrashInv'
  <2>1. /\ item[p] \in Item /\ rows[item[p]] = NoRow /\ path[p] \in Path
        /\ at[p] = "checked" /\ at' = [at EXCEPT ![p] = "moved"]
        /\ trash' = [trash EXCEPT ![item[p]] = disk[path[p]]]
        /\ UNCHANGED <<rows, item, path, todo, done>>
    BY <1>2 DEF MoveFile
  <2>2. TypeOK'
    BY <1>2, <2>1 DEF MoveFile
  <2>3. \A q \in Process : Holds(q)' /\ Owned(q)' /\ HasRow(q)'
    BY <2>1
  <2>4. \A i \in Item : rows[i] # NoRow => trash'[i] = trash[i]
    BY <2>1
  <2>5. ASSUME NEW q \in Process PROVE Emptied(q)'
    <3>1. /\ at'[q] \in {"restored", "updated"} => item[q] \in Item /\ rows[item[q]] # NoRow
          /\ at'[q] = "unlinked" => item[q] \in Item /\ rows[item[q]] # NoRow
          /\ \A i \in done[q] : i \in Item /\ rows[i] # NoRow
          /\ at'[q] \in {"restored", "updated", "unlinked"} => at'[q] = at[q]
      BY <2>1
    <3>2. QED
      BY <2>1, <2>4, <3>1
  <2>6. RowsUnprotected' /\ ClosedRowHasNoFile'
    BY <2>1, <2>4
  <2>7. QED
    BY <2>2, <2>3, <2>5, <2>6
<1>3. ASSUME NEW p \in Process, MoveInsert(p)
      PROVE  TrashInv'
  <2> DEFINE new == [path |-> path[p], restored |-> FALSE, purged |-> FALSE]
  <2>1. /\ item[p] \in Item /\ rows[item[p]] = NoRow /\ path[p] \in Path \ Protected
        /\ at[p] = "moved" /\ at' = [at EXCEPT ![p] = "inserted"]
        /\ rows' = [rows EXCEPT ![item[p]] = new]
        /\ UNCHANGED <<trash, item, path, todo, done>>
    BY <1>3 DEF MoveInsert
  <2>2. new \in Row /\ new # NoRow /\ new.path = path[p] /\ ~new.restored /\ ~new.purged
    BY <2>1, InsertedRow
  <2> HIDE DEF new
  <2>3. TypeOK'
    <3>1. rows' \in [Item -> Row \cup {NoRow}]
      BY <2>1, <2>2
    <3>2. UNCHANGED <<files, audit, writer, stops, batch>>
      BY <1>3 DEF MoveInsert
    <3>3. QED
      BY <2>1, <3>1, <3>2
  <2>4. rows'[item[p]] = new /\ \A i \in Item \ {item[p]} : rows'[i] = rows[i]
    BY <2>1
  <2>5. \A q \in Process : Holds(q)' /\ Emptied(q)'
    BY <2>1
  <2>6. \A q \in Process : Owned(q)'
    BY <2>1, <2>4
  <2>7. \A q \in Process : HasRow(q)'
    BY <2>1, <2>2, <2>4
  <2>8. RowsUnprotected' /\ ClosedRowHasNoFile'
    BY <2>1, <2>2, <2>4
  <2>9. QED
    BY <2>3, <2>5, <2>6, <2>7, <2>8
<1>4. ASSUME NEW p \in Process, MoveAudit(p)
      PROVE  TrashInv'
  BY <1>4, LeaveInv DEF MoveAudit, Action
<1>5. ASSUME NEW p \in Process, NEW i \in Item, RestoreSelect(p, i)
      PROVE  TrashInv'
  BY <1>5 DEF RestoreSelect, Row
<1>6. ASSUME NEW p \in Process, RestoreChoose(p)
      PROVE  TrashInv'
  BY <1>6 DEF RestoreChoose
<1>7. ASSUME NEW p \in Process, RestoreFile(p)
      PROVE  TrashInv'
  <2>1. /\ item[p] \in Item /\ path[p] \in Path \ Protected /\ rows[item[p]] # NoRow
        /\ at[p] \in {"toPath", "toAside"} /\ at' = [at EXCEPT ![p] = "restored"]
        /\ trash' = [trash EXCEPT ![item[p]] = NoFile]
        /\ UNCHANGED <<rows, item, path, todo, done>>
    BY <1>7 DEF RestoreFile
  <2>2. TypeOK'
    BY <1>7, <2>1 DEF RestoreFile
  <2>3. \A i \in Item : trash[i] = NoFile => trash'[i] = NoFile
    BY <2>1
  <2>4. trash'[item[p]] = NoFile
    BY <2>1
  <2>5. \A q \in Process : Holds(q)' /\ Owned(q)' /\ HasRow(q)'
    BY <2>1
  <2>6. \A q \in Process : Emptied(q)'
    BY <2>1, <2>3, <2>4
  <2>7. RowsUnprotected' /\ ClosedRowHasNoFile'
    BY <2>1, <2>3
  <2>8. QED
    BY <2>2, <2>5, <2>6, <2>7
<1>8. ASSUME NEW p \in Process, RestoreUpdate(p)
      PROVE  TrashInv'
  <2> DEFINE marked == [rows[item[p]] EXCEPT !.restored = TRUE]
  <2>1. /\ item[p] \in Item /\ rows[item[p]] \in Row /\ rows[item[p]] # NoRow
        /\ trash[item[p]] = NoFile
        /\ at[p] = "restored" /\ at' = [at EXCEPT ![p] = "updated"]
        /\ rows' = [rows EXCEPT ![item[p]] = marked]
        /\ UNCHANGED <<trash, item, path, todo, done>>
    BY <1>8 DEF RestoreUpdate
  <2>2. marked \in Row /\ marked # NoRow /\ marked.path = rows[item[p]].path
    BY <2>1, MarkedRow
  <2> HIDE DEF marked
  <2>3. TypeOK'
    <3>1. rows' \in [Item -> Row \cup {NoRow}]
      BY <2>1, <2>2
    <3>2. UNCHANGED <<files, audit, writer, stops, batch>>
      BY <1>8 DEF RestoreUpdate
    <3>3. QED
      BY <2>1, <3>1, <3>2
  <2>4. rows'[item[p]] = marked /\ \A i \in Item \ {item[p]} : rows'[i] = rows[i]
    BY <2>1
  <2>5. \A q \in Process : Holds(q)' /\ Emptied(q)'
    BY <2>1
  <2>6. \A q \in Process : Owned(q)' /\ HasRow(q)'
    BY <2>1, <2>2, <2>4
  <2>7. RowsUnprotected' /\ ClosedRowHasNoFile'
    BY <2>1, <2>2, <2>4
  <2>8. QED
    BY <2>3, <2>5, <2>6, <2>7
<1>9. ASSUME NEW p \in Process, RestoreAudit(p)
      PROVE  TrashInv'
  BY <1>9, LeaveInv DEF RestoreAudit, Action
<1>10. ASSUME NEW p \in Process, SourceMissing(p)
       PROVE  TrashInv'
  BY <1>10, LeaveInv DEF SourceMissing
<1>11. ASSUME NEW p \in Process, NEW ids \in SUBSET {i \in Item : rows[i] # NoRow},
              PurgeSelect(p, ids)
       PROVE  TrashInv'
  BY <1>11 DEF PurgeSelect
<1>12. ASSUME NEW p \in Process, NEW i \in Item, PurgeUnlink(p, i)
       PROVE  TrashInv'
  BY <1>12 DEF PurgeUnlink
<1>13. ASSUME NEW p \in Process, PurgeUpdate(p)
       PROVE  TrashInv'
  BY <1>13 DEF PurgeUpdate
<1>14. ASSUME NEW p \in Process, PurgeCommit(p)
       PROVE  TrashInv'
  <2>1. /\ at[p] = "purging" /\ at' = [at EXCEPT ![p] = "committed"]
        /\ UNCHANGED <<trash, item, path, todo, done>>
    BY <1>14 DEF PurgeCommit
  <2>2. ASSUME NEW i \in Item
        PROVE  /\ rows'[i] \in Row \cup {NoRow}
               /\ rows[i] = NoRow => rows'[i] = NoRow
               /\ rows[i] # NoRow => rows'[i] # NoRow /\ rows'[i].path = rows[i].path
               /\ rows'[i] # rows[i] => i \in done[p]
    <3>1. CASE i \in done[p]
      <4>1. rows'[i] = [rows[i] EXCEPT !.purged = TRUE] /\ rows[i] \in Row
        BY <1>14, <3>1 DEF PurgeCommit
      <4> DEFINE marked == [rows[i] EXCEPT !.purged = TRUE]
      <4>2. marked \in Row /\ marked # NoRow /\ marked.path = rows[i].path
        BY <4>1, MarkedRow
      <4>3. rows'[i] = marked /\ rows[i] # NoRow
        BY <4>1
      <4> HIDE DEF marked
      <4>4. QED
        BY <3>1, <4>2, <4>3
    <3>2. CASE i \notin done[p]
      BY <1>14, <3>2 DEF PurgeCommit
    <3>3. QED
      BY <3>1, <3>2
  <2>3. TypeOK'
    <3>1. rows' = [i \in Item |-> rows'[i]]
      BY <1>14 DEF PurgeCommit
    <3>2. rows' \in [Item -> Row \cup {NoRow}]
      BY <3>1, <2>2
    <3>3. /\ UNCHANGED <<files, audit, stops, batch>>
          /\ writer' \in Process \cup {NoProcess}
      BY <1>14 DEF PurgeCommit
    <3>4. QED
      BY <2>1, <3>2, <3>3
  <2>4. \A q \in Process : Holds(q)' /\ Emptied(q)'
    BY <2>1
  <2>5. \A q \in Process : Owned(q)' /\ HasRow(q)'
    BY <2>1, <2>2
  <2>6. RowsUnprotected' /\ ClosedRowHasNoFile'
    BY <2>1, <2>2
  <2>7. QED
    BY <2>3, <2>4, <2>5, <2>6
<1>15. ASSUME NEW p \in Process, PurgeAudit(p)
       PROVE  TrashInv'
  BY <1>15, LeaveInv DEF PurgeAudit, Action
<1>16. ASSUME NEW p \in Process, Stop(p)
       PROVE  TrashInv'
  BY <1>16, LeaveInv, BoundAssumption DEF Stop
<1>17. ASSUME NEW x \in Path, NEW f \in File, UserCreate(x, f)
       PROVE  TrashInv'
  BY <1>17 DEF UserCreate, locals
<1>18. CASE UNCHANGED vars
  BY <1>18 DEF vars, locals
<1>19. QED
  BY <1>1, <1>2, <1>3, <1>4, <1>5, <1>6, <1>7, <1>8, <1>9, <1>10, <1>11, <1>12,
     <1>13, <1>14, <1>15, <1>16, <1>17, <1>18 DEF Next, Start, Continue

(* A row, once inserted, is never taken away.                              *)
LEMMA RowsStay ==
  ASSUME TrashInv, [Next]_vars, NEW i \in Item, rows[i] # NoRow
  PROVE  rows'[i] # NoRow
<1> USE DEF TrashInv, TypeOK, Private, Goto
<1>1. ASSUME NEW p \in Process, MoveInsert(p)
      PROVE  rows'[i] # NoRow
  BY <1>1 DEF MoveInsert, Owned
<1>2. ASSUME NEW p \in Process, RestoreUpdate(p)
      PROVE  rows'[i] # NoRow
  <2>1. rows'[i] = rows[i] \/ rows'[i] = [rows[i] EXCEPT !.restored = TRUE]
    BY <1>2 DEF RestoreUpdate
  <2>2. QED
    BY <2>1, MarkedRow
<1>3. ASSUME NEW p \in Process, PurgeCommit(p)
      PROVE  rows'[i] # NoRow
  <2>1. rows'[i] = rows[i] \/ rows'[i] = [rows[i] EXCEPT !.purged = TRUE]
    BY <1>3 DEF PurgeCommit
  <2>2. QED
    BY <2>1, MarkedRow
<1>4. CASE UNCHANGED rows
  BY <1>4
<1>5. QED
  BY <1>1, <1>2, <1>3, <1>4
  DEF Next, Start, Continue, Stop, MoveCheck, MoveFile, MoveAudit, RestoreSelect,
      RestoreChoose, RestoreFile, RestoreAudit, SourceMissing, PurgeSelect, PurgeUnlink,
      PurgeUpdate, PurgeAudit, UserCreate, tables, vars

(* A row is inserted by a move, and keeps its path when it is marked.      *)
LEMMA RowsAreWritten ==
  ASSUME TrashInv, [Next]_vars, NEW i \in Item, rows'[i] # rows[i]
  PROVE  \/ \E p \in Process : MoveInsert(p) /\ item[p] = i
         \/ rows[i] # NoRow /\ rows'[i].path = rows[i].path
<1> USE DEF TrashInv, TypeOK, Private, HasRow, Goto
<1>1. ASSUME NEW p \in Process, MoveInsert(p)
      PROVE  item[p] = i
  BY <1>1 DEF MoveInsert, Holds, Moving
<1>2. ASSUME NEW p \in Process, RestoreUpdate(p)
      PROVE  rows[i] # NoRow /\ rows'[i].path = rows[i].path
  <2>1. item[p] \in Item /\ rows[item[p]] # NoRow
    BY <1>2 DEF RestoreUpdate, Holds, Restoring
  <2>2. i = item[p] /\ rows'[i] = [rows[i] EXCEPT !.restored = TRUE]
    BY <1>2, <2>1 DEF RestoreUpdate
  <2>3. QED
    BY <2>1, <2>2, MarkedRow
<1>3. ASSUME NEW p \in Process, PurgeCommit(p)
      PROVE  rows[i] # NoRow /\ rows'[i].path = rows[i].path
  <2>1. i \in done[p] /\ rows'[i] = [rows[i] EXCEPT !.purged = TRUE]
    BY <1>3 DEF PurgeCommit
  <2>2. QED
    BY <2>1, MarkedRow
<1>4. QED
  BY <1>1, <1>2, <1>3
  DEF Next, Start, Continue, Stop, MoveCheck, MoveFile, MoveAudit, RestoreSelect,
      RestoreChoose, RestoreFile, RestoreAudit, SourceMissing, PurgeSelect, PurgeUnlink,
      PurgeUpdate, PurgeAudit, UserCreate, tables, vars

\* Type correctness of the trash for every constant (TypeOK of TrashStore).
THEOREM TypeCorrect == Spec => []TypeOK
<1>1. TrashInv => TypeOK
  BY DEF TrashInv
<1>2. QED
  BY InitInv, NextInv, <1>1, PTL DEF Spec

\* However commands interleave and wherever they stop, a row that says restored
\* or purged has no file left behind it (ClosedRowHasNoFile).
THEOREM ClosedRowsAreEmpty == Spec => []ClosedRowHasNoFile
<1>1. TrashInv => ClosedRowHasNoFile
  BY DEF TrashInv
<1>2. QED
  BY InitInv, NextInv, <1>1, PTL DEF Spec

-----------------------------------------------------------------------------
(* The write lock: its owner is a purge with rows to commit.               *)
LockInv == TrashInv /\ LockIsHeld

(* Nobody holds the lock at the start.                                     *)
LEMMA InitLock == Init => LockIsHeld
  BY NullAssumption DEF Init, LockIsHeld

(* The lock is taken with the first row updated and given back at the      *)
(* commit or when its owner stops.                                         *)
LEMMA NextLock == TrashInv /\ LockIsHeld /\ [Next]_vars => LockIsHeld'
<1> SUFFICES ASSUME TrashInv, LockIsHeld, [Next]_vars PROVE LockIsHeld'
  OBVIOUS
<1> USE NullAssumption DEF LockIsHeld, TrashInv, TypeOK, Private, Holds, Location, Goto, stops
<1>1. ASSUME NEW p \in Process, Leave(p), at[p] # "idle",
             writer' = IF writer = p THEN NoProcess ELSE writer
      PROVE  LockIsHeld'
  BY <1>1 DEF Leave
<1>2. ASSUME NEW p \in Process, at[p] \notin {"purging", "unlinked"}, UNCHANGED writer,
             Leave(p)
      PROVE  LockIsHeld'
  BY <1>2 DEF Leave
<1>3. ASSUME NEW p \in Process, UNCHANGED <<writer, done>>,
             at[p] \in {"purging", "unlinked"} <=> at'[p] \in {"purging", "unlinked"},
             \A q \in Process \ {p} : at'[q] = at[q]
      PROVE  LockIsHeld'
  BY <1>3
<1>4. ASSUME NEW p \in Process, Start(p)
      PROVE  LockIsHeld'
  BY <1>4 DEF Start, MoveCheck, RestoreSelect, PurgeSelect
<1>5. ASSUME NEW p \in Process,
             MoveFile(p) \/ MoveInsert(p) \/ RestoreChoose(p) \/ RestoreFile(p) \/ RestoreUpdate(p)
      PROVE  LockIsHeld'
  BY <1>5, <1>3 DEF MoveFile, MoveInsert, RestoreChoose, RestoreFile, RestoreUpdate
<1>6. ASSUME NEW p \in Process,
             MoveAudit(p) \/ RestoreAudit(p) \/ SourceMissing(p) \/ PurgeAudit(p)
      PROVE  LockIsHeld'
  BY <1>6, <1>2 DEF MoveAudit, RestoreAudit, SourceMissing, PurgeAudit
<1>7. ASSUME NEW p \in Process, NEW i \in Item, PurgeUnlink(p, i)
      PROVE  LockIsHeld'
  BY <1>7, <1>3 DEF PurgeUnlink
<1>8. ASSUME NEW p \in Process, PurgeUpdate(p)
      PROVE  LockIsHeld'
  BY <1>8 DEF PurgeUpdate, CanWrite
<1>9. ASSUME NEW p \in Process, PurgeCommit(p)
      PROVE  LockIsHeld'
  BY <1>9 DEF PurgeCommit
<1>10. ASSUME NEW p \in Process, Stop(p)
       PROVE  LockIsHeld'
  BY <1>10, <1>1 DEF Stop, Leave
<1>11. CASE UNCHANGED <<writer, at, done>>
  BY <1>11
<1>12. QED
  BY <1>4, <1>5, <1>6, <1>7, <1>8, <1>9, <1>10, <1>11
  DEF Next, Continue, UserCreate, vars, locals

\* No command ever waits for a lock that no step will release, wherever a purge
\* was stopped (LockIsHeld).
THEOREM LockReleased == Spec => []LockIsHeld
<1>1. Init => LockInv
  BY InitInv, InitLock DEF LockInv
<1>2. LockInv /\ [Next]_vars => LockInv'
  BY NextInv, NextLock DEF LockInv
<1>3. LockInv => LockIsHeld
  BY DEF LockInv
<1>4. QED
  BY <1>1, <1>2, <1>3, PTL DEF Spec

-----------------------------------------------------------------------------
(* A step leaves what lies at a protected path alone.                      *)
Untouched == \A x \in Protected : disk[x] # NoFile => disk'[x] = disk[x]

(* Only move, restore and the user change a place, none of them a protected*)
(* one that is taken.                                                      *)
LEMMA NextUntouched == TrashInv /\ [Next]_vars => Untouched
<1> SUFFICES ASSUME TrashInv, [Next]_vars, NEW y \in Protected, disk[y] # NoFile
             PROVE  disk'[y] = disk[y]
  BY DEF Untouched
<1> USE PathAssumption DEF TrashInv, TypeOK, Private, Holds, Moving, Restoring, Goto
<1>1. ASSUME NEW p \in Process, MoveFile(p)
      PROVE  disk'[y] = disk[y]
  BY <1>1 DEF MoveFile
<1>2. ASSUME NEW p \in Process, RestoreFile(p)
      PROVE  disk'[y] = disk[y]
  BY <1>2 DEF RestoreFile
<1>3. ASSUME NEW x \in Path, NEW f \in File, UserCreate(x, f)
      PROVE  disk'[y] = disk[y]
  BY <1>3 DEF UserCreate
<1>4. CASE UNCHANGED disk
  BY <1>4
<1>5. QED
  BY <1>1, <1>2, <1>3, <1>4
  DEF Next, Start, Continue, Stop, MoveCheck, MoveInsert, MoveAudit, RestoreSelect,
      RestoreChoose, RestoreUpdate, RestoreAudit, SourceMissing, PurgeSelect, PurgeUnlink,
      PurgeUpdate, PurgeCommit, PurgeAudit, files, vars

\* No command of any process ever moves, replaces or deletes what lies at a path
\* that an exclusion rule protects (ProtectedUntouched).
THEOREM ProtectionHolds == Spec => ProtectedUntouched
<1>1. TrashInv /\ [Next]_vars => [Untouched]_vars
  BY NextUntouched
<1>2. QED
  BY InitInv, NextInv, <1>1, PTL DEF Spec, ProtectedUntouched, Untouched

-----------------------------------------------------------------------------
(* Rows and files.                                                         *)

(* Someone works on the item.                                              *)
LEMMA AtWorkMeans ==
  ASSUME NEW i \in Item
  PROVE  i \in AtWork <=> \E p \in Process : item[p] = i \/ i \in todo[p] \/ i \in done[p]
BY NullAssumption DEF AtWork

(* A process that has changed the file of an item, or has its row still to *)
(* change.                                                                 *)
Owes(p, i) ==
  \/ at[p] \in {"moved", "restored", "unlinked"} /\ item[p] = i
  \/ at[p] \in {"purging", "unlinked"} /\ i \in done[p]
MovedFull == \A p \in Process : at[p] = "moved" => trash[item[p]] # NoFile
Matched(i) == Active(i) <=> trash[i] # NoFile
MatchInv ==
  /\ MovedFull
  /\ \A i \in Item \ torn : Matched(i) \/ \E p \in Process : Owes(p, i)

(* What a move has put into the trash stays there until it has a row.      *)
LEMMA NextMovedFull == TrashInv /\ MovedFull /\ [Next]_vars => MovedFull'
<1> SUFFICES ASSUME TrashInv, MovedFull, [Next]_vars, NEW q \in Process, at'[q] = "moved"
             PROVE  trash'[item'[q]] # NoFile
  BY DEF MovedFull
<1> USE DEF TrashInv, TypeOK, Private, Holds, Owned, HasRow, Moving, Restoring, Goto, MovedFull
<1>1. ASSUME NEW p \in Process, MoveFile(p) PROVE trash'[item'[q]] # NoFile
  BY <1>1 DEF MoveFile
<1>2. ASSUME NEW p \in Process, RestoreFile(p) PROVE trash'[item'[q]] # NoFile
  <2>1. /\ p # q /\ at[q] = "moved" /\ item'[q] = item[q]
        /\ trash' = [trash EXCEPT ![item[p]] = NoFile]
    BY <1>2 DEF RestoreFile
  <2>2. item[p] # item[q]
    BY <1>2, <2>1 DEF RestoreFile
  <2>3. QED
    BY <2>1, <2>2
<1>3. ASSUME NEW p \in Process, NEW i \in Item, PurgeUnlink(p, i)
      PROVE trash'[item'[q]] # NoFile
  <2>1. /\ p # q /\ at[q] = "moved" /\ item'[q] = item[q]
        /\ trash' = [trash EXCEPT ![i] = NoFile] /\ i \in todo[p]
    BY <1>3 DEF PurgeUnlink
  <2>2. i # item[q]
    BY <2>1
  <2>3. QED
    BY <2>1, <2>2
<1>4. ASSUME UNCHANGED trash, at[q] = "moved", item'[q] = item[q]
      PROVE  trash'[item'[q]] # NoFile
  BY <1>4
<1>5. ASSUME NEW p \in Process, Start(p) \/ Stop(p) \/ MoveInsert(p) \/ MoveAudit(p)
                             \/ RestoreChoose(p) \/ RestoreUpdate(p) \/ RestoreAudit(p)
                             \/ SourceMissing(p) \/ PurgeUpdate(p) \/ PurgeCommit(p)
                             \/ PurgeAudit(p)
      PROVE  UNCHANGED trash /\ at[q] = "moved" /\ item'[q] = item[q]
  BY <1>5 DEF Start, Stop, MoveCheck, RestoreSelect, PurgeSelect, MoveInsert, MoveAudit,
      RestoreChoose, RestoreUpdate, RestoreAudit, SourceMissing, PurgeUpdate, PurgeCommit,
      PurgeAudit, Leave, files
<1>6. ASSUME UNCHANGED <<trash, locals>>
      PROVE  trash'[item'[q]] # NoFile
  BY <1>6 DEF locals
<1>7. QED
  BY <1>1, <1>2, <1>3, <1>4, <1>5, <1>6 DEF Next, Continue, UserCreate, vars, files

(* A command that stops leaves what it owes among the torn items; one that *)
(* goes on owes it still, or has changed the row.                          *)
LEMMA OwesStays ==
  ASSUME TrashInv, [Next]_vars, NEW q \in Process, NEW i \in Item, Owes(q, i), i \notin torn'
  PROVE  \/ Owes(q, i)'
         \/ MoveInsert(q) /\ item[q] = i
         \/ RestoreUpdate(q) /\ item[q] = i
         \/ PurgeCommit(q) /\ i \in done[q]
<1> USE NullAssumption DEF Owes, TrashInv, TypeOK, Private, Holds, Moving, Restoring, Goto
<1>1. ASSUME NEW p \in Process, p # q, Start(p) \/ Continue(p) \/ Stop(p)
      PROVE  at'[q] = at[q] /\ item'[q] = item[q] /\ done'[q] = done[q]
  BY <1>1 DEF Start, Continue, Stop, MoveCheck, MoveFile, MoveInsert, MoveAudit, RestoreSelect,
      RestoreChoose, RestoreFile, RestoreUpdate, RestoreAudit, SourceMissing, PurgeSelect,
      PurgeUnlink, PurgeUpdate, PurgeCommit, PurgeAudit, Leave
<1>2. CASE Stop(q)
  BY <1>2 DEF Stop
<1>3. CASE Start(q) \/ MoveFile(q) \/ MoveAudit(q) \/ RestoreChoose(q) \/ RestoreFile(q)
           \/ RestoreAudit(q) \/ SourceMissing(q) \/ PurgeAudit(q)
  BY <1>3 DEF Start, MoveCheck, MoveFile, MoveAudit, RestoreSelect, RestoreChoose, RestoreFile,
      RestoreAudit, SourceMissing, PurgeSelect, PurgeAudit
<1>4. CASE MoveInsert(q)
  BY <1>4 DEF MoveInsert
<1>5. CASE RestoreUpdate(q)
  BY <1>5 DEF RestoreUpdate
<1>6. ASSUME NEW j \in Item, PurgeUnlink(q, j) PROVE Owes(q, i)'
  BY <1>6 DEF PurgeUnlink
<1>7. CASE PurgeUpdate(q)
  BY <1>7 DEF PurgeUpdate
<1>8. CASE PurgeCommit(q)
  BY <1>8 DEF PurgeCommit
<1>9. CASE UNCHANGED locals
  BY <1>9 DEF locals
<1>10. QED
  BY <1>1, <1>2, <1>3, <1>4, <1>5, <1>6, <1>7, <1>8, <1>9 DEF Next, Continue, UserCreate, vars

(* Who changes a row has made the file match.                              *)
LEMMA Settles ==
  ASSUME TrashInv, MovedFull, NEW q \in Process, NEW i \in Item,
         \/ MoveInsert(q) /\ item[q] = i
         \/ RestoreUpdate(q) /\ item[q] = i
         \/ PurgeCommit(q) /\ i \in done[q]
  PROVE  Matched(i)'
<1> USE DEF TrashInv, TypeOK, Private, Holds, Emptied, HasRow, Moving, Restoring, Goto, Matched,
        Active, files
<1>1. CASE MoveInsert(q) /\ item[q] = i
  <2>1. path[q] \in Path /\ trash[i] # NoFile /\ trash' = trash
    BY <1>1 DEF MoveInsert, MovedFull
  <2>2. rows'[i] = [path |-> path[q], restored |-> FALSE, purged |-> FALSE]
    BY <1>1 DEF MoveInsert
  <2>3. QED
    BY <2>1, <2>2, InsertedRow
<1>2. CASE RestoreUpdate(q) /\ item[q] = i
  <2>1. rows[i] # NoRow /\ trash[i] = NoFile /\ trash' = trash
    BY <1>2 DEF RestoreUpdate
  <2>2. rows'[i] = [rows[i] EXCEPT !.restored = TRUE]
    BY <1>2 DEF RestoreUpdate
  <2>3. QED
    BY <2>1, <2>2, MarkedRow
<1>3. CASE PurgeCommit(q) /\ i \in done[q]
  <2>1. rows[i] # NoRow /\ trash[i] = NoFile /\ trash' = trash
    BY <1>3 DEF PurgeCommit
  <2>2. rows'[i] = [rows[i] EXCEPT !.purged = TRUE]
    BY <1>3 DEF PurgeCommit
  <2>3. QED
    BY <2>1, <2>2, MarkedRow
<1>4. QED
  BY <1>1, <1>2, <1>3

(* Whoever moves a file in or out of the trash owes its row.               *)
LEMMA NewDebts ==
  ASSUME TrashInv, [Next]_vars, NEW i \in Item
  PROVE  \/ trash'[i] = trash[i] /\ rows'[i] = rows[i]
         \/ \E q \in Process : Owes(q, i)'
         \/ \E q \in Process : \/ MoveInsert(q) /\ item[q] = i
                               \/ RestoreUpdate(q) /\ item[q] = i
                               \/ PurgeCommit(q) /\ i \in done[q]
<1> USE DEF Owes, TrashInv, TypeOK, Private, Holds, Moving, Restoring, Goto
<1>1. ASSUME NEW q \in Process, MoveFile(q) PROVE trash'[i] = trash[i] \/ Owes(q, i)'
  BY <1>1 DEF MoveFile
<1>2. ASSUME NEW q \in Process, RestoreFile(q) PROVE trash'[i] = trash[i] \/ Owes(q, i)'
  BY <1>2 DEF RestoreFile
<1>3. ASSUME NEW q \in Process, NEW j \in Item, PurgeUnlink(q, j)
      PROVE  trash'[i] = trash[i] \/ Owes(q, i)'
  BY <1>3 DEF PurgeUnlink
<1>4. ASSUME NEW q \in Process, MoveFile(q) \/ RestoreFile(q) \/ \E j \in Item : PurgeUnlink(q, j)
      PROVE  rows'[i] = rows[i]
  BY <1>4 DEF MoveFile, RestoreFile, PurgeUnlink, tables
<1>5. ASSUME NEW q \in Process, MoveInsert(q)
      PROVE  item[q] = i \/ (trash'[i] = trash[i] /\ rows'[i] = rows[i])
  BY <1>5 DEF MoveInsert, files
<1>6. ASSUME NEW q \in Process, RestoreUpdate(q)
      PROVE  item[q] = i \/ (trash'[i] = trash[i] /\ rows'[i] = rows[i])
  BY <1>6 DEF RestoreUpdate, files
<1>7. ASSUME NEW q \in Process, PurgeCommit(q)
      PROVE  i \in done[q] \/ (trash'[i] = trash[i] /\ rows'[i] = rows[i])
  BY <1>7 DEF PurgeCommit, files
<1>8. CASE UNCHANGED <<trash, rows>>
  BY <1>8
<1>9. QED
  BY <1>1, <1>2, <1>3, <1>4, <1>5, <1>6, <1>7, <1>8
  DEF Next, Start, Continue, Stop, MoveCheck, MoveAudit, RestoreSelect, RestoreChoose,
      RestoreAudit, SourceMissing, PurgeSelect, PurgeUpdate, PurgeAudit, UserCreate, files,
      tables, vars

(* A row that does not match its file is owed by someone, or torn.         *)
LEMMA NextMatch == TrashInv /\ MatchInv /\ [Next]_vars => MatchInv'
<1> SUFFICES ASSUME TrashInv, MatchInv, [Next]_vars PROVE MatchInv'
  OBVIOUS
<1>1. MovedFull /\ MovedFull'
  BY NextMovedFull DEF MatchInv
<1>2. torn \subseteq torn'
  BY DEF Next, Start, Continue, Stop, MoveCheck, MoveFile, MoveInsert, MoveAudit, RestoreSelect,
      RestoreChoose, RestoreFile, RestoreUpdate, RestoreAudit, SourceMissing, PurgeSelect,
      PurgeUnlink, PurgeUpdate, PurgeCommit, PurgeAudit, UserCreate, stops, vars
<1>3. ASSUME NEW i \in Item \ torn'
      PROVE  Matched(i)' \/ \E p \in Process : Owes(p, i)'
  <2>1. ASSUME NEW q \in Process, \/ MoveInsert(q) /\ item[q] = i
                                  \/ RestoreUpdate(q) /\ item[q] = i
                                  \/ PurgeCommit(q) /\ i \in done[q]
        PROVE  Matched(i)'
    BY <1>1, <2>1, Settles
  <2>2. CASE trash'[i] = trash[i] /\ rows'[i] = rows[i]
    <3>1. Matched(i) => Matched(i)'
      BY <2>2 DEF Matched, Active
    <3>2. ASSUME NEW q \in Process, Owes(q, i)
          PROVE  Matched(i)' \/ Owes(q, i)'
      BY <2>1, <3>2, OwesStays
    <3>3. QED
      BY <1>2, <3>1, <3>2 DEF MatchInv
  <2>3. QED
    BY <2>1, <2>2, NewDebts
<1>4. QED
  BY <1>1, <1>3 DEF MatchInv

\* When nobody works on an item and no command was stopped over it, its row is
\* active exactly when its file is in the trash (RowsMatchFiles).
THEOREM RowsFollowFiles == Spec => []RowsMatchFiles
<1>1. Init => MatchInv
  BY DEF Init, MatchInv, MovedFull, Matched, Active
<1>2. MatchInv => RowsMatchFiles
  BY AtWorkMeans DEF MatchInv, RowsMatchFiles, Matched, Owes
<1>3. QED
  BY <1>1, <1>2, InitInv, NextInv, NextMatch, PTL DEF Spec

-----------------------------------------------------------------------------
(* The trail of the trash.                                                 *)

(* What a process has still to record of an item.                          *)
OwesMove(i)    == \E p \in Process : at[p] = "inserted" /\ item[p] = i
OwesRestore(i) == \E p \in Process : at[p] = "updated" /\ item[p] = i
OwesPurge(i)   == \E p \in Process : at[p] = "committed" /\ i \in done[p]
Traced(i) ==
  rows[i] # NoRow =>
    /\ <<"trash.move", i>> \in audit \/ OwesMove(i)
    /\ rows[i].restored => <<"trash.restore", i>> \in audit \/ OwesRestore(i)
    /\ rows[i].purged => <<"trash.purge", i>> \in audit \/ OwesPurge(i)
TracedInv ==
  /\ \A p \in Process : done[p] \cup todo[p] \subseteq batch[p]
  /\ \A i \in Item \ torn : Traced(i)

(* What a purge has done and has to do is what it was asked for.           *)
LEMMA NextBatch ==
  ASSUME TrashInv, TracedInv, [Next]_vars, NEW q \in Process
  PROVE  done'[q] \cup todo'[q] \subseteq batch'[q]
<1> USE DEF TrashInv, TypeOK, Private, Holds, TracedInv, Goto, Leave
<1>1. ASSUME NEW p \in Process, Start(p) PROVE done'[q] \cup todo'[q] \subseteq batch'[q]
  BY <1>1 DEF Start, MoveCheck, RestoreSelect, PurgeSelect
<1>2. ASSUME NEW p \in Process, Stop(p) PROVE done'[q] \cup todo'[q] \subseteq batch'[q]
  BY <1>2 DEF Stop
<1>3. ASSUME NEW p \in Process, Continue(p) PROVE done'[q] \cup todo'[q] \subseteq batch'[q]
  BY <1>3 DEF Continue, MoveFile, MoveInsert, MoveAudit, RestoreChoose, RestoreFile,
      RestoreUpdate, RestoreAudit, SourceMissing, PurgeUnlink, PurgeUpdate, PurgeCommit,
      PurgeAudit
<1>4. CASE UNCHANGED locals
  BY <1>4 DEF locals
<1>5. QED
  BY <1>1, <1>2, <1>3, <1>4 DEF Next, UserCreate, vars

(* What is owed is recorded before its process ends, unless it is stopped. *)
LEMMA DebtsRecorded ==
  ASSUME TrashInv, TracedInv, [Next]_vars, NEW i \in Item, i \notin torn'
  PROVE  /\ OwesMove(i) => <<"trash.move", i>> \in audit' \/ OwesMove(i)'
         /\ OwesRestore(i) => <<"trash.restore", i>> \in audit' \/ OwesRestore(i)'
         /\ OwesPurge(i) => <<"trash.purge", i>> \in audit' \/ OwesPurge(i)'
<1> DEFINE Debt(q) == \/ at[q] \in {"inserted", "updated"} /\ item[q] = i
                      \/ at[q] = "committed" /\ i \in done[q]
           Kept(q) == at'[q] = at[q] /\ item'[q] = item[q] /\ done'[q] = done[q]
<1>1. ASSUME NEW q \in Process, Debt(q)
      PROVE  Kept(q) \/ MoveAudit(q) \/ RestoreAudit(q) \/ PurgeAudit(q)
  <2> USE NullAssumption DEF TrashInv, TypeOK, Goto
  <2>1. ASSUME NEW p \in Process, p # q, Start(p) \/ Continue(p) \/ Stop(p)
        PROVE  Kept(q)
    BY <2>1 DEF Start, Continue, Stop, MoveCheck, MoveFile, MoveInsert, MoveAudit,
        RestoreSelect, RestoreChoose, RestoreFile, RestoreUpdate, RestoreAudit, SourceMissing,
        PurgeSelect, PurgeUnlink, PurgeUpdate, PurgeCommit, PurgeAudit, Leave
  <2>2. ASSUME Start(q) \/ Stop(q) PROVE FALSE
    BY <1>1, <2>2 DEF Start, Stop, MoveCheck, RestoreSelect, PurgeSelect
  <2>3. ASSUME Continue(q) PROVE MoveAudit(q) \/ RestoreAudit(q) \/ PurgeAudit(q)
    BY <1>1, <2>3 DEF Continue, MoveFile, MoveInsert, RestoreChoose, RestoreFile,
        RestoreUpdate, SourceMissing, PurgeUnlink, PurgeUpdate, PurgeCommit
  <2>4. CASE UNCHANGED locals
    BY <2>4 DEF locals
  <2>5. QED
    BY <2>1, <2>2, <2>3, <2>4 DEF Next, UserCreate, vars
<1>2. ASSUME NEW q \in Process, at[q] = "inserted", item[q] = i
      PROVE  <<"trash.move", i>> \in audit' \/ OwesMove(i)'
  BY <1>1, <1>2 DEF OwesMove, MoveAudit, RestoreAudit, PurgeAudit
<1>3. ASSUME NEW q \in Process, at[q] = "updated", item[q] = i
      PROVE  <<"trash.restore", i>> \in audit' \/ OwesRestore(i)'
  BY <1>1, <1>3 DEF OwesRestore, MoveAudit, RestoreAudit, PurgeAudit
<1>4. ASSUME NEW q \in Process, at[q] = "committed", i \in done[q]
      PROVE  <<"trash.purge", i>> \in audit' \/ OwesPurge(i)'
  BY <1>1, <1>4 DEF OwesPurge, MoveAudit, RestoreAudit, PurgeAudit, TracedInv
<1>5. QED
  BY <1>2, <1>3, <1>4 DEF OwesMove, OwesRestore, OwesPurge

(* A row or a mark that is new is owed by whoever wrote it.                *)
LEMMA NewMarks ==
  ASSUME TrashInv, [Next]_vars, NEW i \in Item, rows'[i] # NoRow
  PROVE  /\ rows[i] # NoRow \/ OwesMove(i)'
         /\ rows'[i].restored => (rows[i] # NoRow /\ rows[i].restored) \/ OwesRestore(i)'
         /\ rows'[i].purged => (rows[i] # NoRow /\ rows[i].purged) \/ OwesPurge(i)'
<1> USE DEF TrashInv, TypeOK, Private, Holds, HasRow, Moving, Restoring, Goto
<1>1. ASSUME NEW p \in Process, MoveInsert(p), rows'[i] # rows[i]
      PROVE  /\ OwesMove(i)' /\ ~rows'[i].restored /\ ~rows'[i].purged
  <2>1. item[p] \in Item /\ path[p] \in Path /\ at'[p] = "inserted" /\ item' = item
    BY <1>1 DEF MoveInsert
  <2>2. i = item[p] /\ rows'[i] = [path |-> path[p], restored |-> FALSE, purged |-> FALSE]
    BY <1>1, <2>1 DEF MoveInsert
  <2>3. QED
    BY <2>1, <2>2 DEF OwesMove
<1>2. ASSUME NEW p \in Process, RestoreUpdate(p), rows'[i] # rows[i]
      PROVE  OwesRestore(i)' /\ rows[i] # NoRow /\ rows'[i].purged = rows[i].purged
  <2>1. /\ item[p] \in Item /\ rows[item[p]] \in Row /\ rows[item[p]] # NoRow
        /\ at'[p] = "updated" /\ item' = item
    BY <1>2 DEF RestoreUpdate
  <2>2. i = item[p] /\ rows'[i] = [rows[i] EXCEPT !.restored = TRUE]
    BY <1>2, <2>1 DEF RestoreUpdate
  <2>3. QED
    BY <2>1, <2>2 DEF OwesRestore, Row
<1>3. ASSUME NEW p \in Process, PurgeCommit(p), rows'[i] # rows[i]
      PROVE  OwesPurge(i)' /\ rows[i] # NoRow /\ rows'[i].restored = rows[i].restored
  <2>1. i \in done[p] /\ rows'[i] = [rows[i] EXCEPT !.purged = TRUE]
    BY <1>3 DEF PurgeCommit
  <2>2. rows[i] \in Row /\ rows[i] # NoRow /\ at'[p] = "committed" /\ done' = done
    BY <1>3, <2>1 DEF PurgeCommit
  <2>3. QED
    BY <2>1, <2>2 DEF OwesPurge, Row
<1>4. ASSUME rows'[i] # rows[i]
      PROVE  \E p \in Process : MoveInsert(p) \/ RestoreUpdate(p) \/ PurgeCommit(p)
  BY <1>4
  DEF Next, Start, Continue, Stop, MoveCheck, MoveFile, MoveAudit, RestoreSelect,
      RestoreChoose, RestoreFile, RestoreAudit, SourceMissing, PurgeSelect, PurgeUnlink,
      PurgeUpdate, PurgeAudit, UserCreate, tables, vars
<1>5. CASE rows'[i] = rows[i]
  BY <1>5
<1>6. ASSUME NEW p \in Process, MoveInsert(p), rows'[i] # rows[i]
      PROVE  rows[i] = NoRow
  BY <1>6 DEF MoveInsert, Owned
<1>7. QED
  BY <1>1, <1>2, <1>3, <1>4, <1>5, <1>6

(* Every mark stays on record, or owed, until its command was stopped.     *)
LEMMA NextTraced == TrashInv /\ TracedInv /\ [Next]_vars => TracedInv'
<1> SUFFICES ASSUME TrashInv, TracedInv, [Next]_vars PROVE TracedInv'
  OBVIOUS
<1>1. torn \subseteq torn' /\ audit \subseteq audit'
  BY DEF Next, Start, Continue, Stop, MoveCheck, MoveFile, MoveInsert, MoveAudit, RestoreSelect,
      RestoreChoose, RestoreFile, RestoreUpdate, RestoreAudit, SourceMissing, PurgeSelect,
      PurgeUnlink, PurgeUpdate, PurgeCommit, PurgeAudit, UserCreate, stops, tables, vars
<1>2. ASSUME NEW i \in Item \ torn', rows'[i] # NoRow
      PROVE  Traced(i)'
  <2>1. Traced(i)
    BY <1>1, <1>2 DEF TracedInv
  <2>2. QED
    BY <1>1, <1>2, <2>1, NewMarks, DebtsRecorded DEF Traced
<1>3. \A i \in Item \ torn' : Traced(i)'
  BY <1>2 DEF Traced
<1>4. QED
  BY <1>3, NextBatch DEF TracedInv

\* When nobody works on an item and no command was stopped over it, its row and
\* each of its marks is on record (TrailComplete).
THEOREM TrailIsComplete == Spec => []TrailComplete
<1>1. Init => TracedInv
  BY DEF Init, TracedInv, Traced
<1>2. TracedInv => TrailComplete
  <2> SUFFICES ASSUME TracedInv, NEW i \in Item \ (AtWork \cup torn) PROVE Recorded(i)
    BY DEF TrailComplete
  <2>1. \A p \in Process : item[p] # i /\ i \notin done[p]
    BY AtWorkMeans
  <2>2. ~OwesMove(i) /\ ~OwesRestore(i) /\ ~OwesPurge(i)
    BY <2>1 DEF OwesMove, OwesRestore, OwesPurge
  <2>3. Traced(i)
    BY DEF TracedInv
  <2>4. QED
    BY <2>2, <2>3 DEF Traced, Recorded
<1>3. QED
  BY <1>1, <1>2, InitInv, NextInv, NextTraced, PTL DEF Spec

-----------------------------------------------------------------------------
(* Commands that run one at a time.                                        *)

(* No two processes, and the user leaves the storage alone while one works.*)
OneAtATime == UserWaits /\ \A p, q \in Process : p = q

Stored(f)  == (\E x \in Path : disk[x] = f) \/ (\E i \in Item : aside[i] = f)
Trashed(f) == \E i \in Item : trash[i] = f

(* No file lies at two places.                                             *)
OnePlace ==
  /\ \A x, y \in Path : disk[x] = disk[y] => x = y \/ disk[x] = NoFile
  /\ \A i, j \in Item : trash[i] = trash[j] => i = j \/ trash[i] = NoFile
  /\ \A i, j \in Item : aside[i] = aside[j] => i = j \/ aside[i] = NoFile
  /\ \A x \in Path, i \in Item : disk[x] \in {trash[i], aside[i]} => disk[x] = NoFile
  /\ \A i, j \in Item : trash[i] = aside[j] => trash[i] = NoFile

(* What was born lies somewhere until it is purged.                        *)
Alive ==
  /\ purged \subseteq born
  /\ \A f \in File : Stored(f) \/ Trashed(f) <=> f \in born \ purged

(* Where a command is about to put a file, nothing lies.                   *)
FreePlaces ==
  /\ \A i \in Item : aside[i] # NoFile => rows[i] # NoRow /\ trash[i] = NoFile
  /\ \A p \in Process : at[p] = "toPath" => disk[path[p]] = NoFile
  /\ \A p \in Process : at[p] = "checked" => trash[item[p]] = NoFile

KeptInv == OnePlace /\ Alive /\ FreePlaces

(* The free places stay free.                                              *)
LEMMA NextFree ==
  ASSUME OneAtATime, TrashInv, KeptInv, [Next]_vars
  PROVE  FreePlaces'
<1> USE NullAssumption DEF OneAtATime, TrashInv, TypeOK, Private, Holds, Owned, HasRow,
        KeptInv, FreePlaces, Moving, Restoring, Goto
<1>1. ASSUME NEW p \in Process, NEW x \in Path, NEW i \in Item, MoveCheck(p, x, i)
      PROVE  FreePlaces'
  BY <1>1 DEF MoveCheck, Unused, files, tables
<1>2. ASSUME NEW p \in Process, MoveFile(p) PROVE FreePlaces'
  BY <1>2 DEF MoveFile, tables
<1>3. ASSUME NEW p \in Process, MoveInsert(p) PROVE FreePlaces'
  BY <1>3, InsertedRow DEF MoveInsert, files
<1>4. ASSUME NEW p \in Process, RestoreChoose(p) PROVE FreePlaces'
  BY <1>4 DEF RestoreChoose, files, tables
<1>5. ASSUME NEW p \in Process, RestoreFile(p) PROVE FreePlaces'
  BY <1>5 DEF RestoreFile, tables
<1>6. ASSUME NEW p \in Process, RestoreUpdate(p) PROVE FreePlaces'
  <2>1. /\ item[p] \in Item /\ rows[item[p]] \in Row
        /\ rows' = [rows EXCEPT ![item[p]] = [rows[item[p]] EXCEPT !.restored = TRUE]]
        /\ UNCHANGED <<disk, trash, aside, item, path>>
        /\ at' = [at EXCEPT ![p] = "updated"]
    BY <1>6 DEF RestoreUpdate, files
  <2>2. \A i \in Item : rows[i] # NoRow => rows'[i] # NoRow
    BY <2>1, MarkedRow
  <2>3. QED
    BY <2>1, <2>2
<1>7. ASSUME NEW p \in Process, NEW i \in Item, PurgeUnlink(p, i) PROVE FreePlaces'
  BY <1>7 DEF PurgeUnlink, tables
<1>8. ASSUME NEW p \in Process, PurgeCommit(p) PROVE FreePlaces'
  BY <1>8, MarkedRow DEF PurgeCommit, files
<1>9. ASSUME NEW p \in Process,
             \/ MoveAudit(p) \/ RestoreAudit(p) \/ SourceMissing(p) \/ PurgeAudit(p)
             \/ Stop(p) \/ PurgeUpdate(p)
             \/ (\E i \in Item : RestoreSelect(p, i))
             \/ (\E ids \in SUBSET Item : PurgeSelect(p, ids))
      PROVE  FreePlaces'
  BY <1>9 DEF MoveAudit, RestoreAudit, SourceMissing, PurgeAudit, Stop, PurgeUpdate,
      RestoreSelect, PurgeSelect, Leave, files, tables
<1>10. ASSUME NEW x \in Path, NEW f \in File, UserCreate(x, f) PROVE FreePlaces'
  BY <1>10 DEF UserCreate, tables, locals
<1>11. CASE UNCHANGED vars
  BY <1>11 DEF vars, files, tables, locals
<1>12. QED
  BY <1>1, <1>2, <1>3, <1>4, <1>5, <1>6, <1>7, <1>8, <1>9, <1>10, <1>11
  DEF Next, Start, Continue

(* What a step can do to where files lie.                                  *)
Taken(x, i) ==
  /\ disk[x] # NoFile /\ trash[i] = NoFile
  /\ trash' = [trash EXCEPT ![i] = disk[x]] /\ disk' = [disk EXCEPT ![x] = NoFile]
  /\ UNCHANGED <<aside, born, purged>>
Returned(x, i) ==
  /\ trash[i] # NoFile /\ disk[x] = NoFile
  /\ disk' = [disk EXCEPT ![x] = trash[i]] /\ trash' = [trash EXCEPT ![i] = NoFile]
  /\ UNCHANGED <<aside, born, purged>>
PutAside(i) ==
  /\ trash[i] # NoFile /\ aside[i] = NoFile
  /\ aside' = [aside EXCEPT ![i] = trash[i]] /\ trash' = [trash EXCEPT ![i] = NoFile]
  /\ UNCHANGED <<disk, born, purged>>
Unlinked(i) ==
  /\ trash[i] # NoFile
  /\ purged' = purged \cup {trash[i]} /\ trash' = [trash EXCEPT ![i] = NoFile]
  /\ UNCHANGED <<disk, aside, born>>
Saved(x, f) ==
  /\ disk[x] = NoFile /\ f \notin born
  /\ disk' = [disk EXCEPT ![x] = f] /\ born' = born \cup {f}
  /\ UNCHANGED <<trash, aside, purged>>

LEMMA FileSteps ==
  ASSUME OneAtATime, TrashInv, KeptInv, [Next]_vars
  PROVE  \/ \E x \in Path, i \in Item : Taken(x, i) \/ Returned(x, i)
         \/ \E i \in Item : PutAside(i) \/ Unlinked(i)
         \/ \E x \in Path, f \in File : Saved(x, f)
         \/ UNCHANGED files
<1> USE NullAssumption DEF TrashInv, TypeOK, Private, Holds, KeptInv, FreePlaces, Moving,
        Restoring, Goto
<1>1. ASSUME NEW p \in Process, MoveFile(p)
      PROVE  \E x \in Path, i \in Item : Taken(x, i)
  BY <1>1 DEF MoveFile, Taken
<1>2. ASSUME NEW p \in Process, RestoreFile(p)
      PROVE  (\E x \in Path, i \in Item : Returned(x, i)) \/ (\E i \in Item : PutAside(i))
  <2>1. item[p] \in Item /\ path[p] \in Path
    BY <1>2 DEF RestoreFile
  <2>2. CASE at[p] = "toPath"
    <3>1. /\ disk[path[p]] = NoFile /\ trash[item[p]] # NoFile
          /\ disk' = [disk EXCEPT ![path[p]] = trash[item[p]]]
          /\ trash' = [trash EXCEPT ![item[p]] = NoFile]
          /\ UNCHANGED <<aside, born, purged>>
      BY <1>2, <2>2 DEF RestoreFile
    <3>2. QED
      BY <2>1, <3>1 DEF Returned
  <2>3. CASE at[p] = "toAside"
    BY <1>2, <2>1, <2>3 DEF RestoreFile, PutAside
  <2>4. QED
    BY <1>2, <2>2, <2>3 DEF RestoreFile
<1>3. ASSUME NEW p \in Process, NEW i \in Item, PurgeUnlink(p, i)
      PROVE  Unlinked(i) \/ UNCHANGED files
  <2>1. CASE trash[i] = NoFile
    <3>1. trash' = trash /\ purged' = purged
      BY <1>3, <2>1 DEF PurgeUnlink
    <3>2. QED
      BY <1>3, <3>1 DEF PurgeUnlink, files
  <2>2. CASE trash[i] # NoFile
    BY <1>3, <2>2 DEF PurgeUnlink, Unlinked
  <2>3. QED
    BY <2>1, <2>2
<1>4. ASSUME NEW x \in Path, NEW f \in File, UserCreate(x, f)
      PROVE  Saved(x, f)
  BY <1>4 DEF UserCreate, Saved
<1>5. ASSUME NEW p \in Process, Start(p) \/ MoveInsert(p) \/ MoveAudit(p) \/ RestoreChoose(p)
                             \/ RestoreUpdate(p) \/ RestoreAudit(p) \/ SourceMissing(p)
                             \/ PurgeUpdate(p) \/ PurgeCommit(p) \/ PurgeAudit(p) \/ Stop(p)
      PROVE  UNCHANGED files
  BY <1>5 DEF Start, MoveCheck, RestoreSelect, PurgeSelect, MoveInsert, MoveAudit, RestoreChoose,
      RestoreUpdate, RestoreAudit, SourceMissing, PurgeUpdate, PurgeCommit, PurgeAudit, Stop
<1>6. QED
  BY <1>1, <1>2, <1>3, <1>4, <1>5 DEF Next, Continue, vars

(* Wherever a step puts a file, it lies there alone.                       *)
LEMMA NextPlace ==
  ASSUME OneAtATime, TrashInv, KeptInv, [Next]_vars
  PROVE  OnePlace' /\ Alive'
<1> USE NullAssumption DEF TrashInv, TypeOK, KeptInv, FreePlaces, OnePlace, Alive, Stored, Trashed
<1>1. ASSUME NEW x \in Path, NEW i \in Item, Taken(x, i) PROVE OnePlace' /\ Alive'
  BY <1>1 DEF Taken
<1>2. ASSUME NEW x \in Path, NEW i \in Item, Returned(x, i) PROVE OnePlace' /\ Alive'
  BY <1>2 DEF Returned
<1>3. ASSUME NEW i \in Item, PutAside(i) PROVE OnePlace' /\ Alive'
  BY <1>3 DEF PutAside
<1>4. ASSUME NEW i \in Item, Unlinked(i) PROVE OnePlace' /\ Alive'
  BY <1>4 DEF Unlinked
<1>5. ASSUME NEW x \in Path, NEW f \in File, Saved(x, f) PROVE OnePlace' /\ Alive'
  BY <1>5 DEF Saved
<1>6. CASE UNCHANGED files
  BY <1>6 DEF files
<1>7. QED
  BY <1>1, <1>2, <1>3, <1>4, <1>5, <1>6, FileSteps

LEMMA InitKept == Init => KeptInv
  BY NullAssumption DEF Init, KeptInv, OnePlace, Alive, FreePlaces, Stored, Trashed

(* One at a time, every file lies at one place, in the trash, or nowhere   *)
(* because it was purged.                                                  *)
LEMMA NextKept ==
  ASSUME OneAtATime, TrashInv, KeptInv, [Next]_vars
  PROVE  KeptInv'
BY NextFree, NextPlace DEF KeptInv

(* How many copies a file has, read off the invariant.                     *)
LEMMA CopiesCount ==
  ASSUME TypeOK, KeptInv, NEW f \in File
  PROVE  Copies(f) = IF f \in born \ purged THEN 1 ELSE 0
<1> DEFINE D == {x \in Path : disk[x] = f}
           R == {i \in Item : trash[i] = f}
           S == {i \in Item : aside[i] = f}
<1> USE DEF TypeOK, KeptInv, OnePlace, Alive, Stored, Trashed
<1>1. f # NoFile /\ Copies(f) = Cardinality(D) + Cardinality(R) + Cardinality(S)
  BY NullAssumption DEF Copies
<1>2. CASE f \notin born \ purged
  <2>1. D = {} /\ R = {} /\ S = {}
    BY <1>1, <1>2
  <2>2. Cardinality(D) = 0 /\ Cardinality(R) = 0 /\ Cardinality(S) = 0
    BY <2>1, FS_EmptySet
  <2>3. QED
    BY <1>1, <1>2, <2>2
<1>3. CASE f \in born \ purged
  <2>1. CASE \E x \in Path : disk[x] = f
    <3>1. PICK x \in Path : disk[x] = f
      BY <2>1
    <3>2. D = {x} /\ R = {} /\ S = {}
      BY <1>1, <3>1
    <3>3. Cardinality(D) = 1 /\ Cardinality(R) = 0 /\ Cardinality(S) = 0
      BY <3>2, FS_EmptySet, FS_Singleton
    <3>4. QED
      BY <1>1, <1>3, <3>3
  <2>2. CASE \E i \in Item : trash[i] = f
    <3>1. PICK i \in Item : trash[i] = f
      BY <2>2
    <3>2. D = {} /\ R = {i} /\ S = {}
      BY <1>1, <3>1
    <3>3. Cardinality(D) = 0 /\ Cardinality(R) = 1 /\ Cardinality(S) = 0
      BY <3>2, FS_EmptySet, FS_Singleton
    <3>4. QED
      BY <1>1, <1>3, <3>3
  <2>3. CASE \E i \in Item : aside[i] = f
    <3>1. PICK i \in Item : aside[i] = f
      BY <2>3
    <3>2. D = {} /\ R = {} /\ S = {i}
      BY <1>1, <3>1
    <3>3. Cardinality(D) = 0 /\ Cardinality(R) = 0 /\ Cardinality(S) = 1
      BY <3>2, FS_EmptySet, FS_Singleton
    <3>4. QED
      BY <1>1, <1>3, <3>3
  <2>4. QED
    BY <1>3, <2>1, <2>2, <2>3
<1>4. QED
  BY <1>2, <1>3

\* As long as commands run one at a time, and wherever they are stopped, no file
\* is lost or doubled: it has one copy until a purge unlinked it (FilesKept).
THEOREM NothingIsLost ==
  ASSUME OneAtATime
  PROVE  Spec => []FilesKept
<1>1. TrashInv /\ KeptInv => FilesKept
  BY CopiesCount DEF TrashInv, TypeOK, FilesKept
<1>2. TrashInv /\ KeptInv /\ [Next]_vars => KeptInv'
  BY NextKept
<1>3. QED
  BY <1>1, <1>2, InitInv, NextInv, InitKept, PTL DEF Spec

(* A restore, and a purge, work on rows that are still active.             *)
RowsOpen ==
  /\ OneFate
  /\ \A p \in Process : at[p] \in Restoring \ {"updated"} => Active(item[p])
  /\ \A p \in Process : at[p] \in {"purging", "unlinked"} =>
        \A i \in todo[p] \cup done[p] : Active(i)

LEMMA NextOpen ==
  ASSUME OneAtATime, TrashInv, RowsOpen, [Next]_vars
  PROVE  RowsOpen'
<1> USE NullAssumption, NoRowAssumption
    DEF OneAtATime, TrashInv, TypeOK, Private, Holds, Owned, RowsOpen, OneFate, Active,
        Restoring, Moving, Goto
<1>1. ASSUME NEW p \in Process, MoveInsert(p) PROVE RowsOpen'
  <2>1. /\ item[p] \in Item /\ path[p] \in Path /\ at' = [at EXCEPT ![p] = "inserted"]
        /\ rows' = [rows EXCEPT ![item[p]] =
                      [path |-> path[p], restored |-> FALSE, purged |-> FALSE]]
    BY <1>1 DEF MoveInsert
  <2>2. QED
    BY <2>1
<1>2. ASSUME NEW p \in Process, RestoreUpdate(p) PROVE RowsOpen'
  <2>1. /\ item[p] \in Item /\ rows[item[p]] \in Row /\ Active(item[p])
        /\ rows' = [rows EXCEPT ![item[p]] = [rows[item[p]] EXCEPT !.restored = TRUE]]
        /\ at' = [at EXCEPT ![p] = "updated"]
    BY <1>2 DEF RestoreUpdate
  <2>2. ~rows'[item[p]].purged /\ \A i \in Item \ {item[p]} : rows'[i] = rows[i]
    BY <2>1 DEF Row
  <2>3. QED
    BY <2>1, <2>2
<1>3. ASSUME NEW p \in Process, PurgeCommit(p) PROVE RowsOpen'
  <2>1. /\ at[p] = "purging" /\ at' = [at EXCEPT ![p] = "committed"]
        /\ rows' = [i \in Item |-> IF i \in done[p] THEN [rows[i] EXCEPT !.purged = TRUE]
                                                    ELSE rows[i]]
    BY <1>3 DEF PurgeCommit
  <2>2. \A i \in done[p] : rows[i] \in Row /\ Active(i)
    BY <2>1
  <2>3. \A i \in done[p] : ~rows'[i].restored
    BY <2>1, <2>2 DEF Row
  <2>4. \A i \in Item \ done[p] : rows'[i] = rows[i]
    BY <2>1
  <2>5. QED
    BY <2>1, <2>3, <2>4
<1>4. ASSUME NEW p \in Process, NEW i \in Item, RestoreSelect(p, i) PROVE RowsOpen'
  BY <1>4 DEF RestoreSelect, tables
<1>5. ASSUME NEW p \in Process, NEW ids \in SUBSET Item, PurgeSelect(p, ids) PROVE RowsOpen'
  BY <1>5 DEF PurgeSelect, tables
<1>6. ASSUME NEW p \in Process, PurgeUpdate(p) PROVE RowsOpen'
  BY <1>6 DEF PurgeUpdate, tables
<1>7. ASSUME NEW p \in Process,
             \/ MoveAudit(p) \/ RestoreAudit(p) \/ SourceMissing(p) \/ PurgeAudit(p) \/ Stop(p)
      PROVE  RowsOpen'
  BY <1>7 DEF MoveAudit, RestoreAudit, SourceMissing, PurgeAudit, Stop, Leave, tables
<1>8. ASSUME NEW p \in Process, NEW i \in Item, PurgeUnlink(p, i) PROVE RowsOpen'
  BY <1>8 DEF PurgeUnlink, tables
<1>9. ASSUME NEW p \in Process, NEW x \in Path, NEW i \in Item, MoveCheck(p, x, i)
      PROVE  RowsOpen'
  BY <1>9 DEF MoveCheck, tables
<1>10. ASSUME NEW p \in Process, MoveFile(p) \/ RestoreChoose(p) \/ RestoreFile(p) PROVE RowsOpen'
  BY <1>10 DEF MoveFile, RestoreChoose, RestoreFile, tables
<1>11. CASE UNCHANGED <<rows, locals>>
  BY <1>11 DEF locals
<1>12. QED
  BY <1>1, <1>2, <1>3, <1>4, <1>5, <1>6, <1>7, <1>8, <1>9, <1>10, <1>11
  DEF Next, Start, Continue, UserCreate, vars, tables

\* Commands that run one at a time never mark a row both restored and purged
\* (OneFate).
THEOREM RowsHaveOneFate ==
  ASSUME OneAtATime
  PROVE  Spec => []OneFate
<1>1. Init => RowsOpen
  BY DEF Init, RowsOpen, OneFate, Restoring
<1>2. TrashInv /\ RowsOpen /\ [Next]_vars => RowsOpen'
  BY NextOpen
<1>3. RowsOpen => OneFate
  BY DEF RowsOpen
<1>4. QED
  BY <1>1, <1>2, <1>3, InitInv, NextInv, PTL DEF Spec

(* The fate of a file, read off the invariant.                             *)
LifeOf(f) ==
  IF f \notin born THEN "unborn"
  ELSE IF f \in purged THEN "purged" ELSE IF Trashed(f) THEN "trashed" ELSE "stored"
Lives == [f \in File |-> LifeOf(f)]
FateIsLife == [f \in File |-> FateOf(f)] = Lives

LEMMA FateRead == TypeOK /\ KeptInv => FateIsLife
<1> SUFFICES ASSUME TypeOK, KeptInv, NEW f \in File PROVE FateOf(f) = LifeOf(f)
  BY DEF FateIsLife, Lives
<1>1. Copies(f) = IF f \in born \ purged THEN 1 ELSE 0
  BY CopiesCount
<1>2. f \in born \ purged \/ f \notin born \/ f \in purged
  OBVIOUS
<1>3. CASE f \notin born
  <2>1. f \notin purged /\ Copies(f) = 0
    BY <1>1, <1>3 DEF KeptInv, Alive
  <2>2. QED
    BY <1>3, <2>1 DEF FateOf, LifeOf
<1>4. CASE f \in purged /\ f \in born
  BY <1>1, <1>4 DEF FateOf, LifeOf
<1>5. CASE f \in born \ purged
  BY <1>1, <1>5 DEF FateOf, LifeOf, Trashed
<1>6. QED
  BY <1>3, <1>4, <1>5

(* One step changes the fate of one file at most, and as FileFate allows.  *)
Turns(f, from, to) ==
  /\ LifeOf(f) = from /\ LifeOf(f)' = to
  /\ \A g \in File \ {f} : LifeOf(g)' = LifeOf(g)

LEMMA LifeSteps ==
  ASSUME OneAtATime, TrashInv, KeptInv, [Next]_vars
  PROVE  \/ \E f \in File : \/ Turns(f, "unborn", "stored") \/ Turns(f, "stored", "trashed")
                            \/ Turns(f, "trashed", "stored") \/ Turns(f, "trashed", "purged")
         \/ \A f \in File : LifeOf(f)' = LifeOf(f)
<1> USE NullAssumption DEF TrashInv, TypeOK, KeptInv, OnePlace, Alive, Stored, Trashed
<1>1. ASSUME NEW x \in Path, NEW i \in Item, Taken(x, i)
      PROVE  \E f \in File : Turns(f, "stored", "trashed")
  <2>1. PICK f \in File : f = disk[x]
    BY <1>1 DEF Taken
  <2>2. f \in born \ purged /\ ~Trashed(f)
    BY <1>1, <2>1 DEF Taken
  <2>3. \A g \in File : Trashed(g)' <=> Trashed(g) \/ g = f
    BY <1>1, <2>1 DEF Taken
  <2>4. UNCHANGED <<born, purged>>
    BY <1>1 DEF Taken
  <2> HIDE DEF Trashed
  <2>5. QED
    BY <2>2, <2>3, <2>4 DEF Turns, LifeOf
<1>2. ASSUME NEW i \in Item, NEW f \in File, f = trash[i], trash' = [trash EXCEPT ![i] = NoFile]
      PROVE  /\ Trashed(f) /\ f \in born \ purged
             /\ \A g \in File : Trashed(g)' <=> Trashed(g) /\ g # f
  BY <1>2
<1>3. ASSUME NEW i \in Item, PutAside(i) \/ \E x \in Path : Returned(x, i)
      PROVE  \E f \in File : Turns(f, "trashed", "stored")
  <2>1. trash' = [trash EXCEPT ![i] = NoFile] /\ UNCHANGED <<born, purged>>
    BY <1>3 DEF PutAside, Returned
  <2>2. PICK f \in File : f = trash[i]
    BY <1>3 DEF PutAside, Returned
  <2> HIDE DEF Trashed
  <2>3. QED
    BY <1>2, <2>1, <2>2 DEF Turns, LifeOf
<1>4. ASSUME NEW i \in Item, Unlinked(i)
      PROVE  \E f \in File : Turns(f, "trashed", "purged")
  <2>1. PICK f \in File : f = trash[i]
    BY <1>4 DEF Unlinked
  <2>2. /\ trash' = [trash EXCEPT ![i] = NoFile]
        /\ purged' = purged \cup {f} /\ UNCHANGED born
    BY <1>4, <2>1 DEF Unlinked
  <2> HIDE DEF Trashed
  <2>3. QED
    BY <1>2, <2>1, <2>2 DEF Turns, LifeOf
<1>5. ASSUME NEW x \in Path, NEW f \in File, Saved(x, f)
      PROVE  Turns(f, "unborn", "stored")
  BY <1>5 DEF Saved, Turns, LifeOf
<1>6. CASE UNCHANGED files
  BY <1>6 DEF files, LifeOf
<1>7. QED
  BY <1>1, <1>3, <1>4, <1>5, <1>6, FileSteps

\* As long as commands run one at a time the trash implements FileFate: a file is
\* stored, trashed, restored and purged, whatever is stopped half-way, and never
\* lost in between (Reversible).
THEOREM TrashIsReversible ==
  ASSUME OneAtATime
  PROVE  Spec => Reversible
<1>1. Init => Fates!Init
  <2> SUFFICES ASSUME Init PROVE Fates!Init
    OBVIOUS
  <2>1. FateIsLife
    BY InitInv, InitKept, FateRead DEF TrashInv
  <2>2. \A f \in File : LifeOf(f) \in {"unborn", "stored"}
    BY NullAssumption DEF Init, LifeOf, Trashed
  <2>3. QED
    BY <2>1, <2>2 DEF FateIsLife, Lives, Fates!Init
<1>2. TrashInv /\ KeptInv /\ FateIsLife /\ FateIsLife' /\ [Next]_vars
        => [Fates!Next]_([f \in File |-> FateOf(f)])
  <2> SUFFICES ASSUME TrashInv, KeptInv, FateIsLife, FateIsLife', [Next]_vars
               PROVE  Fates!Next \/ [f \in File |-> FateOf(f)]' = [f \in File |-> FateOf(f)]
    OBVIOUS
  <2>1. ASSUME NEW f \in File, NEW from, NEW to, Turns(f, from, to)
        PROVE  Fates!Change(f, from, to)
    <3>1. Lives[f] = from /\ Lives' = [Lives EXCEPT ![f] = to]
      BY <2>1 DEF Turns, Lives
    <3>2. QED
      BY <3>1 DEF FateIsLife, Fates!Change
  <2>2. CASE \A f \in File : LifeOf(f)' = LifeOf(f)
    BY <2>2 DEF FateIsLife, Lives
  <2>3. QED
    BY <2>1, <2>2, LifeSteps DEF Fates!Next, Fates!Save, Fates!Trash, Fates!Restore, Fates!Purge
<1>3. TrashInv => TypeOK
  BY DEF TrashInv
<1>4. TrashInv /\ KeptInv /\ [Next]_vars => KeptInv'
  BY NextKept
<1>5. QED
  BY <1>1, <1>2, <1>3, <1>4, InitInv, NextInv, InitKept, FateRead, PTL
  DEF Spec, Reversible, Fates!Spec
=============================================================================
