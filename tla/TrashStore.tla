----------------------------- MODULE TrashStore -----------------------------
(***************************************************************************)
(* The reversible trash (storage/trash.py): move, restore and purge as     *)
(* several processes run them against one file system and one SQLite file. *)
(*                                                                         *)
(* No operation is atomic.  move renames the file, then inserts its row,   *)
(* then writes its audit record; restore looks whether the destination     *)
(* exists, then renames, then updates the row; purge unlinks file by file  *)
(* inside one write transaction that commits at the end.  Each of these is *)
(* an action, and a process may stop between any two of them.              *)
(*                                                                         *)
(* Abstractions.  A file is its content.  The trash directory lies on the  *)
(* same file system as the storage root (the default), so shutil.move is   *)
(* os.rename: atomic, and silently replacing an existing destination.  A   *)
(* trash path carries the item's uuid and is represented by the item; the  *)
(* "-restored-<id>" path a restore falls back to is named by the item too. *)
(***************************************************************************)
EXTENDS Naturals, FiniteSets

CONSTANTS
  Process,
  Path,         \* places in the user's storage
  Protected,    \* those an exclusion rule forbids to modify
  File,         \* file contents
  Item,         \* uuids of trash items
  UserWaits,    \* bound: the user creates files only while no command runs
  MaxFaults,    \* bound: how many commands stop half-way
  NoFile, NoRow, NoItem, NoPath, NoProcess

ASSUME PathAssumption == Protected \subseteq Path
ASSUME BoundAssumption == UserWaits \in BOOLEAN /\ MaxFaults \in Nat
ASSUME NullAssumption ==
  NoFile \notin File /\ NoItem \notin Item /\ NoPath \notin Path /\ NoProcess \notin Process

VARIABLES
  disk,         \* what lies at each path of the storage
  trash,        \* what lies in the trash under each item's path
  aside,        \* what lies at each item's fall-back restore path
  born,         \* history: the files that ever existed
  purged,       \* history: the files a purge unlinked
  rows,         \* table trash_items, as committed
  audit,        \* table audit_events: <<action, item>>
  writer,       \* the process inside an open write transaction
  faults,       \* how many commands have stopped half-way
  torn,         \* history: the items such a command had begun to change
  at,           \* where each process is
  item, path,   \* the item it works on, the path it takes the file from
  batch, todo, done  \* purge: ids asked for, rows still to do, rows updated

files  == <<disk, trash, aside, born, purged>>
tables == <<rows, audit>>
locals == <<at, item, path, batch, todo, done>>
stops  == <<faults, torn>>
vars   == <<files, tables, writer, stops, locals>>

Row == [path : Path, restored : BOOLEAN, purged : BOOLEAN]
ASSUME NoRowAssumption == NoRow \notin Row

Location == {"idle",
             "checked", "moved", "inserted",                       \* move
             "read", "toPath", "toAside", "restored", "updated",   \* restore
             "purging", "unlinked", "committed"}                   \* purge
Action == {"trash.move", "trash.restore", "trash.purge"}

Init ==
  /\ disk \in {d \in [Path -> File \cup {NoFile}] :
                 \A x, y \in Path : d[x] = d[y] => x = y \/ d[x] = NoFile}
  /\ trash = [i \in Item |-> NoFile]
  /\ aside = [i \in Item |-> NoFile]
  /\ born = {disk[x] : x \in Path} \ {NoFile}
  /\ purged = {}
  /\ rows = [i \in Item |-> NoRow]
  /\ audit = {}
  /\ writer = NoProcess
  /\ faults = 0
  /\ torn = {}
  /\ at = [p \in Process |-> "idle"]
  /\ item = [p \in Process |-> NoItem]
  /\ path = [p \in Process |-> NoPath]
  /\ batch = [p \in Process |-> {}]
  /\ todo = [p \in Process |-> {}]
  /\ done = [p \in Process |-> {}]

-----------------------------------------------------------------------------
Goto(p, from, to) == at[p] \in from /\ at' = [at EXCEPT ![p] = to]

(* The operation returns or raises: what the process held is gone.         *)
Leave(p) ==
  /\ at' = [at EXCEPT ![p] = "idle"]
  /\ item' = [item EXCEPT ![p] = NoItem]
  /\ path' = [path EXCEPT ![p] = NoPath]
  /\ batch' = [batch EXCEPT ![p] = {}]
  /\ todo' = [todo EXCEPT ![p] = {}]
  /\ done' = [done EXCEPT ![p] = {}]

(* SQLite admits one writer: the others wait for its commit.               *)
CanWrite(p) == writer \in {NoProcess, p}

Active(i) == rows[i] # NoRow /\ ~rows[i].restored /\ ~rows[i].purged
Unused(i) == rows[i] = NoRow /\ trash[i] = NoFile /\ \A p \in Process : item[p] # i

-----------------------------------------------------------------------------
(* move                                                                    *)

\* Mistake: the exclusion rules are not asked.
MovesProtected(p, x, i) ==
  /\ disk[x] # NoFile
  /\ Unused(i) /\ \A a \in Action : <<a, i>> \notin audit
  /\ Goto(p, {"idle"}, "checked")
  /\ item' = [item EXCEPT ![p] = i]
  /\ path' = [path EXCEPT ![p] = x]
  /\ UNCHANGED <<files, tables, writer, stops, batch, todo, done>>

(* The exclusion and existence checks; size and digest are read here.      *)
MoveCheck(p, x, i) ==
  /\ x \notin Protected
  /\ disk[x] # NoFile
  /\ Unused(i) /\ \A a \in Action : <<a, i>> \notin audit
  /\ Goto(p, {"idle"}, "checked")
  /\ item' = [item EXCEPT ![p] = i]
  /\ path' = [path EXCEPT ![p] = x]
  /\ UNCHANGED <<files, tables, writer, stops, batch, todo, done>>

\* Mistake: a copy instead of a move.
CopiesFile(p) ==
  /\ Goto(p, {"checked"}, "moved")
  /\ disk[path[p]] # NoFile
  /\ trash' = [trash EXCEPT ![item[p]] = disk[path[p]]]
  /\ UNCHANGED <<disk, aside, born, purged, tables, writer, stops, item, path, batch, todo, done>>

(* shutil.move of whatever lies at the path by now.                        *)
MoveFile(p) ==
  /\ Goto(p, {"checked"}, "moved")
  /\ disk[path[p]] # NoFile
  /\ trash' = [trash EXCEPT ![item[p]] = disk[path[p]]]
  /\ disk' = [disk EXCEPT ![path[p]] = NoFile]
  /\ UNCHANGED <<aside, born, purged, tables, writer, stops, item, path, batch, todo, done>>

\* Mistake: original_path gets the item's id.
InsertsItemId(p) ==
  /\ CanWrite(p)
  /\ Goto(p, {"moved"}, "inserted")
  /\ rows' = [rows EXCEPT ![item[p]] =
                [path |-> item[p], restored |-> FALSE, purged |-> FALSE]]
  /\ UNCHANGED <<files, audit, writer, stops, item, path, batch, todo, done>>

MoveInsert(p) ==
  /\ CanWrite(p)
  /\ Goto(p, {"moved"}, "inserted")
  /\ rows' = [rows EXCEPT ![item[p]] =
                [path |-> path[p], restored |-> FALSE, purged |-> FALSE]]
  /\ UNCHANGED <<files, audit, writer, stops, item, path, batch, todo, done>>

MoveAudit(p) ==
  /\ CanWrite(p)
  /\ at[p] = "inserted"
  /\ audit' = audit \cup {<<"trash.move", item[p]>>}
  /\ Leave(p)
  /\ UNCHANGED <<files, rows, writer, stops>>

-----------------------------------------------------------------------------
(* restore                                                                 *)

RestoreSelect(p, i) ==
  /\ Active(i)
  /\ Goto(p, {"idle"}, "read")
  /\ item' = [item EXCEPT ![p] = i]
  /\ path' = [path EXCEPT ![p] = rows[i].path]
  /\ UNCHANGED <<files, tables, writer, stops, batch, todo, done>>

\* Mistake: the destination is taken unseen.
NeverAside(p) ==
  /\ Goto(p, {"read"}, "toPath")
  /\ UNCHANGED <<files, tables, writer, stops, item, path, batch, todo, done>>

(* destination.exists(), once.                                             *)
RestoreChoose(p) ==
  /\ Goto(p, {"read"}, IF disk[path[p]] = NoFile THEN "toPath" ELSE "toAside")
  /\ UNCHANGED <<files, tables, writer, stops, item, path, batch, todo, done>>

(* shutil.move to the chosen destination, whatever lies there by now.      *)
RestoreFile(p) ==
  /\ at[p] \in {"toPath", "toAside"}
  /\ trash[item[p]] # NoFile
  /\ trash' = [trash EXCEPT ![item[p]] = NoFile]
  /\ \/ /\ Goto(p, {"toPath"}, "restored")
        /\ disk' = [disk EXCEPT ![path[p]] = trash[item[p]]]
        /\ UNCHANGED aside
     \/ /\ Goto(p, {"toAside"}, "restored")
        /\ aside' = [aside EXCEPT ![item[p]] = trash[item[p]]]
        /\ UNCHANGED disk
  /\ UNCHANGED <<born, purged, tables, writer, stops, item, path, batch, todo, done>>

\* Mistake: the row is updated before the file is moved.
UpdatesFirst(p) ==
  /\ CanWrite(p)
  /\ Goto(p, {"toPath", "toAside"}, "updated")
  /\ rows' = [rows EXCEPT ![item[p]].restored = TRUE]
  /\ UNCHANGED <<files, audit, writer, stops, item, path, batch, todo, done>>

RestoreUpdate(p) ==
  /\ CanWrite(p)
  /\ Goto(p, {"restored"}, "updated")
  /\ rows' = [rows EXCEPT ![item[p]].restored = TRUE]
  /\ UNCHANGED <<files, audit, writer, stops, item, path, batch, todo, done>>

RestoreAudit(p) ==
  /\ CanWrite(p)
  /\ at[p] = "updated"
  /\ audit' = audit \cup {<<"trash.restore", item[p]>>}
  /\ Leave(p)
  /\ UNCHANGED <<files, rows, writer, stops>>

(* FileNotFoundError of either rename: another process took the file.      *)
SourceMissing(p) ==
  /\ \/ at[p] = "checked" /\ disk[path[p]] = NoFile
     \/ at[p] \in {"toPath", "toAside"} /\ trash[item[p]] = NoFile
  /\ Leave(p)
  /\ UNCHANGED <<files, tables, writer, stops>>

-----------------------------------------------------------------------------
(* purge                                                                   *)

(* The SELECTs keep the ids whose row is still active.  They run one after *)
(* the other; rows only ever leave the active set, so reading them at once *)
(* keeps every id a separate read could keep.                              *)
PurgeSelect(p, ids) ==
  /\ Goto(p, {"idle"}, "purging")
  /\ batch' = [batch EXCEPT ![p] = ids]
  /\ todo' = [todo EXCEPT ![p] = {i \in ids : Active(i)}]
  /\ UNCHANGED <<files, tables, writer, stops, item, path, done>>

(* if path.exists(): path.unlink()                                         *)
PurgeUnlink(p, i) ==
  /\ i \in todo[p]
  /\ Goto(p, {"purging"}, "unlinked")
  /\ item' = [item EXCEPT ![p] = i]
  /\ purged' = purged \cup ({trash[i]} \ {NoFile})
  /\ trash' = [trash EXCEPT ![i] = NoFile]
  /\ UNCHANGED <<disk, aside, born, tables, writer, stops, path, batch, todo, done>>

\* Mistake: the row is passed over after its file was unlinked.
SkipsUpdate(p) ==
  /\ Goto(p, {"unlinked"}, "purging")
  /\ todo' = [todo EXCEPT ![p] = @ \ {item[p]}]
  /\ item' = [item EXCEPT ![p] = NoItem]
  /\ UNCHANGED <<files, tables, writer, stops, path, batch, done>>

(* The UPDATE: the first one opens the write transaction.                  *)
PurgeUpdate(p) ==
  /\ CanWrite(p)
  /\ Goto(p, {"unlinked"}, "purging")
  /\ writer' = p
  /\ todo' = [todo EXCEPT ![p] = @ \ {item[p]}]
  /\ done' = [done EXCEPT ![p] = @ \cup {item[p]}]
  /\ item' = [item EXCEPT ![p] = NoItem]
  /\ UNCHANGED <<files, tables, stops, path, batch>>

\* Mistake: the connection stays in its transaction.
KeepsLock(p) ==
  /\ todo[p] = {}
  /\ Goto(p, {"purging"}, "committed")
  /\ rows' = [i \in Item |-> IF i \in done[p] THEN [rows[i] EXCEPT !.purged = TRUE]
                                              ELSE rows[i]]
  /\ UNCHANGED <<files, audit, writer, stops, item, path, batch, todo, done>>

PurgeCommit(p) ==
  /\ todo[p] = {}
  /\ Goto(p, {"purging"}, "committed")
  /\ rows' = [i \in Item |-> IF i \in done[p] THEN [rows[i] EXCEPT !.purged = TRUE]
                                              ELSE rows[i]]
  /\ writer' = IF writer = p THEN NoProcess ELSE writer
  /\ UNCHANGED <<files, audit, stops, item, path, batch, todo, done>>

\* Mistake: the record lists the rows left over instead of the ids asked for.
RecordsRest(p) ==
  /\ CanWrite(p)
  /\ at[p] = "committed"
  /\ audit' = audit \cup ({"trash.purge"} \X todo[p])
  /\ Leave(p)
  /\ UNCHANGED <<files, rows, writer, stops>>

(* One record that lists every id asked for.                               *)
PurgeAudit(p) ==
  /\ CanWrite(p)
  /\ at[p] = "committed"
  /\ audit' = audit \cup ({"trash.purge"} \X batch[p])
  /\ Leave(p)
  /\ UNCHANGED <<files, rows, writer, stops>>

-----------------------------------------------------------------------------
(* The process is killed, or a step raises (unlink refused, disk full,     *)
(* database locked for longer than sqlite3's five seconds): an open        *)
(* transaction is rolled back, the file system keeps what was done.        *)
Stop(p) ==
  /\ at[p] # "idle"
  /\ faults < MaxFaults
  /\ faults' = faults + 1
  /\ torn' = IF at[p] \in {"checked", "read", "toPath", "toAside"} THEN torn
             ELSE torn \cup done[p] \cup ({item[p]} \ {NoItem})
  /\ writer' = IF writer = p THEN NoProcess ELSE writer
  /\ Leave(p)
  /\ UNCHANGED <<files, tables>>

(* The user, or another app, saves a new file at a free path.              *)
UserCreate(x, f) ==
  /\ UserWaits => \A p \in Process : at[p] = "idle"
  /\ disk[x] = NoFile
  /\ f \notin born
  /\ disk' = [disk EXCEPT ![x] = f]
  /\ born' = born \cup {f}
  /\ UNCHANGED <<trash, aside, purged, tables, writer, stops, locals>>

Start(p) ==
  \/ \E x \in Path, i \in Item : MoveCheck(p, x, i)
  \/ \E i \in Item : RestoreSelect(p, i)
  \/ \E ids \in SUBSET {i \in Item : rows[i] # NoRow} : ids # {} /\ PurgeSelect(p, ids)

Continue(p) ==
  \/ MoveFile(p) \/ MoveInsert(p) \/ MoveAudit(p)
  \/ RestoreChoose(p) \/ RestoreFile(p) \/ RestoreUpdate(p) \/ RestoreAudit(p)
  \/ SourceMissing(p)
  \/ \E i \in Item : PurgeUnlink(p, i)
  \/ PurgeUpdate(p) \/ PurgeCommit(p) \/ PurgeAudit(p)

Next ==
  \/ \E p \in Process : Start(p) \/ Continue(p) \/ Stop(p)
  \/ \E x \in Path, f \in File : UserCreate(x, f)

Spec == Init /\ [][Next]_vars

-----------------------------------------------------------------------------
(* Properties.                                                             *)

\* Every variable has its type.
TypeOK ==
  /\ disk \in [Path -> File \cup {NoFile}]
  /\ trash \in [Item -> File \cup {NoFile}]
  /\ aside \in [Item -> File \cup {NoFile}]
  /\ born \subseteq File /\ purged \subseteq File
  /\ rows \in [Item -> Row \cup {NoRow}]
  /\ audit \subseteq (Action \X Item)
  /\ writer \in Process \cup {NoProcess}
  /\ faults \in 0 .. MaxFaults
  /\ torn \subseteq Item
  /\ at \in [Process -> Location]
  /\ item \in [Process -> Item \cup {NoItem}]
  /\ path \in [Process -> Path \cup {NoPath}]
  /\ batch \in [Process -> SUBSET Item]
  /\ todo \in [Process -> SUBSET Item]
  /\ done \in [Process -> SUBSET Item]

\* A row that says restored or purged never has a file left behind it: no later
\* purge can delete, and no later restore resurrect, what the trail says is gone.
\* It holds through every interleaving and every stop, because the flag is
\* written after the rename or unlink (trash.py lines 52-54, 69-72).
ClosedRowHasNoFile ==
  \A i \in Item : rows[i] # NoRow /\ ~Active(i) => trash[i] = NoFile

\* The items some process is in the middle of changing.
AtWork == UNION {({item[p]} \ {NoItem}) \cup todo[p] \cup done[p] : p \in Process}

\* Once nobody works on an item, its row is active exactly when its file is in
\* the trash: nothing is orphaned there and every listed item can be restored.
\* Only the items a stopped command had begun to change may differ, whatever
\* moves, restores and purges ran beside it (trash.py lines 30-35, 52-54, 68-73).
RowsMatchFiles ==
  \A i \in Item \ (AtWork \cup torn) : Active(i) <=> trash[i] # NoFile

\* Under the same condition the trail is complete: every row has its trash.move
\* record, every restored row its trash.restore record and every purged row a
\* trash.purge record, also when two commands raced for it (trash.py lines 36,
\* 55, 74).
Recorded(i) ==
  /\ rows[i] # NoRow => <<"trash.move", i>> \in audit
  /\ rows[i] # NoRow /\ rows[i].restored => <<"trash.restore", i>> \in audit
  /\ rows[i] # NoRow /\ rows[i].purged => <<"trash.purge", i>> \in audit
TrailComplete == \A i \in Item \ (AtWork \cup torn) : Recorded(i)

\* No file is ever lost or doubled: it lies at one place of the storage, or in
\* the trash, or a purge the user confirmed has deleted it. A restore that finds
\* its place taken goes beside it (trash.py lines 50-52). Two restores to one
\* place may both find it free.
Copies(f) == Cardinality({x \in Path : disk[x] = f}) + Cardinality({i \in Item : trash[i] = f})
             + Cardinality({i \in Item : aside[i] = f})
FilesKept == \A f \in born : Copies(f) = IF f \in purged THEN 0 ELSE 1

\* The abstract account of a file's life (FileFate), read off the two stores: a
\* file that lies nowhere, or twice, has no fate there. The trash implements it
\* as long as commands run one at a time, through every stop half-way.
FateOf(f) ==
  CASE f \notin born                          -> "unborn"
    [] f \in purged /\ Copies(f) = 0          -> "purged"
    [] \E i \in Item : trash[i] = f /\ Copies(f) = 1 -> "trashed"
    [] Copies(f) = 1 /\ \A i \in Item : trash[i] # f -> "stored"
    [] OTHER                                  -> "lost"
Fates == INSTANCE FileFate WITH fate <- [f \in File |-> FateOf(f)]
Reversible == Fates!Spec

\* A row has one fate. Commands that run one at a time never mark an item both
\* restored and purged (trash.py lines 45-46, 62-65).
OneFate == \A i \in Item : rows[i] # NoRow => ~(rows[i].restored /\ rows[i].purged)

\* What lies at a protected path stays there, whatever runs: move refuses such a
\* path, and restore only returns to a path some move was allowed to take from
\* (trash.py lines 20, 49; exclusions.py lines 63-66).
ProtectedUntouched ==
  [][\A x \in Protected : disk[x] # NoFile => disk'[x] = disk[x]]_vars

\* The database is locked only by a purge that is alive and has rows to commit:
\* nobody waits for a lock that no step will release, also after a purge was
\* stopped in the middle (trash.py lines 59-73).
LockIsHeld ==
  \A p \in Process : writer = p <=> at[p] \in {"purging", "unlinked"} /\ done[p] # {}
=============================================================================
