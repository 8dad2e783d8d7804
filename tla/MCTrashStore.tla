---------------------------- MODULE MCTrashStore ----------------------------
(* Instance of TrashStore for TLC: two free places and a protected one.    *)
(* It is explored twice: with commands that run one at a time (`alone`)    *)
(* and may be stopped twice, and with commands that run at once, where one *)
(* may be stopped.                                                         *)
EXTENDS TrashStore, TLC

CONSTANTS x, y, locked

VARIABLE alone

MCPath == {x, y, locked}
MCProtected == {locked}
MCSymmetry == Permutations(Process) \cup Permutations(Item) \cup Permutations(File)

MCInit == Init /\ alone \in BOOLEAN
MCNext ==
  /\ UNCHANGED alone /\ Next
  /\ IF alone THEN \A p, q \in Process : p = q \/ "idle" \in {at'[p], at'[q]} ELSE faults' <= 1
MCSpec == MCInit /\ [][MCNext]_<<alone, vars>>

\* Commands that run one at a time keep every file (FilesKept): each has one copy,
\* at a place of the storage or in the trash, until a purge the user confirmed
\* deletes it, also when commands are stopped half-way (trash.py lines 50-52).
KeptAlone == alone => FilesKept

\* Such commands carry every file through the life that FileFate describes: it
\* goes to the trash and comes back, nothing is lost, doubled or resurrected in
\* between (trash.py lines 30-35, 52-54, 68-73).
AloneFates ==
  INSTANCE FileFate WITH fate <- [f \in File |-> IF alone THEN FateOf(f) ELSE "unborn"]
ReversibleAlone == AloneFates!Spec
=============================================================================
