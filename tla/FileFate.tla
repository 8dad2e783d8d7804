------------------------------ MODULE FileFate ------------------------------
(***************************************************************************)
(* What the trash promises about every file, whatever it does in between:  *)
(* a file is stored, may be put in the trash, may come back from there any *)
(* number of times, and is gone only when it is purged from the trash.     *)
(* Files change one at a time, and none is ever lost or duplicated.        *)
(***************************************************************************)
CONSTANT File
VARIABLE fate

Fate == {"unborn", "stored", "trashed", "purged"}
FateOK == fate \in [File -> Fate]

Init == fate \in [File -> {"unborn", "stored"}]

Change(f, from, to) == fate[f] = from /\ fate' = [fate EXCEPT ![f] = to]

Save(f)    == Change(f, "unborn", "stored")
Trash(f)   == Change(f, "stored", "trashed")
Restore(f) == Change(f, "trashed", "stored")
Purge(f)   == Change(f, "trashed", "purged")

Next == \E f \in File : Save(f) \/ Trash(f) \/ Restore(f) \/ Purge(f)
Spec == Init /\ [][Next]_fate
=============================================================================
