------------------------------- MODULE Backup -------------------------------
(***************************************************************************)
(* One backup plan: `backup plan`, `backup approve`, and `backup apply` by *)
(* processes that may run at once, while the user changes source files and *)
(* the never-upload rules.  The destination is a local directory, where    *)
(* each file is copied to a .part file, compared and renamed, or a remote  *)
(* of rclone, which is external: an attempt copies some of the files that  *)
(* the remote has not got, and succeeds, fails or is killed by a timeout.  *)
(*                                                                         *)
(* Abstractions.  A place is a name and the number of a "-copy-n" suffix.  *)
(* On a remote a file has a name of its own (its path relative to the      *)
(* common directory), locally its base name.  The .part file of a place is *)
(* a name of the same directory: another place, or a spare name that no    *)
(* file to back up has.  The token is in Approvals; here `grant` is the    *)
(* state of the one in the plan's token file.                              *)
(***************************************************************************)
EXTENDS Naturals, Sequences, SequencesExt, FiniteSets

CONSTANTS
  File, Base,      \* source files and their base names
  BaseOf,          \* a file's base name
  Spare,           \* the other names of the destination directory
  PartOf,          \* a place's name with ".part" added
  Content, Nothing, TornCopy,
  Selections,      \* bound: what may be selected, as sequences
  Applier,         \* processes of `backup apply`
  Retries,         \* backup.retries
  MaxCopy, MaxEdits, MaxApprovals  \* bounds

LocalPlace == Base \X (0 .. MaxCopy)
RemotePlace(f) == <<f, 0>>
Place == LocalPlace \cup {RemotePlace(f) : f \in File}
Slot == Place \cup Spare
NoPlace == <<Nothing, 0>>

ASSUME BackupAssumption ==
  /\ BaseOf \in [File -> Base] /\ Base \cap File = {} /\ Nothing \notin Base \cup File
  /\ Nothing \notin Content \cup {TornCopy} /\ TornCopy \notin Content
ASSUME PartAssumption ==
  /\ NoPlace \notin Spare /\ PartOf \in [LocalPlace -> Slot]
  /\ \A x \in LocalPlace : PartOf[x] # x
ASSUME SelectionAssumption == Selections \subseteq Seq(File)
ASSUME BackupBounds ==
  Retries \in Nat /\ MaxCopy \in Nat /\ MaxEdits \in Nat /\ MaxApprovals \in Nat

VARIABLES
  source, excluded, edits,   \* files, those a never-upload rule names
  plan, remote, strategy,    \* the saved plan; backup.conflict_strategy
  grant, approvals,          \* "none", "valid" or "consumed"
  target,                    \* what each name of the destination holds
  writing,                   \* the name of the file a process is writing
  at, dry,                   \* where a process is; without --execute
  left, dest,                \* files it has still to copy, where to
  stored, skipped, attempts, \* its result
  ruled,     \* history: the files a rule named when a process began
  whole,     \* history: what a name held when it was first taken
  used,      \* history: names that were used for a .part file
  clash      \* history: names of processes that used one name at once

user == <<source, excluded, edits>>
settings == <<plan, remote, strategy>>
approval == <<grant, approvals>>
directory == <<target, writing>>
outcome == <<stored, skipped, attempts, ruled>>
pastUse == <<whole, used, clash>>
backupVars == <<user, settings, approval, directory, at, dry, left, dest, outcome, pastUse>>

BackupInit ==
  /\ source \in [File -> Content] /\ excluded = {} /\ edits = 0
  /\ plan = <<>> /\ remote \in BOOLEAN /\ strategy \in {"skip", "rename"}
  /\ grant = "none" /\ approvals = 0
  /\ \E c \in Content, old \in SUBSET Base :   \* what the directory held before
       target = [x \in Slot |-> IF x \in old \X {0} THEN c ELSE Nothing]
  /\ writing = [p \in Applier |-> NoPlace]
  /\ at = [p \in Applier |-> "idle"] /\ dry = [p \in Applier |-> TRUE]
  /\ left = [p \in Applier |-> <<>>] /\ dest = [p \in Applier |-> NoPlace]
  /\ stored = [p \in Applier |-> {}] /\ skipped = [p \in Applier |-> {}]
  /\ attempts = [p \in Applier |-> 0] /\ ruled = [p \in Applier |-> {}]
  /\ whole = target /\ used = {} /\ clash = {}

To(p, there) == at' = [at EXCEPT ![p] = there]

(* The user.                                                               *)
Edit ==
  /\ edits < MaxEdits /\ edits' = edits + 1
  /\ \/ \E f \in File, c \in Content :
          source[f] # c /\ source' = [source EXCEPT ![f] = c] /\ UNCHANGED excluded
     \/ \E f \in File \ excluded : excluded' = excluded \cup {f} /\ UNCHANGED source
  /\ UNCHANGED <<settings, approval, directory, at, dry, left, dest, outcome, pastUse>>

(* BackupPlanner.plan refuses the whole selection for one excluded file.   *)
MakePlan(files) ==
  /\ plan = <<>> /\ ToSet(files) \cap excluded = {}
  /\ plan' = files
  /\ UNCHANGED <<user, remote, strategy, approval, directory, at, dry, left, dest, outcome,
                 pastUse>>

ApprovePlan ==
  /\ plan # <<>> /\ approvals < MaxApprovals /\ approvals' = approvals + 1
  /\ grant' = "valid"
  /\ UNCHANGED <<user, settings, directory, at, dry, left, dest, outcome, pastUse>>

(* backup_apply: without --execute there is a preview and no verification; *)
(* otherwise the token is looked up and then consumed.                     *)
InvokeApply(p) ==
  /\ at[p] = "idle" /\ plan # <<>>
  /\ \/ dry' = [dry EXCEPT ![p] = TRUE] /\ To(p, "check")
     \/ /\ dry' = [dry EXCEPT ![p] = FALSE]
        /\ To(p, IF grant = "valid" THEN "selected" ELSE "failed")
  /\ ruled' = [ruled EXCEPT ![p] = excluded]
  /\ UNCHANGED <<user, settings, approval, directory, left, dest, stored, skipped, attempts,
                 pastUse>>

Consume(p) ==
  /\ at[p] = "selected" /\ grant' = "consumed" /\ To(p, "check")
  /\ UNCHANGED <<user, settings, approvals, directory, dry, left, dest, outcome, pastUse>>

(* RcloneClient.apply: the rules may have changed since the plan was made. *)
CheckRules(p) ==
  /\ at[p] = "check"
  /\ To(p, IF ToSet(plan) \cap excluded # {} THEN "failed" ELSE IF dry[p] THEN "ok"
           ELSE IF remote THEN "attempt" ELSE "next")
  /\ left' = [left EXCEPT ![p] = plan]
  /\ UNCHANGED <<user, settings, approval, directory, dry, dest, outcome, pastUse>>

-----------------------------------------------------------------------------
(* _apply_local.                                                           *)

Exists(x) == target[x] # Nothing
FreeCopy(f) ==
  <<BaseOf[f], CHOOSE n \in 0 .. MaxCopy :
     ~Exists(<<BaseOf[f], n>>) /\ \A m \in 0 .. n - 1 : Exists(<<BaseOf[f], m>>)>>

(* The names a copy to x needs, and those a process is using.              *)
Needs(x) == {x, PartOf[x]}
Uses(q) == IF dest[q] = NoPlace THEN {} ELSE (Needs(dest[q]) \cup {writing[q]}) \ {NoPlace}

(* The next file: a taken name is skipped, or a free one is looked for (up *)
(* to the bound MaxCopy).                                                  *)
Choose(p) ==
  /\ at[p] = "next" /\ left[p] # <<>>
  /\ LET f == Head(left[p])
         others == {q \in Applier \ {p} : Uses(q) \cap Needs(FreeCopy(f)) # {}}
     IN IF Exists(<<BaseOf[f], 0>>) /\ strategy = "skip"
        THEN /\ skipped' = [skipped EXCEPT ![p] = @ \cup {f}]
             /\ left' = [left EXCEPT ![p] = Tail(@)]
             /\ UNCHANGED <<at, dest, clash>>
        ELSE /\ \E n \in 0 .. MaxCopy : ~Exists(<<BaseOf[f], n>>)
             /\ dest' = [dest EXCEPT ![p] = FreeCopy(f)] /\ To(p, "open")
             /\ clash' = IF others = {} THEN clash
                         ELSE clash \cup Needs(FreeCopy(f)) \cup UNION {Uses(q) : q \in others}
             /\ UNCHANGED <<skipped, left>>
  /\ UNCHANGED <<user, settings, approval, directory, dry, stored, attempts, ruled, whole, used>>

(* What becomes of the processes that write a file when it is removed, or  *)
(* renamed over another one: they go on with the file, whatever its name.  *)
Unlinked(x) == [q \in Applier |-> IF writing[q] = x THEN NoPlace ELSE writing[q]]
Renamed(x, y) == [q \in Applier |-> IF writing[q] = x THEN y ELSE Unlinked(y)[q]]

(* copy2 empties the file of that name, whatever it is, or makes one, and  *)
(* fills the file it opened.  A source that is changed meanwhile is copied *)
(* half before and half after.                                             *)
Half(c) == <<c>>
Filled(old, c) == {c, IF old \in {Half(c), c} THEN c ELSE TornCopy}

OpenPart(p) ==
  /\ at[p] = "open" /\ To(p, "copy")
  /\ LET temporary == PartOf[dest[p]]
     IN /\ target' = [target EXCEPT ![temporary] = Half(source[Head(left[p])])]
        /\ writing' = [writing EXCEPT ![p] = temporary]
        /\ used' = used \cup {temporary}
  /\ UNCHANGED <<user, settings, approval, dry, left, dest, outcome, whole, clash>>

FillPart(p) ==
  /\ at[p] = "copy" /\ To(p, "compare")
  /\ IF writing[p] = NoPlace THEN UNCHANGED target
     ELSE \E new \in Filled(target[writing[p]], source[Head(left[p])]) :
            target' = [target EXCEPT ![writing[p]] = new]
  /\ writing' = [writing EXCEPT ![p] = NoPlace]
  /\ UNCHANGED <<user, settings, approval, dry, left, dest, outcome, pastUse>>

\* Mistake: the copy is not compared.
CompareNothing(p) ==
  /\ at[p] = "compare" /\ To(p, "move")
  /\ UNCHANGED <<user, settings, approval, directory, dry, left, dest, outcome, pastUse>>

(* The source is read again: a file that changed meanwhile fails the       *)
(* command, and so does a .part that is gone.                              *)
Compare(p) ==
  /\ at[p] = "compare"
  /\ LET temporary == PartOf[dest[p]]
     IN IF target[temporary] = source[Head(left[p])]
        THEN To(p, "move") /\ UNCHANGED <<directory, dest>>
        ELSE /\ target' = [target EXCEPT ![temporary] = Nothing]
             /\ writing' = Unlinked(temporary)
             /\ To(p, "failed") /\ dest' = [dest EXCEPT ![p] = NoPlace]
  /\ UNCHANGED <<user, settings, approval, dry, left, outcome, pastUse>>

(* os.replace moves whatever has the .part name, over whatever has         *)
(* appeared in its place since.                                            *)
MovePart(p) ==
  /\ at[p] = "move" /\ dest' = [dest EXCEPT ![p] = NoPlace]
  /\ LET x == dest[p]  temporary == PartOf[x]
     IN IF ~Exists(temporary)
        THEN To(p, "failed") /\ UNCHANGED <<directory, left, stored, whole>>
        ELSE /\ target' = [target EXCEPT ![x] = target[temporary], ![temporary] = Nothing]
             /\ writing' = Renamed(temporary, x)
             /\ whole' = [whole EXCEPT ![x] = IF @ = Nothing THEN target[temporary] ELSE @]
             /\ stored' = [stored EXCEPT ![p] = @ \cup {Head(left[p])}]
             /\ left' = [left EXCEPT ![p] = Tail(@)] /\ To(p, "next")
  /\ UNCHANGED <<user, settings, approval, dry, skipped, attempts, ruled, used, clash>>

Finished(p) ==
  /\ at[p] = "next" /\ left[p] = <<>> /\ To(p, "ok")
  /\ UNCHANGED <<user, settings, approval, directory, dry, left, dest, outcome, pastUse>>

-----------------------------------------------------------------------------
(* _apply_rclone.                                                          *)

(* rclone copies a file that is not there (--ignore-existing).             *)
RcloneCopies(p, f) ==
  /\ at[p] = "attempt" /\ f \in ToSet(plan) /\ ~Exists(RemotePlace(f))
  /\ target' = [target EXCEPT ![RemotePlace(f)] = source[f]]
  /\ whole' = [whole EXCEPT ![RemotePlace(f)] = source[f]]
  /\ stored' = [stored EXCEPT ![p] = @ \cup {f}]
  /\ UNCHANGED <<user, settings, approval, writing, at, dry, left, dest, skipped, attempts, ruled,
                 used, clash>>

(* The attempt succeeds, or fails or times out, perhaps after the last     *)
(* file was copied, and is made again.                                     *)
EndAttempt(p) ==
  /\ at[p] = "attempt" /\ attempts' = [attempts EXCEPT ![p] = @ + 1]
  /\ \/ (\A f \in ToSet(plan) : Exists(RemotePlace(f))) /\ To(p, "ok")
     \/ To(p, IF attempts[p] >= Retries THEN "failed" ELSE "attempt")
  /\ UNCHANGED <<user, settings, approval, directory, dry, left, dest, stored, skipped, ruled,
                 pastUse>>

(* A copy raises (no space, no source), or the process is killed: the file *)
(* it was writing stays.                                                   *)
DieCopying(p) ==
  /\ at[p] \notin {"idle", "ok", "failed"} /\ To(p, "failed")
  /\ dest' = [dest EXCEPT ![p] = NoPlace] /\ writing' = [writing EXCEPT ![p] = NoPlace]
  /\ UNCHANGED <<user, settings, approval, target, dry, left, outcome, pastUse>>

BackupNext ==
  \/ Edit \/ (\E files \in Selections : MakePlan(files)) \/ ApprovePlan
  \/ \E p \in Applier :
       \/ InvokeApply(p) \/ Consume(p) \/ CheckRules(p) \/ Choose(p) \/ OpenPart(p)
       \/ FillPart(p) \/ Compare(p) \/ MovePart(p) \/ Finished(p) \/ EndAttempt(p)
       \/ DieCopying(p)
       \/ \E f \in File : RcloneCopies(p, f)

BackupSpec == BackupInit /\ [][BackupNext]_backupVars

-----------------------------------------------------------------------------
(* What a backup keeps.  A name of the destination that was not used for a *)
(* .part file is never emptied once it is taken; and unless two processes  *)
(* used it at once it holds for good, and whole, what it held first,       *)
(* whatever fails, is retried or is killed (rclone.py lines 56-73).  Files *)
(* are copied only by a process that consumed an approval, never one that  *)
(* a rule named when it began; and what is reported as done is there.      *)
BackupKeeps ==
  /\ \A x \in Place \ used :
       /\ whole[x] # Nothing => Exists(x)
       /\ x \notin clash => target[x] = whole[x] /\ target[x] \in Content \cup {Nothing}
  /\ \A p \in Applier :
       /\ stored[p] # {} => ~dry[p] /\ approvals > 0 /\ ToSet(plan) \cap ruled[p] = {}
       /\ attempts[p] <= Retries + 1
       /\ at[p] = "ok" /\ ~dry[p] =>
            IF remote THEN \A f \in ToSet(plan) : Exists(RemotePlace(f))
            ELSE stored[p] \cup skipped[p] = ToSet(plan)

(* An overwrite needs the controlled mode and DELETE PERMANENTLY           *)
(* (docs/security.md line 14); a backup is approved with APPROVE, and no   *)
(* conflict strategy replaces a file: whatever a name held first, it       *)
(* holds.  Two copies to one name break it, and one copy to `a.zip` where  *)
(* there is a file `a.zip.part` (rclone.py lines 59-71).                   *)
OverwritesNothing == \A x \in Place : whole[x] # Nothing => target[x] = whole[x]
=============================================================================
