--------------------------- MODULE PlanExecution ----------------------------
(***************************************************************************)
(* The commands that change the user's files, composed of the approval     *)
(* engine (Approvals) and the trash (TrashStore): cleanup plan / approve / *)
(* apply (cli.py, agent/executor.py), trash restore and trash purge.       *)
(* Several of them run at once, each a process of its own.                 *)
(*                                                                         *)
(* A plan's body is its kind of action and the places or trash items the   *)
(* actions name.  A command is driven by the program counter of Approvals  *)
(* until verify() has returned; then the operations of TrashStore run, and *)
(* whatever ends one half-way ends the command.  Edits of a stored plan    *)
(* behind the program's back and the passing of time are left to Approvals. *)
(***************************************************************************)
EXTENDS Integers, FiniteSets

CONSTANTS
  Process, PlanId, ApprovalId, Ttl, MaxClock,              \* see Approvals
  Path, Protected, File, Item, UserWaits, MaxFaults,       \* see TrashStore
  MaxPaths,     \* bound: how many files a cleanup plan names
  ConfigMode,   \* config.mode: no command below reads it
  NoBody, NoRow, NoPlan, NoToken, NoFile, NoItem, NoPath, NoProcess

VARIABLES
  plans, approvals, uses, approvalAudit, tokenFile, copied, clock,
  pc, held, token, readAt,
  disk, trash, aside, born, purged, trashRows, trashAudit, writer, faults, torn,
  at, item, path, batch, todo, done,
  command,      \* the command each process runs
  listed,       \* purge: the active items trash.list() returned
  left,         \* the places or items an approved command has yet to change
  citing,       \* column trash_items.approval_id
  applied       \* the plan.applied records: <<plan, approval>>

approvalVars == <<plans, approvals, uses, approvalAudit, tokenFile, copied, clock,
                  pc, held, token, readAt>>
trashVars == <<disk, trash, aside, born, purged, trashRows, trashAudit, writer,
               faults, torn, at, item, path, batch, todo, done>>
vars == <<approvalVars, trashVars, command, listed, left, citing, applied>>

(* What a plan asks for, its mode and its risk (PlanAction, ActionPlan).   *)
TrashBody   == {[kind |-> "trash", names |-> s] :
                  s \in {t \in SUBSET Path : Cardinality(t) <= MaxPaths}}
RestoreBody == {[kind |-> "restore", names |-> {i}] : i \in Item}
PurgeBody   == {[kind |-> "purge", names |-> s] : s \in SUBSET Item}
Body == TrashBody \cup RestoreBody \cup PurgeBody

Risk(b) == IF b.names = {} THEN 0 ELSE IF b.kind = "purge" THEN 3 ELSE 1
RiskOf  == [b \in Body |-> Risk(b)]
Mode(b) == IF b.kind = "purge" THEN "controlled" ELSE "organize"

RequireMode(mode, risk) ==
  risk = 0 \/ (mode # "analysis" /\ (risk >= 2 => mode = "controlled"))

A == INSTANCE Approvals WITH rows <- approvals, audit <- approvalAudit
T == INSTANCE TrashStore WITH rows <- trashRows, audit <- trashAudit

ASSUME EngineAssumption ==
  /\ IsFiniteSet(Process) /\ Ttl \subseteq Int /\ MaxClock \in Nat
  /\ NoBody \notin Body /\ NoPlan \notin A!Plan /\ NoToken \notin ApprovalId
  /\ NoRow \notin A!Row
ASSUME TrashAssumption ==
  /\ Protected \subseteq Path /\ UserWaits \in BOOLEAN /\ MaxFaults \in Nat
  /\ NoFile \notin File /\ NoItem \notin Item /\ NoPath \notin Path
  /\ NoProcess \notin Process /\ NoRow \notin T!Row

Commands == {"none", "plan", "approve", "apply", "restore", "purge"}

Init ==
  /\ A!Init /\ T!Init
  /\ command = [p \in Process |-> "none"]
  /\ listed = [p \in Process |-> {}]
  /\ left = [p \in Process |-> {}]
  /\ citing = [i \in Item |-> NoToken]
  /\ applied = {}

-----------------------------------------------------------------------------
Running(p, c) == command[p] \in c
Begin(p, c) == command[p] = "none" /\ command' = [command EXCEPT ![p] = c]
TheBody(p) == held[p][2]

(* The command is over: it returned, it raised, or it was killed.          *)
Finish(p) ==
  /\ command' = [command EXCEPT ![p] = "none"]
  /\ listed' = [listed EXCEPT ![p] = {}]
  /\ left' = [left EXCEPT ![p] = {}]

-----------------------------------------------------------------------------
(* How each command gets its plan.                                         *)

(* cleanup plan: unprotected files only.                                   *)
CleanupPlan(p, n, b) ==
  /\ Begin(p, "plan")
  /\ b \in TrashBody
  /\ \A x \in b.names : x \notin Protected /\ disk[x] # NoFile
  /\ A!SavePlan(p, n, b)
  /\ UNCHANGED <<trashVars, listed, left, citing, applied>>

(* cleanup approve and cleanup apply take any stored plan's id.            *)
Load(p, n, c) ==
  /\ c \in {"approve", "apply"}
  /\ Begin(p, c)
  /\ A!LoadPlan(p, n)
  /\ UNCHANGED <<trashVars, listed, left, citing, applied>>

RestorePlan(p, n, i) ==
  /\ Begin(p, "restore")
  /\ T!Active(i)
  /\ A!SavePlan(p, n, [kind |-> "restore", names |-> {i}])
  /\ UNCHANGED <<trashVars, listed, left, citing, applied>>

(* trash purge lists the trash, then loads the plan of --plan-id or plans  *)
(* to purge everything it listed.                                          *)
PurgePlan(p, n) ==
  LET now == {i \in Item : T!Active(i)}
  IN /\ Begin(p, "purge")
     /\ listed' = [listed EXCEPT ![p] = now]
     /\ \/ A!LoadPlan(p, n)
        \/ A!SavePlan(p, n, [kind |-> "purge", names |-> now])
     /\ UNCHANGED <<trashVars, left, citing, applied>>

-----------------------------------------------------------------------------
(* How each command gets its approval.                                     *)

(* restore and purge hand the phrase they demand to approve() themselves.  *)
Confirm(p) ==
  /\ \/ /\ Running(p, {"approve", "restore", "purge"})
        /\ \E a \in ApprovalId, phrase \in A!Phrase, ttl \in Ttl :
             /\ command[p] = "restore" => phrase = "APPROVE"
             /\ command[p] = "purge" => phrase = "DELETE PERMANENTLY"
             /\ A!Approve(p, a, phrase, ttl)
     \/ Running(p, {"approve", "restore", "purge"}) /\ A!AuditCreated(p)
     \/ Running(p, {"restore", "purge"}) /\ A!KeepToken(p)
     \/ Running(p, {"apply", "purge"}) /\ \E a \in ApprovalId : A!TakeToken(p, a)
  /\ UNCHANGED <<trashVars, command, listed, left, citing, applied>>

StoreToken(p) ==
  /\ Running(p, {"approve"})
  /\ A!StoreToken(p)
  /\ Finish(p)
  /\ UNCHANGED <<trashVars, citing, applied>>

(* The executor validates every action between its two verifications.      *)
Validated(p) ==
  /\ TheBody(p).kind = "trash"
  /\ TheBody(p).names \cap Protected = {}

(* apply verifies twice, restore and purge once.                           *)
Verify(p) ==
  /\ \/ /\ Running(p, {"apply"}) /\ pc[p] = "holding"
        /\ RequireMode(Mode(TheBody(p)), Risk(TheBody(p)))
        /\ A!CheckClaims(p, FALSE)
     \/ /\ Running(p, {"apply"}) /\ pc[p] = "peeked"
        /\ Validated(p)
        /\ A!CheckClaims(p, TRUE)
     \/ Running(p, {"restore", "purge"}) /\ A!CheckClaims(p, TRUE)
     \/ A!SelectRow(p)
     \/ A!ConsumeRow(p)
  /\ UNCHANGED <<trashVars, command, listed, left, citing, applied>>

(* verify() returns; the command knows what it may now change.             *)
Granted(p) ==
  /\ A!AuditConsumed(p)
  /\ left' = [left EXCEPT ![p] = TheBody(p).names]
  /\ UNCHANGED <<trashVars, command, listed, citing, applied>>

-----------------------------------------------------------------------------
(* What each command does once verify() has returned.                      *)

BeginMove(p, x, i) ==
  /\ Running(p, {"apply"}) /\ pc[p] = "granted"
  /\ x \in left[p]
  /\ T!MoveCheck(p, x, i)
  /\ left' = [left EXCEPT ![p] = @ \ {x}]
  /\ UNCHANGED <<approvalVars, command, listed, citing, applied>>

BeginRestore(p, i) ==
  /\ Running(p, {"restore"}) /\ pc[p] = "granted"
  /\ i \in left[p]
  /\ T!RestoreSelect(p, i)
  /\ left' = [left EXCEPT ![p] = {}]
  /\ UNCHANGED <<approvalVars, command, listed, citing, applied>>

\* Mistake: everything listed is purged, whatever the plan names.
PurgesListed(p) ==
  /\ Running(p, {"purge"}) /\ pc[p] = "granted"
  /\ TheBody(p).kind = "purge" /\ listed[p] # {}
  /\ T!PurgeSelect(p, listed[p])
  /\ left' = [left EXCEPT ![p] = {}]
  /\ UNCHANGED <<approvalVars, command, listed, citing, applied>>

(* Only now does purge look at what the plan names; if that is no longer   *)
(* what it listed, it raises (Abort).                                      *)
BeginPurge(p) ==
  /\ Running(p, {"purge"}) /\ pc[p] = "granted"
  /\ TheBody(p).kind = "purge" /\ left[p] # {} /\ left[p] \subseteq listed[p]
  /\ T!PurgeSelect(p, left[p])
  /\ left' = [left EXCEPT ![p] = {}]
  /\ UNCHANGED <<approvalVars, command, listed, citing, applied>>

\* Mistakes: the row is written with the plan's id, or without any.
CitesPlan(p) ==
  /\ T!Continue(p) /\ ~T!SourceMissing(p)
  /\ citing' = IF at[p] = "moved" THEN [citing EXCEPT ![item[p]] = held[p][1]] ELSE citing
  /\ UNCHANGED <<approvalVars, command, listed, left, applied>>
CitesNothing(p) ==
  /\ T!Continue(p) /\ ~T!SourceMissing(p)
  /\ UNCHANGED <<approvalVars, command, listed, left, citing, applied>>

(* The steps of a running move, restore or purge; the INSERT of a move     *)
(* writes the approval id into the row.                                    *)
Work(p) ==
  /\ T!Continue(p) /\ ~T!SourceMissing(p)
  /\ citing' = IF at[p] = "moved" THEN [citing EXCEPT ![item[p]] = token[p]] ELSE citing
  /\ UNCHANGED <<approvalVars, command, listed, left, applied>>

\* Mistake: recorded as soon as one move has returned.
RecordsEarly(p) ==
  /\ Running(p, {"apply"}) /\ pc[p] = "granted" /\ at[p] = "idle"
  /\ left[p] # TheBody(p).names
  /\ applied' = applied \cup {<<held[p], token[p]>>}
  /\ A!Exit(p)
  /\ Finish(p)
  /\ UNCHANGED <<trashVars, citing>>

(* The plan.applied record, when every file has been moved.                *)
RecordApplied(p) ==
  /\ Running(p, {"apply"}) /\ pc[p] = "granted" /\ at[p] = "idle" /\ left[p] = {}
  /\ applied' = applied \cup {<<held[p], token[p]>>}
  /\ A!Exit(p)
  /\ Finish(p)
  /\ UNCHANGED <<trashVars, citing>>

(* The end of the other commands, any refusal or exception, and a kill.    *)
Abort(p) ==
  /\ A!Exit(p)
  /\ IF at[p] = "idle" THEN UNCHANGED trashVars ELSE T!SourceMissing(p) \/ T!Stop(p)
  /\ Finish(p)
  /\ UNCHANGED <<citing, applied>>

UserCreate(x, f) ==
  /\ T!UserCreate(x, f)
  /\ UNCHANGED <<approvalVars, command, listed, left, citing, applied>>

Step(p) ==
  \/ \E n \in PlanId, b \in Body : CleanupPlan(p, n, b)
  \/ \E n \in PlanId, c \in Commands : Load(p, n, c)
  \/ \E n \in PlanId, i \in Item : RestorePlan(p, n, i)
  \/ \E n \in PlanId : PurgePlan(p, n)
  \/ Confirm(p) \/ StoreToken(p) \/ Verify(p) \/ Granted(p)
  \/ \E x \in Path, i \in Item : BeginMove(p, x, i)
  \/ \E i \in Item : BeginRestore(p, i)
  \/ BeginPurge(p) \/ Work(p) \/ RecordApplied(p) \/ Abort(p)

Next ==
  \/ \E p \in Process : Step(p)
  \/ \E x \in Path, f \in File : UserCreate(x, f)

Spec == Init /\ [][Next]_vars

-----------------------------------------------------------------------------
(* Properties.                                                             *)

\* Every variable has its type.
TypeOK ==
  /\ A!TypeOK /\ T!TypeOK
  /\ command \in [Process -> Commands]
  /\ listed \in [Process -> SUBSET Item]
  /\ left \in [Process -> SUBSET (Path \cup Item)]
  /\ citing \in [Item -> ApprovalId \cup {NoToken}]
  /\ applied \subseteq (A!Plan \X ApprovalId)

\* Whatever a process is changing at this moment, its command verified and
\* consumed an approval of exactly the plan that names it: a move takes a file
\* the plan lists, a restore its item, a purge only items of a plan confirmed
\* with DELETE PERMANENTLY (executor.py lines 15-26, cli.py lines 349-381).
Names(p) == approvals[token[p]].hash[2].names
Kind(p) == approvals[token[p]].hash[2].kind
ActsWithinPlan ==
  \A p \in Process : at[p] # "idle" =>
    /\ pc[p] = "granted" /\ approvals[token[p]].consumed
    /\ at[p] \in {"checked", "moved", "inserted"} =>
         Kind(p) = "trash" /\ path[p] \in Names(p)
    /\ at[p] \in {"read", "toPath", "toAside", "restored", "updated"} =>
         Kind(p) = "restore" /\ item[p] \in Names(p)
    /\ at[p] \in {"purging", "unlinked", "committed"} =>
         /\ Kind(p) = "purge" /\ (todo[p] \cup done[p] \cup batch[p]) \subseteq Names(p)
         /\ approvals[token[p]].phrase = "DELETE PERMANENTLY"

\* The approval a trash row cites is the one that allowed it: it exists, it was
\* consumed, and its plan lists the row's path, also when the command that wrote
\* the row was stopped right after (trash.py lines 31-35; engine.py lines 53-57).
RowsCiteTheirApproval ==
  \A i \in Item : trashRows[i] # NoRow =>
    /\ citing[i] \in ApprovalId /\ approvals[citing[i]] # NoRow
    /\ approvals[citing[i]].consumed
    /\ approvals[citing[i]].hash[2].kind = "trash"
    /\ trashRows[i].path \in approvals[citing[i]].hash[2].names

\* A file is deleted for good only by a process at work on an approved purge of
\* the very item it lies in; no other command, and no stop, unlinks anything
\* (docs/security.md line 14; trash.py lines 69-71).
DeletionConfirmed ==
  [][\A f \in purged' \ purged : \E p \in Process, i \in Item :
        /\ trash[i] = f /\ trash'[i] = NoFile
        /\ pc[p] = "granted" /\ i \in Names(p)
        /\ approvals[token[p]].phrase = "DELETE PERMANENTLY"]_vars

\* plan.applied is recorded only for a plan all of whose files have their row in
\* the trash table under that approval: a cleanup that broke off is never
\* reported as applied (executor.py lines 26-27).
AppliedMeansMoved ==
  \A record \in applied : \A x \in record[1][2].names : \E i \in Item :
    trashRows[i] # NoRow /\ trashRows[i].path = x /\ citing[i] = record[2]

\* The composition adds nothing to either part: seen through its own variables
\* each component still behaves as its specification says.
ImplementsApprovals == A!Spec
ImplementsTrash == T!Spec

\* "Default mode: analysis; it cannot move, rename, delete, overwrite or upload"
\* (README.md line 7).
AnalysisChangesNothing ==
  ConfigMode = "analysis" =>
    \A i \in Item : trash[i] = NoFile /\ trashRows[i] = NoRow
=============================================================================
