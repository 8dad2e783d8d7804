------------------------ MODULE PlanExecution_proofs ------------------------
(* The commands refine both of their parts: what is proved of the approval *)
(* engine and of the trash holds while cleanup, restore and purge use them. *)
EXTENDS PlanExecution, TLAPS

AP == INSTANCE Approvals_proofs WITH rows <- approvals, audit <- approvalAudit
TP == INSTANCE TrashStore_proofs WITH rows <- trashRows, audit <- trashAudit

-----------------------------------------------------------------------------
(* The approval engine.                                                    *)

(* A command does one step of the engine, or none.                         *)
LEMMA StepApprovals ==
  ASSUME NEW p \in Process, Step(p)
  PROVE  A!Command(p) \/ UNCHANGED A!vars
<1>1. ASSUME NEW n \in PlanId, NEW b \in Body, CleanupPlan(p, n, b)
      PROVE  A!Command(p)
  BY <1>1 DEF CleanupPlan, A!Command
<1>2. ASSUME NEW n \in PlanId, NEW c \in Commands, Load(p, n, c)
      PROVE  A!Command(p)
  BY <1>2 DEF Load, A!Command
<1>3. ASSUME NEW n \in PlanId, NEW i \in Item, RestorePlan(p, n, i)
      PROVE  A!Command(p)
  <2>1. [kind |-> "restore", names |-> {i}] \in Body
    BY DEF Body, RestoreBody
  <2>2. QED
    BY <1>3, <2>1 DEF RestorePlan, A!Command
<1>4. ASSUME NEW n \in PlanId, PurgePlan(p, n)
      PROVE  A!Command(p)
  <2> DEFINE now == {i \in Item : T!Active(i)}
  <2>1. [kind |-> "purge", names |-> now] \in Body
    BY DEF Body, PurgeBody
  <2>2. A!LoadPlan(p, n) \/ A!SavePlan(p, n, [kind |-> "purge", names |-> now])
    BY <1>4 DEF PurgePlan
  <2>3. QED
    BY <2>1, <2>2 DEF A!Command
<1>5. CASE Confirm(p) \/ StoreToken(p)
  BY <1>5 DEF Confirm, StoreToken, A!Command
<1>6. CASE Verify(p) \/ Granted(p)
  BY <1>6 DEF Verify, Granted, A!Command
<1>7. CASE RecordApplied(p) \/ Abort(p)
  BY <1>7 DEF RecordApplied, Abort, A!Command
<1>8. CASE UNCHANGED approvalVars
  BY <1>8 DEF approvalVars, A!vars
<1>9. QED
  BY <1>1, <1>2, <1>3, <1>4, <1>5, <1>6, <1>7, <1>8
  DEF Step, BeginMove, BeginRestore, BeginPurge, Work

(* So does every step of the composition.                                  *)
LEMMA NextApprovals == [Next]_vars => [A!Next]_(A!vars)
<1>1. ASSUME NEW p \in Process, Step(p)
      PROVE  A!Next \/ UNCHANGED A!vars
  BY <1>1, StepApprovals DEF A!Next
<1>2. ASSUME NEW x \in Path, NEW f \in File, UserCreate(x, f)
      PROVE  UNCHANGED A!vars
  BY <1>2 DEF UserCreate, approvalVars, A!vars
<1>3. CASE UNCHANGED vars
  BY <1>3 DEF vars, approvalVars, A!vars
<1>4. QED
  BY <1>1, <1>2, <1>3 DEF Next

\* The composition implements the approval engine (ImplementsApprovals): no
\* command reaches the approval tables except through the engine's operations.
THEOREM RefinesApprovals == Spec => ImplementsApprovals
<1>1. Init => A!Init
  BY DEF Init
<1>2. QED
  BY <1>1, NextApprovals, PTL DEF Spec, ImplementsApprovals, A!Spec

-----------------------------------------------------------------------------
(* The trash.                                                              *)

(* TP restates T with the proofs about it: both name one specification.    *)
LEMMA SameTrash == (T!Init <=> TP!Init) /\ ([T!Next]_(T!vars) <=> [TP!Next]_(TP!vars))
<1>1. T!Init <=> TP!Init
  BY DEF T!Init, TP!Init
<1>2. [T!Next]_(T!vars) <=> [TP!Next]_(TP!vars)
  BY DEF T!Location, T!Action, T!Row, T!files, T!tables, T!locals, T!stops, T!vars, T!Goto,
      T!Leave, T!CanWrite, T!Active, T!Unused, T!MoveCheck, T!MoveFile, T!MoveInsert,
      T!MoveAudit, T!RestoreSelect, T!RestoreChoose, T!RestoreFile, T!RestoreUpdate,
      T!RestoreAudit, T!SourceMissing, T!PurgeSelect, T!PurgeUnlink, T!PurgeUpdate,
      T!PurgeCommit, T!PurgeAudit, T!Stop, T!UserCreate, T!Start, T!Continue, T!Next,
      TP!Location, TP!Action, TP!Row, TP!files, TP!tables, TP!locals, TP!stops, TP!vars,
      TP!Goto, TP!Leave, TP!CanWrite, TP!Active, TP!Unused, TP!MoveCheck, TP!MoveFile,
      TP!MoveInsert, TP!MoveAudit, TP!RestoreSelect, TP!RestoreChoose, TP!RestoreFile,
      TP!RestoreUpdate, TP!RestoreAudit, TP!SourceMissing, TP!PurgeSelect, TP!PurgeUnlink,
      TP!PurgeUpdate, TP!PurgeCommit, TP!PurgeAudit, TP!Stop, TP!UserCreate, TP!Start,
      TP!Continue, TP!Next
<1>3. QED
  BY <1>1, <1>2

(* The assumptions of TrashStore, met here.                                *)
LEMMA TrashNoRow == NoRow \notin TP!Row
  BY TrashAssumption DEF T!Row, TP!Row

(* What a purge listed has a row, and rows stay: so what it then purges,   *)
(* a part of that list, is what PurgeSelect may be asked for.              *)
Listed(p) == listed[p] \subseteq {i \in Item : trashRows[i] # NoRow}
ListedInv ==
  /\ TP!TrashInv
  /\ listed \in [Process -> SUBSET Item]
  /\ \A p \in Process : Listed(p)

(* A command does one step of the trash, or none.                          *)
LEMMA StepTrash ==
  ASSUME ListedInv, NEW p \in Process, Step(p)
  PROVE  [T!Next]_(T!vars)
<1>1. ASSUME NEW x \in Path, NEW i \in Item, BeginMove(p, x, i)
      PROVE  T!Next
  BY <1>1 DEF BeginMove, T!Next, T!Start
<1>2. ASSUME NEW i \in Item, BeginRestore(p, i)
      PROVE  T!Next
  BY <1>2 DEF BeginRestore, T!Next, T!Start
<1>3. CASE BeginPurge(p)
  <2>1. left[p] \in SUBSET {i \in Item : trashRows[i] # NoRow} /\ left[p] # {}
    BY <1>3 DEF BeginPurge, ListedInv, Listed
  <2>2. T!PurgeSelect(p, left[p])
    BY <1>3 DEF BeginPurge
  <2>3. QED
    BY <2>1, <2>2 DEF T!Next, T!Start
<1>4. CASE Work(p)
  BY <1>4 DEF Work, T!Next
<1>5. CASE Abort(p)
  <2>1. UNCHANGED trashVars \/ T!SourceMissing(p) \/ T!Stop(p)
    BY <1>5 DEF Abort
  <2>2. CASE UNCHANGED trashVars
    BY <2>2 DEF trashVars, T!vars, T!files, T!tables, T!stops, T!locals
  <2>3. QED
    BY <2>1, <2>2 DEF T!Next, T!Continue
<1>6. CASE UNCHANGED trashVars
  BY <1>6 DEF trashVars, T!vars, T!files, T!tables, T!stops, T!locals
<1>7. QED
  BY <1>1, <1>2, <1>3, <1>4, <1>5, <1>6
  DEF Step, CleanupPlan, Load, RestorePlan, PurgePlan, Confirm, StoreToken, Verify, Granted,
      RecordApplied

(* So does every step of the composition.                                  *)
LEMMA NextTrash == ListedInv /\ [Next]_vars => [T!Next]_(T!vars)
<1> SUFFICES ASSUME ListedInv, [Next]_vars PROVE [T!Next]_(T!vars)
  OBVIOUS
<1>1. ASSUME NEW x \in Path, NEW f \in File, UserCreate(x, f)
      PROVE  T!Next
  BY <1>1 DEF UserCreate, T!Next
<1>2. CASE UNCHANGED vars
  BY <1>2 DEF vars, trashVars, T!vars, T!files, T!tables, T!stops, T!locals
<1>3. QED
  BY <1>1, <1>2, StepTrash DEF Next

(* Only purge lists the trash, and what it lists are active rows.          *)
LEMMA NextListed == ListedInv /\ [Next]_vars => ListedInv'
<1> SUFFICES ASSUME ListedInv, [Next]_vars PROVE ListedInv'
  OBVIOUS
<1>1. [TP!Next]_(TP!vars)
  BY NextTrash, SameTrash
<1>2. TP!TrashInv'
  BY <1>1, TP!NextInv, TrashAssumption, TrashNoRow DEF ListedInv
<1>3. \A i \in Item : trashRows[i] # NoRow => trashRows'[i] # NoRow
  BY <1>1, TP!RowsStay, TrashAssumption, TrashNoRow DEF ListedInv
<1>4. ASSUME NEW p \in Process, NEW n \in PlanId, PurgePlan(p, n)
      PROVE  /\ listed' \in [Process -> SUBSET Item]
             /\ \A q \in Process : Listed(q)'
  <2>1. /\ listed' = [listed EXCEPT ![p] = {i \in Item : T!Active(i)}]
        /\ UNCHANGED trashRows
    BY <1>4 DEF PurgePlan, trashVars
  <2>2. {i \in Item : T!Active(i)} \subseteq {i \in Item : trashRows[i] # NoRow}
    BY DEF T!Active
  <2>3. QED
    BY <2>1, <2>2 DEF ListedInv, Listed
<1>5. ASSUME NEW p \in Process, Finish(p)
      PROVE  /\ listed' \in [Process -> SUBSET Item]
             /\ \A q \in Process : Listed(q)'
  <2>1. listed' = [listed EXCEPT ![p] = {}] /\ listed \in [Process -> SUBSET Item]
    BY <1>5 DEF Finish, ListedInv
  <2>2. listed' \in [Process -> SUBSET Item]
    BY <2>1
  <2>3. \A q \in Process : listed'[q] \subseteq listed[q]
    BY <2>1
  <2>4. QED
    BY <1>3, <2>2, <2>3 DEF ListedInv, Listed
<1>6. ASSUME UNCHANGED listed
      PROVE  /\ listed' \in [Process -> SUBSET Item]
             /\ \A q \in Process : Listed(q)'
  <2>1. listed' \in [Process -> SUBSET Item]
    BY <1>6 DEF ListedInv
  <2>2. \A q \in Process : listed'[q] \subseteq listed[q]
    BY <1>6
  <2>3. QED
    BY <1>3, <2>1, <2>2 DEF ListedInv, Listed
<1>7. QED
  BY <1>2, <1>4, <1>5, <1>6
  DEF ListedInv, Next, vars, Step, CleanupPlan, Load, RestorePlan, Confirm, StoreToken, Verify,
      Granted, BeginMove, BeginRestore, BeginPurge, Work, RecordApplied, Abort, UserCreate

(* Nothing is listed, and the trash is in its initial state.               *)
LEMMA InitListed == Init => ListedInv
  BY TP!InitInv, SameTrash, TrashAssumption, TrashNoRow DEF Init, ListedInv, Listed

\* The composition implements the trash (ImplementsTrash): no command changes
\* files or trash rows except through move, restore and purge.
THEOREM RefinesTrash == Spec => ImplementsTrash
<1>1. Init => T!Init
  BY DEF Init
<1>2. QED
  BY <1>1, InitListed, NextListed, NextTrash, PTL DEF Spec, ImplementsTrash, T!Spec

-----------------------------------------------------------------------------
(* What the parts promise, the commands keep.                              *)

\* Whichever commands run, a trash row that says restored or purged has no file
\* left behind it (ClosedRowHasNoFile of TrashStore).
THEOREM CommandsLeaveNoFile == Spec => []T!ClosedRowHasNoFile
<1>1. ListedInv => T!ClosedRowHasNoFile
  BY DEF ListedInv, TP!TrashInv, TP!ClosedRowHasNoFile, T!ClosedRowHasNoFile, TP!Active, T!Active
<1>2. QED
  BY <1>1, InitListed, NextListed, PTL DEF Spec

\* Whichever commands run, what lies at a protected path stays there
\* (ProtectedUntouched of TrashStore).
THEOREM CommandsProtect == Spec => T!ProtectedUntouched
<1>1. ListedInv /\ [Next]_vars =>
        [\A x \in Protected : disk[x] # NoFile => disk'[x] = disk[x]]_(T!vars)
  <2>1. ASSUME ListedInv, [Next]_vars
        PROVE  TP!Untouched
    BY <2>1, NextTrash, SameTrash, TP!NextUntouched, TrashAssumption, TrashNoRow DEF ListedInv
  <2>2. QED
    BY <2>1 DEF TP!Untouched
<1>2. QED
  BY <1>1, InitListed, NextListed, PTL DEF Spec, T!ProtectedUntouched

(* AP restates A with the proofs about it.                                 *)
LEMMA SameEngine == (A!Init <=> AP!Init) /\ ([A!Next]_(A!vars) <=> [AP!Next]_(AP!vars))
<1>1. A!Init <=> AP!Init
  BY DEF A!Init, AP!Init
<1>2. [A!Next]_(A!vars) <=> [AP!Next]_(AP!vars)
  BY DEF A!Location, A!tables, A!vars, A!Plan, A!Phrase, A!Row, A!Irreversible, A!Goto,
         A!Leave, A!ConfirmationPhrase, A!SavePlan, A!LoadPlan, A!EditPlan, A!Approve,
         A!AuditCreated, A!RefusePhrase, A!StoreToken, A!KeepToken, A!TakeToken,
         A!ClaimsHold, A!CheckClaims, A!RowUsable, A!SelectRow, A!RefuseToken, A!ConsumeRow,
         A!AuditConsumed, A!Exit, A!Tick, A!Command, A!Next, AP!Location, AP!tables,
         AP!vars, AP!Plan, AP!Phrase, AP!Row, AP!Irreversible, AP!Goto, AP!Leave,
         AP!ConfirmationPhrase, AP!SavePlan, AP!LoadPlan, AP!EditPlan, AP!Approve,
         AP!AuditCreated, AP!RefusePhrase, AP!StoreToken, AP!KeepToken, AP!TakeToken,
         AP!ClaimsHold, AP!CheckClaims, AP!RowUsable, AP!SelectRow, AP!RefuseToken,
         AP!ConsumeRow, AP!AuditConsumed, AP!Exit, AP!Tick, AP!Command, AP!Next
<1>3. QED
  BY <1>1, <1>2

(* The assumptions of Approvals, met here.                                 *)
LEMMA EngineFinite == AP!IsFiniteSet(Process)
  BY EngineAssumption DEF IsFiniteSet, AP!IsFiniteSet

(* The absent values of the engine are absent here too.                    *)
LEMMA EngineNulls ==
  /\ NoPlan \notin AP!Plan /\ NoRow \notin AP!Row /\ NoBody \notin Body
  /\ NoToken \notin ApprovalId
  BY EngineAssumption DEF A!Plan, AP!Plan, A!Row, AP!Row, A!Phrase, AP!Phrase

(* The risk of every body is a RiskClass.                                  *)
LEMMA EngineRisk == RiskOf \in [Body -> 0 .. 3]
  BY DEF RiskOf, Risk

\* No command works on a plan other than the one a person confirmed, with the
\* phrase its risk demands and before the approval expired (GrantedAsApproved).
THEOREM CommandsActAsApproved == Spec => []A!GrantedAsApproved
<1>1. A!Spec <=> AP!Spec
  <2>1. A!Init <=> AP!Init
    BY SameEngine
  <2>2. [A!Next]_(A!vars) <=> [AP!Next]_(AP!vars)
    BY SameEngine
  <2>3. QED
    BY <2>1, <2>2, PTL DEF A!Spec, AP!Spec
<1>2. AP!Spec => []AP!GrantedAsApproved
  <2>1. AP!IsFiniteSet(Process) /\ RiskOf \in [Body -> 0 .. 3]
    BY EngineFinite, EngineRisk
  <2>2. Ttl \subseteq Int /\ MaxClock \in Nat
    BY EngineAssumption
  <2>3. NoBody \notin Body /\ NoPlan \notin AP!Plan /\ NoToken \notin ApprovalId
    BY EngineNulls
  <2>4. NoRow \notin AP!Row
    BY EngineNulls
  <2>5. QED
    BY <2>1, <2>2, <2>3, <2>4, AP!ApprovalBinding, PTL
<1>3. AP!GrantedAsApproved <=> A!GrantedAsApproved
  BY DEF A!GrantedAsApproved, AP!GrantedAsApproved, A!Authorised, AP!Authorised,
         A!ConfirmationPhrase, AP!ConfirmationPhrase, A!Irreversible, AP!Irreversible
<1>4. QED
  BY <1>1, <1>2, <1>3, RefinesApprovals, PTL DEF ImplementsApprovals

-----------------------------------------------------------------------------
(* What commands do is what was approved.                                  *)

(* The engine and the trash keep their invariants under the commands.      *)
EngineInv == AP!BindingInv /\ AP!TrailInv

(* The engine keeps what was proved of it.                                 *)
LEMMA NextEngine == EngineInv /\ [Next]_vars => EngineInv'
<1> SUFFICES ASSUME EngineInv, [Next]_vars PROVE EngineInv'
  OBVIOUS
<1>1. [AP!Next]_(AP!vars)
  BY NextApprovals, SameEngine
<1>2. Ttl \subseteq Int /\ MaxClock \in Nat
  BY EngineAssumption
<1>3. AP!BindingInv'
  BY <1>1, <1>2, EngineFinite, EngineNulls, EngineRisk, AP!NextBinding DEF EngineInv
<1>4. AP!TrailInv'
  BY <1>1, <1>2, EngineFinite, EngineNulls, EngineRisk, AP!NextTrail DEF EngineInv
<1>5. QED
  BY <1>3, <1>4 DEF EngineInv

(* It starts that way.                                                     *)
LEMMA InitEngine == Init => EngineInv
<1> SUFFICES ASSUME Init PROVE EngineInv
  OBVIOUS
<1>1. AP!Init
  BY SameEngine DEF Init
<1>2. Ttl \subseteq Int /\ MaxClock \in Nat
  BY EngineAssumption
<1>3. AP!BindingInv
  BY <1>1, <1>2, EngineFinite, EngineNulls, EngineRisk, AP!InitBinding
<1>4. AP!TrailInv
  BY <1>1, <1>2, EngineFinite, EngineNulls, EngineRisk, AP!InitTrail
<1>5. QED
  BY <1>3, <1>4 DEF EngineInv

(* The engine's tables and locals as the commands see them.                *)
EngineTyped ==
  /\ approvals \in [ApprovalId -> A!Row \cup {NoRow}]
  /\ pc \in [Process -> A!Location]
  /\ held \in [Process -> A!Plan \cup {NoPlan}]
  /\ token \in [Process -> ApprovalId \cup {NoToken}]
  /\ \A p \in Process : pc[p] # "idle" => held[p] \in A!Plan
  /\ \A p \in Process : pc[p] = "granted" =>
       /\ token[p] \in ApprovalId /\ approvals[token[p]] # NoRow
       /\ approvals[token[p]].consumed
       /\ approvals[token[p]].hash = held[p]
       /\ approvals[token[p]].phrase = A!ConfirmationPhrase(held[p][2])

(* They follow from the engine's invariants.                               *)
LEMMA EngineTypes == EngineInv => EngineTyped
<1> SUFFICES ASSUME EngineInv PROVE EngineTyped
  OBVIOUS
<1>1. AP!Row = A!Row /\ AP!Plan = A!Plan /\ AP!Location = A!Location
  BY DEF AP!Row, A!Row, AP!Plan, A!Plan, AP!Location, A!Location, AP!Phrase, A!Phrase
<1>2. AP!TypeOK /\ \A p \in Process : AP!HasPlan(p) /\ AP!HasToken(p)
  BY DEF EngineInv, AP!TrailInv, AP!Typed
<1>3. ASSUME NEW p \in Process, pc[p] = "granted"
      PROVE  /\ token[p] \in ApprovalId /\ approvals[token[p]] # NoRow
             /\ approvals[token[p]].consumed
             /\ approvals[token[p]].hash = held[p]
             /\ approvals[token[p]].phrase = A!ConfirmationPhrase(held[p][2])
  <2>1. token[p] \in ApprovalId /\ approvals[token[p]] # NoRow
    BY <1>2, <1>3 DEF AP!HasToken
  <2>2. approvals[token[p]].consumed
    BY <1>3 DEF EngineInv, AP!TrailInv
  <2>3. approvals[token[p]].hash = held[p]
    BY <1>3 DEF EngineInv, AP!BindingInv, AP!ClaimsChecked
  <2>4. approvals[token[p]].phrase = A!ConfirmationPhrase(held[p][2])
    BY <2>1, <2>3 DEF EngineInv, AP!BindingInv, AP!PhraseMatches, A!ConfirmationPhrase,
        AP!ConfirmationPhrase, A!Irreversible, AP!Irreversible
  <2>5. QED
    BY <2>1, <2>2, <2>3, <2>4
<1>4. QED
  BY <1>1, <1>2, <1>3 DEF EngineTyped, AP!TypeOK, AP!HasPlan

(* An approval, once inserted, keeps what it approves and how.             *)
LEMMA ApprovalsKeep ==
  ASSUME EngineInv, [Next]_vars, NEW a \in ApprovalId, approvals[a] # NoRow
  PROVE  /\ approvals'[a] # NoRow
         /\ approvals'[a].hash = approvals[a].hash
         /\ approvals[a].consumed => approvals'[a].consumed
<1>1. [AP!Next]_(AP!vars)
  BY NextApprovals, SameEngine
<1>2. AP!TypeOK
  BY DEF EngineInv, AP!TrailInv, AP!Typed
<1>3. Ttl \subseteq Int /\ MaxClock \in Nat
  BY EngineAssumption
<1>4. QED
  BY <1>1, <1>2, <1>3, EngineFinite, EngineNulls, EngineRisk, AP!RowsKeep

-----------------------------------------------------------------------------
Moving    == {"checked", "moved", "inserted"}
Restoring == {"read", "toPath", "toAside", "restored", "updated"}
Purging   == {"purging", "unlinked", "committed"}

TypedCommands ==
  /\ command \in [Process -> Commands]
  /\ left \in [Process -> SUBSET (Path \cup Item)]
  /\ citing \in [Item -> ApprovalId \cup {NoToken}]
  /\ applied \subseteq A!Plan \X ApprovalId

(* Each command comes to its approval with a plan of its kind, and has     *)
(* left to do a part of what the plan names.                               *)
Kinds(p) ==
  /\ command[p] = "restore" /\ pc[p] # "idle" => TheBody(p).kind = "restore"
  /\ command[p] = "apply" /\ pc[p] \in {"claimed", "selected", "spent", "granted"} =>
       TheBody(p).kind = "trash"
  /\ pc[p] = "granted" => left[p] \subseteq TheBody(p).names

(* Whoever changes files or rows has an approval of a plan that names them. *)
Bound(p) == at[p] # "idle" =>
  /\ pc[p] = "granted"
  /\ at[p] \in Moving => command[p] = "apply" /\ path[p] \in TheBody(p).names
  /\ at[p] \in Restoring => command[p] = "restore" /\ item[p] \in TheBody(p).names
  /\ at[p] \in Purging => /\ TheBody(p).kind = "purge" /\ TheBody(p).names # {}
                          /\ todo[p] \cup done[p] \cup batch[p] \subseteq TheBody(p).names

(* What an apply has behind it has a row that cites its approval.          *)
MovedBy(x, a) ==
  \E i \in Item : trashRows[i] # NoRow /\ trashRows[i].path = x /\ citing[i] = a
Progress(p) == command[p] = "apply" /\ pc[p] = "granted" =>
  \A x \in TheBody(p).names :
    x \in left[p] \/ (at[p] \in {"checked", "moved"} /\ path[p] = x) \/ MovedBy(x, token[p])

PlanInv ==
  /\ ListedInv /\ EngineInv /\ TypedCommands
  /\ \A p \in Process : Kinds(p) /\ Bound(p) /\ Progress(p)
  /\ RowsCiteTheirApproval /\ AppliedMeansMoved

(* The trash's locals as the commands see them.                            *)
TrashTyped ==
  /\ at \in [Process -> T!Location]
  /\ item \in [Process -> Item \cup {NoItem}] /\ path \in [Process -> Path \cup {NoPath}]
  /\ batch \in [Process -> SUBSET Item] /\ todo \in [Process -> SUBSET Item]
  /\ done \in [Process -> SUBSET Item]
  /\ trashRows \in [Item -> T!Row \cup {NoRow}]
  /\ \A p \in Process :
       /\ at[p] \in Moving \cup Restoring => item[p] \in Item /\ path[p] \in Path
       /\ at[p] = "unlinked" => item[p] \in todo[p]
       /\ at[p] = "idle" => done[p] = {}
       /\ at[p] \in {"checked", "moved"} => trashRows[item[p]] = NoRow

(* They follow from the invariant of the trash.                            *)
LEMMA TrashTypes == ListedInv => TrashTyped
<1> SUFFICES ASSUME ListedInv PROVE TrashTyped
  OBVIOUS
<1>1. TP!TypeOK /\ \A p \in Process : TP!Holds(p) /\ TP!Owned(p)
  BY DEF ListedInv, TP!TrashInv, TP!Private
<1>2. TP!Location = T!Location /\ TP!Row = T!Row
  BY DEF TP!Location, T!Location, TP!Row, T!Row
<1>3. QED
  BY <1>1, <1>2 DEF TrashTyped, TP!TypeOK, TP!Holds, TP!Owned, TP!Moving, TP!Restoring,
     Moving, Restoring

-----------------------------------------------------------------------------
(* A step of one process leaves the locals of the others alone.            *)
Engine(q) == <<pc[q], held[q], token[q]>>
Trash(q) == <<at[q], item[q], path[q], batch[q], todo[q], done[q]>>
Command(q) == <<command[q], left[q]>>

(* What the engine keeps for another process.                              *)
LEMMA EngineFrame ==
  ASSUME EngineTyped, NEW p \in Process, Step(p), NEW q \in Process, q # p
  PROVE  UNCHANGED Engine(q)
<1>1. A!Command(p) => UNCHANGED Engine(q)
  BY DEF EngineTyped, Engine, A!Command, A!Goto, A!tables, A!Leave, A!SavePlan, A!LoadPlan,
      A!RefusePhrase, A!Approve, A!AuditCreated, A!StoreToken, A!KeepToken, A!TakeToken,
      A!CheckClaims, A!SelectRow, A!RefuseToken, A!ConsumeRow, A!AuditConsumed, A!Exit
<1>2. UNCHANGED A!vars => UNCHANGED Engine(q)
  BY DEF A!vars, Engine
<1>3. QED
  BY <1>1, <1>2, StepApprovals

(* What the trash keeps for another process.                               *)
LEMMA TrashFrame ==
  ASSUME TrashTyped, NEW p \in Process, Step(p), NEW q \in Process, q # p
  PROVE  UNCHANGED Trash(q)
<1> USE DEF TrashTyped, Trash, T!Goto, T!Leave, T!locals
<1>1. ASSUME NEW x \in Path, NEW i \in Item, T!MoveCheck(p, x, i)
      PROVE  UNCHANGED Trash(q)
  BY <1>1 DEF T!MoveCheck
<1>2. ASSUME NEW i \in Item, T!RestoreSelect(p, i)
      PROVE  UNCHANGED Trash(q)
  BY <1>2 DEF T!RestoreSelect
<1>3. ASSUME NEW ids, T!PurgeSelect(p, ids)
      PROVE  UNCHANGED Trash(q)
  BY <1>3 DEF T!PurgeSelect
<1>4. CASE T!Continue(p)
  BY <1>4 DEF T!Continue, T!MoveFile, T!MoveInsert, T!MoveAudit, T!RestoreChoose,
      T!RestoreFile, T!RestoreUpdate, T!RestoreAudit, T!SourceMissing, T!PurgeUnlink,
      T!PurgeUpdate, T!PurgeCommit, T!PurgeAudit
<1>5. CASE T!Stop(p)
  BY <1>5 DEF T!Stop
<1>6. CASE UNCHANGED trashVars
  BY <1>6 DEF trashVars
<1>7. QED
  BY <1>1, <1>2, <1>3, <1>4, <1>5, <1>6
  DEF Step, CleanupPlan, Load, RestorePlan, PurgePlan, Confirm, StoreToken, Verify, Granted,
      BeginMove, BeginRestore, BeginPurge, Work, RecordApplied, Abort, T!Continue

(* What another command is at and has left to do.                          *)
LEMMA CommandFrame ==
  ASSUME TypedCommands, NEW p \in Process, Step(p), NEW q \in Process, q # p
  PROVE  UNCHANGED Command(q)
BY DEF TypedCommands, Command, Finish, Begin, Step, CleanupPlan, Load, RestorePlan, PurgePlan,
    Confirm, StoreToken, Verify, Granted, BeginMove, BeginRestore, BeginPurge, Work,
    RecordApplied, Abort

(* A plan's body is one of the three kinds.                                *)
LEMMA BodyNames ==
  ASSUME NEW b \in Body
  PROVE  /\ b.names \subseteq Path \cup Item
         /\ b.kind = "purge" /\ b.names # {} => RiskOf[b] = 3
BY DEF Body, TrashBody, RestoreBody, PurgeBody, RiskOf, Risk

(* The commands keep their own types.                                      *)
LEMMA NextTypedCommands ==
  ASSUME EngineTyped, TrashTyped, TypedCommands, [Next]_vars
  PROVE  TypedCommands'
<1> USE DEF TypedCommands, Begin, Finish, Commands
<1>1. ASSUME NEW p \in Process, Granted(p)
      PROVE  TypedCommands'
  <2>1. held[p] \in A!Plan
    BY <1>1 DEF Granted, A!AuditConsumed, A!Goto, EngineTyped
  <2>2. held[p][2].names \subseteq Path \cup Item
    BY <2>1, BodyNames DEF A!Plan
  <2>3. QED
    BY <1>1, <2>2 DEF Granted, TheBody
<1>2. ASSUME NEW p \in Process, Work(p)
      PROVE  TypedCommands'
  <2>1. citing' \in [Item -> ApprovalId \cup {NoToken}]
    BY <1>2 DEF Work, EngineTyped
  <2>2. QED
    BY <1>2, <2>1 DEF Work
<1>3. ASSUME NEW p \in Process, RecordApplied(p)
      PROVE  TypedCommands'
  <2>1. held[p] \in A!Plan /\ token[p] \in ApprovalId
    BY <1>3 DEF RecordApplied, EngineTyped
  <2>2. QED
    BY <1>3, <2>1 DEF RecordApplied
<1>4. CASE UNCHANGED vars
  BY <1>4 DEF vars
<1>5. QED
  BY <1>1, <1>2, <1>3, <1>4
  DEF Next, Step, CleanupPlan, Load, RestorePlan, PurgePlan, Confirm, StoreToken, Verify,
      BeginMove, BeginRestore, BeginPurge, Abort, UserCreate

(* A command keeps its kind of plan from the time it got it, and what it   *)
(* has left to do only shrinks.                                            *)
LEMMA NextKinds ==
  ASSUME PlanInv, EngineTyped, [Next]_vars, NEW q \in Process
  PROVE  Kinds(q)'
<1>1. Kinds(q) /\ TypedCommands BY DEF PlanInv
<1>2. ASSUME NEW p \in Process, Step(p), p # q
      PROVE  Kinds(q)'
  <2>1. UNCHANGED Engine(q) /\ UNCHANGED Command(q)
    BY <1>1, <1>2, EngineFrame, CommandFrame
  <2>2. QED
    BY <1>1, <2>1 DEF Kinds, TheBody, Engine, Command
<1>3. CASE Step(q)
  <2> USE <1>1 DEF Kinds, TheBody, EngineTyped, TypedCommands, Begin, Finish, A!Goto, A!Leave,
          A!tables
  <2>1. ASSUME NEW n \in PlanId, NEW b \in Body, CleanupPlan(q, n, b) PROVE Kinds(q)'
    BY <2>1 DEF CleanupPlan, A!SavePlan
  <2>2. ASSUME NEW n \in PlanId, NEW c \in Commands, Load(q, n, c) PROVE Kinds(q)'
    BY <2>2 DEF Load, A!LoadPlan
  <2>3. ASSUME NEW n \in PlanId, NEW i \in Item, RestorePlan(q, n, i) PROVE Kinds(q)'
    BY <2>3 DEF RestorePlan, A!SavePlan
  <2>4. ASSUME NEW n \in PlanId, PurgePlan(q, n) PROVE Kinds(q)'
    BY <2>4 DEF PurgePlan, A!SavePlan, A!LoadPlan
  <2>5. CASE Confirm(q)
    BY <2>5 DEF Confirm, Running, A!Approve, A!AuditCreated, A!KeepToken, A!TakeToken
  <2>6. CASE StoreToken(q)
    BY <2>6 DEF StoreToken, A!StoreToken
  <2>7. CASE Verify(q)
    BY <2>7 DEF Verify, Running, Validated, A!CheckClaims, A!SelectRow, A!ConsumeRow
  <2>8. CASE Granted(q)
    BY <2>8 DEF Granted, A!AuditConsumed
  <2>9. CASE RecordApplied(q)
    BY <2>9 DEF RecordApplied, A!Exit
  <2>10. CASE Abort(q)
    BY <2>10 DEF Abort, A!Exit
  <2>11. ASSUME NEW x \in Path, NEW i \in Item, BeginMove(q, x, i) PROVE Kinds(q)'
    BY <2>11 DEF BeginMove, approvalVars
  <2>12. ASSUME NEW i \in Item, BeginRestore(q, i) PROVE Kinds(q)'
    BY <2>12 DEF BeginRestore, approvalVars
  <2>13. CASE BeginPurge(q)
    BY <2>13 DEF BeginPurge, approvalVars
  <2>14. CASE Work(q)
    BY <2>14 DEF Work, approvalVars
  <2>15. QED
    BY <1>3, <2>1, <2>2, <2>3, <2>4, <2>5, <2>6, <2>7, <2>8, <2>9, <2>10, <2>11, <2>12,
       <2>13, <2>14 DEF Step
<1>4. ASSUME UNCHANGED <<approvalVars, command, left>>
      PROVE  Kinds(q)'
  BY <1>1, <1>4 DEF Kinds, TheBody, approvalVars
<1>5. QED
  BY <1>2, <1>3, <1>4 DEF Next, UserCreate, vars

(* What changes files or rows is begun for a plan that names it, and stays *)
(* within it until it ends.                                                *)
LEMMA NextBound ==
  ASSUME PlanInv, EngineTyped, TrashTyped, [Next]_vars, NEW q \in Process
  PROVE  Bound(q)'
<1>1. Bound(q) /\ Kinds(q) /\ TypedCommands BY DEF PlanInv
<1>2. ASSUME NEW p \in Process, Step(p), p # q
      PROVE  Bound(q)'
  <2>1. UNCHANGED Engine(q) /\ UNCHANGED Command(q) /\ UNCHANGED Trash(q)
    BY <1>1, <1>2, EngineFrame, CommandFrame, TrashFrame
  <2>2. QED
    BY <1>1, <2>1 DEF Bound, TheBody, Engine, Command, Trash
<1>3. CASE Step(q)
  <2>1. CASE at[q] = "idle" /\ UNCHANGED trashVars
    BY <2>1 DEF trashVars, Bound
  <2>2. ASSUME pc[q] # "granted", UNCHANGED trashVars
        PROVE  Bound(q)'
    BY <1>1, <2>1, <2>2 DEF Bound
  <2>3. ASSUME \/ \E n \in PlanId, b \in Body : CleanupPlan(q, n, b)
               \/ \E n \in PlanId, c \in Commands : Load(q, n, c)
               \/ \E n \in PlanId, i \in Item : RestorePlan(q, n, i)
               \/ \E n \in PlanId : PurgePlan(q, n)
               \/ Confirm(q) \/ StoreToken(q) \/ Verify(q) \/ Granted(q)
        PROVE  pc[q] # "granted" /\ UNCHANGED trashVars
    BY <2>3
    DEF CleanupPlan, Load, RestorePlan, PurgePlan, Confirm, StoreToken, Verify, Granted,
        A!Goto, A!SavePlan, A!LoadPlan, A!Approve, A!AuditCreated, A!KeepToken, A!TakeToken,
        A!StoreToken, A!CheckClaims, A!SelectRow, A!ConsumeRow, A!AuditConsumed
  <2>4. CASE RecordApplied(q)
    BY <2>1, <2>4 DEF RecordApplied
  <2>5. CASE Abort(q)
    <3>1. T!SourceMissing(q) \/ T!Stop(q) => at'[q] = "idle"
      BY DEF T!SourceMissing, T!Stop, T!Leave, TrashTyped
    <3>2. QED
      BY <2>1, <2>5, <3>1 DEF Abort, Bound
  <2> USE DEF Bound, TheBody, TrashTyped, T!Goto, approvalVars, Moving, Restoring, Purging
  <2>6. ASSUME NEW x \in Path, NEW i \in Item, BeginMove(q, x, i) PROVE Bound(q)'
    BY <1>1, <2>6 DEF BeginMove, Running, T!MoveCheck, Kinds
  <2>7. ASSUME NEW i \in Item, BeginRestore(q, i) PROVE Bound(q)'
    BY <1>1, <2>7 DEF BeginRestore, Running, T!RestoreSelect, Kinds
  <2>8. CASE BeginPurge(q)
    BY <1>1, <2>8 DEF BeginPurge, T!PurgeSelect, Kinds
  <2>9. CASE Work(q)
    <3>1. UNCHANGED <<approvalVars, command>> /\ T!Continue(q) /\ Bound(q)
      BY <1>1, <2>9 DEF Work
    <3> HIDE DEF Bound
    <3> USE DEF T!Leave
    <3>2. ASSUME T!MoveAudit(q) \/ T!RestoreAudit(q) \/ T!PurgeAudit(q) \/ T!SourceMissing(q)
          PROVE  Bound(q)'
      BY <3>2 DEF Bound, T!MoveAudit, T!RestoreAudit, T!PurgeAudit, T!SourceMissing
    <3>3. ASSUME T!MoveFile(q) \/ T!MoveInsert(q)
          PROVE  Bound(q)'
      BY <3>1, <3>3 DEF Bound, T!MoveFile, T!MoveInsert
    <3>4. ASSUME T!RestoreChoose(q) \/ T!RestoreFile(q) \/ T!RestoreUpdate(q)
          PROVE  Bound(q)'
      BY <3>1, <3>4 DEF Bound, T!RestoreChoose, T!RestoreFile, T!RestoreUpdate
    <3>5. ASSUME NEW i \in Item, T!PurgeUnlink(q, i)
          PROVE  Bound(q)'
      BY <3>1, <3>5 DEF Bound, T!PurgeUnlink
    <3>6. ASSUME T!PurgeUpdate(q) \/ T!PurgeCommit(q)
          PROVE  Bound(q)'
      BY <3>1, <3>6 DEF Bound, T!PurgeUpdate, T!PurgeCommit
    <3>7. QED
      BY <3>1, <3>2, <3>3, <3>4, <3>5, <3>6 DEF T!Continue
  <2>10. QED
    BY <1>3, <2>2, <2>3, <2>4, <2>5, <2>6, <2>7, <2>8, <2>9 DEF Step
<1>4. ASSUME UNCHANGED <<approvalVars, command>>, UNCHANGED <<at, item, path, batch, todo, done>>
      PROVE  Bound(q)'
  BY <1>1, <1>4 DEF Bound, TheBody, approvalVars
<1>5. QED
  BY <1>2, <1>3, <1>4 DEF Next, UserCreate, T!UserCreate, T!locals, vars, trashVars

(* How rows of the trash come to be: the INSERT of a move that some        *)
(* process has come to, under the token it holds; then they stay, and so   *)
(* do their path and what they cite.                                       *)
LEMMA RowsAndCitations ==
  ASSUME PlanInv, TrashTyped, [Next]_vars, NEW i \in Item
  PROVE  /\ trashRows[i] # NoRow =>
              /\ trashRows'[i] # NoRow /\ trashRows'[i].path = trashRows[i].path
              /\ citing'[i] = citing[i]
         /\ trashRows[i] = NoRow /\ trashRows'[i] # NoRow =>
              \E p \in Process : /\ at[p] = "moved" /\ item[p] = i
                                 /\ trashRows'[i].path = path[p] /\ citing'[i] = token[p]
<1>1. [TP!Next]_(TP!vars) /\ TP!TrashInv
  BY NextTrash, SameTrash DEF PlanInv, ListedInv
<1>2. trashRows[i] # NoRow => trashRows'[i] # NoRow
  BY <1>1, TP!RowsStay, TrashAssumption, TrashNoRow
<1>3. trashRows'[i] # trashRows[i] =>
        \/ \E p \in Process : TP!MoveInsert(p) /\ item[p] = i
        \/ trashRows[i] # NoRow /\ trashRows'[i].path = trashRows[i].path
  BY <1>1, TP!RowsAreWritten, TrashAssumption, TrashNoRow
<1>4. ASSUME trashRows[i] # NoRow PROVE citing'[i] = citing[i]
  <2>1. ASSUME NEW p \in Process, Work(p) PROVE citing'[i] = citing[i]
    BY <1>4, <2>1 DEF Work, TrashTyped, PlanInv, TypedCommands, Moving
  <2>2. QED
    BY <2>1
    DEF Next, Step, CleanupPlan, Load, RestorePlan, PurgePlan, Confirm, StoreToken, Verify,
        Granted, BeginMove, BeginRestore, BeginPurge, RecordApplied, Abort, UserCreate, vars
<1>5. ASSUME NEW p \in Process, TP!MoveInsert(p), item[p] = i
      PROVE  /\ trashRows[i] = NoRow /\ trashRows'[i].path = path[p] /\ citing'[i] = token[p]
             /\ at[p] = "moved" /\ at'[p] = "inserted"
  <2>1. /\ at[p] = "moved" /\ at' = [at EXCEPT ![p] = "inserted"]
        /\ trashRows' = [trashRows EXCEPT ![i] =
                           [path |-> path[p], restored |-> FALSE, purged |-> FALSE]]
    BY <1>5 DEF TP!MoveInsert, TP!Goto
  <2>2. trashRows[i] = NoRow /\ trashRows'[i].path = path[p] /\ at'[p] = "inserted"
    BY <1>5, <2>1 DEF TrashTyped
  <2>3. ASSUME NEW r \in Process, Step(r) PROVE Work(p)
    <3>1. r = p
      <4>1. CASE r # p
        <5>1. UNCHANGED Trash(p) BY <2>3, <4>1, TrashFrame
        <5>2. QED BY <2>1, <2>2, <5>1 DEF Trash
      <4>2. QED BY <4>1
    <3>2. trashVars' # trashVars /\ at[p] # "idle" /\ at'[p] # "idle"
      BY <2>1, <2>2 DEF trashVars
    <3>3. QED
      BY <2>3, <3>1, <3>2
      DEF Step, CleanupPlan, Load, RestorePlan, PurgePlan, Confirm, StoreToken, Verify, Granted,
          BeginMove, BeginRestore, BeginPurge, RecordApplied, Abort, T!MoveCheck,
          T!RestoreSelect, T!PurgeSelect, T!Goto, T!SourceMissing, T!Stop, T!Leave, TrashTyped
  <2>4. \E r \in Process : Step(r)
    <3>1. ~UNCHANGED at BY <2>1, <2>2
    <3>2. QED BY <3>1 DEF Next, UserCreate, T!UserCreate, T!locals, vars, trashVars
  <2>5. citing' = [citing EXCEPT ![i] = token[p]]
    BY <1>5, <2>1, <2>3, <2>4 DEF Work
  <2>6. QED
    BY <2>1, <2>2, <2>5 DEF PlanInv, TypedCommands
<1>6. QED
  BY <1>2, <1>3, <1>4, <1>5

(* A row cites the approval its move worked under, and approvals stay.     *)
LEMMA NextCites ==
  ASSUME PlanInv, EngineTyped, TrashTyped, [Next]_vars
  PROVE  RowsCiteTheirApproval'
<1> SUFFICES ASSUME NEW i \in Item, trashRows'[i] # NoRow
             PROVE  /\ citing'[i] \in ApprovalId /\ approvals'[citing'[i]] # NoRow
                    /\ approvals'[citing'[i]].consumed
                    /\ approvals'[citing'[i]].hash[2].kind = "trash"
                    /\ trashRows'[i].path \in approvals'[citing'[i]].hash[2].names
  BY DEF RowsCiteTheirApproval
<1>1. PICK a \in ApprovalId : /\ citing'[i] = a /\ approvals[a] # NoRow /\ approvals[a].consumed
                              /\ approvals[a].hash[2].kind = "trash"
                              /\ trashRows'[i].path \in approvals[a].hash[2].names
  <2>1. CASE trashRows[i] # NoRow
    BY <2>1, RowsAndCitations DEF PlanInv, RowsCiteTheirApproval
  <2>2. CASE trashRows[i] = NoRow
    <3>1. PICK p \in Process : /\ at[p] = "moved" /\ trashRows'[i].path = path[p]
                               /\ citing'[i] = token[p]
      BY <2>2, RowsAndCitations
    <3>2. Bound(p) /\ Kinds(p)
      BY DEF PlanInv
    <3>3. /\ pc[p] = "granted" /\ TheBody(p).kind = "trash" /\ path[p] \in TheBody(p).names
      BY <3>1, <3>2 DEF Bound, Kinds, Moving
    <3>4. QED
      BY <3>1, <3>3 DEF EngineTyped, TheBody
  <2>3. QED
    BY <2>1, <2>2
<1>2. QED
  BY <1>1, ApprovalsKeep DEF PlanInv

(* A file that an apply has moved has its row from then on.                *)
LEMMA MovedStays ==
  ASSUME PlanInv, TrashTyped, [Next]_vars, NEW x, NEW a, MovedBy(x, a)
  PROVE  MovedBy(x, a)'
BY RowsAndCitations DEF MovedBy

(* Each file of an applied plan is left, on its way, or has its row.       *)
LEMMA NextProgress ==
  ASSUME PlanInv, EngineTyped, TrashTyped, [Next]_vars, NEW q \in Process
  PROVE  Progress(q)'
<1> SUFFICES ASSUME command'[q] = "apply", pc'[q] = "granted", NEW x \in held'[q][2].names
             PROVE  \/ x \in left'[q] \/ (at'[q] \in {"checked", "moved"} /\ path'[q] = x)
                    \/ MovedBy(x, token[q])' 
  BY DEF Progress, TheBody
<1>1. Progress(q) /\ Bound(q) /\ Kinds(q) /\ TypedCommands BY DEF PlanInv
<1>2. ASSUME NEW p \in Process, Step(p), p # q
      PROVE  \/ x \in left'[q] \/ (at'[q] \in {"checked", "moved"} /\ path'[q] = x)
             \/ MovedBy(x, token[q])'
  <2>1. UNCHANGED Engine(q) /\ UNCHANGED Command(q) /\ UNCHANGED Trash(q)
    BY <1>1, <1>2, EngineFrame, CommandFrame, TrashFrame
  <2>2. QED
    BY <1>1, <2>1, MovedStays DEF Progress, TheBody, Engine, Command, Trash, MovedBy
<1>3. CASE Step(q)
  <2> USE DEF TrashTyped, EngineTyped, TypedCommands, A!Goto, A!Leave, A!tables, approvalVars
  <2>1. CASE Granted(q)
    BY <1>1, <2>1 DEF Granted, TheBody, A!AuditConsumed
  <2>2. ASSUME pc[q] # "granted" PROVE Granted(q)
    <3>1. ASSUME NEW n \in PlanId,
                 \/ \E b \in Body : CleanupPlan(q, n, b)
                 \/ \E c \in Commands : Load(q, n, c)
                 \/ \E i \in Item : RestorePlan(q, n, i)
                 \/ PurgePlan(q, n)
          PROVE  pc'[q] # "granted"
      BY <3>1 DEF CleanupPlan, Load, RestorePlan, PurgePlan, A!SavePlan, A!LoadPlan
    <3>2. ASSUME Confirm(q) \/ StoreToken(q) PROVE pc'[q] # "granted"
      BY <3>2 DEF Confirm, StoreToken, A!Approve, A!AuditCreated, A!KeepToken, A!TakeToken,
                  A!StoreToken
    <3>3. ASSUME Verify(q) PROVE pc'[q] # "granted"
      BY <3>3 DEF Verify, A!CheckClaims, A!SelectRow, A!ConsumeRow
    <3>4. ASSUME \/ \E y \in Path, i \in Item : BeginMove(q, y, i)
                 \/ \E i \in Item : BeginRestore(q, i)
                 \/ BeginPurge(q) \/ Work(q)
          PROVE  pc'[q] # "granted"
      BY <2>2, <3>4 DEF BeginMove, BeginRestore, BeginPurge, Work
    <3>5. ASSUME RecordApplied(q) \/ Abort(q) PROVE pc'[q] # "granted"
      BY <3>5 DEF RecordApplied, Abort, A!Exit
    <3> QED BY <1>3, <3>1, <3>2, <3>3, <3>4, <3>5 DEF Step
  <2>3. ASSUME pc[q] = "granted", ~Granted(q)
        PROVE  /\ UNCHANGED <<approvalVars, command>>
               /\ \/ \E y \in Path, i \in Item : BeginMove(q, y, i)
                  \/ Work(q) /\ UNCHANGED left
    BY <1>1, <1>3, <2>3
    DEF Step, CleanupPlan, Load, RestorePlan, PurgePlan, Confirm, StoreToken, Verify,
        BeginMove, BeginRestore, BeginPurge, Work, RecordApplied, Abort, Running,
        A!SavePlan, A!LoadPlan, A!Approve, A!AuditCreated, A!KeepToken, A!TakeToken,
        A!StoreToken, A!CheckClaims, A!SelectRow, A!ConsumeRow, A!Exit, Finish
  <2>4. ASSUME UNCHANGED <<approvalVars, command>>
        PROVE  \/ x \in left[q] \/ (at[q] \in {"checked", "moved"} /\ path[q] = x)
               \/ MovedBy(x, token[q])'
    <3>1. /\ held'[q] = held[q] /\ token'[q] = token[q] /\ command[q] = "apply"
          /\ pc[q] = "granted"
      BY <2>4
    <3>2. \/ x \in left[q] \/ (at[q] \in {"checked", "moved"} /\ path[q] = x)
          \/ MovedBy(x, token[q])
      BY <1>1, <3>1 DEF Progress, TheBody
    <3>3. ASSUME NEW i \in Item, trashRows[i] # NoRow, trashRows[i].path = x,
                 citing[i] = token[q]
          PROVE  MovedBy(x, token[q])'
      BY <3>1, <3>3, RowsAndCitations DEF MovedBy
    <3>4. QED
      BY <3>2, <3>3 DEF MovedBy
  <2>5. ASSUME NEW y \in Path, NEW i \in Item, BeginMove(q, y, i)
        PROVE  x \in left'[q] \/ (at'[q] \in {"checked", "moved"} /\ path'[q] = x)
               \/ MovedBy(x, token[q])'
    <3>1. /\ left' = [left EXCEPT ![q] = @ \ {y}] /\ at[q] = "idle"
          /\ at'[q] = "checked" /\ path'[q] = y
          /\ UNCHANGED <<approvalVars, command>>
      BY <2>5 DEF BeginMove, T!MoveCheck, T!Goto
    <3>2. QED
      BY <1>1, <2>4, <3>1
  <2>6. ASSUME Work(q), UNCHANGED left, UNCHANGED <<approvalVars, command>>
        PROVE  x \in left'[q] \/ (at'[q] \in {"checked", "moved"} /\ path'[q] = x)
               \/ MovedBy(x, token[q])'
    <3>1. CASE at[q] \in {"checked", "moved"} /\ path[q] = x
      <4>1. T!MoveFile(q) \/ T!MoveInsert(q)
        BY <2>6, <3>1
        DEF Work, T!Continue, T!Goto, T!MoveAudit, T!RestoreChoose, T!RestoreFile,
            T!RestoreUpdate, T!RestoreAudit, T!PurgeUnlink, T!PurgeUpdate, T!PurgeCommit,
            T!PurgeAudit
      <4>2. CASE T!MoveFile(q)
        BY <3>1, <4>2 DEF T!MoveFile, T!Goto
      <4>3. CASE T!MoveInsert(q)
        <5>1. /\ at[q] = "moved" /\ item[q] \in Item
              /\ trashRows' = [trashRows EXCEPT ![item[q]] =
                                 [path |-> x, restored |-> FALSE, purged |-> FALSE]]
          BY <3>1, <4>3 DEF T!MoveInsert, T!Goto, Moving
        <5>2. citing'[item[q]] = token[q]
          BY <1>1, <2>6, <5>1 DEF Work
        <5>3. [path |-> x, restored |-> FALSE, purged |-> FALSE] # NoRow
          <6>1. x \in Path BY <3>1 DEF Moving
          <6>2. [path |-> x, restored |-> FALSE, purged |-> FALSE] \in T!Row
            BY <6>1 DEF T!Row
          <6>3. QED BY <6>2, TrashAssumption
        <5>4. QED
          BY <2>6, <5>1, <5>2, <5>3 DEF MovedBy
      <4>4. QED
        BY <4>1, <4>2, <4>3
    <3>2. QED
      BY <2>4, <2>6, <3>1
  <2>7. QED
    <3>1. token'[q] = token[q]
      BY <2>2, <2>3 DEF Granted, A!AuditConsumed
    <3>2. CASE Granted(q)
      BY <2>1, <3>2
    <3>3. CASE ~Granted(q)
      BY <2>2, <2>3, <2>5, <2>6, <3>1, <3>3 DEF MovedBy
    <3>4. QED
      BY <3>2, <3>3
<1>4. ASSUME UNCHANGED <<approvalVars, command, left>>, UNCHANGED <<at, path>>
      PROVE  \/ x \in left'[q] \/ (at'[q] \in {"checked", "moved"} /\ path'[q] = x)
             \/ MovedBy(x, token[q])'
  BY <1>1, <1>4, MovedStays DEF Progress, TheBody, MovedBy, approvalVars
<1>5. QED
  BY <1>2, <1>3, <1>4 DEF Next, UserCreate, T!UserCreate, T!locals, vars, trashVars

(* A plan is recorded as applied when nothing is left of it.               *)
LEMMA NextApplied ==
  ASSUME PlanInv, EngineTyped, TrashTyped, [Next]_vars
  PROVE  AppliedMeansMoved'
<1>1. ASSUME NEW record \in applied'
      PROVE  \A x \in record[1][2].names : MovedBy(x, record[2])
  <2>1. CASE record \in applied
    BY <2>1 DEF PlanInv, AppliedMeansMoved, MovedBy
  <2>2. CASE record \notin applied
    <3>1. PICK p \in Process : RecordApplied(p) /\ record = <<held[p], token[p]>>
      BY <2>2
      DEF Next, Step, CleanupPlan, Load, RestorePlan, PurgePlan, Confirm, StoreToken, Verify,
          Granted, BeginMove, BeginRestore, BeginPurge, Work, RecordApplied, Abort, UserCreate,
          vars
    <3>2. Progress(p)
      BY DEF PlanInv
    <3>3. QED
      BY <3>1, <3>2 DEF RecordApplied, Running, Progress, TheBody
  <2>3. QED
    BY <2>1, <2>2
<1>2. ASSUME NEW record \in applied', NEW x \in record[1][2].names
      PROVE  \E i \in Item : trashRows'[i] # NoRow /\ trashRows'[i].path = x
                            /\ citing'[i] = record[2]
  BY <1>1, <1>2, MovedStays DEF MovedBy
<1>3. QED
  BY <1>2 DEF AppliedMeansMoved

-----------------------------------------------------------------------------
(* The invariant of the composition.                                       *)
(* Nobody is at work and nothing is on record.                             *)
LEMMA InitPlan == Init => PlanInv
<1> SUFFICES ASSUME Init PROVE PlanInv
  OBVIOUS
<1>1. ListedInv /\ EngineInv
  BY InitListed, InitEngine
<1>2. TypedCommands
  BY DEF Init, TypedCommands, Commands
<1>3. \A p \in Process : Kinds(p) /\ Bound(p) /\ Progress(p)
  BY DEF Init, A!Init, T!Init, Kinds, Bound, Progress
<1>4. RowsCiteTheirApproval /\ AppliedMeansMoved
  BY DEF Init, T!Init, RowsCiteTheirApproval, AppliedMeansMoved
<1>5. QED
  BY <1>1, <1>2, <1>3, <1>4 DEF PlanInv

(* Every step keeps the invariant.                                         *)
LEMMA NextPlan == PlanInv /\ [Next]_vars => PlanInv'
<1> SUFFICES ASSUME PlanInv, [Next]_vars PROVE PlanInv'
  OBVIOUS
<1>1. ListedInv /\ EngineInv /\ TypedCommands
  BY DEF PlanInv
<1>2. EngineTyped /\ TrashTyped
  BY <1>1, EngineTypes, TrashTypes
<1>3. ListedInv' /\ EngineInv' /\ TypedCommands'
  BY <1>1, <1>2, NextListed, NextEngine, NextTypedCommands
<1>4. \A p \in Process : Kinds(p)' /\ Bound(p)' /\ Progress(p)'
  BY <1>2, NextKinds, NextBound, NextProgress
<1>5. RowsCiteTheirApproval' /\ AppliedMeansMoved'
  BY <1>2, NextCites, NextApplied
<1>6. QED
  BY <1>3, <1>4, <1>5 DEF PlanInv

\* Every variable of the commands, the engine and the trash keeps its type
\* (TypeOK).
THEOREM CommandTypes == Spec => []TypeOK
<1>1. PlanInv => TypeOK
  <2> SUFFICES ASSUME PlanInv PROVE TypeOK
    OBVIOUS
  <2>1. AP!TypeOK => A!TypeOK
    BY DEF AP!TypeOK, A!TypeOK, AP!Row, A!Row, AP!Plan, A!Plan, AP!Location, A!Location,
        AP!Phrase, A!Phrase
  <2>2. TP!TypeOK => T!TypeOK
    BY DEF TP!TypeOK, T!TypeOK, TP!Row, T!Row, TP!Location, T!Location, TP!Action, T!Action
  <2>3. AP!TypeOK /\ TP!TypeOK
    BY DEF PlanInv, ListedInv, TP!TrashInv, EngineInv, AP!TrailInv, AP!Typed
  <2>4. QED
    BY <2>1, <2>2, <2>3 DEF PlanInv, ListedInv, TypedCommands, TypeOK
<1>2. QED
  BY <1>1, InitPlan, NextPlan, PTL DEF Spec

\* Whoever moves, restores or purges has verified and consumed an approval of a
\* plan that names exactly what it is changing, a purge one that was confirmed
\* with its own phrase (ActsWithinPlan): whatever other commands run, and
\* wherever commands are stopped.
THEOREM CommandsStayWithinPlan == Spec => []ActsWithinPlan
<1>1. PlanInv => ActsWithinPlan
  <2> SUFFICES ASSUME PlanInv, NEW p \in Process, at[p] # "idle"
               PROVE
                 /\ pc[p] = "granted" /\ approvals[token[p]].consumed
                 /\ at[p] \in {"checked", "moved", "inserted"} =>
                      Kind(p) = "trash" /\ path[p] \in Names(p)
                 /\ at[p] \in {"read", "toPath", "toAside", "restored", "updated"} =>
                      Kind(p) = "restore" /\ item[p] \in Names(p)
                 /\ at[p] \in {"purging", "unlinked", "committed"} =>
                      /\ Kind(p) = "purge"
                      /\ (todo[p] \cup done[p] \cup batch[p]) \subseteq Names(p)
                      /\ approvals[token[p]].phrase = "DELETE PERMANENTLY"
    BY DEF ActsWithinPlan
  <2>1. EngineTyped /\ Bound(p) /\ Kinds(p)
    BY EngineTypes DEF PlanInv
  <2>2. /\ pc[p] = "granted" /\ approvals[token[p]].consumed
        /\ Kind(p) = TheBody(p).kind /\ Names(p) = TheBody(p).names
        /\ approvals[token[p]].phrase = A!ConfirmationPhrase(TheBody(p))
        /\ TheBody(p) \in Body
    BY <2>1 DEF Bound, EngineTyped, Kind, Names, TheBody, A!Plan
  <2>3. at[p] \in Purging => A!ConfirmationPhrase(TheBody(p)) = "DELETE PERMANENTLY"
    BY <2>1, <2>2, BodyNames DEF Bound, A!ConfirmationPhrase, A!Irreversible
  <2>4. QED
    BY <2>1, <2>2, <2>3 DEF Bound, Kinds, Moving, Restoring, Purging
<1>2. QED
  BY <1>1, InitPlan, NextPlan, PTL DEF Spec

\* The approval a row of the trash cites was consumed for a plan that lists the
\* row's path (RowsCiteTheirApproval).
THEOREM RowsCite == Spec => []RowsCiteTheirApproval
<1>1. PlanInv => RowsCiteTheirApproval
  BY DEF PlanInv
<1>2. QED
  BY <1>1, InitPlan, NextPlan, PTL DEF Spec

\* What is recorded as applied was moved completely (AppliedMeansMoved).
THEOREM RecordsAreTrue == Spec => []AppliedMeansMoved
<1>1. PlanInv => AppliedMeansMoved
  BY DEF PlanInv
<1>2. QED
  BY <1>1, InitPlan, NextPlan, PTL DEF Spec

\* Only a process at work on a purge confirmed with its own phrase deletes a
\* file for good, and only one in an item that the purge names
\* (DeletionConfirmed).
THEOREM DeletionsAreConfirmed == Spec => DeletionConfirmed
<1>1. PlanInv /\ [Next]_vars =>
        [\A f \in purged' \ purged : \E p \in Process, i \in Item :
           /\ trash[i] = f /\ trash'[i] = NoFile
           /\ pc[p] = "granted" /\ i \in Names(p)
           /\ approvals[token[p]].phrase = "DELETE PERMANENTLY"]_vars
  <2> SUFFICES ASSUME PlanInv, Next, NEW f \in purged' \ purged
               PROVE  \E p \in Process, i \in Item :
                        /\ trash[i] = f /\ trash'[i] = NoFile
                        /\ pc[p] = "granted" /\ i \in Names(p)
                        /\ approvals[token[p]].phrase = "DELETE PERMANENTLY"
    OBVIOUS
  <2>1. EngineTyped /\ TrashTyped /\ trash \in [Item -> File \cup {NoFile}]
    BY EngineTypes, TrashTypes DEF PlanInv, ListedInv, TP!TrashInv, TP!TypeOK
  <2>2. PICK p \in Process, i \in Item : T!PurgeUnlink(p, i)
    <3>1. ASSUME NEW p \in Process, T!Continue(p)
          PROVE  \E i \in Item : T!PurgeUnlink(p, i)
      BY <3>1
      DEF T!files, T!Continue, T!MoveFile, T!MoveInsert, T!MoveAudit, T!RestoreChoose,
          T!RestoreFile, T!RestoreUpdate, T!RestoreAudit, T!SourceMissing, T!PurgeUpdate,
          T!PurgeCommit, T!PurgeAudit
    <3>2. ~UNCHANGED purged
      OBVIOUS
    <3>3. PICK p \in Process : Step(p)
      BY <3>2 DEF Next, UserCreate, T!UserCreate
    <3>4. T!Continue(p)
      BY <3>2, <3>3
      DEF Step, CleanupPlan, Load, RestorePlan, PurgePlan, Confirm, StoreToken, Verify,
          Granted, BeginMove, BeginRestore, BeginPurge, Work, RecordApplied, Abort,
          trashVars, T!files, T!MoveCheck, T!RestoreSelect, T!PurgeSelect, T!Stop,
          T!SourceMissing
    <3>5. QED
      BY <3>1, <3>4
  <2>3. trash[i] = f /\ trash'[i] = NoFile /\ at[p] = "purging" /\ i \in todo[p]
    BY <2>1, <2>2 DEF T!PurgeUnlink, T!Goto
  <2>4. Bound(p)
    BY DEF PlanInv
  <2>5. /\ pc[p] = "granted" /\ i \in TheBody(p).names /\ TheBody(p).kind = "purge"
        /\ TheBody(p).names # {}
    BY <2>3, <2>4 DEF Bound, Purging
  <2>6. /\ Names(p) = TheBody(p).names /\ TheBody(p) \in Body
        /\ approvals[token[p]].phrase = A!ConfirmationPhrase(TheBody(p))
    BY <2>1, <2>5 DEF EngineTyped, Names, TheBody, A!Plan
  <2>7. approvals[token[p]].phrase = "DELETE PERMANENTLY"
    BY <2>5, <2>6, BodyNames DEF A!ConfirmationPhrase, A!Irreversible
  <2>8. QED
    BY <2>3, <2>5, <2>6, <2>7
<1>2. QED
  BY <1>1, InitPlan, NextPlan, PTL DEF Spec, DeletionConfirmed
=============================================================================
