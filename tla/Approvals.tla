------------------------------ MODULE Approvals ------------------------------
(***************************************************************************)
(* The approval engine (approvals/engine.py, approvals/policy.py) as it is *)
(* used by concurrent command-line processes that share one SQLite file.   *)
(*                                                                         *)
(* A plan is saved, a person types a confirmation phrase, a signed token   *)
(* bound to the plan's hash is issued, and a later process verifies and    *)
(* consumes that token before it may change anything.  verify() runs its   *)
(* SELECT and its UPDATE as two statements: in sqlite3's default mode a    *)
(* SELECT opens no transaction, so another process may run between them.   *)
(* They are two actions here.                                              *)
(*                                                                         *)
(* Abstractions.  The signature is not modelled: the only tokens are those *)
(* approve() issued, and a token is named by its approval id.  plan_hash   *)
(* hashes a plan's id, session, mode, actions and description; it is taken *)
(* to be injective and is represented by the pair <<plan id, body>>.       *)
(***************************************************************************)
EXTENDS Integers, FiniteSets

CONSTANTS
  Process,      \* command-line processes, each running one command at a time
  PlanId,       \* uuids of plans
  Body,         \* contents of plans: what the hash covers beside the id
  RiskOf,       \* ActionPlan.risk of each body, RiskClass 0..3
  ApprovalId,   \* uuids of approvals; each is issued at most once
  Ttl,          \* the lifetimes that --ttl or the configuration may ask for
  MaxClock,     \* bound: the clock stops here
  NoBody, NoRow, NoPlan, NoToken  \* absent body, row, held plan, held token

Irreversible == 3
Plan   == PlanId \X Body          \* a plan's identity, and so its plan_hash
Phrase == {"APPROVE", "DELETE PERMANENTLY", "other"}

ASSUME ProcessAssumption == IsFiniteSet(Process)
ASSUME RiskAssumption == RiskOf \in [Body -> 0 .. 3]
ASSUME ClockAssumption == Ttl \subseteq Int /\ MaxClock \in Nat
ASSUME NullAssumption ==
  /\ NoBody \notin Body
  /\ NoPlan \notin Plan
  /\ NoToken \notin ApprovalId

VARIABLES
  plans,      \* table plans: the body stored under each id
  rows,       \* table approvals
  uses,       \* history: how many verifications consumed each approval
  audit,      \* table audit_events: the approval.created / consumed records
  tokenFile,  \* the tokens/<plan id>.token files
  copied,     \* tokens that ever were in such a file: a person may pass them on
  clock,      \* int(time.time())
  pc,         \* where each process is in its command
  held,       \* the plan a process loaded or created
  token,      \* the token it holds
  readAt      \* the `now` its running verify() read

vars == <<plans, rows, uses, audit, tokenFile, copied, clock, pc, held,
          token, readAt>>
tables == <<plans, rows, uses, audit, tokenFile, copied>>

(* A row of table approvals.  consumed is the column consumed_at IS NOT    *)
(* NULL; phrase is history: what the person typed for this row.            *)
Row == [hash : Plan, expires : Int, consumed : BOOLEAN, phrase : Phrase]
ASSUME NoRowAssumption == NoRow \notin Row

Location == {"idle", "loaded", "inserted", "approved", "holding", "peeking", "peeked",
             "claimed", "selected", "spent", "granted"}

Init ==
  /\ plans = [i \in PlanId |-> NoBody]
  /\ rows = [a \in ApprovalId |-> NoRow]
  /\ uses = [a \in ApprovalId |-> 0]
  /\ audit = {}
  /\ tokenFile = [i \in PlanId |-> NoToken]
  /\ copied = {}
  /\ clock = 0
  /\ pc = [p \in Process |-> "idle"]
  /\ held = [p \in Process |-> NoPlan]
  /\ token = [p \in Process |-> NoToken]
  /\ readAt = [p \in Process |-> 0]

-----------------------------------------------------------------------------
(* Control flow of one process.                                            *)

Goto(p, from, to) == pc[p] \in from /\ pc' = [pc EXCEPT ![p] = to]

(* The command ends, by success, by an exception or because the process is *)
(* killed: what it held in memory is gone, the tables stay.                *)
Leave(p) ==
  /\ pc' = [pc EXCEPT ![p] = "idle"]
  /\ held' = [held EXCEPT ![p] = NoPlan]
  /\ token' = [token EXCEPT ![p] = NoToken]
  /\ readAt' = [readAt EXCEPT ![p] = 0]

-----------------------------------------------------------------------------
(* Operations.                                                             *)

(* save_plan: INSERT OR REPLACE of a freshly created plan (a new uuid).    *)
SavePlan(p, i, b) ==
  /\ plans[i] = NoBody
  /\ Goto(p, {"idle"}, "loaded")
  /\ plans' = [plans EXCEPT ![i] = b]
  /\ held' = [held EXCEPT ![p] = <<i, b>>]
  /\ UNCHANGED <<rows, uses, audit, tokenFile, copied, clock, token, readAt>>

(* load_plan: the process keeps the body it read.                          *)
LoadPlan(p, i) ==
  /\ plans[i] # NoBody
  /\ Goto(p, {"idle"}, "loaded")
  /\ held' = [held EXCEPT ![p] = <<i, plans[i]>>]
  /\ UNCHANGED <<tables, clock, token, readAt>>

(* The stored body is edited behind the program's back between two of its  *)
(* reads: the case the "plan changed after approval" check exists for.     *)
EditPlan(i, b) ==
  /\ plans[i] \notin {NoBody, b}
  /\ plans' = [plans EXCEPT ![i] = b]
  /\ UNCHANGED <<rows, uses, audit, tokenFile, copied, clock, pc, held, token,
                 readAt>>

\* Mistake: one phrase for every risk.
OnePhraseForAll(b) == "APPROVE"

(* confirmation_phrase: what the person must type for a plan of this risk. *)
ConfirmationPhrase(b) ==
  IF RiskOf[b] = Irreversible THEN "DELETE PERMANENTLY" ELSE "APPROVE"

(* approve: the row is inserted for the held plan; the token exists only in *)
(* this process until the audit record is written and approve() returns it. *)
Approve(p, a, phrase, ttl) ==
  /\ rows[a] = NoRow
  /\ pc[p] = "loaded"
  /\ phrase = ConfirmationPhrase(held[p][2])
  /\ pc' = [pc EXCEPT ![p] = "inserted"]
  /\ rows' = [rows EXCEPT ![a] = [hash |-> held[p], expires |-> clock + ttl,
                                  consumed |-> FALSE, phrase |-> phrase]]
  /\ token' = [token EXCEPT ![p] = a]
  /\ UNCHANGED <<plans, uses, audit, tokenFile, copied, clock, held, readAt>>

(* The approval.created record, a transaction of its own.                  *)
AuditCreated(p) ==
  /\ Goto(p, {"inserted"}, "approved")
  /\ audit' = audit \cup {<<"approval.created", token[p]>>}
  /\ UNCHANGED <<plans, rows, uses, tokenFile, copied, clock, held, token, readAt>>

(* A phrase that does not match: PolicyError before anything is written.   *)
RefusePhrase(p, phrase) ==
  /\ pc[p] = "loaded"
  /\ phrase # ConfirmationPhrase(held[p][2])
  /\ Leave(p)
  /\ UNCHANGED <<tables, clock>>

\* Mistake: the plan's id is stored in the place of the token.
StoresPlanId(p) ==
  /\ pc[p] = "approved"
  /\ tokenFile' = [tokenFile EXCEPT ![held[p][1]] = held[p][1]]
  /\ copied' = copied \cup {token[p]}
  /\ Leave(p)
  /\ UNCHANGED <<plans, rows, uses, audit, clock>>

(* cleanup approve / backup approve: the token is written to the plan's    *)
(* file, over the token of an earlier approval, and the command ends.      *)
StoreToken(p) ==
  /\ pc[p] = "approved"
  /\ tokenFile' = [tokenFile EXCEPT ![held[p][1]] = token[p]]
  /\ copied' = copied \cup {token[p]}
  /\ Leave(p)
  /\ UNCHANGED <<plans, rows, uses, audit, clock>>

(* trash restore / trash purge --phrase: the same process goes on with it. *)
KeepToken(p) ==
  /\ Goto(p, {"approved"}, "holding")
  /\ UNCHANGED <<tables, clock, held, token, readAt>>

(* apply: the token comes from --token, else from the plan's token file.   *)
(* Both were in a token file at some time, perhaps another plan's.         *)
TakeToken(p, a) ==
  /\ a \in copied
  /\ Goto(p, {"loaded"}, "holding")
  /\ token' = [token EXCEPT ![p] = a]
  /\ UNCHANGED <<tables, clock, held, readAt>>

\* Mistake: the hash in the claims is not compared.
IgnoresHash(p) == ~(rows[token[p]].expires < clock)

(* verify, before its SELECT: `now` is read once; the claims in the token  *)
(* must carry the hash of the held plan and must not have expired.         *)
ClaimsHold(p) ==
  /\ rows[token[p]].hash = held[p]
  /\ ~(rows[token[p]].expires < clock)

CheckClaims(p, consume) ==
  /\ IF consume THEN Goto(p, {"holding", "peeked"}, "claimed")
                ELSE Goto(p, {"holding"}, "peeking")
  /\ ClaimsHold(p)
  /\ readAt' = [readAt EXCEPT ![p] = clock]
  /\ UNCHANGED <<tables, clock, held, token>>

\* Mistake: consumed_at is not looked at.
IgnoresConsumed(a) == rows[a] # NoRow

(* The SELECT of verify and the checks on the row it returns.              *)
RowUsable(a) == rows[a] # NoRow /\ ~rows[a].consumed

SelectRow(p) ==
  /\ \/ Goto(p, {"peeking"}, "peeked")
     \/ Goto(p, {"claimed"}, "selected")
  /\ RowUsable(token[p])
  /\ UNCHANGED <<tables, clock, held, token, readAt>>

(* Either check fails: PolicyError, the command ends.                      *)
RefuseToken(p) ==
  /\ \/ pc[p] \in {"holding", "peeked"} /\ ~ClaimsHold(p)
     \/ pc[p] \in {"peeking", "claimed"} /\ ~RowUsable(token[p])
  /\ Leave(p)
  /\ UNCHANGED <<tables, clock>>

\* Mistake: the UPDATE is forgotten.
ForgetsUpdate(p) ==
  /\ Goto(p, {"selected"}, "spent")
  /\ uses' = [uses EXCEPT ![token[p]] = @ + 1]
  /\ UNCHANGED <<plans, rows, audit, tokenFile, copied, clock, held, token, readAt>>

(* The UPDATE of verify: it names the row by id only, not by consumed_at.  *)
ConsumeRow(p) ==
  /\ Goto(p, {"selected"}, "spent")
  /\ rows' = [rows EXCEPT ![token[p]].consumed = TRUE]
  /\ uses' = [uses EXCEPT ![token[p]] = @ + 1]
  /\ UNCHANGED <<plans, audit, tokenFile, copied, clock, held, token, readAt>>

(* The approval.consumed record, a transaction of its own; then verify     *)
(* returns and the command does the work it was approved for.              *)
AuditConsumed(p) ==
  /\ Goto(p, {"spent"}, "granted")
  /\ audit' = audit \cup {<<"approval.consumed", token[p]>>}
  /\ UNCHANGED <<plans, rows, uses, tokenFile, copied, clock, held, token, readAt>>

(* The work is done, an exception ends the command, or the system kills it. *)
Exit(p) ==
  /\ pc[p] # "idle"
  /\ Leave(p)
  /\ UNCHANGED <<tables, clock>>

Tick ==
  /\ clock < MaxClock
  /\ clock' = clock + 1
  /\ UNCHANGED <<tables, pc, held, token, readAt>>

Command(p) ==
  \/ \E i \in PlanId, b \in Body : SavePlan(p, i, b)
  \/ \E i \in PlanId : LoadPlan(p, i)
  \/ \E a \in ApprovalId, phrase \in Phrase, ttl \in Ttl : Approve(p, a, phrase, ttl)
  \/ \E phrase \in Phrase : RefusePhrase(p, phrase)
  \/ AuditCreated(p)
  \/ StoreToken(p)
  \/ KeepToken(p)
  \/ \E a \in ApprovalId : TakeToken(p, a)
  \/ \E consume \in BOOLEAN : CheckClaims(p, consume)
  \/ SelectRow(p)
  \/ RefuseToken(p)
  \/ ConsumeRow(p)
  \/ AuditConsumed(p)
  \/ Exit(p)

Next ==
  \/ \E p \in Process : Command(p)
  \/ \E i \in PlanId, b \in Body : EditPlan(i, b)
  \/ Tick

Spec == Init /\ [][Next]_vars

-----------------------------------------------------------------------------
(* Properties.                                                             *)

\* Every variable has its type.
TypeOK ==
  /\ plans \in [PlanId -> Body \cup {NoBody}]
  /\ rows \in [ApprovalId -> Row \cup {NoRow}]
  /\ uses \in [ApprovalId -> Nat]
  /\ audit \subseteq ({"approval.created", "approval.consumed"} \X ApprovalId)
  /\ tokenFile \in [PlanId -> ApprovalId \cup {NoToken}]
  /\ copied \subseteq ApprovalId
  /\ clock \in Nat
  /\ pc \in [Process -> Location]
  /\ held \in [Process -> Plan \cup {NoPlan}]
  /\ token \in [Process -> ApprovalId \cup {NoToken}]
  /\ readAt \in [Process -> Nat]

\* A process that may mutate acts on exactly the plan the person confirmed with
\* the phrase its risk demands, and the approval had not expired when verify
\* read the clock: across edits of the stored plan, several approvals of one
\* plan, and tokens passed to the wrong plan (engine.py verify, lines 67-70).
Authorised == {"selected", "spent", "granted"}
GrantedAsApproved ==
  \A p \in Process : pc[p] \in Authorised =>
    /\ token[p] \in ApprovalId /\ rows[token[p]] # NoRow
    /\ rows[token[p]].hash = held[p]
    /\ readAt[p] <= rows[token[p]].expires
    /\ rows[token[p]].phrase = ConfirmationPhrase(held[p][2])

\* Whoever is at work left a complete trail: the approval's creation and its
\* consumption are both in audit_events and the row is marked consumed, so a
\* process killed anywhere earlier has changed nothing (engine.py lines 53-58,
\* 79-82).
WorkIsOnRecord ==
  \A p \in Process : pc[p] = "granted" =>
    /\ rows[token[p]].consumed
    /\ {<<"approval.created", token[p]>>, <<"approval.consumed", token[p]>>} \subseteq audit

\* How far the SELECT-then-UPDATE of verify can be raced: an approval serves at
\* most as many verifications as there are processes, because one that selects
\* the row after the first UPDATE is refused.  A process that retries a command
\* later never gets through again (engine.py lines 71-80).
Selected(a) == {p \in Process : pc[p] = "selected" /\ token[p] = a}
ReuseBound ==
  \A a \in ApprovalId : uses[a] + Cardinality(Selected(a)) <= Cardinality(Process)

\* An approval is consumed by at most one verification ("single-use", README.md
\* line 11).  True when commands run one at a time.
SingleUse == \A a \in ApprovalId : uses[a] <= 1
=============================================================================
