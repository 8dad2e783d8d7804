--------------------------- MODULE Approvals_proofs ---------------------------
(* Proofs about the approval engine, for every set of processes, plans and *)
(* approvals, every risk assignment and every lifetime.                    *)
EXTENDS Approvals, FiniteSetTheorems, TLAPS

(* What a process past a given point may rely on.                          *)
HasPlan(p) == pc[p] # "idle" => held[p] \in Plan
HasToken(p) ==
  pc[p] \notin {"idle", "loaded"} => token[p] \in ApprovalId /\ rows[token[p]] # NoRow
ClaimsChecked(p) ==
  pc[p] \in {"claimed", "selected", "spent", "granted"} =>
    rows[token[p]].hash = held[p] /\ readAt[p] <= rows[token[p]].expires

(* Tokens that left a process name rows.                                   *)
CopiedHaveRows == \A a \in copied : rows[a] # NoRow

-----------------------------------------------------------------------------
(* TypeOK needs HasPlan and HasToken, so the two are carried together.     *)
Typed == TypeOK /\ CopiedHaveRows /\ \A p \in Process : HasPlan(p) /\ HasToken(p)

(* Nothing is issued yet, so the strengthened typing holds.                *)
LEMMA InitTyped == Init => Typed
  BY NullAssumption, NoRowAssumption, ClockAssumption
  DEF Init, Typed, TypeOK, CopiedHaveRows, HasPlan, HasToken, Location

(* Only approve() and the UPDATE of verify() write table approvals.        *)
LEMMA RowWriters ==
  ASSUME [Next]_vars
  PROVE  \/ UNCHANGED rows
         \/ \E p \in Process, b \in ApprovalId, phrase \in Phrase, ttl \in Ttl :
              Approve(p, b, phrase, ttl)
         \/ \E p \in Process : ConsumeRow(p)
  BY DEF Next, Command, vars, tables, SavePlan, LoadPlan, RefusePhrase,
      AuditCreated, StoreToken, KeepToken, TakeToken, CheckClaims, SelectRow,
      RefuseToken, AuditConsumed, Exit, EditPlan, Tick

(* An approval row, once inserted, keeps its hash, expiry and phrase.      *)
LEMMA RowsKeep ==
  ASSUME TypeOK, [Next]_vars, NEW a \in ApprovalId, rows[a] # NoRow
  PROVE  /\ rows'[a] # NoRow
         /\ rows'[a].hash = rows[a].hash
         /\ rows'[a].expires = rows[a].expires
         /\ rows'[a].phrase = rows[a].phrase
         /\ rows[a].consumed => rows'[a].consumed
<1>1. CASE UNCHANGED rows
  BY <1>1
<1>2. ASSUME NEW p \in Process, NEW b \in ApprovalId, NEW phrase \in Phrase,
             NEW ttl \in Ttl, Approve(p, b, phrase, ttl)
      PROVE  UNCHANGED rows[a]
  BY <1>2 DEF Approve, TypeOK
<1>3. ASSUME NEW p \in Process, ConsumeRow(p)
      PROVE  rows' = [rows EXCEPT ![token[p]].consumed = TRUE]
  BY <1>3 DEF ConsumeRow
<1>4. ASSUME NEW t, rows' = [rows EXCEPT ![t].consumed = TRUE]
      PROVE  /\ rows'[a] # NoRow
             /\ rows'[a].hash = rows[a].hash
             /\ rows'[a].expires = rows[a].expires
             /\ rows'[a].phrase = rows[a].phrase
             /\ rows[a].consumed => rows'[a].consumed
  <2>1. rows[a] \in Row
    BY DEF TypeOK
  <2>2. CASE a = t
    <3>1. rows'[a] = [rows[a] EXCEPT !.consumed = TRUE]
      BY <1>4, <2>2 DEF TypeOK
    <3>2. rows'[a] \in Row
      BY <3>1, <2>1 DEF Row
    <3>3. QED
      BY <3>1, <3>2, <2>1, NoRowAssumption DEF Row
  <2>3. CASE a # t
    BY <1>4, <2>3 DEF TypeOK
  <2>4. QED
    BY <2>2, <2>3
<1>5. QED
  BY <1>1, <1>2, <1>3, <1>4, RowWriters

(* A command that ends leaves its process idle and every table as it was.  *)
LEMMA LeaveTyped ==
  ASSUME NEW p \in Process, Typed, Leave(p), UNCHANGED <<plans, rows, uses, audit, clock>>,
         tokenFile' \in [PlanId -> ApprovalId \cup {NoToken}],
         copied' \subseteq ApprovalId, \A a \in copied' : rows[a] # NoRow
  PROVE  Typed'
  BY DEF Typed, Leave, TypeOK, CopiedHaveRows, HasPlan, HasToken, Location

(* Every operation keeps the typing; those that end a command by           *)
(* LeaveTyped.                                                             *)
LEMMA NextTyped == Typed /\ [Next]_vars => Typed'
<1> SUFFICES ASSUME Typed, [Next]_vars PROVE Typed'
  OBVIOUS
<1> USE DEF Typed, TypeOK, CopiedHaveRows, HasPlan, HasToken, Location, Goto
<1>1. ASSUME NEW p \in Process, NEW i \in PlanId, NEW b \in Body, SavePlan(p, i, b)
      PROVE  Typed'
  BY <1>1 DEF SavePlan, Plan
<1>2. ASSUME NEW p \in Process, NEW i \in PlanId, LoadPlan(p, i)
      PROVE  Typed'
  BY <1>2 DEF LoadPlan, Plan, tables
<1>3. ASSUME NEW p \in Process, NEW a \in ApprovalId, NEW phrase \in Phrase,
             NEW ttl \in Ttl, Approve(p, a, phrase, ttl)
      PROVE  Typed'
  <2>1. [hash |-> held[p], expires |-> clock + ttl, consumed |-> FALSE,
         phrase |-> phrase] \in Row
    BY <1>3, ClockAssumption DEF Approve, Row
  <2>2. QED
    BY <1>3, <2>1, NoRowAssumption DEF Approve
<1>4. ASSUME NEW p \in Process, NEW phrase \in Phrase, RefusePhrase(p, phrase)
      PROVE  Typed'
  BY <1>4, LeaveTyped DEF RefusePhrase, tables
<1>5. ASSUME NEW p \in Process, AuditCreated(p)
      PROVE  Typed'
  BY <1>5 DEF AuditCreated
<1>6. ASSUME NEW p \in Process, StoreToken(p)
      PROVE  Typed'
  <2>1. held[p] \in Plan /\ token[p] \in ApprovalId /\ rows[token[p]] # NoRow
    BY <1>6 DEF StoreToken
  <2>2. QED
    BY <1>6, <2>1, LeaveTyped DEF StoreToken
<1>7. ASSUME NEW p \in Process, KeepToken(p)
      PROVE  Typed'
  BY <1>7 DEF KeepToken, tables
<1>8. ASSUME NEW p \in Process, NEW a \in ApprovalId, TakeToken(p, a)
      PROVE  Typed'
  BY <1>8 DEF TakeToken, tables
<1>9. ASSUME NEW p \in Process, NEW consume \in BOOLEAN, CheckClaims(p, consume)
      PROVE  Typed'
  BY <1>9 DEF CheckClaims, tables
<1>10. ASSUME NEW p \in Process, SelectRow(p)
       PROVE  Typed'
  BY <1>10 DEF SelectRow, tables
<1>11. ASSUME NEW p \in Process, RefuseToken(p)
       PROVE  Typed'
  BY <1>11, LeaveTyped DEF RefuseToken, tables
<1>12. ASSUME NEW p \in Process, ConsumeRow(p)
       PROVE  Typed'
  <2>1. rows' \in [ApprovalId -> Row \cup {NoRow}]
    <3>1. token[p] \in ApprovalId /\ rows[token[p]] \in Row
      BY <1>12 DEF ConsumeRow
    <3>2. [rows[token[p]] EXCEPT !.consumed = TRUE] \in Row
      BY <3>1 DEF Row
    <3>3. QED
      BY <1>12, <3>1, <3>2 DEF ConsumeRow
  <2>2. \A a \in ApprovalId : rows[a] # NoRow => rows'[a] # NoRow
    BY RowsKeep
  <2>3. QED
    BY <1>12, <2>1, <2>2 DEF ConsumeRow
<1>13. ASSUME NEW p \in Process, AuditConsumed(p)
       PROVE  Typed'
  BY <1>13 DEF AuditConsumed
<1>14. ASSUME NEW p \in Process, Exit(p)
       PROVE  Typed'
  BY <1>14, LeaveTyped DEF Exit, tables
<1>15. ASSUME NEW i \in PlanId, NEW b \in Body, EditPlan(i, b)
       PROVE  Typed'
  BY <1>15 DEF EditPlan
<1>16. CASE Tick
  BY <1>16, ClockAssumption DEF Tick, tables
<1>17. CASE UNCHANGED vars
  BY <1>17 DEF vars
<1>18. QED
  BY <1>1, <1>2, <1>3, <1>4, <1>5, <1>6, <1>7, <1>8, <1>9, <1>10, <1>11, <1>12,
     <1>13, <1>14, <1>15, <1>16, <1>17 DEF Next, Command

\* Type correctness of the approval engine and of the processes that use it,
\* for every constant (TypeOK of Approvals).
THEOREM TypeCorrect == Spec => []TypeOK
<1>1. Typed => TypeOK
  BY DEF Typed
<1>2. QED
  BY InitTyped, NextTyped, <1>1, PTL DEF Spec

(* A step moves the private state of one process at most.                  *)
LEMMA OneMoves ==
  ASSUME Typed, [Next]_vars, NEW q \in Process
  PROVE  \/ Command(q)
         \/ /\ pc'[q] = pc[q] /\ held'[q] = held[q]
            /\ token'[q] = token[q] /\ readAt'[q] = readAt[q]
<1>1. ASSUME NEW p \in Process, Command(p), p # q
      PROVE  /\ pc'[q] = pc[q] /\ held'[q] = held[q]
             /\ token'[q] = token[q] /\ readAt'[q] = readAt[q]
  BY <1>1 DEF Typed, TypeOK, Command, Goto, tables, Leave, SavePlan, LoadPlan, RefusePhrase,
      Approve, AuditCreated, StoreToken, KeepToken, TakeToken, CheckClaims, SelectRow,
      RefuseToken, ConsumeRow, AuditConsumed, Exit
<1>2. CASE \/ \E i \in PlanId, b \in Body : EditPlan(i, b)
           \/ Tick
           \/ UNCHANGED vars
  BY <1>2 DEF EditPlan, Tick, vars
<1>3. QED
  BY <1>1, <1>2 DEF Next

-----------------------------------------------------------------------------
(* What a token authorises is what was confirmed: every row was confirmed  *)
(* with its own plan's phrase, and a process past the claims check holds   *)
(* the plan of its row.                                                    *)
PhraseMatches == \A a \in ApprovalId : rows[a] # NoRow =>
                   rows[a].phrase = ConfirmationPhrase(rows[a].hash[2])
BindingInv == Typed /\ PhraseMatches /\ \A p \in Process : ClaimsChecked(p)

(* A command that is not past the claims check cannot break ClaimsChecked, *)
(* whatever else moves, because rows keep their hash and expiry.           *)
LEMMA ClaimsKept ==
  ASSUME BindingInv, [Next]_vars, NEW p \in Process,
         \/ pc'[p] \notin {"claimed", "selected", "spent", "granted"}
         \/ /\ pc[p] \in {"claimed", "selected", "spent", "granted"}
            /\ held'[p] = held[p] /\ token'[p] = token[p] /\ readAt'[p] = readAt[p]
  PROVE  ClaimsChecked(p)'
  BY RowsKeep DEF BindingInv, Typed, HasToken, ClaimsChecked

(* Only approve() inserts rows, and it demands the phrase of its plan.     *)
LEMMA NextPhraseMatches == BindingInv /\ [Next]_vars => PhraseMatches'
<1> SUFFICES ASSUME BindingInv, [Next]_vars, NEW a \in ApprovalId, rows'[a] # NoRow
             PROVE  rows'[a].phrase = ConfirmationPhrase(rows'[a].hash[2])
  BY DEF PhraseMatches, ConfirmationPhrase
<1>1. CASE rows[a] # NoRow
  BY <1>1, RowsKeep DEF BindingInv, Typed, PhraseMatches, ConfirmationPhrase
<1>2. CASE rows[a] = NoRow
  <2>1. ASSUME NEW p \in Process, NEW b \in ApprovalId, NEW phrase \in Phrase,
               NEW ttl \in Ttl, Approve(p, b, phrase, ttl)
        PROVE  rows'[a].phrase = ConfirmationPhrase(rows'[a].hash[2])
    BY <2>1, <1>2 DEF Approve, BindingInv, Typed, TypeOK, ConfirmationPhrase
  <2>2. ASSUME NEW p \in Process, ConsumeRow(p)
        PROVE  FALSE
    BY <2>2, <1>2 DEF ConsumeRow, BindingInv, Typed, TypeOK, HasToken, Goto
  <2>3. QED
    BY <2>1, <2>2, <1>2, RowWriters
<1>3. QED
  BY <1>1, <1>2

(* Only the claims check lets a process past it, and what it checked stays.*)
LEMMA NextClaims == BindingInv /\ [Next]_vars => \A q \in Process : ClaimsChecked(q)'
<1> SUFFICES ASSUME BindingInv, [Next]_vars, NEW q \in Process
             PROVE  ClaimsChecked(q)'
  OBVIOUS
<1> USE DEF BindingInv, Typed, TypeOK, Goto
<1>1. ASSUME NEW consume \in BOOLEAN, CheckClaims(q, consume)
      PROVE  ClaimsChecked(q)'
  <2>1. token[q] \in ApprovalId /\ rows[token[q]] \in Row /\ clock \in Nat
    BY <1>1 DEF CheckClaims, HasToken
  <2>2. rows[token[q]].hash = held[q] /\ clock <= rows[token[q]].expires
    BY <1>1, <2>1 DEF CheckClaims, ClaimsHold, Row
  <2>3. QED
    BY <1>1, <2>1, <2>2 DEF CheckClaims, ClaimsChecked, tables
<1>2. CASE ~\E consume \in BOOLEAN : CheckClaims(q, consume)
  <2>1. \/ pc'[q] \notin {"claimed", "selected", "spent", "granted"}
        \/ /\ pc[q] \in {"claimed", "selected", "spent", "granted"}
           /\ held'[q] = held[q] /\ token'[q] = token[q] /\ readAt'[q] = readAt[q]
    <3>1. CASE Command(q)
      BY <3>1, <1>2 DEF Command, tables, Leave, SavePlan, LoadPlan, RefusePhrase,
        Approve, AuditCreated, StoreToken, KeepToken, TakeToken, CheckClaims, SelectRow,
        RefuseToken, ConsumeRow, AuditConsumed, Exit
    <3>2. QED
      BY <3>1, OneMoves
  <2>2. QED
    BY <2>1, ClaimsKept
<1>3. QED
  BY <1>1, <1>2

(* Nothing has been confirmed yet.                                         *)
LEMMA InitBinding == Init => BindingInv
  BY InitTyped DEF Init, BindingInv, PhraseMatches, ClaimsChecked

(* Every step keeps what tokens are bound to.                              *)
LEMMA NextBinding == BindingInv /\ [Next]_vars => BindingInv'
  BY NextTyped, NextPhraseMatches, NextClaims DEF BindingInv

\* Whoever may mutate acts on exactly the plan that was confirmed with the
\* phrase its risk demands, under an approval not yet expired when verify read
\* the clock (GrantedAsApproved): for any number of processes, whatever edits of
\* stored plans and passing around of tokens happen in between.
THEOREM ApprovalBinding == Spec => []GrantedAsApproved
<1>1. BindingInv => GrantedAsApproved
  <2> SUFFICES ASSUME BindingInv, NEW p \in Process, pc[p] \in Authorised
               PROVE  /\ token[p] \in ApprovalId /\ rows[token[p]] # NoRow
                      /\ rows[token[p]].hash = held[p]
                      /\ readAt[p] <= rows[token[p]].expires
                      /\ rows[token[p]].phrase = ConfirmationPhrase(held[p][2])
    BY DEF GrantedAsApproved
  <2>1. token[p] \in ApprovalId /\ rows[token[p]] # NoRow
    BY DEF BindingInv, Typed, HasToken, Authorised
  <2>2. rows[token[p]].hash = held[p] /\ readAt[p] <= rows[token[p]].expires
    BY DEF BindingInv, ClaimsChecked, Authorised
  <2>3. QED
    BY <2>1, <2>2 DEF BindingInv, PhraseMatches
<1>2. QED
  BY InitBinding, NextBinding, <1>1, PTL DEF Spec

-----------------------------------------------------------------------------
(* The audit trail.                                                        *)
CreatedOnRecord(a) == <<"approval.created", a>> \in audit
TrailInv ==
  /\ Typed
  /\ \A a \in copied : CreatedOnRecord(a)
  /\ \A p \in Process :
       /\ pc[p] \notin {"idle", "loaded", "inserted"} => CreatedOnRecord(token[p])
       /\ pc[p] \in {"spent", "granted"} => rows[token[p]].consumed
       /\ pc[p] = "granted" => <<"approval.consumed", token[p]>> \in audit

(* Each record is written before the step that relies on it.               *)
LEMMA NextTrail == TrailInv /\ [Next]_vars => TrailInv'
<1> SUFFICES ASSUME TrailInv, [Next]_vars PROVE TrailInv'
  OBVIOUS
<1> USE DEF TrailInv, CreatedOnRecord, Goto
<1>1. Typed'
  BY NextTyped
<1>2. audit \subseteq audit'
  BY DEF Next, Command, vars, tables, Leave, SavePlan, LoadPlan, RefusePhrase,
      Approve, AuditCreated, StoreToken, KeepToken, TakeToken, CheckClaims, SelectRow,
      RefuseToken, ConsumeRow, AuditConsumed, Exit, EditPlan, Tick
<1>3. \A a \in copied' : a \in copied \/ \E p \in Process : StoreToken(p) /\ a = token[p]
  BY DEF Next, Command, vars, tables, Leave, SavePlan, LoadPlan, RefusePhrase,
      Approve, AuditCreated, StoreToken, KeepToken, TakeToken, CheckClaims, SelectRow,
      RefuseToken, ConsumeRow, AuditConsumed, Exit, EditPlan, Tick
<1>4. \A a \in copied' : CreatedOnRecord(a)'
  BY <1>2, <1>3 DEF StoreToken
<1>5. ASSUME NEW q \in Process
      PROVE  /\ pc'[q] \notin {"idle", "loaded", "inserted"} => CreatedOnRecord(token[q])'
             /\ pc'[q] = "granted" => <<"approval.consumed", token'[q]>> \in audit'
  <2>1. CASE Command(q)
    BY <2>1, <1>2 DEF Typed, TypeOK, Command, tables, Leave, SavePlan, LoadPlan, RefusePhrase,
        Approve, AuditCreated, StoreToken, KeepToken, TakeToken, CheckClaims, SelectRow,
        RefuseToken, ConsumeRow, AuditConsumed, Exit
  <2>2. QED
    BY <1>2, <2>1, OneMoves
<1>6. ASSUME NEW q \in Process, pc'[q] \in {"spent", "granted"}
      PROVE  rows'[token'[q]].consumed
  <2>0. ASSUME Command(q)
        PROVE  \/ pc[q] \in {"spent", "granted"} /\ token'[q] = token[q]
               \/ ConsumeRow(q)
    BY <2>0, <1>6 DEF Typed, TypeOK, Command, tables, Leave, SavePlan, LoadPlan, RefusePhrase,
        Approve, AuditCreated, StoreToken, KeepToken, TakeToken, CheckClaims, SelectRow,
        RefuseToken, ConsumeRow, AuditConsumed, Exit
  <2>1. CASE pc[q] \in {"spent", "granted"} /\ token'[q] = token[q]
    BY <2>1, RowsKeep DEF Typed, HasToken
  <2>2. CASE ~(pc[q] \in {"spent", "granted"} /\ token'[q] = token[q])
    <3>1. ConsumeRow(q)
      BY <2>2, <1>6, <2>0, OneMoves
    <3>2. token[q] \in ApprovalId /\ rows[token[q]] \in Row
      BY <3>1 DEF ConsumeRow, Typed, TypeOK, HasToken
    <3>3. rows'[token[q]] = [rows[token[q]] EXCEPT !.consumed = TRUE]
      BY <3>1, <3>2 DEF ConsumeRow, Typed, TypeOK
    <3>4. rows'[token[q]].consumed
      BY <3>2, <3>3 DEF Row
    <3>5. QED
      BY <3>1, <3>4 DEF ConsumeRow
  <2>3. QED
    BY <2>1, <2>2
<1>7. QED
  BY <1>1, <1>4, <1>5, <1>6

(* Nothing is on record, and nobody is at work.                            *)
LEMMA InitTrail == Init => TrailInv
  BY InitTyped DEF Init, TrailInv

\* Work is only ever done under an approval whose creation and consumption are
\* both in the audit trail (WorkIsOnRecord), wherever processes are killed.
THEOREM AuditTrail == Spec => []WorkIsOnRecord
<1>1. TrailInv => WorkIsOnRecord
  BY DEF TrailInv, WorkIsOnRecord, CreatedOnRecord
<1>2. QED
  BY InitTrail, NextTrail, <1>1, PTL DEF Spec

-----------------------------------------------------------------------------
(* How far the SELECT-then-UPDATE of verify can be raced.                  *)
Unconsumed(a) == rows[a] = NoRow \/ ~rows[a].consumed
ReuseInv ==
  /\ Typed
  /\ \A a \in ApprovalId : Unconsumed(a) => uses[a] = 0
  /\ ReuseBound

(* The processes in the window are finitely many, at most all of them.     *)
LEMMA SelectedFinite ==
  ASSUME NEW a
  PROVE  /\ IsFiniteSet(Selected(a)) /\ Cardinality(Selected(a)) \in Nat
         /\ Cardinality(Process) \in Nat
         /\ Cardinality(Selected(a)) <= Cardinality(Process)
         /\ Cardinality(Selected(a)') \in Nat
         /\ Cardinality(Selected(a)') <= Cardinality(Process)
<1>1. Selected(a) \subseteq Process /\ Selected(a)' \subseteq Process
  BY DEF Selected
<1>2. QED
  BY <1>1, ProcessAssumption, FS_Subset, FS_CardinalityType

(* Every step but the SELECT and the UPDATE of verify leaves the uses as   *)
(* they are and lets no process into the window between the two.           *)
LEMMA OtherSteps ==
  ASSUME Typed, [Next]_vars, NEW a \in ApprovalId,
         ~\E p \in Process : SelectRow(p) \/ ConsumeRow(p)
  PROVE  /\ uses'[a] = uses[a]
         /\ Selected(a)' \subseteq Selected(a)
         /\ Unconsumed(a)' => Unconsumed(a)
<1>1. uses' = uses
  BY DEF Next, Command, vars, tables, EditPlan, Tick, Leave, SavePlan, LoadPlan, RefusePhrase,
      Approve, AuditCreated, StoreToken, KeepToken, TakeToken, CheckClaims, SelectRow,
      RefuseToken, ConsumeRow, AuditConsumed, Exit
<1>2. ASSUME NEW q \in Process, q \in Selected(a)'
      PROVE  q \in Selected(a)
  <2>1. CASE Command(q)
    BY <2>1, <1>2 DEF Selected, Typed, TypeOK, Goto, Command, tables, Leave, SavePlan, LoadPlan, RefusePhrase,
        Approve, AuditCreated, StoreToken, KeepToken, TakeToken, CheckClaims, SelectRow,
        RefuseToken, ConsumeRow, AuditConsumed, Exit
  <2>2. QED
    BY <2>1, <1>2, OneMoves DEF Selected
<1>3. Unconsumed(a)' => Unconsumed(a)
  BY RowsKeep DEF Unconsumed, Typed
<1>4. QED
  BY <1>1, <1>2, <1>3 DEF Selected

(* A SELECT gets through only while nobody has used the approval; each     *)
(* UPDATE takes its process out of the window as it counts one use.        *)
LEMMA NextReuse == ReuseInv /\ [Next]_vars => ReuseInv'
<1> SUFFICES ASSUME ReuseInv, [Next]_vars PROVE ReuseInv'
  OBVIOUS
<1>1. Typed'
  BY NextTyped DEF ReuseInv
<1>2. SUFFICES ASSUME NEW a \in ApprovalId
               PROVE  /\ Unconsumed(a)' => uses'[a] = 0
                      /\ uses'[a] + Cardinality(Selected(a)') <= Cardinality(Process)
  BY <1>1 DEF ReuseInv, ReuseBound, Unconsumed, Selected
<1>3. /\ uses[a] \in Nat
      /\ Unconsumed(a) => uses[a] = 0
      /\ uses[a] + Cardinality(Selected(a)) <= Cardinality(Process)
  BY DEF ReuseInv, ReuseBound, Typed, TypeOK
<1>4. ASSUME NEW p \in Process, SelectRow(p)
      PROVE  /\ Unconsumed(a)' => uses'[a] = 0
             /\ uses'[a] + Cardinality(Selected(a)') <= Cardinality(Process)
  <2>1. uses' = uses /\ rows' = rows /\ token' = token
    BY <1>4 DEF SelectRow, tables
  <2>2. CASE Unconsumed(a)
    BY <2>1, <2>2, <1>3, SelectedFinite DEF Unconsumed
  <2>3. CASE ~Unconsumed(a)
    <3>1. token[p] # a
      BY <1>4, <2>3 DEF SelectRow, RowUsable, Unconsumed
    <3>2. Selected(a)' = Selected(a)
      BY <1>4, <2>1, <3>1 DEF SelectRow, Selected, Goto, ReuseInv, Typed, TypeOK
    <3>3. QED
      BY <2>1, <2>3, <3>2, <1>3 DEF Unconsumed
  <2>4. QED
    BY <2>2, <2>3
<1>5. ASSUME NEW p \in Process, ConsumeRow(p)
      PROVE  /\ Unconsumed(a)' => uses'[a] = 0
             /\ uses'[a] + Cardinality(Selected(a)') <= Cardinality(Process)
  <2>1. pc[p] = "selected" /\ token[p] \in ApprovalId /\ token' = token
    BY <1>5 DEF ConsumeRow, Goto, ReuseInv, Typed, HasToken
  <2>2. CASE token[p] = a
    <3>1. p \in Selected(a) /\ Selected(a)' = Selected(a) \ {p}
      BY <1>5, <2>1, <2>2 DEF ConsumeRow, Selected, Goto, ReuseInv, Typed, TypeOK
    <3>2. Cardinality(Selected(a)') = Cardinality(Selected(a)) - 1
      BY <3>1, SelectedFinite, FS_RemoveElement
    <3>3. uses'[a] = uses[a] + 1
      BY <1>5, <2>1, <2>2 DEF ConsumeRow, ReuseInv, Typed, TypeOK
    <3>4. ~Unconsumed(a)'
      <4>1. rows[a] \in Row
        BY <2>1, <2>2 DEF ReuseInv, Typed, TypeOK, HasToken
      <4>2. rows'[a] = [rows[a] EXCEPT !.consumed = TRUE]
        BY <1>5, <2>1, <2>2, <4>1 DEF ConsumeRow, ReuseInv, Typed, TypeOK
      <4>3. rows'[a] \in Row /\ rows'[a].consumed
        BY <4>1, <4>2 DEF Row
      <4>4. QED
        BY <4>3, NoRowAssumption DEF Unconsumed
    <3>5. QED
      BY <3>2, <3>3, <3>4, <1>3, SelectedFinite
  <2>3. CASE token[p] # a
    <3>1. Selected(a)' = Selected(a)
      BY <1>5, <2>1, <2>3 DEF ConsumeRow, Selected, Goto, ReuseInv, Typed, TypeOK
    <3>2. uses'[a] = uses[a] /\ rows'[a] = rows[a]
      BY <1>5, <2>1, <2>3 DEF ConsumeRow, ReuseInv, Typed, TypeOK
    <3>3. QED
      BY <3>1, <3>2, <1>3 DEF Unconsumed
  <2>4. QED
    BY <2>2, <2>3
<1>6. CASE ~\E p \in Process : SelectRow(p) \/ ConsumeRow(p)
  <2>1. /\ uses'[a] = uses[a]
        /\ Selected(a)' \subseteq Selected(a)
        /\ Unconsumed(a)' => Unconsumed(a)
    BY <1>6, OtherSteps DEF ReuseInv
  <2>2. Cardinality(Selected(a)') \in Nat /\ Cardinality(Selected(a)') <= Cardinality(Selected(a))
    BY <2>1, SelectedFinite, FS_Subset, FS_CardinalityType
  <2>3. QED
    BY <2>1, <2>2, <1>3, SelectedFinite
<1>7. QED
  BY <1>4, <1>5, <1>6

\* An approval serves at most as many verifications as there are processes, and
\* those still between SELECT and UPDATE count (ReuseBound).
THEOREM BoundedReuse == Spec => []ReuseBound
<1>1. Init => ReuseInv
  <2> SUFFICES ASSUME Init PROVE ReuseInv
    OBVIOUS
  <2>1. \A a \in ApprovalId : uses[a] = 0 /\ Cardinality(Selected(a)) <= Cardinality(Process)
    BY SelectedFinite DEF Init
  <2>2. QED
    BY <2>1, InitTyped, SelectedFinite DEF ReuseInv, ReuseBound
<1>2. ReuseInv => ReuseBound
  BY DEF ReuseInv
<1>3. QED
  BY <1>1, <1>2, NextReuse, PTL DEF Spec

\* When commands run one at a time an approval is single-use (SingleUse), for
\* any number of plans, approvals and retries.
THEOREM SequentialSingleUse ==
  ASSUME Cardinality(Process) = 1
  PROVE  Spec => []SingleUse
<1>1. TypeOK /\ ReuseBound => SingleUse
  <2> SUFFICES ASSUME TypeOK, ReuseBound, NEW a \in ApprovalId PROVE uses[a] <= 1
    BY DEF SingleUse
  <2>1. uses[a] \in Nat /\ uses[a] + Cardinality(Selected(a)) <= 1
    BY DEF TypeOK, ReuseBound
  <2>2. QED
    BY <2>1, SelectedFinite
<1>2. QED
  BY <1>1, TypeCorrect, BoundedReuse, PTL
=============================================================================
