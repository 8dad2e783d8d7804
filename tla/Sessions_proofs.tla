--------------------------- MODULE Sessions_proofs ---------------------------
(* Theorems about what is kept of runs and conversations, for every value  *)
(* of the constants: the event log of a run, the sessions in the database  *)
(* and the history file of the older chat.                                 *)
EXTENDS EventLog, ChatSessions, ClassicChat, Lemmas, SequenceTheorems, TLAPS

-----------------------------------------------------------------------------
(* EventLog: the record of a run holds for any number of invocations,      *)
(* events and signals.                                                     *)

Identity == Writer \X Nat

LogTyped ==
  /\ events \subseteq [sequence : Nat \ {0}, parent : Identity \cup {NoEvent}, event : Identity]
  /\ signals \in Seq(BOOLEAN)
  /\ stage \in [Writer -> {"idle", "check", "mark", "emit", "insert", "ended"}]
  /\ closing \in [Writer -> {"no", "cancelled", "failed"}]
  /\ chosen \in [Writer -> [sequence : Nat \ {0}, parent : Identity \cup {NoEvent}]]
  /\ picked = [w \in Writer |-> picked[w]]
  /\ position \in Nat

(* The log is a chain that starts at 1 and ends.                           *)
Linked ==
  \A r \in events : IF r.sequence = 1 THEN r.parent = NoEvent
                  ELSE \E p \in events : p.sequence = r.sequence - 1 /\ r.parent = p.event
Unforked == \A r, s \in events : r.sequence = s.sequence => r = s
NoGap == \A r \in events : \A n \in 1 .. r.sequence : \E s \in events : s.sequence = n
HasLast == \E m \in events : \A r \in events : r.sequence <= m.sequence

(* What append_event has chosen follows an event that is in the log.       *)
ChosenFollows ==
  \A w \in Writer : stage[w] = "insert" =>
    \E p \in events : chosen[w].sequence = p.sequence + 1 /\ chosen[w].parent = p.event

(* A reader has what is up to its position, and that is no later than the  *)
(* end of the log.                                                         *)
PolledAll == polled = {r \in events : r.sequence <= position}
PositionReached == position = 0 \/ \E r \in events : r.sequence = position

(* An invocation that took a signal goes to its end.                       *)
ClosedEnds == \A w \in Writer : closing[w] # "no" => stage[w] \in {"emit", "insert", "ended"}
Consumed ==
  \A i \in DOMAIN signals : signals[i] => \E w \in Writer : i \in picked[w] /\ closing[w] # "no"

LogInv ==
  /\ LogTyped
  /\ Linked /\ Unforked /\ NoGap /\ HasLast /\ ChosenFollows
  /\ PolledAll /\ PositionReached
  /\ ClosedEnds /\ Consumed

-----------------------------------------------------------------------------
(* The newest of a set of events that has a newest one.                    *)
LEMMA NewestIsLast ==
  ASSUME NEW R, \E m \in R : \A r \in R : r.sequence <= m.sequence
  PROVE  Newest(R) \in R /\ \A r \in R : r.sequence <= Newest(R).sequence
BY DEF Newest

LEMMA LogStarts == LogInit => LogInv
<1> SUFFICES ASSUME LogInit PROVE LogInv
  OBVIOUS
<1> USE DEF LogInit
<1>1. LogTyped
  BY WriterAssumption DEF LogTyped, Identity
<1>2. Linked /\ Unforked /\ HasLast /\ ChosenFollows
  BY DEF Linked, Unforked, HasLast, ChosenFollows
<1>3. NoGap
  BY DEF NoGap
<1>4. PolledAll /\ PositionReached /\ ClosedEnds /\ Consumed
  BY DEF PolledAll, PositionReached, ClosedEnds, Consumed
<1> QED
  BY <1>1, <1>2, <1>3, <1>4 DEF LogInv

(* What leaves the events and the reader alone keeps what is said of them. *)
LEMMA RowsUntouched ==
  ASSUME LogInv, UNCHANGED <<events, position, polled>>
  PROVE  /\ Linked' /\ Unforked' /\ NoGap' /\ HasLast'
         /\ PolledAll' /\ PositionReached'
BY DEF LogInv, Linked, Unforked, NoGap, HasLast, PolledAll, PositionReached

LEMMA InvokeKeeps == ASSUME LogInv, NEW w \in Writer, Invoke(w) PROVE LogInv'
<1> USE DEF LogInv, Invoke, Go
<1>1. LogTyped' /\ ChosenFollows' /\ ClosedEnds' /\ Consumed'
  BY DEF LogTyped, ChosenFollows, ClosedEnds, Consumed
<1> QED
  BY <1>1, RowsUntouched

LEMMA SignalKeeps == ASSUME LogInv, SignalCancel PROVE LogInv'
<1> USE DEF LogInv, SignalCancel
<1>1. LogTyped' /\ ChosenFollows' /\ ClosedEnds'
  BY DEF LogTyped, ChosenFollows, ClosedEnds
<1>2. Consumed'
  BY DEF LogTyped, Consumed
<1> QED
  BY <1>1, <1>2, RowsUntouched

LEMMA SelectSignalKeeps == ASSUME LogInv, NEW w \in Writer, SelectSignal(w) PROVE LogInv'
<1> USE DEF LogInv, SelectSignal, Go
<1>1. LogTyped'
  BY DEF LogTyped
<1>2. ChosenFollows' /\ ClosedEnds'
  BY DEF LogTyped, ChosenFollows, ClosedEnds
<1>3. Consumed'
  BY DEF LogTyped, Consumed, ClosedEnds
<1> QED
  BY <1>1, <1>2, <1>3, RowsUntouched

LEMMA MarkSignalKeeps == ASSUME LogInv, NEW w \in Writer, MarkSignal(w) PROVE LogInv'
<1> USE DEF LogInv, MarkSignal, Go
<1>1. LogTyped' /\ DOMAIN signals' = DOMAIN signals
  <2>1. signals' \in [1 .. Len(signals) -> BOOLEAN]
    BY DEF LogTyped
  <2>2. signals' \in Seq(BOOLEAN) /\ DOMAIN signals' = DOMAIN signals
    BY <2>1, IsASeq, LenProperties DEF LogTyped
  <2> QED
    BY <2>2 DEF LogTyped
<1>2. ChosenFollows' /\ ClosedEnds'
  BY DEF LogTyped, ChosenFollows, ClosedEnds
<1>3. Consumed'
  BY <1>1 DEF LogTyped, Consumed
<1> QED
  BY <1>1, <1>2, <1>3, RowsUntouched

LEMMA SelectLastKeeps == ASSUME LogInv, NEW w \in Writer, SelectLast(w) PROVE LogInv'
<1> USE DEF LogInv, SelectLast, Go
<1>1. Newest(events) \in events
  BY NewestIsLast DEF HasLast
<1>2. LogTyped'
  BY <1>1 DEF LogTyped
<1>3. ChosenFollows'
  BY <1>1 DEF LogTyped, ChosenFollows
<1>4. ClosedEnds' /\ Consumed'
  BY DEF LogTyped, ClosedEnds, Consumed
<1> QED
  BY <1>2, <1>3, <1>4, RowsUntouched

(* A row whose sequence is free goes to the end of the log, after what it  *)
(* was chosen to follow, and beyond every reader.                          *)
LEMMA InsertKeeps == ASSUME LogInv, NEW w \in Writer, Insert(w) PROVE LogInv'
<1> DEFINE new == RowOf(w)
<1>1. PICK p \in events : new.sequence = p.sequence + 1 /\ new.parent = p.event
  BY DEF LogInv, ChosenFollows, Insert, RowOf
<1>2. /\ events' = events \cup {new} /\ new.sequence \in Nat \ {0} /\ p.sequence \in Nat \ {0}
      /\ \A r \in events : r.sequence \in Nat \ {0} /\ r.sequence # new.sequence
  BY DEF LogInv, LogTyped, Insert, RowOf
<1>3. \A r \in events : r.sequence < new.sequence
  <2>1. SUFFICES ASSUME NEW r \in events, new.sequence < r.sequence PROVE FALSE
    BY <1>2
  <2>2. new.sequence \in 1 .. r.sequence
    BY <1>2, <2>1
  <2> QED
    BY <1>2, <2>2 DEF LogInv, NoGap
<1>4. LogTyped'
  <2>1. new \in [sequence : Nat \ {0}, parent : Identity \cup {NoEvent}, event : Identity]
    BY DEF LogInv, LogTyped, RowOf, Identity
  <2>2. stage' \in [Writer -> {"idle", "check", "mark", "emit", "insert", "ended"}]
    BY DEF LogInv, LogTyped, Insert, Emitted, Go
  <2> QED
    BY <1>2, <2>1, <2>2 DEF LogInv, LogTyped, Insert
<1>5. Linked'
  BY <1>1, <1>2 DEF LogInv, Linked
<1>6. Unforked'
  BY <1>2 DEF LogInv, Unforked
<1>7. NoGap'
  <2> SUFFICES ASSUME NEW r \in events', NEW n \in 1 .. r.sequence
               PROVE  \E s \in events' : s.sequence = n
    BY DEF NoGap
  <2>1. CASE r \in events
    BY <1>2, <2>1 DEF LogInv, NoGap
  <2>2. CASE r = new /\ n = new.sequence
    BY <1>2, <2>2
  <2>3. CASE r = new /\ n # new.sequence
    <3>1. n \in 1 .. p.sequence
      BY <1>1, <1>2, <2>3
    <3> QED
      BY <1>2, <3>1 DEF LogInv, NoGap
  <2> QED
    BY <1>2, <2>1, <2>2, <2>3
<1>8. HasLast'
  BY <1>2, <1>3 DEF HasLast
<1>9. ChosenFollows'
  BY <1>2 DEF LogInv, LogTyped, ChosenFollows, Insert, Emitted, Go
<1>10. PolledAll' /\ PositionReached'
  <2>1. UNCHANGED <<position, polled>> /\ position \in Nat
    BY DEF LogInv, LogTyped, Insert
  <2>2. position < new.sequence
    BY <1>2, <1>3 DEF LogInv, PositionReached
  <2> QED
    BY <1>2, <2>1, <2>2 DEF LogInv, PolledAll, PositionReached
<1>11. ClosedEnds' /\ Consumed'
  BY DEF LogInv, LogTyped, ClosedEnds, Consumed, Insert, Emitted, Go
<1> QED
  BY <1>4, <1>5, <1>6, <1>7, <1>8, <1>9, <1>10, <1>11 DEF LogInv

LEMMA InsertFailsKeeps == ASSUME LogInv, NEW w \in Writer, InsertFails(w) PROVE LogInv'
<1> USE DEF LogInv, InsertFails, Go
<1>1. LogTyped' /\ ChosenFollows'
  BY DEF LogTyped, ChosenFollows
<1>2. ClosedEnds' /\ Consumed'
  <2>1. \A v \in Writer : /\ closing[v] # "no" => closing'[v] # "no"
                          /\ closing'[v] # "no" => stage'[v] \in {"emit", "insert", "ended"}
    BY DEF LogTyped, ClosedEnds
  <2> QED
    BY <2>1 DEF LogTyped, ClosedEnds, Consumed
<1>3. UNCHANGED <<events, position, polled>>
  OBVIOUS
<1> QED
  BY <1>1, <1>2, <1>3, RowsUntouched

LEMMA PollKeeps == ASSUME LogInv, Poll PROVE LogInv'
<1> DEFINE fresh == {r \in events : r.sequence > position}
<1>1. /\ fresh # {} /\ polled' = polled \cup fresh /\ position' = Newest(fresh).sequence
      /\ UNCHANGED <<events, signals, stage, closing, chosen, picked>>
  BY DEF Poll
<1>2. position \in Nat /\ \A r \in events : r.sequence \in Nat
  BY DEF LogInv, LogTyped
<1>3. PICK m \in events : \A r \in events : r.sequence <= m.sequence
  BY DEF LogInv, HasLast
<1>4. m \in fresh
  BY <1>1, <1>2, <1>3
<1>5. Newest(fresh) \in fresh /\ \A r \in fresh : r.sequence <= Newest(fresh).sequence
  BY <1>3, <1>4, NewestIsLast
<1>6. LogTyped' /\ PositionReached'
  BY <1>1, <1>2, <1>5 DEF LogInv, LogTyped, PositionReached
<1>7. PolledAll'
  <2>1. Newest(fresh).sequence \in Nat /\ Newest(fresh).sequence > position
    BY <1>2, <1>5
  <2>2. ASSUME NEW r \in events PROVE r.sequence <= position'
    <3>1. CASE r \in fresh BY <1>1, <1>5, <3>1
    <3>2. CASE r \notin fresh BY <1>1, <1>2, <2>1, <3>2
    <3> QED BY <3>1, <3>2
  <2>3. polled = {r \in events : r.sequence <= position} BY DEF LogInv, PolledAll
  <2>4. polled' = events
    <3>1. \A r \in events : r \in polled \/ r \in fresh BY <1>2, <2>3
    <3>2. polled \subseteq events /\ fresh \subseteq events BY <2>3
    <3> HIDE DEF fresh
    <3> QED BY <1>1, <3>1, <3>2
  <2>5. events' = events BY <1>1
  <2> HIDE DEF fresh
  <2> QED BY <2>2, <2>4, <2>5 DEF PolledAll
<1>8. Linked' /\ Unforked' /\ NoGap' /\ HasLast' /\ ChosenFollows' /\ ClosedEnds' /\ Consumed'
  BY <1>1 DEF LogInv, Linked, Unforked, NoGap, HasLast, ChosenFollows, ClosedEnds, Consumed
<1> QED
  BY <1>6, <1>7, <1>8 DEF LogInv

LEMMA LogKeeps == LogInv /\ [LogNext]_logVars => LogInv'
<1> SUFFICES ASSUME LogInv, [LogNext]_logVars PROVE LogInv'
  OBVIOUS
<1>1. CASE UNCHANGED logVars
  BY <1>1 DEF logVars, LogInv, LogTyped, Linked, Unforked, NoGap, HasLast, ChosenFollows,
     PolledAll, PositionReached, ClosedEnds, Consumed
<1>2. CASE LogNext
  BY <1>2, InvokeKeeps, SignalKeeps, SelectSignalKeeps, MarkSignalKeeps, SelectLastKeeps,
     InsertKeeps, InsertFailsKeeps, PollKeeps DEF LogNext
<1> QED
  BY <1>1, <1>2

-----------------------------------------------------------------------------
(* However many invocations of one run are at work, and whatever fails:    *)
(* append_event builds one chain of events, list_events misses none, and   *)
(* whoever consumed a signal does not go on.                               *)
THEOREM RecordIsKept == LogSpec => []RecordHolds
<1>1. LogInv => RecordHolds
  BY DEF LogInv, RecordHolds, Linked, Unforked, PolledAll, Consumed
<1> QED
  BY <1>1, LogStarts, LogKeeps, PTL DEF LogSpec

-----------------------------------------------------------------------------
(* ChatSessions, for any number of texts and sessions and any limits.      *)

Ended == {"cancelled", "answer", "done", "raised"}

ChatTyped ==
  /\ place \in [Run -> {"new", "started", "turn", "check", "model", "result", "loaded",
                        "asked"} \cup Ended]
  /\ turns \in [Run -> Nat]

(* A run that is not among those that overlap works alone, and if its      *)
(* event was shown it is the active one.                                   *)
ByItself   == \A r \in Working : r \notin overlap => Working = {r}
OnShow  ==
  /\ \A r \in Working : r \in shown /\ r \notin overlap => active = r
  /\ \A r \in AppRun : r \in shown => place[r] # "new"

(* A cancelled run has its signal until it ends; one that began a turn     *)
(* after its signal has not begun another one.                             *)
Reached == \A r \in AppRun : r \in due => r \in signalled \/ place[r] \in Ended
Counted ==
  \A r \in AppRun :
    \/ turns[r] = 0
    \/ turns[r] = 1 /\ (place[r] \in Ended \/ (r \in signalled /\ place[r] \in {"turn", "check"})
                          \/ place[r] = "result")

CancelInv == ChatTyped /\ ByItself /\ OnShow /\ Reached /\ Counted

LEMMA CancelStart == ChatInit => CancelInv
BY RunAssumption DEF ChatInit, CancelInv, ChatTyped, ByItself, OnShow, Reached, Counted, Working,
     Run

LEMMA CancelTyped == CancelInv /\ [ChatNext]_chatVars => ChatTyped'
<1> SUFFICES ASSUME CancelInv, [ChatNext]_chatVars PROVE ChatTyped'
  OBVIOUS
<1>. ChatTyped BY DEF CancelInv
<1>. AppRun \subseteq Run /\ TermRun \subseteq Run BY DEF Run
<1> USE DEF ChatTyped, Put, Ended, cancel
<1>1. CASE UNCHANGED chatVars BY <1>1 DEF chatVars
<1>2. CASE OpenApp BY <1>2 DEF OpenApp
<1>3. CASE OpenTerm BY <1>3 DEF OpenTerm
<1>4. CASE ActionNewSession BY <1>4 DEF ActionNewSession
<1>5. CASE ActionCancelRun BY <1>5 DEF ActionCancelRun
<1>6. CASE CommandNew BY <1>6 DEF CommandNew
<1>7. CASE Clear BY <1>7 DEF Clear
<1>8. ASSUME NEW r \in AppRun, Submit(r) PROVE ChatTyped' BY <1>8 DEF Submit
<1>9. ASSUME NEW r \in AppRun, ReadHistory(r) PROVE ChatTyped' BY <1>9 DEF ReadHistory
<1>10. ASSUME NEW r \in AppRun, EmitEvent(r) PROVE ChatTyped' BY <1>10 DEF EmitEvent
<1>11. ASSUME NEW r \in AppRun, Check(r) PROVE ChatTyped' BY <1>11 DEF Check
<1>12. ASSUME NEW r \in AppRun, EndTurn(r) PROVE ChatTyped' BY <1>12 DEF EndTurn
<1>13. ASSUME NEW r \in AppRun, Result(r) PROVE ChatTyped' BY <1>13 DEF Result
<1>14. ASSUME NEW r \in AppRun, StoreAnswer(r) PROVE ChatTyped' BY <1>14 DEF StoreAnswer
<1>15. ASSUME NEW r \in AppRun, RunRaises(r) PROVE ChatTyped' BY <1>15 DEF RunRaises
<1>16. ASSUME NEW r \in TermRun, LoadContext(r) PROVE ChatTyped' BY <1>16 DEF LoadContext
<1>17. ASSUME NEW r \in TermRun, Ask(r) PROVE ChatTyped' BY <1>17 DEF Ask
<1>18. ASSUME NEW r \in TermRun, Answer(r) PROVE ChatTyped' BY <1>18 DEF Answer
<1> QED BY <1>1, <1>2, <1>3, <1>4, <1>5, <1>6, <1>7, <1>8, <1>9, <1>10, <1>11, <1>12,
         <1>13, <1>14, <1>15, <1>16, <1>17, <1>18 DEF ChatNext

(* The steps of the terminal chat do not touch the app's runs.             *)
LEMMA CancelKept ==
  ASSUME CancelInv, [ChatNext]_chatVars
  PROVE  ByItself' /\ OnShow' /\ Reached' /\ Counted'
<1>. ChatTyped /\ ByItself /\ OnShow /\ Reached /\ Counted BY DEF CancelInv
<1>. AppRun \subseteq Run /\ AppRun \cap TermRun = {} BY RunAssumption DEF Run
<1> USE DEF ChatTyped, ByItself, OnShow, Reached, Counted, Working, Put, Ended, cancel
<1>1. CASE UNCHANGED chatVars BY <1>1 DEF chatVars
<1>2. CASE OpenApp BY <1>2 DEF OpenApp
<1>3. CASE OpenTerm BY <1>3 DEF OpenTerm
<1>4. CASE ActionNewSession BY <1>4 DEF ActionNewSession
<1>5. CASE ActionCancelRun BY <1>5 DEF ActionCancelRun
<1>6. CASE CommandNew BY <1>6 DEF CommandNew
<1>7. CASE Clear BY <1>7 DEF Clear
<1>8. ASSUME NEW r \in AppRun, Submit(r) PROVE ByItself' /\ OnShow' /\ Reached' /\ Counted'
  <2>. /\ place[r] = "new" /\ place' = [place EXCEPT ![r] = "started"]
       /\ overlap' = IF Working = {} THEN overlap ELSE overlap \cup Working \cup {r}
       /\ UNCHANGED <<active, signalled, turns, due, shown>>
    BY <1>8 DEF Submit
  <2>1. Working' = Working \cup {r} OBVIOUS
  <2>2. ByItself'
    <3>1. CASE Working = {} BY <2>1, <3>1
    <3>2. CASE Working # {} BY <2>1, <3>2
    <3> QED BY <3>1, <3>2
  <2>3. OnShow'
    <3>1. r \notin shown OBVIOUS
    <3>2. overlap \subseteq overlap' OBVIOUS
    <3> QED BY <2>1, <3>1, <3>2
  <2>4. Reached' /\ Counted' OBVIOUS
  <2> QED BY <2>2, <2>3, <2>4
<1>9. ASSUME NEW r \in AppRun, ReadHistory(r) PROVE ByItself' /\ OnShow' /\ Reached' /\ Counted'
  BY <1>9 DEF ReadHistory
<1>10. ASSUME NEW r \in AppRun, EmitEvent(r) PROVE ByItself' /\ OnShow' /\ Reached' /\ Counted'
  BY <1>10 DEF EmitEvent, Seen
<1>11. ASSUME NEW r \in AppRun, Check(r) PROVE ByItself' /\ OnShow' /\ Reached' /\ Counted'
  <2>. /\ place[r] = "check" /\ \E p \in {"cancelled", "model"} : place' = [place EXCEPT ![r] = p]
       /\ UNCHANGED <<active, overlap, turns, due, shown>>
    BY <1>11 DEF Check
  <2>1. Working' = Working OBVIOUS
  <2>2. ByItself' /\ OnShow' BY <2>1
  <2>3. Reached' /\ Counted' BY <1>11 DEF Check
  <2> QED BY <2>2, <2>3
<1>12. ASSUME NEW r \in AppRun, EndTurn(r) PROVE ByItself' /\ OnShow' /\ Reached' /\ Counted'
  <2>. /\ place[r] = "model" /\ \E p \in {"turn", "result"} : place' = [place EXCEPT ![r] = p]
       /\ UNCHANGED <<active, overlap, signalled, due, shown>>
    BY <1>12 DEF EndTurn
  <2>1. Working' = Working OBVIOUS
  <2>2. ByItself' /\ OnShow' BY <2>1
  <2>3. Reached' OBVIOUS
  <2>4. Counted'
    <3>1. turns' = [turns EXCEPT ![r] = IF r \in signalled THEN @ + 1 ELSE @] BY <1>12 DEF EndTurn
    <3>2. turns[r] = 0 OBVIOUS
    <3> QED BY <3>1, <3>2
  <2> QED BY <2>2, <2>3, <2>4
<1>13. ASSUME NEW r \in AppRun, Result(r) PROVE ByItself' /\ OnShow' /\ Reached' /\ Counted'
  BY <1>13 DEF Result
<1>14. ASSUME NEW r \in AppRun, StoreAnswer(r) PROVE ByItself' /\ OnShow' /\ Reached' /\ Counted'
  BY <1>14 DEF StoreAnswer
<1>15. ASSUME NEW r \in AppRun, RunRaises(r) PROVE ByItself' /\ OnShow' /\ Reached' /\ Counted'
  BY <1>15 DEF RunRaises
<1>16. ASSUME NEW r \in TermRun, LoadContext(r) PROVE ByItself' /\ OnShow' /\ Reached' /\ Counted'
  BY <1>16 DEF LoadContext
<1>17. ASSUME NEW r \in TermRun, Ask(r) PROVE ByItself' /\ OnShow' /\ Reached' /\ Counted'
  BY <1>17 DEF Ask
<1>18. ASSUME NEW r \in TermRun, Answer(r) PROVE ByItself' /\ OnShow' /\ Reached' /\ Counted'
  BY <1>18 DEF Answer
<1> QED BY <1>1, <1>2, <1>3, <1>4, <1>5, <1>6, <1>7, <1>8, <1>9, <1>10, <1>11, <1>12,
         <1>13, <1>14, <1>15, <1>16, <1>17, <1>18 DEF ChatNext

(* Ctrl+C stops the run on the screen after at most one more model turn.   *)
THEOREM CancelReachesShownRun == ChatSpec => []CancelStopsShownRun
<1>1. CancelInv => CancelStopsShownRun
  BY DEF CancelInv, Reached, Counted, CancelStopsShownRun, Ended
<1>2. CancelInv /\ [ChatNext]_chatVars => CancelInv'
  BY CancelTyped, CancelKept DEF CancelInv
<1> QED BY CancelStart, <1>1, <1>2, PTL DEF ChatSpec

-----------------------------------------------------------------------------
(* ChatSessions: a conversation is kept, for any number of texts and       *)
(* sessions and any limits.                                                *)

Distinct(seq) == \A i, j \in DOMAIN seq : seq[i] = seq[j] => i = j

(* The first and the last messages of a session.                           *)
LEMMA LastOfParts ==
  ASSUME NEW X, NEW s, s \in Seq(X), NEW n, n \in Nat
  PROVE  /\ LastOf(s, n) \in Seq(X)
         /\ Len(LastOf(s, n)) = IF Len(s) > n THEN n ELSE Len(s)
         /\ \A k \in 1 .. Len(LastOf(s, n)) : LastOf(s, n)[k] = s[Len(s) - Len(LastOf(s, n)) + k]
<1>1. PICK l : l \in Nat /\ l = Len(s) BY LenProperties
<1>2. PICK a : a = IF l > n THEN l - n + 1 ELSE 1 OBVIOUS
<1>3. a \in Nat /\ a >= 1 /\ a <= l + 1 BY <1>1, <1>2
<1>4. LastOf(s, n) = SubSeq(s, a, l) BY <1>1, <1>2 DEF LastOf
<1>5. \A i \in a .. l : s[i] \in X
  <2>1. \A i \in 1 .. l : s[i] \in X BY <1>1, LenProperties
  <2> QED BY <1>1, <1>3, <2>1
<1>6. /\ SubSeq(s, a, l) \in Seq(X)
      /\ Len(SubSeq(s, a, l)) = IF a <= l THEN l - a + 1 ELSE 0
      /\ \A k \in 1 .. l - a + 1 : SubSeq(s, a, l)[k] = s[a + k - 1]
  BY <1>1, <1>3, <1>5, SubSeqProperties
<1>7. Len(SubSeq(s, a, l)) = l - a + 1 BY <1>1, <1>3, <1>6
<1>8. l - a + 1 = IF l > n THEN n ELSE l BY <1>1, <1>2
<1>9. \A k \in 1 .. l - a + 1 : a + k - 1 = l - (l - a + 1) + k BY <1>1, <1>3
<1> QED BY <1>1, <1>4, <1>6, <1>7, <1>8, <1>9

(* The same of a sequence that is known by another name.                   *)
IsLastOf(b, X, s, n) ==
  /\ b \in Seq(X) /\ Len(b) = IF Len(s) > n THEN n ELSE Len(s)
  /\ \A k \in 1 .. Len(b) : b[k] = s[Len(s) - Len(b) + k]
LEMMA LastOfKnown ==
  ASSUME NEW X, NEW s, s \in Seq(X), NEW n, n \in Nat
  PROVE  IsLastOf(LastOf(s, n), X, s, n)
BY LastOfParts DEF IsLastOf

LEMMA FirstOf ==
  ASSUME NEW X, NEW s, s \in Seq(X), NEW n, n \in Nat, n <= Len(s)
  PROVE  /\ SubSeq(s, 1, n) \in Seq(X) /\ Len(SubSeq(s, 1, n)) = n
         /\ \A k \in 1 .. n : SubSeq(s, 1, n)[k] = s[k]
<1>1. Len(s) \in Nat /\ \A i \in 1 .. Len(s) : s[i] \in X BY LenProperties
<1>2. \A i \in 1 .. n : s[i] \in X BY <1>1
<1> QED BY <1>2, SubSeqProperties

LEMMA FirstAndLast ==
  ASSUME NEW X, NEW s, s \in Seq(X), NEW n, n \in Nat, n <= Len(s)
  PROVE  s = SubSeq(s, 1, Len(s) - n) \o LastOf(s, n)
<1>1. PICK l : l \in Nat /\ l = Len(s) BY LenProperties
<1>2. PICK m : m = l - n /\ m \in Nat BY <1>1
<1>3. PICK a : a = SubSeq(s, 1, m) OBVIOUS
<1>4. PICK b : b = LastOf(s, n) OBVIOUS
<1>5. a \in Seq(X) /\ Len(a) = m /\ \A k \in 1 .. m : a[k] = s[k] BY <1>1, <1>2, <1>3, FirstOf
<1>6. b \in Seq(X) /\ Len(b) = n /\ \A k \in 1 .. n : b[k] = s[m + k]
  <2>1. /\ b \in Seq(X) /\ Len(b) = IF Len(s) > n THEN n ELSE Len(s)
        /\ \A k \in 1 .. Len(b) : b[k] = s[Len(s) - Len(b) + k]
    BY <1>4, LastOfParts
  <2>2. Len(b) = n BY <1>1, <2>1
  <2> QED BY <1>1, <1>2, <2>1, <2>2
<1>7. /\ a \o b \in Seq(X) /\ Len(a \o b) = m + n
      /\ \A i \in 1 .. m + n : (a \o b)[i] = IF i <= m THEN a[i] ELSE b[i - m]
  BY <1>5, <1>6, ConcatProperties
<1>8. ASSUME NEW i \in 1 .. l PROVE s[i] = (a \o b)[i]
  <2>1. i \in 1 .. m + n BY <1>1, <1>2
  <2>2. CASE i <= m BY <1>2, <1>5, <1>7, <2>1, <2>2
  <2>3. CASE ~(i <= m)
    <3>1. i - m \in 1 .. n /\ m + (i - m) = i BY <1>1, <1>2, <2>3
    <3> QED BY <1>6, <1>7, <2>1, <2>3, <3>1
  <2> QED BY <2>2, <2>3
<1>9. Len(a \o b) = l BY <1>1, <1>2, <1>7
<1>10. s = a \o b
  <2>1. PICK t : t = a \o b OBVIOUS
  <2>2. t \in Seq(X) /\ Len(s) = Len(t) /\ \A i \in 1 .. Len(s) : s[i] = t[i]
    BY <1>1, <1>7, <1>8, <1>9, <2>1
  <2> QED BY <2>1, <2>2, SeqEqual
<1> QED BY <1>1, <1>2, <1>3, <1>4, <1>10

(* What follows a sequence is a suffix of the two.                         *)
LEMMA SuffixOfConcat ==
  ASSUME NEW X, NEW a, a \in Seq(X), NEW b, b \in Seq(X)
  PROVE  IsSuffix(b, a \o b)
<1>1. PICK m, n : m \in Nat /\ n \in Nat /\ m = Len(a) /\ n = Len(b) BY LenProperties
<1>2. PICK c : c = a \o b OBVIOUS
<1>3. /\ c \in Seq(X) /\ Len(c) = m + n
      /\ \A i \in 1 .. m + n : c[i] = IF i <= m THEN a[i] ELSE b[i - m]
  BY <1>1, <1>2, ConcatProperties
<1>4. PICK p, q : p = Reverse(b) /\ q = Reverse(c) OBVIOUS
<1>5. p = [i \in 1 .. n |-> b[(n - i) + 1]] BY <1>1, <1>4 DEF Reverse
<1>6. q = [i \in 1 .. m + n |-> c[((m + n) - i) + 1]] BY <1>3, <1>4 DEF Reverse
<1>7. \A i \in 1 .. n : b[i] \in X BY <1>1, LenProperties
<1>8. \A i \in 1 .. m + n : c[i] \in X BY <1>3, LenProperties
<1>9. p \in Seq(X) /\ Len(p) = n
  <2>1. \A i \in 1 .. n : (n - i) + 1 \in 1 .. n BY <1>1
  <2>2. p \in [1 .. n -> X] BY <1>5, <1>7, <2>1
  <2> QED BY <1>1, <2>2
<1>10. q \in Seq(X) /\ Len(q) = m + n
  <2>1. \A i \in 1 .. m + n : ((m + n) - i) + 1 \in 1 .. m + n BY <1>1
  <2>2. q \in [1 .. m + n -> X] BY <1>6, <1>8, <2>1
  <2> QED BY <1>1, <2>2
<1>11. ASSUME NEW i \in 1 .. n PROVE p[i] = q[i]
  <2>1. i \in 1 .. m + n BY <1>1
  <2>2. p[i] = b[(n - i) + 1] /\ q[i] = c[((m + n) - i) + 1] BY <1>5, <1>6, <2>1
  <2>3. PICK k : k = ((m + n) - i) + 1 OBVIOUS
  <2>4. k \in 1 .. m + n /\ ~(k <= m) /\ k - m = (n - i) + 1 BY <1>1, <2>3
  <2>5. c[k] = b[k - m] BY <1>3, <2>4
  <2> QED BY <2>2, <2>3, <2>4, <2>5
<1>12. n <= m + n BY <1>1
<1>13. /\ SubSeq(p, 1, n) \in Seq(X) /\ Len(SubSeq(p, 1, n)) = n
       /\ \A k \in 1 .. n : SubSeq(p, 1, n)[k] = p[k]
  BY <1>1, <1>9, FirstOf
<1>14. /\ SubSeq(q, 1, n) \in Seq(X) /\ Len(SubSeq(q, 1, n)) = n
       /\ \A k \in 1 .. n : SubSeq(q, 1, n)[k] = q[k]
  BY <1>1, <1>10, <1>12, FirstOf
<1>15. SubSeq(p, 1, n) = SubSeq(q, 1, n)
  <2>1. PICK u, w : u = SubSeq(p, 1, n) /\ w = SubSeq(q, 1, n) OBVIOUS
  <2>2. u \in Seq(X) /\ w \in Seq(X) /\ Len(u) = Len(w) /\ \A i \in 1 .. Len(u) : u[i] = w[i]
    BY <1>11, <1>13, <1>14, <2>1
  <2> QED BY <2>1, <2>2, SeqEqual
<1>16. IsPrefix(p, q) BY <1>9, <1>10, <1>12, <1>15 DEF IsPrefix
<1> QED BY <1>2, <1>4, <1>16 DEF IsSuffix

(* The history without the question that is its last message.              *)
LEMMA FrontOfLast ==
  ASSUME NEW X, NEW s, s \in Seq(X), s # <<>>, NEW n, n \in Nat \ {0}
  PROVE  /\ LastOf(s, n) # <<>>
         /\ Front(LastOf(s, n)) = LastOf(SubSeq(s, 1, Len(s) - 1), n - 1)
<1>1. PICK l : l \in Nat /\ l = Len(s) /\ l # 0 BY EmptySeq, LenProperties
<1>2. PICK k : k = l - 1 /\ k \in Nat BY <1>1
<1>3. PICK a : a = LastOf(s, n) OBVIOUS
<1>4. PICK b : b = SubSeq(s, 1, k) OBVIOUS
<1>5. PICK c : c = LastOf(b, n - 1) OBVIOUS
<1>6. /\ a \in Seq(X) /\ Len(a) = IF l > n THEN n ELSE l
      /\ \A i \in 1 .. Len(a) : a[i] = s[l - Len(a) + i]
  <2>1. n \in Nat OBVIOUS
  <2>2. /\ LastOf(s, n) \in Seq(X) /\ Len(LastOf(s, n)) = IF Len(s) > n THEN n ELSE Len(s)
        /\ \A i \in 1 .. Len(LastOf(s, n)) : LastOf(s, n)[i] = s[Len(s) - Len(LastOf(s, n)) + i]
    BY <2>1, LastOfParts
  <2> QED BY <1>1, <1>3, <2>2
<1>7. b \in Seq(X) /\ Len(b) = k /\ \A i \in 1 .. k : b[i] = s[i] BY <1>1, <1>2, <1>4, FirstOf
<1>8. /\ c \in Seq(X) /\ Len(c) = IF k > n - 1 THEN n - 1 ELSE k
      /\ \A i \in 1 .. Len(c) : c[i] = b[k - Len(c) + i]
  <2>1. PICK o : o = n - 1 /\ o \in Nat OBVIOUS
  <2>2. c = LastOf(b, o) BY <1>5, <2>1
  <2>3. b \in Seq(X) /\ o \in Nat BY <1>7, <2>1
  <2>4. IsLastOf(c, X, b, o) BY <2>2, <2>3, LastOfKnown
  <2> QED BY <1>7, <2>1, <2>4 DEF IsLastOf
<1>9. PICK m : m = Len(a) /\ m \in Nat /\ m >= 1 /\ m <= l BY <1>1, <1>6
<1>10. Len(c) = m - 1 /\ m - 1 \in Nat BY <1>1, <1>2, <1>6, <1>8, <1>9
<1>11. PICK f : f = Front(a) OBVIOUS
<1>12. f \in Seq(X) /\ Len(f) = m - 1 /\ \A i \in 1 .. m - 1 : f[i] = a[i]
  <2>1. f = SubSeq(a, 1, m - 1) BY <1>9, <1>11 DEF Front
  <2>2. m - 1 <= Len(a) BY <1>9
  <2> QED BY <1>6, <1>10, <2>1, <2>2, FirstOf
<1>13. ASSUME NEW i \in 1 .. m - 1 PROVE f[i] = c[i]
  <2>1. i \in 1 .. m /\ l - m + i \in 1 .. k /\ k - (m - 1) + i = l - m + i BY <1>1, <1>2, <1>9
  <2>2. a[i] = s[l - m + i] BY <1>6, <1>9, <2>1
  <2>3. c[i] = b[l - m + i] BY <1>8, <1>10, <2>1
  <2> QED BY <1>7, <1>12, <2>1, <2>2, <2>3
<1>14. f = c BY <1>8, <1>10, <1>12, <1>13, SeqEqual
<1>15. a # <<>> BY <1>9
<1> QED BY <1>1, <1>2, <1>3, <1>4, <1>5, <1>11, <1>14, <1>15

-----------------------------------------------------------------------------
(* What the terminal chat sends to its model of the messages `before`.     *)
Dropped(before, sent, i) == {j \in DOMAIN before : j > i /\ before[j] \notin sent}
Fits(sending, before, summed) ==
  /\ sending = Among(before, ToSet(sending))
  /\ IsSuffix(LastOf(before, TailMessages), sending)
  /\ \A i \in DOMAIN before : before[i] \notin ToSet(sending) =>
       /\ before[i].run \notin Naming
       /\ \/ before[i] \in summed
          \/ Cardinality(Dropped(before, ToSet(sending), i)) >= MaxFacts

LEMMA LimitsKnown ==
  /\ AppLimit \in Nat \ {0} /\ TermLimit \in Nat \ {0} /\ MaxMessages \in Nat \ {0}
  /\ TailMessages \in Nat \ {0} /\ MaxFacts \in Nat \ {0} /\ MaxSessions \in Nat \ {0}
  /\ TailMessages <= MaxMessages
BY RunAssumption

LEMMA ToSetParts ==
  ASSUME NEW X, NEW a, a \in Seq(X), NEW b, b \in Seq(X)
  PROVE  ToSet(a \o b) = ToSet(a) \cup ToSet(b)
<1>1. PICK m, n : m \in Nat /\ n \in Nat /\ m = Len(a) /\ n = Len(b) BY LenProperties
<1>2. PICK c : c = a \o b OBVIOUS
<1>3. /\ c \in Seq(X) /\ Len(c) = m + n
      /\ \A i \in 1 .. m + n : c[i] = IF i <= m THEN a[i] ELSE b[i - m]
  BY <1>1, <1>2, ConcatProperties
<1>4. DOMAIN a = 1 .. m /\ DOMAIN b = 1 .. n /\ DOMAIN c = 1 .. m + n
  BY <1>1, <1>3, LenProperties
<1>5. \A i \in 1 .. m : i \in 1 .. m + n /\ c[i] = a[i] BY <1>1, <1>3
<1>6. ASSUME NEW i \in 1 .. n PROVE m + i \in 1 .. m + n /\ c[m + i] = b[i]
  <2>1. PICK k : k = m + i /\ k \in 1 .. m + n /\ ~(k <= m) /\ k - m = i BY <1>1
  <2>2. c[k] = b[k - m] BY <1>3, <2>1
  <2> QED BY <2>1, <2>2
<1>7. ASSUME NEW i \in 1 .. m + n PROVE c[i] \in ToSet(a) \cup ToSet(b)
  <2>1. CASE i <= m
    <3>1. i \in 1 .. m BY <1>1, <2>1
    <3> QED BY <1>4, <1>5, <3>1 DEF ToSet
  <2>2. CASE ~(i <= m)
    <3>1. PICK k : k = i - m /\ k \in 1 .. n /\ m + k = i BY <1>1, <2>2
    <3> QED BY <1>4, <1>6, <3>1 DEF ToSet
  <2> QED BY <2>1, <2>2
<1>8. ToSet(c) \subseteq ToSet(a) \cup ToSet(b) BY <1>4, <1>7 DEF ToSet
<1>9. ToSet(a) \subseteq ToSet(c) BY <1>4, <1>5 DEF ToSet
<1>10. ToSet(b) \subseteq ToSet(c) BY <1>4, <1>6 DEF ToSet
<1> QED BY <1>2, <1>8, <1>9, <1>10

LEMMA WholeFits ==
  ASSUME NEW before, before \in Seq(Message), NEW summed
  PROVE  Fits(before, before, summed)
<1>1. PICK l : l \in Nat /\ l = Len(before) /\ DOMAIN before = 1 .. l BY LenProperties
<1>2. before = Among(before, ToSet(before)) BY AmongAll
<1>3. IsSuffix(LastOf(before, TailMessages), before)
  <2>1. PICK n : n = IF l > TailMessages THEN TailMessages ELSE l OBVIOUS
  <2>2. n \in Nat /\ n <= l BY <1>1, <2>1, LimitsKnown
  <2>3. LastOf(before, n) = LastOf(before, TailMessages)
    <3>1. CASE l > TailMessages BY <2>1, <3>1
    <3>2. CASE ~(l > TailMessages) BY <1>1, <2>1, <3>2 DEF LastOf
    <3> QED BY <3>1, <3>2
  <2>4. PICK a, b : a = SubSeq(before, 1, l - n) /\ b = LastOf(before, n) OBVIOUS
  <2>5. before = a \o b BY <1>1, <2>2, <2>4, FirstAndLast
  <2>6. a \in Seq(Message)
    <3>1. PICK k : k = l - n /\ k \in Nat /\ k <= Len(before) BY <1>1, <2>2
    <3>2. SubSeq(before, 1, k) \in Seq(Message) BY <3>1, FirstOf
    <3> QED BY <2>4, <3>1, <3>2
  <2>7. b \in Seq(Message) BY <2>2, <2>4, LastOfParts
  <2>8. IsSuffix(b, a \o b) BY <2>6, <2>7, SuffixOfConcat
  <2> QED BY <2>3, <2>4, <2>5, <2>8
<1>4. \A i \in DOMAIN before : before[i] \in ToSet(before) BY DEF ToSet
<1> QED BY <1>2, <1>3, <1>4 DEF Fits

LEMMA ContextFits ==
  ASSUME NEW before, before \in Seq(Message), Distinct(before), Len(before) > MaxMessages,
         NEW summed, ToSet(Facts(before)) \subseteq summed
  PROVE  Fits(Context(before), before, summed)
<1>1. PICK l : l \in Nat /\ l = Len(before) /\ DOMAIN before = 1 .. l BY LenProperties
<1>2. TailMessages \in Nat /\ TailMessages <= l /\ MaxFacts \in Nat BY <1>1, LimitsKnown
<1>3. PICK older, tail : older = Older(before) /\ tail = LastOf(before, TailMessages) OBVIOUS
<1>4. PICK m : m = l - TailMessages /\ m \in Nat /\ m <= l BY <1>1, <1>2
<1>5. older \in Seq(Message) /\ Len(older) = m /\ \A k \in 1 .. m : older[k] = before[k]
  <2>1. older = SubSeq(before, 1, m) BY <1>1, <1>3, <1>4 DEF Older
  <2> QED BY <1>1, <1>4, <2>1, FirstOf
<1>6. tail \in Seq(Message) BY <1>2, <1>3, LastOfParts
<1>7. before = older \o tail
  <2>1. before = SubSeq(before, 1, Len(before) - TailMessages) \o LastOf(before, TailMessages)
    BY <1>1, <1>2, FirstAndLast
  <2> QED BY <1>3, <2>1 DEF Older
<1>8. DOMAIN older = 1 .. m BY <1>5, LenProperties
<1>9. ASSUME NEW i \in 1 .. l PROVE i \in 1 .. m \/ before[i] \in ToSet(tail)
  <2>1. CASE i <= m BY <1>1, <1>4, <2>1
  <2>2. CASE ~(i <= m)
    <3>1. Len(tail) \in Nat /\ DOMAIN tail = 1 .. Len(tail) BY <1>6, LenProperties
    <3>2. l = m + Len(tail)
      <4>1. Len(older \o tail) = Len(older) + Len(tail) BY <1>5, <1>6, ConcatProperties
      <4> QED BY <1>1, <1>5, <1>7, <4>1
    <3>3. PICK k : k = i - m /\ k \in 1 .. Len(tail) BY <1>1, <1>4, <2>2, <3>1, <3>2
    <3>4. (older \o tail)[i] = tail[k]
      <4>1. i \in 1 .. Len(older) + Len(tail) BY <1>5, <3>1, <3>2
      <4>2. (older \o tail)[i] = IF i <= Len(older) THEN older[i] ELSE tail[i - Len(older)]
        BY <1>5, <1>6, <4>1, ConcatProperties
      <4> QED BY <1>5, <2>2, <3>3, <4>2
    <3> QED BY <1>7, <3>1, <3>3, <3>4 DEF ToSet
  <2> QED BY <2>1, <2>2
<1>10. ASSUME NEW i \in 1 .. m PROVE before[i] \notin ToSet(tail)
  <2> SUFFICES ASSUME before[i] \in ToSet(tail) PROVE FALSE OBVIOUS
  <2>1. PICK k \in DOMAIN tail : tail[k] = before[i] BY DEF ToSet
  <2>2. Len(tail) \in Nat /\ DOMAIN tail = 1 .. Len(tail) BY <1>6, LenProperties
  <2>3. l = m + Len(tail)
    <3>1. Len(older \o tail) = Len(older) + Len(tail) BY <1>5, <1>6, ConcatProperties
    <3> QED BY <1>1, <1>5, <1>7, <3>1
  <2>4. PICK j : j = m + k OBVIOUS
  <2>5. j \in 1 .. m + Len(tail) /\ ~(j <= m) /\ j - m = k /\ j \in 1 .. l
    <3>1. PICK n : n = Len(tail) /\ n \in Nat BY <2>2
    <3>2. k \in 1 .. n BY <2>1, <2>2, <3>1
    <3>3. l = m + n BY <2>3, <3>1
    <3>4. j \in 1 .. m + n /\ ~(j <= m) /\ j - m = k BY <1>4, <2>4, <3>1, <3>2
    <3> QED BY <3>1, <3>3, <3>4
  <2>6. (older \o tail)[j] = IF j <= Len(older) THEN older[j] ELSE tail[j - Len(older)]
    <3>1. j \in 1 .. Len(older) + Len(tail) BY <1>5, <2>5
    <3> QED BY <1>5, <1>6, <3>1, ConcatProperties
  <2>7. before[j] = before[i] BY <1>5, <1>7, <2>1, <2>5, <2>6
  <2>8. i \in 1 .. l /\ i # j BY <1>1, <1>4, <2>5
  <2> QED BY <1>1, <2>5, <2>7, <2>8 DEF Distinct
<1>11. ToSet(older) \cap ToSet(tail) = {} BY <1>5, <1>8, <1>10 DEF ToSet
<1>12. PICK kept, sent : /\ kept = Among(older, Protected)
                         /\ sent = ToSet(kept) \cup ToSet(tail)
  OBVIOUS
<1>13. kept \in Seq(Message) /\ ToSet(kept) = ToSet(older) \cap Protected
  BY <1>5, <1>12, AmongElements
<1>14. Context(before) = kept \o tail BY <1>3, <1>12 DEF Context
<1>15. ToSet(Context(before)) = sent BY <1>6, <1>12, <1>13, <1>14, ToSetParts
<1>16. Among(before, sent) = kept \o tail
  <2>1. Among(older \o tail, sent) = Among(older, sent) \o Among(tail, sent)
    BY <1>5, <1>6, AmongConcat
  <2>2. Among(tail, sent) = tail BY <1>6, <1>12, AmongAll
  <2>3. ToSet(older) \cap sent = ToSet(older) \cap Protected BY <1>11, <1>12, <1>13
  <2>4. Among(older, sent) = Among(older, Protected) BY <1>5, <2>3, AmongSame
  <2> QED BY <1>7, <1>12, <2>1, <2>2, <2>4
<1>17. IsSuffix(tail, kept \o tail) BY <1>6, <1>13, SuffixOfConcat
<1>18. ASSUME NEW i \in DOMAIN before, before[i] \notin sent
       PROVE  /\ before[i].run \notin Naming
              /\ before[i] \in summed \/ Cardinality(Dropped(before, sent, i)) >= MaxFacts
  <2>1. i \in 1 .. m /\ older[i] = before[i] BY <1>1, <1>5, <1>9, <1>12, <1>18
  <2>2. older[i] \in ToSet(older) /\ older[i] \in Message
    <3>1. older[i] \in Message BY <1>5, <2>1, LenProperties
    <3> QED BY <1>8, <2>1, <3>1 DEF ToSet
  <2>3. older[i] \notin Protected BY <1>12, <1>13, <1>18, <2>1, <2>2
  <2>4. before[i].run \notin Naming BY <2>1, <2>2, <2>3 DEF Protected
  <2>5. PICK rest, facts : rest = Message \ Protected /\ facts = Among(older, rest) OBVIOUS
  <2>6. PlacedAt(older, rest, i)
    <3>1. \A k \in 1 .. Len(older) : older[k] \in rest => PlacedAt(older, rest, k)
      BY <1>5, AmongPlaced
    <3> QED BY <1>5, <2>1, <2>2, <2>3, <2>5, <3>1
  <2>7. Later(older, rest, i) = Dropped(before, sent, i)
    <3>1. ASSUME NEW j \in 1 .. m PROVE older[j] \in rest <=> before[j] \notin sent
      <4>1. older[j] = before[j] /\ older[j] \in Message /\ older[j] \in ToSet(older)
        <5>1. older[j] \in Message BY <1>5, LenProperties
        <5> QED BY <1>5, <1>8, <5>1 DEF ToSet
      <4>2. before[j] \notin ToSet(tail) BY <1>10
      <4> QED BY <1>12, <1>13, <2>5, <4>1, <4>2
    <3>2. \A j \in 1 .. l : before[j] \notin sent => j \in 1 .. m BY <1>9, <1>12
    <3>3. \A j \in 1 .. m : j \in 1 .. l BY <1>1, <1>4
    <3> QED BY <1>1, <1>8, <3>1, <3>2, <3>3 DEF Later, Dropped
  <2>8. PICK k : k = Count(older, rest, i) /\ k \in Nat
    BY <2>6, FS_CardinalityType DEF PlacedAt, Count
  <2>9. CASE k >= MaxFacts BY <2>4, <2>7, <2>8, <2>9 DEF Count
  <2>10. CASE ~(k >= MaxFacts)
    <3>1. facts \in Seq(Message) BY <1>5, <2>5, AmongElements
    <3>2. PICK n : n = Len(facts) /\ n \in Nat BY <3>1, LenProperties
    <3>3. k < n /\ facts[n - k] = older[i] BY <2>5, <2>6, <2>8, <3>2 DEF PlacedAt
    <3>4. PICK last : last = LastOf(facts, MaxFacts) OBVIOUS
    <3>5. /\ last \in Seq(Message) /\ Len(last) = IF n > MaxFacts THEN MaxFacts ELSE n
          /\ \A j \in 1 .. Len(last) : last[j] = facts[n - Len(last) + j]
      <4>1. /\ LastOf(facts, MaxFacts) \in Seq(Message)
            /\ Len(LastOf(facts, MaxFacts)) = IF Len(facts) > MaxFacts THEN MaxFacts ELSE Len(facts)
            /\ \A j \in 1 .. Len(LastOf(facts, MaxFacts)) :
                 LastOf(facts, MaxFacts)[j] = facts[Len(facts) - Len(LastOf(facts, MaxFacts)) + j]
        BY <1>2, <3>1, LastOfParts
      <4> QED BY <3>2, <3>4, <4>1
    <3>6. PICK x : x = Len(last) /\ x \in Nat /\ k < x /\ DOMAIN last = 1 .. x
      <4>1. DOMAIN last = 1 .. Len(last) BY <3>5, LenProperties
      <4> QED BY <1>2, <2>8, <2>10, <3>2, <3>3, <3>5, <4>1
    <3>7. PICK j : j = x - k /\ j \in 1 .. x /\ n - x + j = n - k BY <2>8, <3>2, <3>6
    <3>8. last[j] = older[i] BY <3>3, <3>5, <3>6, <3>7
    <3>9. older[i] \in ToSet(last) BY <3>6, <3>7, <3>8 DEF ToSet
    <3>10. last = Facts(before) BY <1>3, <2>5, <3>4 DEF Facts
    <3> QED BY <2>1, <2>4, <3>9, <3>10
  <2> QED BY <2>9, <2>10
<1> QED BY <1>3, <1>14, <1>15, <1>16, <1>17, <1>18 DEF Fits

AppPlace == {"new", "started", "turn", "check", "model", "cancelled", "result", "answer",
             "done", "raised"}
TermPlace == {"new", "loaded", "asked", "done"}
OpenIn == Session \cup {0}

Without(loaded) == IF loaded = <<>> THEN loaded ELSE Front(loaded)

KeptTyped ==
  /\ recent \in Seq(Session) /\ appSession \in OpenIn /\ termSession \in OpenIn
  /\ messages \in [Session -> Seq(Message)] /\ summary \in [Session -> SUBSET Message]
  /\ place \in [Run -> AppPlace \cup TermPlace]
  /\ \A r \in AppRun : place[r] \in AppPlace
  /\ \A r \in TermRun : place[r] \in TermPlace
  /\ prompt \in [Run -> Seq(Message)]
  /\ home \in [Run -> OpenIn] /\ answered \in [Run -> OpenIn]

(* A message is stored once, a question when its run is under way, an      *)
(* answer when it is done.                                                 *)
Once == \A s \in Session : Distinct(messages[s])
Said ==
  \A s \in Session : \A m \in ToSet(messages[s]) :
    IF m.role = "user" THEN place[m.run] \notin {"new", "loaded"} ELSE place[m.run] = "done"

(* What run r sends follows from the messages before its question, `pl`    *)
(* being where the run is, and `left` the runs whose session the app has   *)
(* left.                                                                   *)
Question(r) == [run |-> r, role |-> "user"]
AskedAt(r, talk, summed, pl, sending, left, i) ==
  /\ pl = "started" => i = Len(talk)
  /\ r \in AppRun /\ pl \notin {"started", "raised"} /\ r \notin left =>
       sending = LastOf(SubSeq(talk, 1, i - 1), AppLimit - 1)
  /\ r \in TermRun => Fits(sending, LastOf(SubSeq(talk, 1, i - 1), TermLimit), summed)
Follows(r, talk, summed, pl, sending, left) ==
  /\ pl = "loaded" => Fits(sending, LastOf(talk, TermLimit), summed)
  /\ \A i \in DOMAIN talk : talk[i] = Question(r) =>
       AskedAt(r, talk, summed, pl, sending, left, i)

AtHome(r) ==
  /\ home[r] # 0 <=> place[r] # "new"
  /\ answered[r] # 0 => place[r] = "done" /\ (r \notin moved => answered[r] = home[r])
  /\ r \in AppRun /\ place[r] # "new" => appSession # 0
  /\ r \in Working /\ r \notin moved => home[r] = appSession
  /\ r \in TermRun /\ place[r] \in {"loaded", "asked"} => home[r] = termSession
InOrder(r) ==
  place[r] # "new" /\ r \notin mixed =>
    Follows(r, messages[home[r]], summary[home[r]], place[r], prompt[r], moved)

KeptInv ==
  /\ KeptTyped /\ Once /\ Said
  /\ \A r \in Run : AtHome(r) /\ InOrder(r)

LEMMA AskedMoves ==
  ASSUME NEW r, NEW talk, NEW summed, NEW pl, NEW to, NEW sending, NEW left, NEW i,
         AskedAt(r, talk, summed, pl, sending, left, i),
         to # "started", pl \in {"started", "raised"} => to = "raised"
  PROVE  AskedAt(r, talk, summed, to, sending, left, i)
BY DEF AskedAt

(* The run goes on.                                                        *)
LEMMA FollowsMoves ==
  ASSUME NEW r, NEW talk, NEW summed, NEW pl, NEW to, NEW sending, NEW left,
         Follows(r, talk, summed, pl, sending, left),
         to \notin {"started", "loaded"}, pl \in {"started", "raised"} => to = "raised"
  PROVE  Follows(r, talk, summed, to, sending, left)
<1> SUFFICES ASSUME NEW i \in DOMAIN talk, talk[i] = Question(r)
             PROVE  AskedAt(r, talk, summed, to, sending, left, i)
  BY DEF Follows
<1>1. AskedAt(r, talk, summed, pl, sending, left, i) BY DEF Follows
<1> QED BY <1>1, AskedMoves

(* The app leaves its session.                                             *)
LEMMA FollowsLeft ==
  ASSUME NEW r, NEW talk, NEW summed, NEW pl, NEW sending, NEW left, NEW gone,
         Follows(r, talk, summed, pl, sending, left), left \subseteq gone
  PROVE  Follows(r, talk, summed, pl, sending, gone)
<1> SUFFICES ASSUME NEW i \in DOMAIN talk, talk[i] = Question(r)
             PROVE  AskedAt(r, talk, summed, pl, sending, gone, i)
  BY DEF Follows
<1>1. AskedAt(r, talk, summed, pl, sending, left, i) BY DEF Follows
<1> QED BY <1>1 DEF AskedAt

LEMMA FollowsNothing ==
  ASSUME NEW r, NEW summed, NEW pl, pl # "loaded", NEW sending, NEW left
  PROVE  Follows(r, <<>>, summed, pl, sending, left)
<1>1. DOMAIN <<>> = {} BY EmptySeq
<1> QED BY <1>1 DEF Follows

(* More facts are in the summary.                                          *)
LEMMA FitsMore ==
  ASSUME NEW sending, NEW before, NEW summed, NEW more, summed \subseteq more,
         Fits(sending, before, summed)
  PROVE  Fits(sending, before, more)
BY DEF Fits

LEMMA FollowsMore ==
  ASSUME NEW r, NEW talk, NEW summed, NEW pl, NEW sending, NEW left, NEW more,
         Follows(r, talk, summed, pl, sending, left), summed \subseteq more
  PROVE  Follows(r, talk, more, pl, sending, left)
<1>1. pl = "loaded" => Fits(sending, LastOf(talk, TermLimit), more)
  <2> SUFFICES ASSUME pl = "loaded" PROVE Fits(sending, LastOf(talk, TermLimit), more) OBVIOUS
  <2>1. Fits(sending, LastOf(talk, TermLimit), summed) BY DEF Follows
  <2> QED BY <2>1, FitsMore
<1>2. ASSUME NEW i \in DOMAIN talk, talk[i] = Question(r)
      PROVE  AskedAt(r, talk, more, pl, sending, left, i)
  <2>1. AskedAt(r, talk, summed, pl, sending, left, i) BY <1>2 DEF Follows
  <2>2. r \in TermRun => Fits(sending, LastOf(SubSeq(talk, 1, i - 1), TermLimit), more)
    <3> SUFFICES ASSUME r \in TermRun
                 PROVE  Fits(sending, LastOf(SubSeq(talk, 1, i - 1), TermLimit), more)
      OBVIOUS
    <3>1. Fits(sending, LastOf(SubSeq(talk, 1, i - 1), TermLimit), summed) BY <2>1 DEF AskedAt
    <3> QED BY <3>1, FitsMore
  <2> QED BY <2>1, <2>2 DEF AskedAt
<1> QED BY <1>1, <1>2 DEF Follows

(* A message does not change those before it.                              *)
LEMMA BeforeAppend ==
  ASSUME NEW X, NEW s, s \in Seq(X), NEW e, e \in X, NEW n, n \in Nat, n <= Len(s)
  PROVE  SubSeq(Append(s, e), 1, n) = SubSeq(s, 1, n)
<1>1. PICK l : l \in Nat /\ l = Len(s) BY LenProperties
<1>2. PICK t : t = Append(s, e) OBVIOUS
<1>3. t \in Seq(X) /\ Len(t) = l + 1 /\ \A i \in 1 .. l : t[i] = s[i]
  BY <1>1, <1>2, AppendProperties
<1>4. n <= Len(t) BY <1>1, <1>3
<1>5. PICK a, b : a = SubSeq(t, 1, n) /\ b = SubSeq(s, 1, n) OBVIOUS
<1>6. a \in Seq(X) /\ Len(a) = n /\ \A k \in 1 .. n : a[k] = t[k] BY <1>3, <1>4, <1>5, FirstOf
<1>7. b \in Seq(X) /\ Len(b) = n /\ \A k \in 1 .. n : b[k] = s[k] BY <1>5, FirstOf
<1>8. \A k \in 1 .. n : k \in 1 .. l BY <1>1
<1>9. \A k \in 1 .. n : a[k] = b[k] BY <1>3, <1>6, <1>7, <1>8
<1>10. a = b BY <1>6, <1>7, <1>9, SeqEqual
<1> QED BY <1>2, <1>5, <1>10

LEMMA WholeBefore ==
  ASSUME NEW X, NEW s, s \in Seq(X), NEW e, e \in X
  PROVE  SubSeq(Append(s, e), 1, Len(s)) = s
<1>1. PICK l : l \in Nat /\ l = Len(s) BY LenProperties
<1>2. SubSeq(Append(s, e), 1, l) = SubSeq(s, 1, l) BY <1>1, BeforeAppend
<1>3. PICK b : b = SubSeq(s, 1, l) OBVIOUS
<1>4. b \in Seq(X) /\ Len(b) = l /\ \A k \in 1 .. l : b[k] = s[k] BY <1>1, <1>3, FirstOf
<1>5. b = s BY <1>1, <1>4, SeqEqual
<1> QED BY <1>1, <1>2, <1>3, <1>5

(* Another message comes after what was talk.                              *)
LEMMA FollowsAppend ==
  ASSUME NEW r, NEW talk, talk \in Seq(Message), NEW summed, NEW pl, NEW sending, NEW left,
         NEW m, m \in Message, m # Question(r), pl \notin {"started", "loaded"},
         Follows(r, talk, summed, pl, sending, left)
  PROVE  Follows(r, Append(talk, m), summed, pl, sending, left)
<1>1. PICK l : l \in Nat /\ l = Len(talk) /\ DOMAIN talk = 1 .. l BY LenProperties
<1>2. PICK now : now = Append(talk, m) OBVIOUS
<1>3. /\ DOMAIN now = 1 .. l + 1 /\ now[l + 1] = m
      /\ \A i \in 1 .. l : now[i] = talk[i]
  BY <1>1, <1>2, AppendProperties, LenProperties
<1>4. ASSUME NEW i \in DOMAIN now, now[i] = Question(r)
      PROVE  AskedAt(r, now, summed, pl, sending, left, i)
  <2>1. i \in 1 .. l /\ talk[i] = Question(r)
    <3>1. i # l + 1 BY <1>3, <1>4
    <3>2. i \in 1 .. l BY <1>1, <1>3, <3>1
    <3> QED BY <1>3, <1>4, <3>2
  <2>2. AskedAt(r, talk, summed, pl, sending, left, i) BY <1>1, <2>1 DEF Follows
  <2>3. PICK k : k = i - 1 OBVIOUS
  <2>4. k \in Nat /\ k <= Len(talk) BY <1>1, <2>1, <2>3
  <2>5. SubSeq(now, 1, k) = SubSeq(talk, 1, k) BY <1>2, <2>4, BeforeAppend
  <2> QED BY <2>2, <2>3, <2>5 DEF AskedAt
<1> QED BY <1>2, <1>4 DEF Follows

(* A run of the interface stores its question.                             *)
LEMMA FollowsSubmit ==
  ASSUME NEW r, r \notin TermRun, NEW talk, talk \in Seq(Message), NEW summed, NEW sending,
         NEW left, Question(r) \in Message, Question(r) \notin ToSet(talk)
  PROVE  Follows(r, Append(talk, Question(r)), summed, "started", sending, left)
<1>1. PICK l : l \in Nat /\ l = Len(talk) /\ DOMAIN talk = 1 .. l BY LenProperties
<1>2. PICK now : now = Append(talk, Question(r)) OBVIOUS
<1>3. DOMAIN now = 1 .. l + 1 /\ Len(now) = l + 1 /\ \A i \in 1 .. l : now[i] = talk[i]
  BY <1>1, <1>2, AppendProperties, LenProperties
<1>4. ASSUME NEW i \in DOMAIN now, now[i] = Question(r)
      PROVE  AskedAt(r, now, summed, "started", sending, left, i)
  <2>1. i \notin 1 .. l BY <1>1, <1>3, <1>4 DEF ToSet
  <2>2. i = l + 1 BY <1>1, <1>3, <2>1
  <2> QED BY <1>3, <2>2 DEF AskedAt
<1> QED BY <1>2, <1>4 DEF Follows

(* It reads the history.                                                   *)
LEMMA FollowsRead ==
  ASSUME NEW r, r \notin TermRun, NEW talk, talk \in Seq(Message), NEW summed, NEW had,
         NEW sending, NEW left,
         Follows(r, talk, summed, "started", had, left),
         r \notin left => sending = Without(LastOf(talk, AppLimit))
  PROVE  Follows(r, talk, summed, "turn", sending, left)
<1> SUFFICES ASSUME NEW i \in DOMAIN talk, talk[i] = Question(r)
             PROVE  AskedAt(r, talk, summed, "turn", sending, left, i)
  BY DEF Follows
<1>1. AskedAt(r, talk, summed, "started", had, left, i) BY DEF Follows
<1>2. i = Len(talk) BY <1>1 DEF AskedAt
<1>3. talk # <<>> BY EmptySeq
<1>4. LastOf(talk, AppLimit) # <<>> /\
      Front(LastOf(talk, AppLimit)) = LastOf(SubSeq(talk, 1, Len(talk) - 1), AppLimit - 1)
  BY <1>3, LimitsKnown, FrontOfLast
<1>5. Without(LastOf(talk, AppLimit)) = Front(LastOf(talk, AppLimit)) BY <1>4 DEF Without
<1> QED BY <1>2, <1>4, <1>5 DEF AskedAt

(* The terminal chat loads the history, and then stores its question.      *)
LEMMA FollowsLoad ==
  ASSUME NEW r, NEW talk, Question(r) \notin ToSet(talk), NEW summed, NEW sending, NEW left,
         Fits(sending, LastOf(talk, TermLimit), summed)
  PROVE  Follows(r, talk, summed, "loaded", sending, left)
BY DEF Follows, ToSet

LEMMA FollowsAsk ==
  ASSUME NEW r, r \notin AppRun, NEW talk, talk \in Seq(Message), NEW summed, NEW sending,
         NEW left, Question(r) \in Message, Question(r) \notin ToSet(talk),
         Follows(r, talk, summed, "loaded", sending, left)
  PROVE  Follows(r, Append(talk, Question(r)), summed, "asked", sending, left)
<1>1. PICK l : l \in Nat /\ l = Len(talk) /\ DOMAIN talk = 1 .. l BY LenProperties
<1>2. PICK now : now = Append(talk, Question(r)) OBVIOUS
<1>3. DOMAIN now = 1 .. l + 1 /\ Len(now) = l + 1 /\ \A i \in 1 .. l : now[i] = talk[i]
  BY <1>1, <1>2, AppendProperties, LenProperties
<1>4. Fits(sending, LastOf(talk, TermLimit), summed) BY DEF Follows
<1>5. ASSUME NEW i \in DOMAIN now, now[i] = Question(r)
      PROVE  AskedAt(r, now, summed, "asked", sending, left, i)
  <2>1. i \notin 1 .. l BY <1>1, <1>3, <1>5 DEF ToSet
  <2>2. i = l + 1 /\ i - 1 = l BY <1>1, <1>3, <2>1
  <2>3. SubSeq(now, 1, l) = talk BY <1>1, <1>2, WholeBefore
  <2> QED BY <1>4, <2>2, <2>3 DEF AskedAt
<1> QED BY <1>2, <1>5 DEF Follows

(* A part of a sequence without repetitions has none.                      *)
LEMMA LastDistinct ==
  ASSUME NEW X, NEW s, s \in Seq(X), Distinct(s), NEW n, n \in Nat
  PROVE  Distinct(LastOf(s, n))
<1>1. PICK l : l \in Nat /\ l = Len(s) /\ DOMAIN s = 1 .. l BY LenProperties
<1>2. PICK b : b = LastOf(s, n) OBVIOUS
<1>3. /\ b \in Seq(X) /\ Len(b) = IF l > n THEN n ELSE l
      /\ \A k \in 1 .. Len(b) : b[k] = s[l - Len(b) + k]
  <2>1. /\ LastOf(s, n) \in Seq(X) /\ Len(LastOf(s, n)) = IF Len(s) > n THEN n ELSE Len(s)
        /\ \A i \in 1 .. Len(LastOf(s, n)) : LastOf(s, n)[i] = s[Len(s) - Len(LastOf(s, n)) + i]
    BY LastOfParts
  <2> QED BY <1>1, <1>2, <2>1
<1>4. PICK m : m = Len(b) /\ m \in Nat /\ m <= l BY <1>1, <1>3
<1>5. DOMAIN b = 1 .. m BY <1>3, <1>4, LenProperties
<1>6. ASSUME NEW i \in 1 .. m, NEW j \in 1 .. m, b[i] = b[j] PROVE i = j
  <2>1. PICK o, p : o = l - m + i /\ p = l - m + j OBVIOUS
  <2>2. o \in 1 .. l /\ p \in 1 .. l BY <1>1, <1>4, <2>1
  <2>3. s[o] = s[p] BY <1>3, <1>4, <1>6, <2>1
  <2>4. o = p BY <1>1, <2>2, <2>3 DEF Distinct
  <2> QED BY <1>1, <1>4, <2>1, <2>4
<1> QED BY <1>2, <1>5, <1>6 DEF Distinct

LEMMA AppendDistinct ==
  ASSUME NEW X, NEW s, s \in Seq(X), Distinct(s), NEW e, e \in X, e \notin ToSet(s)
  PROVE  Distinct(Append(s, e))
<1>1. PICK l : l \in Nat /\ l = Len(s) /\ DOMAIN s = 1 .. l BY LenProperties
<1>2. PICK t : t = Append(s, e) OBVIOUS
<1>3. DOMAIN t = 1 .. l + 1 /\ t[l + 1] = e /\ \A i \in 1 .. l : t[i] = s[i]
  BY <1>1, <1>2, AppendProperties, LenProperties
<1>4. \A i \in 1 .. l : t[i] # e BY <1>1, <1>3 DEF ToSet
<1>5. \A i \in 1 .. l + 1 : i \in 1 .. l \/ i = l + 1 BY <1>1
<1>6. \A i, j \in 1 .. l : t[i] = t[j] => i = j BY <1>1, <1>3 DEF Distinct
<1>7. \A i, j \in 1 .. l + 1 : t[i] = t[j] => i = j BY <1>3, <1>4, <1>5, <1>6
<1> QED BY <1>2, <1>3, <1>7 DEF Distinct

LEMMA Runs ==
  /\ AppRun \subseteq Run /\ TermRun \subseteq Run
  /\ \A r \in Run : /\ r \in AppRun <=> r \notin TermRun
                    /\ Question(r) \in Message
                    /\ Question(r).run = r /\ Question(r).role = "user"
  /\ \A m \in Message : m.run \in Run /\ (m.role # "user" => m.role = "assistant")
  /\ \A m \in Message : m.role = "user" => m = Question(m.run)
BY RunAssumption DEF Run, Message, Question

LEMMA SessionsKnown == Session \subseteq OpenIn /\ 0 \in OpenIn /\ 0 \notin Session
BY LimitsKnown DEF Session, OpenIn

LEMMA AtHomeKnown ==
  ASSUME KeptInv, NEW r, r \in Run, place[r] # "new"
  PROVE  /\ home[r] \in Session /\ messages[home[r]] \in Seq(Message)
         /\ summary[home[r]] \in SUBSET Message
<1>1. home[r] \in OpenIn /\ home[r] # 0 BY DEF KeptInv, KeptTyped, AtHome
<1>2. home[r] \in Session BY <1>1 DEF OpenIn
<1> QED BY <1>2 DEF KeptInv, KeptTyped

(* A question that was not asked is nowhere.                               *)
LEMMA NotAsked ==
  ASSUME KeptInv, NEW r, r \in Run, place[r] \in {"new", "loaded"}, NEW s, s \in Session
  PROVE  Question(r) \notin ToSet(messages[s])
<1>1. Question(r).run = r /\ Question(r).role = "user" BY Runs
<1>2. \A m \in ToSet(messages[s]) : m.role = "user" => place[m.run] \notin {"new", "loaded"}
  BY DEF KeptInv, Said
<1> QED BY <1>1, <1>2

LEMMA KeptStart == ChatInit => KeptInv
<1> SUFFICES ASSUME ChatInit PROVE KeptInv OBVIOUS
<1> USE DEF ChatInit
<1>1. KeptTyped
  <2>1. <<>> \in Seq(Session) /\ <<>> \in Seq(Message) BY EmptySeq
  <2>2. "new" \in AppPlace /\ "new" \in TermPlace BY DEF AppPlace, TermPlace
  <2> QED BY <2>1, <2>2, Runs, SessionsKnown DEF KeptTyped
<1>2. \A s \in Session : messages[s] = <<>> OBVIOUS
<1>3. DOMAIN <<>> = {} BY EmptySeq
<1>4. Once BY <1>2, <1>3 DEF Once, Distinct
<1>5. Said BY <1>2, <1>3 DEF Said, ToSet
<1>6. \A r \in Run : place[r] = "new" /\ home[r] = 0 /\ answered[r] = 0 OBVIOUS
<1>7. \A r \in Run : AtHome(r) /\ InOrder(r)
  <2> HIDE DEF ChatInit
  <2> QED BY <1>6 DEF AtHome, InOrder, Working
<1> QED BY <1>1, <1>4, <1>5, <1>7 DEF KeptInv

(* A run goes to another place, at which its messages may be.              *)
LEMMA PlaceTyped ==
  ASSUME KeptInv, NEW r, r \in Run, NEW p, Put(r, p),
         r \in AppRun => p \in AppPlace, r \in TermRun => p \in TermPlace
  PROVE  /\ place' \in [Run -> AppPlace \cup TermPlace]
         /\ \A q \in AppRun : place'[q] \in AppPlace
         /\ \A q \in TermRun : place'[q] \in TermPlace
         /\ place'[r] = p
         /\ \A q \in Run : q # r => place'[q] = place[q]
<1>1. place' = [place EXCEPT ![r] = p] BY DEF Put
<1>2. place \in [Run -> AppPlace \cup TermPlace] BY DEF KeptInv, KeptTyped
<1>3. place'[r] = p /\ \A q \in Run : q # r => place'[q] = place[q] BY <1>1, <1>2
<1>4. p \in AppPlace \cup TermPlace BY Runs
<1>5. place' \in [Run -> AppPlace \cup TermPlace] BY <1>1, <1>2, <1>4
<1>6. \A q \in AppRun : place'[q] \in AppPlace BY <1>3, Runs DEF KeptInv, KeptTyped
<1>7. \A q \in TermRun : place'[q] \in TermPlace BY <1>3, Runs DEF KeptInv, KeptTyped
<1> QED BY <1>3, <1>5, <1>6, <1>7

LEMMA PlaceSaid ==
  ASSUME KeptInv, NEW r, r \in Run, NEW p, Put(r, p), messages' = messages,
         place[r] = "new" \/ (place[r] # "done" /\ p \notin {"new", "loaded"})
  PROVE  Said'
<1>1. place' = [place EXCEPT ![r] = p] BY DEF Put
<1>2. place \in [Run -> AppPlace \cup TermPlace] BY DEF KeptInv, KeptTyped
<1>3. place'[r] = p /\ \A q \in Run : q # r => place'[q] = place[q] BY <1>1, <1>2
<1> SUFFICES ASSUME NEW s \in Session, NEW m \in ToSet(messages[s])
             PROVE  IF m.role = "user" THEN place'[m.run] \notin {"new", "loaded"}
                    ELSE place'[m.run] = "done"
  BY DEF Said
<1>4. IF m.role = "user" THEN place[m.run] \notin {"new", "loaded"} ELSE place[m.run] = "done"
  BY DEF KeptInv, Said
<1>5. m.run \in Run
  <2>1. messages[s] \in Seq(Message) BY DEF KeptInv, KeptTyped
  <2>2. m \in Message BY <2>1, LenProperties DEF ToSet
  <2> QED BY <2>2, Runs
<1> QED BY <1>3, <1>4, <1>5

(* A run goes on, and nothing is stored.                                   *)
LEMMA MovesOn ==
  ASSUME KeptInv, NEW r, r \in Run, NEW p, Put(r, p),
         UNCHANGED <<store, opened, prompt, where>>,
         p \notin {"new", "started", "loaded", "asked"},
         place[r] \notin {"new", "loaded", "done", "raised"},
         place[r] = "started" => p = "raised",
         r \in AppRun => p \in AppPlace, r \in TermRun => p \in TermPlace
  PROVE  KeptInv'
<1> USE DEF store, opened, where
<1>1. place'[r] = p /\ \A q \in Run : q # r => place'[q] = place[q] BY PlaceTyped
<1>2. KeptTyped'
  <2>1. /\ place' \in [Run -> AppPlace \cup TermPlace]
        /\ \A q \in AppRun : place'[q] \in AppPlace
        /\ \A q \in TermRun : place'[q] \in TermPlace
    BY PlaceTyped
  <2> QED BY <2>1 DEF KeptInv, KeptTyped
<1>3. Once' BY DEF KeptInv, Once
<1>4. Said' BY PlaceSaid
<1>5. ASSUME NEW q \in Run, q # r PROVE AtHome(q)' /\ InOrder(q)'
  <2>1. AtHome(q) /\ InOrder(q) BY DEF KeptInv
  <2>2. place'[q] = place[q] BY <1>1, <1>5
  <2> QED BY <2>1, <2>2 DEF AtHome, InOrder, Working
<1>6. AtHome(r)'
  <2>1. AtHome(r) BY DEF KeptInv
  <2> QED BY <1>1, <2>1 DEF AtHome, Working
<1>7. InOrder(r)'
  <2> SUFFICES ASSUME r \notin mixed
               PROVE  Follows(r, messages[home[r]], summary[home[r]], p, prompt[r], moved)
    BY <1>1 DEF InOrder
  <2>1. Follows(r, messages[home[r]], summary[home[r]], place[r], prompt[r], moved)
    BY DEF KeptInv, InOrder
  <2> QED BY <2>1, FollowsMoves
<1> QED BY <1>2, <1>3, <1>4, <1>5, <1>6, <1>7 DEF KeptInv

(* A program opens another session.                                        *)
LEMMA SessionsChange ==
  ASSUME KeptInv, UNCHANGED <<messages, summary, place, prompt, home, answered, mixed>>,
         recent' \in Seq(Session), appSession' \in OpenIn, termSession' \in OpenIn,
         moved \subseteq moved', appSession # 0 => appSession' # 0,
         \A r \in Working : r \notin moved' => home[r] = appSession',
         \A r \in TermRun : place[r] \in {"loaded", "asked"} => home[r] = termSession'
  PROVE  KeptInv'
<1>1. KeptTyped' BY DEF KeptInv, KeptTyped
<1>2. Once' /\ Said' BY DEF KeptInv, Once, Said
<1>3. ASSUME NEW q \in Run PROVE AtHome(q)'
  <2>1. AtHome(q) BY DEF KeptInv
  <2> QED BY <2>1 DEF AtHome, Working
<1>4. ASSUME NEW q \in Run PROVE InOrder(q)'
  <2> SUFFICES ASSUME place[q] # "new", q \notin mixed
               PROVE  Follows(q, messages[home[q]], summary[home[q]], place[q], prompt[q], moved')
    BY DEF InOrder
  <2>1. Follows(q, messages[home[q]], summary[home[q]], place[q], prompt[q], moved)
    BY DEF KeptInv, InOrder
  <2>2. PICK gone : gone = moved' OBVIOUS
  <2>3. Follows(q, messages[home[q]], summary[home[q]], place[q], prompt[q], gone)
    BY <2>1, <2>2, FollowsLeft
  <2> QED BY <2>2, <2>3
<1> QED BY <1>1, <1>2, <1>3, <1>4 DEF KeptInv

LEMMA CreatedKnown ==
  ASSUME KeptInv, Created
  PROVE  New \in Session /\ recent' \in Seq(Session)
<1>1. recent \in Seq(Session) BY DEF KeptInv, KeptTyped
<1>2. Len(recent) \in Nat BY <1>1, LenProperties
<1>3. New \in Session BY <1>2, LimitsKnown DEF Created, New, Session
<1>4. <<New>> \in Seq(Session) BY <1>3
<1>5. <<New>> \o recent \in Seq(Session) BY <1>1, <1>4, ConcatProperties
<1> QED BY <1>3, <1>5 DEF Created

LEMMA LatestKnown ==
  ASSUME KeptInv, recent # <<>>
  PROVE  Head(recent) \in Session
<1>1. recent \in Seq(Session) BY DEF KeptInv, KeptTyped
<1> QED BY <1>1, EmptySeq, HeadTailProperties

(* A message enters session s, stored by run r which goes on to p.         *)
Entry(r, role) == [run |-> r, role |-> role]
Storing(s, r, role, p) ==
  /\ s \in Session /\ r \in Run /\ role \in {"user", "assistant"}
  /\ Stored(s, r, role) /\ Put(r, p) /\ Enters(s, r)
  /\ \A t \in Session : Entry(r, role) \notin ToSet(messages[t])
  /\ UNCHANGED <<opened, prompt, moved>>
  /\ p \notin {"new", "loaded"} /\ place[r] # "done" /\ (role = "assistant" => p = "done")
  /\ (r \in AppRun => p \in AppPlace) /\ (r \in TermRun => p \in TermPlace)

LEMMA StoringKnown ==
  ASSUME KeptInv, NEW s, NEW r, NEW role, NEW p, Storing(s, r, role, p)
  PROVE  /\ s \in Session /\ r \in Run /\ Entry(r, role) \in Message
         /\ messages \in [Session -> Seq(Message)]
         /\ messages' \in [Session -> Seq(Message)]
         /\ messages'[s] = Append(messages[s], Entry(r, role))
         /\ \A t \in Session : t # s => messages'[t] = messages[t]
         /\ place'[r] = p /\ \A q \in Run : q # r => place'[q] = place[q]
         /\ UNCHANGED <<summary, appSession, termSession, prompt, moved>>
<1>1. Entry(r, role) \in Message BY DEF Storing, Entry, Message
<1>2. messages \in [Session -> Seq(Message)] /\ s \in Session BY DEF KeptInv, KeptTyped, Storing
<1>3. messages' = [messages EXCEPT ![s] = Append(messages[s], Entry(r, role))]
  BY DEF Storing, Stored, Entry
<1>4. Append(messages[s], Entry(r, role)) \in Seq(Message) BY <1>1, <1>2, AppendProperties
<1>5. place' = [place EXCEPT ![r] = p] /\ place \in [Run -> AppPlace \cup TermPlace]
  BY DEF Storing, Put, KeptInv, KeptTyped
<1>6. r \in Run BY DEF Storing
<1>7. UNCHANGED <<summary, appSession, termSession, prompt, moved>> BY DEF Storing, Stored, opened
<1> QED BY <1>1, <1>2, <1>3, <1>4, <1>5, <1>6, <1>7

LEMMA StoringTyped ==
  ASSUME KeptInv, NEW s, NEW r, NEW role, NEW p, Storing(s, r, role, p),
         home' \in [Run -> OpenIn], answered' \in [Run -> OpenIn]
  PROVE  KeptTyped'
<1>1. recent' \in Seq(Session)
  <2>1. recent \in Seq(Session) /\ s \in Session BY DEF KeptInv, KeptTyped, Storing
  <2>2. PICK rest : rest = Among(recent, Session \ {s}) OBVIOUS
  <2>3. rest \in Seq(Session) BY <2>1, <2>2, AmongElements
  <2>4. <<s>> \in Seq(Session) BY <2>1
  <2>5. <<s>> \o rest \in Seq(Session) BY <2>3, <2>4, ConcatProperties
  <2> QED BY <2>2, <2>5 DEF Storing, Stored
<1>2. place' \in [Run -> AppPlace \cup TermPlace]
  <2>1. p \in AppPlace \cup TermPlace /\ r \in Run BY Runs DEF Storing
  <2> QED BY <2>1 DEF Storing, Put, KeptInv, KeptTyped
<1>3. \A q \in AppRun : place'[q] \in AppPlace
  <2> SUFFICES ASSUME NEW q \in AppRun PROVE place'[q] \in AppPlace OBVIOUS
  <2>1. q \in Run /\ place[q] \in AppPlace BY Runs DEF KeptInv, KeptTyped
  <2>2. place'[r] = p /\ (q # r => place'[q] = place[q]) BY <2>1, StoringKnown
  <2>3. r \in AppRun => p \in AppPlace BY DEF Storing
  <2> QED BY <2>1, <2>2, <2>3
<1>4. \A q \in TermRun : place'[q] \in TermPlace
  <2> SUFFICES ASSUME NEW q \in TermRun PROVE place'[q] \in TermPlace OBVIOUS
  <2>1. q \in Run /\ place[q] \in TermPlace BY Runs DEF KeptInv, KeptTyped
  <2>2. place'[r] = p /\ (q # r => place'[q] = place[q]) BY <2>1, StoringKnown
  <2>3. r \in TermRun => p \in TermPlace BY DEF Storing
  <2> QED BY <2>1, <2>2, <2>3
<1>5. messages' \in [Session -> Seq(Message)] BY StoringKnown
<1>6. UNCHANGED <<summary, appSession, termSession, prompt>> BY StoringKnown
<1> QED BY <1>1, <1>2, <1>3, <1>4, <1>5, <1>6 DEF KeptInv, KeptTyped

LEMMA StoringOnce ==
  ASSUME KeptInv, NEW s, NEW r, NEW role, NEW p, Storing(s, r, role, p)
  PROVE  Once'
<1> SUFFICES ASSUME NEW t \in Session PROVE Distinct(messages'[t]) BY DEF Once
<1>1. Distinct(messages[t]) BY DEF KeptInv, Once
<1>2. CASE t # s BY <1>1, <1>2, StoringKnown
<1>3. CASE t = s
  <2>1. Entry(r, role) \notin ToSet(messages[s]) BY StoringKnown DEF Storing
  <2>2. messages[s] \in Seq(Message) /\ Entry(r, role) \in Message BY StoringKnown
  <2>3. PICK talk, e : talk = messages[s] /\ e = Entry(r, role) OBVIOUS
  <2>4. talk \in Seq(Message) /\ e \in Message /\ e \notin ToSet(talk) /\ Distinct(talk)
    BY <1>1, <1>3, <2>1, <2>2, <2>3
  <2>5. Distinct(Append(talk, e)) BY <2>4, AppendDistinct
  <2>6. messages'[s] = Append(messages[s], Entry(r, role)) BY StoringKnown
  <2> QED BY <1>3, <2>3, <2>5, <2>6
<1> QED BY <1>2, <1>3

LEMMA StoringSaid ==
  ASSUME KeptInv, NEW s, NEW r, NEW role, NEW p, Storing(s, r, role, p)
  PROVE  Said'
<1> SUFFICES ASSUME NEW t \in Session, NEW m \in ToSet(messages'[t])
             PROVE  IF m.role = "user" THEN place'[m.run] \notin {"new", "loaded"}
                    ELSE place'[m.run] = "done"
  BY DEF Said
<1>1. CASE m \in ToSet(messages[t])
  <2>1. IF m.role = "user" THEN place[m.run] \notin {"new", "loaded"} ELSE place[m.run] = "done"
    BY <1>1 DEF KeptInv, Said
  <2>2. messages[t] \in Seq(Message) BY StoringKnown
  <2>3. m \in Message BY <1>1, <2>2, LenProperties DEF ToSet
  <2>4. m.run \in Run BY <2>3, Runs
  <2>5. CASE m.run # r BY <2>1, <2>4, <2>5, StoringKnown
  <2>6. CASE m.run = r
    <3>1. place[r] # "done" /\ p \notin {"new", "loaded"} BY DEF Storing
    <3>2. place'[r] = p BY StoringKnown
    <3> QED BY <2>1, <2>6, <3>1, <3>2
  <2> QED BY <2>5, <2>6
<1>2. CASE m \notin ToSet(messages[t])
  <2>1. t = s BY <1>2, StoringKnown
  <2>2. messages[s] \in Seq(Message) /\ Entry(r, role) \in Message BY StoringKnown
  <2>3. PICK talk, e : talk = messages[s] /\ e = Entry(r, role) OBVIOUS
  <2>4. ToSet(Append(talk, e)) = ToSet(talk) \cup {e}
    <3>1. talk \in Seq(Message) /\ e \in Message BY <2>2, <2>3
    <3> QED BY <3>1, ToSetAppend
  <2>5. messages'[s] = Append(messages[s], Entry(r, role)) BY StoringKnown
  <2>6. m = Entry(r, role) BY <1>2, <2>1, <2>3, <2>4, <2>5
  <2>7. m.run = r /\ m.role = role BY <2>6 DEF Entry
  <2>8. place'[r] = p BY StoringKnown
  <2>9. p \notin {"new", "loaded"} /\ (role # "user" => p = "done") BY DEF Storing
  <2> QED BY <2>7, <2>8, <2>9
<1> QED BY <1>1, <1>2

(* The other runs: a question of theirs in that session is not the last    *)
(* one any more, and what came before it is as it was.                     *)
LEMMA StoringOthers ==
  ASSUME KeptInv, NEW s, NEW r, NEW role, NEW p, Storing(s, r, role, p),
         NEW q, q \in Run, q # r, home'[q] = home[q], answered'[q] = answered[q]
  PROVE  AtHome(q)' /\ InOrder(q)'
<1>1. place'[q] = place[q] BY StoringKnown
<1>2. UNCHANGED <<summary, appSession, termSession, prompt, moved>> BY StoringKnown
<1>3. AtHome(q)'
  <2>1. AtHome(q) BY DEF KeptInv
  <2> QED BY <1>1, <1>2, <2>1 DEF AtHome, Working
<1>4. InOrder(q)'
  <2> SUFFICES ASSUME place[q] # "new", q \notin mixed'
               PROVE  Follows(q, messages'[home[q]], summary[home[q]], place[q], prompt[q], moved)
    BY <1>1, <1>2 DEF InOrder
  <2>1. home[q] \in Session /\ messages[home[q]] \in Seq(Message) BY AtHomeKnown
  <2>2. q \notin mixed /\ (home[q] = s => place[q] \notin {"started", "loaded"})
    BY DEF Storing, Enters
  <2>3. Follows(q, messages[home[q]], summary[home[q]], place[q], prompt[q], moved)
    BY <2>2 DEF KeptInv, InOrder
  <2>4. CASE home[q] # s BY <2>1, <2>3, <2>4, StoringKnown
  <2>5. CASE home[q] = s
    <3>1. Entry(r, role) # Question(q) BY DEF Entry, Question
    <3>2. Entry(r, role) \in Message /\ messages'[s] = Append(messages[s], Entry(r, role))
      BY StoringKnown
    <3>3. Follows(q, Append(messages[s], Entry(r, role)), summary[s], place[q], prompt[q], moved)
      BY <2>1, <2>2, <2>3, <2>5, <3>1, <3>2, FollowsAppend
    <3> QED BY <2>5, <3>2, <3>3
  <2> QED BY <2>4, <2>5
<1> QED BY <1>3, <1>4

LEMMA StoringKeeps ==
  ASSUME KeptInv, NEW s, NEW r, NEW role, NEW p, Storing(s, r, role, p),
         home' \in [Run -> OpenIn], answered' \in [Run -> OpenIn],
         \A q \in Run : q # r => home'[q] = home[q] /\ answered'[q] = answered[q],
         AtHome(r)', InOrder(r)'
  PROVE  KeptInv'
<1>1. \A q \in Run : AtHome(q)' /\ InOrder(q)' BY StoringOthers
<1> QED BY <1>1, StoringTyped, StoringOnce, StoringSaid DEF KeptInv

(* An answer follows the question, and what was sent stays.                *)
LEMMA AnswerInOrder ==
  ASSUME KeptInv, NEW s, NEW r, Storing(s, r, "assistant", "done"),
         place[r] \in {"answer", "asked"}, home' = home
  PROVE  InOrder(r)'
<1>1. place'[r] = "done" /\ UNCHANGED <<summary, prompt, moved>> /\ r \in Run BY StoringKnown
<1> SUFFICES ASSUME r \notin mixed'
             PROVE  Follows(r, messages'[home[r]], summary[home[r]], "done", prompt[r], moved)
  BY <1>1 DEF InOrder
<1>2. r \notin mixed BY DEF Storing, Enters
<1>3. home[r] \in Session /\ messages[home[r]] \in Seq(Message) BY <1>1, AtHomeKnown
<1>4. Follows(r, messages[home[r]], summary[home[r]], place[r], prompt[r], moved)
  BY <1>1, <1>2 DEF KeptInv, InOrder
<1>5. Follows(r, messages[home[r]], summary[home[r]], "done", prompt[r], moved)
  BY <1>4, FollowsMoves
<1>6. CASE home[r] # s BY <1>3, <1>5, <1>6, StoringKnown
<1>7. CASE home[r] = s
  <2>1. Entry(r, "assistant") # Question(r) BY DEF Entry, Question
  <2>2. /\ Entry(r, "assistant") \in Message
        /\ messages'[s] = Append(messages[s], Entry(r, "assistant"))
    BY StoringKnown
  <2>3. Follows(r, Append(messages[s], Entry(r, "assistant")), summary[s], "done", prompt[r], moved)
    BY <1>3, <1>5, <1>7, <2>1, <2>2, FollowsAppend
  <2> QED BY <1>7, <2>2, <2>3
<1> QED BY <1>6, <1>7

LEMMA NotAnswered ==
  ASSUME KeptInv, NEW r, r \in Run, place[r] # "done", NEW s, s \in Session
  PROVE  Entry(r, "assistant") \notin ToSet(messages[s])
<1>1. \A m \in ToSet(messages[s]) : m.role # "user" => place[m.run] = "done" BY DEF KeptInv, Said
<1> QED BY <1>1 DEF Entry

LEMMA SubmitKeeps == ASSUME KeptInv, NEW r \in AppRun, Submit(r) PROVE KeptInv'
<1> r \in Run /\ r \notin TermRun BY Runs
<1>1. appSession # 0 /\ place[r] = "new" /\ home' = [home EXCEPT ![r] = appSession]
  BY DEF Submit
<1>2. appSession \in Session BY <1>1 DEF KeptInv, KeptTyped, OpenIn
<1>3. Entry(r, "user") = Question(r) BY DEF Entry, Question
<1>4. Storing(appSession, r, "user", "started")
  <2>1. \A t \in Session : Entry(r, "user") \notin ToSet(messages[t]) BY <1>1, <1>3, NotAsked
  <2>2. "started" \in AppPlace BY DEF AppPlace
  <2> QED BY <1>1, <1>2, <2>1, <2>2 DEF Submit, Storing
<1>5. home \in [Run -> OpenIn] /\ answered \in [Run -> OpenIn] BY DEF KeptInv, KeptTyped
<1>6. /\ home' \in [Run -> OpenIn] /\ home'[r] = appSession
      /\ answered' = answered /\ answered' \in [Run -> OpenIn]
      /\ \A q \in Run : q # r => home'[q] = home[q] /\ answered'[q] = answered[q]
  BY <1>1, <1>2, <1>5, SessionsKnown DEF Submit
<1>7. place'[r] = "started" /\ UNCHANGED <<appSession, summary, prompt, moved>>
  BY <1>4, StoringKnown
<1>8. AtHome(r)'
  <2>1. AtHome(r) BY DEF KeptInv
  <2> QED BY <1>1, <1>6, <1>7, <2>1 DEF AtHome
<1>9. InOrder(r)'
  <2>1. messages[appSession] \in Seq(Message) BY <1>2 DEF KeptInv, KeptTyped
  <2>2. Question(r) \in Message /\ Question(r) \notin ToSet(messages[appSession])
    BY <1>1, <1>2, NotAsked, Runs
  <2>3. messages'[appSession] = Append(messages[appSession], Question(r))
    BY <1>3, <1>4, StoringKnown
  <2>4. Follows(r, Append(messages[appSession], Question(r)), summary[appSession], "started",
                prompt[r], moved)
    BY <2>1, <2>2, FollowsSubmit
  <2> QED BY <1>6, <1>7, <2>3, <2>4 DEF InOrder
<1> QED BY <1>4, <1>6, <1>8, <1>9, StoringKeeps

LEMMA ReadHistoryKeeps == ASSUME KeptInv, NEW r \in AppRun, ReadHistory(r) PROVE KeptInv'
<1> r \in Run /\ r \notin TermRun BY Runs
<1>1. /\ place[r] = "started" /\ place' = [place EXCEPT ![r] = "turn"]
      /\ prompt' = [prompt EXCEPT ![r] = Without(LastOf(messages[appSession], AppLimit))]
      /\ UNCHANGED <<messages, summary, recent, appSession, termSession, home, answered, moved,
                     mixed>>
  BY DEF ReadHistory, Put, Without, store, opened, where
<1>2. place \in [Run -> AppPlace \cup TermPlace] /\ prompt \in [Run -> Seq(Message)]
  BY DEF KeptInv, KeptTyped
<1>3. AtHome(r) /\ InOrder(r) BY DEF KeptInv
<1>4. appSession \in Session
  <2>1. appSession # 0 BY <1>1, <1>3 DEF AtHome
  <2> QED BY <2>1 DEF KeptInv, KeptTyped, OpenIn
<1>5. messages[appSession] \in Seq(Message) BY <1>4 DEF KeptInv, KeptTyped
<1>6. PICK sending : sending = Without(LastOf(messages[appSession], AppLimit)) OBVIOUS
<1>7. sending \in Seq(Message)
  <2>1. PICK a : a = LastOf(messages[appSession], AppLimit) OBVIOUS
  <2>2. a \in Seq(Message) BY <1>5, <2>1, LastOfParts, LimitsKnown
  <2>3. CASE a = <<>> BY <1>6, <2>1, <2>2, <2>3 DEF Without
  <2>4. CASE a # <<>>
    <3>1. PICK n : n = Len(a) - 1 OBVIOUS
    <3>2. n \in Nat /\ n <= Len(a) BY <2>2, <2>4, <3>1, EmptySeq, LenProperties
    <3>3. SubSeq(a, 1, n) \in Seq(Message) BY <2>2, <3>2, FirstOf
    <3> QED BY <1>6, <2>1, <2>4, <3>1, <3>3 DEF Without, Front
  <2> QED BY <2>3, <2>4
<1>8. prompt'[r] = sending /\ \A q \in Run : q # r => prompt'[q] = prompt[q]
  BY <1>1, <1>2, <1>6
<1>9. Put(r, "turn") /\ "turn" \in AppPlace BY <1>1 DEF Put, AppPlace
<1>10. place'[r] = "turn" /\ \A q \in Run : q # r => place'[q] = place[q] BY <1>9, PlaceTyped
<1>11. KeptTyped'
  <2>1. prompt' \in [Run -> Seq(Message)] BY <1>1, <1>2, <1>6, <1>7
  <2>2. /\ place' \in [Run -> AppPlace \cup TermPlace]
        /\ \A q \in AppRun : place'[q] \in AppPlace
        /\ \A q \in TermRun : place'[q] \in TermPlace
    BY <1>9, PlaceTyped
  <2> QED BY <1>1, <2>1, <2>2 DEF KeptInv, KeptTyped
<1>12. Once' BY <1>1 DEF KeptInv, Once
<1>13. Said' BY <1>1, PlaceSaid DEF Put
<1>14. ASSUME NEW q \in Run, q # r PROVE AtHome(q)' /\ InOrder(q)'
  <2>1. AtHome(q) /\ InOrder(q) BY DEF KeptInv
  <2>2. place'[q] = place[q] /\ prompt'[q] = prompt[q] BY <1>8, <1>14, <1>10
  <2> QED BY <1>1, <2>1, <2>2 DEF AtHome, InOrder, Working
<1>15. AtHome(r)' BY <1>1, <1>3, <1>10 DEF AtHome, Working
<1>16. InOrder(r)'
  <2> SUFFICES ASSUME r \notin mixed
               PROVE  Follows(r, messages[home[r]], summary[home[r]], "turn", sending, moved)
    BY <1>1, <1>8, <1>10 DEF InOrder
  <2>1. Follows(r, messages[home[r]], summary[home[r]], "started", prompt[r], moved)
    BY <1>1, <1>3 DEF InOrder
  <2>2. home[r] \in Session /\ messages[home[r]] \in Seq(Message) BY <1>1, AtHomeKnown
  <2>3. r \notin moved => home[r] = appSession BY <1>1, <1>3 DEF AtHome, Working
  <2>4. r \notin moved => sending = Without(LastOf(messages[home[r]], AppLimit)) BY <1>6, <2>3
  <2> QED BY <2>1, <2>2, <2>4, FollowsRead
<1> QED BY <1>11, <1>12, <1>13, <1>14, <1>15, <1>16 DEF KeptInv

LEMMA StoreAnswerKeeps == ASSUME KeptInv, NEW r \in AppRun, StoreAnswer(r) PROVE KeptInv'
<1> r \in Run /\ r \notin TermRun BY Runs
<1>1. place[r] = "answer" /\ home' = home /\ answered' = [answered EXCEPT ![r] = appSession]
  BY DEF StoreAnswer
<1>2. AtHome(r) BY DEF KeptInv
<1>3. appSession \in Session
  <2>1. appSession # 0 BY <1>1, <1>2 DEF AtHome
  <2> QED BY <2>1 DEF KeptInv, KeptTyped, OpenIn
<1>4. Storing(appSession, r, "assistant", "done")
  <2>1. \A t \in Session : Entry(r, "assistant") \notin ToSet(messages[t]) BY <1>1, NotAnswered
  <2>2. "done" \in AppPlace BY DEF AppPlace
  <2> QED BY <1>1, <1>3, <2>1, <2>2 DEF StoreAnswer, Storing
<1>5. home \in [Run -> OpenIn] /\ answered \in [Run -> OpenIn] BY DEF KeptInv, KeptTyped
<1>6. /\ home' \in [Run -> OpenIn] /\ answered' \in [Run -> OpenIn] /\ answered'[r] = appSession
      /\ \A q \in Run : q # r => home'[q] = home[q] /\ answered'[q] = answered[q]
  BY <1>1, <1>3, <1>5, SessionsKnown
<1>7. place'[r] = "done" /\ UNCHANGED <<appSession, summary, prompt, moved>>
  BY <1>4, StoringKnown
<1>8. AtHome(r)'
  <2>1. r \notin moved => home[r] = appSession BY <1>1, <1>2 DEF AtHome, Working
  <2> QED BY <1>1, <1>2, <1>6, <1>7, <2>1 DEF AtHome, Working
<1>9. InOrder(r)' BY <1>1, <1>4, AnswerInOrder
<1> QED BY <1>4, <1>6, <1>8, <1>9, StoringKeeps

LEMMA AskKeeps == ASSUME KeptInv, NEW r \in TermRun, Ask(r) PROVE KeptInv'
<1> r \in Run /\ r \notin AppRun BY Runs
<1>1. place[r] = "loaded" /\ home' = home /\ answered' = answered BY DEF Ask
<1>2. AtHome(r) BY DEF KeptInv
<1>3. home[r] = termSession /\ termSession \in Session
  <2>1. home[r] = termSession BY <1>1, <1>2 DEF AtHome
  <2> QED BY <1>1, <2>1, AtHomeKnown
<1>4. Entry(r, "user") = Question(r) BY DEF Entry, Question
<1>5. Storing(termSession, r, "user", "asked")
  <2>1. \A t \in Session : Entry(r, "user") \notin ToSet(messages[t]) BY <1>1, <1>4, NotAsked
  <2>2. "asked" \in TermPlace BY DEF TermPlace
  <2> QED BY <1>1, <1>3, <2>1, <2>2 DEF Ask, Storing
<1>6. home' \in [Run -> OpenIn] /\ answered' \in [Run -> OpenIn] BY <1>1 DEF KeptInv, KeptTyped
<1>7. /\ place'[r] = "asked" /\ UNCHANGED <<appSession, termSession, summary, prompt, moved>>
  BY <1>5, StoringKnown
<1>8. AtHome(r)' BY <1>1, <1>2, <1>3, <1>7 DEF AtHome, Working
<1>9. InOrder(r)'
  <2> SUFFICES ASSUME r \notin mixed'
               PROVE  Follows(r, messages'[termSession], summary[termSession], "asked", prompt[r],
                              moved)
    BY <1>1, <1>3, <1>7 DEF InOrder
  <2>1. messages[termSession] \in Seq(Message) BY <1>3 DEF KeptInv, KeptTyped
  <2>2. Question(r) \in Message /\ Question(r) \notin ToSet(messages[termSession])
    BY <1>1, <1>3, NotAsked, Runs
  <2>3. messages'[termSession] = Append(messages[termSession], Question(r))
    BY <1>4, <1>5, StoringKnown
  <2>4. r \notin mixed BY <1>5 DEF Storing, Enters
  <2>5. Follows(r, messages[termSession], summary[termSession], "loaded", prompt[r], moved)
    BY <1>1, <1>3, <2>4 DEF KeptInv, InOrder
  <2>6. Follows(r, Append(messages[termSession], Question(r)), summary[termSession], "asked",
                prompt[r], moved)
    BY <2>1, <2>2, <2>5, FollowsAsk
  <2> QED BY <2>3, <2>6
<1> QED BY <1>1, <1>5, <1>6, <1>8, <1>9, StoringKeeps

LEMMA AnswerKeeps == ASSUME KeptInv, NEW r \in TermRun, Answer(r) PROVE KeptInv'
<1> r \in Run /\ r \notin AppRun BY Runs
<1>1. /\ place[r] = "asked" /\ Put(r, "done") /\ home' = home
      /\ UNCHANGED <<opened, prompt, moved, clears>>
  BY DEF Answer
<1>2. "done" \in TermPlace BY DEF TermPlace
<1>3. CASE UNCHANGED <<store, answered, mixed>>
  BY <1>1, <1>2, <1>3, MovesOn DEF where
<1>4. ASSUME Stored(termSession, r, "assistant"), Enters(termSession, r),
             answered' = [answered EXCEPT ![r] = termSession]
      PROVE  KeptInv'
  <2>1. AtHome(r) BY DEF KeptInv
  <2>2. home[r] = termSession /\ termSession \in Session
    <3>1. home[r] = termSession BY <1>1, <2>1 DEF AtHome
    <3> QED BY <1>1, <3>1, AtHomeKnown
  <2>3. Storing(termSession, r, "assistant", "done")
    <3>1. \A t \in Session : Entry(r, "assistant") \notin ToSet(messages[t])
      BY <1>1, NotAnswered
    <3> QED BY <1>1, <1>2, <1>4, <2>2, <3>1 DEF Storing
  <2>4. home \in [Run -> OpenIn] /\ answered \in [Run -> OpenIn] BY DEF KeptInv, KeptTyped
  <2>5. /\ home' \in [Run -> OpenIn] /\ answered' \in [Run -> OpenIn] /\ answered'[r] = termSession
        /\ \A q \in Run : q # r => home'[q] = home[q] /\ answered'[q] = answered[q]
    BY <1>1, <1>4, <2>2, <2>4, SessionsKnown
  <2>6. place'[r] = "done" /\ UNCHANGED <<appSession, termSession, summary, prompt, moved>>
    BY <2>3, StoringKnown
  <2>7. AtHome(r)' BY <1>1, <2>1, <2>2, <2>5, <2>6 DEF AtHome, Working
  <2>8. InOrder(r)' BY <1>1, <2>3, AnswerInOrder
  <2> QED BY <2>3, <2>5, <2>7, <2>8, StoringKeeps
<1> QED BY <1>3, <1>4 DEF Answer

(* The chat loads a history: what it sends fits it, and the summary has    *)
(* the facts it leaves out.                                                *)
LEMMA LoadFits ==
  ASSUME NEW loaded, loaded \in Seq(Message), Distinct(loaded), NEW had, had \in SUBSET Message,
         NEW sending, NEW summed,
         \/ Len(loaded) > MaxMessages /\ sending = Context(loaded)
              /\ summed = had \cup ToSet(Facts(loaded))
         \/ ~(Len(loaded) > MaxMessages) /\ sending = loaded /\ summed = had
  PROVE  /\ Fits(sending, loaded, summed) /\ had \subseteq summed
         /\ sending \in Seq(Message) /\ summed \in SUBSET Message
<1>1. CASE ~(Len(loaded) > MaxMessages) BY <1>1, WholeFits
<1>2. CASE Len(loaded) > MaxMessages
  <2>1. sending = Context(loaded) /\ summed = had \cup ToSet(Facts(loaded)) BY <1>2
  <2>2. ToSet(Facts(loaded)) \subseteq summed BY <2>1
  <2>3. Fits(Context(loaded), loaded, summed) BY <1>2, <2>2, ContextFits
  <2>4. Older(loaded) \in Seq(Message)
    <3>1. PICK n : n = Len(loaded) - TailMessages OBVIOUS
    <3>2. n \in Nat /\ n <= Len(loaded) BY <1>2, <3>1, LimitsKnown, LenProperties
    <3>3. SubSeq(loaded, 1, n) \in Seq(Message) BY <3>2, FirstOf
    <3> QED BY <3>1, <3>3 DEF Older
  <2>5. Context(loaded) \in Seq(Message)
    <3>1. PICK a, b : a = Among(Older(loaded), Protected) /\ b = LastOf(loaded, TailMessages)
      OBVIOUS
    <3>2. a \in Seq(Message) BY <2>4, <3>1, AmongElements
    <3>3. b \in Seq(Message) BY <3>1, LastOfParts, LimitsKnown
    <3>4. a \o b \in Seq(Message) BY <3>2, <3>3, ConcatProperties
    <3> QED BY <3>1, <3>4 DEF Context
  <2>6. ToSet(Facts(loaded)) \subseteq Message
    <3>1. PICK a : a = Among(Older(loaded), Message \ Protected) OBVIOUS
    <3>2. a \in Seq(Message) BY <2>4, <3>1, AmongElements
    <3>3. LastOf(a, MaxFacts) \in Seq(Message) BY <3>2, LastOfParts, LimitsKnown
    <3>4. Facts(loaded) \in Seq(Message) BY <3>1, <3>3 DEF Facts
    <3> QED BY <3>4, LenProperties DEF ToSet
  <2> QED BY <2>1, <2>3, <2>5, <2>6
<1> QED BY <1>1, <1>2

LEMMA LoadContextKeeps == ASSUME KeptInv, NEW r \in TermRun, LoadContext(r) PROVE KeptInv'
<1> r \in Run /\ r \notin AppRun BY Runs
<1>1. /\ Prompting /\ place[r] = "new" /\ Put(r, "loaded")
      /\ home' = [home EXCEPT ![r] = termSession]
      /\ UNCHANGED <<messages, recent, appSession, termSession, answered, moved, mixed>>
  BY DEF LoadContext, opened
<1>2. termSession \in Session BY <1>1 DEF KeptInv, KeptTyped, OpenIn, Prompting
<1>3. /\ messages[termSession] \in Seq(Message) /\ Distinct(messages[termSession])
      /\ summary \in [Session -> SUBSET Message] /\ prompt \in [Run -> Seq(Message)]
      /\ home \in [Run -> OpenIn]
  BY <1>2 DEF KeptInv, KeptTyped, Once
<1>4. PICK loaded : loaded = LastOf(messages[termSession], TermLimit) OBVIOUS
<1>5. loaded \in Seq(Message) /\ Distinct(loaded)
  <2>1. TermLimit \in Nat BY LimitsKnown
  <2> QED BY <1>3, <1>4, <2>1, LastOfParts, LastDistinct
<1>6. PICK sending, summed :
        /\ prompt' = [prompt EXCEPT ![r] = sending]
        /\ summary' = [summary EXCEPT ![termSession] = summed]
        /\ \/ Len(loaded) > MaxMessages /\ sending = Context(loaded)
                /\ summed = summary[termSession] \cup ToSet(Facts(loaded))
           \/ ~(Len(loaded) > MaxMessages) /\ sending = loaded /\ summed = summary[termSession]
  <2>1. CASE Len(loaded) > MaxMessages BY <1>4, <2>1 DEF LoadContext
  <2>2. CASE ~(Len(loaded) > MaxMessages)
    <3>1. prompt' = [prompt EXCEPT ![r] = loaded] /\ summary' = summary
      BY <1>4, <2>2 DEF LoadContext
    <3>2. summary' = [summary EXCEPT ![termSession] = summary[termSession]] BY <1>2, <1>3, <3>1
    <3> QED BY <2>2, <3>1, <3>2
  <2> QED BY <2>1, <2>2
<1>7. /\ Fits(sending, loaded, summed) /\ summary[termSession] \subseteq summed
      /\ sending \in Seq(Message) /\ summed \in SUBSET Message
  <2>1. PICK had : had = summary[termSession] OBVIOUS
  <2>2. had \in SUBSET Message BY <1>2, <1>3, <2>1
  <2> QED BY <1>5, <1>6, <2>1, <2>2, LoadFits
<1>8. "loaded" \in TermPlace BY DEF TermPlace
<1>9. place'[r] = "loaded" /\ \A q \in Run : q # r => place'[q] = place[q]
  BY <1>1, <1>8, PlaceTyped
<1>10. /\ prompt'[r] = sending /\ \A q \in Run : q # r => prompt'[q] = prompt[q]
       /\ home'[r] = termSession /\ \A q \in Run : q # r => home'[q] = home[q]
       /\ summary'[termSession] = summed
       /\ \A s \in Session : s # termSession => summary'[s] = summary[s]
  BY <1>1, <1>2, <1>3, <1>6
<1>11. KeptTyped'
  <2>1. /\ place' \in [Run -> AppPlace \cup TermPlace]
        /\ \A q \in AppRun : place'[q] \in AppPlace
        /\ \A q \in TermRun : place'[q] \in TermPlace
    BY <1>1, <1>8, PlaceTyped
  <2>2. prompt' \in [Run -> Seq(Message)] BY <1>3, <1>6, <1>7
  <2>3. summary' \in [Session -> SUBSET Message] BY <1>3, <1>6, <1>7
  <2>4. home' \in [Run -> OpenIn] BY <1>1, <1>2, <1>3, SessionsKnown
  <2> QED BY <1>1, <2>1, <2>2, <2>3, <2>4 DEF KeptInv, KeptTyped
<1>12. Once' BY <1>1 DEF KeptInv, Once
<1>13. Said' BY <1>1, PlaceSaid
<1>14. ASSUME NEW q \in Run, q # r PROVE AtHome(q)' /\ InOrder(q)'
  <2>1. AtHome(q) /\ InOrder(q) BY DEF KeptInv
  <2>2. place'[q] = place[q] /\ prompt'[q] = prompt[q] /\ home'[q] = home[q]
    BY <1>9, <1>10, <1>14
  <2>3. AtHome(q)' BY <1>1, <2>1, <2>2 DEF AtHome, Working
  <2>4. InOrder(q)'
    <3> SUFFICES ASSUME place[q] # "new", q \notin mixed
                 PROVE  Follows(q, messages[home[q]], summary'[home[q]], place[q], prompt[q], moved)
      BY <1>1, <2>2 DEF InOrder
    <3>1. Follows(q, messages[home[q]], summary[home[q]], place[q], prompt[q], moved)
      BY <2>1 DEF InOrder
    <3>2. home[q] \in Session BY AtHomeKnown
    <3>3. PICK more : more = summary'[home[q]] OBVIOUS
    <3>4. summary[home[q]] \subseteq more
      <4>1. CASE home[q] = termSession BY <1>7, <1>10, <3>3, <4>1
      <4>2. CASE home[q] # termSession BY <1>10, <3>2, <3>3, <4>2
      <4> QED BY <4>1, <4>2
    <3>5. Follows(q, messages[home[q]], more, place[q], prompt[q], moved)
      BY <3>1, <3>4, FollowsMore
    <3> QED BY <3>3, <3>5
  <2> QED BY <2>3, <2>4
<1>15. AtHome(r)'
  <2>1. AtHome(r) BY DEF KeptInv
  <2>2. termSession # 0 BY <1>1 DEF Prompting
  <2> QED BY <1>1, <1>9, <1>10, <2>1, <2>2 DEF AtHome, Working
<1>16. InOrder(r)'
  <2>1. Question(r) \notin ToSet(messages[termSession]) BY <1>1, <1>2, NotAsked
  <2>2. Fits(sending, LastOf(messages[termSession], TermLimit), summed) BY <1>4, <1>7
  <2>3. Follows(r, messages[termSession], summed, "loaded", sending, moved)
    BY <2>1, <2>2, FollowsLoad
  <2> QED BY <1>1, <1>9, <1>10, <2>3 DEF InOrder
<1> QED BY <1>11, <1>12, <1>13, <1>14, <1>15, <1>16 DEF KeptInv

(* /clear, while no text of the chat is under way.                         *)
LEMMA ClearKeeps == ASSUME KeptInv, Clear PROVE KeptInv'
<1>1. /\ Prompting
      /\ messages' = [messages EXCEPT ![termSession] = <<>>]
      /\ summary' = [summary EXCEPT ![termSession] = {}]
      /\ UNCHANGED <<recent, appSession, termSession, place, prompt, home, answered, moved, mixed>>
  BY DEF Clear, opened
<1>2. termSession \in Session BY <1>1 DEF KeptInv, KeptTyped, OpenIn, Prompting
<1>3. messages \in [Session -> Seq(Message)] /\ summary \in [Session -> SUBSET Message]
  BY DEF KeptInv, KeptTyped
<1>4. <<>> \in Seq(Message) /\ DOMAIN <<>> = {} BY EmptySeq
<1>5. /\ messages'[termSession] = <<>>
      /\ \A s \in Session : s # termSession =>
           messages'[s] = messages[s] /\ summary'[s] = summary[s]
  BY <1>1, <1>2, <1>3
<1>6. KeptTyped'
  <2>1. messages' \in [Session -> Seq(Message)] BY <1>1, <1>3, <1>4
  <2>2. summary' \in [Session -> SUBSET Message] BY <1>1, <1>3
  <2> QED BY <1>1, <2>1, <2>2 DEF KeptInv, KeptTyped
<1>7. Once'
  <2> SUFFICES ASSUME NEW s \in Session PROVE Distinct(messages'[s]) BY DEF Once
  <2>1. CASE s = termSession BY <1>4, <1>5, <2>1 DEF Distinct
  <2>2. CASE s # termSession BY <1>5, <2>2 DEF KeptInv, Once
  <2> QED BY <2>1, <2>2
<1>8. Said'
  <2>1. ToSet(<<>>) = {} BY <1>4 DEF ToSet
  <2>2. \A s \in Session : ToSet(messages'[s]) \subseteq ToSet(messages[s])
    <3> SUFFICES ASSUME NEW s \in Session PROVE ToSet(messages'[s]) \subseteq ToSet(messages[s])
      OBVIOUS
    <3>1. CASE s = termSession BY <1>5, <2>1, <3>1
    <3>2. CASE s # termSession BY <1>5, <3>2
    <3> QED BY <3>1, <3>2
  <2>3. place' = place BY <1>1
  <2> QED BY <2>2, <2>3 DEF KeptInv, Said
<1>9. ASSUME NEW q \in Run PROVE AtHome(q)' /\ InOrder(q)'
  <2>1. AtHome(q) /\ InOrder(q) BY DEF KeptInv
  <2>2. AtHome(q)' BY <1>1, <2>1 DEF AtHome, Working
  <2>3. InOrder(q)'
    <3> SUFFICES ASSUME place[q] # "new", q \notin mixed
                 PROVE  Follows(q, messages'[home[q]], summary'[home[q]], place[q], prompt[q],
                                moved)
      BY <1>1 DEF InOrder
    <3>1. home[q] \in Session BY AtHomeKnown
    <3>2. CASE home[q] # termSession BY <1>5, <2>1, <3>1, <3>2 DEF InOrder
    <3>3. CASE home[q] = termSession
      <4>1. place[q] # "loaded"
        <5>1. CASE q \in TermRun BY <1>1, <5>1 DEF Prompting
        <5>2. CASE q \in AppRun
          <6>1. place[q] \in AppPlace BY <5>2 DEF KeptInv, KeptTyped
          <6> QED BY <6>1 DEF AppPlace
        <5> QED BY <5>1, <5>2 DEF Run
      <4>2. PICK summed : summed = summary'[home[q]] OBVIOUS
      <4>3. Follows(q, <<>>, summed, place[q], prompt[q], moved) BY <4>1, FollowsNothing
      <4> QED BY <1>5, <3>3, <4>2, <4>3
    <3> QED BY <3>2, <3>3
  <2> QED BY <2>2, <2>3
<1> QED BY <1>6, <1>7, <1>8, <1>9 DEF KeptInv

LEMMA KeptKeeps == KeptInv /\ [ChatNext]_chatVars => KeptInv'
<1> SUFFICES ASSUME KeptInv, [ChatNext]_chatVars PROVE KeptInv' OBVIOUS
<1> AppRun \subseteq Run /\ TermRun \subseteq Run BY Runs
<1>0. /\ recent \in Seq(Session) /\ appSession \in OpenIn /\ termSession \in OpenIn
      /\ Session \subseteq OpenIn /\ 0 \notin Session
      /\ \A r \in Run : AtHome(r)
  BY SessionsKnown DEF KeptInv, KeptTyped
<1>1. CASE UNCHANGED chatVars
  BY <1>1 DEF chatVars, KeptInv, KeptTyped, Once, Said, AtHome, InOrder, Working
<1>2. CASE OpenApp
  <2>1. /\ appSession = 0
        /\ UNCHANGED <<messages, summary, place, prompt, home, answered, mixed, moved, termSession>>
    BY <1>2 DEF OpenApp, where
  <2>2. recent' \in Seq(Session) /\ appSession' \in Session
    BY <1>0, <1>2, CreatedKnown, LatestKnown DEF OpenApp
  <2>3. \A r \in Working : FALSE BY <1>0, <2>1 DEF AtHome, Working
  <2>4. \A r \in TermRun : place[r] \in {"loaded", "asked"} => home[r] = termSession
    BY <1>0 DEF AtHome
  <2> QED BY <1>0, <2>1, <2>2, <2>3, <2>4, SessionsChange
<1>3. CASE OpenTerm
  <2>1. /\ termSession = 0
        /\ UNCHANGED <<messages, summary, place, prompt, home, answered, mixed, moved, appSession>>
    BY <1>3 DEF OpenTerm, where
  <2>2. recent' \in Seq(Session) /\ termSession' \in Session
    BY <1>0, <1>3, CreatedKnown, LatestKnown DEF OpenTerm
  <2>3. \A r \in TermRun : place[r] \notin {"loaded", "asked"} BY <1>0, <2>1 DEF AtHome
  <2>4. \A r \in Working : r \notin moved => home[r] = appSession
    BY <1>0 DEF AtHome, Working
  <2> QED BY <1>0, <2>1, <2>2, <2>3, <2>4, SessionsChange
<1>4. CASE ActionNewSession
  <2>1. /\ appSession' = New /\ Created /\ moved' = moved \cup Working
        /\ UNCHANGED <<messages, summary, place, prompt, home, answered, mixed, termSession>>
    BY <1>4 DEF ActionNewSession
  <2>2. recent' \in Seq(Session) /\ appSession' \in Session BY <2>1, CreatedKnown
  <2>3. \A r \in TermRun : place[r] \in {"loaded", "asked"} => home[r] = termSession
    BY <1>0 DEF AtHome
  <2> QED BY <1>0, <2>1, <2>2, <2>3, SessionsChange
<1>5. CASE ActionCancelRun
  BY <1>5 DEF ActionCancelRun, store, opened, where, KeptInv, KeptTyped, Once, Said, AtHome,
              InOrder, Working
<1>6. CASE CommandNew
  <2>1. /\ termSession' = New /\ Created /\ Prompting
        /\ UNCHANGED <<messages, summary, place, prompt, home, answered, mixed, moved, appSession>>
    BY <1>6 DEF CommandNew, where
  <2>2. recent' \in Seq(Session) /\ termSession' \in Session BY <2>1, CreatedKnown
  <2>3. \A r \in TermRun : place[r] \notin {"loaded", "asked"} BY <2>1 DEF Prompting
  <2>4. \A r \in Working : r \notin moved => home[r] = appSession
    BY <1>0 DEF AtHome, Working
  <2> QED BY <1>0, <2>1, <2>2, <2>3, <2>4, SessionsChange
<1>7. CASE Clear BY <1>7, ClearKeeps
<1>8. ASSUME NEW r \in AppRun, Submit(r) PROVE KeptInv' BY <1>8, SubmitKeeps
<1>9. ASSUME NEW r \in AppRun, ReadHistory(r) PROVE KeptInv' BY <1>9, ReadHistoryKeeps
<1>10. ASSUME NEW r \in AppRun, EmitEvent(r) PROVE KeptInv'
  <2>1. place[r] = "turn" /\ Put(r, "check") /\ UNCHANGED <<store, opened, prompt, where>>
    BY <1>10 DEF EmitEvent
  <2>2. r \notin TermRun /\ "check" \in AppPlace BY Runs DEF AppPlace
  <2> QED BY <2>1, <2>2, MovesOn
<1>11. ASSUME NEW r \in AppRun, Check(r) PROVE KeptInv'
  <2>1. PICK p \in {"cancelled", "model"} :
          place[r] = "check" /\ Put(r, p) /\ UNCHANGED <<store, opened, prompt, where>>
    BY <1>11 DEF Check
  <2>2. r \notin TermRun /\ p \in AppPlace BY Runs DEF AppPlace
  <2> QED BY <2>1, <2>2, MovesOn
<1>12. ASSUME NEW r \in AppRun, EndTurn(r) PROVE KeptInv'
  <2>1. PICK p \in {"turn", "result"} :
          place[r] = "model" /\ Put(r, p) /\ UNCHANGED <<store, opened, prompt, where>>
    BY <1>12 DEF EndTurn, Put
  <2>2. r \notin TermRun /\ p \in AppPlace BY Runs DEF AppPlace
  <2> QED BY <2>1, <2>2, MovesOn
<1>13. ASSUME NEW r \in AppRun, Result(r) PROVE KeptInv'
  <2>1. /\ place[r] \in {"result", "cancelled"} /\ Put(r, "answer")
        /\ UNCHANGED <<store, opened, prompt, where>>
    BY <1>13 DEF Result
  <2>2. r \notin TermRun /\ "answer" \in AppPlace BY Runs DEF AppPlace
  <2> QED BY <2>1, <2>2, MovesOn
<1>14. ASSUME NEW r \in AppRun, StoreAnswer(r) PROVE KeptInv' BY <1>14, StoreAnswerKeeps
<1>15. ASSUME NEW r \in AppRun, RunRaises(r) PROVE KeptInv'
  <2>1. /\ place[r] \notin {"new", "done", "raised"} /\ Put(r, "raised")
        /\ UNCHANGED <<store, opened, prompt, where>>
    BY <1>15 DEF RunRaises, Working
  <2>2. r \notin TermRun /\ "raised" \in AppPlace BY Runs DEF AppPlace
  <2>3. place[r] # "loaded"
    <3>1. place[r] \in AppPlace BY DEF KeptInv, KeptTyped
    <3> QED BY <3>1 DEF AppPlace
  <2> QED BY <2>1, <2>2, <2>3, MovesOn
<1>16. ASSUME NEW r \in TermRun, LoadContext(r) PROVE KeptInv' BY <1>16, LoadContextKeeps
<1>17. ASSUME NEW r \in TermRun, Ask(r) PROVE KeptInv' BY <1>17, AskKeeps
<1>18. ASSUME NEW r \in TermRun, Answer(r) PROVE KeptInv' BY <1>18, AnswerKeeps
<1> QED BY <1>1, <1>2, <1>3, <1>4, <1>5, <1>6, <1>7, <1>8, <1>9, <1>10, <1>11, <1>12,
         <1>13, <1>14, <1>15, <1>16, <1>17, <1>18 DEF ChatNext

(* What a run sends follows from the messages before its question, which is *)
(* in its session once.                                                    *)
QuestionsOf(r) == {i \in DOMAIN messages[home[r]] : messages[home[r]][i] = Question(r)}
SendsBefore(r, i) ==
  /\ r \in AppRun /\ place[r] \notin {"started", "raised"} /\ r \notin moved =>
       prompt[r] = LastOf(SubSeq(messages[home[r]], 1, i - 1), AppLimit - 1)
  /\ r \in TermRun =>
       Fits(prompt[r], LastOf(SubSeq(messages[home[r]], 1, i - 1), TermLimit), summary[home[r]])

LEMMA KeptIsKept == KeptInv => ConversationKept
<1> SUFFICES ASSUME KeptInv PROVE ConversationKept OBVIOUS
<1>1. ASSUME NEW r \in Run, home[r] # 0, r \notin mixed, NEW i \in QuestionsOf(r)
      PROVE  SendsBefore(r, i)
  <2>1. i \in DOMAIN messages[home[r]] /\ messages[home[r]][i] = Question(r)
    BY <1>1 DEF QuestionsOf
  <2>2. Follows(r, messages[home[r]], summary[home[r]], place[r], prompt[r], moved)
    BY <1>1 DEF KeptInv, AtHome, InOrder
  <2>3. AskedAt(r, messages[home[r]], summary[home[r]], place[r], prompt[r], moved, i)
    BY <2>1, <2>2 DEF Follows
  <2> QED BY <2>3 DEF AskedAt, SendsBefore
<1>2. ASSUME NEW r \in Run
      PROVE  /\ answered[r] # 0 /\ r \notin moved => answered[r] = home[r]
             /\ home[r] # 0 /\ QuestionsOf(r) # {} /\ r \notin mixed =>
                  SendsBefore(r, CHOOSE i \in QuestionsOf(r) : TRUE)
  <2>1. answered[r] # 0 /\ r \notin moved => answered[r] = home[r] BY DEF KeptInv, AtHome
  <2> SUFFICES ASSUME home[r] # 0, QuestionsOf(r) # {}, r \notin mixed
               PROVE  SendsBefore(r, CHOOSE i \in QuestionsOf(r) : TRUE)
    BY <2>1
  <2>2. PICK k : k = CHOOSE i \in QuestionsOf(r) : TRUE OBVIOUS
  <2>3. k \in QuestionsOf(r) BY <2>2
  <2> QED BY <1>1, <2>2, <2>3
<1> QED BY <1>2 DEF ConversationKept, SendsBefore, QuestionsOf, Question, Fits, Dropped

THEOREM ConversationIsKept == ChatSpec => []ConversationKept
BY KeptStart, KeptKeeps, KeptIsKept, PTL DEF ChatSpec

-----------------------------------------------------------------------------
(* ClassicChat, for any number of chats, texts and deaths.                 *)

ClassicTyped ==
  /\ content \in [Inode -> Seq(Exchange) \cup {Torn}]
  /\ file \in Inode \cup {NoInode} /\ temporary \in Inode \cup {NoInode}
  /\ history \in [Chat -> Seq(Exchange)] /\ saved \in Seq(Exchange)
  /\ doing \in [Chat -> {"off", "prompt", "tool", "ask", "save", "open", "written", "chmod"}]
  /\ said \in [Chat -> SUBSET ToSet(Tools)]
  /\ handle \in [Chat -> Inode \cup {NoInode}]
  /\ exchanges \in Nat

(* A chat has a file open while it writes, and there is no other one that  *)
(* saves and has not been noticed.                                         *)
Opened == \A c \in Chat : handle[c] # NoInode <=> doing[c] \in {"open", "written"}
Noticed == \A c, d \in Saving : c # d => c \in collided

(* Nobody writes to the file that counts: the temporary file is another    *)
(* one, and only a chat whose save met another one has the file open.      *)
Apart ==
  /\ temporary # NoInode => temporary # file
  /\ ~spoiled /\ file # NoInode => \A c \in Chat : handle[c] # file

(* A save that meets no other one is what the temporary file holds.        *)
Alone ==
  \A c \in Saving \ collided :
    /\ doing[c] \in {"open", "written"} => temporary = handle[c]
    /\ doing[c] = "written" => content[handle[c]] = LastKept(history[c])

ClassicInv == ClassicTyped /\ Opened /\ Noticed /\ Apart /\ Alone /\ HistoryWhole

USE ChatAssumption, TextAssumption

(* What is kept of a conversation is a conversation, and keeping the end   *)
(* of what was kept changes nothing.                                       *)
LEMMA LastKeptIsKept ==
  ASSUME NEW s \in Seq(Exchange)
  PROVE  /\ LastKept(s) \in Seq(Exchange) /\ LastKept(LastKept(s)) = LastKept(s)
<1> DEFINE first == IF Len(s) > Kept THEN Len(s) - Kept + 1 ELSE 1
           kept  == SubSeq(s, first, Len(s))
<1>1. LastKept(s) = kept BY DEF LastKept
<1>2. first \in 1 .. Len(s) + 1 /\ Len(s) \in Nat /\ Len(s) - first + 1 <= Kept OBVIOUS
<1>3. \A i \in first .. Len(s) : s[i] \in Exchange BY <1>2
<1> HIDE DEF first
<1>4. /\ kept \in Seq(Exchange)
      /\ Len(kept) = IF first <= Len(s) THEN Len(s) - first + 1 ELSE 0
  BY <1>2, <1>3, SubSeqProperties
<1> HIDE DEF kept
<1>5. Len(kept) \in Nat /\ ~(Len(kept) > Kept) BY <1>2, <1>4
<1>6. SubSeq(kept, 1, Len(kept)) = kept BY <1>4
<1>7. LastKept(kept) = kept BY <1>5, <1>6 DEF LastKept
<1> QED BY <1>1, <1>4, <1>7

(* There is an inode to create the temporary file with: each chat has at   *)
(* most one open.                                                          *)
LEMMA FreeInode ==
  ASSUME ClassicTyped
  PROVE  \E i \in Inode : i # file /\ \A d \in Chat : handle[d] # i
<1> DEFINE open == {handle[d] : d \in Chat}
           hold == [d \in Chat |-> handle[d]]
<1>1. hold \in Surjection(Chat, open) BY DEF Surjection
<1>2. IsFiniteSet(open) /\ Cardinality(open) <= Cardinality(Chat)
  <2> HIDE DEF hold, open
  <2> QED BY <1>1, FS_Surjection
<1> HIDE DEF open
<1>3. IsFiniteSet(open \cup {file}) /\ Cardinality(open \cup {file}) <= Cardinality(Chat) + 1
  <2>1. Cardinality(open) \in Nat /\ Cardinality(Chat) \in Nat
    BY <1>2, FS_CardinalityType
  <2>2. /\ IsFiniteSet(open \cup {file})
        /\ Cardinality(open \cup {file}) = IF file \in open THEN Cardinality(open)
                                            ELSE Cardinality(open) + 1
    BY <1>2, FS_AddElement
  <2> QED BY <1>2, <2>1, <2>2
<1>4. IsFiniteSet(Inode) /\ Cardinality(Inode) = Cardinality(Chat) + 2
  <2>1. Cardinality(Chat) \in Nat BY FS_CardinalityType
  <2>2. Cardinality(1 .. Cardinality(Chat) + 2) = Cardinality(Chat) + 2
    BY <2>1, FS_Interval
  <2>3. IsFiniteSet(1 .. Cardinality(Chat) + 2) BY <2>1, FS_Interval
  <2> QED BY <2>2, <2>3 DEF Inode
<1>5. ~(Inode \subseteq open \cup {file})
  <2>1. SUFFICES ASSUME Inode \subseteq open \cup {file} PROVE FALSE OBVIOUS
  <2>2. Cardinality(Inode) <= Cardinality(open \cup {file}) BY <1>3, <2>1, FS_Subset
  <2>3. Cardinality(Chat) \in Nat BY FS_CardinalityType
  <2>4. Cardinality(open \cup {file}) \in Nat BY <1>3, FS_CardinalityType
  <2> QED BY <1>3, <1>4, <2>2, <2>3, <2>4
<1> QED BY <1>5 DEF open

(* Only a text that asks for nothing but a change makes a plan.            *)
LEMMA PlanIsLast ==
  ASSUME NEW text \in SUBSET ToSet(Tools), DetectTool(text) = "cleanup_plan"
  PROVE  text = {"cleanup_plan"}
<1> DEFINE Begin(i) == Tools[i] \in text /\ \A j \in 1 .. i - 1 : Tools[j] \notin text
           m == CHOOSE i \in DOMAIN Tools : Begin(i)
<1>1. DOMAIN Tools = 1 .. 10 /\ ToSet(Tools) = {Tools[i] : i \in 1 .. 10} BY DEF Tools, ToSet
<1>2. text # {} /\ Tools[m] = "cleanup_plan" BY DEF DetectTool
<1>3. \E i \in DOMAIN Tools : Begin(i) BY <1>1, <1>2
<1>4. m \in 1 .. 10 /\ Begin(m)
  <2> HIDE DEF Begin
  <2> QED BY <1>1, <1>3
<1> HIDE DEF m
<1>5. m = 10 BY <1>2, <1>4 DEF Tools
<1>6. \A j \in 1 .. 9 : Tools[j] \notin text BY <1>4, <1>5
<1>7. text \subseteq {Tools[10]}
  <2> SUFFICES ASSUME NEW t \in text PROVE t = Tools[10] OBVIOUS
  <2>1. PICK i \in 1 .. 10 : t = Tools[i] BY <1>1
  <2>2. i \notin 1 .. 9 BY <1>6, <2>1
  <2> QED BY <2>1, <2>2
<1> QED BY <1>2, <1>5, <1>7

LEMMA LoadedTyped == ASSUME ClassicTyped PROVE Loaded \in Seq(Exchange)
<1>1. CASE file = NoInode \/ content[file] = Torn BY <1>1 DEF Loaded
<1>2. CASE ~(file = NoInode \/ content[file] = Torn)
  <2>1. content[file] \in Seq(Exchange) BY <1>2 DEF ClassicTyped
  <2> QED BY <1>2, <2>1, LastKeptIsKept DEF Loaded
<1> QED BY <1>1, <1>2

LEMMA ClassicStart == ClassicInit => ClassicInv
<1> SUFFICES ASSUME ClassicInit PROVE ClassicInv OBVIOUS
<1>1. ClassicTyped BY DEF ClassicInit, ClassicTyped
<1>2. Opened /\ Noticed /\ Apart /\ Alone
  BY DEF ClassicInit, Opened, Noticed, Apart, Alone, Saving
<1>3. LastKept(<<>>) = <<>> BY DEF LastKept
<1>4. HistoryWhole BY <1>3 DEF ClassicInit, HistoryWhole, Loaded
<1> QED BY <1>1, <1>2, <1>4 DEF ClassicInv

USE DEF Step, onDisk, turn, past

LEMMA ClassicTypedStep ==
  ASSUME ClassicInv, [ClassicNext]_classicVars PROVE ClassicTyped'
<1> USE DEF ClassicInv, ClassicTyped
<1>1. CASE UNCHANGED classicVars BY <1>1 DEF classicVars
<1>2. ASSUME NEW c \in Chat, Start(c) PROVE ClassicTyped'
  BY <1>2, LoadedTyped DEF Start
<1>3. ASSUME NEW c \in Chat, NEW text \in Text, Say(c, text) PROVE ClassicTyped'
  BY <1>3 DEF Say
<1>4. ASSUME NEW c \in Chat, RunTool(c) PROVE ClassicTyped' BY <1>4 DEF RunTool
<1>5. ASSUME NEW c \in Chat, Reply(c) PROVE ClassicTyped'
  <2>1. <<c, exchanges>> \in Exchange BY DEF Exchange
  <2>2. Append(history[c], <<c, exchanges>>) \in Seq(Exchange) BY <2>1, AppendProperties
  <2> QED BY <1>5, <2>2 DEF Reply
<1>6. ASSUME NEW c \in Chat, Open(c) PROVE ClassicTyped'
  <2>1. temporary' \in Inode BY <1>6, FreeInode DEF Open
  <2> QED BY <1>6, <2>1 DEF Open
<1>7. ASSUME NEW c \in Chat, Write(c) PROVE ClassicTyped'
  <2>1. LastKept(history[c]) \in Seq(Exchange) \cup {Torn} BY LastKeptIsKept
  <2>2. \E new \in Seq(Exchange) \cup {Torn} : content' = [content EXCEPT ![handle[c]] = new]
    BY <1>7, <2>1 DEF Write
  <2>3. content' \in [Inode -> Seq(Exchange) \cup {Torn}] BY <2>2
  <2> QED BY <1>7, <2>3 DEF Write
<1>8. ASSUME NEW c \in Chat, Replace(c) PROVE ClassicTyped'
  <2>1. CASE temporary = NoInode BY <1>8, <2>1 DEF Replace
  <2>2. CASE temporary # NoInode
    <3>1. history[c] \in Seq(Exchange) OBVIOUS
    <3> QED BY <1>8, <2>2, <3>1 DEF Replace
  <2> QED BY <2>1, <2>2
<1>9. ASSUME NEW c \in Chat, Chmod(c) PROVE ClassicTyped' BY <1>9 DEF Chmod
<1>10. ASSUME NEW c \in Chat, ClearHistory(c) PROVE ClassicTyped' BY <1>10 DEF ClearHistory
<1>11. ASSUME NEW c \in Chat, Die(c) PROVE ClassicTyped' BY <1>11 DEF Die
<1> QED BY <1>1, <1>2, <1>3, <1>4, <1>5, <1>6, <1>7, <1>8, <1>9, <1>10, <1>11 DEF ClassicNext

LEMMA ClassicNoticed ==
  ASSUME ClassicInv, [ClassicNext]_classicVars PROVE Opened' /\ Noticed'
<1> USE DEF ClassicInv, ClassicTyped, Opened, Noticed, Saving
<1>1. CASE UNCHANGED classicVars BY <1>1 DEF classicVars
<1>2. ASSUME NEW c \in Chat, Start(c) PROVE Opened' /\ Noticed'
  BY <1>2 DEF Start
<1>3. ASSUME NEW c \in Chat, NEW text \in Text, Say(c, text) PROVE Opened' /\ Noticed'
  BY <1>3 DEF Say
<1>4. ASSUME NEW c \in Chat, RunTool(c) PROVE Opened' /\ Noticed' BY <1>4 DEF RunTool
<1>5. ASSUME NEW c \in Chat, Reply(c) PROVE Opened' /\ Noticed' BY <1>5 DEF Reply
<1>6. ASSUME NEW c \in Chat, Open(c) PROVE Opened' /\ Noticed'
  <2>1. temporary' \in Inode BY <1>6, FreeInode DEF Open
  <2>2. temporary' # NoInode BY <2>1 DEF Inode
  <2> QED BY <1>6, <2>1, <2>2 DEF Open
<1>7. ASSUME NEW c \in Chat, Write(c) PROVE Opened' /\ Noticed' BY <1>7 DEF Write
<1>8. ASSUME NEW c \in Chat, Replace(c) PROVE Opened' /\ Noticed' BY <1>8 DEF Replace
<1>9. ASSUME NEW c \in Chat, Chmod(c) PROVE Opened' /\ Noticed' BY <1>9 DEF Chmod
<1>10. ASSUME NEW c \in Chat, ClearHistory(c) PROVE Opened' /\ Noticed'
  BY <1>10 DEF ClearHistory
<1>11. ASSUME NEW c \in Chat, Die(c) PROVE Opened' /\ Noticed' BY <1>11 DEF Die
<1> QED BY <1>1, <1>2, <1>3, <1>4, <1>5, <1>6, <1>7, <1>8, <1>9, <1>10, <1>11 DEF ClassicNext

(* The file that counts is safe from the chats that write.                 *)
LEMMA ClassicApart ==
  ASSUME ClassicInv, [ClassicNext]_classicVars PROVE Apart'
<1> USE DEF ClassicInv, ClassicTyped, Apart
<1>1. CASE UNCHANGED classicVars BY <1>1 DEF classicVars
<1>2. ASSUME NEW c \in Chat, Start(c) PROVE Apart' BY <1>2 DEF Start
<1>3. ASSUME NEW c \in Chat, NEW text \in Text, Say(c, text) PROVE Apart' BY <1>3 DEF Say
<1>4. ASSUME NEW c \in Chat, RunTool(c) PROVE Apart' BY <1>4 DEF RunTool
<1>5. ASSUME NEW c \in Chat, Reply(c) PROVE Apart' BY <1>5 DEF Reply
<1>6. ASSUME NEW c \in Chat, Open(c) PROVE Apart'
  <2>1. temporary' # file
    BY <1>6, FreeInode DEF Open
  <2> QED BY <1>6, <2>1 DEF Open
<1>7. ASSUME NEW c \in Chat, Write(c) PROVE Apart' BY <1>7 DEF Write
<1>8. ASSUME NEW c \in Chat, Replace(c) PROVE Apart'
  <2>1. CASE temporary = NoInode BY <1>8, <2>1 DEF Replace
  <2>2. CASE temporary # NoInode
    <3>1. CASE c \in collided BY <1>8, <2>2, <3>1 DEF Replace
    <3>2. CASE c \notin collided
      <4>1. \A d \in Chat : d # c => d \notin Saving BY <1>8, <3>2 DEF Noticed, Replace, Saving
      <4>2. \A d \in Chat : d # c => handle[d] = NoInode BY <4>1 DEF Opened, Saving
      <4> QED BY <1>8, <2>2, <4>2 DEF Replace
    <3> QED BY <3>1, <3>2
  <2> QED BY <2>1, <2>2
<1>9. ASSUME NEW c \in Chat, Chmod(c) PROVE Apart' BY <1>9 DEF Chmod
<1>10. ASSUME NEW c \in Chat, ClearHistory(c) PROVE Apart' BY <1>10 DEF ClearHistory
<1>11. ASSUME NEW c \in Chat, Die(c) PROVE Apart' BY <1>11 DEF Die
<1> QED BY <1>1, <1>2, <1>3, <1>4, <1>5, <1>6, <1>7, <1>8, <1>9, <1>10, <1>11 DEF ClassicNext

(* A save that meets no other one is not disturbed.                        *)
LEMMA ClassicAlone ==
  ASSUME ClassicInv, [ClassicNext]_classicVars PROVE Alone'
<1> USE DEF ClassicInv, ClassicTyped, Alone, Saving
<1>1. CASE UNCHANGED classicVars BY <1>1 DEF classicVars
<1>2. ASSUME NEW c \in Chat, Start(c) PROVE Alone' BY <1>2 DEF Start
<1>3. ASSUME NEW c \in Chat, NEW text \in Text, Say(c, text) PROVE Alone' BY <1>3 DEF Say
<1>4. ASSUME NEW c \in Chat, RunTool(c) PROVE Alone' BY <1>4 DEF RunTool
<1>5. ASSUME NEW c \in Chat, Reply(c) PROVE Alone' BY <1>5 DEF Reply
<1>6. ASSUME NEW c \in Chat, Open(c) PROVE Alone' BY <1>6 DEF Open, Noticed
<1>7. ASSUME NEW c \in Chat, Write(c) PROVE Alone'
  <2>1. \A d \in Saving \ collided : d = c BY <1>7 DEF Noticed, Write
  <2>2. c \notin collided => \A d \in Chat \ {c} : handle[d] = NoInode
    BY <1>7 DEF Noticed, Opened, Write
  <2>3. handle[c] \in Inode BY <1>7 DEF Opened, Write
  <2>4. c \notin collided => content' = [content EXCEPT ![handle[c]] = LastKept(history[c])]
    <3> SUFFICES ASSUME c \notin collided
                 PROVE ~\E d \in Chat \ {c} : handle[d] = handle[c]
      BY <1>7 DEF Write
    <3>1. handle[c] # NoInode BY <2>3 DEF Inode
    <3> QED BY <2>2, <3>1
  <2>5. c \notin collided => content'[handle[c]] = LastKept(history[c]) BY <2>3, <2>4
  <2>6. UNCHANGED <<collided, temporary, handle, history>> BY <1>7 DEF Write
  <2>7. Saving' = Saving BY <1>7 DEF Write
  <2>8. c \notin collided => temporary = handle[c] BY <1>7 DEF Write
  <2>9. LastKept(history[c])' = LastKept(history'[c]) OBVIOUS
  <2> QED BY <2>1, <2>5, <2>6, <2>7, <2>8
<1>8. ASSUME NEW c \in Chat, Replace(c) PROVE Alone'
  <2>1. c \in Saving /\ c \notin Saving' /\ Saving' \subseteq Saving BY <1>8 DEF Replace
  <2>2. collided' = collided BY <1>8 DEF Replace
  <2>3. Saving' \subseteq collided BY <2>1 DEF Noticed
  <2> QED BY <2>2, <2>3
<1>9. ASSUME NEW c \in Chat, Chmod(c) PROVE Alone' BY <1>9 DEF Chmod
<1>10. ASSUME NEW c \in Chat, ClearHistory(c) PROVE Alone' BY <1>10 DEF ClearHistory
<1>11. ASSUME NEW c \in Chat, Die(c) PROVE Alone' BY <1>11 DEF Die
<1> QED BY <1>1, <1>2, <1>3, <1>4, <1>5, <1>6, <1>7, <1>8, <1>9, <1>10, <1>11 DEF ClassicNext

(* What is loaded depends on the file that counts only.                    *)
LEMMA SameLoaded ==
  ASSUME file' = file, file # NoInode => content'[file] = content[file]
  PROVE  Loaded' = Loaded
BY DEF Loaded, LastKept

LEMMA ClassicWhole ==
  ASSUME ClassicInv, [ClassicNext]_classicVars PROVE HistoryWhole'
<1> USE DEF ClassicInv
<1>1. CASE UNCHANGED classicVars
  <2>1. Loaded' = Loaded BY <1>1, SameLoaded DEF classicVars
  <2> QED BY <1>1, <2>1 DEF classicVars, HistoryWhole, LastKept
<1> DEFINE Same == UNCHANGED <<file, content, saved, spoiled>>
<1>2. ASSUME Same, planned' \subseteq {{"cleanup_plan"}} PROVE HistoryWhole'
  <2>1. Loaded' = Loaded BY <1>2, SameLoaded
  <2>2. LastKept(saved)' = LastKept(saved) BY <1>2 DEF LastKept
  <2> QED BY <1>2, <2>1, <2>2 DEF HistoryWhole
<1>3. ASSUME NEW c \in Chat, Start(c) \/ (\E text \in Text : Say(c, text)) \/ Reply(c)
                              \/ Chmod(c) \/ Die(c)
      PROVE  HistoryWhole'
  <2>1. Same /\ planned' = planned BY <1>3 DEF Start, Say, Reply, Chmod, Die
  <2> QED BY <1>2, <2>1 DEF HistoryWhole
<1>4. ASSUME NEW c \in Chat, RunTool(c) PROVE HistoryWhole'
  <2>1. Same BY <1>4 DEF RunTool
  <2>2. CASE DetectTool(said[c]) = "cleanup_plan"
    <3>1. said[c] \in SUBSET ToSet(Tools) BY DEF ClassicTyped
    <3>2. said[c] = {"cleanup_plan"} BY <2>2, <3>1, PlanIsLast
    <3>3. planned' \subseteq planned \cup {said[c]} BY <1>4, <2>2 DEF RunTool
    <3> QED BY <1>2, <2>1, <3>2, <3>3 DEF HistoryWhole
  <2>3. CASE DetectTool(said[c]) # "cleanup_plan"
    <3>1. planned' = planned BY <1>4, <2>3 DEF RunTool
    <3> QED BY <1>2, <2>1, <3>1 DEF HistoryWhole
  <2> QED BY <2>2, <2>3
<1>5. ASSUME NEW c \in Chat, Open(c) PROVE HistoryWhole'
  <2>1. temporary' \in Inode /\ temporary' # file
    BY <1>5, FreeInode DEF Open, ClassicTyped, Apart
  <2>2. content'[file] = content[file] \/ file = NoInode
    BY <1>5, <2>1 DEF Open, ClassicTyped
  <2>3. UNCHANGED <<file, saved, spoiled, planned>> BY <1>5 DEF Open
  <2>4. Loaded' = Loaded BY <2>2, <2>3, SameLoaded
  <2>5. LastKept(saved)' = LastKept(saved) BY <2>3 DEF LastKept
  <2> QED BY <2>3, <2>4, <2>5 DEF HistoryWhole
<1>6. ASSUME NEW c \in Chat, Write(c) PROVE HistoryWhole'
  <2>1. UNCHANGED <<file, saved, spoiled, planned>> BY <1>6 DEF Write
  <2>2. CASE spoiled BY <2>1, <2>2 DEF HistoryWhole
  <2>3. CASE ~spoiled
    <3>1. file # NoInode => handle[c] # file BY <2>3 DEF Apart
    <3>2. file # NoInode => content'[file] = content[file]
      BY <1>6, <3>1 DEF Write, ClassicTyped
    <3>3. Loaded' = Loaded BY <2>1, <3>2, SameLoaded
    <3>4. LastKept(saved)' = LastKept(saved) BY <2>1 DEF LastKept
    <3> QED BY <2>1, <3>3, <3>4 DEF HistoryWhole
  <2> QED BY <2>2, <2>3
<1>7. ASSUME NEW c \in Chat, Replace(c) PROVE HistoryWhole'
  <2>1. CASE temporary = NoInode
    <3>1. Same /\ planned' = planned BY <1>7, <2>1 DEF Replace
    <3> QED BY <1>2, <3>1 DEF HistoryWhole
  <2>2. CASE temporary # NoInode
    <3>1. /\ planned' = planned /\ content' = content /\ file' = temporary
          /\ saved' = history[c] /\ spoiled' = (c \in collided)
      BY <1>7, <2>2 DEF Replace
    <3>2. CASE c \in collided BY <3>1, <3>2 DEF HistoryWhole
    <3>3. CASE c \notin collided
      <4>1. temporary = handle[c] /\ content[handle[c]] = LastKept(history[c])
        BY <1>7, <3>3 DEF Alone, Saving, Replace
      <4>2. history[c] \in Seq(Exchange) BY DEF ClassicTyped
      <4> DEFINE kept == LastKept(history[c])
      <4>3. kept \in Seq(Exchange) /\ LastKept(kept) = kept BY <4>2, LastKeptIsKept
      <4>4. content'[file'] = kept /\ file' # NoInode BY <2>2, <3>1, <4>1
      <4> HIDE DEF kept
      <4>5. kept # Torn BY <4>3
      <4>6. Loaded' = LastKept(content[file])' BY <4>4, <4>5 DEF Loaded
      <4>7. LastKept(content[file])' = LastKept(kept) BY <4>4 DEF LastKept
      <4>8. LastKept(saved)' = kept BY <3>1 DEF kept, LastKept
      <4> QED BY <3>1, <4>3, <4>6, <4>7, <4>8 DEF HistoryWhole
    <3> QED BY <3>2, <3>3
  <2> QED BY <2>1, <2>2
<1>8. ASSUME NEW c \in Chat, ClearHistory(c) PROVE HistoryWhole'
  <2>1. file' = NoInode /\ saved' = <<>> /\ planned' = planned BY <1>8 DEF ClearHistory
  <2>2. LastKept(saved)' = <<>> BY <2>1 DEF LastKept
  <2>3. Loaded' = <<>> BY <2>1 DEF Loaded
  <2> QED BY <2>1, <2>2, <2>3 DEF HistoryWhole
<1> QED BY <1>1, <1>3, <1>4, <1>5, <1>6, <1>7, <1>8 DEF ClassicNext

(* A chat that starts finds what was saved last, whole and in order,       *)
(* wherever the chats before it died, unless two saved at the same time.   *)
THEOREM SavedHistoryWhole == ClassicSpec => []HistoryWhole
<1>1. ClassicInv => HistoryWhole BY DEF ClassicInv
<1>2. ClassicInv /\ [ClassicNext]_classicVars => ClassicInv'
  BY ClassicTypedStep, ClassicNoticed, ClassicApart, ClassicAlone, ClassicWhole DEF ClassicInv
<1> QED BY <1>1, <1>2, ClassicStart, PTL DEF ClassicSpec
=============================================================================
