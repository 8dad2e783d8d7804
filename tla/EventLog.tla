------------------------------ MODULE EventLog ------------------------------
(***************************************************************************)
(* The events and signals of one run in the state database, with several   *)
(* invocations of the run at work at once: the first one and those that    *)
(* resume it while it goes on.  append_event selects the last event and    *)
(* inserts the next one, consume_signal selects a signal and marks it; no  *)
(* transaction is open while they select, and UNIQUE(run_id, sequence) is  *)
(* all there is between two writers.                                       *)
(*                                                                         *)
(* Abstractions.  The hash of an event stands for its identity, writer and *)
(* sequence; all signals are cancel signals; what the loop does between    *)
(* two events is in AgentRuntime.                                          *)
(***************************************************************************)
EXTENDS Naturals, Sequences, FiniteSets

CONSTANTS
  Writer, First,          \* invocations of the run, and the one that created it
  NoEvent,
  MaxEvents, MaxSignals   \* bounds

ASSUME WriterAssumption ==
  First \in Writer /\ MaxEvents \in Nat \ {0} /\ MaxSignals \in Nat

Sequence == 1 .. MaxEvents
Event == Writer \X Sequence
ASSUME NoEventAssumption == NoEvent \notin Event
EventRow == [sequence : Sequence, parent : Event \cup {NoEvent}, event : Event]

VARIABLES
  events,    \* agent_events
  signals,   \* agent_signals, by id: consumed or not
  stage,     \* where an invocation is
  closing,   \* "no", or the event it ends with
  chosen,    \* the sequence and parent that append_event has chosen
  picked,    \* the signals that consume_signal has returned to it, or will
  position, polled  \* a reader of list_events(after): its position, what it got

logVars == <<events, signals, stage, closing, chosen, picked, position, polled>>

LogInit ==
  /\ events = {[sequence |-> 1, parent |-> NoEvent, event |-> <<First, 1>>]}
  /\ signals = <<>>
  /\ stage = [w \in Writer |-> "idle"] /\ closing = [w \in Writer |-> "no"]
  /\ chosen = [w \in Writer |-> [sequence |-> 1, parent |-> NoEvent]]
  /\ picked = [w \in Writer |-> {}]
  /\ position = 0 /\ polled = {}

Go(w, place) == stage' = [stage EXCEPT ![w] = place]
Newest(R) == CHOOSE r \in R : \A s \in R : s.sequence <= r.sequence
Unconsumed == {i \in DOMAIN signals : ~signals[i]}

Invoke(w) ==
  /\ stage[w] = "idle" /\ Go(w, "check")
  /\ UNCHANGED <<events, signals, closing, chosen, picked, position, polled>>

SignalCancel ==
  /\ Len(signals) < MaxSignals
  /\ signals' = Append(signals, FALSE)
  /\ UNCHANGED <<events, stage, closing, chosen, picked, position, polled>>

(* consume_signal: the oldest unconsumed one is selected ...               *)
SelectSignal(w) ==
  /\ stage[w] = "check"
  /\ IF Unconsumed = {} THEN Go(w, "emit") /\ UNCHANGED picked
     ELSE /\ picked' = [picked EXCEPT ![w] = {CHOOSE i \in Unconsumed : \A j \in Unconsumed : i <= j}]
          /\ Go(w, "mark")
  /\ UNCHANGED <<events, signals, closing, chosen, position, polled>>

(* ... and updated by its id; the loop then cancels.                       *)
MarkSignal(w) ==
  /\ stage[w] = "mark"
  /\ signals' = [i \in DOMAIN signals |-> signals[i] \/ i \in picked[w]]
  /\ closing' = [closing EXCEPT ![w] = "cancelled"]
  /\ Go(w, "emit")
  /\ UNCHANGED <<events, chosen, picked, position, polled>>

(* append_event selects ...                                                *)
SelectLast(w) ==
  /\ stage[w] = "emit" /\ Cardinality(events) < MaxEvents
  /\ chosen' = [chosen EXCEPT ![w] = [sequence |-> Newest(events).sequence + 1,
                                  parent |-> Newest(events).event]]
  /\ Go(w, "insert")
  /\ UNCHANGED <<events, signals, closing, picked, position, polled>>

(* An event of the loop is followed by another one, by the next check, or  *)
(* by the end of the invocation; a closing event ends it.                  *)
Emitted(w) ==
  IF closing[w] = "no" THEN \E place \in {"emit", "check", "ended"} : Go(w, place)
  ELSE Go(w, "ended")

RowOf(w) == [sequence |-> chosen[w].sequence, parent |-> chosen[w].parent,
             event |-> <<w, chosen[w].sequence>>]

\* Mistake: the table has no UNIQUE(run_id, sequence).
InsertUnchecked(w) ==
  /\ stage[w] = "insert"
  /\ events' = events \cup {RowOf(w)} /\ Emitted(w)
  /\ UNCHANGED <<signals, closing, chosen, picked, position, polled>>

(* ... and inserts, unless the sequence is taken.                          *)
Insert(w) ==
  /\ stage[w] = "insert"
  /\ \A r \in events : r.sequence # chosen[w].sequence
  /\ events' = events \cup {RowOf(w)} /\ Emitted(w)
  /\ UNCHANGED <<signals, closing, chosen, picked, position, polled>>

(* The insert raises: the sequence is taken, or the database is locked.    *)
(* run() then appends run.failed, and when that raises too, it raises.     *)
InsertFails(w) ==
  /\ stage[w] = "insert"
  /\ IF closing[w] = "failed" THEN Go(w, "ended") /\ UNCHANGED closing
     ELSE closing' = [closing EXCEPT ![w] = "failed"] /\ Go(w, "emit")
  /\ UNCHANGED <<events, signals, chosen, picked, position, polled>>

(* list_events(after_sequence).                                            *)
Poll ==
  LET fresh == {r \in events : r.sequence > position}
  IN /\ fresh # {}
     /\ polled' = polled \cup fresh /\ position' = Newest(fresh).sequence
     /\ UNCHANGED <<events, signals, stage, closing, chosen, picked>>

LogNext ==
  \/ SignalCancel \/ Poll
  \/ \E w \in Writer : \/ Invoke(w) \/ SelectSignal(w) \/ MarkSignal(w)
                       \/ SelectLast(w) \/ Insert(w) \/ InsertFails(w)

LogSpec == LogInit /\ [][LogNext]_logVars

(* However the invocations interleave, fail or stop: the events of the run *)
(* form one chain without gap or fork, a reader that asks for what comes   *)
(* after its position misses none, and each consumed signal was taken by   *)
(* an invocation that does not go on.                                      *)
RecordHolds ==
  /\ \A r \in events :
       IF r.sequence = 1 THEN r.parent = NoEvent
       ELSE \E p \in events : p.sequence = r.sequence - 1 /\ r.parent = p.event
  /\ \A r, s \in events : r.sequence = s.sequence => r = s
  /\ polled = {r \in events : r.sequence <= position}
  /\ \A i \in DOMAIN signals : signals[i] =>
       \E w \in Writer : i \in picked[w] /\ closing[w] # "no"
=============================================================================
