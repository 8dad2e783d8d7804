---------------------------- MODULE ChatSessions ----------------------------
(***************************************************************************)
(* Conversations in the state database: the terminal interface, whose runs *)
(* are worker threads that use the app's fields while its event loop       *)
(* changes them, and a terminal chat in another process, which compacts    *)
(* the context and may have the same session open.                         *)
(*                                                                         *)
(* Abstractions.  A run is one submitted text; a message is its run and    *)
(* role.  Both programs use one provider and model.  A database call is    *)
(* one step; the chat loads a history and keeps its summary, which nobody  *)
(* else writes, in one.  updated_at orders the sessions (`recent`: latest  *)
(* first).  Of the agent loop (AgentRuntime) there is the signal check at  *)
(* the top of a turn, the first event, later events, and the result.       *)
(***************************************************************************)
EXTENDS Naturals, Sequences, SequencesExt, Subsequences, FiniteSets

CONSTANTS
  AppRun, TermRun,  \* texts submitted in the interface, and in the chat
  Naming,           \* those whose messages say "approval" or "plan_id"
  NoRun,
  AppLimit, TermLimit,          \* messages loaded: 40 and 60
  MaxMessages, TailMessages, MaxFacts,  \* ContextCompactor: 24, 10 and 12
  MaxSessions, MaxClears        \* bounds

Run == AppRun \cup TermRun
ASSUME RunAssumption ==
  /\ AppRun \cap TermRun = {} /\ Naming \subseteq Run /\ NoRun \notin Run
  /\ {AppLimit, TermLimit, MaxMessages, TailMessages, MaxFacts, MaxSessions} \subseteq Nat \ {0}
  /\ TailMessages <= MaxMessages /\ MaxClears \in Nat

Message == [run : Run, role : {"user", "assistant"}]
Session == 1 .. MaxSessions

VARIABLES
  messages, summary,   \* chat_messages and chat_sessions.summary
  recent,              \* the sessions that exist, by updated_at
  appSession, termSession,  \* what the programs have open, 0 before they start
  active,              \* the app's active_run_id
  place,               \* where a run is
  prompt,              \* the earlier messages a run sent to its model
  signalled, turns,    \* cancel signal not consumed; model turns since it came
  home, answered,      \* history: the session of a question, of its answer
  moved, mixed,        \* history: runs during which the app changed its
                       \* session; something came after their question
  overlap, shown,      \* history: runs not alone; those whose event was the last
  due,                 \* history: runs that a cancel was for
  clears

chatVars == <<messages, summary, recent, appSession, termSession, active, place, prompt,
              signalled, turns, home, answered, moved, mixed, overlap, shown, due, clears>>
store == <<messages, summary, recent>>
opened == <<appSession, termSession>>
cancel == <<signalled, turns, due>>
where == <<home, answered, moved, mixed, clears>>

ChatInit ==
  /\ messages = [s \in Session |-> <<>>] /\ summary = [s \in Session |-> {}]
  /\ recent = <<>> /\ appSession = 0 /\ termSession = 0 /\ active = NoRun
  /\ place = [r \in Run |-> "new"] /\ prompt = [r \in Run |-> <<>>]
  /\ signalled = {} /\ turns = [r \in Run |-> 0]
  /\ home = [r \in Run |-> 0] /\ answered = [r \in Run |-> 0]
  /\ moved = {} /\ mixed = {} /\ overlap = {} /\ shown = {} /\ due = {}
  /\ clears = 0

Put(r, p) == place' = [place EXCEPT ![r] = p]
LastOf(seq, n) == SubSeq(seq, IF Len(seq) > n THEN Len(seq) - n + 1 ELSE 1, Len(seq))
Working == {r \in AppRun : place[r] \notin {"new", "done", "raised"}}

(* ChatStore.create, latest and add.                                       *)
New == Len(recent) + 1
Created == Len(recent) < MaxSessions /\ recent' = <<New>> \o recent
Stored(s, r, role) ==
  /\ messages' = [messages EXCEPT ![s] = Append(@, [run |-> r, role |-> role])]
  /\ recent' = <<s>> \o Among(recent, Session \ {s})
  /\ UNCHANGED summary
(* A message enters session s: a question there is not the last any more.  *)
Enters(s, r) ==
  mixed' = mixed \cup {q \in Run \ {r} : home[q] = s /\ place[q] \in {"started", "loaded"}}

(* A program starts: the latest session, or one of its own.                *)
OpenApp ==
  /\ appSession = 0 /\ UNCHANGED <<messages, summary>>
  /\ \/ Created /\ appSession' = New
     \/ recent # <<>> /\ appSession' = Head(recent) /\ UNCHANGED recent
  /\ UNCHANGED <<termSession, active, place, prompt, cancel, where, overlap, shown>>

OpenTerm ==
  /\ termSession = 0 /\ UNCHANGED <<messages, summary>>
  /\ \/ Created /\ termSession' = New
     \/ recent # <<>> /\ termSession' = Head(recent) /\ UNCHANGED recent
  /\ UNCHANGED <<appSession, active, place, prompt, cancel, where, overlap, shown>>

-----------------------------------------------------------------------------
(* The interface.                                                          *)

(* on_input_submitted stores the text and starts a worker; an earlier one  *)
(* is marked cancelled, and its thread goes on.                            *)
Submit(r) ==
  /\ appSession # 0 /\ place[r] = "new"
  /\ Stored(appSession, r, "user") /\ Put(r, "started")
  /\ home' = [home EXCEPT ![r] = appSession]
  /\ Enters(appSession, r)
  /\ overlap' = IF Working = {} THEN overlap ELSE overlap \cup Working \cup {r}
  /\ UNCHANGED <<opened, active, prompt, cancel, answered, moved, shown, clears>>

(* The worker: the session's messages without the last, for the question   *)
(* has been stored.                                                        *)
ReadHistory(r) ==
  /\ place[r] = "started"
  /\ LET loaded == LastOf(messages[appSession], AppLimit)
     IN prompt' = [prompt EXCEPT ![r] = IF loaded = <<>> THEN loaded ELSE Front(loaded)]
  /\ Put(r, "turn")
  /\ UNCHANGED <<store, opened, active, cancel, where, overlap, shown>>

\* Mistake: the field is set by the run's result only.
NotSeen(r) == shown' = shown \cup {r} /\ UNCHANGED active

(* An event reaches _event_from_worker.                                    *)
Seen(r) == active' = r /\ shown' = shown \cup {r}

(* run.started, or the first event of a later turn.                        *)
EmitEvent(r) ==
  /\ place[r] = "turn" /\ Put(r, "check") /\ Seen(r)
  /\ UNCHANGED <<store, opened, prompt, cancel, where, overlap>>

(* The top of a turn: a signal is consumed, or the model is asked.         *)
Check(r) ==
  /\ place[r] = "check"
  /\ IF r \in signalled
     THEN signalled' = signalled \ {r} /\ Put(r, "cancelled") /\ UNCHANGED turns
     ELSE Put(r, "model") /\ UNCHANGED <<signalled, turns>>
  /\ UNCHANGED <<store, opened, active, prompt, due, where, overlap, shown>>

(* The turn ends: another one follows, or the run has its result, which    *)
(* sets active_run_id once more.                                           *)
EndTurn(r) ==
  /\ place[r] = "model"
  /\ turns' = [turns EXCEPT ![r] = IF r \in signalled THEN @ + 1 ELSE @]
  /\ place' \in {[place EXCEPT ![r] = p] : p \in {"turn", "result"}}
  /\ UNCHANGED <<store, opened, active, prompt, signalled, due, where, overlap, shown>>

Result(r) ==
  /\ place[r] \in {"result", "cancelled"}
  /\ active' = r /\ Put(r, "answer")
  /\ UNCHANGED <<store, opened, prompt, cancel, where, overlap, shown>>

\* Mistake: the answer goes to the session that was updated last.
StoreInLatest(r) ==
  /\ place[r] = "answer" /\ Put(r, "done")
  /\ Stored(Head(recent), r, "assistant") /\ Enters(Head(recent), r)
  /\ answered' = [answered EXCEPT ![r] = Head(recent)]
  /\ UNCHANGED <<opened, active, prompt, cancel, home, moved, overlap, shown, clears>>

(* The answer goes to the session that is open now.                        *)
StoreAnswer(r) ==
  /\ place[r] = "answer" /\ Put(r, "done")
  /\ Stored(appSession, r, "assistant") /\ Enters(appSession, r)
  /\ answered' = [answered EXCEPT ![r] = appSession]
  /\ UNCHANGED <<opened, active, prompt, cancel, home, moved, overlap, shown, clears>>

(* The run raises: an error is shown, and no answer stored.                *)
RunRaises(r) ==
  /\ r \in Working /\ Put(r, "raised")
  /\ UNCHANGED <<store, opened, active, prompt, cancel, where, overlap, shown>>

ActionNewSession ==
  /\ appSession # 0 /\ Created /\ appSession' = New /\ active' = NoRun
  /\ moved' = moved \cup Working /\ shown' = {}
  /\ UNCHANGED <<messages, summary, termSession, place, prompt, cancel, home, answered, mixed,
                 overlap, clears>>

(* The signal goes to active_run_id, which may have ended.                 *)
ActionCancelRun ==
  /\ appSession # 0 /\ active # NoRun
  /\ signalled' = signalled \cup {active}
  /\ due' = due \cup {r \in Working \cap shown : place[r] # "answer" /\ r \notin overlap}
  /\ UNCHANGED <<store, opened, active, place, prompt, turns, where, overlap, shown>>

-----------------------------------------------------------------------------
(* The terminal chat.                                                      *)

(* ContextCompactor.build_context, the summary kept as a set of messages.  *)
Protected == {m \in Message : m.run \in Naming}
Older(loaded) == SubSeq(loaded, 1, Len(loaded) - TailMessages)
Facts(loaded) == LastOf(Among(Older(loaded), Message \ Protected), MaxFacts)
Context(loaded) == Among(Older(loaded), Protected) \o LastOf(loaded, TailMessages)

(* Between two texts nothing else of this process runs.                    *)
Prompting == termSession # 0 /\ \A r \in TermRun : place[r] \in {"new", "done"}

(* The history is loaded, compacted if it is long, and the summary stored. *)
LoadContext(r) ==
  /\ Prompting /\ place[r] = "new"
  /\ LET loaded == LastOf(messages[termSession], TermLimit)
     IN IF Len(loaded) > MaxMessages
        THEN /\ prompt' = [prompt EXCEPT ![r] = Context(loaded)]
             /\ summary' = [summary EXCEPT ![termSession] = @ \cup ToSet(Facts(loaded))]
        ELSE prompt' = [prompt EXCEPT ![r] = loaded] /\ UNCHANGED summary
  /\ home' = [home EXCEPT ![r] = termSession]
  /\ Put(r, "loaded")
  /\ UNCHANGED <<messages, recent, opened, active, cancel, answered, moved, mixed, overlap,
                 shown, clears>>

Ask(r) ==
  /\ place[r] = "loaded" /\ Put(r, "asked")
  /\ Stored(termSession, r, "user") /\ Enters(termSession, r)
  /\ UNCHANGED <<opened, active, prompt, cancel, home, answered, moved, overlap, shown, clears>>

(* The answer, or an error that is printed and stores nothing.             *)
Answer(r) ==
  /\ place[r] = "asked" /\ Put(r, "done")
  /\ \/ /\ Stored(termSession, r, "assistant") /\ Enters(termSession, r)
        /\ answered' = [answered EXCEPT ![r] = termSession]
     \/ UNCHANGED <<store, answered, mixed>>
  /\ UNCHANGED <<opened, active, prompt, cancel, home, moved, overlap, shown, clears>>

CommandNew ==
  /\ Prompting /\ Created /\ termSession' = New
  /\ UNCHANGED <<messages, summary, appSession, active, place, prompt, cancel, where, overlap,
                 shown>>

(* /clear.                                                                 *)
Clear ==
  /\ Prompting /\ clears < MaxClears /\ clears' = clears + 1
  /\ messages' = [messages EXCEPT ![termSession] = <<>>]
  /\ summary' = [summary EXCEPT ![termSession] = {}]
  /\ UNCHANGED <<recent, mixed, opened, active, place, prompt, cancel, home, answered, moved,
                 overlap, shown>>

ChatNext ==
  \/ OpenApp \/ OpenTerm \/ ActionNewSession \/ ActionCancelRun \/ CommandNew \/ Clear
  \/ \E r \in AppRun : \/ Submit(r) \/ ReadHistory(r) \/ EmitEvent(r) \/ Check(r)
                       \/ EndTurn(r) \/ Result(r) \/ StoreAnswer(r) \/ RunRaises(r)
  \/ \E r \in TermRun : LoadContext(r) \/ Ask(r) \/ Answer(r)

ChatSpec == ChatInit /\ [][ChatNext]_chatVars

(* A conversation stays together while two programs, worker threads and    *)
(* new sessions interleave: the answer to a question follows it in its     *)
(* session if the app's session was not changed meanwhile (if it was, the  *)
(* answer is in the one that is open then); and what the model was sent is *)
(* what came before the question: of the app all of it, if nothing came    *)
(* between storing the question and reading; of the terminal chat the      *)
(* last messages and those that name an approval, in order, the others in  *)
(* the summary or left out as too many.                                    *)
ConversationKept ==
  \A r \in Run :
    LET said     == messages[home[r]]
        question == {i \in DOMAIN said : said[i] = [run |-> r, role |-> "user"]}
        earlier(limit) == LastOf(SubSeq(said, 1, (CHOOSE i \in question : TRUE) - 1), limit)
    IN /\ answered[r] # 0 /\ r \notin moved => answered[r] = home[r]
       /\ home[r] # 0 /\ question # {} /\ r \notin mixed =>
            /\ r \in AppRun /\ place[r] \notin {"started", "raised"} /\ r \notin moved =>
                 prompt[r] = earlier(AppLimit - 1)
            /\ r \in TermRun =>
                 LET before == earlier(TermLimit)
                     sent   == ToSet(prompt[r])
                 IN /\ prompt[r] = Among(before, sent)
                    /\ IsSuffix(LastOf(before, TailMessages), prompt[r])
                    /\ \A i \in DOMAIN before : before[i] \notin sent =>
                         /\ before[i].run \notin Naming
                         /\ \/ before[i] \in summary[home[r]]
                            \/ Cardinality({j \in DOMAIN before : j > i /\ before[j] \notin sent})
                                 >= MaxFacts

(* Ctrl+C reaches the run on the screen: if that run works alone and its   *)
(* event came last in this session, it is signalled until it is cancelled  *)
(* or has ended, and a signalled run ends at most one more model turn.     *)
CancelStopsShownRun ==
  \A r \in AppRun :
    /\ r \in due => r \in signalled \/ place[r] \in {"cancelled", "answer", "done", "raised"}
    /\ turns[r] <= 1
=============================================================================
