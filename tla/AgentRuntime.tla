---------------------------- MODULE AgentRuntime ----------------------------
(***************************************************************************)
(* One durable run of the bounded agent loop (runtime/loop.py) with its    *)
(* state machine (state.py), budget (limits.py), policy (policy.py) and    *)
(* the rows it keeps in SQLite (store.py): the model is asked, its tool    *)
(* calls are validated, executed and saved under an idempotency key, until *)
(* an answer, a limit, a request for approval, a cancel or an error ends   *)
(* the invocation.  Another process may post a cancel signal at any time;  *)
(* the loop may be killed at any point and the run be resumed.             *)
(*                                                                         *)
(* Abstractions.  A tool stands for a tool name with its arguments.  Of    *)
(* the event log only the last event that closes an invocation is kept.    *)
(* The model is external: any answer, any call id.  `error`, messages and  *)
(* payloads are left out.                                                  *)
(***************************************************************************)
EXTENDS Naturals, Sequences, FiniteSetsExt

CONSTANTS
  Tool,            \* tool calls the model may propose (name and arguments)
  Known,           \* those the registry has and whose arguments are valid
  Modifying,       \* tools that are not read_only
  NeedsApproval,   \* tools whose policy says approval = "always"
  Plans,           \* tools whose result says approval_required
  CallId,          \* call ids the model gives its proposals
  Proposal,        \* bound: the proposals the model makes, <<call id, tool>>
  MaxTurns, MaxCalls, MaxSame,  \* LoopBudget: 6, 8 and 2 in the code
  MaxProposals,    \* bound: how many calls one model turn proposes
  MaxInvocations,  \* bound: how often the run is started or resumed
  MaxFaults        \* bound: how many exceptions and kills

ASSUME ToolAssumption ==
  /\ Known \subseteq Tool /\ NeedsApproval \subseteq Modifying
  /\ Proposal \subseteq CallId \X Tool
ASSUME BoundAssumption ==
  /\ MaxTurns \in Nat /\ MaxCalls \in Nat /\ MaxSame \in Nat
  /\ MaxProposals \in Nat /\ MaxInvocations \in Nat /\ MaxFaults \in Nat
  /\ IsFiniteSet(Proposal)

RunState == {"planning", "waiting_model", "validating_tool", "running_tool",
             "observing", "waiting_approval", "completed", "failed", "cancelled"}
Terminal == {"completed", "failed", "cancelled"}

(* _TRANSITIONS; "idle" is left before the first step of a run.            *)
Transitions ==
  [planning         |-> {"waiting_model", "cancelled", "failed"},
   waiting_model    |-> {"validating_tool", "completed", "cancelled", "failed"},
   validating_tool  |-> {"running_tool", "waiting_approval", "failed", "cancelled"},
   running_tool     |-> {"observing", "failed", "cancelled"},
   observing        |-> {"waiting_model", "completed", "failed", "cancelled"},
   waiting_approval |-> {"running_tool", "cancelled", "failed"},
   completed        |-> {}, failed |-> {}, cancelled |-> {}]

VARIABLES
  row,         \* agent_runs.state, "none" until create_run
  reason,      \* agent_runs.stop_reason
  closed,      \* the last event that closes an invocation
  saved,       \* table tool_executions: the calls with a stored result
  signal,      \* an unconsumed CANCEL signal is in agent_signals
  safe,        \* RuntimePolicy.safe_mode of the process that runs it
  pc,          \* where the invocation is, "idle" when none runs
  machine,     \* RunStateMachine.state
  turns, calls, same,  \* LoopBudget counters
  queue,       \* the proposals of this turn still to be handled
  outcome,     \* how the invocation is about to end
  result,      \* the state the last invocation returned
  wanted,      \* history: this invocation came upon a need for approval
  asked, ran,  \* history of the run: model calls, executions of each call
  late,        \* history: model turns begun since a CANCEL is pending
  invocations, faults

durable == <<row, reason, closed, saved, signal>>
budget  == <<turns, calls, same>>
history == <<asked, ran, late, invocations, faults>>
vars    == <<durable, safe, pc, machine, budget, queue, outcome,
             result, wanted, history>>

NoOutcome == [event |-> "none", state |-> "none", reason |-> "none", handler |-> FALSE]
Event == {"none", "run.completed", "run.failed", "run.cancelled", "approval.requested"}
Location == {"idle", "top", "turn", "model", "proposal", "tool", "ran", "done",
             "closing", "closed"}

Init ==
  /\ row = "none" /\ reason = "none" /\ closed = "none" /\ saved = {} /\ signal = FALSE
  /\ safe = FALSE /\ pc = "idle" /\ machine = "planning"
  /\ turns = 0 /\ calls = 0 /\ same = [t \in Tool |-> 0]
  /\ queue = <<>> /\ outcome = NoOutcome /\ result = "none" /\ wanted = FALSE
  /\ asked = 0 /\ ran = [c \in Proposal |-> 0] /\ late = 0
  /\ invocations = 0 /\ faults = 0

-----------------------------------------------------------------------------
Call == Head(queue)
Goto(from, to) == pc \in from /\ pc' = to
Can(target) == target \in Transitions[machine]

(* What the invocation held in memory is gone: the next one has a machine, *)
(* a token, a budget and messages of its own.                              *)
Forget ==
  /\ pc' = "idle" /\ machine' = "planning" /\ safe' = FALSE
  /\ turns' = 0 /\ calls' = 0 /\ same' = [t \in Tool |-> 0]
  /\ queue' = <<>> /\ outcome' = NoOutcome /\ late' = 0

(* The way out: an event is written, then the row (CloseEvent, CloseRow);  *)
(* the proposals that are left are never looked at again.                  *)
Close(event, state, why, handler) ==
  /\ pc' = "closing" /\ queue' = <<>>
  /\ outcome' = [event |-> event, state |-> state, reason |-> why, handler |-> handler]

(* except Exception: the machine fails unless it has already ended.        *)
Handler ==
  /\ Close("run.failed", "failed", "error", TRUE)
  /\ machine' = IF machine \in Terminal THEN machine ELSE "failed"

(* except LoopLimitError: the machine stays where it is.                   *)
LimitHandler(why) ==
  /\ Close("run.failed", "failed", why, TRUE)
  /\ UNCHANGED machine

(* A transition the machine may not allow: then it raises.                 *)
AskApproval(why) ==
  /\ wanted' = TRUE
  /\ \/ /\ Can("waiting_approval")
        /\ machine' = "waiting_approval"
        /\ Close("approval.requested", "waiting_approval", why, FALSE)
     \/ ~Can("waiting_approval") /\ Handler

-----------------------------------------------------------------------------
(* run(): create_run, or load_run of the run to resume.                    *)
Invoke ==
  /\ Goto({"idle"}, "top")
  /\ invocations < MaxInvocations
  /\ invocations' = invocations + 1
  /\ row' = IF row = "none" THEN "planning" ELSE row
  /\ machine' = row'
  /\ safe' \in BOOLEAN
  /\ result' = "none" /\ wanted' = FALSE
  /\ UNCHANGED <<reason, closed, saved, signal, budget, queue,
                 outcome, asked, ran, late, faults>>

(* Top of the loop: a pending CANCEL is consumed and cancels the token; a  *)
(* caller may have cancelled it too, at any time.                          *)
CancelRun ==
  /\ pc = "top"
  /\ signal' = FALSE
  /\ late' = 0
  /\ machine' = IF machine \in Terminal THEN machine ELSE "cancelled"
  /\ Close("run.cancelled", "cancelled", "cancelled", FALSE)
  /\ UNCHANGED <<safe, row, reason, closed, saved, budget, result, wanted,
                 asked, ran, invocations, faults>>

\* Mistake: only the token is looked at, never the signal.
IgnoresSignal ==
  /\ Goto({"top"}, "turn")
  /\ machine' = IF machine \in {"planning", "observing"} THEN "waiting_model" ELSE machine
  /\ UNCHANGED <<durable, safe, budget, queue, outcome, result, wanted, history>>

GoOn ==
  /\ ~signal
  /\ Goto({"top"}, "turn")
  /\ machine' = IF machine \in {"planning", "observing"} THEN "waiting_model" ELSE machine
  /\ UNCHANGED <<durable, safe, budget, queue, outcome, result, wanted,
                 history>>

(* record_model_turn, then the model is called.  The runtime limit may     *)
(* have passed whenever the budget reads the clock.                        *)
BeginTurn ==
  /\ turns < MaxTurns
  /\ Goto({"turn"}, "model")
  /\ turns' = turns + 1
  /\ asked' = asked + 1
  /\ late' = IF signal THEN late + 1 ELSE late
  /\ UNCHANGED <<durable, safe, machine, calls, same, queue, outcome,
                 result, wanted, ran, invocations, faults>>

TurnLimit ==
  /\ pc = "turn"
  /\ \/ LimitHandler("runtime_limit")
     \/ turns >= MaxTurns /\ LimitHandler("model_turn_limit")
  /\ UNCHANGED <<durable, safe, budget, result, wanted, history>>

(* The model answers without a tool call.                                  *)
FinalAnswer ==
  /\ pc = "model"
  /\ \/ /\ Can("completed")
        /\ machine' = "completed"
        /\ Close("run.completed", "completed", "final_answer", FALSE)
     \/ ~Can("completed") /\ Handler
  /\ UNCHANGED <<durable, safe, budget, result, wanted, history>>

ProposeTools(proposals) ==
  /\ pc = "model"
  /\ \/ /\ Can("validating_tool")
        /\ machine' = "validating_tool"
        /\ pc' = "proposal" /\ queue' = proposals
        /\ UNCHANGED outcome
     \/ ~Can("validating_tool") /\ Handler
  /\ UNCHANGED <<durable, safe, budget, result, wanted, history>>

-----------------------------------------------------------------------------
(* One proposal: record_tool_call, prepare and authorize.                  *)

\* Mistakes: off by one, and identical calls not counted.
LimitTooLate(t) ==
  CASE calls > MaxCalls     -> "tool_call_limit"
    [] same[t] >= MaxSame   -> "repeated_tool_call"
    [] OTHER                -> "none"
CountsCallsOnly(t) == calls' = calls + 1 /\ UNCHANGED <<same, turns>>

Limit(t) ==
  CASE calls >= MaxCalls    -> "tool_call_limit"
    [] same[t] >= MaxSame   -> "repeated_tool_call"
    [] OTHER                -> "none"
Refused(t) == t \notin Known \/ (safe /\ t \in Modifying)
Record(t) == calls' = calls + 1 /\ same' = [same EXCEPT ![t] = @ + 1] /\ UNCHANGED turns

CallLimit ==
  /\ pc = "proposal"
  /\ \/ LimitHandler("runtime_limit")
     \/ Limit(Call[2]) # "none" /\ LimitHandler(Limit(Call[2]))
  /\ UNCHANGED <<durable, safe, budget, result, wanted, history>>

RefuseCall ==
  /\ pc = "proposal"
  /\ Limit(Call[2]) = "none" /\ Refused(Call[2])
  /\ Record(Call[2])
  /\ Handler
  /\ UNCHANGED <<durable, safe, result, wanted, history>>

RequestApproval ==
  /\ pc = "proposal"
  /\ Limit(Call[2]) = "none" /\ ~Refused(Call[2]) /\ Call[2] \in NeedsApproval
  /\ Record(Call[2])
  /\ AskApproval("approval_required")
  /\ UNCHANGED <<durable, safe, result, history>>

\* Mistake: the decision's requires_approval is not looked at.
AllowsWithoutApproval ==
  /\ Goto({"proposal"}, "tool")
  /\ Limit(Call[2]) = "none" /\ ~Refused(Call[2])
  /\ Record(Call[2])
  /\ machine' = IF machine = "validating_tool" THEN "running_tool" ELSE machine
  /\ UNCHANGED <<durable, safe, queue, outcome, result, wanted, history>>

AllowCall ==
  /\ Goto({"proposal"}, "tool")
  /\ Limit(Call[2]) = "none" /\ ~Refused(Call[2]) /\ Call[2] \notin NeedsApproval
  /\ Record(Call[2])
  /\ machine' = IF machine = "validating_tool" THEN "running_tool" ELSE machine
  /\ UNCHANGED <<durable, safe, queue, outcome, result, wanted, history>>

(* A result stored under the call's idempotency key is replayed.           *)
Replay ==
  /\ Goto({"tool"}, "done")
  /\ Call \in saved
  /\ UNCHANGED <<durable, safe, machine, budget, queue, outcome, result,
                 wanted, history>>

Execute ==
  /\ Goto({"tool"}, "ran")
  /\ Call \notin saved
  /\ ran' = [ran EXCEPT ![Call] = @ + 1]
  /\ UNCHANGED <<durable, safe, machine, budget, queue, outcome, result,
                 wanted, asked, late, invocations, faults>>

\* Mistake: the result is not saved.
DropsResult ==
  /\ Goto({"ran"}, "done")
  /\ UNCHANGED <<durable, safe, machine, budget, queue, outcome, result, wanted, history>>

SaveResult ==
  /\ Goto({"ran"}, "done")
  /\ saved' = saved \cup {Call}
  /\ UNCHANGED <<safe, row, reason, closed, signal, machine, budget, queue,
                 outcome, result, wanted, history>>

(* The result says approval_required: a plan was saved.                    *)
PlanReady ==
  /\ pc = "done"
  /\ Call[2] \in Plans
  /\ AskApproval("plan_ready")
  /\ UNCHANGED <<durable, safe, budget, result, history>>

NextCall ==
  /\ Goto({"done"}, "proposal")
  /\ Call[2] \notin Plans
  /\ Len(queue) > 1
  /\ queue' = Tail(queue)
  /\ UNCHANGED <<durable, safe, machine, budget, outcome, result, wanted,
                 history>>

Observe ==
  /\ Goto({"done"}, "top")
  /\ Call[2] \notin Plans
  /\ Len(queue) = 1
  /\ queue' = <<>>
  /\ Can("observing") /\ machine' = "observing"
  /\ UNCHANGED <<durable, safe, budget, outcome, result, wanted, history>>

-----------------------------------------------------------------------------
(* The end of an invocation.                                               *)

CloseEvent ==
  /\ Goto({"closing"}, "closed")
  /\ closed' = outcome.event
  /\ UNCHANGED <<safe, row, reason, saved, signal, machine, budget, queue,
                 outcome, result, wanted, history>>

\* Mistakes: the machine's state is written instead of the outcome's, and the
\* loop goes on after a cancel.
WritesMachine ==
  /\ pc = "closed"
  /\ row' = machine /\ reason' = outcome.reason
  /\ result' = outcome.state
  /\ Forget
  /\ UNCHANGED <<closed, saved, signal, wanted, asked, ran, invocations, faults>>
LoopsAfterCancel ==
  /\ pc = "closed"
  /\ row' = outcome.state /\ reason' = outcome.reason
  /\ result' = outcome.state
  /\ IF outcome.state = "cancelled"
       THEN pc' = "top" /\ UNCHANGED <<safe, machine, budget, queue, outcome, late>>
       ELSE Forget
  /\ UNCHANGED <<closed, saved, signal, wanted, asked, ran, invocations, faults>>

CloseRow ==
  /\ pc = "closed"
  /\ row' = outcome.state /\ reason' = outcome.reason
  /\ result' = outcome.state
  /\ Forget
  /\ UNCHANGED <<closed, saved, signal, wanted, asked, ran, invocations, faults>>

(* Any step inside the try may raise: the model or a tool fails, SQLite is *)
(* locked or full, the event callback fails.                               *)
Raise ==
  /\ pc # "idle" /\ ~outcome.handler
  /\ faults < MaxFaults
  /\ faults' = faults + 1
  /\ Handler
  /\ UNCHANGED <<durable, safe, budget, result, wanted, asked, ran,
                 late, invocations>>

(* The process is killed (Android reclaims Termux), or a handler raises.   *)
Crash ==
  /\ pc # "idle"
  /\ faults < MaxFaults
  /\ faults' = faults + 1
  /\ Forget
  /\ UNCHANGED <<durable, result, wanted, asked, ran, invocations>>

(* Another process posts a cancel signal.                                  *)
PostCancel ==
  /\ row # "none" /\ ~signal
  /\ signal' = TRUE
  /\ late' = 0
  /\ UNCHANGED <<safe, row, reason, closed, saved, pc, machine, budget,
                 queue, outcome, result, wanted, asked, ran, invocations, faults>>

Turn == UNION {[1 .. n -> Proposal] : n \in 1 .. MaxProposals}

Loop ==
  \/ CancelRun \/ GoOn \/ BeginTurn \/ TurnLimit \/ FinalAnswer
  \/ \E proposals \in Turn : ProposeTools(proposals)
  \/ CallLimit \/ RefuseCall \/ RequestApproval \/ AllowCall
  \/ Replay \/ Execute \/ SaveResult \/ PlanReady \/ NextCall \/ Observe
  \/ CloseEvent \/ CloseRow

Next == Invoke \/ Loop \/ Raise \/ Crash \/ PostCancel

Spec == Init /\ [][Next]_vars
FairSpec == Spec /\ WF_vars(Loop)

-----------------------------------------------------------------------------
(* Properties.                                                             *)

\* Every variable has its type.
TypeOK ==
  /\ row \in RunState \cup {"none"} /\ machine \in RunState
  /\ reason \in {"none", "final_answer", "cancelled", "error", "approval_required",
                 "plan_ready", "runtime_limit", "model_turn_limit", "tool_call_limit",
                 "repeated_tool_call"}
  /\ closed \in Event
  /\ saved \subseteq Proposal
  /\ {signal, safe, wanted} \subseteq BOOLEAN
  /\ pc \in Location
  /\ turns \in 0 .. MaxTurns /\ calls \in 0 .. MaxCalls /\ same \in [Tool -> 0 .. MaxSame]
  /\ queue \in Seq(Proposal)
  /\ result \in RunState \cup {"none"}
  /\ asked \in Nat /\ late \in Nat /\ ran \in [Proposal -> Nat]
  /\ invocations \in 0 .. MaxInvocations /\ faults \in 0 .. MaxFaults

\* A tool that needs approval, is unknown, or modifies in safe mode is never
\* executed, in whatever turn, position or resumed invocation the model proposes
\* it: no path turns a waiting run into an execution, and a run resumed in safe
\* mode obeys it (loop.py lines 69-85; docs/runtime.md line 14).
Forbidden(t) == t \in NeedsApproval \/ t \notin Known \/ (safe /\ t \in Modifying)
ForbiddenNeverRuns ==
  [][\A c \in Proposal : ran'[c] # ran[c] => ~Forbidden(c[2])]_vars

\* The limits hold for what really happened, not only for the counters: a run
\* asks the model and executes tools no more often than its invocations' budgets
\* allow together (limits.py lines 29-43; docs/runtime.md lines 18-20).
Executions(s) == MapThenSumSet(LAMBDA c : ran[c], s)
BudgetHolds ==
  /\ asked <= MaxTurns * invocations
  /\ Executions(Proposal) <= MaxCalls * invocations
  /\ \A t \in Tool : Executions({c \in Proposal : c[2] = t}) <= MaxSame * invocations

\* A call is executed again only when an exception or a kill struck: repeated by
\* the model or by a resumed run it is answered from tool_executions (loop.py
\* lines 81-86).
OncePerFault == \A c \in Proposal : ran[c] <= 1 + faults

\* What an invocation returned is what the run's row says and what its last
\* closing event announced, also when the way out itself failed and the handler
\* took over (loop.py lines 46-63, 94-110).
EventOf == [completed |-> "run.completed", failed |-> "run.failed",
            cancelled |-> "run.cancelled", waiting_approval |-> "approval.requested"]
ResultSettled ==
  pc = "idle" /\ result # "none" =>
    result \in DOMAIN EventOf /\ row = result /\ closed = EventOf[result]

\* A cancel signal posted at any moment lets at most one more model turn begin
\* (loop.py lines 46-56): the one that was already past the check.
CancelIsPrompt == late <= 1

\* Every invocation comes to an end: the turns and the calls are bounded, and
\* every way out reaches the row (loop.py lines 45-110).
Ends == pc # "idle" ~> pc = "idle"

\* "Approval requests persist as waiting_approval" (docs/runtime.md line 23).
ApprovalPersists ==
  pc = "idle" /\ result # "none" /\ wanted => row = "waiting_approval"
=============================================================================
