------------------------- MODULE AgentRuntime_proofs -------------------------
(* Theorems about AgentRuntime, for every registry, policy, limit and      *)
(* answer of the model, and any number of invocations and faults.          *)
EXTENDS AgentRuntime, Lemmas, SequenceTheorems, TLAPS

USE ToolAssumption, BoundAssumption

-----------------------------------------------------------------------------
(* The invariant.                                                          *)

(* TypeOK in four parts, each with what is needed to keep it.              *)
TypedRun ==
  /\ row \in RunState \cup {"none"} /\ machine \in RunState
  /\ pc \in Location /\ result \in RunState \cup {"none"}
  /\ reason \in {"none", "final_answer", "cancelled", "error", "approval_required",
                 "plan_ready", "runtime_limit", "model_turn_limit", "tool_call_limit",
                 "repeated_tool_call"}
  /\ closed \in Event
  /\ signal \in BOOLEAN /\ safe \in BOOLEAN /\ wanted \in BOOLEAN
TypedQueue == queue \in Seq(Proposal) /\ saved \subseteq Proposal
TypedBudget ==
  turns \in 0 .. MaxTurns /\ calls \in 0 .. MaxCalls /\ same \in [Tool -> 0 .. MaxSame]
TypedHistory ==
  /\ asked \in Nat /\ late \in Nat /\ ran \in [Proposal -> Nat]
  /\ invocations \in 0 .. MaxInvocations /\ faults \in 0 .. MaxFaults
TypedParts == TypedRun /\ TypedQueue /\ TypedBudget /\ TypedHistory

(* While a proposal is handled there is one, of this turn.                 *)
Handling == pc \in {"proposal", "tool", "ran", "done"} => queue # <<>>

(* A call that is about to be executed was allowed.                        *)
Allowed == pc = "tool" => ~Forbidden(Call[2])

(* A call that is not saved and not just executed has run once per fault.  *)
Paid ==
  \A c \in Proposal :
    ran[c] <= faults + (IF c \in saved \/ (pc = "ran" /\ Call = c) THEN 1 ELSE 0)

(* On the way out the outcome is one of the four, and once its event is    *)
(* written the row follows; an invocation under way has no result.         *)
Leaving ==
  /\ pc \in {"closing", "closed"} =>
       /\ outcome.state \in {"completed", "failed", "cancelled", "waiting_approval"}
       /\ outcome.event = EventOf[outcome.state]
       /\ outcome.reason \in {"final_answer", "cancelled", "error", "approval_required",
                              "plan_ready", "runtime_limit", "model_turn_limit",
                              "tool_call_limit", "repeated_tool_call"}
  /\ pc = "closed" => closed = outcome.event
  /\ pc # "idle" => result = "none" /\ row # "none"
  /\ row = "none" => result = "none"

(* A turn that is about to begin has seen every signal but the newest.     *)
Prompt ==
  /\ ~signal => late = 0
  /\ pc = "turn" => late = 0
  /\ late <= 1

RunInv == TypedParts /\ Handling /\ Allowed /\ Paid /\ Leaving /\ Prompt /\ ResultSettled


LEMMA PartsAreTypes == TypedParts => TypeOK
BY DEF TypedParts, TypedRun, TypedQueue, TypedBudget, TypedHistory, TypeOK

(* The proposal that is handled is one the model may make.                 *)
LEMMA CallIsProposal ==
  ASSUME TypedParts, Handling, pc \in {"proposal", "tool", "ran", "done"}
  PROVE  Call \in Proposal /\ Call[2] \in Tool
<1>1. queue \in Seq(Proposal) /\ queue # <<>>
  BY DEF TypedParts, TypedQueue, Handling
<1>2. Call \in Proposal BY <1>1, HeadTailProperties DEF Call
<1> QED BY <1>2

(* The answer of the model is a sequence of proposals, at least one.       *)
LEMMA TurnsAreSequences ==
  ASSUME NEW proposals \in Turn
  PROVE  proposals \in Seq(Proposal) /\ proposals # <<>>
<1>1. PICK n \in 1 .. MaxProposals : proposals \in [1 .. n -> Proposal] BY DEF Turn
<1>2. proposals \in Seq(Proposal) /\ Len(proposals) = n BY <1>1
<1> QED BY <1>2, EmptySeq

LEMMA RunStart == Init => RunInv
<1> SUFFICES ASSUME Init PROVE RunInv
  OBVIOUS
<1> USE DEF Init, NoOutcome
<1>1. TypedRun BY DEF TypedRun, RunState, Event, Location
<1>2. TypedQueue BY EmptySeq DEF TypedQueue
<1>3. TypedBudget BY DEF TypedBudget
<1>4. TypedHistory BY DEF TypedHistory
<1>5. Handling /\ Allowed /\ Leaving /\ Prompt /\ ResultSettled
  BY DEF Handling, Allowed, Leaving, Prompt, ResultSettled
<1>6. Paid BY DEF Paid
<1> QED BY <1>1, <1>2, <1>3, <1>4, <1>5, <1>6 DEF RunInv, TypedParts

(* The run and its record keep their types.                                *)
LEMMA RunTyped == RunInv /\ [Next]_vars => TypedRun'
<1> SUFFICES ASSUME RunInv, [Next]_vars PROVE TypedRun'
  OBVIOUS
<1>. TypedRun /\ Leaving BY DEF RunInv, TypedParts
<1> USE DEF TypedRun, Leaving, Goto, Forget, Close, Handler, LimitHandler,
            AskApproval, RunState, Terminal, Location, Event, EventOf, durable,
            budget, history
<1>1. CASE UNCHANGED vars BY <1>1 DEF vars, durable, budget, history
<1>2. CASE Invoke
  BY <1>2 DEF Invoke
<1>3. CASE CancelRun
  <2>1. machine' \in RunState /\ pc' \in Location BY <1>3 DEF CancelRun
  <2>2. signal' \in BOOLEAN /\ UNCHANGED <<safe, row, reason, closed, result, wanted>>
    BY <1>3 DEF CancelRun
  <2> QED BY <2>1, <2>2
<1>4. CASE GoOn
  BY <1>4 DEF GoOn
<1>5. CASE BeginTurn
  BY <1>5 DEF BeginTurn
<1>6. CASE TurnLimit
  BY <1>6 DEF TurnLimit
<1>7. CASE FinalAnswer
  BY <1>7 DEF FinalAnswer
<1>8. ASSUME NEW proposals \in Turn, ProposeTools(proposals) PROVE TypedRun'
  BY <1>8 DEF ProposeTools
<1>9. CASE CallLimit
  BY <1>9 DEF CallLimit
<1>10. CASE RefuseCall
  BY <1>10 DEF RefuseCall
<1>11. CASE RequestApproval
  BY <1>11 DEF RequestApproval
<1>12. CASE AllowCall
  BY <1>12 DEF AllowCall
<1>13. CASE Replay
  BY <1>13 DEF Replay
<1>14. CASE Execute
  BY <1>14 DEF Execute
<1>15. CASE SaveResult
  BY <1>15 DEF SaveResult
<1>16. CASE PlanReady
  BY <1>16 DEF PlanReady
<1>17. CASE NextCall
  BY <1>17 DEF NextCall
<1>18. CASE Observe
  BY <1>18 DEF Observe
<1>19. CASE CloseEvent
  BY <1>19 DEF CloseEvent
<1>20. CASE CloseRow
  BY <1>20 DEF CloseRow
<1>21. CASE Raise
  BY <1>21 DEF Raise
<1>22. CASE Crash
  BY <1>22 DEF Crash
<1>23. CASE PostCancel
  BY <1>23 DEF PostCancel
<1> QED BY <1>1, <1>2, <1>3, <1>4, <1>5, <1>6, <1>7, <1>8, <1>9, <1>10, <1>11,
         <1>12, <1>13, <1>14, <1>15, <1>16, <1>17, <1>18, <1>19, <1>20, <1>21, <1>22, <1>23
    DEF Next, Loop

(* The proposals are proposals.                                            *)
LEMMA RunQueued == RunInv /\ [Next]_vars => TypedQueue'
<1> SUFFICES ASSUME RunInv, [Next]_vars PROVE TypedQueue'
  OBVIOUS
<1>. TypedParts /\ Handling /\ Leaving BY DEF RunInv
<1>. pc \in {"proposal", "tool", "ran", "done"} => Call \in Proposal /\ Call[2] \in Tool
  BY CallIsProposal
<1>. TypedQueue BY DEF TypedParts
<1>. <<>> \in Seq(Proposal) BY EmptySeq
<1> USE DEF TypedQueue, Goto, Forget, Close, Handler, LimitHandler, AskApproval,
            durable, budget, history
<1>1. CASE UNCHANGED vars BY <1>1 DEF vars, durable, budget, history
<1>2. CASE Invoke
  BY <1>2 DEF Invoke
<1>3. CASE CancelRun
  BY <1>3 DEF CancelRun
<1>4. CASE GoOn
  BY <1>4 DEF GoOn
<1>5. CASE BeginTurn
  BY <1>5 DEF BeginTurn
<1>6. CASE TurnLimit
  BY <1>6 DEF TurnLimit
<1>7. CASE FinalAnswer
  BY <1>7 DEF FinalAnswer
<1>8. ASSUME NEW proposals \in Turn, ProposeTools(proposals) PROVE TypedQueue'
  BY <1>8, TurnsAreSequences DEF ProposeTools
<1>9. CASE CallLimit
  BY <1>9 DEF CallLimit
<1>10. CASE RefuseCall
  BY <1>10 DEF RefuseCall
<1>11. CASE RequestApproval
  BY <1>11 DEF RequestApproval
<1>12. CASE AllowCall
  BY <1>12 DEF AllowCall
<1>13. CASE Replay
  BY <1>13 DEF Replay
<1>14. CASE Execute
  BY <1>14 DEF Execute
<1>15. CASE SaveResult
  BY <1>15 DEF SaveResult
<1>16. CASE PlanReady
  BY <1>16 DEF PlanReady
<1>17. CASE NextCall
  BY <1>17, HeadTailProperties DEF NextCall, Handling
<1>18. CASE Observe
  BY <1>18 DEF Observe
<1>19. CASE CloseEvent
  BY <1>19 DEF CloseEvent
<1>20. CASE CloseRow
  BY <1>20 DEF CloseRow
<1>21. CASE Raise
  BY <1>21 DEF Raise
<1>22. CASE Crash
  BY <1>22 DEF Crash
<1>23. CASE PostCancel
  BY <1>23 DEF PostCancel
<1> QED BY <1>1, <1>2, <1>3, <1>4, <1>5, <1>6, <1>7, <1>8, <1>9, <1>10, <1>11,
         <1>12, <1>13, <1>14, <1>15, <1>16, <1>17, <1>18, <1>19, <1>20, <1>21, <1>22, <1>23
    DEF Next, Loop

(* No counter passes its limit.                                            *)
LEMMA RunBudget == RunInv /\ [Next]_vars => TypedBudget'
<1> SUFFICES ASSUME RunInv, [Next]_vars PROVE TypedBudget'
  OBVIOUS
<1>. TypedParts /\ Handling /\ Leaving BY DEF RunInv
<1>. pc \in {"proposal", "tool", "ran", "done"} => Call \in Proposal /\ Call[2] \in Tool
  BY CallIsProposal
<1>. TypedBudget BY DEF TypedParts
<1> USE DEF TypedBudget, Goto, Forget, Close, Handler, LimitHandler,
            AskApproval, Record, Limit, durable, budget, history
<1>1. CASE UNCHANGED vars BY <1>1 DEF vars, durable, budget, history
<1>2. CASE Invoke
  BY <1>2 DEF Invoke
<1>3. CASE CancelRun
  BY <1>3 DEF CancelRun
<1>4. CASE GoOn
  BY <1>4 DEF GoOn
<1>5. CASE BeginTurn
  BY <1>5 DEF BeginTurn
<1>6. CASE TurnLimit
  BY <1>6 DEF TurnLimit
<1>7. CASE FinalAnswer
  BY <1>7 DEF FinalAnswer
<1>8. ASSUME NEW proposals \in Turn, ProposeTools(proposals) PROVE TypedBudget'
  BY <1>8 DEF ProposeTools
<1>9. CASE CallLimit
  BY <1>9 DEF CallLimit
<1>10. CASE RefuseCall
  BY <1>10 DEF RefuseCall
<1>11. CASE RequestApproval
  BY <1>11 DEF RequestApproval
<1>12. CASE AllowCall
  BY <1>12 DEF AllowCall
<1>13. CASE Replay
  BY <1>13 DEF Replay
<1>14. CASE Execute
  BY <1>14 DEF Execute
<1>15. CASE SaveResult
  BY <1>15 DEF SaveResult
<1>16. CASE PlanReady
  BY <1>16 DEF PlanReady
<1>17. CASE NextCall
  BY <1>17 DEF NextCall
<1>18. CASE Observe
  BY <1>18 DEF Observe
<1>19. CASE CloseEvent
  BY <1>19 DEF CloseEvent
<1>20. CASE CloseRow
  BY <1>20 DEF CloseRow
<1>21. CASE Raise
  BY <1>21 DEF Raise
<1>22. CASE Crash
  BY <1>22 DEF Crash
<1>23. CASE PostCancel
  BY <1>23 DEF PostCancel
<1> QED BY <1>1, <1>2, <1>3, <1>4, <1>5, <1>6, <1>7, <1>8, <1>9, <1>10, <1>11,
         <1>12, <1>13, <1>14, <1>15, <1>16, <1>17, <1>18, <1>19, <1>20, <1>21, <1>22, <1>23
    DEF Next, Loop

(* The history keeps its types.                                            *)
LEMMA RunHistory == RunInv /\ [Next]_vars => TypedHistory'
<1> SUFFICES ASSUME RunInv, [Next]_vars PROVE TypedHistory'
  OBVIOUS
<1>. TypedParts /\ Handling /\ Leaving BY DEF RunInv
<1>. pc \in {"proposal", "tool", "ran", "done"} => Call \in Proposal /\ Call[2] \in Tool
  BY CallIsProposal
<1>. TypedHistory BY DEF TypedParts
<1> USE DEF TypedHistory, Goto, Forget, Close, Handler, LimitHandler,
            AskApproval, durable, budget, history
<1>1. CASE UNCHANGED vars BY <1>1 DEF vars, durable, budget, history
<1>2. CASE Invoke
  BY <1>2 DEF Invoke
<1>3. CASE CancelRun
  BY <1>3 DEF CancelRun
<1>4. CASE GoOn
  BY <1>4 DEF GoOn
<1>5. CASE BeginTurn
  BY <1>5 DEF BeginTurn
<1>6. CASE TurnLimit
  BY <1>6 DEF TurnLimit
<1>7. CASE FinalAnswer
  BY <1>7 DEF FinalAnswer
<1>8. ASSUME NEW proposals \in Turn, ProposeTools(proposals) PROVE TypedHistory'
  BY <1>8 DEF ProposeTools
<1>9. CASE CallLimit
  BY <1>9 DEF CallLimit
<1>10. CASE RefuseCall
  BY <1>10 DEF RefuseCall
<1>11. CASE RequestApproval
  BY <1>11 DEF RequestApproval
<1>12. CASE AllowCall
  BY <1>12 DEF AllowCall
<1>13. CASE Replay
  BY <1>13 DEF Replay
<1>14. CASE Execute
  BY <1>14 DEF Execute
<1>15. CASE SaveResult
  BY <1>15 DEF SaveResult
<1>16. CASE PlanReady
  BY <1>16 DEF PlanReady
<1>17. CASE NextCall
  BY <1>17 DEF NextCall
<1>18. CASE Observe
  BY <1>18 DEF Observe
<1>19. CASE CloseEvent
  BY <1>19 DEF CloseEvent
<1>20. CASE CloseRow
  BY <1>20 DEF CloseRow
<1>21. CASE Raise
  BY <1>21 DEF Raise
<1>22. CASE Crash
  BY <1>22 DEF Crash
<1>23. CASE PostCancel
  BY <1>23 DEF PostCancel
<1> QED BY <1>1, <1>2, <1>3, <1>4, <1>5, <1>6, <1>7, <1>8, <1>9, <1>10, <1>11,
         <1>12, <1>13, <1>14, <1>15, <1>16, <1>17, <1>18, <1>19, <1>20, <1>21, <1>22, <1>23
    DEF Next, Loop

(* A proposal is there until it is handled.                                *)
LEMMA RunHandling == RunInv /\ [Next]_vars => Handling'
<1> SUFFICES ASSUME RunInv, [Next]_vars PROVE Handling'
  OBVIOUS
<1>. TypedParts /\ Handling /\ Leaving BY DEF RunInv
<1>. TypedQueue BY DEF TypedParts
<1> USE DEF TypedQueue, Handling, Goto, Forget, Close, Handler, LimitHandler,
            AskApproval, Call, durable, budget, history
<1>1. CASE UNCHANGED vars BY <1>1 DEF vars, durable, budget, history
<1>2. CASE Invoke
  BY <1>2 DEF Invoke
<1>3. CASE CancelRun
  BY <1>3 DEF CancelRun
<1>4. CASE GoOn
  BY <1>4 DEF GoOn
<1>5. CASE BeginTurn
  BY <1>5 DEF BeginTurn
<1>6. CASE TurnLimit
  BY <1>6 DEF TurnLimit
<1>7. CASE FinalAnswer
  BY <1>7 DEF FinalAnswer
<1>8. ASSUME NEW proposals \in Turn, ProposeTools(proposals) PROVE Handling'
  BY <1>8, TurnsAreSequences DEF ProposeTools
<1>9. CASE CallLimit
  BY <1>9 DEF CallLimit
<1>10. CASE RefuseCall
  BY <1>10 DEF RefuseCall
<1>11. CASE RequestApproval
  BY <1>11 DEF RequestApproval
<1>12. CASE AllowCall
  BY <1>12 DEF AllowCall
<1>13. CASE Replay
  BY <1>13 DEF Replay
<1>14. CASE Execute
  BY <1>14 DEF Execute
<1>15. CASE SaveResult
  BY <1>15 DEF SaveResult
<1>16. CASE PlanReady
  BY <1>16 DEF PlanReady
<1>17. CASE NextCall
  <2>1. Len(Tail(queue)) = Len(queue) - 1 /\ Len(queue) > 1
    BY <1>17, HeadTailProperties DEF NextCall
  <2>2. queue' = Tail(queue) BY <1>17 DEF NextCall
  <2>3. queue \in Seq(Proposal) /\ Len(queue) \in Nat BY LenProperties DEF TypedQueue
  <2>4. Tail(queue) # <<>>
    <3> SUFFICES ASSUME Tail(queue) = <<>> PROVE FALSE
      OBVIOUS
    <3>1. Len(Tail(queue)) = 0 BY EmptySeq
    <3> QED BY <2>1, <2>3, <3>1
  <2> QED BY <2>2, <2>4
<1>18. CASE Observe
  BY <1>18 DEF Observe
<1>19. CASE CloseEvent
  BY <1>19 DEF CloseEvent
<1>20. CASE CloseRow
  BY <1>20 DEF CloseRow
<1>21. CASE Raise
  BY <1>21 DEF Raise
<1>22. CASE Crash
  BY <1>22 DEF Crash
<1>23. CASE PostCancel
  BY <1>23 DEF PostCancel
<1> QED BY <1>1, <1>2, <1>3, <1>4, <1>5, <1>6, <1>7, <1>8, <1>9, <1>10, <1>11,
         <1>12, <1>13, <1>14, <1>15, <1>16, <1>17, <1>18, <1>19, <1>20, <1>21, <1>22, <1>23
    DEF Next, Loop

(* Only what is allowed comes to be executed.                              *)
LEMMA RunAllowed == RunInv /\ [Next]_vars => Allowed'
<1> SUFFICES ASSUME RunInv, [Next]_vars PROVE Allowed'
  OBVIOUS
<1>. TypedParts /\ Handling /\ Leaving BY DEF RunInv
<1>. Allowed BY DEF RunInv
<1> USE DEF Allowed, Forbidden, Refused, Call, Goto, Forget, Close, Handler,
            LimitHandler, AskApproval, durable, budget, history
<1>1. CASE UNCHANGED vars BY <1>1 DEF vars, durable, budget, history
<1>2. CASE Invoke
  BY <1>2 DEF Invoke
<1>3. CASE CancelRun
  BY <1>3 DEF CancelRun
<1>4. CASE GoOn
  BY <1>4 DEF GoOn
<1>5. CASE BeginTurn
  BY <1>5 DEF BeginTurn
<1>6. CASE TurnLimit
  BY <1>6 DEF TurnLimit
<1>7. CASE FinalAnswer
  BY <1>7 DEF FinalAnswer
<1>8. ASSUME NEW proposals \in Turn, ProposeTools(proposals) PROVE Allowed'
  BY <1>8 DEF ProposeTools
<1>9. CASE CallLimit
  BY <1>9 DEF CallLimit
<1>10. CASE RefuseCall
  BY <1>10 DEF RefuseCall
<1>11. CASE RequestApproval
  BY <1>11 DEF RequestApproval
<1>12. CASE AllowCall
  BY <1>12 DEF AllowCall
<1>13. CASE Replay
  BY <1>13 DEF Replay
<1>14. CASE Execute
  BY <1>14 DEF Execute
<1>15. CASE SaveResult
  BY <1>15 DEF SaveResult
<1>16. CASE PlanReady
  BY <1>16 DEF PlanReady
<1>17. CASE NextCall
  BY <1>17 DEF NextCall
<1>18. CASE Observe
  BY <1>18 DEF Observe
<1>19. CASE CloseEvent
  BY <1>19 DEF CloseEvent
<1>20. CASE CloseRow
  BY <1>20 DEF CloseRow
<1>21. CASE Raise
  BY <1>21 DEF Raise
<1>22. CASE Crash
  BY <1>22 DEF Crash
<1>23. CASE PostCancel
  BY <1>23 DEF PostCancel
<1> QED BY <1>1, <1>2, <1>3, <1>4, <1>5, <1>6, <1>7, <1>8, <1>9, <1>10, <1>11,
         <1>12, <1>13, <1>14, <1>15, <1>16, <1>17, <1>18, <1>19, <1>20, <1>21, <1>22, <1>23
    DEF Next, Loop

(* What is executed again was paid for by a fault.                         *)
LEMMA RunPaid == RunInv /\ [Next]_vars => Paid'
<1> SUFFICES ASSUME RunInv, [Next]_vars PROVE Paid'
  OBVIOUS
<1>. TypedParts /\ Handling /\ Leaving BY DEF RunInv
<1>. Paid BY DEF RunInv
<1> USE DEF TypedParts, TypedQueue, TypedHistory, Paid, Call, Goto, Forget,
            Close, Handler, LimitHandler, AskApproval, durable, budget, history
<1>1. CASE UNCHANGED vars BY <1>1 DEF vars, durable, budget, history
<1>2. CASE Invoke
  BY <1>2 DEF Invoke
<1>3. CASE CancelRun
  BY <1>3 DEF CancelRun
<1>4. CASE GoOn
  BY <1>4 DEF GoOn
<1>5. CASE BeginTurn
  BY <1>5 DEF BeginTurn
<1>6. CASE TurnLimit
  BY <1>6 DEF TurnLimit
<1>7. CASE FinalAnswer
  BY <1>7 DEF FinalAnswer
<1>8. ASSUME NEW proposals \in Turn, ProposeTools(proposals) PROVE Paid'
  BY <1>8 DEF ProposeTools
<1>9. CASE CallLimit
  BY <1>9 DEF CallLimit
<1>10. CASE RefuseCall
  BY <1>10 DEF RefuseCall
<1>11. CASE RequestApproval
  BY <1>11 DEF RequestApproval
<1>12. CASE AllowCall
  BY <1>12 DEF AllowCall
<1>13. CASE Replay
  BY <1>13 DEF Replay
<1>14. CASE Execute
  BY <1>14 DEF Execute
<1>15. CASE SaveResult
  BY <1>15 DEF SaveResult
<1>16. CASE PlanReady
  BY <1>16 DEF PlanReady
<1>17. CASE NextCall
  BY <1>17 DEF NextCall
<1>18. CASE Observe
  BY <1>18 DEF Observe
<1>19. CASE CloseEvent
  BY <1>19 DEF CloseEvent
<1>20. CASE CloseRow
  BY <1>20 DEF CloseRow
<1>21. CASE Raise
  BY <1>21 DEF Raise
<1>22. CASE Crash
  BY <1>22 DEF Crash
<1>23. CASE PostCancel
  BY <1>23 DEF PostCancel
<1> QED BY <1>1, <1>2, <1>3, <1>4, <1>5, <1>6, <1>7, <1>8, <1>9, <1>10, <1>11,
         <1>12, <1>13, <1>14, <1>15, <1>16, <1>17, <1>18, <1>19, <1>20, <1>21, <1>22, <1>23
    DEF Next, Loop

(* The way out is consistent, also when the handler takes over.            *)
LEMMA RunLeaving == RunInv /\ [Next]_vars => Leaving'
<1> SUFFICES ASSUME RunInv, [Next]_vars PROVE Leaving'
  OBVIOUS
<1>. TypedParts /\ Handling /\ Leaving BY DEF RunInv
<1> USE DEF TypedParts, TypedRun, Leaving, Goto, Forget, Close, Handler,
            LimitHandler, AskApproval, Limit, EventOf, NoOutcome, Event,
            durable, budget, history
<1>1. CASE UNCHANGED vars BY <1>1 DEF vars, durable, budget, history
<1>2. CASE Invoke
  BY <1>2 DEF Invoke
<1>3. CASE CancelRun
  BY <1>3 DEF CancelRun
<1>4. CASE GoOn
  BY <1>4 DEF GoOn
<1>5. CASE BeginTurn
  BY <1>5 DEF BeginTurn
<1>6. CASE TurnLimit
  BY <1>6 DEF TurnLimit
<1>7. CASE FinalAnswer
  BY <1>7 DEF FinalAnswer
<1>8. ASSUME NEW proposals \in Turn, ProposeTools(proposals) PROVE Leaving'
  BY <1>8 DEF ProposeTools
<1>9. CASE CallLimit
  BY <1>9 DEF CallLimit
<1>10. CASE RefuseCall
  BY <1>10 DEF RefuseCall
<1>11. CASE RequestApproval
  BY <1>11 DEF RequestApproval
<1>12. CASE AllowCall
  BY <1>12 DEF AllowCall
<1>13. CASE Replay
  BY <1>13 DEF Replay
<1>14. CASE Execute
  BY <1>14 DEF Execute
<1>15. CASE SaveResult
  BY <1>15 DEF SaveResult
<1>16. CASE PlanReady
  BY <1>16 DEF PlanReady
<1>17. CASE NextCall
  BY <1>17 DEF NextCall
<1>18. CASE Observe
  BY <1>18 DEF Observe
<1>19. CASE CloseEvent
  BY <1>19 DEF CloseEvent
<1>20. CASE CloseRow
  BY <1>20 DEF CloseRow
<1>21. CASE Raise
  BY <1>21 DEF Raise
<1>22. CASE Crash
  BY <1>22 DEF Crash
<1>23. CASE PostCancel
  BY <1>23 DEF PostCancel
<1> QED BY <1>1, <1>2, <1>3, <1>4, <1>5, <1>6, <1>7, <1>8, <1>9, <1>10, <1>11,
         <1>12, <1>13, <1>14, <1>15, <1>16, <1>17, <1>18, <1>19, <1>20, <1>21, <1>22, <1>23
    DEF Next, Loop

(* A signal is seen before the next turn but one.                          *)
LEMMA RunPrompt == RunInv /\ [Next]_vars => Prompt'
<1> SUFFICES ASSUME RunInv, [Next]_vars PROVE Prompt'
  OBVIOUS
<1>. TypedParts /\ Handling /\ Leaving BY DEF RunInv
<1>. Prompt BY DEF RunInv
<1> USE DEF TypedParts, TypedHistory, Prompt, Goto, Forget, Close, Handler,
            LimitHandler, AskApproval, durable, budget, history
<1>1. CASE UNCHANGED vars BY <1>1 DEF vars, durable, budget, history
<1>2. CASE Invoke
  BY <1>2 DEF Invoke
<1>3. CASE CancelRun
  BY <1>3 DEF CancelRun
<1>4. CASE GoOn
  BY <1>4 DEF GoOn
<1>5. CASE BeginTurn
  BY <1>5 DEF BeginTurn
<1>6. CASE TurnLimit
  BY <1>6 DEF TurnLimit
<1>7. CASE FinalAnswer
  BY <1>7 DEF FinalAnswer
<1>8. ASSUME NEW proposals \in Turn, ProposeTools(proposals) PROVE Prompt'
  BY <1>8 DEF ProposeTools
<1>9. CASE CallLimit
  BY <1>9 DEF CallLimit
<1>10. CASE RefuseCall
  BY <1>10 DEF RefuseCall
<1>11. CASE RequestApproval
  BY <1>11 DEF RequestApproval
<1>12. CASE AllowCall
  BY <1>12 DEF AllowCall
<1>13. CASE Replay
  BY <1>13 DEF Replay
<1>14. CASE Execute
  BY <1>14 DEF Execute
<1>15. CASE SaveResult
  BY <1>15 DEF SaveResult
<1>16. CASE PlanReady
  BY <1>16 DEF PlanReady
<1>17. CASE NextCall
  BY <1>17 DEF NextCall
<1>18. CASE Observe
  BY <1>18 DEF Observe
<1>19. CASE CloseEvent
  BY <1>19 DEF CloseEvent
<1>20. CASE CloseRow
  BY <1>20 DEF CloseRow
<1>21. CASE Raise
  BY <1>21 DEF Raise
<1>22. CASE Crash
  BY <1>22 DEF Crash
<1>23. CASE PostCancel
  BY <1>23 DEF PostCancel
<1> QED BY <1>1, <1>2, <1>3, <1>4, <1>5, <1>6, <1>7, <1>8, <1>9, <1>10, <1>11,
         <1>12, <1>13, <1>14, <1>15, <1>16, <1>17, <1>18, <1>19, <1>20, <1>21, <1>22, <1>23
    DEF Next, Loop

(* The row and the event agree with the result.                            *)
LEMMA RunSettled == RunInv /\ [Next]_vars => ResultSettled'
<1> SUFFICES ASSUME RunInv, [Next]_vars PROVE ResultSettled'
  OBVIOUS
<1>. TypedParts /\ Handling /\ Leaving BY DEF RunInv
<1>. ResultSettled BY DEF RunInv
<1> USE DEF TypedParts, TypedRun, Leaving, ResultSettled, Goto, Forget, Close,
            Handler, LimitHandler, AskApproval, EventOf, durable, budget,
            history
<1>1. CASE UNCHANGED vars BY <1>1 DEF vars, durable, budget, history
<1>2. CASE Invoke
  BY <1>2 DEF Invoke
<1>3. CASE CancelRun
  BY <1>3 DEF CancelRun
<1>4. CASE GoOn
  BY <1>4 DEF GoOn
<1>5. CASE BeginTurn
  BY <1>5 DEF BeginTurn
<1>6. CASE TurnLimit
  BY <1>6 DEF TurnLimit
<1>7. CASE FinalAnswer
  BY <1>7 DEF FinalAnswer
<1>8. ASSUME NEW proposals \in Turn, ProposeTools(proposals) PROVE ResultSettled'
  BY <1>8 DEF ProposeTools
<1>9. CASE CallLimit
  BY <1>9 DEF CallLimit
<1>10. CASE RefuseCall
  BY <1>10 DEF RefuseCall
<1>11. CASE RequestApproval
  BY <1>11 DEF RequestApproval
<1>12. CASE AllowCall
  BY <1>12 DEF AllowCall
<1>13. CASE Replay
  BY <1>13 DEF Replay
<1>14. CASE Execute
  BY <1>14 DEF Execute
<1>15. CASE SaveResult
  BY <1>15 DEF SaveResult
<1>16. CASE PlanReady
  BY <1>16 DEF PlanReady
<1>17. CASE NextCall
  BY <1>17 DEF NextCall
<1>18. CASE Observe
  BY <1>18 DEF Observe
<1>19. CASE CloseEvent
  BY <1>19 DEF CloseEvent
<1>20. CASE CloseRow
  BY <1>20 DEF CloseRow
<1>21. CASE Raise
  BY <1>21 DEF Raise
<1>22. CASE Crash
  BY <1>22 DEF Crash
<1>23. CASE PostCancel
  BY <1>23 DEF PostCancel
<1> QED BY <1>1, <1>2, <1>3, <1>4, <1>5, <1>6, <1>7, <1>8, <1>9, <1>10, <1>11,
         <1>12, <1>13, <1>14, <1>15, <1>16, <1>17, <1>18, <1>19, <1>20, <1>21, <1>22, <1>23
    DEF Next, Loop
LEMMA RunInvariant == Spec => []RunInv
<1>1. RunInv /\ [Next]_vars => RunInv'
  BY RunTyped, RunQueued, RunBudget, RunHistory, RunHandling, RunAllowed, RunPaid,
     RunLeaving, RunPrompt, RunSettled DEF RunInv, TypedParts
<1> QED BY RunStart, <1>1, PTL DEF Spec

-----------------------------------------------------------------------------
(* What an invocation may still spend: turns, calls (one more while a call *)
(* is counted and not yet executed), and calls of one tool.                *)
LeftTurns   == IF pc = "idle" THEN 0 ELSE MaxTurns - turns
LeftCalls   == IF pc = "idle" THEN 0
               ELSE MaxCalls - calls + (IF pc = "tool" THEN 1 ELSE 0)
LeftSame(t) == IF pc = "idle" THEN 0
               ELSE MaxSame - same[t] + (IF pc = "tool" /\ Call[2] = t THEN 1 ELSE 0)
CallsOf(t)  == {c \in Proposal : c[2] = t}

(* What the run has spent and may still spend is what the budgets of its   *)
(* invocations allow together; an invocation begins with a whole one.      *)
Fresh == pc = "idle" => turns = 0 /\ calls = 0 /\ same = [t \in Tool |-> 0]
Affordable ==
  /\ asked + LeftTurns <= MaxTurns * invocations
  /\ Executions(Proposal) + LeftCalls <= MaxCalls * invocations
  /\ \A t \in Tool : Executions(CallsOf(t)) + LeftSame(t) <= MaxSame * invocations

LEMMA ExecutionsAreTotal == \A S : Executions(S) = Total(ran, S)
BY DEF Executions, Total, MapThenSumSet, MapThenFoldSet

LEMMA ExecutionsAreTotalNext ==
  ASSUME NEW CONSTANT S PROVE Executions(S)' = Total(ran', S)
BY DEF Executions, Total, MapThenSumSet, MapThenFoldSet

(* Executing a call is one execution more, of the calls that it is among.  *)
LEMMA ExecutionAdds ==
  ASSUME TypedParts, NEW CONSTANT S, S \subseteq Proposal, NEW CONSTANT c \in Proposal,
         ran' = [ran EXCEPT ![c] = @ + 1]
  PROVE  /\ Executions(S) \in Nat
         /\ Executions(S)' = Executions(S) + (IF c \in S THEN 1 ELSE 0)
<1>1. IsFiniteSet(S) BY FS_Subset
<1>2. PICK f, g : f = ran /\ g = ran' OBVIOUS
<1>3. \A x \in S : f[x] \in Nat /\ g[x] = f[x] + (IF x = c THEN 1 ELSE 0)
  BY <1>2 DEF TypedParts, TypedHistory
<1>4. /\ Total(f, S) \in Nat
      /\ Total(g, S) = Total(f, S) + (IF c \in S THEN 1 ELSE 0)
  BY <1>1, <1>3, TotalAdds
<1>5. Executions(S) = Total(f, S) BY <1>2, ExecutionsAreTotal
<1>6. Executions(S)' = Total(g, S) BY <1>2, ExecutionsAreTotalNext
<1> QED BY <1>4, <1>5, <1>6

LEMMA ExecutionsStay ==
  ASSUME TypedParts, NEW CONSTANT S, S \subseteq Proposal, ran' = ran
  PROVE  Executions(S) \in Nat /\ Executions(S)' = Executions(S)
<1>1. IsFiniteSet(S) BY FS_Subset
<1>2. PICK f : f = ran OBVIOUS
<1>3. \A x \in S : f[x] \in Nat BY <1>2 DEF TypedParts, TypedHistory
<1>4. Total(f, S) \in Nat BY <1>1, <1>3, TotalIsNatural
<1>5. Executions(S) = Total(f, S) BY <1>2, ExecutionsAreTotal
<1>6. Executions(S)' = Total(f, S) BY <1>2, ExecutionsAreTotalNext
<1> QED BY <1>4, <1>5, <1>6

LEMMA RunFresh == RunInv /\ Fresh /\ [Next]_vars => Fresh'
<1> SUFFICES ASSUME RunInv, Fresh, [Next]_vars PROVE Fresh'
  OBVIOUS
<1> USE DEF Fresh, Goto, Forget, Close, Handler, LimitHandler, AskApproval, Record,
            durable, budget, history
<1>1. CASE UNCHANGED vars BY <1>1 DEF vars
<1>2. CASE Invoke
  BY <1>2 DEF Invoke
<1>3. CASE Execute
  BY <1>3 DEF Execute
<1>4. CASE CancelRun
  BY <1>4 DEF CancelRun
<1>5. CASE GoOn
  BY <1>5 DEF GoOn
<1>6. CASE BeginTurn
  BY <1>6 DEF BeginTurn
<1>7. CASE TurnLimit
  BY <1>7 DEF TurnLimit
<1>8. CASE FinalAnswer
  BY <1>8 DEF FinalAnswer
<1>9. ASSUME NEW proposals \in Turn, ProposeTools(proposals) PROVE Fresh'
  BY <1>9 DEF ProposeTools
<1>10. CASE CallLimit
  BY <1>10 DEF CallLimit
<1>11. CASE RefuseCall
  BY <1>11 DEF RefuseCall
<1>12. CASE RequestApproval
  BY <1>12 DEF RequestApproval
<1>13. CASE AllowCall
  BY <1>13 DEF AllowCall
<1>14. CASE Replay
  BY <1>14 DEF Replay
<1>15. CASE SaveResult
  BY <1>15 DEF SaveResult
<1>16. CASE PlanReady
  BY <1>16 DEF PlanReady
<1>17. CASE NextCall
  BY <1>17 DEF NextCall
<1>18. CASE Observe
  BY <1>18 DEF Observe
<1>19. CASE CloseEvent
  BY <1>19 DEF CloseEvent
<1>20. CASE CloseRow
  BY <1>20 DEF CloseRow
<1>21. CASE Raise
  BY <1>21 DEF Raise
<1>22. CASE Crash
  BY <1>22 DEF Crash
<1>23. CASE PostCancel
  BY <1>23 DEF PostCancel
<1> QED BY <1>1, <1>2, <1>3, <1>4, <1>5, <1>6, <1>7, <1>8, <1>9, <1>10, <1>11, <1>12,
         <1>13, <1>14, <1>15, <1>16, <1>17, <1>18, <1>19, <1>20, <1>21, <1>22, <1>23
    DEF Next, Loop

(* Apart from a new invocation and the execution of a call, a step leaves  *)
(* what is spent and what may still be spent as it is, or less.            *)
Spends ==
  /\ ran' = ran /\ invocations' = invocations
  /\ asked' \in Nat /\ LeftTurns' \in Int /\ LeftCalls' \in Int
  /\ \A t \in Tool : LeftSame(t)' \in Int /\ LeftSame(t)' <= LeftSame(t)
  /\ asked' + LeftTurns' <= asked + LeftTurns
  /\ LeftCalls' <= LeftCalls

LEMMA RunSpends ==
  RunInv /\ [Next]_vars => Spends \/ Invoke \/ Execute
<1> SUFFICES ASSUME RunInv, [Next]_vars, ~Invoke, ~Execute PROVE Spends
  OBVIOUS
<1>. TypedParts /\ Handling BY DEF RunInv
<1> USE DEF TypedParts, TypedBudget, TypedHistory, Spends, LeftTurns, LeftCalls, LeftSame,
            Call, Goto, Forget, Close, Handler, LimitHandler, AskApproval, Record, durable,
            budget, history
<1>1. CASE UNCHANGED vars BY <1>1 DEF vars
<1>2. CASE CancelRun
  BY <1>2 DEF CancelRun
<1>3. CASE GoOn
  BY <1>3 DEF GoOn
<1>4. CASE BeginTurn
  BY <1>4 DEF BeginTurn
<1>5. CASE TurnLimit
  BY <1>5 DEF TurnLimit
<1>6. CASE FinalAnswer
  BY <1>6 DEF FinalAnswer
<1>7. ASSUME NEW proposals \in Turn, ProposeTools(proposals) PROVE Spends
  BY <1>7 DEF ProposeTools
<1>8. CASE CallLimit
  BY <1>8 DEF CallLimit
<1>9. CASE RefuseCall
  BY <1>9 DEF RefuseCall
<1>10. CASE RequestApproval
  BY <1>10 DEF RequestApproval
<1>11. CASE AllowCall
  BY <1>11 DEF AllowCall
<1>12. CASE Replay
  BY <1>12 DEF Replay
<1>13. CASE SaveResult
  BY <1>13 DEF SaveResult
<1>14. CASE PlanReady
  BY <1>14 DEF PlanReady
<1>15. CASE NextCall
  BY <1>15 DEF NextCall
<1>16. CASE Observe
  BY <1>16 DEF Observe
<1>17. CASE CloseEvent
  BY <1>17 DEF CloseEvent
<1>18. CASE CloseRow
  BY <1>18 DEF CloseRow
<1>19. CASE Raise
  BY <1>19 DEF Raise
<1>20. CASE Crash
  BY <1>20 DEF Crash
<1>21. CASE PostCancel
  BY <1>21 DEF PostCancel
<1> QED BY <1>1, <1>2, <1>3, <1>4, <1>5, <1>6, <1>7, <1>8, <1>9, <1>10, <1>11, <1>12,
         <1>13, <1>14, <1>15, <1>16, <1>17, <1>18, <1>19, <1>20, <1>21
    DEF Next, Loop

LEMMA RunAffordable == RunInv /\ Fresh /\ Affordable /\ [Next]_vars => Affordable'
<1> SUFFICES ASSUME RunInv, Fresh, Affordable, [Next]_vars PROVE Affordable'
  OBVIOUS
<1>. TypedParts /\ Handling BY DEF RunInv
<1>. /\ invocations \in Nat /\ asked \in Nat /\ turns \in Nat /\ calls \in Nat
     /\ \A t \in Tool : same[t] \in Nat
  BY DEF TypedParts, TypedHistory, TypedBudget
<1>. Proposal \subseteq Proposal /\ \A t : CallsOf(t) \subseteq Proposal BY DEF CallsOf
<1>1. CASE Spends
  <2>. ran' = ran BY <1>1 DEF Spends
  <2>1. asked' + LeftTurns' <= MaxTurns * invocations'
    BY <1>1, OneMore DEF Spends, Affordable, LeftTurns
  <2>2. Executions(Proposal)' + LeftCalls' <= MaxCalls * invocations'
    <3>1. Executions(Proposal) \in Nat /\ Executions(Proposal)' = Executions(Proposal)
      BY ExecutionsStay
    <3>2. LeftCalls \in Int BY DEF LeftCalls
    <3>3. LeftCalls' \in Int /\ LeftCalls' <= LeftCalls /\ invocations' = invocations
      BY <1>1 DEF Spends
    <3>4. Executions(Proposal) + LeftCalls <= MaxCalls * invocations BY DEF Affordable
    <3> QED BY <3>1, <3>2, <3>3, <3>4, OneMore
  <2>3. ASSUME NEW CONSTANT t \in Tool
        PROVE  Executions(CallsOf(t))' + LeftSame(t)' <= MaxSame * invocations'
    <3>1. /\ Executions(CallsOf(t)) \in Nat
          /\ Executions(CallsOf(t))' = Executions(CallsOf(t))
      BY ExecutionsStay
    <3>2. LeftSame(t) \in Int BY DEF LeftSame
    <3>3. LeftSame(t)' \in Int /\ LeftSame(t)' <= LeftSame(t) /\ invocations' = invocations
      BY <1>1 DEF Spends
    <3>4. Executions(CallsOf(t)) + LeftSame(t) <= MaxSame * invocations BY DEF Affordable
    <3> QED BY <3>1, <3>2, <3>3, <3>4, OneMore
  <2> QED BY <2>1, <2>2, <2>3 DEF Affordable
<1>2. CASE Invoke
  <2>. /\ ran' = ran /\ asked' = asked /\ invocations' = invocations + 1
       /\ pc = "idle" /\ pc' = "top" /\ UNCHANGED <<turns, calls, same>>
    BY <1>2 DEF Invoke, Goto, budget
  <2>. turns = 0 /\ calls = 0 /\ \A t \in Tool : same[t] = 0 BY DEF Fresh
  <2>1. asked' + LeftTurns' <= MaxTurns * invocations'
    BY OneMore DEF Affordable, LeftTurns
  <2>2. Executions(Proposal)' + LeftCalls' <= MaxCalls * invocations'
    <3>1. Executions(Proposal) \in Nat /\ Executions(Proposal)' = Executions(Proposal)
      BY ExecutionsStay
    <3>2. LeftCalls = 0 /\ LeftCalls' = MaxCalls BY DEF LeftCalls
    <3>3. Executions(Proposal) + LeftCalls <= MaxCalls * invocations BY DEF Affordable
    <3> QED BY <3>1, <3>2, <3>3, OneMore
  <2>3. ASSUME NEW CONSTANT t \in Tool
        PROVE  Executions(CallsOf(t))' + LeftSame(t)' <= MaxSame * invocations'
    <3>1. /\ Executions(CallsOf(t)) \in Nat
          /\ Executions(CallsOf(t))' = Executions(CallsOf(t))
      BY ExecutionsStay
    <3>2. LeftSame(t) = 0 /\ LeftSame(t)' = MaxSame BY DEF LeftSame
    <3>3. Executions(CallsOf(t)) + LeftSame(t) <= MaxSame * invocations BY DEF Affordable
    <3> QED BY <3>1, <3>2, <3>3, OneMore
  <2> QED BY <2>1, <2>2, <2>3 DEF Affordable
<1>3. CASE Execute
  <2>. /\ ran' = [ran EXCEPT ![Call] = @ + 1] /\ pc = "tool" /\ pc' = "ran"
       /\ UNCHANGED <<asked, invocations, turns, calls, same, queue>>
    BY <1>3 DEF Execute, Goto, budget
  <2>1. PICK c \in Proposal : c = Call BY CallIsProposal
  <2>. ran' = [ran EXCEPT ![c] = @ + 1] BY <2>1
  <2>2. asked' + LeftTurns' <= MaxTurns * invocations' BY DEF Affordable, LeftTurns
  <2>3. Executions(Proposal)' + LeftCalls' <= MaxCalls * invocations'
    <3>1. Executions(Proposal) \in Nat /\ Executions(Proposal)' = Executions(Proposal) + 1
      BY ExecutionAdds
    <3>2. LeftCalls = MaxCalls - calls + 1 /\ LeftCalls' = MaxCalls - calls BY DEF LeftCalls
    <3>3. Executions(Proposal) + LeftCalls <= MaxCalls * invocations BY DEF Affordable
    <3> QED BY <3>1, <3>2, <3>3, OneMore
  <2>4. ASSUME NEW CONSTANT t \in Tool
        PROVE  Executions(CallsOf(t))' + LeftSame(t)' <= MaxSame * invocations'
    <3>1. /\ Executions(CallsOf(t)) \in Nat
          /\ Executions(CallsOf(t))' = Executions(CallsOf(t)) + (IF c \in CallsOf(t) THEN 1 ELSE 0)
      BY ExecutionAdds
    <3>2. /\ LeftSame(t) = MaxSame - same[t] + (IF c \in CallsOf(t) THEN 1 ELSE 0)
          /\ LeftSame(t)' = MaxSame - same[t]
      BY <2>1 DEF LeftSame, CallsOf
    <3>3. Executions(CallsOf(t)) + LeftSame(t) <= MaxSame * invocations BY DEF Affordable
    <3> QED BY <3>1, <3>2, <3>3, OneMore
  <2> QED BY <2>2, <2>3, <2>4 DEF Affordable
<1> QED BY <1>1, <1>2, <1>3, RunSpends

LEMMA RunFreshStart == Init => Fresh /\ Affordable
<1> SUFFICES ASSUME Init PROVE Fresh /\ Affordable OBVIOUS
<1>1. ran = [c \in Proposal |-> 0] /\ pc = "idle" /\ asked = 0 /\ invocations = 0 BY DEF Init
<1>2. \A S \in SUBSET Proposal : Executions(S) = 0
  <2> SUFFICES ASSUME NEW S \in SUBSET Proposal PROVE Executions(S) = 0 OBVIOUS
  <2>1. IsFiniteSet(S) /\ \A x \in S : ran[x] = 0 BY <1>1, FS_Subset
  <2>2. Total(ran, S) = 0 BY <2>1, TotalOfNothing
  <2> QED BY <2>2, ExecutionsAreTotal
<1>3. Fresh BY DEF Init, Fresh
<1>4. Executions(Proposal) = 0 /\ \A t \in Tool : Executions(CallsOf(t)) = 0 BY <1>2 DEF CallsOf
<1>5. Affordable
  BY <1>1, <1>4 DEF Affordable, LeftTurns, LeftCalls, LeftSame
<1> QED BY <1>3, <1>5

-----------------------------------------------------------------------------
(* The theorems.                                                           *)

(* Every variable keeps its type: no invocation's counters pass its limits. *)
THEOREM RunTypes == Spec => []TypeOK
<1>1. RunInv => TypeOK BY PartsAreTypes DEF RunInv
<1> QED BY RunInvariant, <1>1, PTL

(* Only an allowed call is executed: a tool that is unknown, wants approval *)
(* or modifies in safe mode never is.                                      *)
THEOREM OnlyAllowedRuns == Spec => ForbiddenNeverRuns
<1>1. RunInv /\ [Next]_vars => [\A c \in Proposal : ran'[c] # ran[c] => ~Forbidden(c[2])]_vars
  <2> SUFFICES ASSUME RunInv, Next, NEW c \in Proposal, ran'[c] # ran[c]
               PROVE  ~Forbidden(c[2])
    OBVIOUS
  <2>1. CASE Execute
    <3>1. ran \in [Proposal -> Nat] BY DEF RunInv, TypedParts, TypedHistory
    <3>2. c = Call BY <2>1, <3>1 DEF Execute
    <3>3. pc = "tool" BY <2>1 DEF Execute, Goto
    <3> QED BY <3>2, <3>3 DEF RunInv, Allowed
  <2>2. CASE ~Execute
    <3>1. UNCHANGED ran
      BY <2>2
      DEF Next, Loop, Invoke, CancelRun, GoOn, BeginTurn, TurnLimit, FinalAnswer,
          ProposeTools, CallLimit, RefuseCall, RequestApproval, AllowCall, Replay,
          SaveResult, PlanReady, NextCall, Observe, CloseEvent, CloseRow, Raise,
          Crash, PostCancel, history
    <3> QED BY <3>1
  <2> QED BY <2>1, <2>2
<1> QED BY RunInvariant, <1>1, PTL DEF Spec, ForbiddenNeverRuns

(* A call is executed again only for a fault that struck.                  *)
THEOREM RepeatsArePaid == Spec => []OncePerFault
<1>1. RunInv => OncePerFault
  BY DEF RunInv, TypedParts, TypedHistory, Paid, OncePerFault
<1> QED BY RunInvariant, <1>1, PTL

(* The row and the closing event agree with what the invocation returned.  *)
THEOREM ResultIsRecorded == Spec => []ResultSettled
<1>1. RunInv => ResultSettled BY DEF RunInv
<1> QED BY RunInvariant, <1>1, PTL

(* After a cancel signal at most one more model turn begins.               *)
THEOREM CancelIsHeeded == Spec => []CancelIsPrompt
<1>1. RunInv => CancelIsPrompt BY DEF RunInv, Prompt, CancelIsPrompt
<1> QED BY RunInvariant, <1>1, PTL

(* No run asks the model or executes tools more often than the budgets of  *)
(* its invocations allow together.                                         *)
THEOREM BudgetIsKept == Spec => []BudgetHolds
<1>1. RunInv /\ Affordable => BudgetHolds
  <2> SUFFICES ASSUME RunInv, Affordable PROVE BudgetHolds OBVIOUS
  <2>. TypedParts BY DEF RunInv
  <2>. /\ invocations \in Nat /\ asked \in Nat
       /\ turns \in 0 .. MaxTurns /\ calls \in 0 .. MaxCalls
       /\ \A t \in Tool : same[t] \in 0 .. MaxSame
    BY DEF TypedParts, TypedHistory, TypedBudget
  <2>1. \A S \in SUBSET Proposal : Executions(S) \in Nat
    <3> SUFFICES ASSUME NEW S \in SUBSET Proposal PROVE Executions(S) \in Nat OBVIOUS
    <3>1. IsFiniteSet(S) BY FS_Subset
    <3>2. \A x \in S : ran[x] \in Nat BY DEF TypedParts, TypedHistory
    <3>3. Total(ran, S) \in Nat BY <3>1, <3>2, TotalIsNatural
    <3> QED BY <3>3, ExecutionsAreTotal
  <2>2. asked <= MaxTurns * invocations
    <3>1. LeftTurns \in Nat BY DEF LeftTurns
    <3> QED BY <3>1, OneMore DEF Affordable
  <2>3. Executions(Proposal) <= MaxCalls * invocations
    <3>1. LeftCalls \in Nat BY DEF LeftCalls
    <3> QED BY <2>1, <3>1, OneMore DEF Affordable
  <2>4. ASSUME NEW t \in Tool
        PROVE  Executions({c \in Proposal : c[2] = t}) <= MaxSame * invocations
    <3>1. LeftSame(t) \in Nat BY DEF LeftSame
    <3>2. Executions(CallsOf(t)) \in Nat BY <2>1 DEF CallsOf
    <3>3. Executions(CallsOf(t)) + LeftSame(t) <= MaxSame * invocations BY DEF Affordable
    <3>4. Executions(CallsOf(t)) <= MaxSame * invocations BY <3>1, <3>2, <3>3, OneMore
    <3> QED BY <3>4 DEF CallsOf
  <2> QED BY <2>2, <2>3, <2>4 DEF BudgetHolds
<1>2. Init => Fresh /\ Affordable BY RunFreshStart
<1>3. RunInv /\ (Fresh /\ Affordable) /\ [Next]_vars => (Fresh /\ Affordable)'
  BY RunFresh, RunAffordable
<1> QED BY RunInvariant, <1>1, <1>2, <1>3, PTL DEF Spec
=============================================================================
