SPECIFICATION FairSpec
CONSTANTS
  scan = scan
  report = report
  cleanup_plan = cleanup_plan
  apply = apply
  c1 = c1
  c2 = c2
  c3 = c3
  Tool <- MCTool
  Known <- MCKnown
  Modifying <- MCModifying
  NeedsApproval <- MCNeedsApproval
  Plans <- MCPlans
  CallId = {c1, c2, c3}
  Proposal <- MCProposal
  MaxTurns = 2
  MaxCalls = 3
  MaxSame = 2
  MaxProposals = 2
  MaxInvocations = 2
  MaxFaults = 1
INVARIANTS
  TypeOK
  BudgetHolds
  OncePerFault
  ResultSettled
  CancelIsPrompt
PROPERTIES
  ForbiddenNeverRuns
  Ends
CHECK_DEADLOCK FALSE
