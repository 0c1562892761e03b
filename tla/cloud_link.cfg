SPECIFICATION Spec

CONSTANTS
  Slot <- MCSlots
  MaxReq = 1
  MaxAttempt = 3
  MaxUses = 1
  MaxFrames = 1
  FailureLimit = 2
  Plans <- MCPlans

INVARIANT TypeOK
INVARIANT TokenLeavesOnce
INVARIANT CredentialHasApproval
INVARIANT BudgetExact
INVARIANT SequentialRetryDoesNotStrand
INVARIANT LinkTokenLives
PROPERTY DecisionStands
PROPERTY PendingResolves
PROPERTY RevokedIsDemoted
CHECK_DEADLOCK FALSE
