CONSTANTS
  None = None
  Actions = {switch, dimmer}
  MaxAttempts = 3
  MaxCalls = 2
  Delayed = FALSE
  Patient = FALSE
SPECIFICATION FairSpec
INVARIANTS BoundedLoad SuccessStands
PROPERTY ImplementsRequest
