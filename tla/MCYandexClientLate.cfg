CONSTANTS
  None = None
  Actions = {switch, dimmer}
  MaxAttempts = 3
  MaxCalls = 2
  Delayed = TRUE
  Patient = TRUE
SPECIFICATION Spec
INVARIANT SuccessStands
