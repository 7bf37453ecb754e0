CONSTANTS
  None = None
  Actions = {switch, dimmer}
  MaxAttempts = 3
  MaxCalls = 1
  Delayed = FALSE
  Patient = FALSE
SPECIFICATION Spec
INVARIANT BusyIsRetried
