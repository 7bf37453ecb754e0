CONSTANTS
  Tokens <- MCTokens
  None = None
  GrantReplaces = FALSE
SPECIFICATION Spec
INVARIANT CodeIsShown
