CONSTANTS
  Tokens <- MCTokens
  None = None
  GrantReplaces = FALSE
SPECIFICATION FairSpec
INVARIANT RestartCanRefresh
PROPERTY RecoversOnItsOwn
