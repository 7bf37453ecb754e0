CONSTANTS
  None = None
  Intervals = {1, 2}
  Lifetimes = {1, 4}
  MaxBackoff = 4
  MaxSlow = 2
SPECIFICATION FairSpec
INVARIANTS OwnEndIsAnError PollsKeepTheirDistance EveryCodeIsTried
PROPERTIES EndComes AuthorizeEnds
