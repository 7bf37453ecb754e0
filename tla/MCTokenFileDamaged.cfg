CONSTANTS
  t1 = t1
  t2 = t2
  t3 = t3
  Tokens = {t1, t2, t3}
  Missing = Missing
  Damaged = Damaged
  Broken = Broken
  None = None
  Damage = TRUE
SPECIFICATION Spec
INVARIANT AlwaysReadable
