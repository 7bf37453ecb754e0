SPECIFICATION Spec
CONSTANTS
  Topologies = {t1, t2, t3}
  None = None
  TopologyConfirmations = 1
INVARIANT CurrentIsAlwaysServed
