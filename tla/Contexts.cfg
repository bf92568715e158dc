SPECIFICATION Spec
CONSTANTS
  Ctx = {c1, c2, c3}
  NoCtx = NoCtx
  Regs = 2
  Glob = {g}
  MaxDepth = 1
SYMMETRY Symmetry
CHECK_DEADLOCK FALSE
INVARIANTS
  ContextsInv
  OneRunning
  PooledClean
  NothingAboveMark
PROPERTIES
  OthersKeepActive
  DeadStaysDead
