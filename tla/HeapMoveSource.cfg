SPECIFICATION Spec
CONSTANTS
  o1 = o1
  o2 = o2
  o3 = o3
  f1 = f1
  f2 = f2
  g = g
  x = x
  Obj = {o1, o2}
  NoObj = NoObj
  NoSlot = NoSlot
  Field = {f1, f2}
  LockField = f1
  CallbackField = f2
  Global = {g}
  Local = {x}
  KindOf <- AllMaps
  MinBudget = 1
SYMMETRY Symmetry
INVARIANTS
  SourceOutlivesRelease
