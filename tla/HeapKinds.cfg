SPECIFICATION Spec
CONSTANTS
  o1 = o1
  o2 = o2
  o3 = o3
  f1 = f1
  f2 = f2
  g = g
  x = x
  Obj = {o1, o2, o3}
  NoObj = NoObj
  NoSlot = NoSlot
  Field = {f1}
  LockField = f1
  CallbackField = f1
  Global = {g}
  Local = {x}
  KindOf <- CoroutineMapClosure
  MinBudget = 1
INVARIANTS
  RefCountExact
  NoDangling
  CollectorInv
  PinnedAlive
  WhiteIsGarbage
PROPERTIES
  ReusedUnreferenced
