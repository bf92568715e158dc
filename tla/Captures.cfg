SPECIFICATION Spec
CONSTANTS
  Closure = {c1, c2}
  NoClosure = NoClosure
  Main = Main
  Co = {k1}
  Value = {v1, v2}
  Null = Null
  MaxFrames <- Room
  MaxNatives = 1
CHECK_DEADLOCK FALSE
SYMMETRY Symmetry
INVARIANTS
  CapturesInv
PROPERTIES
  EndsWriteBack
