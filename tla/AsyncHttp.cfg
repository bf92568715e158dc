SPECIFICATION Spec
CONSTANTS
  Req = {r1, r2}
  NoReq = NoReq
  Worker = {w1, w2}
  NoWorker = NoWorker
  StopJob = StopJob
  Limits = {TRUE, FALSE}
SYMMETRY Symmetry
INVARIANTS
  AsyncInv
  InOneHand
  CountsExact
PROPERTIES
  TrueMeansTaken
  ImplementsContract
