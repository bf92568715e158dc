SPECIFICATION FairSpec
CONSTANTS
  Req = {r1, r2}
  NoReq = NoReq
  Worker = {w1}
  NoWorker = NoWorker
  StopJob = StopJob
  Limits = {TRUE, FALSE}
PROPERTIES
  ShutdownEnds
  WaitReturns
  Answered
