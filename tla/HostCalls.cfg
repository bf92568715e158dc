SPECIFICATION Spec
CONSTANTS
  MaxCalls = 3
  MaxFrames = 3
INVARIANTS
  HostInv
  ContextAccounted
  ResultsStayApart
  OwnersAlive
PROPERTIES
  ResultFollowsOwner
