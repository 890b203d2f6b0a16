\* Two events, two overlapping polls, two commands: one may be lost, or the event of one
\* read or the command delivered again.
SPECIFICATION FairSpec
CONSTANTS
  None = None
  Event = {1, 2}
  Poll = {w1, w2}
  BatchSize = 2
  MaxAborts = 1
  Command = {1, 2}
  MaxRetries = 0
  MaxFaults = 1
INVARIANTS
  MarkedWasSent
  EmailsBounded
PROPERTIES
  ImplementsChannel
  CommittedIsMailed
CHECK_DEADLOCK FALSE   \* bounds
