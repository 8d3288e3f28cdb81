SPECIFICATION FairSpec
CONSTANTS
  Peers = {p1, p2}
  Stdin = Stdin
  SetCmd = SetCmd
  GetCmd = GetCmd
  EvictCmd = EvictCmd
  Key = Key
  Vals = {v1, v2}
  Junk = Junk
  MaxClients = 2
  MaxSent = 2
CHECK_DEADLOCK FALSE
INVARIANTS TypeOK WholeRequestsServed BrokenOnlyByInput
PROPERTIES WholeRequestsAnswered
