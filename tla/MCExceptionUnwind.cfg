CONSTANTS
  Ips <- MCIps
  Kind <- MCKind
  Pads <- MCPads
  Objects = {o1, o2}
  Stacks <- MCStacks
  MaxCalls = 3
SPECIFICATION FairSpec
INVARIANT StopIsAskedFirst
PROPERTIES HandlerIsTheOneFound NoCleanupSkipped 
