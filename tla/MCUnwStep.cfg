CONSTANTS
  Words = 22
  Ips <- MCIps
  Code <- MCCode
  Cover <- MCCover
  UcRip = 3
  UcRsp = 4
  UcRbp = 5
  SigRsp = 2
  SigRbp = 1
  SigRip = 3
  MaxGap = 2
  Machines <- MCMachines
  MaxDepth = 4
SPECIFICATION FairSpec
INVARIANTS BacktraceIsTheCallChain 
PROPERTY RisingWalkEnds
