CONSTANTS
  Ips <- MCIps
  Files <- MCFiles
SPECIFICATION FairSpec
INVARIANT FoundIsReported
