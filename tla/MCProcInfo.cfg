CONSTANTS
  Ips <- MCIps
  Files <- MCFiles
SPECIFICATION FairSpec
INVARIANTS FoundIsFirstCover NothingOverlooked
PROPERTY Terminates
