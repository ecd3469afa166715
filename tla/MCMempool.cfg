\* Three threads; objects of 3 bytes rounded to 4, pages of 8: reserve 1, 2 objects
\* per chunk, memory for 2 chunks, what three threads and the reserve need.
CONSTANTS
  Threads = {t1, t2, t3}
  NoThread = NoThread
  ObjSize = 3
  ReserveArg = 1
  PageSize = 8
  MaxAlign = 4
  MemoryChunks = 2
  MaxHeld = 1
  Data = {junk}
SPECIFICATION FairSpec
INVARIANTS TypeOK FreeListIsStack NumFreeCounts ExclusiveOwnership NoObjectLost ReserveKept NumFreePositive
PROPERTIES LockIsReleased ImplementsPool
