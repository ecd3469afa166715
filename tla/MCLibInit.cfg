CONSTANTS
  Threads = {t1, t2, t3}
  NoThread = NoThread
  MaxInits = 3
SYMMETRY Symmetry
SPECIFICATION Spec
INVARIANTS TypeOK InitialisedBeforeUse OnceUnlessClobbered
CHECK_DEADLOCK FALSE
