\* A stack of four words; expressions of up to three instructions of any kind, or of
\* up to five that move words and jump.
CONSTANTS
  ByteBits = 1
  MaxStack = 4
  Instr <- AllOps
  Long <- MovingOps
  MaxLen = 3
  MaxLong = 5
  Regs <- MCRegs
  Mem <- MCMem
  Cfa = 77
SPECIFICATION FairSpec
  
PROPERTY ForwardEnds
