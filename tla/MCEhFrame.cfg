\* Words of twelve bits: 111 augmentation strings with 24 choices of pointer encodings,
\* and tables of up to three functions.
CONSTANTS
  ByteBits = 3
  Size <- MCSize
  Inputs <- MCInputs
SPECIFICATION Spec
INVARIANTS EntryIsAsMeant  SearchIsByDefinition
