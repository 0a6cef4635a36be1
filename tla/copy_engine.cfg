SPECIFICATION Spec
CONSTANTS
  x = x
  y = y
  Chunks = {x, y}
  MaxChunks = 2
  None = None
  Live = Live
CHECK_DEADLOCK FALSE
SYMMETRY ChunkSymmetry
INVARIANTS TypeOK DigestOfCache UndisturbedCopy NoPartialFile
PROPERTY ReplacesAtomically
