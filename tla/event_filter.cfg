SPECIFICATION Spec
CONSTANTS
  Char <- MCChar
  Upper <- MCUpper
  Lowered <- MCLowered
  None = None
  Inputs <- MCInputs
INVARIANTS TypeOK FilterRight NamesFile PatternsKept
PROPERTY MovesOn
