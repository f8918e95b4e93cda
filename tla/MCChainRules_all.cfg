SPECIFICATION Spec
CONSTANTS
  a = a
  b = b
  c = c
  other = other
  NoName = NoName
  Names = {a, b, c, other, NoName}
  NoRotate = NoRotate
  Scripts <- AllScripts
INVARIANTS
  CoordinatorInput
  VerdictRight
CHECK_DEADLOCK FALSE
