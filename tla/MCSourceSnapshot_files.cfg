SPECIFICATION Spec
CHECK_DEADLOCK FALSE
CONSTANTS
  a = a
  b = b
  Absent = Absent
  Names <- TwoNames
  Sizes <- Small
  MaxBytes = 2
  SnapLimit = 0
  MaxLines = 3
  MaxIndent = 1
  Radius = 1
INVARIANTS
  SnapTypeOK
  DoneIsWhole
  RefusedRightly
  DiskBounded
  ScannedTreeMeets
  ValuesHidden
  CodeKept
  WindowAround
