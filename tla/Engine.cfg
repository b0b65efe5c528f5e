SPECIFICATION Spec
CONSTANTS
  InputCount = 2
  Shapes = {small, large}
  Values = {v1, v2}
  Invalid = Invalid
  Unresolved = Unresolved
  Garbage = Garbage
INVARIANTS
  TypeOK
  ReadyAllocated
  OutputCurrent
  WrittenSinceResize
  RunsAfresh
