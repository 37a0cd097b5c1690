\* Two callers, whatever can go wrong.
SPECIFICATION Spec
CONSTANTS
  p1 = p1
  p2 = p2
  i1 = i1
  i2 = i2
  i3 = i3
  none = none
  Callers = {p1, p2}
  Ids = {i1, i2, i3}
  NoId = none
  Bodies <- AllBodies
  Found <- Fresh
  Faults = {"read", "open", "write", "crash"}
INVARIANTS
  TypeOK
  LoadsUsable
PROPERTIES
  Implements
