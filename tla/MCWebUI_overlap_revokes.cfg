\* Two pages revoke at once; nothing fails on its own.
SPECIFICATION Spec
CONSTANTS
  Conns = {"r1", "r2"}
  NKeys = 2
  Found = 2
  Initial <- Starts
  KeyFile = 2
  Garbled = {}
  Optioned = {}
  Patient = FALSE
  Faults = {}
  Pages = {"p", "q"}
  Pasted = {2}
PROPERTIES OnlyRevokedRemoved
