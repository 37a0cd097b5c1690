\* One page whose user waits for the answer, one revocation, no failures.
SPECIFICATION Spec
CONSTANTS
  Conns = {"r"}
  NKeys = 2
  Found = 1
  Initial <- Starts
  KeyFile = 1
  Garbled = {}
  Optioned = {}
  Patient = TRUE
  Faults = {}
  Pages = {"p"}
  Pasted = {1}
INVARIANTS RevokedStaysOut
