\* One page, no revocations: the timer against the generation of a key.
SPECIFICATION Spec
CONSTANTS
  Conns = {}
  NKeys = 2
  Found = 1
  Initial <- Starts
  KeyFile = 1
  Garbled = {}
  Optioned = {}
  Patient = TRUE
  Faults = {}
  Pages = {"p"}
  Pasted = {1}
PROPERTIES PendingStays
