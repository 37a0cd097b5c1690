\* One page and one revocation, whatever can go wrong with it; a pasted key does not parse, a generated one gets options.
SPECIFICATION FairSpec
CONSTANTS
  Conns = {"r"}
  NKeys = 3
  Found = 2
  Initial <- Starts
  KeyFile = 1
  Garbled = {2}
  Optioned = {3}
  Patient = TRUE
  Faults = {"load", "file", "run", "save", "sftp", "cancel", "answer"}
  Pages = {"p"}
  Pasted = {1, 2}
INVARIANTS TypeOK OnlyUnreadLeft
PROPERTIES OnlyRevokedRemoved RotationDone DialerEnds KeyShown
