SPECIFICATION Spec
CONSTANTS
  Psms = {1, 2}
  Serves1 = {1}
  Serves2 = {1, 2}
  MaxCid = 2
  Buffers = 2
  MaxLinks = 1
  MaxAsks = 1
  MaxSdus = 1
  Closes = TRUE
CHECK_DEADLOCK FALSE
INVARIANTS ChannelsPaired ProfilesInformed
