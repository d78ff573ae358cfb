SPECIFICATION Spec
CONSTANTS
  BootDelay = 1
  FailDelay = 1
  Lockout = 2
  MaxFails = 2
  Links = {can, uart}
  None = None
  NBlocks = 2
  BscMod = 2
  S3 = 1
  Weak = TRUE
INVARIANT OnlyQuietTestersDropped
