SPECIFICATION Spec
CONSTANTS
  Wrap = 16
  BootDelay = 2
  FailDelay = 2
  Lockout = 5
  MaxFails = 3
  MaxUptime = 8
INVARIANT TypeOK
PROPERTY ImplementsPolicy
