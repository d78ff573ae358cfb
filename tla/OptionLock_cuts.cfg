SPECIFICATION Spec
CONSTANT LastByte = 3
INVARIANT TypeOK
INVARIANT LaunchedIsComplete
INVARIANT ExposedOnlyBriefly
PROPERTY RepeatHeals
