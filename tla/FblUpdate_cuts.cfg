SPECIFICATION Spec
CONSTANTS
  v1 = v1
  v2 = v2
  v2long = v2long
  j = j
  jsane = jsane
  Images <- MCImages
  Ver <- MCVer
  Size <- MCSize
  Junk <- MCJunk
  SaneJunk <- MCSaneJunk
  NPages = 3
  Erased = Erased
  NoCrc = NoCrc
  NoImage = NoImage
  FaultAt = {"sbl", "bm", "wipe"}
  SwdReflash = TRUE
INVARIANT TypeOK
INVARIANT Survivable
INVARIANT NeverWild
PROPERTY NoRollback
PROPERTY ImplementsAtomicUpdate
