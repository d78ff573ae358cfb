SPECIFICATION FairSpec
CONSTANTS
  v1 = v1
  v2 = v2
  v2long = v2long
  j = j
  jsane = jsane
  Images <- MCImages
  Ver <- MCVer
  Size <- MCSize
  Junk <- MCJunk
  SaneJunk <- MCSaneJunk
  NPages = 2
  Erased = Erased
  NoCrc = NoCrc
  NoImage = NoImage
  FaultAt = {"sbl", "bm", "stamp", "wipe", "record"}
  SwdReflash = FALSE
PROPERTY EventuallyServes
PROPERTY UpdateCompletes
