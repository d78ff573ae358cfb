SPECIFICATION Spec
CONSTANTS
  v1 = v1
  v2 = v2
  v2long = v2long
  j = j
  jsane = jsane
  Images <- MCImages
  Ver <- MCVer
  Size <- MCSize
  Junk <- MCJunk
  SaneJunk <- MCSaneJunk
  NPages = 2
  Erased = Erased
  NoCrc = NoCrc
  NoImage = NoImage
  FaultAt = {"record"}
  SwdReflash = FALSE
INVARIANT RecordedBeforeSbl
