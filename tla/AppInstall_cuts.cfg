SPECIFICATION FairSpec
CONSTANTS
  old = old
  new = new
  hung = hung
  alien = alien
  Images <- MCImages
  Ver <- MCVer
  Size <- MCSize
  Encrypted <- MCEncrypted
  GoodKey <- MCGoodKey
  Healthy <- MCHealthy
  NPages = 2
  TopVer = 3
  TrialMax = 3
  Erased = Erased
  Garble = Garble
  None = None
  FaultAt = {"promote", "meta", "trial", "attempt"}
  MaxSeq = 3
INVARIANT TypeOK
INVARIANT StartedIsInstalled
INVARIANT InstalledIsCurrent
INVARIANT TrialBound
PROPERTY FloorNeverDrops
PROPERTY OnlyForABetterOne
PROPERTY HungAppIsDropped
