\* Progress of limited and unlimited captures on a disk that may fail.
SPECIFICATION FairSpec
CONSTANTS
  HeaderSize = 4
  HoldWindow = 1
  MaxHeldBytes = 6
  Rooms <- RoomsSmall
  PacketLens <- OneLen
  LineLens <- OneLen
  MaxPackets = 2
  MaxSecrets = 2
  DiskMayFail = TRUE
PROPERTIES
  PacketsReachDisk
  SecretsReachDisk
  CloseReturns
  StopSettles
