\* Safety of limited and unlimited captures on a disk that may fail.
SPECIFICATION Spec
CONSTANTS
  HeaderSize = 4
  HoldWindow = 1
  MaxHeldBytes = 6
  Rooms <- RoomsSmall
  PacketLens <- PacketLensSmall
  LineLens <- LineLensSmall
  MaxPackets = 4
  MaxSecrets = 2
  DiskMayFail = TRUE
INVARIANTS
  TypeOK
  SecretsPrecedeHeldPackets
  PacketsInOrderOnce
  SecretsKeptOnce
  AdmittedCoversFile
  HoldQueueBounded
  NotifiedOnce
  ClosedIsComplete
PROPERTIES
  HoldWindowKept
  ImplementsLog
