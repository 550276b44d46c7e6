SPECIFICATION FairDSpec
CONSTANTS
  Connections = {c1, c2, c3}
  MoonKeyHolders = {c1, c2}
  PlayerKeyHolders = {c3}
  Rooms = {r1}
  NoRoom = NoRoom
  NoPair = NoPair
  KeyTables <- RoomyTable
  MaxIdentifier = 2
  MaxMessages = 2
PROPERTIES EveryMessageRelayed
CHECK_DEADLOCK FALSE
