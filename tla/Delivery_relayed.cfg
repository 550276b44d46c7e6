SPECIFICATION FairDSpec
CONSTANTS
  Connections = {c1, c2, c3}
  MoonKeyHolders = {c1, c2}
  PlayerKeyHolders = {c3}
  Rooms = {r1}
  NoRoom = NoRoom
  NoPair = NoPair
  KeyTables <- RoomyTable
  MaxIdentifier = 2
  MaxMessages = 2
INVARIANTS TypeOK IdentifiersUnique IdentifiersReturned HandlesCurrent  NoEcho NoPacketLost
PROPERTIES RelayedUnlessThreadEnded RoomThreadEnds
CHECK_DEADLOCK FALSE
