SPECIFICATION ASpec
CONSTANTS
  Connections = {c1}
  MoonKeyHolders = {c1}
  PlayerKeyHolders = {c1}
  Rooms = {r1, r2}
  NoRoom = NoRoom
  NoPair = NoPair
  KeyTables <- RoomyTable
  MaxIdentifier = 2
  MaxMessages = 2
INVARIANTS RoomsHaveMoons
CHECK_DEADLOCK FALSE
