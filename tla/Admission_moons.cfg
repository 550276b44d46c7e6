SPECIFICATION ASpec
CONSTANTS
  Connections = {c1, c2}
  MoonKeyHolders = {c1, c2}
  PlayerKeyHolders = {c1, c2}
  Rooms = {r1, r2}
  NoRoom = NoRoom
  NoPair = NoPair
  KeyTables <- RoomyTable
  MaxIdentifier = 2
  MaxMessages = 2
INVARIANTS MoonRoomsExist CompletedJoinable RoomsNeedMoons
SYMMETRY Symmetry
CHECK_DEADLOCK FALSE
