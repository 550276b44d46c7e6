SPECIFICATION ASpec
CONSTANTS
  Connections = {c1, c2, c3}
  MoonKeyHolders = {c1, c2, c3}
  PlayerKeyHolders = {c1, c2, c3}
  Rooms = {r1}
  NoRoom = NoRoom
  NoPair = NoPair
  KeyTables <- ChangingTables
  MaxIdentifier = 3
  MaxMessages = 2
INVARIANTS PlayerLimitRespected
SYMMETRY Symmetry
CHECK_DEADLOCK FALSE
