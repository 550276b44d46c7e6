--------------------------- MODULE RelayAdmission ---------------------------
(***************************************************************************)
(* Who may be in a room: the player limit, and the moon clients a room     *)
(* lives for.  One history variable observes Relay's steps.                *)
(***************************************************************************)
EXTENDS Relay

VARIABLE
  presented   \* the rooms whose moon key each connection has presented

avars == <<vars, presented>>

Present ==
  presented' = [c \in Connections |->
                  presented[c] \cup ({moonRoom'[identifierOf'[c]]} \ {NoRoom})]

AInit == Init /\ presented = [c \in Connections |-> {}]

ASpec == AInit /\ [][Next /\ Present]_avars

-----------------------------------------------------------------------------
Members(r) == {h.handle : h \in ToSet(handles[r])}

(* The connections of the room that have not shown its moon key. *)
Players(r) == {c \in Members(r) : r \notin presented[c]}

(* The check and the admission of onMessage are one step for the players: a
   room never lists more of them than a limit that its pair has in some key
   table (RelayServer.cpp:154).                                            *)
PlayerLimitRespected ==
  \A r \in Rooms :
    Players(r) # {} =>
      \E t \in KeyTables : t[r] # NoPair /\ Cardinality(Players(r)) <= t[r]

(* A room outlives its moon clients only if one of them has presented the
   moon key of another room as well (onClose, remainingMoons).             *)
RoomHasMoon(r) ==
  \E c \in Connections : r \in presented[c] /\ state[c] # "gone"

RoomsNeedMoons ==
  \A r \in rooms :
    RoomHasMoon(r) \/ \E c \in Connections : r \in presented[c] /\ presented[c] # {r}

(* RelayServer.cpp:127: "this checks that the room exists, which would be a
   result of moons client being connected".                                *)
RoomsHaveMoons == \A r \in rooms : RoomHasMoon(r)

=============================================================================
