------------------------- MODULE RelayAdmissionProof -------------------------
(***************************************************************************)
(* Proofs about RelayAdmission: the player limit and the moon clients that *)
(* a room lives for, for any number of connections, rooms and identifiers  *)
(* and any key tables.                                                     *)
(***************************************************************************)
EXTENDS RelayAdmission, RelayProof, FiniteSetTheorems

(* The room that a connection is registered for is one whose moon key it has
   presented, and only a number that somebody holds is registered.         *)
ShownInv ==
  /\ presented \in [Connections -> SUBSET Rooms]
  /\ \A c \in Connections : moonRoom[identifierOf[c]] \in presented[c] \cup {NoRoom}

HeldInv ==
  \A id \in 0..MaxIdentifier : moonRoom[id] # NoRoom =>
    id # 0 /\ \E c \in Connections : identifierOf[c] = id

(* A message that came with a moon key counts as a moon's to its end, and what
   is left of onClose is run for a connection that is not registered.      *)
CourseInv ==
  /\ handler \in MessageHandlers =>
       (handler.moon => handler.room \in presented[handler.conn])
  /\ handler.at \in {"eraseHandles", "removeConnection"} =>
       moonRoom[identifierOf[handler.conn]] = NoRoom

(* A room has a registered moon, or had one that went on to another room. *)
LivingInv ==
  \A r \in rooms :
    \/ \E id \in Identifiers : moonRoom[id] = r
    \/ \E c \in Connections : r \in presented[c] /\ presented[c] # {r}

(* Between the check of the limit and the listing, the place stays free. *)
PlaceInv ==
  handler.at = "addHandle" /\ ~handler.moon =>
    \E t \in KeyTables :
      /\ t[handler.room] # NoPair
      /\ CountWithout(identifierOf[handler.conn], handler.room) < t[handler.room]

AdmissionInv ==
  /\ IInv
  /\ ShownInv
  /\ HeldInv
  /\ CourseInv
  /\ LivingInv
  /\ PlaceInv
  /\ PlayerLimitRespected

-----------------------------------------------------------------------------
(* A moon client is registered for a room, which is created if need be. *)
Registers(c, r) ==
  /\ identifierOf[c] # 0
  /\ moonRoom' = [moonRoom EXCEPT ![identifierOf[c]] = r]
  /\ rooms' = rooms \cup {r}
  /\ UNCHANGED identifierOf

(* Every step leaves identifiers, registrations and rooms alone, or is one of
   the four that change them.                                              *)
LEMMA Registrations ==
  ASSUME IInv, [Next]_vars
  PROVE  \/ UNCHANGED <<identifierOf, moonRoom, rooms>>
         \/ \E c \in Connections, r \in Rooms : Registers(c, r)
         \/ \E c \in Connections : OnOpen(c) \/ OnClose(c)
         \/ RemoveConnection
<1> DEFINE Goal ==
      \/ UNCHANGED <<identifierOf, moonRoom, rooms>>
      \/ \E c \in Connections, r \in Rooms : Registers(c, r)
      \/ \E c \in Connections : OnOpen(c) \/ OnClose(c)
      \/ RemoveConnection
<1> SUFFICES Goal
  OBVIOUS
<1>1. CASE Client
  <2>1. PICK c \in Connections :
          \/ OnOpen(c) \/ Lose(c) \/ RejectKey(c)
          \/ \E r \in Rooms : RejectRoom(c, r)
          \/ \E r \in Rooms, oversize \in BOOLEAN :
               \/ CreateRoom(c, r, oversize)
               \/ \E moon \in BOOLEAN : OnMessage(c, r, moon, oversize)
    BY <1>1 DEF Client
  <2>2. CASE Lose(c) \/ RejectKey(c) \/ \E r \in Rooms : RejectRoom(c, r)
    BY <2>2 DEF Lose, RejectKey, RejectRoom, roomVars
  <2>3. ASSUME NEW r \in Rooms, NEW o \in BOOLEAN, CreateRoom(c, r, o)
        PROVE  Registers(c, r)
    BY <2>3 DEF CreateRoom, CanPresent, CanReceive, RegisterMoon, Registers, connVars
  <2>4. ASSUME NEW r \in Rooms, NEW o \in BOOLEAN, NEW moon \in BOOLEAN,
               OnMessage(c, r, moon, o)
        PROVE  Registers(c, r) \/ UNCHANGED <<identifierOf, moonRoom, rooms>>
    BY <2>4
    DEF OnMessage, CanPresent, CanReceive, HasRoom, RegisterMoon, Registers, connVars, roomVars
  <2> QED BY <2>1, <2>2, <2>3, <2>4
<1>2. CASE Handle
  BY <1>2
  DEF Handle, CreateHandles, CreateThread, DropOversize, Refuse, AddPacket, AddHandle,
      EraseHandles, connVars, roomVars
<1>3. CASE \E r \in Rooms : RoomThread(r)
  BY <1>3
  DEF RoomThread, CheckRoom, GetPackets, GetConnections, SendTo, Join, Complete, connVars,
      roomVars
<1>4. CASE RefreshKeys \/ UNCHANGED vars
  BY <1>4 DEF RefreshKeys, vars, connVars, roomVars
<1> QED BY <1>1, <1>2, <1>3, <1>4 DEF Next

(* What a connection has presented stays, and grows by the room it is
   registered for.                                                         *)
LEMMA PresentedStep ==
  ASSUME IInv, ShownInv, [Next /\ Present]_avars
  PROVE  /\ ShownInv'
         /\ \A c \in Connections : presented[c] \subseteq presented'[c]
<1>1. CASE UNCHANGED avars
  BY <1>1 DEF avars, vars, connVars, ShownInv
<1>2. CASE Next /\ Present
  <2>1. TypeOK'
    BY <1>2, TypeStep
  <2>2. \A c \in Connections : moonRoom'[identifierOf'[c]] \in Rooms \cup {NoRoom}
    BY <2>1 DEF TypeOK
  <2>3. \A c \in Connections :
          presented'[c] = presented[c] \cup ({moonRoom'[identifierOf'[c]]} \ {NoRoom})
    BY <1>2 DEF Present
  <2>4. presented' \in [Connections -> SUBSET Rooms]
    <3>1. \A c \in Connections :
            presented[c] \cup ({moonRoom'[identifierOf'[c]]} \ {NoRoom}) \in SUBSET Rooms
      BY <2>2 DEF ShownInv
    <3> QED BY <1>2, <3>1 DEF Present
  <2> QED BY <2>3, <2>4 DEF ShownInv
<1> QED BY <1>1, <1>2

(* A number that is released is registered for no room. *)
LEMMA HeldStep ==
  ASSUME IInv, HeldInv, CourseInv, [Next]_vars
  PROVE  HeldInv'
<1> TypeOK
  BY DEF IInv
<1>1. CASE UNCHANGED <<identifierOf, moonRoom, rooms>>
  BY <1>1 DEF HeldInv
<1>2. ASSUME NEW c \in Connections, NEW r \in Rooms, Registers(c, r)
      PROVE  HeldInv'
  BY <1>2 DEF Registers, HeldInv, TypeOK
<1>3. ASSUME NEW c \in Connections, OnOpen(c)
      PROVE  HeldInv'
  <2>1. moonRoom' = moonRoom
    BY <1>3 DEF OnOpen
  <2>2. identifierOf[c] = 0
    BY <1>3 DEF OnOpen, IInv, IdentifierInv
  <2>3. \A d \in Connections \ {c} : identifierOf'[d] = identifierOf[d]
    BY <1>3 DEF OnOpen, TypeOK
  <2> QED BY <2>1, <2>2, <2>3 DEF HeldInv
<1>4. ASSUME NEW c \in Connections, OnClose(c)
      PROVE  HeldInv'
  BY <1>4 DEF OnClose, connVars, HeldInv, TypeOK
<1>5. CASE RemoveConnection
  <2>1. handler.conn \in Connections /\ moonRoom' = moonRoom
    BY <1>5 DEF RemoveConnection, TypeOK, Idle, MessageHandlers, CloseHandlers
  <2>2. moonRoom[identifierOf[handler.conn]] = NoRoom
    BY <1>5 DEF RemoveConnection, CourseInv
  <2>3. \A d \in Connections \ {handler.conn} : identifierOf'[d] = identifierOf[d]
    BY <1>5 DEF RemoveConnection, TypeOK
  <2> QED BY <2>1, <2>2, <2>3 DEF HeldInv
<1> QED BY <1>1, <1>2, <1>3, <1>4, <1>5, Registrations

(* A room is destroyed with its last registered moon, unless one has gone on to
   another room.                                                           *)
LEMMA LivingStep ==
  ASSUME IInv, ShownInv, LivingInv, [Next /\ Present]_avars
  PROVE  LivingInv'
<1> TypeOK
  BY DEF IInv
<1>1. [Next]_vars
  BY DEF avars
<1>2. /\ \A c \in Connections : presented[c] \subseteq presented'[c]
      /\ \A c \in Connections : moonRoom'[identifierOf'[c]] \in presented'[c] \cup {NoRoom}
  BY PresentedStep DEF ShownInv
<1> SUFFICES ASSUME NEW r \in rooms'
             PROVE  \/ \E id \in Identifiers : moonRoom'[id] = r
                    \/ \E c \in Connections : r \in presented'[c] /\ presented'[c] # {r}
  BY DEF LivingInv
<1> DEFINE Lives == \/ \E id \in Identifiers : moonRoom'[id] = r
                    \/ \E c \in Connections : r \in presented'[c] /\ presented'[c] # {r}
<1>3. ASSUME NEW c \in Connections, r \in presented[c], presented[c] # {r}
      PROVE  Lives
  BY <1>2, <1>3
<1>4. CASE UNCHANGED <<moonRoom, rooms>>
  BY <1>3, <1>4 DEF LivingInv
<1>5. ASSUME NEW c \in Connections, NEW q \in Rooms, Registers(c, q)
      PROVE  Lives
  <2> DEFINE id == identifierOf[c]
  <2>1. /\ id \in Identifiers /\ moonRoom'[id] = q /\ identifierOf'[c] = id
        /\ \A other \in Identifiers \ {id} : moonRoom'[other] = moonRoom[other]
        /\ rooms' = rooms \cup {q}
    BY <1>5, MaxIdentifierAssumption DEF Registers, Identifiers, TypeOK
  <2>2. CASE r = q
    BY <2>1, <2>2
  <2>3. ASSUME r # q, moonRoom[id] = r
        PROVE  Lives
    <3>1. r \in Rooms /\ r # NoRoom
      BY <2>1, <2>3, NoRoomAssumption DEF TypeOK
    <3>2. r \in presented[c]
      BY <2>3, <3>1 DEF ShownInv
    <3>3. q \in presented'[c]
      BY <1>2, <2>1, NoRoomAssumption
    <3> QED BY <1>2, <2>3, <3>2, <3>3
  <2>4. ASSUME r # q
        PROVE  Lives
    <3>1. r \in rooms
      BY <2>1, <2>4
    <3> HIDE DEF Lives
    <3>2. ASSUME NEW other \in Identifiers, moonRoom[other] = r
          PROVE  Lives
      <4>1. CASE other = id
        BY <2>3, <2>4, <3>2, <4>1
      <4>2. CASE other # id
        BY <2>1, <3>2, <4>2 DEF Lives
      <4> QED BY <4>1, <4>2
    <3> QED BY <1>3, <3>1, <3>2 DEF LivingInv
  <2> QED BY <2>2, <2>4
<1>6. ASSUME NEW c \in Connections, OnClose(c)
      PROVE  Lives
  <2> DEFINE id == identifierOf[c]
  <2>1. /\ r \in rooms /\ r # Abandoned(id)
        /\ \A other \in Identifiers \ {id} : moonRoom'[other] = moonRoom[other]
    BY <1>6 DEF OnClose, Identifiers, TypeOK
  <2>2. ASSUME NEW other \in Identifiers, moonRoom[other] = r
        PROVE  \E kept \in Identifiers : moonRoom'[kept] = r
    <3>1. CASE other # id
      BY <2>1, <2>2, <3>1
    <3>2. CASE other = id
      <4>1. \E kept \in Identifiers \ {id} : moonRoom[kept] = r
        BY <2>1, <2>2, <3>2 DEF Abandoned
      <4> QED BY <2>1, <4>1
    <3> QED BY <3>1, <3>2
  <2> QED BY <1>3, <2>1, <2>2 DEF LivingInv
<1>7. CASE \E c \in Connections : OnOpen(c)
  BY <1>4, <1>7 DEF OnOpen, roomVars
<1>8. CASE RemoveConnection
  BY <1>4, <1>8 DEF RemoveConnection
<1> QED BY <1>1, <1>4, <1>5, <1>6, <1>7, <1>8, Registrations

(* The holder of a registered number is not gone. *)
LEMMA NeedMoons ==
  ASSUME IInv, ShownInv, HeldInv, LivingInv
  PROVE  RoomsNeedMoons
<1> SUFFICES ASSUME NEW r \in rooms, NEW id \in Identifiers, moonRoom[id] = r
             PROVE  RoomHasMoon(r)
  BY DEF LivingInv, RoomsNeedMoons
<1>1. r \in Rooms /\ r # NoRoom
  BY NoRoomAssumption DEF IInv, TypeOK
<1>2. id \in 0..MaxIdentifier /\ id # 0
  BY MaxIdentifierAssumption DEF Identifiers
<1>3. PICK c \in Connections : identifierOf[c] = id
  BY <1>1, <1>2 DEF HeldInv
<1>4. state[c] # "gone"
  BY <1>2, <1>3 DEF IInv, IdentifierInv
<1>5. r \in presented[c]
  BY <1>1, <1>3 DEF ShownInv
<1> QED BY <1>3, <1>4, <1>5 DEF RoomHasMoon

-----------------------------------------------------------------------------
(* A handler begins, goes on with the same message, or is over. *)
Stays == handler' = handler /\ (handler # Idle => UNCHANGED <<identifierOf, moonRoom, handles>>)

Begins(c) ==
  /\ handler' \in MessageHandlers /\ handler'.conn = c /\ handler'.at # "addHandle"
  /\ handler'.moon => Registers(c, handler'.room)

GoesOn ==
  /\ handler \in MessageHandlers /\ handler' \in MessageHandlers
  /\ handler'.conn = handler.conn /\ handler'.room = handler.room
  /\ handler'.moon = handler.moon
  /\ handler'.at = "addHandle" => AddPacket

LEMMA Courses ==
  ASSUME IInv, [Next]_vars
  PROVE  \/ Stays
         \/ \E c \in Connections : Begins(c) \/ OnClose(c)
         \/ GoesOn
         \/ handler' = Idle
         \/ EraseHandles
<1> TypeOK
  BY DEF IInv
<1>1. CASE Client
  <2>1. PICK c \in Connections :
          \/ OnOpen(c) \/ Lose(c) \/ RejectKey(c)
          \/ \E r \in Rooms : RejectRoom(c, r)
          \/ \E r \in Rooms, oversize \in BOOLEAN :
               \/ CreateRoom(c, r, oversize)
               \/ \E moon \in BOOLEAN : OnMessage(c, r, moon, oversize)
    BY <1>1 DEF Client
  <2>2. CASE OnOpen(c) \/ Lose(c) \/ RejectKey(c) \/ \E r \in Rooms : RejectRoom(c, r)
    BY <2>2
    DEF OnOpen, Lose, RejectKey, RejectRoom, CanPresent, CanReceive, Stays
  <2>3. ASSUME NEW r \in Rooms, NEW o \in BOOLEAN, CreateRoom(c, r, o)
        PROVE  Begins(c)
    BY <2>3
    DEF CreateRoom, CanPresent, CanReceive, RegisterMoon, Registers, Begins, MessageHandlers,
        connVars
  <2>4. ASSUME NEW r \in Rooms, NEW o \in BOOLEAN, NEW moon \in BOOLEAN,
               OnMessage(c, r, moon, o)
        PROVE  Begins(c)
    BY <2>4
    DEF OnMessage, CanPresent, CanReceive, HasRoom, RegisterMoon, Registers, Begins,
        MessageHandlers, connVars, roomVars
  <2> QED BY <2>1, <2>2, <2>3, <2>4
<1>2. CASE CreateHandles \/ CreateThread
  BY <1>2, MessageHandlerFacts
  DEF CreateHandles, CreateThread, MessageSteps, MessageHandlers, GoesOn
<1>3. CASE AddPacket
  BY <1>3, MessageHandlerFacts DEF AddPacket, MessageSteps, MessageHandlers, GoesOn
<1>4. CASE Handle
  BY <1>2, <1>3, <1>4 DEF Handle, DropOversize, Refuse, AddHandle, RemoveConnection
<1>5. CASE \E r \in Rooms : RoomThread(r)
  BY <1>5
  DEF RoomThread, CheckRoom, GetPackets, GetConnections, SendTo, Join, Complete, connVars,
      roomVars, Stays
<1>6. CASE RefreshKeys \/ UNCHANGED vars
  BY <1>6 DEF RefreshKeys, vars, connVars, roomVars, Stays
<1> QED BY <1>1, <1>4, <1>5, <1>6 DEF Next

(* A handler knows to its end what its message came with. *)
LEMMA CourseStep ==
  ASSUME IInv, ShownInv, CourseInv, [Next /\ Present]_avars
  PROVE  CourseInv'
<1> TypeOK
  BY DEF IInv
<1>1. [Next]_vars
  BY DEF avars
<1>2. /\ \A c \in Connections : presented[c] \subseteq presented'[c]
      /\ \A c \in Connections : moonRoom'[identifierOf'[c]] \in presented'[c] \cup {NoRoom}
  BY PresentedStep DEF ShownInv
<1>3. \A h \in MessageHandlers :
        h.conn \in Connections /\ h.at \notin {"eraseHandles", "removeConnection"}
  BY DEF MessageHandlers
<1>4. CASE Stays
  BY <1>2, <1>3, <1>4 DEF Stays, CourseInv, Idle
<1>5. ASSUME NEW c \in Connections, Begins(c)
      PROVE  CourseInv'
  <2>1. handler' \in MessageHandlers /\ handler'.conn = c /\ handler'.room \in Rooms
    BY <1>5 DEF Begins, MessageHandlers
  <2>2. handler'.moon => handler'.room \in presented'[c]
    <3>1. identifierOf[c] \in 0..MaxIdentifier
      BY DEF TypeOK
    <3>2. handler'.moon => moonRoom'[identifierOf'[c]] = handler'.room
      BY <1>5, <3>1 DEF Begins, Registers, TypeOK
    <3> QED BY <1>2, <2>1, <3>2, NoRoomAssumption
  <2> QED BY <1>3, <2>1, <2>2 DEF CourseInv
<1>6. ASSUME NEW c \in Connections, OnClose(c)
      PROVE  CourseInv'
  <2>1. /\ handler' \in CloseHandlers /\ handler'.conn = c
        /\ moonRoom' = [moonRoom EXCEPT ![identifierOf[c]] = NoRoom] /\ UNCHANGED identifierOf
    BY <1>6 DEF OnClose, Abandoned, CloseHandlers, connVars, TypeOK
  <2>2. handler' \notin MessageHandlers
    BY <2>1 DEF CloseHandlers, MessageHandlers
  <2> QED BY <2>1, <2>2 DEF CourseInv, TypeOK
<1>7. CASE GoesOn
  <2>1. handler.conn \in Connections
    BY <1>3, <1>7 DEF GoesOn
  <2> QED BY <1>2, <1>3, <1>7, <2>1 DEF GoesOn, CourseInv
<1>8. CASE handler' = Idle
  BY <1>8 DEF CourseInv, Idle, MessageHandlers
<1>9. CASE EraseHandles
  <2>1. handler.at = "eraseHandles" /\ UNCHANGED <<moonRoom, identifierOf>>
        /\ handler' = [at |-> "removeConnection", conn |-> handler.conn]
    BY <1>9 DEF EraseHandles, connVars
  <2> QED BY <2>1 DEF CourseInv, MessageHandlers
<1> QED BY <1>1, <1>4, <1>5, <1>6, <1>7, <1>8, <1>9, Courses

(* A connection is let in while the others are fewer than the limit, and they
   cannot become more before it is listed.                                 *)
LEMMA CountFinite ==
  ASSUME TypeOK, NEW r \in Rooms, NEW id
  PROVE  CountWithout(id, r) \in Nat
<1>1. handles[r] \in Seq(Handles)
  BY DEF TypeOK
<1>2. DOMAIN handles[r] = 1..Len(handles[r]) /\ Len(handles[r]) \in Int
  BY <1>1
<1>3. IsFiniteSet(DOMAIN handles[r])
  BY <1>2, FS_Interval
<1>4. {i \in DOMAIN handles[r] : handles[r][i].identifier # id} \in SUBSET (DOMAIN handles[r])
  OBVIOUS
<1> QED BY <1>3, <1>4, FS_Subset, FS_CardinalityType DEF CountWithout

LEMMA PlaceStep ==
  ASSUME IInv, PlaceInv, [Next]_vars
  PROVE  PlaceInv'
<1> TypeOK
  BY DEF IInv
<1>1. CASE Stays
  BY <1>1 DEF Stays, PlaceInv, CountWithout, Idle
<1>2. ASSUME NEW c \in Connections, Begins(c)
      PROVE  PlaceInv'
  BY <1>2 DEF Begins, PlaceInv
<1>3. ASSUME NEW c \in Connections, OnClose(c)
      PROVE  PlaceInv'
  BY <1>3 DEF OnClose, PlaceInv
<1>4. CASE GoesOn
  <2> SUFFICES ASSUME handler'.at = "addHandle", ~handler'.moon
               PROVE  \E t \in KeyTables :
                        /\ t[handler.room] # NoPair
                        /\ CountWithout(identifierOf[handler.conn], handler.room) < t[handler.room]
    <3>1. handler'.at = "addHandle" => UNCHANGED <<identifierOf, handles>>
      BY <1>4 DEF GoesOn, AddPacket, connVars
    <3> QED BY <1>4, <3>1 DEF GoesOn, PlaceInv, CountWithout
  <2> DEFINE r == handler.room
             n == CountWithout(identifierOf[handler.conn], r)
  <2>1. AddPacket /\ ~handler.moon
    BY <1>4 DEF GoesOn
  <2>2. r \in Rooms
    BY <2>1, MessageHandlerFacts DEF AddPacket, MessageSteps
  <2>3. ~(n >= GetPlayerLimit(r))
    BY <2>1 DEF AddPacket, IsFull
  <2>4. keys \in KeyTables /\ keys[r] \in Nat \cup {NoPair}
    BY <2>2, KeyTablesAssumption DEF TypeOK
  <2>5. n \in Nat
    BY <2>2, CountFinite
  <2> HIDE DEF n, r
  <2>6. keys[r] # NoPair /\ n < keys[r]
    BY <2>3, <2>4, <2>5 DEF GetPlayerLimit, KnownRoom
  <2> QED BY <2>4, <2>6 DEF n, r
<1>5. CASE handler' = Idle \/ EraseHandles
  BY <1>5 DEF EraseHandles, Idle, PlaceInv
<1> QED BY <1>1, <1>2, <1>3, <1>4, <1>5, Courses

-----------------------------------------------------------------------------
(* A list names no more connections than it is long. *)
Listed(s) == {h.handle : h \in ToSet(s)}

LEMMA ListedFinite ==
  ASSUME NEW s \in Seq(Handles)
  PROVE  /\ IsFiniteSet(Listed(s)) /\ Cardinality(Listed(s)) \in Nat
         /\ Cardinality(Listed(s)) <= Len(s)
         /\ IsFiniteSet(DOMAIN s) /\ Cardinality(DOMAIN s) = Len(s)
<1> DEFINE f == [i \in DOMAIN s |-> s[i].handle]
<1>1. DOMAIN s = 1..Len(s) /\ Len(s) \in Nat
  OBVIOUS
<1>2. IsFiniteSet(1..Len(s)) /\ Cardinality(1..Len(s)) = Len(s)
  BY <1>1, FS_Interval
<1>3. f \in Surjection(DOMAIN s, Listed(s))
  BY DEF Surjection, Listed, ToSet
<1> HIDE DEF f
<1>4. IsFiniteSet(Listed(s)) /\ Cardinality(Listed(s)) <= Cardinality(DOMAIN s)
  BY <1>1, <1>2, <1>3, FS_Surjection
<1>5. Cardinality(Listed(s)) \in Nat
  BY <1>4, FS_CardinalityType
<1> QED BY <1>1, <1>2, <1>4, <1>5

(* Only AddHandle puts a connection on a list. *)
LEMMA ListSteps ==
  ASSUME IInv, [Next]_vars, NEW r \in Rooms
  PROVE  \/ Listed(handles'[r]) \subseteq Listed(handles[r])
         \/ /\ AddHandle /\ r = handler.room /\ handler.conn \in Connections
            /\ ~HasHandle(identifierOf[handler.conn], r)
            /\ handles'[r] = Append(handles[r], [identifier |-> identifierOf[handler.conn],
                                                 handle |-> handler.conn])
<1> TypeOK
  BY DEF IInv
<1>1. CASE handles'[r] = handles[r]
  BY <1>1
<1>2. CASE AddHandle
  <2>1. handler.room \in Rooms /\ handler.conn \in Connections
    BY <1>2, MessageHandlerFacts DEF AddHandle, MessageSteps
  <2>2. handles' = [handles EXCEPT ![handler.room] =
                      WithHandle(identifierOf[handler.conn], handler.conn, handler.room)]
    BY <1>2 DEF AddHandle
  <2> QED BY <1>1, <1>2, <2>1, <2>2 DEF WithHandle, TypeOK
<1>3. CASE RemoveConnection
  <2> DEFINE id == identifierOf[handler.conn]
  <2>1. handles'[r] = WithoutHandle(id, r) /\ handles[r] \in Seq(Handles)
    BY <1>3 DEF RemoveConnection, TypeOK
  <2>2. \A m, n \in DOMAIN handles[r] :
          m # n => handles[r][m].identifier # handles[r][n].identifier
    BY DEF IInv, HandlesCurrent
  <2> HIDE DEF id
  <2>3. \A i \in DOMAIN handles'[r] : \E k \in DOMAIN handles[r] : handles'[r][i] = handles[r][k]
    BY <2>1, <2>2, WithoutHandleFacts
  <2> QED BY <2>3 DEF Listed, ToSet
<1>4. CASE CreateHandles \/ EraseHandles
  <2>1. handles'[r] = handles[r] \/ handles'[r] = <<>>
    BY <1>4 DEF CreateHandles, EraseHandles, TypeOK
  <2>2. Listed(<<>>) = {}
    BY DEF Listed, ToSet
  <2> QED BY <2>1, <2>2
<1>5. CASE Client
  <2>1. PICK c \in Connections :
          \/ OnOpen(c) \/ Lose(c) \/ RejectKey(c)
          \/ \E q \in Rooms : RejectRoom(c, q)
          \/ \E q \in Rooms, oversize \in BOOLEAN :
               \/ CreateRoom(c, q, oversize)
               \/ \E moon \in BOOLEAN : OnMessage(c, q, moon, oversize)
    BY <1>5 DEF Client
  <2>2. UNCHANGED handles
    BY <2>1 DEF OnOpen, Lose, RejectKey, RejectRoom, CreateRoom, OnMessage, roomVars
  <2> QED BY <1>1, <2>2
<1>6. CASE Handle
  BY <1>1, <1>2, <1>3, <1>4, <1>6
  DEF Handle, CreateThread, DropOversize, Refuse, AddPacket, roomVars
<1>7. CASE \E q \in Rooms : RoomThread(q)
  BY <1>1, <1>7
  DEF RoomThread, CheckRoom, GetPackets, GetConnections, SendTo, Join, Complete, roomVars
<1>8. CASE RefreshKeys \/ (\E c \in Connections : OnClose(c)) \/ UNCHANGED vars
  BY <1>1, <1>8 DEF RefreshKeys, OnClose, vars, roomVars
<1> QED BY <1>5, <1>6, <1>7, <1>8 DEF Next

(* A room never has more players than a limit that its pair has. *)
LEMMA LimitStep ==
  ASSUME IInv, ShownInv, CourseInv, PlaceInv, PlayerLimitRespected, [Next /\ Present]_avars
  PROVE  PlayerLimitRespected'
<1> TypeOK
  BY DEF IInv
<1>1. [Next]_vars
  BY DEF avars
<1>2. \A c \in Connections : presented[c] \subseteq presented'[c]
  BY PresentedStep
<1> SUFFICES ASSUME NEW r \in Rooms
             PROVE  LET P == {c \in Listed(handles'[r]) : r \notin presented'[c]}
                    IN P # {} => \E t \in KeyTables : t[r] # NoPair /\ Cardinality(P) <= t[r]
  BY DEF PlayerLimitRespected, Players, Members, Listed
<1> DEFINE P == {c \in Listed(handles'[r]) : r \notin presented'[c]}
<1>3. /\ handles[r] \in Seq(Handles) /\ handles'[r] \in Seq(Handles)
      /\ \A t \in KeyTables : t[r] # NoPair => t[r] \in Nat
  <2>1. TypeOK'
    BY <1>1, TypeStep
  <2> QED BY <2>1, KeyTablesAssumption DEF TypeOK
<1>4. Listed(handles[r]) \subseteq Connections
  <2>1. \A i \in DOMAIN handles[r] : handles[r][i] \in Handles
    BY <1>3
  <2> QED BY <2>1 DEF Listed, ToSet, Handles
<1>5. CASE P \subseteq Players(r)
  <2>1. Players(r) \in SUBSET Listed(handles[r])
    BY DEF Players, Members, Listed
  <2>2. IsFiniteSet(Players(r))
    BY <1>3, <2>1, ListedFinite, FS_Subset
  <2>3. /\ P \in SUBSET Players(r) /\ Cardinality(P) <= Cardinality(Players(r))
        /\ IsFiniteSet(P)
    BY <1>5, <2>2, FS_Subset
  <2>4. Cardinality(P) \in Nat /\ Cardinality(Players(r)) \in Nat
    BY <2>2, <2>3, FS_CardinalityType
  <2> HIDE DEF P
  <2>5. ASSUME P # {}
        PROVE  \E t \in KeyTables : t[r] # NoPair /\ Cardinality(P) <= t[r]
    <3>1. PICK t \in KeyTables : t[r] # NoPair /\ Cardinality(Players(r)) <= t[r]
      BY <2>3, <2>5 DEF PlayerLimitRespected
    <3>2. Cardinality(P) <= t[r]
      BY <1>3, <2>3, <2>4, <3>1
    <3> QED BY <3>1, <3>2
  <2> QED BY <2>5 DEF P
<1>6. CASE Listed(handles'[r]) \subseteq Listed(handles[r])
  <2>1. P \subseteq Players(r)
    BY <1>2, <1>4, <1>6 DEF Players, Members, Listed
  <2> QED BY <1>5, <2>1
<1>7. CASE /\ AddHandle /\ r = handler.room /\ handler.conn \in Connections
           /\ ~HasHandle(identifierOf[handler.conn], r)
           /\ handles'[r] = Append(handles[r], [identifier |-> identifierOf[handler.conn],
                                                handle |-> handler.conn])
  <2> DEFINE new == [identifier |-> identifierOf[handler.conn], handle |-> handler.conn]
  <2>1. handler.at = "addHandle" /\ handler \in MessageHandlers
    BY <1>7, MessageHandlerFacts DEF AddHandle, MessageSteps
  <2>2. CASE handler.moon
    <3>1. r \in presented'[handler.conn]
      BY <1>2, <1>7, <2>1, <2>2 DEF CourseInv
    <3>2. Listed(handles'[r]) \subseteq Listed(handles[r]) \cup {handler.conn}
      <4>1. \A i \in DOMAIN handles'[r] :
              \/ i \in DOMAIN handles[r] /\ handles'[r][i] = handles[r][i]
              \/ handles'[r][i] = new
        BY <1>3, <1>7
      <4> QED BY <4>1 DEF Listed, ToSet
    <3>3. P \subseteq Players(r)
      BY <1>2, <1>4, <3>1, <3>2 DEF Players, Members, Listed
    <3> QED BY <1>5, <3>3
  <2>3. CASE ~handler.moon
    <3>1. PICK t \in KeyTables :
            t[r] # NoPair /\ CountWithout(identifierOf[handler.conn], r) < t[r]
      BY <1>7, <2>1, <2>3 DEF PlaceInv
    <3>2. CountWithout(identifierOf[handler.conn], r) = Len(handles[r])
      <4>1. {i \in DOMAIN handles[r] : handles[r][i].identifier # identifierOf[handler.conn]}
              = DOMAIN handles[r]
        BY <1>7 DEF HasHandle
      <4> QED BY <1>3, <4>1, ListedFinite DEF CountWithout
    <3>3. Len(handles'[r]) = Len(handles[r]) + 1 /\ Len(handles[r]) \in Nat
      BY <1>3, <1>7
    <3>4. /\ IsFiniteSet(Listed(handles'[r])) /\ Cardinality(Listed(handles'[r])) \in Nat
          /\ Cardinality(Listed(handles'[r])) <= Len(handles'[r])
      BY <1>3, ListedFinite
    <3>5. P \in SUBSET Listed(handles'[r])
      OBVIOUS
    <3> HIDE DEF P
    <3>6. /\ Cardinality(P) <= Cardinality(Listed(handles'[r])) /\ Cardinality(P) \in Nat
      BY <3>4, <3>5, FS_Subset, FS_CardinalityType
    <3>7. Cardinality(P) <= t[r]
      BY <1>3, <3>1, <3>2, <3>3, <3>4, <3>6
    <3> QED BY <3>1, <3>7 DEF P
  <2> QED BY <2>2, <2>3
<1> QED BY <1>1, <1>6, <1>7, ListSteps

-----------------------------------------------------------------------------
LEMMA InitAdmissionInv == AInit => AdmissionInv
<1> SUFFICES ASSUME AInit
             PROVE  AdmissionInv
  OBVIOUS
<1>1. IInv
  BY InitIInv DEF AInit
<1>2. /\ rooms = {} /\ handler = Idle /\ presented = [c \in Connections |-> {}]
      /\ \A c \in Connections : identifierOf[c] = 0
      /\ \A id \in 0..MaxIdentifier : moonRoom[id] = NoRoom
      /\ \A r \in Rooms : handles[r] = <<>>
  BY DEF AInit, Init
<1>3. ShownInv
  BY <1>2, MaxIdentifierAssumption DEF ShownInv
<1>4. PlayerLimitRespected
  BY <1>2 DEF PlayerLimitRespected, Players, Members, ToSet
<1> QED
  BY <1>1, <1>2, <1>3, <1>4
  DEF AdmissionInv, HeldInv, CourseInv, LivingInv, PlaceInv, Idle, MessageHandlers

(* AdmissionInv is inductive. *)
THEOREM AdmissionInvariance == ASpec => []AdmissionInv
<1>1. AdmissionInv /\ [Next /\ Present]_avars => AdmissionInv'
  <2> SUFFICES ASSUME AdmissionInv, [Next /\ Present]_avars
               PROVE  AdmissionInv'
    OBVIOUS
  <2>1. [Next]_vars
    BY DEF avars
  <2>2. IInv'
    BY <2>1, TypeStep, IdentifierStep, ReturnedStep, HandlerStep, JobsStep, HandlesStep, MoonStep,
       CompletedStep DEF AdmissionInv, IInv
  <2>3. ShownInv' /\ CourseInv' /\ LivingInv'
    BY PresentedStep, CourseStep, LivingStep DEF AdmissionInv
  <2>4. HeldInv' /\ PlaceInv'
    BY <2>1, HeldStep, PlaceStep DEF AdmissionInv
  <2>5. PlayerLimitRespected'
    BY LimitStep DEF AdmissionInv
  <2> QED BY <2>2, <2>3, <2>4, <2>5 DEF AdmissionInv
<1> QED BY InitAdmissionInv, <1>1, PTL DEF ASpec

(* However the key tables change under the handlers, no room lists more players
   than a limit that some table gives its pair.                            *)
THEOREM LimitKept == ASpec => []PlayerLimitRespected
<1>1. AdmissionInv => PlayerLimitRespected
  BY DEF AdmissionInv
<1> QED BY AdmissionInvariance, <1>1, PTL

(* A room outlives its moon clients only because one of them has gone on to
   another room.                                                           *)
THEOREM RoomsKeptByMoons == ASpec => []RoomsNeedMoons
<1>1. AdmissionInv => RoomsNeedMoons
  BY NeedMoons DEF AdmissionInv
<1> QED BY AdmissionInvariance, <1>1, PTL

=============================================================================
