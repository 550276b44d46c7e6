----------------------------- MODULE RelayProof -----------------------------
(***************************************************************************)
(* Proofs about Relay, for any number of connections, rooms and            *)
(* identifiers, and any key tables.                                        *)
(***************************************************************************)
EXTENDS Relay, TLAPS

(* Whoever holds an identifier is connected, holds it alone, and the number
   is reserved.                                                            *)
IdentifierInv ==
  /\ \A c \in Connections : identifierOf[c] # 0 =>
       state[c] \in {"open", "closing"} /\ identifierOf[c] \in reserved
  /\ IdentifiersUnique

(* The handler in progress works for a connected client; one that deals with
   a message works for an identified one, and has its packet to spend.     *)
HandlerInv ==
  handler # Idle =>
    /\ state[handler.conn] \in {"open", "closing"}
    /\ handler \in MessageHandlers => identifierOf[handler.conn] # 0
    /\ handler.at \in {"createHandles", "createThread", "admit"} => accepted < MaxMessages

(* A tick has jobs for connections of its snapshot only. *)
JobsInv == \A r \in Rooms : unsent[r] \subseteq DOMAIN targets[r]

IInv ==
  /\ TypeOK
  /\ IdentifierInv
  /\ IdentifiersReturned
  /\ HandlerInv
  /\ JobsInv
  /\ HandlesCurrent
  /\ MoonRoomsExist
  /\ CompletedJoinable

-----------------------------------------------------------------------------
(* Erasing element k of a sequence moves the later ones up by one. *)
LEMMA RemoveAtFacts ==
  ASSUME NEW S, NEW s \in Seq(S), NEW k \in 1..Len(s)
  PROVE  /\ RemoveAt(s, k) \in Seq(S)
         /\ Len(RemoveAt(s, k)) = Len(s) - 1
         /\ \A i \in 1..(k - 1) : RemoveAt(s, k)[i] = s[i]
         /\ \A i \in k..(Len(s) - 1) : RemoveAt(s, k)[i] = s[i + 1]
<1> DEFINE before == SubSeq(s, 1, k - 1)
           after  == SubSeq(s, k + 1, Len(s))
<1>1. before \in Seq(S) /\ Len(before) = k - 1 /\ \A i \in 1..(k - 1) : before[i] = s[i]
  OBVIOUS
<1>2. after \in Seq(S) /\ Len(after) = Len(s) - k
      /\ \A i \in 1..(Len(s) - k) : after[i] = s[i + k]
  OBVIOUS
<1>3. RemoveAt(s, k) = before \o after
  BY DEF RemoveAt
<1> HIDE DEF before, after
<1>4. before \o after \in Seq(S) /\ Len(before \o after) = Len(s) - 1
  BY <1>1, <1>2
<1>5. ASSUME NEW i \in 1..(k - 1) PROVE (before \o after)[i] = s[i]
  BY <1>1, <1>2
<1>6. ASSUME NEW i \in k..(Len(s) - 1) PROVE (before \o after)[i] = s[i + 1]
  <2>1. (before \o after)[i] = after[i - (k - 1)]
    BY <1>1, <1>2
  <2>2. i - (k - 1) \in 1..(Len(s) - k) /\ (i - (k - 1)) + k = i + 1
    OBVIOUS
  <2>3. after[i - (k - 1)] = s[(i - (k - 1)) + k]
    BY <1>2, <2>2
  <2> QED BY <2>1, <2>2, <2>3
<1> QED BY <1>3, <1>4, <1>5, <1>6

(* removeConnection leaves the other entries of the room, in their order. *)
LEMMA WithoutHandleFacts ==
  ASSUME NEW r \in Rooms, NEW id, handles[r] \in Seq(Handles),
         \A i, j \in DOMAIN handles[r] :
           i # j => handles[r][i].identifier # handles[r][j].identifier
  PROVE  /\ WithoutHandle(id, r) \in Seq(Handles)
         /\ \A i \in DOMAIN WithoutHandle(id, r) :
              /\ WithoutHandle(id, r)[i].identifier # id
              /\ \E k \in DOMAIN handles[r] : WithoutHandle(id, r)[i] = handles[r][k]
         /\ \A i, j \in DOMAIN WithoutHandle(id, r) :
              i # j => WithoutHandle(id, r)[i].identifier # WithoutHandle(id, r)[j].identifier
<1> DEFINE s == handles[r]
           f == First(id, r)
<1>1. CASE ~HasHandle(id, r)
  BY <1>1 DEF WithoutHandle, HasHandle
<1>2. CASE HasHandle(id, r)
  <2>1. PICK k \in DOMAIN s : s[k].identifier = id
    BY <1>2 DEF HasHandle
  <2>2. {i \in DOMAIN s : s[i].identifier = id} = {k}
    BY <2>1
  <2>3. f = k /\ k \in 1..Len(s)
    BY <2>1, <2>2 DEF First, Min
  <2>4. WithoutHandle(id, r) = RemoveAt(s, k)
    BY <1>2, <2>3 DEF WithoutHandle
  <2> DEFINE t == RemoveAt(s, k)
  <2>5. /\ t \in Seq(Handles) /\ Len(t) = Len(s) - 1
        /\ \A i \in 1..(k - 1) : t[i] = s[i]
        /\ \A i \in k..(Len(s) - 1) : t[i] = s[i + 1]
    BY <2>3, RemoveAtFacts
  <2> HIDE DEF t
  <2>6. ASSUME NEW i \in DOMAIN t
        PROVE  \E j \in DOMAIN s \ {k} : t[i] = s[j] /\ j = IF i < k THEN i ELSE i + 1
    <3>1. CASE i < k
      BY <2>3, <2>5, <3>1
    <3>2. CASE i >= k
      BY <2>3, <2>5, <3>2
    <3> QED BY <2>3, <2>5, <3>1, <3>2
  <2>7. ASSUME NEW i \in DOMAIN t
        PROVE  t[i].identifier # id /\ \E j \in DOMAIN s : t[i] = s[j]
    BY <2>1, <2>6
  <2>8. ASSUME NEW i \in DOMAIN t, NEW j \in DOMAIN t, i # j
        PROVE  t[i].identifier # t[j].identifier
    BY <2>3, <2>5, <2>6, <2>8
  <2> QED BY <2>4, <2>5, <2>7, <2>8 DEF t
<1> QED BY <1>1, <1>2

LEMMA InitIInv == Init => IInv
BY MaxIdentifierAssumption, MaxMessagesAssumption, NoRoomAssumption
   DEF Init, IInv, TypeOK, IdentifierInv, HandlerInv, JobsInv, HandlesCurrent,
       MoonRoomsExist, CompletedJoinable, IdentifiersUnique, IdentifiersReturned, Idle, Identifiers,
       ThreadStates, Looping

-----------------------------------------------------------------------------
(* What the type invariant says of a handler that deals with a message. *)
MessageSteps == {"createHandles", "createThread", "admit", "addHandle"}

LEMMA MessageHandlerFacts ==
  ASSUME TypeOK, handler.at \in MessageSteps
  PROVE  /\ handler \in MessageHandlers /\ handler # Idle
         /\ handler.conn \in Connections /\ handler.room \in Rooms
         /\ \A a \in MessageSteps : [handler EXCEPT !.at = a] \in MessageHandlers
<1>1. handler \in {Idle} \cup MessageHandlers \cup CloseHandlers
  BY DEF TypeOK
<1>2. handler \notin CloseHandlers /\ handler # Idle
  BY DEF Idle, CloseHandlers, MessageSteps
<1>3. handler \in MessageHandlers
  BY <1>1, <1>2
<1> QED BY <1>2, <1>3 DEF MessageHandlers, MessageSteps

(* Type correctness is preserved. *)
LEMMA TypeStep ==
  ASSUME IInv, [Next]_vars
  PROVE  TypeOK'
<1> USE MaxIdentifierAssumption, MaxMessagesAssumption DEF connVars, roomVars, tickVars
<1>1. ASSUME NEW c \in Connections, OnOpen(c) PROVE TypeOK'
  <2>1. CASE UNCHANGED <<identifierOf, reserved>>
    BY <1>1, <2>1 DEF IInv, TypeOK, OnOpen
  <2>2. ASSUME NEW id \in FreeIdentifiers,
               identifierOf' = [identifierOf EXCEPT ![c] = id],
               reserved' = reserved \cup {id}
        PROVE  TypeOK'
    <3>1. id \in Identifiers /\ id \in 0..MaxIdentifier
      BY DEF FreeIdentifiers, Identifiers
    <3> QED BY <1>1, <2>2, <3>1 DEF IInv, TypeOK, OnOpen
  <2> QED BY <1>1, <2>1, <2>2 DEF OnOpen
<1>2. ASSUME NEW c \in Connections, Lose(c) PROVE TypeOK'
  BY <1>2 DEF IInv, TypeOK, Lose
<1>3. ASSUME NEW c \in Connections, RejectKey(c) PROVE TypeOK'
  BY <1>3 DEF IInv, TypeOK, RejectKey, Close
<1>4. ASSUME NEW c \in Connections, NEW r \in Rooms, RejectRoom(c, r) PROVE TypeOK'
  BY <1>4 DEF IInv, TypeOK, RejectRoom, Close
<1>5. ASSUME NEW c \in Connections, NEW r \in Rooms, NEW m \in BOOLEAN,
             NEW o \in BOOLEAN, OnMessage(c, r, m, o)
      PROVE TypeOK'
  BY <1>5 DEF IInv, TypeOK, OnMessage, RegisterMoon, MessageHandlers
<1>6. ASSUME NEW c \in Connections, NEW r \in Rooms, NEW o \in BOOLEAN,
             CreateRoom(c, r, o)
      PROVE TypeOK'
  <2>1. handler' \in MessageHandlers
    BY <1>6 DEF CreateRoom, MessageHandlers
  <2> QED BY <1>6, <2>1 DEF IInv, TypeOK, CreateRoom, RegisterMoon
<1>7. CASE CreateHandles
  <2>1. handler.room \in Rooms /\ handler' \in MessageHandlers
    BY <1>7, MessageHandlerFacts DEF IInv, CreateHandles, MessageSteps
  <2> QED BY <1>7, <2>1 DEF IInv, TypeOK, CreateHandles
<1>8. CASE CreateThread
  <2>1. handler.room \in Rooms /\ handler' \in MessageHandlers
    BY <1>8, MessageHandlerFacts DEF IInv, CreateThread, MessageSteps
  <2>2. ThreadsAfterJoin \in [Rooms -> ThreadStates]
    BY DEF IInv, TypeOK, ThreadsAfterJoin, ThreadStates
  <2>3. thread' \in [Rooms -> ThreadStates]
    BY <1>8, <2>1, <2>2 DEF CreateThread, StartThread, ThreadStates, Looping
  <2> QED BY <1>8, <2>1, <2>3 DEF IInv, TypeOK, CreateThread
<1>9. CASE DropOversize
  BY <1>9 DEF IInv, TypeOK, DropOversize
<1>10. CASE Refuse
  BY <1>10 DEF IInv, TypeOK, Refuse, Close, Idle, MessageHandlers, CloseHandlers
<1>11. CASE AddPacket
  <2>1. /\ handler.room \in Rooms /\ handler.conn \in Connections
        /\ identifierOf[handler.conn] # 0 /\ accepted < MaxMessages
        /\ handler' \in {Idle} \cup MessageHandlers
    BY <1>11, MessageHandlerFacts DEF IInv, HandlerInv, AddPacket, MessageSteps
  <2>2. [identifier |-> identifierOf[handler.conn], payload |-> accepted + 1] \in Packets
    BY <2>1 DEF IInv, TypeOK, Packets, Identifiers
  <2>3. packets' \in [Rooms -> Seq(Packets)]
    BY <1>11, <2>1, <2>2, SMTT(30)
       DEF IInv, TypeOK, AddPacket
  <2>4. accepted' \in 0..MaxMessages
    <3>1. accepted \in 0..MaxMessages /\ accepted' = accepted + 1
      BY <1>11 DEF IInv, TypeOK, AddPacket
    <3> QED BY <2>1, <3>1
  <2> QED BY <1>11, <2>1, <2>3, <2>4 DEF IInv, TypeOK, AddPacket
<1>12. CASE AddHandle
  <2>1. /\ handler.room \in Rooms /\ handler.conn \in Connections
        /\ identifierOf[handler.conn] # 0
    BY <1>12, MessageHandlerFacts DEF IInv, HandlerInv, AddHandle, MessageSteps
  <2>2. [identifier |-> identifierOf[handler.conn], handle |-> handler.conn] \in Handles
    BY <2>1 DEF IInv, TypeOK, Handles, Identifiers
  <2>3. WithHandle(identifierOf[handler.conn], handler.conn, handler.room) \in Seq(Handles)
    BY <2>1, <2>2 DEF IInv, TypeOK, WithHandle
  <2> QED BY <1>12, <2>1, <2>3 DEF IInv, TypeOK, AddHandle
<1>13. ASSUME NEW c \in Connections, OnClose(c) PROVE TypeOK'
  BY <1>13 DEF IInv, TypeOK, OnClose, CanClose, Abandoned, CloseHandlers
<1>14. CASE EraseHandles
  BY <1>14 DEF IInv, TypeOK, EraseHandles, Idle, MessageHandlers, CloseHandlers
<1>15. CASE RemoveConnection
  BY <1>15, WithoutHandleFacts DEF IInv, TypeOK, HandlesCurrent, RemoveConnection,
       ReservedWithout, Idle, MessageHandlers, CloseHandlers
<1>16. ASSUME NEW r \in Rooms, CheckRoom(r) PROVE TypeOK'
  BY <1>16 DEF IInv, TypeOK, CheckRoom, ThreadStates, Looping
<1>17. ASSUME NEW r \in Rooms, GetPackets(r) PROVE TypeOK'
  BY <1>17 DEF IInv, TypeOK, GetPackets, SwapPackets, ThreadStates, Looping
<1>18. ASSUME NEW r \in Rooms, GetConnections(r) PROVE TypeOK'
  <2>1. Jobs(r) \subseteq Nat \ {0}
    BY DEF IInv, TypeOK, Jobs
  <2> QED BY <1>18, <2>1 DEF IInv, TypeOK, GetConnections, ThreadStates, Looping
<1>19. ASSUME NEW r \in Rooms, NEW i \in unsent[r], SendTo(r, i) PROVE TypeOK'
  <2> DEFINE t == targets[r][i]
             f == [room |-> r, packets |-> batch[r], without |-> t.identifier]
  <2>1. t \in Handles
    BY DEF IInv, TypeOK, JobsInv
  <2>2. f \in Frames /\ t.handle \in Connections
    BY <2>1 DEF IInv, TypeOK, Frames, Handles
  <2>3. Sent(t.handle, f) \in [Connections -> Seq(Frames)]
    BY <2>2 DEF IInv, TypeOK, Sent
  <2>4. outbox' \in [Connections -> Seq(Frames)]
    BY <1>19, <2>3 DEF SendTo
  <2> QED BY <1>19, <2>4 DEF IInv, TypeOK, SendTo
<1>20. ASSUME NEW r \in Rooms, Join(r) PROVE TypeOK'
  BY <1>20 DEF IInv, TypeOK, Join, ThreadStates, Looping
<1>21. ASSUME NEW r \in Rooms, Complete(r) PROVE TypeOK'
  BY <1>21 DEF IInv, TypeOK, Complete, ThreadStates
<1>22. CASE RefreshKeys
  BY <1>22 DEF IInv, TypeOK, RefreshKeys
<1>23. CASE UNCHANGED vars
  BY <1>23 DEF IInv, TypeOK, vars, connVars, roomVars, tickVars
<1> QED
  BY <1>1, <1>2, <1>3, <1>4, <1>5, <1>6, <1>7, <1>8, <1>9, <1>10, <1>11, <1>12,
     <1>13, <1>14, <1>15, <1>16, <1>17, <1>18, <1>19, <1>20, <1>21, <1>22, <1>23
     DEF Next, Client, Handle, RoomThread

(* Identifiers stay unique: a new one was not reserved, and one is released
   only with its holder.                                                   *)
LEMMA IdentifierStep ==
  ASSUME IInv, [Next]_vars
  PROVE  IdentifierInv'
<1> USE DEF connVars
<1>1. CASE UNCHANGED connVars
  BY <1>1 DEF IInv, IdentifierInv, IdentifiersUnique
<1>2. ASSUME NEW c \in Connections, state[c] \in {"open", "closing"}, Close(c),
             UNCHANGED <<identifierOf, reserved>>
      PROVE  IdentifierInv'
  BY <1>2 DEF IInv, TypeOK, IdentifierInv, IdentifiersUnique, Close
<1>3. ASSUME NEW c \in Connections, OnOpen(c) PROVE IdentifierInv'
  <2>1. state[c] = "new" /\ state' = [state EXCEPT ![c] = "open"]
    BY <1>3 DEF OnOpen
  <2>2. CASE UNCHANGED <<identifierOf, reserved>>
    BY <2>1, <2>2 DEF IInv, TypeOK, IdentifierInv, IdentifiersUnique
  <2>3. ASSUME NEW id \in FreeIdentifiers,
               identifierOf' = [identifierOf EXCEPT ![c] = id],
               reserved' = reserved \cup {id}
        PROVE  IdentifierInv'
    BY <2>1, <2>3 DEF IInv, TypeOK, IdentifierInv, IdentifiersUnique, FreeIdentifiers
  <2> QED BY <1>3, <2>2, <2>3 DEF OnOpen
<1>4. CASE RemoveConnection
  <2>1. handler.conn \in Connections
    BY <1>4 DEF IInv, TypeOK, RemoveConnection, Idle, MessageHandlers, CloseHandlers
  <2> QED BY <1>4, <2>1 DEF IInv, TypeOK, IdentifierInv, IdentifiersUnique,
                                RemoveConnection, ReservedWithout
<1>5. CASE Refuse
  <2>1. handler.conn \in Connections /\ state[handler.conn] \in {"open", "closing"}
    BY <1>5, MessageHandlerFacts DEF IInv, HandlerInv, Refuse, MessageSteps
  <2> QED BY <1>2, <1>5, <2>1 DEF Refuse
<1>6. ASSUME NEW c \in Connections,
             Lose(c) \/ RejectKey(c) \/ \E r \in Rooms : RejectRoom(c, r)
      PROVE  IdentifierInv'
  BY <1>2, <1>6 DEF Lose, RejectKey, RejectRoom, CanPresent, CanReceive, Close
<1> QED
  BY <1>1, <1>3, <1>4, <1>5, <1>6
     DEF Next, Client, Handle, RoomThread, OnMessage, CreateRoom, CreateHandles,
         CreateThread, DropOversize, AddPacket, AddHandle, OnClose, EraseHandles,
         CheckRoom, GetPackets, GetConnections, SendTo, Join, Complete, RefreshKeys,
         vars

(* The numbers in use are those that connections hold: each comes and goes with
   its connection.                                                         *)
LEMMA ReturnedStep ==
  ASSUME IInv, [Next]_vars
  PROVE  IdentifiersReturned'
<1> USE DEF connVars
<1>1. IdentifierInv'
  BY IdentifierStep
<1> SUFFICES reserved' = {identifierOf'[c] : c \in Connections} \ {0}
  BY <1>1 DEF IdentifierInv, IdentifiersReturned
<1>2. reserved = {identifierOf[c] : c \in Connections} \ {0}
  BY DEF IInv, IdentifiersReturned
<1>3. CASE UNCHANGED <<identifierOf, reserved>>
  BY <1>2, <1>3
<1>4. ASSUME NEW c \in Connections, OnOpen(c)
      PROVE  reserved' = {identifierOf'[d] : d \in Connections} \ {0}
  <2>1. identifierOf[c] = 0
    BY <1>4 DEF IInv, IdentifierInv, OnOpen
  <2>2. ASSUME NEW id \in FreeIdentifiers,
               identifierOf' = [identifierOf EXCEPT ![c] = id],
               reserved' = reserved \cup {id}
        PROVE  reserved' = {identifierOf'[d] : d \in Connections} \ {0}
    <3>1. identifierOf'[c] = id /\ \A d \in Connections \ {c} : identifierOf'[d] = identifierOf[d]
      BY <2>2 DEF IInv, TypeOK
    <3>2. id # 0
      BY <2>2, MaxIdentifierAssumption DEF FreeIdentifiers, Identifiers
    <3> QED BY <1>2, <2>1, <2>2, <3>1, <3>2
  <2> QED BY <1>3, <1>4, <2>2 DEF OnOpen
<1>5. CASE RemoveConnection
  <2> DEFINE c == handler.conn
             id == identifierOf[c]
  <2>1. c \in Connections
    BY <1>5 DEF IInv, TypeOK, RemoveConnection, Idle, MessageHandlers, CloseHandlers
  <2>2. /\ identifierOf'[c] = 0
        /\ \A d \in Connections \ {c} : identifierOf'[d] = identifierOf[d]
        /\ reserved' = reserved \ {id}
    BY <1>5, <2>1 DEF IInv, TypeOK, RemoveConnection, ReservedWithout
  <2>3. \A d \in Connections \ {c} : identifierOf[d] # 0 => identifierOf[d] # id
    BY <2>1 DEF IInv, IdentifierInv, IdentifiersUnique
  <2> HIDE DEF c, id
  <2>4. ASSUME NEW i \in reserved' PROVE i \in {identifierOf'[d] : d \in Connections} \ {0}
    <3>1. PICK d \in Connections : identifierOf[d] = i
      BY <1>2, <2>2, <2>4
    <3>2. d # c /\ i # 0
      BY <1>2, <2>2, <2>4, <3>1 DEF id
    <3> QED BY <2>2, <3>1, <3>2
  <2>5. ASSUME NEW d \in Connections, identifierOf'[d] # 0
        PROVE  identifierOf'[d] \in reserved'
    BY <1>2, <2>2, <2>3, <2>5
  <2> QED BY <2>4, <2>5
<1> QED
  BY <1>3, <1>4, <1>5
     DEF Next, Client, Handle, RoomThread, Lose, RejectKey, RejectRoom, OnMessage,
         CreateRoom, CreateHandles, CreateThread, DropOversize, Refuse, AddPacket,
         AddHandle, OnClose, EraseHandles, CheckRoom, GetPackets, GetConnections,
         SendTo, Join, Complete, RefreshKeys, vars

(* A handler keeps its connection, and its packet, to its end. *)
LEMMA HandlerStep ==
  ASSUME IInv, [Next]_vars
  PROVE  HandlerInv'
<1> USE DEF connVars
<1>1. CASE UNCHANGED <<state, identifierOf, handler, accepted>>
  BY <1>1 DEF IInv, HandlerInv
<1>2. CASE handler' = Idle
  BY <1>2 DEF HandlerInv
<1>3. ASSUME NEW c \in Connections, NEW r \in Rooms, NEW m \in BOOLEAN,
             NEW o \in BOOLEAN, OnMessage(c, r, m, o)
      PROVE  HandlerInv'
  BY <1>3 DEF HandlerInv, OnMessage, CanPresent, CanReceive
<1>4. ASSUME NEW c \in Connections, NEW r \in Rooms, NEW o \in BOOLEAN,
             CreateRoom(c, r, o)
      PROVE  HandlerInv'
  BY <1>4 DEF HandlerInv, CreateRoom, CanPresent, CanReceive
<1>5. CASE CreateHandles \/ CreateThread
  <2>1. handler' \in MessageHandlers /\ handler'.conn = handler.conn
    BY <1>5, MessageHandlerFacts DEF IInv, CreateHandles, CreateThread, MessageSteps,
       MessageHandlers
  <2> QED BY <1>5, <2>1, MessageHandlerFacts
          DEF IInv, HandlerInv, CreateHandles, CreateThread, MessageSteps
<1>6. CASE AddPacket
  <2>1. /\ handler' = Idle \/ (handler'.conn = handler.conn /\ handler'.at = "addHandle")
        /\ UNCHANGED <<state, identifierOf>>
    BY <1>6, MessageHandlerFacts DEF IInv, AddPacket, MessageSteps, MessageHandlers
  <2> QED BY <1>6, <2>1, MessageHandlerFacts DEF IInv, HandlerInv, AddPacket, MessageSteps
<1>7. ASSUME NEW c \in Connections, OnClose(c) PROVE HandlerInv'
  BY <1>7 DEF OnClose, CanClose, HandlerInv, MessageHandlers
<1>8. CASE EraseHandles
  BY <1>8 DEF IInv, HandlerInv, EraseHandles, MessageHandlers, Idle
<1> QED
  BY <1>1, <1>2, <1>3, <1>4, <1>5, <1>6, <1>7, <1>8
     DEF Next, Client, Handle, RoomThread, OnOpen, Lose, RejectKey, RejectRoom,
         CanPresent, CanReceive, DropOversize, Refuse, AddHandle, RemoveConnection,
         CheckRoom, GetPackets, GetConnections, SendTo, Join,
         Complete, RefreshKeys, vars

(* Every job that is left is one of the snapshot's. *)
LEMMA JobsStep ==
  ASSUME IInv, [Next]_vars
  PROVE  JobsInv'
<1> USE DEF tickVars
<1>1. CASE UNCHANGED <<targets, unsent>>
  BY <1>1 DEF IInv, JobsInv
<1>2. ASSUME NEW r \in Rooms, GetConnections(r) PROVE JobsInv'
  BY <1>2 DEF IInv, TypeOK, JobsInv, GetConnections, Jobs
<1>3. ASSUME NEW r \in Rooms, NEW i \in unsent[r], SendTo(r, i) PROVE JobsInv'
  BY <1>3 DEF IInv, TypeOK, JobsInv, SendTo
<1>4. ASSUME NEW r \in Rooms, Join(r) PROVE JobsInv'
  BY <1>4 DEF IInv, TypeOK, JobsInv, Join
<1>5. CASE Client
  <2>1. PICK c \in Connections :
          \/ OnOpen(c) \/ Lose(c) \/ RejectKey(c)
          \/ \E r \in Rooms : RejectRoom(c, r)
          \/ \E r \in Rooms, oversize \in BOOLEAN :
               \/ CreateRoom(c, r, oversize)
               \/ \E moon \in BOOLEAN : OnMessage(c, r, moon, oversize)
    BY <1>5 DEF Client
  <2>2. UNCHANGED <<targets, unsent>>
    BY <2>1 DEF OnOpen, Lose, RejectKey, RejectRoom, OnMessage, CreateRoom
  <2> QED BY <1>1, <2>2
<1>6. CASE Handle
  BY <1>1, <1>6
     DEF Handle, CreateHandles, CreateThread, DropOversize, Refuse, AddPacket,
         AddHandle, EraseHandles, RemoveConnection
<1>7. ASSUME NEW r \in Rooms, RoomThread(r) PROVE JobsInv'
  BY <1>1, <1>2, <1>3, <1>4, <1>7 DEF RoomThread, CheckRoom, GetPackets, Complete
<1>8. CASE RefreshKeys \/ (\E c \in Connections : OnClose(c)) \/ UNCHANGED vars
  BY <1>1, <1>8 DEF RefreshKeys, OnClose, vars
<1> QED BY <1>5, <1>6, <1>7, <1>8 DEF Next

(* The lists name connections by the identifiers they hold: an identifier is
   released in the step that takes its holder off every list.              *)
LEMMA HandlesStep ==
  ASSUME IInv, [Next]_vars
  PROVE  HandlesCurrent'
<1> USE DEF connVars, roomVars
<1>1. CASE UNCHANGED <<identifierOf, handles>>
  BY <1>1 DEF IInv, HandlesCurrent
<1>2. ASSUME NEW c \in Connections, OnOpen(c) PROVE HandlesCurrent'
  <2>1. \A r \in Rooms : \A i \in DOMAIN handles[r] :
          handles[r][i] \in Handles /\ handles[r][i].identifier # 0
    <3> TAKE r \in Rooms
    <3>1. handles[r] \in Seq(Handles)
      BY DEF IInv, TypeOK
    <3>2. \A i \in DOMAIN handles[r] : handles[r][i] \in Handles
      BY <3>1
    <3>3. \A h \in Handles : h.identifier # 0
      BY MaxIdentifierAssumption DEF Handles, Identifiers
    <3> QED BY <3>2, <3>3
  <2>2. \A r \in Rooms : \A i \in DOMAIN handles[r] : handles[r][i].handle # c
    BY <1>2, <2>1 DEF IInv, HandlesCurrent, IdentifierInv, OnOpen
  <2>3. handles' = handles /\ \A d \in Connections \ {c} : identifierOf'[d] = identifierOf[d]
    BY <1>2 DEF IInv, TypeOK, OnOpen
  <2> QED BY <2>1, <2>2, <2>3 DEF IInv, HandlesCurrent, Handles
<1>3. ASSUME NEW r \in Rooms, handles' = [handles EXCEPT ![r] = <<>>],
             UNCHANGED identifierOf
      PROVE  HandlesCurrent'
  BY <1>3 DEF IInv, TypeOK, HandlesCurrent
<1>4. CASE AddHandle
  <2> DEFINE c == handler.conn
             r == handler.room
             id == identifierOf[c]
  <2>1. r \in Rooms /\ handles' = [handles EXCEPT ![r] = WithHandle(id, c, r)]
        /\ UNCHANGED identifierOf
    BY <1>4, MessageHandlerFacts DEF IInv, AddHandle, MessageSteps
  <2>2. CASE HasHandle(id, r)
    BY <1>1, <2>1, <2>2 DEF IInv, TypeOK, WithHandle
  <2>3. CASE ~HasHandle(id, r)
    <3> DEFINE new == [identifier |-> id, handle |-> c]
    <3>1. handles'[r] = Append(handles[r], new)
      BY <2>1, <2>3 DEF IInv, TypeOK, WithHandle
    <3>2. \A i \in DOMAIN handles[r] : handles[r][i].identifier # id
      BY <2>3 DEF HasHandle
    <3>3. ASSUME NEW q \in Rooms \ {r} PROVE handles'[q] = handles[q]
      BY <2>1 DEF IInv, TypeOK
    <3>4. handles[r] \in Seq(Handles) /\ new \in Handles
      <4>1. c \in Connections /\ id # 0
        BY <1>4, MessageHandlerFacts DEF IInv, HandlerInv, AddHandle, MessageSteps
      <4>2. handles[r] \in Seq(Handles) /\ id \in Identifiers
        BY <2>1, <4>1 DEF IInv, TypeOK, Identifiers
      <4> QED BY <4>1, <4>2 DEF Handles
    <3>5. /\ DOMAIN handles'[r] = 1..(Len(handles[r]) + 1)
          /\ \A i \in 1..Len(handles[r]) :
               i \in DOMAIN handles[r] /\ handles'[r][i] = handles[r][i]
          /\ handles'[r][Len(handles[r]) + 1] = new /\ Len(handles[r]) \in Nat
      BY <3>1, <3>4
    <3>6. ASSUME NEW i \in DOMAIN handles'[r], NEW j \in DOMAIN handles'[r]
          PROVE  /\ identifierOf[handles'[r][i].handle] = handles'[r][i].identifier
                 /\ i # j => handles'[r][i].identifier # handles'[r][j].identifier
      <4>1. CASE i \in 1..Len(handles[r]) /\ j \in 1..Len(handles[r])
        BY <2>1, <3>5, <4>1 DEF IInv, HandlesCurrent
      <4>2. CASE i \in 1..Len(handles[r]) /\ j = Len(handles[r]) + 1
        BY <2>1, <3>2, <3>5, <4>2 DEF IInv, HandlesCurrent
      <4>3. CASE i = Len(handles[r]) + 1
        BY <2>1, <3>2, <3>5, <4>3 DEF IInv, HandlesCurrent
      <4>4. /\ i \in 1..Len(handles[r]) \/ i = Len(handles[r]) + 1
            /\ j \in 1..Len(handles[r]) \/ j = Len(handles[r]) + 1
        <5> DEFINE n == Len(handles[r])
        <5>1. n \in Nat /\ i \in 1..(n + 1) /\ j \in 1..(n + 1)
          BY <3>5
        <5> HIDE DEF n
        <5>2. /\ i \in 1..n \/ i = n + 1
              /\ j \in 1..n \/ j = n + 1
          BY <5>1
        <5> QED BY <5>2 DEF n
      <4> HIDE DEF new, id, c, r
      <4> QED BY <4>1, <4>2, <4>3, <4>4, Zenon
    <3> QED BY <2>1, <3>3, <3>6 DEF IInv, HandlesCurrent
  <2> QED BY <2>2, <2>3
<1>5. CASE RemoveConnection
  <2> DEFINE c == handler.conn
             id == identifierOf[c]
  <2>1. /\ handles' = [r \in Rooms |-> WithoutHandle(id, r)]
        /\ \A d \in Connections \ {c} : identifierOf'[d] = identifierOf[d]
    BY <1>5 DEF IInv, TypeOK, RemoveConnection
  <2>2. ASSUME NEW r \in Rooms, NEW i \in DOMAIN handles'[r], NEW j \in DOMAIN handles'[r]
        PROVE  /\ identifierOf'[handles'[r][i].handle] = handles'[r][i].identifier
               /\ i # j => handles'[r][i].identifier # handles'[r][j].identifier
    <3>1. /\ handles'[r][i].identifier # id
          /\ \E k \in DOMAIN handles[r] : handles'[r][i] = handles[r][k]
          /\ i # j => handles'[r][i].identifier # handles'[r][j].identifier
      <4>1. handles'[r] = WithoutHandle(id, r) /\ handles[r] \in Seq(Handles)
        BY <2>1 DEF IInv, TypeOK
      <4>2. \A m, n \in DOMAIN handles[r] :
              m # n => handles[r][m].identifier # handles[r][n].identifier
        BY DEF IInv, HandlesCurrent
      <4> HIDE DEF id
      <4> QED BY <4>1, <4>2, WithoutHandleFacts
    <3>2. PICK k \in DOMAIN handles[r] : handles'[r][i] = handles[r][k]
      BY <3>1
    <3>3. handles[r][k] \in Handles /\ identifierOf[handles[r][k].handle] = handles[r][k].identifier
      BY DEF IInv, TypeOK, HandlesCurrent
    <3>4. handles[r][k].handle \in Connections \ {c}
      BY <3>1, <3>2, <3>3 DEF Handles
    <3> QED BY <2>1, <3>1, <3>2, <3>3, <3>4
  <2> QED BY <2>2 DEF HandlesCurrent
<1>6. CASE CreateHandles
  BY <1>3, <1>6, MessageHandlerFacts DEF IInv, CreateHandles, MessageSteps
<1>7. CASE EraseHandles
  <2>1. handler.room \in Rooms
    BY <1>7 DEF IInv, TypeOK, EraseHandles, Idle, MessageHandlers, CloseHandlers
  <2> QED BY <1>3, <1>7, <2>1 DEF EraseHandles
<1>8. CASE Client
  BY <1>1, <1>2, <1>8 DEF Client, Lose, RejectKey, RejectRoom, OnMessage, CreateRoom
<1>9. CASE Handle
  BY <1>1, <1>4, <1>5, <1>6, <1>7, <1>9
     DEF Handle, CreateThread, DropOversize, Refuse, AddPacket
<1>10. ASSUME NEW r \in Rooms, RoomThread(r) PROVE HandlesCurrent'
  BY <1>1, <1>10
     DEF RoomThread, CheckRoom, GetPackets, GetConnections, SendTo, Join, Complete
<1>11. CASE RefreshKeys \/ (\E c \in Connections : OnClose(c)) \/ UNCHANGED vars
  BY <1>1, <1>11 DEF RefreshKeys, OnClose, vars
<1> QED BY <1>8, <1>9, <1>10, <1>11 DEF Next

(* A room is destroyed only when no other moon is registered for it. *)
LEMMA MoonStep ==
  ASSUME IInv, [Next]_vars
  PROVE  MoonRoomsExist'
<1> USE DEF roomVars
<1>1. CASE UNCHANGED <<moonRoom, rooms>>
  BY <1>1 DEF IInv, MoonRoomsExist
<1>2. ASSUME NEW c \in Connections, NEW r \in Rooms, NEW m \in BOOLEAN,
             NEW o \in BOOLEAN, OnMessage(c, r, m, o)
      PROVE  MoonRoomsExist'
  BY <1>2 DEF IInv, TypeOK, MoonRoomsExist, OnMessage, HasRoom, RegisterMoon, Identifiers
<1>3. ASSUME NEW c \in Connections, NEW r \in Rooms, NEW o \in BOOLEAN,
             CreateRoom(c, r, o)
      PROVE  MoonRoomsExist'
  BY <1>3 DEF IInv, TypeOK, MoonRoomsExist, CreateRoom, RegisterMoon, Identifiers
<1>4. ASSUME NEW c \in Connections, OnClose(c) PROVE MoonRoomsExist'
  BY <1>4, NoRoomAssumption
     DEF IInv, TypeOK, MoonRoomsExist, OnClose, Abandoned, Identifiers
<1>5. CASE Client
  BY <1>1, <1>2, <1>3, <1>5 DEF Client, OnOpen, Lose, RejectKey, RejectRoom
<1>6. CASE Handle
  BY <1>1, <1>6
     DEF Handle, CreateHandles, CreateThread, DropOversize, Refuse, AddPacket,
         AddHandle, EraseHandles, RemoveConnection
<1>7. ASSUME NEW r \in Rooms, RoomThread(r) PROVE MoonRoomsExist'
  BY <1>1, <1>7
     DEF RoomThread, CheckRoom, GetPackets, GetConnections, SendTo, Join, Complete
<1>8. CASE RefreshKeys \/ UNCHANGED vars
  BY <1>1, <1>8 DEF RefreshKeys, vars
<1> QED BY <1>4, <1>5, <1>6, <1>7, <1>8 DEF Next

(* A thread enters m_completedThreads as its last act, and once. *)
LEMMA CompletedStep ==
  ASSUME IInv, [Next]_vars
  PROVE  CompletedJoinable'
<1>1. CASE UNCHANGED <<thread, completed>>
  BY <1>1 DEF IInv, CompletedJoinable
<1>2. CASE CreateThread
  BY <1>2 DEF CreateThread, CompletedJoinable
<1>3. ASSUME NEW r \in Rooms, thread[r] # "completed", UNCHANGED completed,
             NEW v, thread' = [thread EXCEPT ![r] = v]
      PROVE  CompletedJoinable'
  BY <1>3 DEF IInv, TypeOK, CompletedJoinable
<1>4. ASSUME NEW r \in Rooms, Complete(r) PROVE CompletedJoinable'
  <2>1. completed \in Seq(Rooms) /\ completed' = Append(completed, r)
    BY <1>4 DEF IInv, TypeOK, Complete
  <2>2. /\ thread' = [thread EXCEPT ![r] = "completed"]
        /\ \A i \in DOMAIN completed : completed[i] # r
    BY <1>4 DEF IInv, CompletedJoinable, Complete
  <2>3. /\ DOMAIN completed' = 1..(Len(completed) + 1) /\ Len(completed) \in Nat
        /\ completed'[Len(completed) + 1] = r
        /\ \A i \in 1..Len(completed) : i \in DOMAIN completed /\ completed'[i] = completed[i]
    BY <2>1
  <2>4. \A i \in DOMAIN completed' : thread'[completed'[i]] = "completed"
    BY <2>1, <2>2, <2>3 DEF IInv, TypeOK, CompletedJoinable
  <2>5. \A i, j \in DOMAIN completed' : i # j => completed'[i] # completed'[j]
    BY <2>2, <2>3 DEF IInv, CompletedJoinable
  <2> QED BY <2>4, <2>5 DEF CompletedJoinable
<1>5. ASSUME NEW r \in Rooms,
             CheckRoom(r) \/ GetPackets(r) \/ GetConnections(r) \/ Join(r)
      PROVE  CompletedJoinable'
  BY <1>3, <1>5 DEF CheckRoom, GetPackets, GetConnections, Join
<1>6. CASE Client
  <2>1. PICK c \in Connections :
          \/ OnOpen(c) \/ Lose(c) \/ RejectKey(c)
          \/ \E r \in Rooms : RejectRoom(c, r)
          \/ \E r \in Rooms, oversize \in BOOLEAN :
               \/ CreateRoom(c, r, oversize)
               \/ \E moon \in BOOLEAN : OnMessage(c, r, moon, oversize)
    BY <1>6 DEF Client
  <2>2. UNCHANGED <<thread, completed>>
    BY <2>1 DEF OnOpen, Lose, RejectKey, RejectRoom, OnMessage, CreateRoom
  <2> QED BY <1>1, <2>2
<1>7. CASE Handle
  BY <1>1, <1>2, <1>7
     DEF Handle, CreateHandles, DropOversize, Refuse, AddPacket, AddHandle,
         EraseHandles, RemoveConnection
<1>8. ASSUME NEW r \in Rooms, RoomThread(r) PROVE CompletedJoinable'
  BY <1>1, <1>4, <1>5, <1>8 DEF RoomThread, SendTo
<1>9. CASE RefreshKeys \/ (\E c \in Connections : OnClose(c)) \/ UNCHANGED vars
  BY <1>1, <1>9 DEF RefreshKeys, OnClose, vars
<1> QED BY <1>6, <1>7, <1>8, <1>9 DEF Next

-----------------------------------------------------------------------------
(* IInv is inductive. *)
THEOREM Invariance == Spec => []IInv
<1>1. IInv /\ [Next]_vars => IInv'
  BY TypeStep, IdentifierStep, ReturnedStep, HandlerStep, JobsStep, HandlesStep, MoonStep,
     CompletedStep DEF IInv
<1> QED BY InitIInv, <1>1, PTL DEF Spec

(* Every variable keeps its type, for any size of the system. *)
THEOREM TypeCorrect == Spec => []TypeOK
<1>1. IInv => TypeOK
  BY DEF IInv
<1> QED BY Invariance, <1>1, PTL

(* However often identifiers are released and claimed again, no two open
   connections hold the same one.                                          *)
THEOREM UniqueIdentifiers == Spec => []IdentifiersUnique
<1>1. IInv => IdentifiersUnique
  BY DEF IInv, IdentifierInv
<1> QED BY Invariance, <1>1, PTL

(* No identifier leaks: those passed over are those that connections hold. *)
THEOREM ReturnedIdentifiers == Spec => []IdentifiersReturned
<1>1. IInv => IdentifiersReturned
  BY DEF IInv
<1> QED BY Invariance, <1>1, PTL

(* A room's list holds each connection once, under its current identifier. *)
THEOREM CurrentHandles == Spec => []HandlesCurrent
<1>1. IInv => HandlesCurrent
  BY DEF IInv
<1> QED BY Invariance, <1>1, PTL

(* The room of a registered moon exists. *)
THEOREM RoomsOfMoonsExist == Spec => []MoonRoomsExist
<1>1. IInv => MoonRoomsExist
  BY DEF IInv
<1> QED BY Invariance, <1>1, PTL

(* Cleaning up the completed threads never joins a thread that is not there,
   or joins one twice.                                                     *)
THEOREM JoinableThreads == Spec => []CompletedJoinable
<1>1. IInv => CompletedJoinable
  BY DEF IInv
<1> QED BY Invariance, <1>1, PTL

=============================================================================
