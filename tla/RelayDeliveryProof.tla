------------------------- MODULE RelayDeliveryProof -------------------------
(***************************************************************************)
(* Proofs about RelayDelivery: what the relay promises its clients, for    *)
(* any number of connections, rooms, identifiers and messages.             *)
(***************************************************************************)
EXTENDS RelayDelivery, RelayProof

(* The history knows the connection that sent each accepted packet. *)
SenderInv == sender \in Seq(Connections) /\ Len(sender) = accepted

(* A packet carries the identifier that its sender still holds, if the sender
   has not gone; so does an entry of a snapshot of the connections.        *)
Genuine(p) ==
  /\ p.payload \in 1..accepted
  /\ LET c == sender[p.payload] IN
       state[c] # "gone" => identifierOf[c] = p.identifier

PacketsInv ==
  \A r \in Rooms :
    /\ \A i \in DOMAIN packets[r] : Genuine(packets[r][i])
    /\ \A i \in DOMAIN batch[r] : Genuine(batch[r][i])

TargetsInv ==
  \A r \in Rooms :
    /\ unsent[r] # {} => thread[r] = "send"
    /\ \A i \in DOMAIN targets[r] :
         LET h == targets[r][i] IN
         state[h.handle] # "gone" => identifierOf[h.handle] = h.identifier
    /\ \A i, j \in DOMAIN targets[r] : i # j => targets[r][i].handle # targets[r][j].handle

(* A job hands its connection accepted packets, and skips what it sent itself. *)
OutboxInv ==
  \A c \in Connections : \A a \in DOMAIN outbox[c] :
    LET f == outbox[c][a] IN
    \A i \in DOMAIN f.packets :
      /\ f.packets[i].payload \in 1..accepted
      /\ IsOther(f.packets[i], f.without) => sender[f.packets[i].payload] # c

(* What a room has waiting is younger than what its thread has taken, which is
   younger than what a connection still to be served has been given.       *)
Increasing(s) == \A i, j \in DOMAIN s : i < j => s[i].payload < s[j].payload
Before(s, t) == \A i \in DOMAIN s : \A j \in DOMAIN t : s[i].payload < t[j].payload

QueuesInv ==
  \A r \in Rooms :
    Increasing(packets[r]) /\ Increasing(batch[r]) /\ Before(batch[r], packets[r])

(* It is to be served by a job of the batch that room r's thread has taken. *)
ToServe(c, r) ==
  \/ thread[r] = "getConnections"
  \/ \E i \in unsent[r] : targets[r][i].handle = c

FramesInv ==
  \A c \in Connections : \A a \in DOMAIN outbox[c] :
    LET f == outbox[c][a] IN
    /\ Increasing(f.packets)
    /\ Before(f.packets, packets[f.room])
    /\ ToServe(c, f.room) => Before(f.packets, batch[f.room])
    /\ \A b \in DOMAIN outbox[c] :
         a < b /\ outbox[c][b].room = f.room => Before(f.packets, outbox[c][b].packets)

(* A message is owed to open connections of an existing room, under whose
   numbers it was not sent.                                                *)
SentByOther(d, s) ==
  \A i \in DOMAIN s : s[i].payload = d.payload => s[i].identifier # identifierOf[d.conn]

OwedInv ==
  \A d \in owed :
    /\ d.conn \in Connections /\ d.room \in rooms /\ d.payload \in 1..accepted
    /\ state[d.conn] = "open"
    /\ SentByOther(d, packets[d.room]) /\ SentByOther(d, batch[d.room])

(* Nothing is owed in a room whose list of connections is about to be reset. *)
ResetInv ==
  /\ handler.at = "createHandles" => \A d \in owed : d.room # handler.room
  /\ handler.at = "eraseHandles" => handler.room \notin rooms

DeliveryInv ==
  /\ IInv
  /\ SenderInv
  /\ PacketsInv
  /\ TargetsInv
  /\ OutboxInv
  /\ QueuesInv
  /\ FramesInv
  /\ OwedInv
  /\ ResetInv
  /\ NoPacketLost

-----------------------------------------------------------------------------
(* Nothing changes of what is on its way to the clients, but that a room that
   is created or destroyed loses its packets.                              *)
Aside ==
  /\ \A r \in Rooms :
       \/ packets'[r] = packets[r]
       \/ packets'[r] = <<>> /\ ~(r \in rooms /\ r \in rooms')
  /\ \A r \in Rooms :
       /\ thread'[r] = "getConnections" <=> thread[r] = "getConnections"
       /\ thread'[r] = "send" <=> thread[r] = "send"
  /\ UNCHANGED <<tickVars, outbox, accepted>>

(* Every step is aside from the delivery, or one of the five that carry it. *)
LEMMA Effects ==
  ASSUME IInv, [Next]_vars
  PROVE  \/ Aside
         \/ AddPacket
         \/ \E r \in Rooms : \/ GetPackets(r) \/ GetConnections(r) \/ Join(r)
                             \/ \E i \in unsent[r] : SendTo(r, i)
<1> TypeOK
  BY DEF IInv
<1>1. CASE UNCHANGED <<packets, thread, tickVars, outbox, accepted>>
  BY <1>1 DEF Aside
<1>2. CASE Client
  <2>1. PICK c \in Connections :
          \/ OnOpen(c) \/ Lose(c) \/ RejectKey(c)
          \/ \E r \in Rooms : RejectRoom(c, r)
          \/ \E r \in Rooms, oversize \in BOOLEAN :
               \/ CreateRoom(c, r, oversize)
               \/ \E moon \in BOOLEAN : OnMessage(c, r, moon, oversize)
    BY <1>2 DEF Client
  <2>2. CASE \E r \in Rooms, oversize \in BOOLEAN : CreateRoom(c, r, oversize)
    BY <2>2 DEF CreateRoom, HasRoom, Aside, TypeOK
  <2>3. CASE ~\E r \in Rooms, oversize \in BOOLEAN : CreateRoom(c, r, oversize)
    BY <1>1, <2>1, <2>3
    DEF OnOpen, Lose, RejectKey, RejectRoom, OnMessage, roomVars
  <2> QED BY <2>2, <2>3
<1>3. ASSUME NEW c \in Connections, OnClose(c)
      PROVE  Aside
  BY <1>3 DEF OnClose, Aside, TypeOK
<1>4. CASE CreateThread
  <2>1. UNCHANGED <<packets, tickVars, outbox, accepted>>
    BY <1>4 DEF CreateThread, roomVars
  <2>2. handler.room \in Rooms
    BY <1>4, MessageHandlerFacts DEF CreateThread, MessageSteps
  <2>3. \A r \in Rooms : r \in ToSet(completed) => thread[r] = "completed"
    BY DEF IInv, CompletedJoinable, ToSet
  <2>4. \A r \in Rooms : \/ thread'[r] = thread[r]
                         \/ /\ thread[r] \in {"none", "completed"}
                            /\ thread'[r] \in {"none", "check"}
    BY <1>4, <2>2, <2>3 DEF CreateThread, StartThread, ThreadsAfterJoin
  <2> QED BY <2>1, <2>4 DEF Aside
<1>5. CASE Handle
  BY <1>1, <1>4, <1>5
  DEF Handle, CreateHandles, DropOversize, Refuse, AddHandle, EraseHandles, RemoveConnection,
      roomVars
<1>6. ASSUME NEW r \in Rooms, CheckRoom(r) \/ Complete(r)
      PROVE  Aside
  BY <1>6 DEF CheckRoom, Complete, Aside, TypeOK, roomVars
<1>7. CASE \E r \in Rooms : RoomThread(r)
  BY <1>6, <1>7 DEF RoomThread
<1>8. CASE RefreshKeys \/ UNCHANGED vars
  BY <1>1, <1>8 DEF RefreshKeys, vars, roomVars
<1> QED BY <1>2, <1>3, <1>5, <1>7, <1>8 DEF Next

(* A connection keeps its identifier until it is gone, and stays gone. *)
LEMMA IdentityKept ==
  ASSUME IInv, [Next]_vars, NEW c \in Connections
  PROVE  /\ state'[c] # "gone" => state[c] # "gone"
         /\ state[c] # "new" /\ state'[c] # "gone" => identifierOf'[c] = identifierOf[c]
         /\ state[c] # "new" => state'[c] # "new"
         /\ state'[c] = "open" /\ state[c] # "new" => state[c] = "open"
         /\ identifierOf[c] # 0 => state[c] # "new"
<1> TypeOK
  BY DEF IInv
<1>1. identifierOf[c] # 0 => state[c] # "new"
  BY DEF IInv, IdentifierInv
<1>2. CASE UNCHANGED connVars
  BY <1>1, <1>2 DEF connVars
<1>3. ASSUME NEW d \in Connections, state[d] # "gone", Close(d), UNCHANGED identifierOf
      PROVE  /\ state'[c] # "gone" => state[c] # "gone"
             /\ identifierOf'[c] = identifierOf[c]
             /\ state[c] # "new" => state'[c] # "new"
             /\ state'[c] = "open" => state[c] = "open"
  BY <1>3 DEF Close, TypeOK
<1>4. CASE Client
  <2>1. PICK d \in Connections :
          \/ OnOpen(d) \/ Lose(d) \/ RejectKey(d)
          \/ \E r \in Rooms : RejectRoom(d, r)
          \/ \E r \in Rooms, oversize \in BOOLEAN :
               \/ CreateRoom(d, r, oversize)
               \/ \E moon \in BOOLEAN : OnMessage(d, r, moon, oversize)
    BY <1>4 DEF Client
  <2>2. CASE OnOpen(d)
    <3>1. state[d] = "new" /\ state' = [state EXCEPT ![d] = "open"]
      BY <2>2 DEF OnOpen
    <3>2. c # d => identifierOf'[c] = identifierOf[c]
      BY <2>2 DEF OnOpen, TypeOK
    <3> QED BY <1>1, <3>1, <3>2 DEF TypeOK
  <2>3. CASE Lose(d) \/ RejectKey(d) \/ \E r \in Rooms : RejectRoom(d, r)
    <3>1. state[d] # "gone" /\ Close(d) /\ UNCHANGED identifierOf
      BY <2>3 DEF Lose, RejectKey, RejectRoom, CanPresent, CanReceive, Close
    <3> QED BY <1>1, <1>3, <3>1
  <2>4. CASE \E r \in Rooms, oversize \in BOOLEAN :
               \/ CreateRoom(d, r, oversize)
               \/ \E moon \in BOOLEAN : OnMessage(d, r, moon, oversize)
    BY <1>2, <2>4 DEF CreateRoom, OnMessage
  <2> QED BY <2>1, <2>2, <2>3, <2>4
<1>5. CASE Refuse
  <2>1. handler.conn \in Connections /\ state[handler.conn] # "gone"
    BY <1>5, MessageHandlerFacts DEF IInv, HandlerInv, Refuse, MessageSteps
  <2>2. Close(handler.conn) /\ UNCHANGED identifierOf
    BY <1>5 DEF Refuse
  <2> QED BY <1>1, <1>3, <2>1, <2>2
<1>6. CASE RemoveConnection
  <2>1. handler.conn \in Connections
    BY <1>6 DEF TypeOK, RemoveConnection, Idle, MessageHandlers, CloseHandlers
  <2>2. /\ state' = [state EXCEPT ![handler.conn] = "gone"]
        /\ identifierOf' = [identifierOf EXCEPT ![handler.conn] = 0]
    BY <1>6 DEF RemoveConnection
  <2> QED BY <1>1, <2>1, <2>2 DEF TypeOK
<1>7. CASE Handle
  BY <1>2, <1>5, <1>6, <1>7
  DEF Handle, CreateHandles, CreateThread, DropOversize, AddPacket, AddHandle, EraseHandles
<1>8. ASSUME NEW d \in Connections, OnClose(d)
      PROVE  UNCHANGED connVars
  BY <1>8 DEF OnClose
<1>9. CASE \E r \in Rooms : RoomThread(r)
  BY <1>2, <1>9
  DEF RoomThread, CheckRoom, GetPackets, GetConnections, SendTo, Join, Complete
<1>10. CASE RefreshKeys \/ UNCHANGED vars
  BY <1>2, <1>10 DEF RefreshKeys, vars
<1> QED BY <1>2, <1>4, <1>7, <1>8, <1>9, <1>10 DEF Next

-----------------------------------------------------------------------------
(* What a sequence holds after one more is put at its end. *)
LEMMA AppendPacket ==
  ASSUME NEW s \in Seq(Packets), NEW p \in Packets
  PROVE  /\ Append(s, p) \in Seq(Packets)
         /\ \A i \in DOMAIN Append(s, p) :
              \/ i \in DOMAIN s /\ Append(s, p)[i] = s[i]
              \/ i = Len(s) + 1 /\ Append(s, p)[i] = p
         /\ \A i \in DOMAIN s : i < Len(s) + 1 /\ i \in DOMAIN Append(s, p) /\ Append(s, p)[i] = s[i]
         /\ Len(s) + 1 \in DOMAIN Append(s, p) /\ Append(s, p)[Len(s) + 1] = p
OBVIOUS

LEMMA AppendFrame ==
  ASSUME NEW s \in Seq(Frames), NEW f \in Frames
  PROVE  /\ Append(s, f) \in Seq(Frames)
         /\ \A i \in DOMAIN Append(s, f) :
              \/ i \in DOMAIN s /\ Append(s, f)[i] = s[i]
              \/ i = Len(s) + 1 /\ Append(s, f)[i] = f
         /\ \A i \in DOMAIN s : i < Len(s) + 1 /\ i \in DOMAIN Append(s, f) /\ Append(s, f)[i] = s[i]
         /\ Len(s) + 1 \in DOMAIN Append(s, f) /\ Append(s, f)[Len(s) + 1] = f
OBVIOUS

(* addPacket puts one packet, with the next number and its sender's identifier,
   at the end of the room's packets, if the room is there.                 *)
Added == [identifier |-> identifierOf[handler.conn], payload |-> accepted + 1]

LEMMA AddPacketFacts ==
  ASSUME IInv, AddPacket
  PROVE  /\ handler.room \in Rooms /\ handler.conn \in Connections
         /\ identifierOf[handler.conn] # 0 /\ Added \in Packets
         /\ accepted \in Nat /\ accepted' = accepted + 1
         /\ \A q \in Rooms :
              packets'[q] = IF q = handler.room /\ q \in rooms
                            THEN Append(packets[q], Added) ELSE packets[q]
         /\ UNCHANGED <<connVars, rooms, handles, thread, tickVars, outbox>>
<1> TypeOK
  BY DEF IInv
<1>1. handler.room \in Rooms /\ handler.conn \in Connections /\ identifierOf[handler.conn] # 0
  BY MessageHandlerFacts DEF IInv, HandlerInv, AddPacket, MessageSteps
<1>2. accepted \in Nat /\ accepted' = accepted + 1
  BY MaxMessagesAssumption DEF AddPacket, TypeOK
<1>3. Added \in Packets
  BY <1>1, <1>2, MaxIdentifierAssumption DEF Added, Packets, Identifiers, TypeOK
<1>4. \A q \in Rooms :
        packets'[q] = IF q = handler.room /\ q \in rooms
                      THEN Append(packets[q], Added) ELSE packets[q]
  BY <1>1 DEF AddPacket, Added, HasRoom, TypeOK
<1> QED BY <1>1, <1>2, <1>3, <1>4 DEF AddPacket

(* Only addPacket gives numbers. *)
LEMMA AcceptedKept ==
  ASSUME IInv, [Next]_vars, ~AddPacket
  PROVE  accepted' = accepted
BY Effects DEF Aside, GetPackets, GetConnections, SendTo, Join

(* The history goes on, and what it holds stays. *)
LEMMA SenderStep ==
  ASSUME IInv, SenderInv, [Next /\ Record]_dvars
  PROVE  /\ SenderInv'
         /\ \A n \in 1..accepted :
              n \in 1..accepted' /\ sender'[n] = sender[n] /\ sender[n] \in Connections
         /\ AddPacket /\ Record => accepted' \in 1..accepted' /\ sender'[accepted'] = handler.conn
<1>1. accepted \in Nat /\ sender \in Seq(Connections) /\ Len(sender) = accepted
  BY MaxMessagesAssumption DEF IInv, TypeOK, SenderInv
<1>2. \A n \in 1..accepted : sender[n] \in Connections
  BY <1>1
<1>3. [Next]_vars
  BY DEF dvars
<1>4. CASE AddPacket /\ Record
  <2>1. accepted' = accepted + 1 /\ handler.conn \in Connections
    BY <1>4, AddPacketFacts
  <2>2. sender' = Append(sender, handler.conn)
    BY <1>1, <1>4, <2>1 DEF Record
  <2>3. /\ sender' \in Seq(Connections) /\ Len(sender') = accepted + 1
        /\ sender'[accepted + 1] = handler.conn
        /\ \A n \in 1..accepted : sender'[n] = sender[n]
    BY <1>1, <2>1, <2>2
  <2> QED BY <1>1, <1>2, <2>1, <2>3 DEF SenderInv
<1>5. CASE ~(AddPacket /\ Record)
  <2>1. UNCHANGED <<accepted, sender>>
    <3>1. CASE UNCHANGED dvars
      BY <3>1 DEF dvars, vars, histVars
    <3>2. CASE Next /\ Record
      BY <1>3, <1>5, <3>2, AcceptedKept DEF Record
    <3> QED BY <3>1, <3>2
  <2> QED BY <1>1, <1>2, <1>5, <2>1 DEF SenderInv
<1> QED BY <1>4, <1>5

(* A genuine packet stays one. *)
LEMMA GenuineKept ==
  ASSUME IInv, SenderInv, [Next /\ Record]_dvars, NEW p \in Packets, Genuine(p)
  PROVE  /\ p.payload \in 1..accepted'
         /\ state'[sender'[p.payload]] # "gone" => identifierOf'[sender'[p.payload]] = p.identifier
<1>1. /\ p.payload \in 1..accepted'
      /\ sender'[p.payload] = sender[p.payload] /\ sender[p.payload] \in Connections
  BY SenderStep DEF Genuine
<1>2. [Next]_vars
  BY DEF dvars
<1>3. p.identifier # 0
  BY MaxIdentifierAssumption DEF Packets, Identifiers
<1>4. state[sender[p.payload]] # "gone" => identifierOf[sender[p.payload]] = p.identifier
  BY DEF Genuine
<1> QED BY <1>1, <1>2, <1>3, <1>4, IdentityKept

(* The packets that wait, and those that were taken, are preserved to be genuine. *)
LEMMA PacketsStep ==
  ASSUME IInv, SenderInv, PacketsInv, [Next /\ Record]_dvars
  PROVE  PacketsInv'
<1> TypeOK
  BY DEF IInv
<1>1. [Next]_vars
  BY DEF dvars
<1> DEFINE GenuineNext(p) ==
      /\ p.payload \in 1..accepted'
      /\ state'[sender'[p.payload]] # "gone" => identifierOf'[sender'[p.payload]] = p.identifier
<1>2. ASSUME NEW r \in Rooms
      PROVE  /\ \A i \in DOMAIN packets[r] : GenuineNext(packets[r][i])
             /\ \A i \in DOMAIN batch[r] : GenuineNext(batch[r][i])
  <2>1. packets[r] \in Seq(Packets) /\ batch[r] \in Seq(Packets)
    BY DEF TypeOK
  <2>2. \A i \in DOMAIN packets[r] : packets[r][i] \in Packets /\ Genuine(packets[r][i])
    BY <2>1 DEF PacketsInv
  <2>3. \A i \in DOMAIN batch[r] : batch[r][i] \in Packets /\ Genuine(batch[r][i])
    BY <2>1 DEF PacketsInv
  <2> QED BY <2>2, <2>3, GenuineKept
<1> SUFFICES ASSUME NEW r \in Rooms
             PROVE  /\ \A i \in DOMAIN packets'[r] : GenuineNext(packets'[r][i])
                    /\ \A i \in DOMAIN batch'[r] : GenuineNext(batch'[r][i])
  BY DEF PacketsInv, Genuine
<1> HIDE DEF GenuineNext
<1>3. CASE UNCHANGED dvars
  BY <1>2, <1>3 DEF dvars, vars, roomVars, tickVars
<1>4. CASE Aside
  BY <1>2, <1>4 DEF Aside, tickVars
<1>5. CASE AddPacket /\ Record
  <2>1. GenuineNext(Added)
    <3>1. Added.payload = accepted' /\ Added.identifier = identifierOf[handler.conn]
      BY <1>5, AddPacketFacts DEF Added
    <3>2. UNCHANGED identifierOf
      BY <1>5, AddPacketFacts DEF connVars
    <3>3. accepted' \in 1..accepted' /\ sender'[accepted'] = handler.conn
      BY <1>5, SenderStep
    <3> QED BY <3>1, <3>2, <3>3 DEF GenuineNext
  <2>2. packets[r] \in Seq(Packets) /\ Added \in Packets /\ UNCHANGED batch
    BY <1>5, AddPacketFacts DEF TypeOK, tickVars
  <2>3. packets'[r] = Append(packets[r], Added) \/ packets'[r] = packets[r]
    BY <1>5, AddPacketFacts
  <2> QED BY <1>2, <2>1, <2>2, <2>3, AppendPacket
<1>6. ASSUME NEW q \in Rooms, GetPackets(q)
      PROVE  /\ \A i \in DOMAIN packets'[r] : GenuineNext(packets'[r][i])
             /\ \A i \in DOMAIN batch'[r] : GenuineNext(batch'[r][i])
  <2>1. /\ packets'[r] = packets[r] \/ packets'[r] = <<>>
        /\ batch'[r] = batch[r] \/ batch'[r] = packets[r]
    BY <1>6 DEF GetPackets, SwapPackets, TypeOK
  <2> QED BY <1>2, <2>1
<1>7. ASSUME NEW q \in Rooms,
             GetConnections(q) \/ Join(q) \/ \E i \in unsent[q] : SendTo(q, i)
      PROVE  /\ \A i \in DOMAIN packets'[r] : GenuineNext(packets'[r][i])
             /\ \A i \in DOMAIN batch'[r] : GenuineNext(batch'[r][i])
  <2>1. packets'[r] = packets[r] /\ (batch'[r] = batch[r] \/ batch'[r] = <<>>)
    BY <1>7 DEF GetConnections, Join, SendTo, roomVars, TypeOK
  <2> QED BY <1>2, <2>1
<1> QED BY <1>1, <1>3, <1>4, <1>5, <1>6, <1>7, Effects

(* The jobs of a tick name their connections by the identifiers they hold. *)
LEMMA TargetsStep ==
  ASSUME IInv, TargetsInv, [Next]_vars
  PROVE  TargetsInv'
<1> TypeOK
  BY DEF IInv
<1>1. ASSUME NEW h \in Handles, state[h.handle] # "gone" => identifierOf[h.handle] = h.identifier
      PROVE  state'[h.handle] # "gone" => identifierOf'[h.handle] = h.identifier
  <2>1. h.handle \in Connections /\ h.identifier # 0
    BY MaxIdentifierAssumption DEF Handles, Identifiers
  <2> QED BY <1>1, <2>1, IdentityKept
<1> DEFINE Current(s) ==
      /\ \A i \in DOMAIN s : state'[s[i].handle] # "gone" => identifierOf'[s[i].handle] = s[i].identifier
      /\ \A i, j \in DOMAIN s : i # j => s[i].handle # s[j].handle
<1>2. ASSUME NEW r \in Rooms
      PROVE  Current(targets[r]) /\ (unsent[r] # {} => thread[r] = "send")
  <2>1. targets[r] \in Seq(Handles)
    BY DEF TypeOK
  <2>2. \A i \in DOMAIN targets[r] : targets[r][i] \in Handles
    BY <2>1
  <2> QED BY <1>1, <2>2 DEF TargetsInv
<1>3. ASSUME NEW r \in Rooms
      PROVE  Current(handles[r])
  <2>1. handles[r] \in Seq(Handles)
    BY DEF TypeOK
  <2>2. \A i \in DOMAIN handles[r] : handles[r][i] \in Handles
    BY <2>1
  <2>3. \A i, j \in DOMAIN handles[r] :
          /\ identifierOf[handles[r][i].handle] = handles[r][i].identifier
          /\ i # j => handles[r][i].identifier # handles[r][j].identifier
    BY DEF IInv, HandlesCurrent
  <2>4. \A i, j \in DOMAIN handles[r] : i # j => handles[r][i].handle # handles[r][j].handle
    BY <2>3
  <2> QED BY <1>1, <2>2, <2>3, <2>4
<1>4. Current(<<>>)
  OBVIOUS
<1> SUFFICES ASSUME NEW r \in Rooms
             PROVE  Current(targets'[r]) /\ (unsent'[r] # {} => thread'[r] = "send")
  BY DEF TargetsInv
<1> HIDE DEF Current
<1>5. CASE Aside
  BY <1>2, <1>5 DEF Aside, tickVars
<1>6. CASE AddPacket
  BY <1>2, <1>6, AddPacketFacts DEF tickVars
<1>7. ASSUME NEW q \in Rooms, GetPackets(q)
      PROVE  Current(targets'[r]) /\ (unsent'[r] # {} => thread'[r] = "send")
  <2>1. UNCHANGED <<targets, unsent>> /\ (r # q => thread'[r] = thread[r]) /\ thread[q] # "send"
    BY <1>7 DEF GetPackets, TypeOK
  <2> QED BY <1>2, <2>1
<1>8. ASSUME NEW q \in Rooms, GetConnections(q)
      PROVE  Current(targets'[r]) /\ (unsent'[r] # {} => thread'[r] = "send")
  <2>1. CASE r = q
    BY <1>3, <1>8, <2>1 DEF GetConnections, TypeOK
  <2>2. CASE r # q
    BY <1>2, <1>8, <2>2 DEF GetConnections, TypeOK
  <2> QED BY <2>1, <2>2
<1>9. ASSUME NEW q \in Rooms, Join(q)
      PROVE  Current(targets'[r]) /\ (unsent'[r] # {} => thread'[r] = "send")
  <2>1. CASE r = q
    BY <1>4, <1>9, <2>1 DEF Join, TypeOK
  <2>2. CASE r # q
    BY <1>2, <1>9, <2>2 DEF Join, TypeOK
  <2> QED BY <2>1, <2>2
<1>10. ASSUME NEW q \in Rooms, NEW i \in unsent[q], SendTo(q, i)
       PROVE  Current(targets'[r]) /\ (unsent'[r] # {} => thread'[r] = "send")
  BY <1>2, <1>10 DEF SendTo, TypeOK
<1> QED BY <1>5, <1>6, <1>7, <1>8, <1>9, <1>10, Effects

(* A job gives its frame to its connection, if that is still open. *)
JobFrame(r, i) == [room |-> r, packets |-> batch[r], without |-> targets[r][i].identifier]

LEMMA SendToFacts ==
  ASSUME IInv, NEW r \in Rooms, NEW i \in unsent[r], SendTo(r, i)
  PROVE  /\ i \in DOMAIN targets[r] /\ targets[r][i] \in Handles
         /\ targets[r][i].handle \in Connections /\ JobFrame(r, i) \in Frames
         /\ \A c \in Connections :
              outbox'[c] = IF c = targets[r][i].handle /\ state[c] = "open"
                           THEN Append(outbox[c], JobFrame(r, i)) ELSE outbox[c]
         /\ \A q \in Rooms : unsent'[q] = IF q = r THEN unsent[r] \ {i} ELSE unsent[q]
         /\ thread[r] = "send"
         /\ UNCHANGED <<connVars, roomVars, handler, thread, batch, targets, accepted>>
<1> TypeOK
  BY DEF IInv
<1>1. i \in DOMAIN targets[r] /\ targets[r] \in Seq(Handles)
  BY DEF IInv, JobsInv, TypeOK
<1>2. targets[r][i] \in Handles
  BY <1>1
<1>3. targets[r][i].handle \in Connections /\ JobFrame(r, i) \in Frames
  BY <1>2 DEF Handles, Frames, JobFrame, TypeOK
<1>4. outbox' = Sent(targets[r][i].handle, JobFrame(r, i))
  BY DEF SendTo, JobFrame
<1> HIDE DEF JobFrame
<1>5. \A c \in Connections :
        outbox'[c] = IF c = targets[r][i].handle /\ state[c] = "open"
                     THEN Append(outbox[c], JobFrame(r, i)) ELSE outbox[c]
  BY <1>3, <1>4 DEF Sent, TypeOK
<1>6. \A q \in Rooms : unsent'[q] = IF q = r THEN unsent[r] \ {i} ELSE unsent[q]
  BY DEF SendTo, TypeOK
<1> QED BY <1>1, <1>2, <1>3, <1>5, <1>6 DEF SendTo

(* What a connection holds is what it held, and the frame of a job of its. *)
LEMMA OutboxSteps ==
  ASSUME IInv, [Next]_vars, NEW c \in Connections
  PROVE  \/ outbox'[c] = outbox[c]
         \/ \E r \in Rooms : \E i \in unsent[r] :
              /\ SendTo(r, i) /\ targets[r][i].handle = c /\ state[c] = "open"
              /\ JobFrame(r, i) \in Frames
              /\ outbox'[c] = Append(outbox[c], JobFrame(r, i))
<1>1. CASE \E r \in Rooms : \E i \in unsent[r] : SendTo(r, i)
  BY <1>1, SendToFacts
<1>2. CASE Aside \/ AddPacket \/ \E r \in Rooms : GetPackets(r) \/ GetConnections(r) \/ Join(r)
  BY <1>2 DEF Aside, AddPacket, GetPackets, GetConnections, Join
<1> QED BY <1>1, <1>2, Effects

(* Nobody is given their own packet: while a connection is open it has one
   identifier, and its packets carry it.                                   *)
LEMMA OutboxStep ==
  ASSUME IInv, SenderInv, PacketsInv, TargetsInv, OutboxInv, [Next /\ Record]_dvars
  PROVE  OutboxInv'
<1> TypeOK
  BY DEF IInv
<1>1. [Next]_vars
  BY DEF dvars
<1> DEFINE Fine(c, f) ==
      \A i \in DOMAIN f.packets :
        /\ f.packets[i].payload \in 1..accepted'
        /\ IsOther(f.packets[i], f.without) => sender'[f.packets[i].payload] # c
<1> SUFFICES ASSUME NEW c \in Connections
             PROVE  \A a \in DOMAIN outbox'[c] : Fine(c, outbox'[c][a])
  BY DEF OutboxInv, IsOther
<1>2. \A a \in DOMAIN outbox[c] : Fine(c, outbox[c][a])
  BY SenderStep DEF OutboxInv
<1>3. ASSUME NEW r \in Rooms, NEW i \in unsent[r], SendTo(r, i),
             targets[r][i].handle = c, state[c] = "open"
      PROVE  Fine(c, JobFrame(r, i))
  <2>1. identifierOf[c] = targets[r][i].identifier
    <3>1. i \in DOMAIN targets[r]
      BY <1>3, SendToFacts
    <3> QED BY <1>3, <3>1 DEF TargetsInv
  <2>2. ASSUME NEW k \in DOMAIN batch[r]
        PROVE  /\ batch[r][k].payload \in 1..accepted'
               /\ IsOther(batch[r][k], targets[r][i].identifier) => sender'[batch[r][k].payload] # c
    <3>1. Genuine(batch[r][k])
      BY DEF PacketsInv
    <3>2. /\ batch[r][k].payload \in 1..accepted'
          /\ sender'[batch[r][k].payload] = sender[batch[r][k].payload]
      BY <3>1, SenderStep DEF Genuine
    <3>3. sender[batch[r][k].payload] = c => batch[r][k].identifier = targets[r][i].identifier
      BY <1>3, <2>1, <3>1 DEF Genuine
    <3> QED BY <3>2, <3>3 DEF IsOther
  <2> QED BY <2>2 DEF JobFrame
<1> HIDE DEF Fine
<1>4. outbox[c] \in Seq(Frames)
  BY DEF TypeOK
<1>5. ASSUME NEW r \in Rooms, NEW i \in unsent[r], SendTo(r, i),
             targets[r][i].handle = c, state[c] = "open", JobFrame(r, i) \in Frames,
             outbox'[c] = Append(outbox[c], JobFrame(r, i)),
             NEW a \in DOMAIN outbox'[c]
      PROVE  Fine(c, outbox'[c][a])
  <2>1. \/ a \in DOMAIN outbox[c] /\ outbox'[c][a] = outbox[c][a]
        \/ outbox'[c][a] = JobFrame(r, i)
    BY <1>4, <1>5, AppendFrame
  <2>2. Fine(c, JobFrame(r, i))
    BY <1>3, <1>5
  <2> QED BY <1>2, <2>1, <2>2
<1> QED BY <1>1, <1>2, <1>5, OutboxSteps

(* What a connection has received, packet by packet. *)
LEMMA ReceivedFacts ==
  ASSUME NEW c \in Connections, NEW n
  PROVE  n \in Received(c) <=>
           \E a \in DOMAIN outbox[c] : \E i \in DOMAIN outbox[c][a].packets :
             /\ IsOther(outbox[c][a].packets[i], outbox[c][a].without)
             /\ n = outbox[c][a].packets[i].payload
BY DEF Received, FrameContents, ToSet

LEMMA NoEchoHolds == OutboxInv => NoEcho
BY ReceivedFacts DEF OutboxInv, NoEcho

(* A packet with a larger number than all keeps the order at the end. *)
LEMMA AppendIncreasing ==
  ASSUME NEW s \in Seq(Packets), NEW p \in Packets,
         \A i \in DOMAIN s : s[i].payload < p.payload
  PROVE  /\ Increasing(s) => Increasing(Append(s, p))
         /\ \A t \in Seq(Packets) :
              Before(t, s) /\ (\A i \in DOMAIN t : t[i].payload < p.payload) => Before(t, Append(s, p))
<1>1. \A i \in DOMAIN Append(s, p) :
        \/ i \in DOMAIN s /\ Append(s, p)[i] = s[i]
        \/ i = Len(s) + 1 /\ Append(s, p)[i] = p
  BY AppendPacket
<1>2. \A i \in DOMAIN s : i < Len(s) + 1 /\ i \in Int
  OBVIOUS
<1>3. \A i, j \in DOMAIN Append(s, p) : i < j => i \in DOMAIN s /\ Append(s, p)[i] = s[i]
  <2>1. DOMAIN Append(s, p) = 1..(Len(s) + 1) /\ DOMAIN s = 1..Len(s) /\ Len(s) \in Nat
    OBVIOUS
  <2>2. \A i, j \in 1..(Len(s) + 1) : i < j => i \in 1..Len(s)
    BY <2>1
  <2>3. \A i \in 1..Len(s) : i # Len(s) + 1
    BY <2>1
  <2> QED BY <1>1, <2>1, <2>2, <2>3
<1>4. Increasing(s) => Increasing(Append(s, p))
  BY <1>1, <1>3 DEF Increasing
<1>5. \A t \in Seq(Packets) :
        Before(t, s) /\ (\A i \in DOMAIN t : t[i].payload < p.payload) => Before(t, Append(s, p))
  BY <1>1 DEF Before
<1> QED BY <1>4, <1>5

(* The packets that wait are in the order they were accepted in. *)
LEMMA QueuesStep ==
  ASSUME IInv, PacketsInv, QueuesInv, [Next]_vars
  PROVE  QueuesInv'
<1> TypeOK
  BY DEF IInv
<1> SUFFICES ASSUME NEW r \in Rooms
             PROVE  /\ Increasing(packets'[r]) /\ Increasing(batch'[r])
                    /\ Before(batch'[r], packets'[r])
  BY DEF QueuesInv, Increasing, Before
<1>1. Increasing(packets[r]) /\ Increasing(batch[r]) /\ Before(batch[r], packets[r])
  BY DEF QueuesInv
<1>2. Increasing(<<>>) /\ \A s : Before(s, <<>>) /\ Before(<<>>, s)
  BY DEF Increasing, Before
<1>3. CASE Aside
  BY <1>1, <1>2, <1>3 DEF Aside, tickVars
<1>4. CASE AddPacket
  <2>1. packets[r] \in Seq(Packets) /\ batch[r] \in Seq(Packets) /\ Added \in Packets
    BY <1>4, AddPacketFacts DEF TypeOK
  <2>2. /\ \A i \in DOMAIN packets[r] : packets[r][i].payload < Added.payload
        /\ \A i \in DOMAIN batch[r] : batch[r][i].payload < Added.payload
    BY <1>4, AddPacketFacts DEF PacketsInv, Genuine, Added
  <2>3. /\ packets'[r] = Append(packets[r], Added) \/ packets'[r] = packets[r]
        /\ batch'[r] = batch[r]
    BY <1>4, AddPacketFacts DEF tickVars
  <2> QED BY <1>1, <2>1, <2>2, <2>3, AppendIncreasing
<1>5. ASSUME NEW q \in Rooms, GetPackets(q)
      PROVE  /\ Increasing(packets'[r]) /\ Increasing(batch'[r])
             /\ Before(batch'[r], packets'[r])
  <2>1. \/ packets'[r] = packets[r] /\ batch'[r] = batch[r]
        \/ packets'[r] = <<>> /\ batch'[r] = packets[r]
    BY <1>5 DEF GetPackets, SwapPackets, TypeOK
  <2> QED BY <1>1, <1>2, <2>1
<1>6. ASSUME NEW q \in Rooms,
             GetConnections(q) \/ Join(q) \/ \E i \in unsent[q] : SendTo(q, i)
      PROVE  /\ Increasing(packets'[r]) /\ Increasing(batch'[r])
             /\ Before(batch'[r], packets'[r])
  <2>1. packets'[r] = packets[r] /\ (batch'[r] = batch[r] \/ batch'[r] = <<>>)
    BY <1>6 DEF GetConnections, Join, SendTo, roomVars, TypeOK
  <2> QED BY <1>1, <1>2, <2>1
<1> QED BY <1>3, <1>4, <1>5, <1>6, Effects

(* A frame stays older than what its connection has yet to be given. *)
LEMMA FrameKept ==
  ASSUME IInv, PacketsInv, [Next]_vars, NEW c \in Connections, NEW f \in Frames,
         \A i \in DOMAIN f.packets : f.packets[i].payload \in 1..accepted,
         Before(f.packets, packets[f.room]),
         ToServe(c, f.room) => Before(f.packets, batch[f.room])
  PROVE  /\ Before(f.packets, packets'[f.room])
         /\ \/ thread'[f.room] = "getConnections"
            \/ \E i \in unsent'[f.room] : targets'[f.room][i].handle = c
            => Before(f.packets, batch'[f.room])
<1> TypeOK
  BY DEF IInv
<1> DEFINE r == f.room
           s == f.packets
           ServedNext == \/ thread'[r] = "getConnections"
                         \/ \E i \in unsent'[r] : targets'[r][i].handle = c
<1>1. r \in Rooms /\ s \in Seq(Packets)
  BY DEF Frames
<1>2. /\ \A i \in DOMAIN s : s[i].payload \in 1..accepted
      /\ Before(s, packets[r]) /\ (ToServe(c, r) => Before(s, batch[r]))
      /\ Before(s, <<>>)
  BY DEF Before
<1> HIDE DEF r, s
<1> SUFFICES Before(s, packets'[r]) /\ (ServedNext => Before(s, batch'[r]))
  BY DEF r, s
<1>3. CASE Aside
  BY <1>1, <1>2, <1>3 DEF Aside, ToServe, tickVars
<1>4. CASE AddPacket
  <2>1. packets[r] \in Seq(Packets) /\ Added \in Packets
    BY <1>1, <1>4, AddPacketFacts DEF TypeOK
  <2>2. /\ \A i \in DOMAIN packets[r] : packets[r][i].payload < Added.payload
        /\ \A i \in DOMAIN s : s[i].payload < Added.payload
    BY <1>1, <1>2, <1>4, AddPacketFacts DEF PacketsInv, Genuine, Added
  <2>3. packets'[r] = Append(packets[r], Added) \/ packets'[r] = packets[r]
    BY <1>1, <1>4, AddPacketFacts
  <2>4. Before(s, packets'[r])
    BY <1>1, <1>2, <2>1, <2>2, <2>3, AppendIncreasing
  <2>5. UNCHANGED <<thread, batch, targets, unsent>>
    BY <1>4, AddPacketFacts DEF tickVars
  <2> QED BY <1>2, <2>4, <2>5 DEF ToServe
<1>5. ASSUME NEW q \in Rooms, GetPackets(q)
      PROVE  Before(s, packets'[r]) /\ (ServedNext => Before(s, batch'[r]))
  <2>1. CASE r = q
    BY <1>1, <1>2, <1>5, <2>1 DEF GetPackets, SwapPackets, TypeOK
  <2>2. CASE r # q
    BY <1>1, <1>2, <1>5, <2>2 DEF GetPackets, SwapPackets, ToServe, TypeOK
  <2> QED BY <2>1, <2>2
<1>6. ASSUME NEW q \in Rooms, GetConnections(q)
      PROVE  Before(s, packets'[r]) /\ (ServedNext => Before(s, batch'[r]))
  <2>1. UNCHANGED <<packets, batch>> /\ thread[q] = "getConnections"
    BY <1>6 DEF GetConnections, roomVars
  <2>2. r # q => thread'[r] = thread[r] /\ targets'[r] = targets[r] /\ unsent'[r] = unsent[r]
    BY <1>1, <1>6 DEF GetConnections, TypeOK
  <2> QED BY <1>2, <2>1, <2>2 DEF ToServe
<1>7. ASSUME NEW q \in Rooms, Join(q)
      PROVE  Before(s, packets'[r]) /\ (ServedNext => Before(s, batch'[r]))
  <2>1. UNCHANGED packets
    BY <1>7 DEF Join, roomVars
  <2>2. CASE r = q
    BY <1>1, <1>2, <1>7, <2>1, <2>2 DEF Join, TypeOK
  <2>3. CASE r # q
    <3>1. thread'[r] = thread[r] /\ targets'[r] = targets[r] /\ unsent'[r] = unsent[r]
          /\ batch'[r] = batch[r]
      BY <1>1, <1>7, <2>3 DEF Join, TypeOK
    <3> QED BY <1>2, <2>1, <3>1 DEF ToServe
  <2> QED BY <2>2, <2>3
<1>8. ASSUME NEW q \in Rooms, NEW i \in unsent[q], SendTo(q, i)
      PROVE  Before(s, packets'[r]) /\ (ServedNext => Before(s, batch'[r]))
  <2>1. UNCHANGED <<packets, thread, batch, targets>> /\ unsent'[r] \subseteq unsent[r]
    BY <1>1, <1>8, SendToFacts DEF roomVars
  <2> QED BY <1>2, <2>1 DEF ToServe
<1> QED BY <1>3, <1>4, <1>5, <1>6, <1>7, <1>8, Effects

(* What a connection is given is older than what it will be given. *)
LEMMA FramesStep ==
  ASSUME IInv, PacketsInv, TargetsInv, OutboxInv, QueuesInv, FramesInv, [Next]_vars
  PROVE  FramesInv'
<1> TypeOK
  BY DEF IInv
<1> DEFINE Kept(c, f) ==
      /\ Increasing(f.packets)
      /\ Before(f.packets, packets'[f.room])
      /\ \/ thread'[f.room] = "getConnections"
         \/ \E i \in unsent'[f.room] : targets'[f.room][i].handle = c
         => Before(f.packets, batch'[f.room])
<1> SUFFICES ASSUME NEW c \in Connections, NEW a \in DOMAIN outbox'[c]
             PROVE  /\ Kept(c, outbox'[c][a])
                    /\ \A b \in DOMAIN outbox'[c] :
                         a < b /\ outbox'[c][b].room = outbox'[c][a].room
                         => Before(outbox'[c][a].packets, outbox'[c][b].packets)
  BY Zenon DEF FramesInv, ToServe, Increasing, Before
<1>1. outbox[c] \in Seq(Frames)
  BY DEF TypeOK
<1>2. ASSUME NEW k \in DOMAIN outbox[c]
      PROVE  Kept(c, outbox[c][k])
  <2> DEFINE f == outbox[c][k]
  <2>1. f \in Frames
    BY <1>1
  <2>2. /\ \A i \in DOMAIN f.packets : f.packets[i].payload \in 1..accepted
        /\ Increasing(f.packets)
        /\ Before(f.packets, packets[f.room])
        /\ ToServe(c, f.room) => Before(f.packets, batch[f.room])
    BY DEF OutboxInv, FramesInv
  <2> HIDE DEF f
  <2>3. Kept(c, f)
    BY <2>1, <2>2, FrameKept
  <2> QED BY <2>3 DEF f
<1>3. \A k, m \in DOMAIN outbox[c] :
        k < m /\ outbox[c][m].room = outbox[c][k].room
        => Before(outbox[c][k].packets, outbox[c][m].packets)
  BY DEF FramesInv
<1>4. CASE outbox'[c] = outbox[c]
  <2> HIDE DEF Kept
  <2> QED BY <1>2, <1>3, <1>4
<1>5. ASSUME NEW r \in Rooms, NEW i \in unsent[r], SendTo(r, i),
             targets[r][i].handle = c, JobFrame(r, i) \in Frames,
             outbox'[c] = Append(outbox[c], JobFrame(r, i))
      PROVE  /\ Kept(c, outbox'[c][a])
             /\ \A b \in DOMAIN outbox'[c] :
                  a < b /\ outbox'[c][b].room = outbox'[c][a].room
                  => Before(outbox'[c][a].packets, outbox'[c][b].packets)
  <2> DEFINE new == JobFrame(r, i)
             n   == Len(outbox[c]) + 1
  <2>1. new.room = r /\ new.packets = batch[r]
    BY DEF JobFrame
  <2>2. Kept(c, new)
    <3>1. /\ UNCHANGED <<packets, thread, batch, targets>> /\ thread[r] = "send"
          /\ unsent'[r] = unsent[r] \ {i} /\ i \in DOMAIN targets[r]
      BY <1>5, SendToFacts DEF roomVars
    <3>2. \A j \in unsent'[r] : targets'[r][j].handle # c
      BY <1>5, <3>1 DEF TargetsInv, IInv, JobsInv
    <3> QED BY <2>1, <3>1, <3>2 DEF QueuesInv
  <2>3. \A k \in DOMAIN outbox[c] : outbox[c][k].room = r => Before(outbox[c][k].packets, new.packets)
    BY <1>5, <2>1 DEF FramesInv, ToServe
  <2>4. \A k \in DOMAIN outbox'[c] :
          \/ k \in DOMAIN outbox[c] /\ outbox'[c][k] = outbox[c][k]
          \/ k = n /\ outbox'[c][k] = new
    BY <1>1, <1>5, AppendFrame
  <2>5. \A k, m \in DOMAIN outbox'[c] : k < m => k # n
    <3>1. DOMAIN outbox'[c] = 1..n /\ n \in Nat
      BY <1>1, <1>5
    <3> QED BY <3>1
  <2> HIDE DEF Kept, new, n
  <2>6. Kept(c, outbox'[c][a])
    BY <1>2, <2>2, <2>4
  <2>7. ASSUME NEW b \in DOMAIN outbox'[c], a < b, outbox'[c][b].room = outbox'[c][a].room
        PROVE  Before(outbox'[c][a].packets, outbox'[c][b].packets)
    <3>1. a \in DOMAIN outbox[c] /\ outbox'[c][a] = outbox[c][a]
      BY <2>4, <2>5, <2>7
    <3>2. CASE b \in DOMAIN outbox[c] /\ outbox'[c][b] = outbox[c][b]
      BY <1>3, <2>7, <3>1, <3>2
    <3>3. CASE outbox'[c][b] = new
      BY <2>1, <2>3, <2>7, <3>1, <3>3
    <3> QED BY <2>4, <3>2, <3>3
  <2> QED BY <2>6, <2>7
<1> HIDE DEF Kept
<1> QED BY <1>4, <1>5, OutboxSteps

(* The order of the frames and of the packets in each is the order of all. *)
LEMMA InOrderHolds ==
  ASSUME IInv, FramesInv
  PROVE  InOrder
<1> SUFFICES ASSUME NEW c \in Connections, NEW a \in DOMAIN outbox[c], NEW b \in DOMAIN outbox[c],
                    NEW i \in DOMAIN outbox[c][a].packets, NEW j \in DOMAIN outbox[c][b].packets,
                    outbox[c][a].room = outbox[c][b].room, a < b \/ (a = b /\ i < j)
             PROVE  outbox[c][a].packets[i].payload < outbox[c][b].packets[j].payload
  BY DEF InOrder
<1>1. CASE a < b
  BY <1>1 DEF FramesInv, Before
<1>2. CASE a = b /\ i < j
  BY <1>2 DEF FramesInv, Increasing
<1> QED BY <1>1, <1>2

-----------------------------------------------------------------------------
(* removeConnection leaves every entry of another identifier on the list. *)
LEMMA OthersStay ==
  ASSUME NEW r \in Rooms, NEW id, handles[r] \in Seq(Handles),
         \A i, j \in DOMAIN handles[r] :
           i # j => handles[r][i].identifier # handles[r][j].identifier
  PROVE  \A k \in DOMAIN handles[r] : handles[r][k].identifier # id =>
           \E i \in DOMAIN WithoutHandle(id, r) : WithoutHandle(id, r)[i] = handles[r][k]
<1> SUFFICES ASSUME NEW k \in DOMAIN handles[r], handles[r][k].identifier # id
             PROVE  \E i \in DOMAIN WithoutHandle(id, r) : WithoutHandle(id, r)[i] = handles[r][k]
  OBVIOUS
<1> DEFINE s == handles[r]
<1>1. CASE ~HasHandle(id, r)
  BY <1>1 DEF WithoutHandle
<1>2. CASE HasHandle(id, r)
  <2>1. PICK f \in DOMAIN s : s[f].identifier = id
    BY <1>2 DEF HasHandle
  <2>2. {i \in DOMAIN s : s[i].identifier = id} = {f}
    BY <2>1
  <2>3. First(id, r) = f /\ f \in 1..Len(s) /\ k \in 1..Len(s) /\ k # f /\ Len(s) \in Nat
    BY <2>1, <2>2 DEF First, Min
  <2> DEFINE t == RemoveAt(s, f)
  <2>4. WithoutHandle(id, r) = t
    BY <1>2, <2>3 DEF WithoutHandle
  <2>5. /\ t \in Seq(Handles) /\ Len(t) = Len(s) - 1
        /\ \A i \in 1..(f - 1) : t[i] = s[i]
        /\ \A i \in f..(Len(s) - 1) : t[i] = s[i + 1]
    BY <2>3, RemoveAtFacts
  <2> SUFFICES \E i \in DOMAIN t : t[i] = s[k]
    BY <2>4
  <2> HIDE DEF t, s
  <2>6. DOMAIN t = 1..(Len(s) - 1)
    BY <2>5
  <2>7. CASE k < f
    BY <2>3, <2>5, <2>6, <2>7
  <2>8. CASE k > f
    <3>1. k - 1 \in f..(Len(s) - 1) /\ k - 1 \in 1..(Len(s) - 1) /\ (k - 1) + 1 = k
      BY <2>3, <2>8
    <3>2. t[k - 1] = s[k] /\ k - 1 \in DOMAIN t
      BY <2>5, <2>6, <3>1
    <3> QED BY <3>2
  <2> QED BY <2>3, <2>7, <2>8
<1> QED BY <1>1, <1>2

(* A connection that stays open stays on the list of its room, unless this is
   being reset.                                                            *)
LEMMA MemberKept ==
  ASSUME IInv, [Next]_vars, NEW r \in Rooms, NEW c \in Members(r),
         state'[c] = "open",
         handler.at \in {"createHandles", "eraseHandles"} => handler.room # r
  PROVE  \E i \in DOMAIN handles'[r] : handles'[r][i].handle = c
<1> TypeOK
  BY DEF IInv
<1>1. PICK k \in DOMAIN handles[r] : handles[r][k].handle = c
  BY DEF Members, ToSet
<1>2. /\ handles[r] \in Seq(Handles) /\ handles[r][k] \in Handles
      /\ c \in Connections /\ identifierOf[c] = handles[r][k].identifier /\ identifierOf[c] # 0
  <2>1. handles[r] \in Seq(Handles)
    BY DEF TypeOK
  <2>2. handles[r][k] \in Handles
    BY <2>1
  <2>3. identifierOf[c] = handles[r][k].identifier
    BY <1>1 DEF IInv, HandlesCurrent
  <2> QED BY <1>1, <2>1, <2>2, <2>3, MaxIdentifierAssumption DEF Handles, Identifiers
<1>3. CASE handles'[r] = handles[r]
  BY <1>1, <1>3
<1>4. CASE AddHandle
  <2> DEFINE id == identifierOf[handler.conn]
             new == [identifier |-> id, handle |-> handler.conn]
  <2>1. handler.room \in Rooms /\ handler.conn \in Connections /\ id # 0
    BY <1>4, MessageHandlerFacts DEF IInv, HandlerInv, AddHandle, MessageSteps
  <2>2. \/ handles'[r] = handles[r]
        \/ handles'[r] = Append(handles[r], new)
    BY <1>4, <2>1 DEF AddHandle, WithHandle, TypeOK
  <2>3. CASE handles'[r] = Append(handles[r], new)
    <3>1. id \in Identifiers
      BY <2>1, MaxIdentifierAssumption DEF Identifiers, TypeOK
    <3>2. new \in Handles
      BY <2>1, <3>1 DEF Handles
    <3> HIDE DEF new
    <3>3. k \in DOMAIN handles'[r] /\ handles'[r][k] = handles[r][k]
      BY <1>2, <2>3, <3>2
    <3> QED BY <1>1, <3>3
  <2> QED BY <1>3, <2>2, <2>3
<1>5. CASE RemoveConnection
  <2> DEFINE id == identifierOf[handler.conn]
  <2>1. handler.conn \in Connections
    BY <1>5 DEF TypeOK, RemoveConnection, Idle, MessageHandlers, CloseHandlers
  <2>2. handles'[r] = WithoutHandle(id, r) /\ state'[handler.conn] = "gone"
    BY <1>5, <2>1 DEF RemoveConnection, TypeOK
  <2>3. handles[r][k].identifier # id
    BY <1>2, <2>1, <2>2 DEF IInv, IdentifierInv, IdentifiersUnique
  <2>4. \A m, n \in DOMAIN handles[r] :
          m # n => handles[r][m].identifier # handles[r][n].identifier
    BY DEF IInv, HandlesCurrent
  <2> HIDE DEF id
  <2>5. \E i \in DOMAIN handles'[r] : handles'[r][i] = handles[r][k]
    BY <1>1, <1>2, <2>2, <2>3, <2>4, OthersStay
  <2> QED BY <1>1, <2>2, <2>5
<1>6. CASE CreateHandles \/ EraseHandles
  BY <1>3, <1>6 DEF CreateHandles, EraseHandles, TypeOK
<1>7. CASE Client
  <2>1. PICK d \in Connections :
          \/ OnOpen(d) \/ Lose(d) \/ RejectKey(d)
          \/ \E q \in Rooms : RejectRoom(d, q)
          \/ \E q \in Rooms, oversize \in BOOLEAN :
               \/ CreateRoom(d, q, oversize)
               \/ \E moon \in BOOLEAN : OnMessage(d, q, moon, oversize)
    BY <1>7 DEF Client
  <2>2. UNCHANGED handles
    BY <2>1 DEF OnOpen, Lose, RejectKey, RejectRoom, CreateRoom, OnMessage, roomVars
  <2> QED BY <1>3, <2>2
<1>8. CASE Handle
  BY <1>3, <1>4, <1>5, <1>6, <1>8
  DEF Handle, CreateThread, DropOversize, Refuse, AddPacket, roomVars
<1>9. CASE \E q \in Rooms : RoomThread(q)
  BY <1>3, <1>9
  DEF RoomThread, CheckRoom, GetPackets, GetConnections, SendTo, Join, Complete, roomVars
<1>10. CASE RefreshKeys \/ (\E d \in Connections : OnClose(d)) \/ UNCHANGED vars
  BY <1>3, <1>10 DEF RefreshKeys, OnClose, vars, roomVars
<1> QED BY <1>7, <1>8, <1>9, <1>10 DEF Next

(* What is owed after a step was owed before it, or is the packet that addPacket
   was given, to those who take part in its room.                          *)
NewDebt(d) ==
  /\ d.conn \in Members(handler.room) \ {handler.conn}
  /\ d.room = handler.room
  /\ d.payload = accepted + 1

LEMMA DebtFacts ==
  ASSUME IInv, OwedInv, [Next /\ Record]_dvars, NEW d \in owed'
  PROVE  /\ state'[d.conn] = "open" /\ d.room \in rooms'
         /\ d \in owed \/ (AddPacket /\ Record /\ NewDebt(d))
         /\ outbox'[d.conn] # outbox[d.conn] => d.payload \notin Received(d.conn)'
<1>1. CASE UNCHANGED dvars
  BY <1>1 DEF dvars, vars, connVars, roomVars, histVars, OwedInv
<1>2. CASE Next /\ Record
  <2>1. /\ d \in owed \cup NewDebts
        /\ state'[d.conn] = "open" /\ d.room \in rooms' /\ d.payload \notin Received(d.conn)'
    BY <1>2 DEF Record
  <2>2. CASE AddPacket
    <3>1. accepted' = accepted + 1 /\ accepted \in Nat
      BY <2>2, AddPacketFacts
    <3>2. d \in NewDebts => NewDebt(d)
      BY <3>1 DEF NewDebts, NewDebt
    <3> QED BY <1>2, <2>1, <2>2, <3>2
  <2>3. CASE ~AddPacket
    <3>1. NewDebts = {}
      BY <1>2, <2>3, AcceptedKept DEF NewDebts
    <3> QED BY <2>1, <3>1
  <2> QED BY <2>2, <2>3
<1> QED BY <1>1, <1>2

(* The steps that begin and end a reset, and those that do not touch it. *)
LEMMA ResetSteps ==
  ASSUME IInv, [Next]_vars
  PROVE  \/ UNCHANGED <<handler, rooms>>
         \/ handler'.at \notin {"createHandles", "eraseHandles"} /\ UNCHANGED rooms
         \/ \E c \in Connections, r \in Rooms, oversize \in BOOLEAN : CreateRoom(c, r, oversize)
         \/ \E c \in Connections : OnClose(c)
<1> TypeOK
  BY DEF IInv
<1>1. CASE CreateHandles \/ CreateThread
  BY <1>1, MessageHandlerFacts
  DEF CreateHandles, CreateThread, roomVars, MessageSteps, MessageHandlers
<1>2. CASE AddPacket
  BY <1>2, MessageHandlerFacts DEF AddPacket, MessageSteps, MessageHandlers, Idle
<1>3. CASE Handle
  BY <1>1, <1>2, <1>3
  DEF Handle, DropOversize, Refuse, AddHandle, EraseHandles, RemoveConnection, roomVars, Idle
<1>4. CASE Client
  <2>1. PICK c \in Connections :
          \/ OnOpen(c) \/ Lose(c) \/ RejectKey(c)
          \/ \E r \in Rooms : RejectRoom(c, r)
          \/ \E r \in Rooms, oversize \in BOOLEAN :
               \/ CreateRoom(c, r, oversize)
               \/ \E moon \in BOOLEAN : OnMessage(c, r, moon, oversize)
    BY <1>4 DEF Client
  <2>2. CASE \E r \in Rooms, oversize \in BOOLEAN : CreateRoom(c, r, oversize)
    BY <2>2
  <2>3. CASE OnOpen(c) \/ Lose(c) \/ RejectKey(c) \/ \E r \in Rooms : RejectRoom(c, r)
    BY <2>3 DEF OnOpen, Lose, RejectKey, RejectRoom, roomVars
  <2>4. ASSUME NEW r \in Rooms, NEW moon \in BOOLEAN, NEW oversize \in BOOLEAN,
               OnMessage(c, r, moon, oversize)
        PROVE  handler'.at \notin {"createHandles", "eraseHandles"} /\ UNCHANGED rooms
    BY <2>4 DEF OnMessage, roomVars
  <2> QED BY <2>1, <2>2, <2>3, <2>4
<1>5. CASE \E r \in Rooms : RoomThread(r)
  BY <1>5
  DEF RoomThread, CheckRoom, GetPackets, GetConnections, SendTo, Join, Complete, roomVars
<1>6. CASE RefreshKeys \/ UNCHANGED vars
  BY <1>6 DEF RefreshKeys, vars, roomVars
<1> QED BY <1>3, <1>4, <1>5, <1>6 DEF Next

(* The list of a room that is being reset has no debts. *)
LEMMA ResetStep ==
  ASSUME IInv, OwedInv, ResetInv, [Next /\ Record]_dvars
  PROVE  ResetInv'
<1> TypeOK
  BY DEF IInv
<1>1. [Next]_vars
  BY DEF dvars
<1>2. AddPacket => handler'.at \notin {"createHandles", "eraseHandles"}
  BY MessageHandlerFacts DEF AddPacket, MessageSteps, MessageHandlers, Idle
<1>3. ~AddPacket => owed' \subseteq owed
  BY DebtFacts
<1>4. CASE UNCHANGED <<handler, rooms>>
  BY <1>2, <1>3, <1>4 DEF ResetInv
<1>5. CASE handler'.at \notin {"createHandles", "eraseHandles"}
  BY <1>5 DEF ResetInv
<1>6. ASSUME NEW c \in Connections, NEW r \in Rooms, NEW o \in BOOLEAN, CreateRoom(c, r, o)
      PROVE  ResetInv'
  <2>1. handler'.at = "createHandles" /\ handler'.room = r /\ r \notin rooms
    BY <1>6 DEF CreateRoom, HasRoom
  <2>2. owed' \subseteq owed
    BY <1>2, <1>3, <2>1
  <2> QED BY <2>1, <2>2 DEF ResetInv, OwedInv
<1>7. ASSUME NEW c \in Connections, OnClose(c)
      PROVE  ResetInv'
  BY <1>7 DEF OnClose, ResetInv
<1> QED BY <1>1, <1>4, <1>5, <1>6, <1>7, ResetSteps

(* A debt is about a message that its connection did not send. *)
LEMMA OwedStep ==
  ASSUME IInv, SenderInv, PacketsInv, OwedInv, [Next /\ Record]_dvars
  PROVE  OwedInv'
<1> TypeOK
  BY DEF IInv
<1> DEFINE Other(d, s) ==
      \A i \in DOMAIN s : s[i].payload = d.payload => s[i].identifier # identifierOf'[d.conn]
<1> SUFFICES ASSUME NEW d \in owed'
             PROVE  /\ d.conn \in Connections /\ d.room \in rooms' /\ d.payload \in 1..accepted'
                    /\ state'[d.conn] = "open"
                    /\ Other(d, packets'[d.room]) /\ Other(d, batch'[d.room])
  BY DEF OwedInv, SentByOther
<1>1. /\ [Next]_vars
      /\ state'[d.conn] = "open" /\ d.room \in rooms'
      /\ d \in owed \/ (AddPacket /\ Record /\ NewDebt(d))
  BY DebtFacts DEF dvars
<1>2. CASE AddPacket /\ Record /\ NewDebt(d)
  <2> DEFINE r == handler.room
  <2>1. /\ r \in Rooms /\ handler.conn \in Connections /\ identifierOf[handler.conn] # 0
        /\ Added \in Packets /\ accepted \in Nat /\ accepted' = accepted + 1
        /\ packets'[r] = packets[r] \/ packets'[r] = Append(packets[r], Added)
        /\ UNCHANGED <<identifierOf, batch>>
    BY <1>2, AddPacketFacts DEF connVars, tickVars
  <2>2. d.conn \in Members(r) /\ d.conn # handler.conn /\ d.room = r /\ d.payload = accepted + 1
    BY <1>2 DEF NewDebt
  <2>3. d.conn \in Connections
    <3>1. PICK k \in DOMAIN handles[r] : handles[r][k].handle = d.conn
      BY <2>2 DEF Members, ToSet
    <3>2. handles[r] \in Seq(Handles)
      BY <2>1 DEF TypeOK
    <3>3. handles[r][k] \in Handles
      BY <3>1, <3>2
    <3> QED BY <3>1, <3>3 DEF Handles
  <2>4. packets[r] \in Seq(Packets)
    BY <2>1 DEF TypeOK
  <2>5. /\ \A i \in DOMAIN packets[r] : packets[r][i].payload # d.payload
        /\ \A i \in DOMAIN batch[r] : batch[r][i].payload # d.payload
    BY <2>1, <2>2 DEF PacketsInv, Genuine
  <2>6. Added.identifier # identifierOf[d.conn]
    BY <2>1, <2>2, <2>3 DEF Added, IInv, IdentifierInv, IdentifiersUnique
  <2>7. Other(d, packets'[r])
    <3>1. CASE packets'[r] = packets[r]
      BY <2>5, <3>1
    <3>2. CASE packets'[r] = Append(packets[r], Added)
      <4>1. \A i \in DOMAIN packets'[r] :
              \/ i \in DOMAIN packets[r] /\ packets'[r][i] = packets[r][i]
              \/ packets'[r][i] = Added
        BY <2>1, <2>4, <3>2, AppendPacket
      <4> QED BY <2>1, <2>5, <2>6, <4>1
    <3> QED BY <2>1, <3>1, <3>2
  <2>8. Other(d, batch'[r]) /\ d.payload \in 1..accepted'
    BY <2>1, <2>2, <2>5
  <2> QED BY <1>1, <2>2, <2>3, <2>7, <2>8
<1>3. CASE d \in owed
  <2>1. /\ d.conn \in Connections /\ d.room \in Rooms /\ d.payload \in 1..accepted
        /\ state[d.conn] = "open"
        /\ SentByOther(d, packets[d.room]) /\ SentByOther(d, batch[d.room])
    BY <1>3 DEF OwedInv, TypeOK
  <2>2. d.payload \in 1..accepted'
    BY <2>1, SenderStep
  <2>3. identifierOf'[d.conn] = identifierOf[d.conn]
    BY <1>1, <2>1, IdentityKept
  <2>4. Other(d, packets[d.room]) /\ Other(d, batch[d.room]) /\ Other(d, <<>>)
    BY <2>1, <2>3 DEF SentByOther
  <2> HIDE DEF Other
  <2>5. CASE Aside
    BY <1>1, <2>1, <2>2, <2>4, <2>5 DEF Aside, tickVars
  <2>6. CASE AddPacket
    <3>1. /\ Added \in Packets /\ accepted \in Nat /\ Added.payload = accepted + 1
          /\ packets'[d.room] = packets[d.room] \/ packets'[d.room] = Append(packets[d.room], Added)
          /\ UNCHANGED batch
      BY <2>1, <2>6, AddPacketFacts DEF Added, tickVars
    <3>2. CASE packets'[d.room] = Append(packets[d.room], Added)
      <4>1. packets[d.room] \in Seq(Packets)
        BY <2>1 DEF TypeOK
      <4>2. \A i \in DOMAIN packets'[d.room] :
              \/ i \in DOMAIN packets[d.room] /\ packets'[d.room][i] = packets[d.room][i]
              \/ packets'[d.room][i] = Added
        BY <3>1, <3>2, <4>1, AppendPacket
      <4>3. Added.payload # d.payload
        BY <2>1, <3>1
      <4>4. Other(d, packets'[d.room])
        BY <2>4, <4>2, <4>3 DEF Other
      <4> QED BY <1>1, <2>1, <2>2, <2>4, <3>1, <4>4
    <3> QED BY <1>1, <2>1, <2>2, <2>4, <3>1, <3>2
  <2>7. ASSUME NEW q \in Rooms, GetPackets(q)
        PROVE  Other(d, packets'[d.room]) /\ Other(d, batch'[d.room])
    <3>1. /\ packets'[d.room] = packets[d.room] \/ packets'[d.room] = <<>>
          /\ batch'[d.room] = batch[d.room] \/ batch'[d.room] = packets[d.room]
      BY <2>1, <2>7 DEF GetPackets, SwapPackets, TypeOK
    <3> QED BY <2>4, <3>1
  <2>8. ASSUME NEW q \in Rooms,
               GetConnections(q) \/ Join(q) \/ \E i \in unsent[q] : SendTo(q, i)
        PROVE  Other(d, packets'[d.room]) /\ Other(d, batch'[d.room])
    <3>1. /\ packets'[d.room] = packets[d.room]
          /\ batch'[d.room] = batch[d.room] \/ batch'[d.room] = <<>>
      BY <2>1, <2>8 DEF GetConnections, Join, SendTo, roomVars, TypeOK
    <3> QED BY <2>4, <3>1
  <2> QED BY <1>1, <2>1, <2>2, <2>5, <2>6, <2>7, <2>8, Effects
<1> QED BY <1>1, <1>2, <1>3

(* A payload is in a sequence of packets if one of them has it. *)
LEMMA PayloadsFacts ==
  ASSUME NEW s
  PROVE  \A n : n \in Payloads(s) <=> \E i \in DOMAIN s : s[i].payload = n
BY DEF Payloads, ToSet

(* A message stays on its way to whom it is owed: from the packets of the room
   to the batch of its thread, and from there to the connection's queue.   *)
LEMMA LostStep ==
  ASSUME IInv, PacketsInv, TargetsInv, OwedInv, ResetInv, NoPacketLost, [Next /\ Record]_dvars
  PROVE  NoPacketLost'
<1> TypeOK
  BY DEF IInv
<1> DEFINE MemberNext(c, r) == \E i \in DOMAIN handles'[r] : handles'[r][i].handle = c
           Waits(d) == d.payload \in Payloads(packets'[d.room]) /\ MemberNext(d.conn, d.room)
           Taken(d) ==
             /\ d.payload \in Payloads(batch'[d.room])
             /\ \/ thread'[d.room] = "getConnections" /\ MemberNext(d.conn, d.room)
                \/ \E i \in unsent'[d.room] : targets'[d.room][i].handle = d.conn
<1> SUFFICES ASSUME NEW d \in owed'
             PROVE  Waits(d) \/ Taken(d)
  BY DEF NoPacketLost, Underway, Members, Payloads, ToSet
<1> DEFINE r == d.room
           c == d.conn
           n == d.payload
<1>1. /\ [Next]_vars
      /\ state'[c] = "open" /\ r \in rooms'
      /\ d \in owed \/ (AddPacket /\ Record /\ NewDebt(d))
      /\ outbox'[c] # outbox[c] => n \notin Received(c)'
  BY DebtFacts DEF dvars
<1>2. CASE AddPacket /\ Record /\ NewDebt(d)
  <2>1. /\ r = handler.room /\ r \in Rooms /\ r \in rooms /\ Added \in Packets
        /\ packets'[r] = Append(packets[r], Added)
        /\ Added.payload = n /\ UNCHANGED handles /\ c \in Members(r)
    BY <1>1, <1>2, AddPacketFacts DEF NewDebt, Added
  <2>2. packets[r] \in Seq(Packets)
    BY <2>1 DEF TypeOK
  <2>3. \E i \in DOMAIN packets'[r] : packets'[r][i].payload = n
    BY <2>1, <2>2, AppendPacket
  <2>4. MemberNext(c, r)
    BY <2>1 DEF Members, ToSet
  <2> QED BY <2>3, <2>4, PayloadsFacts
<1>3. CASE d \in owed
  <2>1. /\ c \in Connections /\ r \in Rooms /\ r \in rooms /\ state[c] = "open"
        /\ SentByOther(d, batch[r])
        /\ \/ n \in Payloads(packets[r]) /\ c \in Members(r)
           \/ n \in Payloads(batch[r]) /\ Underway(c, r)
    BY <1>3 DEF OwedInv, NoPacketLost, TypeOK
  <2>2. c \in Members(r) => MemberNext(c, r)
    <3>1. handler.at \in {"createHandles", "eraseHandles"} => handler.room # r
      BY <1>3, <2>1 DEF ResetInv
    <3> QED BY <1>1, <2>1, <3>1, MemberKept
  <2>3. unsent[r] # {} => thread[r] = "send"
    BY <2>1 DEF TargetsInv
  <2>4. n \notin Payloads(<<>>)
    BY PayloadsFacts
  <2> HIDE DEF MemberNext, r, c, n
  <2> SUFFICES Waits(d) \/ Taken(d)
    OBVIOUS
  <2> USE DEF Waits, Taken
  <2> r = d.room /\ c = d.conn /\ n = d.payload
    BY DEF r, c, n
  <2>5. CASE Aside
    <3>1. /\ packets'[r] = packets[r] /\ UNCHANGED <<batch, targets, unsent>>
          /\ thread'[r] = "getConnections" <=> thread[r] = "getConnections"
      BY <1>1, <2>1, <2>5 DEF Aside, tickVars
    <3> QED BY <2>1, <2>2, <3>1 DEF Underway
  <2>6. CASE AddPacket
    <3>1. /\ Added \in Packets
          /\ packets'[r] = packets[r] \/ packets'[r] = Append(packets[r], Added)
          /\ UNCHANGED <<batch, targets, unsent, thread>>
      BY <2>1, <2>6, AddPacketFacts DEF tickVars
    <3>2. packets[r] \in Seq(Packets)
      BY <2>1 DEF TypeOK
    <3>3. n \in Payloads(packets[r]) => n \in Payloads(packets'[r])
      BY <3>1, <3>2, AppendPacket, PayloadsFacts
    <3> QED BY <2>1, <2>2, <3>1, <3>3 DEF Underway
  <2>7. ASSUME NEW q \in Rooms, GetPackets(q)
        PROVE  Waits(d) \/ Taken(d)
    <3>1. UNCHANGED <<targets, unsent>> /\ thread[q] = "getPackets"
      BY <2>7 DEF GetPackets
    <3>2. CASE r = q
      <4>1. ~Underway(c, r)
        BY <2>3, <3>1, <3>2 DEF Underway
      <4>2. n \in Payloads(packets[r]) /\ MemberNext(c, r)
        BY <2>1, <2>2, <4>1
      <4>3. batch'[r] = packets[r] /\ thread'[r] = "getConnections"
        BY <2>1, <2>4, <2>7, <3>2, <4>2 DEF GetPackets, SwapPackets, TypeOK
      <4> QED BY <4>2, <4>3
    <3>3. CASE r # q
      <4>1. packets'[r] = packets[r] /\ batch'[r] = batch[r] /\ thread'[r] = thread[r]
        BY <2>1, <2>7, <3>3 DEF GetPackets, SwapPackets, TypeOK
      <4> QED BY <2>1, <2>2, <3>1, <4>1 DEF Underway
    <3> QED BY <3>2, <3>3
  <2>8. ASSUME NEW q \in Rooms, GetConnections(q)
        PROVE  Waits(d) \/ Taken(d)
    <3>1. UNCHANGED <<packets, batch>> /\ thread[q] = "getConnections"
      BY <2>8 DEF GetConnections, roomVars
    <3>2. CASE r = q
      <4>1. targets'[r] = handles[r] /\ unsent'[r] = DOMAIN handles[r]
        BY <2>1, <2>8, <3>2 DEF GetConnections, Jobs, TypeOK
      <4>2. Underway(c, r) => c \in Members(r)
        BY <2>3, <3>1, <3>2 DEF Underway
      <4>3. c \in Members(r) => \E i \in unsent'[r] : targets'[r][i].handle = c
        BY <4>1 DEF Members, ToSet
      <4> QED BY <2>1, <2>2, <3>1, <4>2, <4>3
    <3>3. CASE r # q
      <4>1. targets'[r] = targets[r] /\ unsent'[r] = unsent[r] /\ thread'[r] = thread[r]
        BY <2>1, <2>8, <3>3 DEF GetConnections, TypeOK
      <4> QED BY <2>1, <2>2, <3>1, <4>1 DEF Underway
    <3> QED BY <3>2, <3>3
  <2>9. ASSUME NEW q \in Rooms, Join(q)
        PROVE  Waits(d) \/ Taken(d)
    <3>1. UNCHANGED <<packets, unsent>> /\ thread[q] = "send" /\ unsent[q] = {}
      BY <2>9 DEF Join, roomVars
    <3>2. r = q => ~Underway(c, r)
      BY <3>1 DEF Underway
    <3>3. r # q => targets'[r] = targets[r] /\ batch'[r] = batch[r] /\ thread'[r] = thread[r]
      BY <2>1, <2>9 DEF Join, TypeOK
    <3> QED BY <2>1, <2>2, <3>1, <3>2, <3>3 DEF Underway
  <2>10. ASSUME NEW q \in Rooms, NEW i \in unsent[q], SendTo(q, i)
         PROVE  Waits(d) \/ Taken(d)
    <3>1. /\ UNCHANGED <<packets, thread, batch, targets>> /\ i \in DOMAIN targets[q]
          /\ unsent'[r] = IF r = q THEN unsent[q] \ {i} ELSE unsent[r]
          /\ c = targets[q][i].handle => outbox'[c] = Append(outbox[c], JobFrame(q, i))
          /\ JobFrame(q, i) \in Frames
      <4>1. /\ UNCHANGED <<roomVars, thread, batch, targets>> /\ i \in DOMAIN targets[q]
            /\ JobFrame(q, i) \in Frames
        BY <2>10, SendToFacts
      <4>2. /\ \A b \in Connections :
                outbox'[b] = IF b = targets[q][i].handle /\ state[b] = "open"
                             THEN Append(outbox[b], JobFrame(q, i)) ELSE outbox[b]
            /\ \A b \in Rooms : unsent'[b] = IF b = q THEN unsent[q] \ {i} ELSE unsent[b]
        BY <2>10, SendToFacts
      <4> QED BY <2>1, <4>1, <4>2 DEF roomVars
    <3>2. CASE r = q /\ targets[q][i].handle = c /\ n \in Payloads(batch[r])
      <4>1. PICK k \in DOMAIN batch[r] : batch[r][k].payload = n
        BY <3>2, PayloadsFacts
      <4>2. targets[q][i].identifier = identifierOf[c]
        BY <2>1, <3>1, <3>2 DEF TargetsInv
      <4>3. IsOther(batch[r][k], targets[q][i].identifier)
        BY <2>1, <4>1, <4>2 DEF SentByOther, IsOther
      <4>4. outbox[c] \in Seq(Frames)
        BY <2>1 DEF TypeOK
      <4> DEFINE a == Len(outbox[c]) + 1
      <4>5. /\ outbox'[c] # outbox[c]
            /\ a \in DOMAIN outbox'[c] /\ outbox'[c][a] = JobFrame(q, i)
        BY <3>1, <3>2, <4>4
      <4>6. n \in Received(c)'
        <5> DEFINE f == JobFrame(q, i)
        <5>1. f \in ToSet(outbox'[c])
          BY <4>5 DEF ToSet
        <5>2. f.packets = batch[r] /\ f.without = targets[q][i].identifier
          BY <3>2 DEF JobFrame
        <5> HIDE DEF f
        <5>3. batch[r][k] \in FrameContents(f)
          BY <4>1, <4>3, <5>2 DEF FrameContents, ToSet
        <5>4. n \in {p.payload : p \in FrameContents(f)}
          BY <4>1, <5>3
        <5> QED BY <5>1, <5>4 DEF Received
      <4> QED BY <1>1, <4>5, <4>6
    <3>3. CASE ~(r = q /\ targets[q][i].handle = c /\ n \in Payloads(batch[r]))
      BY <2>1, <2>2, <3>1, <3>3 DEF Underway
    <3> QED BY <3>2, <3>3
  <2> QED BY <1>1, <2>5, <2>6, <2>7, <2>8, <2>9, <2>10, Effects
<1> QED BY <1>1, <1>2, <1>3

-----------------------------------------------------------------------------
LEMMA InitDeliveryInv == DInit => DeliveryInv
<1> SUFFICES ASSUME DInit
             PROVE  DeliveryInv
  OBVIOUS
<1>1. IInv
  BY InitIInv DEF DInit
<1>2. /\ accepted = 0 /\ sender = <<>> /\ owed = {} /\ rooms = {} /\ handler = Idle
      /\ \A r \in Rooms :
           /\ packets[r] = <<>> /\ batch[r] = <<>> /\ targets[r] = <<>>
           /\ unsent[r] = {} /\ thread[r] = "none"
      /\ \A c \in Connections : outbox[c] = <<>>
  BY DEF DInit, Init
<1>3. SenderInv
  BY <1>2 DEF SenderInv
<1> QED
  BY <1>1, <1>2, <1>3
  DEF DeliveryInv, PacketsInv, TargetsInv, OutboxInv, QueuesInv, FramesInv, Increasing,
      Before, OwedInv, ResetInv, NoPacketLost, Idle

(* DeliveryInv is inductive. *)
THEOREM DeliveryInvariance == DSpec => []DeliveryInv
<1>1. DeliveryInv /\ [Next /\ Record]_dvars => DeliveryInv'
  <2> SUFFICES ASSUME DeliveryInv, [Next /\ Record]_dvars
               PROVE  DeliveryInv'
    OBVIOUS
  <2>1. [Next]_vars
    BY DEF dvars
  <2>2. IInv'
    BY <2>1, TypeStep, IdentifierStep, ReturnedStep, HandlerStep, JobsStep, HandlesStep, MoonStep,
       CompletedStep DEF DeliveryInv, IInv
  <2>3. SenderInv' /\ PacketsInv' /\ OutboxInv'
    BY SenderStep, PacketsStep, OutboxStep DEF DeliveryInv
  <2>4. TargetsInv' /\ QueuesInv' /\ FramesInv'
    BY <2>1, TargetsStep, QueuesStep, FramesStep DEF DeliveryInv
  <2>5. OwedInv' /\ ResetInv' /\ NoPacketLost'
    BY OwedStep, ResetStep, LostStep DEF DeliveryInv
  <2> QED BY <2>2, <2>3, <2>4, <2>5 DEF DeliveryInv
<1> QED BY InitDeliveryInv, <1>1, PTL DEF DSpec

(* Nobody is given their own message, although identifiers are used again
   and the jobs of a tick work on a copy of the connections.               *)
THEOREM NobodyEchoed == DSpec => []NoEcho
<1>1. DeliveryInv => NoEcho
  BY NoEchoHolds DEF DeliveryInv
<1> QED BY DeliveryInvariance, <1>1, PTL

(* Every connection is given the messages of a room in the order in which they
   were accepted, and none twice, whatever order the pool runs the jobs in. *)
THEOREM DeliveredInOrder == DSpec => []InOrder
<1>1. DeliveryInv => InOrder
  BY InOrderHolds DEF DeliveryInv
<1> QED BY DeliveryInvariance, <1>1, PTL

(* A message that is still owed to an open connection is always somewhere on
   its way: no interleaving of the handlers, the swap, the copy and the jobs
   drops it.                                                               *)
THEOREM NothingLost == DSpec => []NoPacketLost
<1>1. DeliveryInv => NoPacketLost
  BY DEF DeliveryInv
<1> QED BY DeliveryInvariance, <1>1, PTL

=============================================================================
