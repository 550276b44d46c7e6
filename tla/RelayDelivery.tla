--------------------------- MODULE RelayDelivery ---------------------------
(***************************************************************************)
(* What the relay promises its clients, stated over history variables that *)
(* Relay's steps are observed with.  Nothing here constrains a step.       *)
(*                                                                         *)
(* A message is OWED to the connections that take part in its room when it *)
(* is accepted, the sender excepted, until it is given to their send queue,*)
(* they are no longer open, or the room is destroyed.                      *)
(***************************************************************************)
EXTENDS Relay

VARIABLES
  owed,       \* the pairs of a message and a connection still to receive it
  sender      \* sender[n] is the connection that sent payload n

histVars == <<owed, sender>>
dvars == <<vars, histVars>>

DInit ==
  /\ Init
  /\ owed = {}
  /\ sender = <<>>

Payloads(s) == {p.payload : p \in ToSet(s)}

(* The payloads in the frames that connection c was given. *)
Received(c) == UNION {{p.payload : p \in FrameContents(f)} : f \in ToSet(outbox[c])}

Members(r) == {h.handle : h \in ToSet(handles[r])}

NewDebts ==
  IF accepted' = accepted THEN {}
  ELSE [conn : Members(handler.room) \ {handler.conn}, payload : {accepted'},
        room : {handler.room}]

Record ==
  /\ owed' = {d \in owed \cup NewDebts :
                /\ state'[d.conn] = "open"
                /\ d.room \in rooms'
                /\ d.payload \notin Received(d.conn)'}
  /\ sender' = IF accepted' = accepted THEN sender ELSE Append(sender, handler.conn)

DSpec == DInit /\ [][Next /\ Record]_dvars

FairDSpec ==
  /\ DSpec
  /\ WF_dvars(Handle /\ Record)
  /\ \A c \in Connections : SF_dvars(OnClose(c) /\ Record)
  /\ \A r \in Rooms : WF_dvars(RoomThread(r) /\ Record)

-----------------------------------------------------------------------------
(* Safety.                                                                 *)

(* A connection gets the messages of a room in the order they were accepted
   in, and none twice, whatever order the pool ran the jobs in: a tick joins
   its jobs before the next one starts (RoomManager.cpp:68).               *)
InOrder ==
  \A c \in Connections : \A a, b \in DOMAIN outbox[c] :
    LET f == outbox[c][a]
        g == outbox[c][b]
    IN \A i \in DOMAIN f.packets, j \in DOMAIN g.packets :
         /\ f.room = g.room /\ (a < b \/ (a = b /\ i < j))
         /\ IsOther(f.packets[i], f.without) /\ IsOther(g.packets[j], g.without)
         => f.packets[i].payload < g.packets[j].payload

(* Nobody gets their own message back, although a job recognises it by the
   identifier only and identifiers are used again (RoomManager.cpp:46).     *)
NoEcho ==
  \A c \in Connections : \A n \in Received(c) : sender[n] # c

(* A job of room r that will serve c has yet to call send. *)
Underway(c, r) ==
  \/ thread[r] = "getConnections" /\ c \in Members(r)
  \/ \E i \in unsent[r] : targets[r][i].handle = c

(* No owed message is dropped on its way through addPacket, the swap of
   getPackets, the copy of getConnections and the jobs: it waits for the
   next tick, or a job that will serve the connection still has it.        *)
NoPacketLost ==
  \A d \in owed :
    \/ d.payload \in Payloads(packets[d.room]) /\ d.conn \in Members(d.room)
    \/ d.payload \in Payloads(batch[d.room]) /\ Underway(d.conn, d.room)

-----------------------------------------------------------------------------
(* Liveness.                                                               *)

(* Someone is still to receive message n. *)
Owed(n) == \E d \in owed : d.payload = n

(* README.md:89: "for every message this server receives it just relays
   that message to every other client".  A message is owed to everybody at
   once, and to fewer as it is relayed.                                    *)
EveryMessageRelayed ==
  \A n \in 1..MaxMessages : Owed(n) ~> ~Owed(n)

(* A message does reach everyone it is owed to, unless the thread of its
   room had found the room missing and was then taken for the thread of the
   room's next life (RoomManager::createRoom).                             *)
RelayedUnlessThreadEnded ==
  \A n \in 1..MaxMessages :
    Owed(n) ~> (~Owed(n) \/ \E r \in rooms : thread[r] \in {"exit", "completed"})

=============================================================================
