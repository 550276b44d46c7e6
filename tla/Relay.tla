------------------------------- MODULE Relay -------------------------------
(***************************************************************************)
(* The relay of port 58008: RelayServer, PacketAccumulator and the room    *)
(* threads of RoomManager, at the granularity of their critical sections.  *)
(*                                                                         *)
(*  - The relay thread is the one thread that runs the asio loop           *)
(*    (main.cpp:46), so onOpen, onMessage and onClose never overlap.  A    *)
(*    handler is cut where it changes state that a room thread can see;    *)
(*    "handler" is what is left of the handler in progress.                *)
(*  - One room thread per room loops in RoomManager::createRoom.           *)
(*  - The jobs a room thread hands to the thread pool run in any order     *)
(*    (module RelayThreadPool is about the pool itself).                   *)
(*  - An API thread may replace the key table between any two steps.       *)
(*                                                                         *)
(* A key is a pair <<room, moon or player>>, a room being named by its     *)
(* moon key as in the code; a payload is the number of its message.        *)
(***************************************************************************)
EXTENDS Integers, Sequences, FiniteSets, SequencesExt

CONSTANTS
  Connections,    \* websocket connection objects; each is opened at most once
  MoonKeyHolders, \* the connections whose client knows moon keys
  PlayerKeyHolders,   \* ... and player keys
  Rooms,          \* moon keys
  NoRoom,         \* no entry in m_moonIdentifierToRoomMap
  NoPair,         \* the key table has no pair for this room
  KeyTables,      \* the tables KeyManager::m_keys may hold
  MaxIdentifier,  \* UINT16_MAX - 1, the last identifier claimIdentifier tries
  MaxMessages     \* bound of the model: accepted packets in a behaviour

ASSUME MaxIdentifierAssumption == MaxIdentifier \in Nat \ {0}
ASSUME MaxMessagesAssumption == MaxMessages \in Nat
ASSUME NoRoomAssumption == NoRoom \notin Rooms
ASSUME NoPairAssumption == NoPair \notin Nat
ASSUME KeyTablesAssumption == KeyTables \subseteq [Rooms -> Nat \cup {NoPair}]

VARIABLES
  state,         \* of each connection: "new", session::state "open", "closing"
                 \* (or closed, close handler not yet run), "gone"
  identifierOf,  \* m_handlePointerToIdentifierMap; 0 where there is no entry
  reserved,      \* m_reservedIdentifiers
  moonRoom,      \* m_moonIdentifierToRoomMap
  keys,          \* KeyManager::m_keys: the player limit of each room's pair
  rooms,         \* the rooms PacketAccumulator::m_packets has an entry for
  packets,       \* m_packets[r], the packets waiting for the next tick
  handles,       \* m_handles[r], the connections that take part in room r
  handler,       \* the rest of the handler that the relay thread is running
  thread,        \* where each room's thread is; "none" without m_roomThreads[r]
  completed,     \* RoomManager::m_completedThreads
  batch,         \* a room thread's local vector "packets"
  targets,       \* a room thread's local vector "connections"
  unsent,        \* the targets whose job has not called RelayServer::send
  outbox,        \* the frames each connection's send queue was given
  accepted       \* how many packets addPacket was given (numbers the payloads)

connVars == <<state, identifierOf, reserved>>
roomVars == <<rooms, packets, handles>>
tickVars == <<batch, targets, unsent>>
vars == <<connVars, moonRoom, keys, roomVars, handler, thread, completed,
          tickVars, outbox, accepted>>

Identifiers == 1..MaxIdentifier
Packets == [identifier : Identifiers, payload : Nat]
Handles == [identifier : Identifiers, handle : Connections]
Frames == [room : Rooms, packets : Seq(Packets), without : Identifiers]

Idle == [at |-> "idle"]
MessageHandlers ==
  [at : {"createHandles", "createThread", "admit", "addHandle"},
   conn : Connections, room : Rooms, moon : BOOLEAN, oversize : BOOLEAN]
CloseHandlers ==
  [at : {"eraseHandles"}, conn : Connections, room : Rooms]
    \cup [at : {"removeConnection"}, conn : Connections]

Looping == {"check", "getPackets", "getConnections", "send"}
ThreadStates == {"none", "exit", "completed"} \cup Looping

TypeOK ==
  /\ state \in [Connections -> {"new", "open", "closing", "gone"}]
  /\ identifierOf \in [Connections -> 0..MaxIdentifier]
  /\ reserved \subseteq Identifiers
  /\ moonRoom \in [0..MaxIdentifier -> Rooms \cup {NoRoom}]
  /\ keys \in KeyTables
  /\ rooms \subseteq Rooms
  /\ packets \in [Rooms -> Seq(Packets)]
  /\ handles \in [Rooms -> Seq(Handles)]
  /\ handler \in {Idle} \cup MessageHandlers \cup CloseHandlers
  /\ thread \in [Rooms -> ThreadStates]
  /\ completed \in Seq(Rooms)
  /\ batch \in [Rooms -> Seq(Packets)]
  /\ targets \in [Rooms -> Seq(Handles)]
  /\ unsent \in [Rooms -> SUBSET (Nat \ {0})]
  /\ outbox \in [Connections -> Seq(Frames)]
  /\ accepted \in 0..MaxMessages

Init ==
  /\ state = [c \in Connections |-> "new"]
  /\ identifierOf = [c \in Connections |-> 0]
  /\ reserved = {}
  /\ moonRoom = [i \in 0..MaxIdentifier |-> NoRoom]
  /\ keys \in KeyTables
  /\ rooms = {}
  /\ packets = [r \in Rooms |-> <<>>]
  /\ handles = [r \in Rooms |-> <<>>]
  /\ handler = Idle
  /\ thread = [r \in Rooms |-> "none"]
  /\ completed = <<>>
  /\ batch = [r \in Rooms |-> <<>>]
  /\ targets = [r \in Rooms |-> <<>>]
  /\ unsent = [r \in Rooms |-> {}]
  /\ outbox = [c \in Connections |-> <<>>]
  /\ accepted = 0

-----------------------------------------------------------------------------
(* Opening and losing a connection.                                        *)

FreeIdentifiersFromZero == (0..MaxIdentifier) \ reserved   \* mutants: i = 0,
FreeIdentifiersAll == Identifiers                          \* no look-up
FreeIdentifiers == Identifiers \ reserved

(* claimIdentifier has no break in its loop: it keeps the LAST free number.
   When all are taken the connection stays without an identifier.          *)
OnOpen(c) ==
  /\ handler = Idle
  /\ state[c] = "new"
  /\ state' = [state EXCEPT ![c] = "open"]
  /\ \/ /\ FreeIdentifiers = {}
        /\ UNCHANGED <<identifierOf, reserved>>
     \/ \E id \in FreeIdentifiers :
          /\ \A other \in FreeIdentifiers : other <= id
          /\ identifierOf' = [identifierOf EXCEPT ![c] = id]
          /\ reserved' = reserved \cup {id}
  /\ UNCHANGED <<moonRoom, keys, roomVars, handler, thread, completed,
                 tickVars, outbox, accepted>>

(* The peer closes, or the transport fails: websocketpp leaves the state
   "open" on the relay thread and will run the close handler later.        *)
Lose(c) ==
  /\ handler = Idle
  /\ state[c] = "open"
  /\ state' = [state EXCEPT ![c] = "closing"]
  /\ UNCHANGED <<identifierOf, reserved, moonRoom, keys, roomVars, handler,
                 thread, completed, tickVars, outbox, accepted>>

-----------------------------------------------------------------------------
(* RelayServer::onMessage.  A connection without identifier is ignored, and
   websocketpp drops data frames once the state is not "open".             *)

CanReceive(c) ==
  /\ handler = Idle
  /\ state[c] = "open"
  /\ identifierOf[c] # 0
  /\ accepted < MaxMessages

(* KeyManager::getRoom finds the pair that either key belongs to. *)
KnownRoom(r) == keys[r] # NoPair

(* PacketAccumulator::hasRoom *)
HasRoom(r) == r \in rooms

(* KeyManager::getPlayerLimit answers 0 for a pair that has disappeared. *)
GetPlayerLimit(r) == IF KnownRoom(r) THEN keys[r] ELSE 0

Close(c) == state' = [state EXCEPT ![c] = "closing"]

(* The message is shorter than a key, or its key is in no pair. *)
RejectKey(c) ==
  /\ CanReceive(c)
  /\ Close(c)
  /\ UNCHANGED <<identifierOf, reserved, moonRoom, keys, roomVars, handler,
                 thread, completed, tickVars, outbox, accepted>>

(* The client sends a key of room r: its moon key or its player key. *)
CanPresent(c, moon) ==
  CanReceive(c) /\ c \in (IF moon THEN MoonKeyHolders ELSE PlayerKeyHolders)

(* A player's message for a room that does not exist. *)
RejectRoom(c, r) ==
  /\ CanPresent(c, FALSE)
  /\ KnownRoom(r)
  /\ ~HasRoom(r)
  /\ Close(c)
  /\ UNCHANGED <<identifierOf, reserved, moonRoom, keys, roomVars, handler,
                 thread, completed, tickVars, outbox, accepted>>

RegisterMoon(id, r, moon) ==
  moonRoom' = IF moon THEN [moonRoom EXCEPT ![id] = r] ELSE moonRoom

(* A message whose room exists goes on to the size and limit checks. *)
OnMessage(c, r, moon, oversize) ==
  /\ CanPresent(c, moon)
  /\ KnownRoom(r)
  /\ HasRoom(r)
  /\ RegisterMoon(identifierOf[c], r, moon)
  /\ handler' = [at |-> "admit", conn |-> c, room |-> r, moon |-> moon,
                 oversize |-> oversize]
  /\ UNCHANGED <<connVars, keys, roomVars, thread, completed, tickVars,
                 outbox, accepted>>

(* A moon's message for a room that does not exist: the first critical
   section of PacketAccumulator::createRoom adds it to m_packets.          *)
CreateRoom(c, r, oversize) ==
  /\ CanPresent(c, TRUE)
  /\ KnownRoom(r)
  /\ ~HasRoom(r)
  /\ RegisterMoon(identifierOf[c], r, TRUE)
  /\ rooms' = rooms \cup {r}
  /\ packets' = [packets EXCEPT ![r] = <<>>]
  /\ handler' = [at |-> "createHandles", conn |-> c, room |-> r, moon |-> TRUE,
                 oversize |-> oversize]
  /\ UNCHANGED <<connVars, keys, handles, thread, completed, tickVars, outbox,
                 accepted>>

(* Its second critical section resets m_handles. *)
CreateHandles ==
  /\ handler.at = "createHandles"
  /\ handles' = [handles EXCEPT ![handler.room] = <<>>]
  /\ handler' = [handler EXCEPT !.at = "createThread"]
  /\ UNCHANGED <<connVars, moonRoom, keys, rooms, packets, thread, completed,
                 tickVars, outbox, accepted>>

(* RoomManager::createRoom joins and erases the completed threads, then
   starts a thread unless m_roomThreads still has one for this room.       *)
ThreadsAfterJoin == [r \in Rooms |-> IF r \in ToSet(completed) THEN "none" ELSE thread[r]]

StartThread(r) ==
  thread' = IF ThreadsAfterJoin[r] = "none" THEN [ThreadsAfterJoin EXCEPT ![r] = "check"]
            ELSE ThreadsAfterJoin

CreateThreadKeepsCompleted ==   \* mutant: m_completedThreads is not cleared
  /\ handler.at = "createThread"
  /\ StartThread(handler.room)
  /\ handler' = [handler EXCEPT !.at = "admit"]
  /\ UNCHANGED <<connVars, moonRoom, keys, roomVars, completed, tickVars, outbox,
                 accepted>>

CreateThread ==
  /\ handler.at = "createThread"
  /\ StartThread(handler.room)
  /\ completed' = <<>>
  /\ handler' = [handler EXCEPT !.at = "admit"]
  /\ UNCHANGED <<connVars, moonRoom, keys, roomVars, tickVars, outbox, accepted>>

(* A payload longer than MAX_PACKET_SIZE is dropped without an answer. *)
DropOversize ==
  /\ handler.at = "admit"
  /\ handler.oversize
  /\ handler' = Idle
  /\ UNCHANGED <<connVars, moonRoom, keys, roomVars, thread, completed,
                 tickVars, outbox, accepted>>

(* getConnectionCountWithoutConnection *)
CountWithout(id, r) ==
  Cardinality({i \in DOMAIN handles[r] : handles[r][i].identifier # id})

(* The limit is a limit on the other connections of the room, moon clients
   included; a moon client itself is always admitted.                      *)
IsFullOneMore(id, r) == CountWithout(id, r) > GetPlayerLimit(r)   \* mutant
IsFull(id, r) == CountWithout(id, r) >= GetPlayerLimit(r)

Refuse ==
  /\ handler.at = "admit"
  /\ ~handler.oversize
  /\ ~handler.moon
  /\ IsFull(identifierOf[handler.conn], handler.room)
  /\ Close(handler.conn)
  /\ handler' = Idle
  /\ UNCHANGED <<identifierOf, reserved, moonRoom, keys, roomVars, thread,
                 completed, tickVars, outbox, accepted>>

(* PacketAccumulator::addPacket, the section of m_packetMutex ... *)
AddPacket ==
  LET r == handler.room
      p == [identifier |-> identifierOf[handler.conn], payload |-> accepted + 1]
  IN
  /\ handler.at = "admit"
  /\ ~handler.oversize
  /\ handler.moon \/ ~IsFull(identifierOf[handler.conn], r)
  /\ packets' = IF HasRoom(r) THEN [packets EXCEPT ![r] = Append(@, p)] ELSE packets
  /\ handler' = IF HasRoom(r) THEN [handler EXCEPT !.at = "addHandle"] ELSE Idle
  /\ accepted' = accepted + 1
  /\ UNCHANGED <<connVars, moonRoom, keys, rooms, handles, thread, completed,
                 tickVars, outbox>>

(* ... and the section of m_handleMutex: a connection is listed once. *)
HasHandle(id, r) == \E i \in DOMAIN handles[r] : handles[r][i].identifier = id

WithHandle(id, c, r) ==
  IF HasHandle(id, r) THEN handles[r]
                      ELSE Append(handles[r], [identifier |-> id, handle |-> c])

AddHandle ==
  /\ handler.at = "addHandle"
  /\ handles' = [handles EXCEPT ![handler.room] =
                   WithHandle(identifierOf[handler.conn], handler.conn, handler.room)]
  /\ handler' = Idle
  /\ UNCHANGED <<connVars, moonRoom, keys, rooms, packets, thread, completed,
                 tickVars, outbox, accepted>>

-----------------------------------------------------------------------------
(* RelayServer::onClose.                                                   *)

CanClose(c) == handler = Idle /\ state[c] = "closing"

(* The room a departing moon leaves without any moon; NoRoom if there is
   none, or if it is no longer in m_packets (destroyRoom returns early).    *)
AbandonedAlways(id) ==   \* mutant: remainingMoons is not computed
  IF moonRoom[id] \in rooms THEN moonRoom[id] ELSE NoRoom

AbandonedLast(id) ==   \* mutant: any other moon counts as a remaining one
  IF /\ moonRoom[id] \in rooms
     /\ \A other \in Identifiers \ {id} : moonRoom[other] = NoRoom
  THEN moonRoom[id] ELSE NoRoom

Abandoned(id) ==
  IF /\ moonRoom[id] \in rooms
     /\ \A other \in Identifiers \ {id} : moonRoom[other] # moonRoom[id]
  THEN moonRoom[id] ELSE NoRoom

(* The moon's entry goes, and with the last moon its room's packets. *)
OnClose(c) ==
  LET id == identifierOf[c]
      r  == Abandoned(id)
  IN
  /\ CanClose(c)
  /\ moonRoom' = [moonRoom EXCEPT ![id] = NoRoom]
  /\ rooms' = rooms \ {r}
  /\ packets' = [q \in Rooms |-> IF q = r THEN <<>> ELSE packets[q]]
  /\ handler' = IF r = NoRoom THEN [at |-> "removeConnection", conn |-> c]
                ELSE [at |-> "eraseHandles", conn |-> c, room |-> r]
  /\ UNCHANGED <<connVars, keys, handles, thread, completed, tickVars, outbox,
                 accepted>>

(* The second critical section of PacketAccumulator::destroyRoom. *)
EraseHandles ==
  /\ handler.at = "eraseHandles"
  /\ handles' = [handles EXCEPT ![handler.room] = <<>>]
  /\ handler' = [at |-> "removeConnection", conn |-> handler.conn]
  /\ UNCHANGED <<connVars, moonRoom, keys, rooms, packets, thread, completed,
                 tickVars, outbox, accepted>>

(* removeConnection looks in every room and erases the first entry found. *)
First(id, r) == Min({i \in DOMAIN handles[r] : handles[r][i].identifier = id})

WithoutHandleForgotten(id, r) == handles[r]   \* mutants: nothing is erased,
WithoutHandleOneOff(id, r) ==                 \* the wrong entry is
  IF HasHandle(id, r) /\ Len(handles[r]) > 1
  THEN RemoveAt(handles[r], 1 + (First(id, r) % Len(handles[r]))) ELSE handles[r]
WithoutHandle(id, r) ==
  IF HasHandle(id, r) THEN RemoveAt(handles[r], First(id, r)) ELSE handles[r]

(* releaseIdentifier gives the number back, unless there is none. *)
ReservedForEver(id) == reserved   \* mutant: erased from the map only
ReservedWithout(id) == reserved \ {id}

(* removeConnection, and releaseIdentifier, which only the relay thread sees. *)
RemoveConnection ==
  LET id == identifierOf[handler.conn] IN
  /\ handler.at = "removeConnection"
  /\ handles' = [r \in Rooms |-> WithoutHandle(id, r)]
  /\ identifierOf' = [identifierOf EXCEPT ![handler.conn] = 0]
  /\ reserved' = ReservedWithout(id)
  /\ state' = [state EXCEPT ![handler.conn] = "gone"]
  /\ handler' = Idle
  /\ UNCHANGED <<moonRoom, keys, rooms, packets, thread, completed, tickVars,
                 outbox, accepted>>

-----------------------------------------------------------------------------
(* A room thread: the loop of RoomManager::createRoom's lambda.            *)

CheckRoomForever(r) ==   \* mutant: while (true)
  /\ thread[r] = "check"
  /\ thread' = [thread EXCEPT ![r] = "getPackets"]
  /\ UNCHANGED <<connVars, moonRoom, keys, roomVars, handler, completed,
                 tickVars, outbox, accepted>>

CheckRoom(r) ==
  /\ thread[r] = "check"
  /\ thread' = [thread EXCEPT ![r] = IF HasRoom(r) THEN "getPackets" ELSE "exit"]
  /\ UNCHANGED <<connVars, moonRoom, keys, roomVars, handler, completed,
                 tickVars, outbox, accepted>>

(* getPackets swaps the pending packets with the cleared local vector. *)
CopyPackets(r) ==   \* mutant: the packets are copied
  batch' = [batch EXCEPT ![r] = packets[r]] /\ UNCHANGED packets
SwapPackets(r) ==
  /\ batch' = [batch EXCEPT ![r] = packets[r]]
  /\ packets' = [packets EXCEPT ![r] = <<>>]

GetPackets(r) ==
  /\ thread[r] = "getPackets"
  /\ SwapPackets(r)
  /\ thread' = [thread EXCEPT ![r] =
                  IF packets[r] = <<>> THEN "check" ELSE "getConnections"]
  /\ UNCHANGED <<connVars, moonRoom, keys, rooms, handles, handler, completed,
                 targets, unsent, outbox, accepted>>

(* getConnections copies the list; one job per connection is handed out. *)
JobsAfterFirst(r) == 2..Len(handles[r])   \* mutant: the loop starts at 1
Jobs(r) == DOMAIN handles[r]

GetConnections(r) ==
  /\ thread[r] = "getConnections"
  /\ targets' = [targets EXCEPT ![r] = handles[r]]
  /\ unsent' = [unsent EXCEPT ![r] = Jobs(r)]
  /\ thread' = [thread EXCEPT ![r] = "send"]
  /\ UNCHANGED <<connVars, moonRoom, keys, roomVars, handler, completed, batch,
                 outbox, accepted>>

(* What the job copies into its frame, in the order of the batch: no packet of
   the connection itself.                                                  *)
IsOtherAlways(p, id) == TRUE   \* mutant: a job does not skip its own packets
IsOther(p, id) == p.identifier # id
FrameContents(f) == {p \in ToSet(f.packets) : IsOther(p, f.without)}

(* RelayServer::send gives the frame to a connection that is still open. *)
Sent(c, f) == IF state[c] = "open" THEN [outbox EXCEPT ![c] = Append(@, f)] ELSE outbox

(* A job of the room thread's tick, run by a thread of the pool. *)
SendTo(r, i) ==
  /\ thread[r] = "send"
  /\ i \in unsent[r]
  /\ outbox' = Sent(targets[r][i].handle,
                    [room |-> r, packets |-> batch[r],
                     without |-> targets[r][i].identifier])
  /\ unsent' = [unsent EXCEPT ![r] = @ \ {i}]
  /\ UNCHANGED <<connVars, moonRoom, keys, roomVars, handler, thread, completed,
                 batch, targets, accepted>>

(* Every controller of the tick is joined; the local vectors are dead until
   they are filled again.                                                  *)
Join(r) ==
  /\ thread[r] = "send"
  /\ unsent[r] = {}
  /\ thread' = [thread EXCEPT ![r] = "check"]
  /\ batch' = [batch EXCEPT ![r] = <<>>]
  /\ targets' = [targets EXCEPT ![r] = <<>>]
  /\ UNCHANGED <<connVars, moonRoom, keys, roomVars, handler, completed, unsent,
                 outbox, accepted>>

(* The thread's last act, once it has found its room missing. *)
Complete(r) ==
  /\ thread[r] = "exit"
  /\ thread' = [thread EXCEPT ![r] = "completed"]
  /\ completed' = Append(completed, r)
  /\ UNCHANGED <<connVars, moonRoom, keys, roomVars, handler, tickVars, outbox,
                 accepted>>

-----------------------------------------------------------------------------
(* KeyManager::refreshKeys, called by the API thread, swaps the table.     *)
RefreshKeys ==
  /\ keys' \in KeyTables \ {keys}
  /\ UNCHANGED <<connVars, moonRoom, roomVars, handler, thread, completed,
                 tickVars, outbox, accepted>>

Client ==
  \E c \in Connections :
    \/ OnOpen(c) \/ Lose(c) \/ RejectKey(c)
    \/ \E r \in Rooms : RejectRoom(c, r)
    \/ \E r \in Rooms, oversize \in BOOLEAN :
         \/ CreateRoom(c, r, oversize)
         \/ \E moon \in BOOLEAN : OnMessage(c, r, moon, oversize)

(* The rest of a handler that has begun. *)
Handle ==
  \/ CreateHandles \/ CreateThread
  \/ DropOversize \/ Refuse \/ AddPacket \/ AddHandle
  \/ EraseHandles \/ RemoveConnection

RoomThread(r) ==
  \/ CheckRoom(r) \/ GetPackets(r) \/ GetConnections(r)
  \/ \E i \in unsent[r] : SendTo(r, i)
  \/ Join(r) \/ Complete(r)

Next ==
  \/ Client
  \/ \E c \in Connections : OnClose(c)
  \/ Handle
  \/ \E r \in Rooms : RoomThread(r)
  \/ RefreshKeys

Spec == Init /\ [][Next]_vars

(* Every running thread keeps running, and the asio loop serves its queue in
   order, so that a close handler runs however busy the server is.  Nothing
   is assumed of the clients, of the network or of the API.                *)
Fairness ==
  /\ WF_vars(Handle)
  /\ \A c \in Connections : SF_vars(OnClose(c))
  /\ \A r \in Rooms : WF_vars(RoomThread(r))

FairSpec == Spec /\ Fairness

-----------------------------------------------------------------------------
(* Safety.                                                                 *)

(* Two connections never hold one identifier, although numbers are released
   and claimed again (claimIdentifier, releaseIdentifier): a packet's sender
   is who its identifier says.                                             *)
IdentifiersUnique ==
  \A c, d \in Connections :
    c # d /\ identifierOf[c] # 0 => identifierOf[c] # identifierOf[d]

(* A number is passed over exactly as long as a connection has it: however many
   connections come and go, with a number or without, none is lost, so that
   claimIdentifier finds none only while MaxIdentifier connections have one
   (RelayServer.cpp:189, releaseIdentifier).                               *)
IdentifiersReturned ==
  /\ reserved = {identifierOf[c] : c \in Connections} \ {0}
  /\ \A c \in Connections : identifierOf[c] # 0 => state[c] \in {"open", "closing"}

(* A room lists a connection at most once, and only under the identifier it
   holds now: closing a connection takes it out of every room it was in
   before its number is given away (removeConnection, addPacket).          *)
HandlesCurrent ==
  \A r \in Rooms : \A i, j \in DOMAIN handles[r] :
    /\ identifierOf[handles[r][i].handle] = handles[r][i].identifier
    /\ i # j => handles[r][i].identifier # handles[r][j].identifier

(* A registered moon always has its room: a room is destroyed only by the
   close of its last registered moon (onClose, remainingMoons).            *)
MoonRoomsExist == \A id \in Identifiers : moonRoom[id] \in rooms \cup {NoRoom}

(* createRoom's clean-up joins m_roomThreads[completedRoom] for every entry
   of m_completedThreads: each names one ended thread, and names it once
   (joining a thread twice, or a default constructed one, would throw).    *)
CompletedJoinable ==
  /\ \A i \in DOMAIN completed : thread[completed[i]] = "completed"
  /\ \A i, j \in DOMAIN completed : i # j => completed[i] # completed[j]

-----------------------------------------------------------------------------
(* Liveness.                                                               *)

(* The thread of a destroyed room ends, unless the room comes back. *)
RoomThreadEnds ==
  \A r \in Rooms :
    r \notin rooms ~> (r \in rooms \/ thread[r] \in {"none", "completed"})

=============================================================================
