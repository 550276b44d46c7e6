# A verification project for the MoonJam relay server

The server (`src/src/`, about 1,300 lines of C++ beside vendored asio,
websocketpp and cpp-httplib) relays binary websocket messages between the
clients of a room, over websocketpp and asio. A *moon* client opens a room with a moon key; *player* clients
join with the matching player key while a moon is connected. This directory holds
TLA+ models of that program, the TLC runs that check them on small instances, and
proofs that TLAPS checks for every value of the constants.

Contents: 1 inventory, 2 modules and their correspondence to the code, 3 runs,
4 fairness, 5 proofs, 6 disagreements found, 7 what is not modelled, 8 plan.

## 1. Inventory

### Threads

| thread | started at | runs |
|---|---|---|
| relay thread | `main.cpp:46` | the asio loop of port 58008: `RelayServer::onOpen`, `onMessage`, `onClose`, one at a time |
| room threads | `RoomManager.cpp:25` | one per room that has been created: the tick, 30 times a second, that sends a room's packets |
| pool threads (1024) | `RelayThread.cpp:9` | the jobs of the ticks: build one client's frame and send it |
| API thread(s) | `main.cpp:22` | cpp-httplib's own worker threads: `/create`, `/get`, `/delete`, `/limit` |
| ping thread | `main.cpp:33` | answers each message with an empty one; keeps no state |

### Components, their state, operations and hazards

**RelayServer** (`RelayServer.cpp`). State: `m_handlePointerToIdentifierMap`,
`m_reservedIdentifiers`, `m_moonIdentifierToRoomMap`, under `m_identifierMutex`, and
`m_playerCountMutex`. Operations: `onOpen` claims an identifier; `onMessage` checks
the key, registers a moon, creates its room, checks size and limit, and hands the
packet to the accumulator; `onClose` destroys the room of the last moon, takes the
connection off every list and releases its identifier; `send` is called by pool
threads. Correct when identifiers are unique among open connections, no room
names a connection under a number it no longer holds, a registered moon's room
exists, and no room has more players than its limit.

**PacketAccumulator** (`PacketAccumulator.cpp`). State: `m_packets` (its keys *are*
the set of rooms) and `m_handles`, each under its own mutex; every operation that
needs both takes them one after the other. Correct when a packet that was accepted
is in exactly one place until it has been sent, although the two maps disagree
between the critical sections.

**RoomManager** (`RoomManager.cpp`). State: `m_roomThreads`, `m_completedThreads`,
under one mutex, and three local vectors per room thread. `createRoom` joins the
completed threads and starts one for the room unless it has one; the thread loops
while its room exists, takes the packets, copies the connections, hands out one
job per connection, joins them all, and enters itself in `m_completedThreads`.
Correct when each room is served, in order, and each ended thread is joined once.

**RelayThreadPool / RelayThread**. State: per pool thread two binary
semaphores, `m_exit`, `m_function`, `m_done`; per job a controller. Correct when a
tick's jobs are each run once and none survives its join (they refer to the tick's
vectors), and when nobody waits for ever.

**Semaphore** (`Semaphore.h`). State: `m_mutex`, `m_condition`, `m_locked`. Operations:
`acquire`, `try_acquire`, `release`. Correct when the three act like atomic operations
on one flag, and no wake-up is lost.

**A websocket connection** (`libs/websocketpp`, as `WebsocketServer.cpp` and
`RelayServer::send` use it). State: `m_state`, `m_internal_state`, `m_send_queue`,
`m_current_msgs`, `m_write_flag`, `m_handshake_timer`, and the handlers that asio holds
for it. asio's thread runs all handlers; pool threads push messages under
`m_write_lock`. Correct when the open, message and close handlers are called in that
order and the close handler once, when what `send` accepted is written in order and
nothing after a close frame, when no message stays in the queue with nobody to write
it, when every end, however many causes race, releases the object, and when nobody
uses the object after that.

**KeyManager / APIServer** (`KeyManager.cpp`, `APIServer.cpp`). State: the key files
and `m_keys`, a table read from them. `/create` and `/get` refresh the table; `/delete`
and `/limit` change the files only, so a deleted key works until the next refresh.
A refresh reads the directory without the mutex and swaps the result in under it;
`/create` draws and tests its keys, and writes them to a file, in separate steps.
Correct when a key is in one file only, a refresh misses no file, and the pair that
`/create` hands out is known afterwards; section 6 says how far the first and the
last of these hold.

**WebsocketServer** passes the library's three handlers on. **main**, **Helpers**:
start-up, file and string helpers. **ContiguousQueue**: included by `RelayThreadPool.h` and used nowhere.

### Interaction

```
client --> asio/websocketpp --> RelayServer --(key)--> KeyManager <-- APIServer <-- HTTP
                                    |  createRoom / addPacket / destroyRoom
                                    v
                             PacketAccumulator --createRoom--> RoomManager
                                    ^  hasRoom, getPackets,         | starts
                                    |  getConnections               v
                                    +------------------------- room thread
                                                                    | run / join
     client <-- RelayServer::send <-- pool thread <----------- RelayThreadPool
```

### What is hard

The relay thread, every room thread and the pool interleave between critical
sections; the room thread learns of a room's destruction only by looking; identifiers
are recycled while frames that name them are under way; several moons share a room;
the key table changes under a handler; the pool's handshake re-arms two semaphores
between jobs; a connection ends by timers, failures and frames of both sides while
pool threads still send to it. `PROJECT.json` lists each of these under "hazards" at the line where it
bites, with the properties that watch it or, where none does yet, the reason.

## 2. Modules

| module | what it is | checked by |
|---|---|---|
| `Relay` | RelayServer + PacketAccumulator + room threads of RoomManager | `Delivery_*`, `Admission_*` |
| `RelayDelivery` | Relay observed: what each message is owed to; delivery properties | `Delivery_*` |
| `RelayAdmission` | Relay observed: which moon keys were shown; admission properties | `Admission_*` |
| `Session` | abstract: what RelayServer relies on of a connection | as a property of `Connection` |
| `Connection` | one connection: websocketpp's object, asio's handlers for it, `RelayServer::send` | `Connection_*` |
| `ForkJoin` | abstract: a tick's jobs each run once, then the tick ends | as a property of the pool |
| `RelayThreadPool` | the pool's handshake, scan, controllers and destructor | `Pool_shared` |
| `BinarySemaphore` | abstract: one atomic flag | as a property of `Semaphore` |
| `Semaphore` | the mutex, the condition variable and `m_locked` | `Semaphore_flag` |
| `KeyStore` | APIServer + KeyManager + the directory of key files | `Keys_*` |
| `RelayProof` | TLAPS proofs about `Relay` | the proof checker |
| `RelayDeliveryProof` | TLAPS proofs about `RelayDelivery`, over those of `RelayProof` | the proof checker |
| `RelayAdmissionProof` | TLAPS proofs about `RelayAdmission`, over those of `RelayProof` | the proof checker |
| `RelayThreadPoolProof` | TLAPS proofs about `RelayThreadPool`, with its refinement | the proof checker |
| `ConnectionProof` | TLAPS proofs about `Connection`, with its refinement | the proof checker |
| `SemaphoreProof` | TLAPS proofs about `Semaphore`, with its refinement | the proof checker |
| `KeyStoreProof` | TLAPS proofs about `KeyStore` | the proof checker |
| `MC*` | values for constants, and the symmetry set | |

Three abstract modules separate the layers. `Relay` takes from a connection what
`Session` says (`OnOpen`, messages while it is open, `OnClose` once, `outbox` in the
order of `Sent`) and treats a tick's jobs as `ForkJoin` does (all of them run between
`GetConnections` and `Join`, in any order); `RelayThreadPool` takes from a semaphore
what `BinarySemaphore` says. `Connection`, `RelayThreadPool` and `Semaphore` implement the
three: TLC checks it on small instances, and section 5 proves it for all of them.

**Relay and the code.** One action is one critical section, or one stretch of code
that no other thread can observe. The relay thread's handlers never overlap, so the
rest of a handler in progress is one variable, `handler`:

| code | actions |
|---|---|
| `onOpen`, `claimIdentifier` | `OnOpen` (the last free number, as the loop has no break) |
| `onMessage` to `hasRoom` | `RejectKey`, `RejectRoom`, `OnMessage`, `CreateRoom` |
| `PacketAccumulator::createRoom` | `CreateRoom` (m_packets), `CreateHandles` (m_handles), then `CreateThread` |
| `onMessage` from the size check | `DropOversize`, `Refuse`, `AddPacket` (m_packets), `AddHandle` (m_handles) |
| `onClose` | `OnClose` (moon map and m_packets), `EraseHandles` (m_handles), `RemoveConnection` |
| room thread | `CheckRoom`, `GetPackets`, `GetConnections`, `SendTo`, `Join`, `Complete` |
| `refreshKeys` of an API thread | `RefreshKeys` |
| `terminate`, for whatever cause (in detail in `Connection`) | `Lose` |

Data is abstracted to what the properties tell apart: a key is the pair of its room
and its kind, a payload is the number of its message, the contents of a frame are
the packets a job would copy into it. `m_moonIdentifierToRoomMap` is changed with
`m_packets` in one step in `OnClose`, because `destroyRoom` is called under
`m_identifierMutex` and no other thread reads the moon map. In `OnMessage` and
`CreateRoom` the key look-up, the registration and the room test are one step: the
moon map is the relay thread's own, only the relay thread adds and removes rooms, and
a table replaced between the look-up and the test acts like one replaced before the
limit is read, which is a later step. `PacketAccumulator::hasRoom`'s answer cannot
change for the same reason. A room thread's sleep between two ticks (`TICKRATE` is 30 a second) is left to
scheduling.
`RoomManager::createRoom` joins completed threads: they have
nothing left to do but return, so the join does not block. `send` is one step here,
and a `send` to a connection that is closing is dropped, as in the code; its steps,
and what becomes of a message after it, are in `Connection`.

**RelayDelivery and RelayAdmission** add history variables to Relay's steps
(`Next /\ Record`, `Next /\ Present`): both conjuncts only define the next values of
the history and never restrict a step.

**Connection and the code.** One thread runs every asio handler
(`WebsocketServer::run`), so a handler is one step, except that `handle_read_frame`
takes one step per frame (pool threads run between two frames of one read; other
handlers do not: `InLoop`). `dispatch` posts and never calls at once.

| code | actions |
|---|---|
| `handle_read_handshake` | `HandleRequest` (with the first frames, if they came along), `IgnoreRequest`, `RequestFails` |
| `handle_write_http_response` | `HandleResponse` (calls the open handler), `ErrorWritten`, `ResponseFails`, `IgnoreResponse` |
| `handle_read_frame` | `HandleRead`, then one of `DataFrame`, `RefusedFrame`, `PingFrame`, `AcknowledgeClose`, `CloseAcknowledged`, `IgnoreFrame`, `MalformedFrame` for each frame; `ReadFails` |
| `write_frame` | `WriteFrame` |
| `handle_write_frame` | `HandleWriteFrame`, `TerminalWritten`, `WriteFails` |
| timers of the two handshakes | `Expire`, then `HandshakeTimeout` (a timer that has expired cannot be cancelled any more) |
| `terminate`, `async_shutdown` | `Terminate` inside the actions above; `ShutdownTimeout` |
| `RelayServer::onMessage`, `close` | `DataFrame`, `RefusedFrame` |
| `PacketAccumulator::getConnections`, `RelayServer::send` | `Copy`, `TestExpired`, `GetState`, `Admit`, `PushData`, `Dispatch` |
| the last shared pointer goes | `Release` |

`terminate` shuts the socket down in the same call and then cancels the shutdown
timer, unless that has expired in the meantime, when the timer's handler does the
rest: both are outcomes of `Terminate`. A frame is its kind: data, ping, close with a
valid or an invalid code, malformed; a pong changes nothing here and is left out, and
so are the bytes of incomplete frames, whose handlers only read on. Handlers of
cancelled timers do nothing and are left out; they only delay `Release`. The relay
sets no fail handler, so a connection that fails to open tells nobody. Every close
frame that this server sends is terminal: acknowledgements are, and so are the codes
of `to_ws` and those of `onMessage`'s `close`. A thread that has used an object that is
gone stays where it is ("dangling"): what it would do is undefined.

**Semaphore and the code.** A call locks the mutex (`Lock`), runs its body and unlocks
(`Unlock`). `Wait` gives the mutex back and falls asleep in one step, as
`condition_variable::wait` does; `NotifyOne` wakes any sleeper, or nobody; a sleeper may
wake by itself (`SpuriousWakeup`). Any thread may make any call at any time, which
includes what RelayThread does.

**RelayThreadPool and the code.** A semaphore is the flag of `BinarySemaphore`. A pool thread is the
cycle `Top`, `Rearm`, `Offer`, `Proceed`, `Execute`, `Done`; a caller is a tick of a
room thread (`BeginTick`, `TryLock` and `Run` for each job, `BeginJoin`, `JoinNext`,
`EndTick`). `Destroy` is `~RelayThread`, for the elements of the pool's array from the
last to the first, and only once no room thread uses the pool.

**KeyStore and the code.** cpp-httplib runs the handlers on a pool of threads, so
requests overlap. A step is one access to a file, or one section of `m_keyMutex`:

| code | actions |
|---|---|
| a handler is called | `Begin` |
| `refreshKeys` | `ReadKeyFile` or `SkipKeyFile` for each file at its own moment, then `SwapKeys` |
| `/create`: the two draws, 1024 attempts | `DrawPlayer`, `DrawMoon`, `GiveUp` |
| `writeFile` of `/create`, `/limit` | `Open` (ofstream truncates), `Write` (its buffer reaches the file on close); `Unwritten` when either fails |
| `fileExists` of `/get`, `/delete`, `/limit` | `FileExists` |
| `readFile` and `substr` of `/get`, `/limit` | `Load` |
| `deleteFile` of `/delete` | `Remove` |
| an access that throws, or finds nothing in a file it cannot read | `Abort` |
| process killed and started again | `Restart` |

A file holds a pair of keys, or is truncated, or is not there; the limit is left
out, because `Relay` lets limits be anything. A refresh reads the files in any order.
A writer whose file is removed while it has it open writes to a file without a name
(`linked`). `GiveUp` is allowed only when no acceptable key is left: 1024 draws that
all hit known keys while others are free are left out, as that is a matter of luck.
Requests without the secret or without an id change nothing and are left out.

An id is the name of a file. `/delete` and `/limit` accept letters and digits only
(`Valid`); `/create` and `/get` take any id, so its file may be outside the directory
that a refresh reads (`Users \ Listed`), or in a directory that does not exist, where
it cannot be opened. Any access to a file may fail, as the set `Faults` says
(`MaxFaults` of them). `std::filesystem` throws then, and the request ends (`Abort`). A
stream is not looked at again: `readFile` returns nothing (`SkipKeyFile`), and
`writeFile` returns as if it had written, whereupon `/create` refreshes and answers with
the pair (`Unwritten`). A write that fails leaves the file as it is, or truncated when
it had been opened.

The history is only written: `missed` and `lacking` (what a refresh, or the one the table
comes from, did not find although it is on disk), `dropped` and `gone` (what left the
disk after it was read), `fresh` (what was written since the swap), `promised`, `unseen`.

KeyStore and Relay meet in the table: the `RefreshKeys` of Relay lets the table become
anything at any step, so whatever `KeyStore` does to it is among what Relay's
properties are checked against.

## 3. Runs and bounds

| run | bounds | shows |
|---|---|---|
| `delivery_relayed` | 2 moons, 1 player, 1 room, 2 identifiers, 2 messages, fair | `IdentifiersUnique`, `IdentifiersReturned`, `HandlesCurrent`, `InOrder`, `NoEcho`, `NoPacketLost`, `RelayedUnlessThreadEnded`, `RoomThreadEnds` |
| `delivery_lost` | as `delivery_relayed` | violates `EveryMessageRelayed` |
| `admission_limits` | 3 clients, tables with limit 0, 1 or no pair, replaced at any step | `PlayerLimitRespected` |
| `admission_moons` | 2 clients, 2 rooms | `MoonRoomsExist`, `CompletedJoinable`, `RoomsNeedMoons` |
| `admission_twokeys` | 1 client, 2 rooms | violates `RoomsHaveMoons` |
| `connection_session` | 2 senders with 1 message each, 3 frames of the peer, fair | `HandlersExpected`, `NothingAfterClose`, `NoStuckQueue`, `ReportedBeforeRelease`, `EndsReleased`, `ImplementsSession` |
| `connection_dangling` | 1 sender, 1 message, 1 frame | violates `NoDanglingUse` |
| `pool_shared` | 2 callers, 2 pool threads, up to 2 jobs a tick, fair | `ThreadOwnedOnce`, `JoinedJobsAreOver`, `ImplementsForkJoin`, `TicksEnd`, `DestroyedEnd` |
| `semaphore_flag` | 3 threads, calls without bound, fair | `NoLostWakeup`, `ImplementsFlag`, `CallsReturn` |
| `keys_shared` | 2 threads, 2 ids of files in the directory and 1 of a file elsewhere, 4 keys, 3 requests, 1 failing access of any kind, restarts at any moment | `FilesKnown`, `DeletedForgotten`, `WrittenPromiseKept`, `SharedKeysWereUnseen` |
| `keys_stale` | 2 requests, no failing access | violates `PromiseKept` |
| `keys_duplicates` | as `keys_stale` | violates `NoDuplicates` |

Each passing run checks its module's `TypeOK` too, but for those of `RelayAdmission`,
which adds no step to `Relay`.

The bounds are `MaxIdentifier` (65534 in the code), `MaxMessages` (packets accepted in
a behaviour), `MaxJobs` (connections in one tick), `MaxRequests` (API calls in a
behaviour), `MaxFaults` (accesses to files that fail), `MaxSends` (messages of one room to a connection) and `MaxFrames` (frames
of its peer). Fewer identifiers than
connections make the numbers run out, be released and be claimed again, which is
when identity errors could show. Two messages let one tick be under way while the
next is filled, or the room is destroyed and created again between them. Two moons are
needed for "other moons remain", a third client to receive what they send. Fewer pool threads
than jobs make a tick wait for its own jobs: with two callers of two jobs over two
threads, each tick may wait for the other. Connections are opened once (a client
that reconnects is another connection), so the runs stop by themselves when all are
gone and the bound is reached: deadlock is not an error there, and the configurations
say so. In the admission runs the connections are interchangeable (the sets of key
holders contain all of them), and so are threads, ids of the directory and keys in those
of `KeyStore`, so TLC may permute them; runs with liveness properties use no symmetry.

Properties in words:

- `InOrder`, `NoEcho`: a client gets a room's messages in the order they were
  accepted, none twice and none of its own, whatever order the pool runs jobs in. Both
  speak of the frames as `send` gets them, and of the packets in them that are not the
  client's own.
- `NoPacketLost`: a message that someone is still owed is in the room's queue with
  that someone on the list, or in a tick that will serve them. This is the invariant
  behind the separate mutexes: it fails if a list and a queue are cut apart.
- `IdentifiersReturned`: the reserved numbers are those that open and closing
  connections hold. `claimIdentifier` answers 0 when none is free, and such a connection
  closes without returning anything; so a connection is without a number only while
  all of them are held, however connections come and go.
- `RelayedUnlessThreadEnded`, `RoomThreadEnds`: what must happen.
- `PlayerLimitRespected`: the count of `onMessage` and the later listing act as one: a
  room lists at most as many players as a limit that its pair has in some table. Which of
  the tables should count when they are replaced is said nowhere in the code.
- `RoomsNeedMoons`: a room without a live moon had one that presented two moon keys.
- `ImplementsForkJoin`: the pool implements `ForkJoin`. `TicksEnd`: a tick ends unless
  another caller is handed threads for ever; `DestroyedEnd`: so does a destroyed thread.
- `ThreadOwnedOnce`, `JoinedJobsAreOver`: the hand-over of a pool thread is exclusive,
  and nothing of a job remains after its join.
- `HandlersExpected`: no handler of a connection finds a stage it was not set up for,
  and `handle_write_frame` never looks at the last of no messages.
- `NothingAfterClose`, `NoStuckQueue`: a message pushed behind a close frame is not
  written, and one pushed in front of it does not wait for a writer who is not there.
- `ReportedBeforeRelease`, `EndsReleased`: whatever races, the close handler is called
  once for each connection that was opened, before the object is gone (RelayServer
  knows connections by its address), and a connection that is not open gets so or goes.
- `NoLostWakeup`: a free flag and a sleeper mean that somebody who was waiting is on
  his way. `ImplementsFlag`, `CallsReturn`: the semaphore implements `BinarySemaphore`,
  its safety and its fairness.
- `FilesKnown`: each pair in the directory is in the table, unless it was written after
  the table's refresh had read that file, or that refresh could not read it.
  `WrittenPromiseKept`: a pair that `/create` has answered with is known as long as it is
  in its file in the directory, again but for a refresh that missed it and was swapped in
  after `/create`'s own. `PromiseKept` is without exceptions, and for all ids.
- `DeletedForgotten`: a pair in the table is on disk, or left it after the table's
  refresh had read it: `/delete` leaves the table alone, and this says until when.
- `SharedKeysWereUnseen`: two files share a key only if it was drawn while another
  request had it in hand, or while it was on disk and not in the table. `NoDuplicates`
  is without the exception. The keys are 4 in the runs so that draws collide; in the code
  there are 62^4 of them (`HASH_LENGTH` is 4).

Two senders race each other and asio's thread; three frames of the peer are enough for
data before a close frame, a close frame and what may follow it, or for frames that
come along with the request. Three threads on a semaphore are two that wait and one
that releases, with a third call that may overtake the one that was woken.

Two threads and two ids are the least with which a refresh overlaps a write, a
deletion or another refresh, and two files can share a key; the third request meets
what two others left, and the third id is of a file that no refresh finds. All four
kinds of request and every kind of failing access occur in the run.

Each property has a plausible bug of the code (operators marked "mutant" in the
modules) under which the same run violates it.

## 4. Fairness

- `WF(Handle)`, `WF(RoomThread(r))`, `WF(Worker(t))`, `WF(Caller(c))`: a thread that
  can take a step takes one; the operating system schedules threads, and no thread
  waits on anything but the critical sections the actions stand for.
- `SF(OnClose(c))`: asio runs its handlers in the order they were queued. While
  another handler is in progress `OnClose(c)` is disabled, so weak fairness would let
  other clients' messages overtake a queued close for ever; the queue does not.
- Nothing is assumed of clients, of the network, of the API or of `BeginTick` and
  `Destroy`. A caller gets no fairness from `try_acquire`, so `TicksEnd` has an
  exception: it does not promise the end of a tick while another caller is handed
  threads again and again.
- `Connection`: asio runs handlers that are ready (`Loop`, `WriteFrame`,
  `ShutdownTimeout`, `HandshakeTimeout`), timers expire unless they are cancelled, and
  an operation on a socket that has been shut down ends, with an error if need be. A
  read or a write on a socket that is not shut down need never end.
- `Semaphore`: `WF(Body(t))`, a thread in a body goes on; `SF(Lock(t))`, a thread that
  contends for the mutex again and again gets it. C++ does not promise the latter of a
  `std::mutex`, but a body holds it for a few instructions and a contender that is
  passed over without end is not a failure of this code. Sleepers need not wake by
  themselves.

## 5. Proofs

`RelayProof` proves, for any sets of connections and rooms, any number of
identifiers and any key tables:

| theorem | states |
|---|---|
| `TypeCorrect` | `Spec => []TypeOK` |
| `UniqueIdentifiers` | `Spec => []IdentifiersUnique` |
| `ReturnedIdentifiers` | `Spec => []IdentifiersReturned` |
| `CurrentHandles` | `Spec => []HandlesCurrent` |
| `RoomsOfMoonsExist` | `Spec => []MoonRoomsExist` |
| `JoinableThreads` | `Spec => []CompletedJoinable` |

Assumptions: `MaxIdentifier` is a positive natural number, `MaxMessages` a natural
number, `NoRoom` is no room, `NoPair` is no number, and key tables map rooms to
limits or `NoPair`.

The properties are not inductive by themselves. Their conjunction with three more
facts is (`IInv`, theorem `Invariance`):

- `IdentifierInv`: the holder of an identifier is connected, and the number is
  reserved. Without it `claimIdentifier` could hand out a number that is in use.
  `IdentifiersReturned` adds the converse: a reserved number has a holder.
- `HandlerInv`: the handler in progress works for a connection that has not gone, and
  a message handler for one that has an identifier. Without it `AddHandle` could list
  a connection under number 0 or a number it has lost.
- `JobsInv`: jobs refer to entries of the tick's snapshot; the type of the send step
  depends on it.

The argument for `HandlesCurrent` is the code's: a number is released in the step
that erases its holder from every list (`removeConnection` then `releaseIdentifier`,
with nothing of the relay thread between), erasing keeps the remaining entries
distinct (`WithoutHandleFacts`, from `RemoveAtFacts` on sequences), and a connection
is listed only if its number is not there. `MoonRoomsExist` needs the exact condition
of `remainingMoons`.

`RelayDeliveryProof` proves of `DSpec`, under the same assumptions and for any number
of messages:

| theorem | states |
|---|---|
| `NothingLost` | `DSpec => []NoPacketLost` |
| `DeliveredInOrder` | `DSpec => []InOrder` |
| `NobodyEchoed` | `DSpec => []NoEcho` |

`IInv` holds along `DSpec`, because the history never restricts a step. `DeliveryInv`
adds to it:

- `SenderInv`, `PacketsInv`, `TargetsInv`: a queued packet, and an entry of a snapshot,
  carries the identifier that its connection still holds, unless that has gone. Of
  somebody who has gone nothing is said: his number may be another's by now. So a job
  takes a packet for its client's own only if it is, or if nobody is harmed.
- `OutboxInv`: what a frame skips includes all that its client sent (`NoEcho` follows).
- `QueuesInv`: what waits in a room is younger than what its thread has taken.
  `FramesInv`: what a connection has been given is older than both, the second as long as
  a job of the batch is still to serve it; and two frames of one room are in order
  (`InOrder` follows). Without "still to serve" the invariant fails in the middle of a tick.
- `OwedInv`: a message is owed only where it would not be skipped. Without it a job could
  serve a connection and leave the debt.
- `ResetInv`: nothing is owed in a room whose list is about to be made anew.
  `CreateHandles` empties `m_handles` in a step after the one that made the room exist;
  that nobody can have been listed in between is what keeps `NoPacketLost` there.

Every step is one of the five that carry a message or leaves messages alone (lemma
`Effects`), and every step but two leaves the connections' numbers alone
(`IdentityKept`), so that each part is proved for a few kinds of step.

`RelayAdmissionProof` proves of `ASpec`:

| theorem | states |
|---|---|
| `LimitKept` | `ASpec => []PlayerLimitRespected` |
| `RoomsKeptByMoons` | `ASpec => []RoomsNeedMoons` |

`AdmissionInv` adds to `IInv` and the first property:

- `PlaceInv`: from the check of the limit to the listing the place stays free: some table
  has a limit above the count. The steps between are the relay thread's own, and those of
  other threads do not touch `m_handles`. The table may be replaced; the limit that was
  read is then one of an older table, which is why the property speaks of all tables.
- `ShownInv`, `HeldInv`: a connection is registered for a room whose moon key it has
  presented, and only a number that somebody holds is registered. Otherwise a number
  that is claimed again could bring its new holder a moon's rights.
- `CourseInv`: a handler that began with a moon key ends for a moon, and what is left of
  `onClose` runs for a connection that is no longer registered.
- `LivingInv`: a room has a registered moon, or had one that went on to another room.
  This is the exact test of `onClose`, from which `RoomsNeedMoons` follows.

`RelayThreadPoolProof` proves, for any set of room threads, any number of pool threads
and any number of jobs in a tick:

| theorem | states |
|---|---|
| `TypeCorrect` | `Spec => []TypeOK` |
| `OneOwner` | `Spec => []ThreadOwnedOnce` |
| `JoinedOver` | `Spec => []JoinedJobsAreOver` |
| `ForkJoinImplemented` | `Spec => ImplementsForkJoin` |

Assumptions: there is a pool thread, `MaxJobs` is a natural number, and `NoJob` is no
job. The inductive invariant has the property `ThreadOwnedOnce` and

- `LockInv`: how the two semaphores and the place of the pool thread go together; the
  thread can be locked only while it waits for a release that nobody has made yet. The
  order of `Rearm` and `Offer` is what keeps it.
- `JobInv`: a thread that is busy has a job whose controller is held, and no other thread
  has that job. `ControllerInv`: a controller that is not held is that of a job that has
  run, once. `TickInv`: where the room thread is in its tick.

Each `Execute` maps to the step of `ForkJoin` with that name, `BeginTick` to `Fork`,
`EndTick` to `Join`, the handshake to stutters. That a job runs once, which
`ForkJoin` demands of `Execute`, is `JobInv`; that all have run at `Join` is
`ControllerInv` with `TickInv`.

`ConnectionProof` proves, for any set of senders and any number of messages and frames:

| theorem | states |
|---|---|
| `TypeCorrect` | `Spec => []TypeOK` |
| `HandlersFound` | `Spec => []HandlersExpected` |
| `CloseIsLast` | `Spec => []NothingAfterClose` |
| `QueueServed` | `Spec => []NoStuckQueue` |
| `ClosedOnce` | `Spec => []ReportedBeforeRelease` |
| `SessionImplemented` | `Spec => ImplementsSession` |

Assumptions: the bounds are natural numbers, and no sender is called after a control
frame. The inductive invariant has the properties, and

- `StageInv`: before the response has been written the connection is nobody's, and
  afterwards neither handler of the opening handshake is to come.
- `WriteInv`: `m_write_flag` is set from the taking of messages to the handler of their
  write; until it is set for good no close frame has been written; and what was accepted
  is what was written, followed by the queue. It carries `NothingAfterClose` through the
  batch that `write_frame` takes (`TakenFacts`: up to the first terminal message).
- `ReleasedInv`: an object that is gone has no handler left that could do anything.
- `EndInv`: an open connection is being read, a closing one has its timer, and a close
  handler that is still to be called is one that `handle_terminate` will call. It says
  that each cause of an end finds the connection ended already or ends it, once.

The refinement maps `opens`, `closes` and `m_state` to the phase of `Session`; `Terminate` and the
sending of a close frame, which many handlers end in, have lemmas of their own
(`TerminateMaps`, `SendCloseMaps`).

`SemaphoreProof` proves, for any set of threads and with no assumption but that
`NoThread` is none of them:

| theorem | states |
|---|---|
| `TypeCorrect` | `Spec => []TypeOK`, with the exclusion of the mutex |
| `WakeupsKept` | `Spec => []NoLostWakeup` |
| `FlagImplemented` | `Spec => ImplementsFlag` |

`TypeOK` is inductive, and `NoLostWakeup` is inductive with it: whoever is woken stays
on his way until he is in the body of `acquire`, which he leaves with the flag set or
asleep with it set. For the refinement each step maps to a step of the flag with the
same name, and locking, waiting and waking to stutters.

`KeyStoreProof` proves, for any sets of threads, ids and keys, and any number of
requests and of failing accesses:

| theorem | states |
|---|---|
| `TypeCorrect` | `Spec => []TypeOK` |
| `NoPairForgotten` | `Spec => []FilesKnown` |
| `WrittenPairsKnown` | `Spec => []WrittenPromiseKept` |
| `DeletedKeysForgotten` | `Spec => []DeletedForgotten` |
| `KeysSharedOnlyUnseen` | `Spec => []SharedKeysWereUnseen` |

Assumptions: the markers `NoKey`, `NoFile`, `Empty` and `NoPair` are neither keys nor
pairs, `MaxRequests` and `MaxFaults` are natural numbers, and ids of letters and digits
name files in the directory (`Valid \subseteq Listed \subseteq Users`). The inductive
invariant adds three facts to the properties:

- `HandInv`: a request that is about to write has the pair it writes, and one that reads
  its file has been let through to it.
- `ScanInv`: for each file that a refresh in progress has read, the pair on disk is in
  what it found, or in what it missed: written after it read the file, or not readable.
  This is what makes `SwapKeys`, which replaces the whole table, preserve `FilesKnown` and
  `WrittenPromiseKept`, however many refreshes and writers overlap.
- `FoundInv`: the other direction; what a refresh in progress has found is on disk, or
  left it after the refresh had read it. `DeletedForgotten` rests on it.
- `ApartInv`, for the last theorem only: two requests about different ids, and a request
  and another id's file in the directory, have keys in common only if these were drawn
  unseen. A key comes into a second hand by a draw alone, since `/limit` loads it from the
  file of its own id, so it comes to a second file only unseen. `/limit` refuses ids whose
  file is elsewhere (`HandInv`), of which nothing is known.

The four markers keep a truncated file from being taken for a pair, and the lemma
`StillReading` shows that no step of another thread ends a refresh.
`WrittenPairsKnown` says nothing of a pair that `writeFile` failed to write, and nothing
of one whose file is outside the directory: section 6 says what becomes of these.

Model-checked only: the liveness properties, that is `RelayedUnlessThreadEnded`,
`RoomThreadEnds`, `EndsReleased`, `TicksEnd`, `DestroyedEnd` and
`CallsReturn`, which rest on fairness and ENABLED, out of this prover's reach; and
the five disagreements below, which are counterexamples. Every invariant
and every refinement that a passing run checks is stated by a theorem. TLC checked
each inductive invariant, on the instances of the runs or on smaller ones, before it
was proved.

## 6. Disagreements between the code and what it says

1. `delivery_lost`. `RoomManager::createRoom` starts no thread while `m_roomThreads`
   has one for the room (`RoomManager.cpp:21`). A room thread that has seen its room
   missing but has not yet entered `m_completedThreads`, or enters it just after
   `createRoom` cleaned up, still counts. The new room is then served by nobody until
   it is destroyed and created once more: "for every message this server receives it
   just relays that message to every other client" (README.md:89) fails.
2. `admission_twokeys`. A connection that presents two moon keys is remembered for
   the second only (`RelayServer.cpp:124`); the first room outlives it, against the
   comment of `RelayServer.cpp:127`. `RoomsNeedMoons` shows this is the only way.
3. `keys_stale`. `refreshKeys` swaps in what it has read, however old that is
   (`KeyManager.cpp:50`). When two API calls overlap, the table read before `/create`
   wrote its file may replace the one read after; the pair it has answered with
   is then unknown until some call refreshes, against "refresh keys after the files
   are written to get them" (APIServer.cpp:72). `WrittenPairsKnown` shows that this, and
   a refresh that cannot read the file, are the only ways as long as the pair is in its
   file. There is another way without any overlap: the pair was never written. `/create`
   validates no id, and `writeFile` does not look whether the stream could be opened or
   written (`Helpers.cpp:45`), so with an id such as `a/b`, or with a full disk, `/create`
   answers 200 with a pair that no table will ever hold; with an id whose file is
   elsewhere than in `../keys` it is written where no refresh looks. In the model these
   are `Unwritten` and the ids outside `Listed`; an instance with one request and
   `Faults = {"open"}`, `MaxFaults = 1` violates `PromiseKept` too.
4. `keys_duplicates`. `hasKey` asks the table, in which the key that another `/create` has
   just drawn is found only after that call has written its file and refreshed. Two
   overlapping calls may accept the same key, and a client that presents it is let
   into the room that `getRoom` finds first, against "refresh keys before it all starts
   to avoid duplicates" (APIServer.cpp:39). `KeysSharedOnlyUnseen` says which keys
   alone this can happen to. Among 62^4 random keys it is unlikely; it is chance that
   keeps them apart then, and not the refresh.
5. `connection_dangling`. `RelayServer::send` runs on a pool thread, takes a reference
   to the connection from `lock()` and lets the shared pointer go at the end of that
   line (`RelayServer.cpp:46`). When the relay thread drops the last one before
   `get_state` or `send` has been called, the pool thread uses an object that is gone.
   The library says that a `connection_ptr` is "NOT safe to use outside the handler
   loop" (`endpoint.hpp:637`). Keeping the shared pointer for the whole of `send` would
   be enough for the object's lifetime. That in `RelayServer::close` is harmless: it
   runs in a handler.

Also met while reading: `RelayServer.cpp:102` says that a message from a connection
without an identifier "should not be possible". It is when `claimIdentifier` has found
every number taken, as `onOpen` keeps such a connection open (`RelayServer.cpp:54`); its
messages are ignored, and it closes like any other. The runs on `Relay`, with fewer
identifiers than connections, go through this case. README.md:26 says that exceeding the tick rate disconnects a
client; nothing in the code does that. README.md:24 says that a message above the
maximum size is ignored; a moon's is, but only after it has registered the moon and
created its room (`RelayServer.cpp:147`; in `Relay`, `CreateRoom` comes before
`DropOversize`).

## 7. Not modelled

- The limit in a key file, and what two overlapping writers of one file leave of it;
  whether `/limit` may bring back a file that `/delete` removed meanwhile (the steps
  are in `KeyStore`; no text says what should come of it).
- `ContiguousQueue`: `RelayThreadPool.h` includes it and nothing uses it.
- Which accesses to files fail, and why: each may, within `MaxFaults`. A write that gets
  part of its data into the file is not among them. The exception of a first refresh
  that finds no directory ends the process before there is anything to model.
- `main`, string helpers, logging, the ping server: no state of their own.
- The growth of a connection's send queue, and open connections whose peer is silent:
  the code limits neither, so there is nothing to state.
- Of websocketpp: framing and the HTTP parser (a frame is its kind, a request is good
  or bad), the client's side, extensions, accepting of connections. asio and
  cpp-httplib: third-party code, present as the fairness above and as the threads that
  run handlers.

## 8. Plan

In order of importance; all but the last two exist.

1. `Relay`, `RelayDelivery`, `RelayAdmission` and their runs.
2. `RelayProof`: types, identifiers, lists, moons' rooms, joinable threads.
3. `ForkJoin`, `RelayThreadPool` and their run.
4. `KeyStore`, `KeyStoreProof` and their runs.
5. `BinarySemaphore`, `Semaphore`, `SemaphoreProof` and their run.
6. `Session`, `Connection` and their runs.
7. `RelayThreadPoolProof`: the handshake and `ForkJoin`.
8. `ConnectionProof`: the invariants of a connection and `Session`.
9. `RelayDeliveryProof` and `RelayAdmissionProof`: order, echo, loss, limits, moons.
10. `SharedKeysWereUnseen` as a theorem of `KeyStoreProof`; failing accesses to files and
    ids outside the directory in `KeyStore`, and its theorems over them.
11. An abstract relay, a room as one queue from which each member takes what
    it is owed, and `RelayDelivery` as an implementation of it, which would say in one
    refinement what `InOrder`, `NoEcho` and `NoPacketLost` say side by side.
12. Action properties, with proofs from the invariants above: an identifier is not
    changed while its connection is open; a table never loses a pair that is on disk
    to a refresh that began after it was written.

The number of runs is kept small: a new question should join a module's existing
instance where it can.
