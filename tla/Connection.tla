---------------------------- MODULE Connection ----------------------------
(***************************************************************************)
(* One websocket connection as the relay uses it: websocketpp's connection *)
(* object, the handlers that asio runs for it, and the pool threads that   *)
(* send to it.                                                             *)
(*                                                                         *)
(*  - One thread runs all of asio's handlers (WebsocketServer::run), one   *)
(*    after the other: opening, reading, writing, timers, and the calls of *)
(*    RelayServer's listeners.  dispatch posts: it never calls at once.    *)
(*  - A pool thread runs RelayServer::send over a weak handle and takes    *)
(*    m_write_lock for as long as it pushes.                               *)
(*  - The object lives while a handler that asio still has to run holds a  *)
(*    shared pointer to it.                                                *)
(*                                                                         *)
(* A frame of the peer is its kind; the bytes of an incomplete frame or    *)
(* request only start another read, which changes nothing here.            *)
(***************************************************************************)
EXTENDS Integers, SequencesExt

CONSTANTS
  Senders,      \* the room threads whose jobs may send to the connection
  MaxSends,     \* bound of the model: sends of each of them
  MaxFrames     \* bound of the model: frames that the peer sends

ASSUME SendersAssumption == {"pong", "close"} \cap Senders = {}
ASSUME MaxSendsAssumption == MaxSends \in Nat
ASSUME MaxFramesAssumption == MaxFrames \in Nat

VARIABLES
  state,         \* m_state
  stage,         \* m_internal_state
  response,      \* m_response: whether it switches protocols
  wasClean,      \* m_was_clean
  sendQueue,     \* m_send_queue
  currentMsgs,   \* m_current_msgs
  writeFlag,     \* m_write_flag
  timer,         \* what m_handshake_timer points to
  batch,         \* the frames in m_buf that are not processed yet
  reading,       \* the handler of the outstanding read
  writing,       \* the handler of the outstanding write
  posted,        \* how many write_frame are posted
  running,       \* how many timers of each kind run
  expired,       \* how many have expired, their handlers to be run
  shutdown,      \* the status handle_terminate waits with for its timer
  alive,         \* whether the object has not been destroyed
  listed,        \* whether RelayServer has the connection in its lists
  sender,        \* where each room's job for the connection is in send
  sends,         \* how many sends each room has begun
  frames,        \* history: how many frames the peer has sent
  received,      \* history: how often the message handler was called
  opens,         \* history: how often the open handler was called
  closes,        \* history: how often the close handler was called
  accepted,      \* history: what was pushed to m_send_queue
  written        \* history: what was handed to the transport

handshakeVars == <<stage, response>>
queueVars == <<sendQueue, posted, accepted>>
writeVars == <<currentMsgs, writeFlag, writing, written>>
readVars == <<batch, reading, frames>>
endVars == <<state, timer, running, shutdown, closes, listed>>
senderVars == <<sender, sends>>
vars == <<handshakeVars, wasClean, queueVars, writeVars, readVars, endVars, expired,
          alive, senderVars, received, opens>>

Kinds == {"data", "ping", "close", "invalidClose", "malformed"}
Timers == {"open", "close"}

Pong == <<"pong", 0>>
Close == <<"close", 0>>
Messages == (Senders \X (1..MaxSends)) \cup {Pong, Close}

TypeOK ==
  /\ state \in {"connecting", "open", "closing", "closed"}
  /\ stage \in {"request", "response", "connection"}
  /\ response \in {"none", "switching", "error"}
  /\ wasClean \in BOOLEAN
  /\ sendQueue \in Seq(Messages)
  /\ currentMsgs \in Seq(Messages)
  /\ writeFlag \in BOOLEAN
  /\ timer \in Timers \cup {"none"}
  /\ batch \in Seq(Kinds)
  /\ reading \in {"none", "request", "frame"}
  /\ writing \in {"none", "response", "frame"}
  /\ posted \in Nat
  /\ running \in [Timers -> Nat]
  /\ expired \in [Timers -> Nat]
  /\ shutdown \in {"none", "failed", "closed"}
  /\ alive \in BOOLEAN
  /\ listed \in BOOLEAN
  /\ sender \in [Senders -> {"idle", "copied", "tested", "checked", "admitted",
                             "pushed", "dangling"}]
  /\ sends \in [Senders -> 0..MaxSends]
  /\ frames \in 0..MaxFrames
  /\ received \in Nat
  /\ opens \in Nat
  /\ closes \in Nat
  /\ accepted \in Seq(Messages)
  /\ written \in Seq(Messages)

(* start has set the timer of the opening handshake and begun to read. *)
Init ==
  /\ state = "connecting" /\ stage = "request" /\ response = "none"
  /\ wasClean = FALSE
  /\ sendQueue = <<>> /\ currentMsgs = <<>> /\ writeFlag = FALSE
  /\ timer = "open"
  /\ batch = <<>> /\ reading = "request" /\ writing = "none" /\ posted = 0
  /\ running = [k \in Timers |-> IF k = "open" THEN 1 ELSE 0]
  /\ expired = [k \in Timers |-> 0]
  /\ shutdown = "none" /\ alive = TRUE /\ listed = FALSE
  /\ sender = [s \in Senders |-> "idle"] /\ sends = [s \in Senders |-> 0]
  /\ frames = 0 /\ received = 0 /\ opens = 0 /\ closes = 0
  /\ accepted = <<>> /\ written = <<>>

(* handle_read_frame is in its loop: no other handler runs meanwhile. *)
InLoop == stage = "connection" /\ batch # <<>>

-----------------------------------------------------------------------------
(* The end of a connection.                                                *)

CancelledUnchecked(k) == [running EXCEPT ![k] = @ - 1]   \* mutant: it may have expired
Cancelled(k) == [running EXCEPT ![k] = IF @ > 0 THEN @ - 1 ELSE 0]

(* m_handshake_timer->cancel(): too late for a timer that has expired, whose
   handler is queued already.                                              *)
CancelTimer ==
  /\ timer' = "none"
  /\ running' = IF timer = "none" THEN running ELSE Cancelled(timer)

(* handle_terminate calls RelayServer::onClose, which takes the connection
   off every list.  A connection that failed to open has no handler.       *)
HandleTerminate(status) ==
  /\ closes' = IF status = "closed" THEN closes + 1 ELSE closes
  /\ listed' = (listed /\ status # "closed")

EndStatusAlways == IF state = "connecting" THEN "failed" ELSE "closed"   \* mutant
EndStatus ==
  CASE state = "connecting" -> "failed"
    [] state \in {"open", "closing"} -> "closed"
    [] OTHER -> "none"

(* terminate: the socket is shut down and handle_terminate called at once,
   or, when that has taken longer than the timer, by the timer.            *)
Terminate ==
  /\ CancelTimer
  /\ state' = "closed"
  /\ \/ /\ EndStatus = "none"
        /\ UNCHANGED <<shutdown, closes, listed>>
     \/ /\ EndStatus # "none"
        /\ HandleTerminate(EndStatus)
        /\ UNCHANGED shutdown
     \/ /\ EndStatus # "none"
        /\ shutdown' = EndStatus
        /\ UNCHANGED <<closes, listed>>

(* handle_async_shutdown_timeout *)
ShutdownTimeout ==
  /\ ~InLoop
  /\ shutdown # "none"
  /\ HandleTerminate(shutdown)
  /\ shutdown' = "none"
  /\ UNCHANGED <<handshakeVars, wasClean, queueVars, writeVars, readVars, state, timer,
                 running, expired, alive, senderVars, received, opens>>

Expire(k) ==
  /\ running[k] > 0
  /\ running' = [running EXCEPT ![k] = @ - 1]
  /\ expired' = [expired EXCEPT ![k] = @ + 1]
  /\ UNCHANGED <<handshakeVars, wasClean, queueVars, writeVars, readVars, state, timer,
                 shutdown, closes, listed, alive, senderVars, received, opens>>

(* handle_open_handshake_timeout, handle_close_handshake_timeout *)
HandshakeTimeout(k) ==
  /\ ~InLoop
  /\ expired[k] > 0
  /\ expired' = [expired EXCEPT ![k] = @ - 1]
  /\ Terminate
  /\ UNCHANGED <<handshakeVars, wasClean, queueVars, writeVars, readVars, alive,
                 senderVars, received, opens>>

-----------------------------------------------------------------------------
(* Writing.                                                                *)

(* write_push, and a write_frame is posted unless a write is under way. *)
Push(m) ==
  /\ sendQueue' = Append(sendQueue, m)
  /\ accepted' = Append(accepted, m)

PushAndDispatch(m) ==
  /\ Push(m)
  /\ posted' = IF writeFlag THEN posted ELSE posted + 1

(* Every close frame of this server is marked terminal: its acknowledgements
   and the codes of its own closes (close::status::terminal).              *)
IsTerminal(m) == m = Close

TakenAll == Len(sendQueue)   \* mutant: a terminal message is not the last
Taken ==
  LET terminals == {i \in DOMAIN sendQueue : IsTerminal(sendQueue[i])}
  IN IF terminals = {} THEN Len(sendQueue) ELSE Min(terminals)

MayWriteAlways == TRUE   \* mutant: m_write_flag is not looked at
MayWrite == ~writeFlag

IsSomethingUnchecked == TRUE   \* mutant: m_current_msgs.empty() is not asked
IsSomething == currentMsgs \o sendQueue # <<>>

WriteFrame ==
  /\ ~InLoop
  /\ posted > 0
  /\ posted' = posted - 1
  /\ \/ /\ MayWrite /\ IsSomething
        /\ sendQueue' = SubSeq(sendQueue, Taken + 1, Len(sendQueue))
        /\ currentMsgs' = currentMsgs \o SubSeq(sendQueue, 1, Taken)
        /\ writeFlag' = TRUE
        /\ writing' = "frame"
        /\ written' = written \o currentMsgs'
     \/ /\ ~(MayWrite /\ IsSomething)
        /\ UNCHANGED <<sendQueue, writeVars>>
  /\ UNCHANGED <<handshakeVars, wasClean, accepted, readVars, endVars, expired, alive,
                 senderVars, received, opens>>

(* handle_write_frame after an error, or a terminal message: the write flag
   stays set.                                                              *)
EndAfterWrite ==
  /\ ~InLoop
  /\ writing = "frame"
  /\ currentMsgs' = <<>>
  /\ writing' = "none"
  /\ Terminate
  /\ UNCHANGED <<handshakeVars, wasClean, queueVars, writeFlag, written, readVars, expired,
                 alive, senderVars, received, opens>>

WriteFails == EndAfterWrite

TerminalWritten == writing = "frame" /\ IsTerminal(Last(currentMsgs)) /\ EndAfterWrite

PostedUnasked == posted   \* mutant: what was pushed meanwhile is not looked for
PostedIfQueued == IF sendQueue = <<>> THEN posted ELSE posted + 1

HandleWriteFrame ==
  /\ ~InLoop
  /\ writing = "frame"
  /\ ~IsTerminal(Last(currentMsgs))
  /\ currentMsgs' = <<>>
  /\ writing' = "none"
  /\ writeFlag' = FALSE
  /\ posted' = PostedIfQueued
  /\ UNCHANGED <<handshakeVars, wasClean, sendQueue, accepted, written, readVars, endVars,
                 expired, alive, senderVars, received, opens>>

-----------------------------------------------------------------------------
(* The opening handshake.                                                  *)

(* Up to n frames that the peer may send at once. *)
Arrivals(n) == UNION {[1..k -> Kinds] : k \in 0..n}

(* handle_read_handshake has the whole request, with the first bytes that
   follow it, and writes the response.                                     *)
HandleRequest(answer, leftover) ==
  /\ reading = "request"
  /\ state = "connecting"
  /\ answer = "error" => leftover = <<>>
  /\ reading' = "none"
  /\ batch' = leftover
  /\ frames' = frames + Len(leftover)
  /\ stage' = "response"
  /\ response' = answer
  /\ writing' = "response"
  /\ UNCHANGED <<wasClean, queueVars, currentMsgs, writeFlag, written, endVars, expired,
                 alive, senderVars, received, opens>>

(* The connection was closed while the request was being read. *)
IgnoreRequest ==
  /\ reading = "request"
  /\ state = "closed"
  /\ reading' = "none"
  /\ UNCHANGED <<handshakeVars, wasClean, queueVars, writeVars, batch, frames, endVars,
                 expired, alive, senderVars, received, opens>>

RequestFails ==
  /\ reading = "request"
  /\ reading' = "none"
  /\ Terminate
  /\ UNCHANGED <<handshakeVars, wasClean, queueVars, writeVars, batch, frames, expired,
                 alive, senderVars, received, opens>>

(* handle_write_http_response: the open handler is called, then the frames
   that came with the request are read from the buffer.                    *)
HandleResponse ==
  /\ writing = "response"
  /\ state = "connecting"
  /\ response = "switching"
  /\ CancelTimer
  /\ writing' = "none"
  /\ stage' = "connection"
  /\ state' = "open"
  /\ opens' = opens + 1
  /\ reading' = IF batch = <<>> THEN "frame" ELSE "none"
  /\ UNCHANGED <<response, wasClean, queueVars, currentMsgs, writeFlag, written, batch,
                 frames, shutdown, closes, listed, expired, alive, senderVars, received>>

(* The response could not be written, or it was an error. *)
EndAfterResponse ==
  /\ writing = "response"
  /\ writing' = "none"
  /\ Terminate
  /\ UNCHANGED <<handshakeVars, wasClean, queueVars, currentMsgs, writeFlag, written,
                 readVars, expired, alive, senderVars, received, opens>>

ResponseFails == EndAfterResponse

ErrorWritten == state = "connecting" /\ response = "error" /\ EndAfterResponse

(* The connection was closed while the response was being written. *)
IgnoreResponse ==
  /\ writing = "response"
  /\ state = "closed"
  /\ writing' = "none"
  /\ UNCHANGED <<handshakeVars, wasClean, queueVars, currentMsgs, writeFlag, written,
                 readVars, endVars, expired, alive, senderVars, received, opens>>

-----------------------------------------------------------------------------
(* Reading frames: handle_read_frame.                                      *)

HandleRead(arrived) ==
  /\ reading = "frame"
  /\ arrived # <<>>
  /\ reading' = "none"
  /\ batch' = arrived
  /\ frames' = frames + Len(arrived)
  /\ UNCHANGED <<handshakeVars, wasClean, queueVars, writeVars, endVars, expired, alive,
                 senderVars, received, opens>>

(* The peer has gone, or the socket has been shut down. *)
ReadFails ==
  /\ reading = "frame"
  /\ reading' = "none"
  /\ Terminate
  /\ UNCHANGED <<handshakeVars, wasClean, queueVars, writeVars, batch, frames, expired,
                 alive, senderVars, received, opens>>

(* The loop goes on with the next frame; after the last one it reads again. *)
NextFrame(kind) ==
  /\ InLoop
  /\ Head(batch) = kind
  /\ batch' = Tail(batch)
  /\ reading' = IF Len(batch) = 1 THEN "frame" ELSE "none"
  /\ UNCHANGED <<handshakeVars, writeVars, frames, expired, alive, senderVars, opens>>

SetTimer(k) == timer' = k /\ running' = [running EXCEPT ![k] = @ + 1]
SetNoTimer(k) == UNCHANGED <<timer, running>>   \* mutant

CloseTimer(k) == SetTimer(k)

(* send_close_frame: a timer that m_handshake_timer pointed to is replaced
   and not cancelled.                                                      *)
SendClose(ack) ==
  /\ state' = "closing"
  /\ wasClean' = (wasClean \/ ack)
  /\ CloseTimer("close")
  /\ PushAndDispatch(Close)
  /\ UNCHANGED <<shutdown, closes>>

(* RelayServer::onMessage takes the message, and the connection into a list. *)
DataFrame ==
  /\ NextFrame("data")
  /\ state = "open"
  /\ received' = received + 1
  /\ listed' = TRUE
  /\ UNCHANGED <<wasClean, queueVars, state, timer, running, shutdown, closes>>

(* RelayServer::onMessage closes the connection. *)
RefusedFrame ==
  /\ NextFrame("data")
  /\ state = "open"
  /\ received' = received + 1
  /\ SendClose(FALSE)
  /\ UNCHANGED listed

PingFrame ==
  /\ NextFrame("ping")
  /\ state = "open"
  /\ PushAndDispatch(Pong)
  /\ UNCHANGED <<wasClean, endVars, received>>

(* The peer's close frame is acknowledged, as is an invalid one. *)
AcknowledgeClose ==
  /\ \/ NextFrame("close") /\ state = "open"
     \/ NextFrame("invalidClose") /\ state # "closed"
  /\ SendClose(TRUE)
  /\ UNCHANGED <<listed, received>>

(* The acknowledgement of our own close. *)
CloseAcknowledged ==
  /\ NextFrame("close")
  /\ state = "closing" /\ ~wasClean
  /\ wasClean' = TRUE
  /\ Terminate
  /\ UNCHANGED <<queueVars, received>>

IgnoreFrame ==
  /\ \/ NextFrame("data") /\ state # "open"
     \/ NextFrame("ping") /\ state # "open"
     \/ NextFrame("close") /\ (state = "closed" \/ (state = "closing" /\ wasClean))
     \/ NextFrame("invalidClose") /\ state = "closed"
  /\ UNCHANGED <<wasClean, queueVars, endVars, received>>

(* consume reports an error: the rest is dropped and nothing is read again. *)
MalformedFrame ==
  /\ InLoop
  /\ Head(batch) = "malformed"
  /\ batch' = <<>>
  /\ \/ state = "open" /\ SendClose(FALSE) /\ UNCHANGED listed
     \/ state # "open" /\ Terminate /\ UNCHANGED <<wasClean, queueVars>>
  /\ UNCHANGED <<handshakeVars, writeVars, reading, frames, expired, alive, senderVars,
                 received, opens>>

-----------------------------------------------------------------------------
(* A pool thread: RelayServer::send.                                       *)

asioVars == <<handshakeVars, wasClean, writeVars, readVars, endVars, expired, received,
              opens>>

Step(s, from, to) == sender[s] = from /\ sender' = [sender EXCEPT ![s] = to]

(* A tick copies the list of its room and hands out a job. *)
Copy(s) ==
  /\ Step(s, "idle", "copied")
  /\ listed
  /\ sends[s] < MaxSends
  /\ sends' = [sends EXCEPT ![s] = @ + 1]
  /\ UNCHANGED <<asioVars, queueVars, alive>>

(* handle.expired() *)
TestExpired(s) ==
  /\ Step(s, "copied", IF alive THEN "tested" ELSE "idle")
  /\ UNCHANGED <<asioVars, queueVars, alive, sends>>

(* The shared pointer that lock() returns is gone at the end of the same
   line: from here on nothing keeps the object for this thread.            *)
Use(s, from, to) ==
  /\ Step(s, from, IF alive THEN to ELSE "dangling")
  /\ UNCHANGED <<asioVars, alive, sends>>

(* connection.get_state() *)
GetState(s) ==
  /\ Use(s, "tested", IF state = "open" THEN "checked" ELSE "idle")
  /\ UNCHANGED queueVars

(* connection.send looks at m_state again, under m_connection_state_lock. *)
Admit(s) ==
  /\ Use(s, "checked", IF state = "open" THEN "admitted" ELSE "idle")
  /\ UNCHANGED queueVars

(* The message is pushed under m_write_lock. *)
PushData(s) ==
  /\ Use(s, "admitted", IF writeFlag THEN "idle" ELSE "pushed")
  /\ IF alive THEN Push(<<s, sends[s]>>) ELSE UNCHANGED <<sendQueue, accepted>>
  /\ UNCHANGED posted

Dispatch(s) ==
  /\ Use(s, "pushed", "idle")
  /\ posted' = IF alive THEN posted + 1 ELSE posted
  /\ UNCHANGED <<sendQueue, accepted>>

(* The last handler that held the object is gone. *)
Release ==
  /\ alive
  /\ reading = "none" /\ writing = "none" /\ posted = 0 /\ shutdown = "none" /\ ~InLoop
  /\ \A k \in Timers : running[k] = 0 /\ expired[k] = 0
  /\ alive' = FALSE
  /\ UNCHANGED <<asioVars, queueVars, senderVars>>

-----------------------------------------------------------------------------
Handshake ==
  \/ \E answer \in {"switching", "error"}, leftover \in Arrivals(MaxFrames - frames) :
       HandleRequest(answer, leftover)
  \/ IgnoreRequest \/ RequestFails
  \/ HandleResponse \/ ResponseFails \/ ErrorWritten \/ IgnoreResponse

Loop ==
  \/ DataFrame \/ RefusedFrame \/ PingFrame
  \/ AcknowledgeClose \/ CloseAcknowledged \/ IgnoreFrame \/ MalformedFrame

Job(s) ==
  TestExpired(s) \/ GetState(s) \/ Admit(s) \/ PushData(s) \/ Dispatch(s)

Next ==
  \/ Handshake
  \/ \E arrived \in Arrivals(MaxFrames - frames) : HandleRead(arrived)
  \/ ReadFails \/ Loop
  \/ WriteFrame \/ WriteFails \/ TerminalWritten \/ HandleWriteFrame
  \/ \E k \in Timers : Expire(k) \/ HandshakeTimeout(k)
  \/ ShutdownTimeout
  \/ \E s \in Senders : Copy(s) \/ Job(s)
  \/ Release

Spec == Init /\ [][Next]_vars

(* asio runs what is queued, timers expire, and an operation on a socket that
   has been shut down ends.  Nothing is assumed of the peer or the network. *)
FairSpec ==
  /\ Spec
  /\ WF_vars(Loop)
  /\ WF_vars(WriteFrame)
  /\ WF_vars(ShutdownTimeout)
  /\ \A k \in Timers : WF_vars(Expire(k)) /\ WF_vars(HandshakeTimeout(k))
  /\ WF_vars(state = "closed" /\ (RequestFails \/ IgnoreRequest))
  /\ WF_vars(state = "closed" /\ (ResponseFails \/ IgnoreResponse))
  /\ WF_vars(state = "closed" /\ ReadFails)
  /\ WF_vars(state = "closed" /\ WriteFails)
  /\ \A s \in Senders : WF_vars(Job(s))
  /\ WF_vars(Release)

-----------------------------------------------------------------------------
(* Properties.                                                             *)

(* A handler finds the stage it was set up for, so that none of the branches
   for "invalid state" is taken, and handle_write_frame finds a last message
   in m_current_msgs, whatever write_frame was posted for.                 *)
HandlersExpected ==
  /\ reading = "request" => stage = "request" /\ state \in {"connecting", "closed"}
  /\ writing = "response" => stage = "response" /\ state \in {"connecting", "closed"}
  /\ reading = "frame" => stage = "connection"
  /\ writing = "frame" => writeFlag /\ currentMsgs # <<>>

(* Nothing is written after a close frame, although a pool thread that has
   found the connection open may push its message behind that frame.       *)
NothingAfterClose ==
  \A i \in DOMAIN written : written[i] = Close => i = Len(written)

(* A message does not stay in m_send_queue because everybody takes somebody
   else to be writing: if no write is under way, a write_frame is posted or
   about to be (needs_writing of send and of handle_write_frame).          *)
NoStuckQueue ==
  alive /\ sendQueue # <<>> /\ ~writeFlag =>
    posted > 0 \/ \E s \in Senders : sender[s] = "pushed"

(* connection.hpp:66: "The close handler will be called exactly once for
   every connection for which the open handler was called", and before the
   object is gone, whose address RelayServer knows the connection by.      *)
ReportedBeforeRelease ==
  /\ opens <= 1 /\ closes <= opens
  /\ closes = 1 => state = "closed" /\ ~listed
  /\ ~alive => closes = opens

(* A connection that is not open gets open or goes, however slow the peer is
   with its part of a handshake, and whatever else is under way.           *)
EndsReleased == state # "open" ~> (state = "open" \/ ~alive)

(* The handlers and the writes are those of a session. *)
Phase ==
  CASE opens = 0 -> "new"
    [] opens > 0 /\ closes > 0 -> "gone"
    [] opens > 0 /\ closes = 0 /\ state = "open" -> "open"
    [] OTHER -> "closing"

S == INSTANCE Session WITH Frames <- Messages, phase <- Phase

ImplementsSession == S!Spec

(* endpoint.hpp:637: a connection_ptr is "NOT safe to use outside the handler
   loop".  RelayServer::send uses the object without one that is its own.  *)
NoDanglingUse == \A s \in Senders : sender[s] # "dangling"

=============================================================================
