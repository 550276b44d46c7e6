--------------------------- MODULE ConnectionProof ---------------------------
(***************************************************************************)
(* Proofs about Connection, for any room threads and any number of frames  *)
(* and sends.                                                              *)
(***************************************************************************)
EXTENDS Connection, SequenceTheorems, WellFoundedInduction, TLAPS

(* Before the response is written the connection is nobody's: RelayServer has
   not been told of it, and nothing is sent; after that neither handler of the
   opening handshake is to come.                                           *)
StageInv ==
  /\ stage # "connection" =>
       /\ state \in {"connecting", "closed"}
       /\ opens = 0 /\ ~listed
       /\ posted = 0 /\ ~writeFlag /\ sendQueue = <<>>
       /\ reading # "frame" /\ writing # "frame"
       /\ \A s \in Senders : sender[s] = "idle"
  /\ stage = "connection" =>
       opens = 1 /\ state # "connecting" /\ reading # "request" /\ writing # "response"
  /\ stage = "request" => writing = "none"
  /\ stage = "response" => reading = "none"

(* m_write_flag is set from the taking of the messages to the handler of
   their write, and for good when that one ends the connection; until it is
   set for good no close frame has been written.                           *)
WriteInv ==
  /\ ~writeFlag => \A i \in DOMAIN written : written[i] # Close
  /\ writing = "frame" =>
       writeFlag /\ currentMsgs # <<>> /\ written # <<>> /\ Last(written) = Last(currentMsgs)
  /\ writing # "frame" => currentMsgs = <<>>
  /\ accepted = written \o sendQueue

(* An object that is gone has no handler left that could do anything. *)
ReleasedInv ==
  ~alive =>
    /\ reading = "none" /\ writing = "none" /\ posted = 0 /\ shutdown = "none" /\ ~InLoop
    /\ \A k \in Timers : running[k] = 0 /\ expired[k] = 0

(* Something will end the connection as long as it has not ended: the read of
   an open one, the timer of one that is closing; and the close handler, when
   it has not been called, is still to be called by handle_terminate.      *)
EndInv ==
  /\ state = "open" => reading = "frame" \/ InLoop
  /\ state = "closing" => running["close"] > 0 \/ expired["close"] > 0
  /\ shutdown # "none" => state = "closed"
  /\ shutdown = "failed" => opens = 0
  /\ shutdown = "closed" => opens = 1 /\ closes = 0
  /\ state = "closed" /\ opens = 1 /\ shutdown = "none" => closes = 1

(* A job that has begun to send has a number. *)
SenderInv == \A s \in Senders : sender[s] # "idle" => sends[s] # 0

IInv ==
  /\ TypeOK
  /\ StageInv
  /\ WriteInv
  /\ NothingAfterClose
  /\ NoStuckQueue
  /\ ReleasedInv
  /\ EndInv
  /\ ReportedBeforeRelease
  /\ SenderInv
-----------------------------------------------------------------------------
(* A set of natural numbers that is not empty has a least element. *)
LEMMA MinFacts ==
  ASSUME NEW T, T \subseteq Nat, T # {}
  PROVE  Min(T) \in T /\ \A y \in T : Min(T) <= y
<1>1. PICK x \in T : \A y \in T : ~(<<y, x>> \in OpToRel(<, Nat))
  BY NatLessThanWellFounded, WFMin
<1>2. \A y \in T : ~(y < x)
  BY <1>1 DEF OpToRel
<1>3. \A y \in T : x <= y
  BY <1>2
<1> QED BY <1>3 DEF Min

(* write_frame takes messages up to the first terminal one, that one included. *)
LEMMA TakenFacts ==
  ASSUME TypeOK
  PROVE  /\ Taken \in 0..Len(sendQueue)
         /\ sendQueue # <<>> => Taken >= 1
         /\ \A i \in 1..(Taken - 1) : sendQueue[i] # Close
<1> DEFINE T == {i \in DOMAIN sendQueue : IsTerminal(sendQueue[i])}
<1>1. /\ sendQueue \in Seq(Messages) /\ Len(sendQueue) \in Nat
      /\ DOMAIN sendQueue = 1..Len(sendQueue)
      /\ sendQueue # <<>> => Len(sendQueue) >= 1
  BY DEF TypeOK
<1>2. Taken = IF T = {} THEN Len(sendQueue) ELSE Min(T)
  BY DEF Taken
<1>3. T \subseteq Nat
  BY <1>1
<1>4. \A i \in 1..Len(sendQueue) : i \notin T => sendQueue[i] # Close
  BY <1>1 DEF IsTerminal
<1>5. T \subseteq 1..Len(sendQueue)
  BY <1>1
<1> HIDE DEF T
<1>6. CASE T = {}
  BY <1>1, <1>2, <1>4, <1>6
<1>7. CASE T # {}
  <2>1. Min(T) \in T /\ \A y \in T : Min(T) <= y
    BY <1>3, <1>7, MinFacts
  <2> DEFINE m == Min(T)
  <2>2. m \in 1..Len(sendQueue) /\ Taken = m /\ \A y \in T : m <= y
    BY <1>2, <1>5, <1>7, <2>1
  <2> HIDE DEF m
  <2>3. \A i \in 1..(m - 1) : i \in 1..Len(sendQueue) /\ i \notin T
    BY <1>1, <2>2
  <2> QED BY <1>1, <1>4, <2>2, <2>3
<1> QED BY <1>6, <1>7

(* The messages that are taken, and those that stay. *)
Chunk == SubSeq(sendQueue, 1, Taken)
Rest == SubSeq(sendQueue, Taken + 1, Len(sendQueue))

LEMMA SplitFacts ==
  ASSUME TypeOK
  PROVE  /\ Chunk \in Seq(Messages) /\ Len(Chunk) = Taken
         /\ \A i \in 1..Taken : Chunk[i] = sendQueue[i]
         /\ Rest \in Seq(Messages)
         /\ Chunk \o Rest = sendQueue
<1> DEFINE n == Taken
           q == sendQueue
<1>1. n \in 0..Len(q) /\ q \in Seq(Messages) /\ Len(q) \in Nat
  BY TakenFacts DEF TypeOK
<1> HIDE DEF n, q
<1>2. \A i \in 1..n : q[i] \in Messages
  BY <1>1
<1>3. \A i \in (n + 1)..Len(q) : q[i] \in Messages
  BY <1>1
<1>4. /\ SubSeq(q, 1, n) \in Seq(Messages) /\ Len(SubSeq(q, 1, n)) = n
      /\ \A i \in 1..n : SubSeq(q, 1, n)[i] = q[i]
  BY <1>1, <1>2, SubSeqProperties
<1>5. SubSeq(q, n + 1, Len(q)) \in Seq(Messages)
  BY <1>1, <1>3, SubSeqProperties
<1>6. SubSeq(q, 1, n) \o SubSeq(q, n + 1, Len(q)) = SubSeq(q, 1, Len(q))
  <2>1. 1 \in 1..(Len(q) + 1) /\ n \in (1 - 1)..Len(q) /\ Len(q) \in n..Len(q)
    BY <1>1
  <2> QED BY <1>1, <2>1, ConcatAdjacentSubSeq
<1>7. SubSeq(q, 1, Len(q)) = q
  BY <1>1, SubSeqFull
<1> QED BY <1>4, <1>5, <1>6, <1>7 DEF n, q, Chunk, Rest

(* The frames that come with one read. *)
LEMMA ArrivalFacts ==
  ASSUME TypeOK, NEW arrived \in Arrivals(MaxFrames - frames)
  PROVE  /\ arrived \in Seq(Kinds)
         /\ frames + Len(arrived) \in 0..MaxFrames
<1>1. MaxFrames \in Nat /\ frames \in 0..MaxFrames
  BY MaxFramesAssumption DEF TypeOK
<1>2. PICK k \in 0..(MaxFrames - frames) : arrived \in [1..k -> Kinds]
  BY DEF Arrivals
<1>3. k \in Nat /\ frames + k \in 0..MaxFrames
  BY <1>1
<1>4. arrived \in Seq(Kinds) /\ Len(arrived) = k
  BY <1>2, <1>3, SeqDef
<1> QED BY <1>3, <1>4

(* The frames that are left after the next one. *)
LEMMA NextFrameFacts ==
  ASSUME TypeOK, NEW kind \in Kinds, NextFrame(kind)
  PROVE  /\ InLoop /\ stage = "connection"
         /\ batch' \in Seq(Kinds)
         /\ reading' = IF batch' = <<>> THEN "frame" ELSE "none"
         /\ UNCHANGED <<handshakeVars, writeVars, frames, expired, alive, senderVars, opens>>
<1>1. batch \in Seq(Kinds) /\ batch # <<>> /\ stage = "connection"
  BY DEF TypeOK, NextFrame, InLoop
<1>2. Tail(batch) \in Seq(Kinds) /\ Len(Tail(batch)) = Len(batch) - 1
  BY <1>1, HeadTailProperties
<1>3. Tail(batch) = <<>> <=> Len(Tail(batch)) = 0
  BY <1>2, EmptySeq
<1>4. Len(batch) \in Nat
  BY <1>1
<1> QED BY <1>1, <1>2, <1>3, <1>4 DEF NextFrame

(* write_push puts a message at the end. *)
LEMMA PushFacts ==
  ASSUME TypeOK, NEW m \in Messages, Push(m)
  PROVE  /\ sendQueue' \in Seq(Messages) /\ sendQueue' # <<>>
         /\ accepted' \in Seq(Messages) /\ accepted' = Append(accepted, m)
<1>1. sendQueue \in Seq(Messages) /\ accepted \in Seq(Messages)
  BY DEF TypeOK
<1> QED BY <1>1, AppendProperties DEF Push

(* What was accepted is still what was written, and what waits. *)
LEMMA PushSent ==
  ASSUME TypeOK, NEW m \in Messages, Push(m), NEW w \in Seq(Messages),
         accepted = w \o sendQueue
  PROVE  accepted' = w \o sendQueue'
<1>1. sendQueue \in Seq(Messages) /\ accepted \in Seq(Messages)
  BY DEF TypeOK
<1>2. sendQueue' = Append(sendQueue, m) /\ accepted' = Append(accepted, m)
  BY DEF Push
<1>3. <<m>> \in Seq(Messages)
  OBVIOUS
<1>4. sendQueue' = sendQueue \o <<m>> /\ accepted' = accepted \o <<m>>
  BY <1>1, <1>2, AppendIsConcat
<1> QED BY <1>1, <1>3, <1>4, ConcatAssociative

(* terminate: the connection is closed, its timer is cancelled, and the close
   handler is called now, by the timer of the shutdown, or never.          *)
LEMMA TerminateFacts ==
  ASSUME TypeOK, Terminate
  PROVE  /\ state' = "closed" /\ timer' = "none"
         /\ running' \in [Timers -> Nat] /\ \A k \in Timers : running'[k] <= running[k]
         /\ shutdown' \in {"none", "failed", "closed"}
         /\ closes' \in Nat /\ listed' \in BOOLEAN
         /\ state = "connecting" =>
              /\ UNCHANGED <<closes, listed>>
              /\ shutdown' \in {shutdown, "failed"}
         /\ state \in {"open", "closing"} =>
              \/ closes' = closes + 1 /\ ~listed' /\ UNCHANGED shutdown
              \/ UNCHANGED <<closes, listed>> /\ shutdown' = "closed"
         /\ state = "closed" => UNCHANGED <<shutdown, closes, listed>>
<1> USE DEF TypeOK
<1>1. state' = "closed" /\ timer' = "none"
  BY DEF Terminate, CancelTimer
<1>2. running' \in [Timers -> Nat] /\ \A k \in Timers : running'[k] <= running[k]
  <2>1. CASE timer = "none"
    BY <2>1 DEF Terminate, CancelTimer
  <2>2. CASE timer # "none"
    BY <2>2 DEF Terminate, CancelTimer, Cancelled
  <2> QED BY <2>1, <2>2
<1>3. CASE state = "connecting"
  <2>1. EndStatus = "failed"
    BY <1>3 DEF EndStatus
  <2> QED BY <1>1, <1>2, <1>3, <2>1 DEF Terminate, HandleTerminate
<1>4. CASE state \in {"open", "closing"}
  <2>1. EndStatus = "closed"
    BY <1>4 DEF EndStatus
  <2>2. \/ HandleTerminate("closed") /\ UNCHANGED shutdown
        \/ shutdown' = "closed" /\ UNCHANGED <<closes, listed>>
    BY <2>1 DEF Terminate
  <2>3. HandleTerminate("closed") => closes' = closes + 1 /\ ~listed'
    BY DEF HandleTerminate
  <2>4. listed' \in BOOLEAN
    BY <2>2, <2>3 DEF HandleTerminate
  <2> QED BY <1>1, <1>2, <1>4, <2>2, <2>3, <2>4
<1>5. CASE state = "closed"
  <2>1. EndStatus = "none"
    BY <1>5 DEF EndStatus
  <2> QED BY <1>1, <1>2, <1>5, <2>1 DEF Terminate, HandleTerminate
<1> QED BY <1>3, <1>4, <1>5

(* send_close_frame begins to close, with a timer, and sends like any sender. *)
LEMMA SendCloseFacts ==
  ASSUME TypeOK, SendClose(TRUE) \/ SendClose(FALSE)
  PROVE  /\ state' = "closing" /\ wasClean' \in BOOLEAN /\ timer' = "close"
         /\ running' \in [Timers -> Nat] /\ running'["close"] > 0
         /\ Push(Close)
         /\ posted' \in Nat /\ (writeFlag \/ posted' > 0)
         /\ UNCHANGED <<shutdown, closes>>
<1>1. running' = [running EXCEPT !["close"] = @ + 1] /\ timer' = "close"
  BY DEF SendClose, CloseTimer, SetTimer
<1>2. running' \in [Timers -> Nat] /\ running'["close"] > 0
  BY <1>1 DEF TypeOK, Timers
<1>3. wasClean' \in BOOLEAN
  BY DEF SendClose, TypeOK
<1>4. posted' \in Nat /\ (writeFlag \/ posted' > 0)
  BY DEF SendClose, PushAndDispatch, TypeOK
<1>5. state' = "closing" /\ Push(Close) /\ UNCHANGED <<shutdown, closes>>
  BY DEF SendClose, PushAndDispatch
<1> QED BY <1>1, <1>2, <1>3, <1>4, <1>5

-----------------------------------------------------------------------------
(* The type invariant, by the groups of variables that steps change together. *)
HandshakeTypes ==
  /\ stage \in {"request", "response", "connection"}
  /\ response \in {"none", "switching", "error"}

CleanType == wasClean \in BOOLEAN

QueueTypes == sendQueue \in Seq(Messages) /\ posted \in Nat /\ accepted \in Seq(Messages)

WriteTypes ==
  /\ currentMsgs \in Seq(Messages)
  /\ writeFlag \in BOOLEAN
  /\ writing \in {"none", "response", "frame"}
  /\ written \in Seq(Messages)

ReadTypes ==
  /\ batch \in Seq(Kinds)
  /\ reading \in {"none", "request", "frame"}
  /\ frames \in 0..MaxFrames

EndTypes ==
  /\ state \in {"connecting", "open", "closing", "closed"}
  /\ timer \in Timers \cup {"none"}
  /\ running \in [Timers -> Nat]
  /\ shutdown \in {"none", "failed", "closed"}
  /\ closes \in Nat
  /\ listed \in BOOLEAN

SenderTypes ==
  /\ sender \in [Senders -> {"idle", "copied", "tested", "checked", "admitted", "pushed",
                             "dangling"}]
  /\ sends \in [Senders -> 0..MaxSends]

RestTypes == expired \in [Timers -> Nat] /\ alive \in BOOLEAN /\ received \in Nat /\ opens \in Nat

(* What a step does not change keeps its type. *)
LEMMA TypeKept ==
  ASSUME TypeOK
  PROVE  /\ UNCHANGED handshakeVars => HandshakeTypes'
         /\ UNCHANGED wasClean => CleanType'
         /\ UNCHANGED queueVars => QueueTypes'
         /\ UNCHANGED writeVars => WriteTypes'
         /\ UNCHANGED readVars => ReadTypes'
         /\ UNCHANGED endVars => EndTypes'
         /\ UNCHANGED senderVars => SenderTypes'
         /\ UNCHANGED <<expired, alive, received, opens>> => RestTypes'
<1>1. /\ UNCHANGED handshakeVars => HandshakeTypes'
      /\ UNCHANGED wasClean => CleanType'
      /\ UNCHANGED queueVars => QueueTypes'
  BY DEF TypeOK, handshakeVars, queueVars, HandshakeTypes, CleanType, QueueTypes
<1>2. UNCHANGED writeVars => WriteTypes'
  BY DEF TypeOK, writeVars, WriteTypes
<1>3. UNCHANGED readVars => ReadTypes'
  BY DEF TypeOK, readVars, ReadTypes
<1>4. UNCHANGED endVars => EndTypes'
  BY DEF TypeOK, endVars, EndTypes
<1>5. UNCHANGED senderVars => SenderTypes'
  BY DEF TypeOK, senderVars, SenderTypes
<1>6. UNCHANGED <<expired, alive, received, opens>> => RestTypes'
  BY DEF TypeOK, RestTypes
<1> QED BY <1>1, <1>2, <1>3, <1>4, <1>5, <1>6

(* The groups make up the type invariant. *)
LEMMA NextTypes ==
  ASSUME HandshakeTypes', CleanType', QueueTypes', WriteTypes', ReadTypes', EndTypes',
         SenderTypes', RestTypes'
  PROVE  TypeOK'
BY DEF TypeOK, HandshakeTypes, CleanType, QueueTypes, WriteTypes, ReadTypes, EndTypes,
       SenderTypes, RestTypes

(* The same for what terminate, send_close_frame and the next frame change. *)
LEMMA TerminateTypes ==
  ASSUME TypeOK, Terminate
  PROVE  EndTypes'
BY TerminateFacts DEF EndTypes

LEMMA SendCloseTypes ==
  ASSUME TypeOK, SendClose(TRUE) \/ SendClose(FALSE), listed' \in BOOLEAN
  PROVE  CleanType' /\ QueueTypes' /\ EndTypes'
<1>1. Push(Close) /\ Close \in Messages
  BY DEF SendClose, PushAndDispatch, Messages
<1>2. sendQueue' \in Seq(Messages) /\ accepted' \in Seq(Messages)
  BY <1>1, PushFacts
<1>3. timer' \in Timers \cup {"none"}
  BY SendCloseFacts DEF Timers
<1>4. shutdown' \in {"none", "failed", "closed"} /\ closes' \in Nat
  <2>1. UNCHANGED <<shutdown, closes>>
    BY SendCloseFacts
  <2> QED BY <2>1 DEF TypeOK
<1> QED BY <1>2, <1>3, <1>4, SendCloseFacts DEF CleanType, QueueTypes, EndTypes

LEMMA NextFrameTypes ==
  ASSUME TypeOK, NEW kind \in Kinds, NextFrame(kind)
  PROVE  ReadTypes' /\ HandshakeTypes' /\ WriteTypes' /\ SenderTypes'
<1>1. /\ batch' \in Seq(Kinds) /\ reading' \in {"none", "frame"} /\ UNCHANGED frames
      /\ UNCHANGED <<handshakeVars, writeVars, senderVars>>
  BY NextFrameFacts
<1>2. frames \in 0..MaxFrames
  BY DEF TypeOK
<1> QED BY <1>1, <1>2, TypeKept DEF ReadTypes

-----------------------------------------------------------------------------
(* Type correctness is preserved. *)
LEMMA TypeStep ==
  ASSUME IInv, [Next]_vars
  PROVE  TypeOK'
<1> TypeOK
  BY DEF IInv
<1> Close \in Messages /\ Pong \in Messages
  BY DEF Messages
<1>1. ASSUME NEW answer \in {"switching", "error"},
             NEW leftover \in Arrivals(MaxFrames - frames), HandleRequest(answer, leftover)
      PROVE  TypeOK'
  <2>1. ReadTypes'
    BY <1>1, ArrivalFacts DEF HandleRequest, ReadTypes
  <2>2. HandshakeTypes'
    BY <1>1 DEF HandleRequest, HandshakeTypes
  <2>3. WriteTypes'
    BY <1>1 DEF HandleRequest, WriteTypes, TypeOK
  <2> QED BY <1>1, <2>1, <2>2, <2>3, TypeKept, NextTypes DEF HandleRequest
<1>2. CASE IgnoreRequest \/ IgnoreResponse
  <2>1. ReadTypes' /\ WriteTypes'
    BY <1>2 DEF IgnoreRequest, IgnoreResponse, readVars, writeVars, ReadTypes, WriteTypes, TypeOK
  <2> QED BY <1>2, <2>1, TypeKept, NextTypes DEF IgnoreRequest, IgnoreResponse
<1>3. CASE RequestFails \/ ReadFails
  <2>1. ReadTypes'
    BY <1>3 DEF RequestFails, ReadFails, ReadTypes, TypeOK
  <2>2. EndTypes'
    BY <1>3, TerminateTypes DEF RequestFails, ReadFails
  <2> QED BY <1>3, <2>1, <2>2, TypeKept, NextTypes DEF RequestFails, ReadFails
<1>4. CASE HandleResponse
  <2>1. running' \in [Timers -> Nat] /\ timer' \in Timers \cup {"none"}
    BY <1>4 DEF TypeOK, HandleResponse, CancelTimer, Cancelled
  <2>2. EndTypes'
    BY <1>4, <2>1 DEF HandleResponse, EndTypes, TypeOK
  <2>3. HandshakeTypes' /\ ReadTypes'
    BY <1>4 DEF HandleResponse, HandshakeTypes, ReadTypes, TypeOK
  <2>4. WriteTypes'
    BY <1>4 DEF HandleResponse, WriteTypes, TypeOK
  <2>5. RestTypes'
    BY <1>4 DEF HandleResponse, RestTypes, TypeOK
  <2> QED BY <1>4, <2>2, <2>3, <2>4, <2>5, TypeKept, NextTypes DEF HandleResponse
<1>5. CASE EndAfterResponse
  <2>1. WriteTypes'
    BY <1>5 DEF EndAfterResponse, WriteTypes, TypeOK
  <2>2. EndTypes'
    BY <1>5, TerminateTypes DEF EndAfterResponse
  <2> QED BY <1>5, <2>1, <2>2, TypeKept, NextTypes DEF EndAfterResponse
<1>6. ASSUME NEW arrived \in Arrivals(MaxFrames - frames), HandleRead(arrived)
      PROVE  TypeOK'
  <2>1. ReadTypes'
    BY <1>6, ArrivalFacts DEF HandleRead, ReadTypes
  <2> QED BY <1>6, <2>1, TypeKept, NextTypes DEF HandleRead
<1>7. ASSUME NEW kind \in Kinds, NextFrame(kind), CleanType', QueueTypes', EndTypes',
             received' \in Nat
      PROVE  TypeOK'
  <2>1. UNCHANGED <<expired, alive, opens>>
    BY <1>7 DEF NextFrame
  <2>2. RestTypes'
    BY <1>7, <2>1 DEF RestTypes, TypeOK
  <2> QED BY <1>7, <2>2, NextFrameTypes, NextTypes
<1>8. CASE DataFrame
  <2>1. NextFrame("data") /\ "data" \in Kinds /\ received' \in Nat
    BY <1>8 DEF DataFrame, Kinds, TypeOK
  <2>2. EndTypes'
    BY <1>8 DEF DataFrame, EndTypes, TypeOK
  <2> QED BY <1>7, <1>8, <2>1, <2>2, TypeKept DEF DataFrame
<1>9. CASE RefusedFrame
  <2>1. NextFrame("data") /\ "data" \in Kinds /\ received' \in Nat
    BY <1>9 DEF RefusedFrame, Kinds, TypeOK
  <2>2. SendClose(FALSE) /\ listed' \in BOOLEAN
    BY <1>9 DEF RefusedFrame, TypeOK
  <2> QED BY <1>7, <2>1, <2>2, SendCloseTypes
<1>10. CASE PingFrame
  <2>1. NextFrame("ping") /\ "ping" \in Kinds /\ received' \in Nat
    BY <1>10 DEF PingFrame, Kinds, TypeOK
  <2>2. Push(Pong) /\ posted' \in Nat
    BY <1>10 DEF TypeOK, PingFrame, PushAndDispatch
  <2>3. QueueTypes'
    BY <2>2, PushFacts DEF QueueTypes
  <2> QED BY <1>7, <1>10, <2>1, <2>3, TypeKept DEF PingFrame
<1>11. CASE AcknowledgeClose
  <2>1. PICK kind \in Kinds : NextFrame(kind)
    BY <1>11 DEF AcknowledgeClose, Kinds
  <2>2. SendClose(TRUE) /\ listed' \in BOOLEAN /\ received' \in Nat
    BY <1>11 DEF AcknowledgeClose, TypeOK
  <2> QED BY <1>7, <2>1, <2>2, SendCloseTypes
<1>12. CASE CloseAcknowledged
  <2>1. NextFrame("close") /\ "close" \in Kinds /\ received' \in Nat
    BY <1>12 DEF CloseAcknowledged, Kinds, TypeOK
  <2>2. EndTypes' /\ CleanType'
    BY <1>12, TerminateTypes DEF CloseAcknowledged, CleanType
  <2> QED BY <1>7, <1>12, <2>1, <2>2, TypeKept DEF CloseAcknowledged
<1>13. CASE IgnoreFrame
  <2>1. PICK kind \in Kinds : NextFrame(kind)
    BY <1>13 DEF IgnoreFrame, Kinds
  <2>2. received' \in Nat /\ UNCHANGED <<wasClean, queueVars, endVars>>
    BY <1>13 DEF IgnoreFrame, TypeOK
  <2> QED BY <1>7, <2>1, <2>2, TypeKept
<1>14. CASE MalformedFrame
  <2>1. ReadTypes'
    BY <1>14 DEF MalformedFrame, ReadTypes, TypeOK
  <2>2. CASE SendClose(FALSE) /\ UNCHANGED listed
    <3>1. listed' \in BOOLEAN
      BY <2>2 DEF TypeOK
    <3> QED BY <1>14, <2>1, <2>2, <3>1, SendCloseTypes, TypeKept, NextTypes DEF MalformedFrame
  <2>3. CASE Terminate /\ UNCHANGED <<wasClean, queueVars>>
    BY <1>14, <2>1, <2>3, TerminateTypes, TypeKept, NextTypes DEF MalformedFrame
  <2> QED BY <1>14, <2>2, <2>3 DEF MalformedFrame
<1>15. CASE WriteFrame
  <2>1. posted' \in Nat /\ UNCHANGED accepted
    BY <1>15 DEF WriteFrame, TypeOK
  <2>2. CASE UNCHANGED <<sendQueue, writeVars>>
    <3>1. QueueTypes'
      BY <2>1, <2>2 DEF QueueTypes, TypeOK
    <3> QED BY <1>15, <2>2, <3>1, TypeKept, NextTypes DEF WriteFrame
  <2>3. CASE /\ sendQueue' = Rest
             /\ currentMsgs' = currentMsgs \o Chunk
             /\ writeFlag' = TRUE /\ writing' = "frame"
             /\ written' = written \o currentMsgs'
    <3>1. currentMsgs' \in Seq(Messages) /\ sendQueue' \in Seq(Messages)
      BY <2>3, SplitFacts, ConcatProperties DEF TypeOK
    <3>2. written' \in Seq(Messages)
      BY <2>3, <3>1, ConcatProperties DEF TypeOK
    <3>3. writeFlag' \in BOOLEAN
      BY <2>3
    <3>4. WriteTypes'
      BY <2>3, <3>1, <3>2, <3>3 DEF WriteTypes
    <3>5. QueueTypes'
      BY <2>1, <3>1 DEF QueueTypes, TypeOK
    <3> QED BY <1>15, <3>4, <3>5, TypeKept, NextTypes DEF WriteFrame
  <2> QED BY <1>15, <2>2, <2>3 DEF WriteFrame, Chunk, Rest
<1>16. CASE EndAfterWrite
  <2>1. WriteTypes'
    BY <1>16 DEF EndAfterWrite, WriteTypes, TypeOK
  <2> QED BY <1>16, <2>1, TerminateTypes, TypeKept, NextTypes DEF EndAfterWrite
<1>17. CASE HandleWriteFrame
  <2>1. posted' \in Nat
    BY <1>17 DEF TypeOK, HandleWriteFrame, PostedIfQueued
  <2>2. QueueTypes'
    BY <1>17, <2>1 DEF HandleWriteFrame, QueueTypes, TypeOK
  <2>3. writeFlag' \in BOOLEAN
    BY <1>17 DEF HandleWriteFrame
  <2>4. WriteTypes'
    BY <1>17, <2>3 DEF HandleWriteFrame, WriteTypes, TypeOK
  <2> QED BY <1>17, <2>2, <2>4, TypeKept, NextTypes DEF HandleWriteFrame
<1>18. ASSUME NEW k \in Timers, Expire(k)
       PROVE  TypeOK'
  <2>1. running' \in [Timers -> Nat] /\ expired' \in [Timers -> Nat]
    <3>1. running \in [Timers -> Nat] /\ expired \in [Timers -> Nat] /\ running[k] > 0
      BY <1>18 DEF Expire, TypeOK
    <3>2. /\ running' = [running EXCEPT ![k] = @ - 1]
          /\ expired' = [expired EXCEPT ![k] = @ + 1]
      BY <1>18 DEF Expire
    <3>3. running[k] - 1 \in Nat /\ expired[k] + 1 \in Nat
      BY <3>1
    <3> QED BY <3>1, <3>2, <3>3
  <2>2. EndTypes'
    BY <1>18, <2>1 DEF Expire, EndTypes, TypeOK
  <2>3. RestTypes'
    BY <1>18, <2>1 DEF Expire, RestTypes, TypeOK
  <2> QED BY <1>18, <2>2, <2>3, TypeKept, NextTypes DEF Expire
<1>19. ASSUME NEW k \in Timers, HandshakeTimeout(k)
       PROVE  TypeOK'
  <2>1. RestTypes'
    BY <1>19 DEF HandshakeTimeout, RestTypes, TypeOK
  <2> QED BY <1>19, <2>1, TerminateTypes, TypeKept, NextTypes DEF HandshakeTimeout
<1>20. CASE ShutdownTimeout
  <2>1. listed' \in BOOLEAN /\ closes' \in Nat
    BY <1>20 DEF ShutdownTimeout, HandleTerminate, TypeOK
  <2>2. EndTypes'
    BY <1>20, <2>1 DEF ShutdownTimeout, EndTypes, TypeOK
  <2> QED BY <1>20, <2>2, TypeKept, NextTypes DEF ShutdownTimeout
<1>21. ASSUME NEW s \in Senders, UNCHANGED <<asioVars, alive>>, QueueTypes', SenderTypes'
       PROVE  TypeOK'
  BY <1>21, TypeKept, NextTypes DEF asioVars
<1>22. ASSUME NEW s \in Senders, Copy(s)
       PROVE  TypeOK'
  <2>1. sends' \in [Senders -> 0..MaxSends]
    BY <1>22, MaxSendsAssumption DEF TypeOK, Copy
  <2>2. SenderTypes'
    BY <1>22, <2>1 DEF Copy, Step, SenderTypes, TypeOK
  <2> QED BY <1>21, <1>22, <2>2, TypeKept DEF Copy
<1>23. ASSUME NEW s \in Senders, Job(s)
       PROVE  TypeOK'
  <2>1. sender' \in [Senders -> {"idle", "copied", "tested", "checked", "admitted", "pushed",
                               "dangling"}]
    BY <1>23 DEF TypeOK, Job, TestExpired, GetState, Admit, PushData, Dispatch, Use, Step
  <2>2. UNCHANGED <<asioVars, alive, sends>>
    BY <1>23 DEF Job, TestExpired, GetState, Admit, PushData, Dispatch, Use
  <2>3. SenderTypes'
    BY <2>1, <2>2 DEF SenderTypes, TypeOK
  <2>4. posted' \in Nat
    BY <1>23 DEF TypeOK, Job, TestExpired, GetState, Admit, PushData, Dispatch, queueVars
  <2>5. QueueTypes'
    <3>1. CASE UNCHANGED <<sendQueue, accepted>>
      BY <2>4, <3>1 DEF QueueTypes, TypeOK
    <3>2. CASE PushData(s) /\ Push(<<s, sends[s]>>)
      <4>1. <<s, sends[s]>> \in Messages
        BY <3>2, MaxSendsAssumption DEF TypeOK, IInv, SenderInv, PushData, Use, Step, Messages
      <4> QED BY <2>4, <3>2, <4>1, PushFacts DEF QueueTypes
    <3>3. UNCHANGED <<sendQueue, accepted>> \/ (PushData(s) /\ Push(<<s, sends[s]>>))
      BY <1>23 DEF Job, TestExpired, GetState, Admit, PushData, Dispatch, queueVars
    <3> QED BY <3>1, <3>2, <3>3
  <2> QED BY <1>21, <2>2, <2>3, <2>5
<1>24. CASE Release
  <2>1. RestTypes'
    BY <1>24 DEF Release, asioVars, RestTypes, TypeOK
  <2> QED BY <1>24, <2>1, TypeKept, NextTypes DEF Release, asioVars
<1>25. CASE UNCHANGED vars
  BY <1>25, TypeKept, NextTypes DEF vars
<1>26. CASE Handshake
  BY <1>1, <1>2, <1>3, <1>4, <1>5, <1>26 DEF Handshake, ResponseFails, ErrorWritten
<1>27. CASE Loop
  BY <1>8, <1>9, <1>10, <1>11, <1>12, <1>13, <1>14, <1>27 DEF Loop
<1> QED
  BY <1>3, <1>6, <1>15, <1>16, <1>17, <1>18, <1>19, <1>20, <1>22, <1>23, <1>24, <1>25, <1>26,
     <1>27 DEF Next, WriteFails, TerminalWritten
-----------------------------------------------------------------------------
(* A connection starts so. *)
LEMMA InitIInv == Init => IInv
<1> SUFFICES ASSUME Init PROVE IInv
  OBVIOUS
<1> USE DEF Init
<1>1. TypeOK
  <2>1. wasClean \in BOOLEAN /\ writeFlag \in BOOLEAN /\ alive \in BOOLEAN /\ listed \in BOOLEAN
    OBVIOUS
  <2>2. running \in [Timers -> Nat] /\ expired \in [Timers -> Nat] /\ timer \in Timers
    BY DEF Timers
  <2> QED BY <2>1, <2>2, MaxFramesAssumption, MaxSendsAssumption DEF TypeOK
<1>2. StageInv /\ WriteInv /\ NothingAfterClose /\ NoStuckQueue
  BY DEF StageInv, WriteInv, NothingAfterClose, NoStuckQueue
<1>3. ReleasedInv /\ EndInv /\ ReportedBeforeRelease /\ SenderInv
  BY DEF ReleasedInv, EndInv, ReportedBeforeRelease, SenderInv
<1> QED BY <1>1, <1>2, <1>3 DEF IInv

(* A frame that is dealt with, whatever becomes of the connection. *)
LEMMA LoopFacts ==
  ASSUME TypeOK, StageInv, Loop
  PROVE  /\ InLoop /\ stage = "connection"
         /\ UNCHANGED <<handshakeVars, writeVars, frames, expired, alive, senderVars, opens>>
         /\ state' \in {state, "closing", "closed"}
         /\ reading' \in {reading, "none", "frame"}
<1> USE DEF TypeOK, Kinds
<1>1. CASE DataFrame
  BY <1>1, NextFrameFacts DEF DataFrame
<1>2. CASE RefusedFrame
  BY <1>2, NextFrameFacts DEF RefusedFrame, SendClose
<1>3. CASE PingFrame
  BY <1>3, NextFrameFacts DEF PingFrame, endVars
<1>4. CASE AcknowledgeClose
  BY <1>4, NextFrameFacts DEF AcknowledgeClose, SendClose
<1>5. CASE CloseAcknowledged
  BY <1>5, NextFrameFacts DEF CloseAcknowledged, Terminate
<1>6. CASE IgnoreFrame
  BY <1>6, NextFrameFacts DEF IgnoreFrame, endVars
<1>7. CASE MalformedFrame
  BY <1>7 DEF MalformedFrame, SendClose, Terminate, InLoop
<1> QED BY <1>1, <1>2, <1>3, <1>4, <1>5, <1>6, <1>7 DEF Loop
-----------------------------------------------------------------------------
(* The stages of the opening handshake are preserved. *)
LEMMA StageStep ==
  ASSUME IInv, [Next]_vars
  PROVE  StageInv'
<1> USE DEF StageInv, handshakeVars, queueVars, writeVars, readVars, endVars, senderVars,
            asioVars
<1> TypeOK /\ StageInv
  BY DEF IInv
<1> stage \in {"request", "response", "connection"}
  BY DEF TypeOK
<1>1. ASSUME NEW answer, NEW leftover, HandleRequest(answer, leftover)
      PROVE  StageInv'
  BY <1>1 DEF HandleRequest
<1>2. CASE IgnoreRequest \/ IgnoreResponse
  BY <1>2 DEF IgnoreRequest, IgnoreResponse
<1>3. CASE RequestFails \/ EndAfterResponse
  <2>1. stage # "connection"
    BY <1>3 DEF RequestFails, EndAfterResponse
  <2>2. Terminate
    BY <1>3 DEF RequestFails, EndAfterResponse
  <2>3. state' = "closed" /\ ~listed'
    BY <2>1, <2>2, TerminateFacts
  <2> QED BY <1>3, <2>1, <2>3 DEF RequestFails, EndAfterResponse
<1>4. CASE HandleResponse
  <2>1. stage = "response" /\ stage' = "connection" /\ opens' = 1
    BY <1>4 DEF HandleResponse
  <2> QED BY <1>4, <2>1 DEF HandleResponse
<1>5. ASSUME NEW arrived, HandleRead(arrived)
      PROVE  StageInv'
  BY <1>5 DEF HandleRead
<1>6. CASE ReadFails \/ EndAfterWrite
  <2>1. stage = "connection" /\ state' = "closed"
    BY <1>6 DEF ReadFails, EndAfterWrite, Terminate
  <2> QED BY <1>6, <2>1 DEF ReadFails, EndAfterWrite
<1>7. CASE Loop
  <2>1. /\ stage = "connection" /\ stage' = "connection" /\ opens' = 1
        /\ state' # "connecting" /\ reading' # "request" /\ writing' # "response"
    BY <1>7, LoopFacts
  <2> QED BY <2>1
<1>8. CASE WriteFrame \/ HandleWriteFrame
  <2>1. stage = "connection"
    BY <1>8 DEF WriteFrame, HandleWriteFrame
  <2>2. UNCHANGED <<stage, opens, state, reading>> /\ writing' \in {writing, "frame", "none"}
    BY <1>8 DEF WriteFrame, HandleWriteFrame
  <2> QED BY <2>1, <2>2
<1>9. ASSUME NEW k \in Timers, Expire(k)
      PROVE  StageInv'
  BY <1>9 DEF Expire
<1>10. ASSUME NEW k \in Timers, HandshakeTimeout(k)
       PROVE  StageInv'
  <2>1. Terminate /\ UNCHANGED <<handshakeVars, queueVars, writeVars, readVars, senderVars, opens>>
    BY <1>10 DEF HandshakeTimeout
  <2>2. state' = "closed" /\ (stage # "connection" => ~listed')
    BY <2>1, TerminateFacts
  <2> QED BY <2>1, <2>2
<1>11. CASE ShutdownTimeout
  BY <1>11 DEF ShutdownTimeout, HandleTerminate
<1>12. ASSUME NEW s \in Senders, Copy(s) \/ Job(s)
       PROVE  StageInv'
  <2>1. stage = "connection"
    BY <1>12 DEF Copy, Job, TestExpired, GetState, Admit, PushData, Dispatch, Use, Step
  <2>2. UNCHANGED asioVars
    BY <1>12 DEF Copy, Job, TestExpired, GetState, Admit, PushData, Dispatch, Use
  <2> QED BY <2>1, <2>2
<1>13. CASE Release
  BY <1>13 DEF Release
<1>14. CASE UNCHANGED vars
  BY <1>14 DEF vars
<1>15. CASE Handshake
  BY <1>1, <1>2, <1>3, <1>4, <1>15 DEF Handshake, ResponseFails, ErrorWritten
<1> QED
  BY <1>5, <1>6, <1>7, <1>8, <1>9, <1>10, <1>11, <1>12, <1>13, <1>14, <1>15
  DEF Next, WriteFails, TerminalWritten
-----------------------------------------------------------------------------
(* The loop over the frames sends nothing, or one control frame. *)
LEMMA LoopPushes ==
  ASSUME TypeOK, Loop
  PROVE  \/ UNCHANGED queueVars
         \/ \E m \in {Close, Pong} :
              Push(m) /\ posted' \in Nat /\ (writeFlag \/ posted' > 0)
<1>1. ASSUME NEW m \in {Close, Pong}, PushAndDispatch(m)
      PROVE  Push(m) /\ posted' \in Nat /\ (writeFlag \/ posted' > 0)
  BY <1>1 DEF PushAndDispatch, TypeOK
<1>2. ASSUME NEW ack, SendClose(ack) PROVE PushAndDispatch(Close)
  BY <1>2 DEF SendClose
<1>3. CASE DataFrame \/ CloseAcknowledged \/ IgnoreFrame
  BY <1>3 DEF DataFrame, CloseAcknowledged, IgnoreFrame
<1>4. CASE RefusedFrame \/ AcknowledgeClose
  BY <1>1, <1>2, <1>4 DEF RefusedFrame, AcknowledgeClose
<1>5. CASE PingFrame
  BY <1>1, <1>5 DEF PingFrame
<1>6. CASE MalformedFrame
  BY <1>1, <1>2, <1>6 DEF MalformedFrame
<1> QED BY <1>3, <1>4, <1>5, <1>6 DEF Loop

(* send pushes the job's message, if the object is still there. *)
LEMMA JobPushes ==
  ASSUME TypeOK, SenderInv, NEW s \in Senders, Copy(s) \/ Job(s)
  PROVE  /\ \/ UNCHANGED <<sendQueue, accepted>>
            \/ /\ Push(<<s, sends[s]>>) /\ <<s, sends[s]>> \in Messages
               /\ sender[s] = "admitted" /\ alive
               /\ writeFlag \/ sender'[s] = "pushed"
         /\ UNCHANGED <<asioVars, alive>>
<1>1. UNCHANGED <<asioVars, alive>>
  BY DEF Copy, Job, TestExpired, GetState, Admit, PushData, Dispatch, Use
<1>2. CASE Copy(s) \/ TestExpired(s) \/ GetState(s) \/ Admit(s) \/ Dispatch(s)
  BY <1>1, <1>2 DEF Copy, TestExpired, GetState, Admit, Dispatch, queueVars
<1>3. CASE PushData(s)
  <2>1. <<s, sends[s]>> \in Messages
    BY <1>3, MaxSendsAssumption DEF TypeOK, SenderInv, PushData, Use, Step, Messages
  <2>2. CASE ~alive
    BY <1>1, <1>3, <2>2 DEF PushData
  <2>3. CASE alive
    <3>1. Push(<<s, sends[s]>>) /\ sender[s] = "admitted"
      BY <1>3, <2>3 DEF PushData, Use, Step
    <3>2. writeFlag \/ sender'[s] = "pushed"
      BY <1>3, <2>3 DEF PushData, Use, Step, TypeOK
    <3> QED BY <1>1, <2>1, <2>3, <3>1, <3>2
  <2> QED BY <2>2, <2>3
<1> QED BY <1>2, <1>3 DEF Job

(* A close frame that is not in a sequence, and at most the last of another, is
   at most the last of the two together.                                   *)
LEMMA AtMostLast ==
  ASSUME NEW w \in Seq(Messages), NEW c \in Seq(Messages), c # <<>>,
         \A i \in DOMAIN w : w[i] # Close,
         \A i \in 1..(Len(c) - 1) : c[i] # Close
  PROVE  /\ w \o c \in Seq(Messages) /\ w \o c # <<>> /\ Last(w \o c) = Last(c)
         /\ \A i \in DOMAIN (w \o c) : (w \o c)[i] = Close => i = Len(w \o c)
<1> DEFINE v == w \o c
<1>1. /\ v \in Seq(Messages) /\ Len(v) = Len(w) + Len(c)
      /\ \A i \in 1..(Len(w) + Len(c)) : v[i] = IF i <= Len(w) THEN w[i] ELSE c[i - Len(w)]
  BY ConcatProperties
<1> HIDE DEF v
<1>2. Len(w) \in Nat /\ Len(c) \in Nat /\ Len(c) >= 1
  BY EmptySeq
<1>3. v # <<>>
  <2>1. Len(v) # 0
    BY <1>1, <1>2
  <2> QED BY <1>1, <2>1, EmptySeq
<1>4. v[Len(v)] = c[Len(c)]
  BY <1>1, <1>2
<1>5. ASSUME NEW i \in DOMAIN v, v[i] = Close
      PROVE  i = Len(v)
  <2>1. i \in 1..(Len(w) + Len(c))
    <3>1. DOMAIN v = 1..Len(v)
      BY <1>1, LenProperties
    <3> QED BY <1>1, <3>1
  <2>2. CASE i <= Len(w)
    <3>1. i \in 1..Len(w)
      BY <1>2, <2>1, <2>2
    <3>2. i \in DOMAIN w
      BY <3>1, LenProperties
    <3> QED BY <1>1, <1>5, <2>1, <2>2, <3>2
  <2>3. CASE i > Len(w)
    <3>1. i - Len(w) \in 1..Len(c)
      BY <1>2, <2>1, <2>3
    <3>2. c[i - Len(w)] = Close
      BY <1>1, <1>2, <1>5, <2>1, <2>3
    <3>3. i - Len(w) = Len(c)
      BY <1>2, <3>1, <3>2
    <3> QED BY <1>1, <1>2, <2>1, <3>3
  <2> QED BY <1>2, <2>1, <2>2, <2>3
<1> QED BY <1>1, <1>3, <1>4, <1>5 DEF v, Last

(* What write_frame hands to the transport ends with a close frame or has
   none, and follows what it handed over before.                           *)
LEMMA WriteFrameFacts ==
  ASSUME TypeOK, WriteInv, ~writeFlag, IsSomething
  PROVE  /\ currentMsgs \o Chunk = Chunk /\ Chunk # <<>>
         /\ written \o Chunk # <<>> /\ Last(written \o Chunk) = Last(Chunk)
         /\ \A i \in DOMAIN (written \o Chunk) :
              (written \o Chunk)[i] = Close => i = Len(written \o Chunk)
         /\ accepted = (written \o Chunk) \o Rest
<1>1. currentMsgs = <<>> /\ \A i \in DOMAIN written : written[i] # Close
  BY DEF WriteInv
<1>2. /\ sendQueue \in Seq(Messages) /\ written \in Seq(Messages)
      /\ accepted = written \o sendQueue
  BY DEF TypeOK, WriteInv
<1>3. sendQueue # <<>>
  BY <1>1, <1>2 DEF IsSomething
<1>4. Taken \in 1..Len(sendQueue) /\ \A i \in 1..(Taken - 1) : sendQueue[i] # Close
  BY <1>2, <1>3, TakenFacts
<1>5. /\ Chunk \in Seq(Messages) /\ Len(Chunk) = Taken
      /\ \A i \in 1..Taken : Chunk[i] = sendQueue[i]
      /\ Rest \in Seq(Messages) /\ Chunk \o Rest = sendQueue
  BY SplitFacts
<1>6. Chunk # <<>> /\ Chunk \in Seq(Messages) /\ Rest \in Seq(Messages)
      /\ written \in Seq(Messages)
  BY <1>2, <1>4, <1>5, EmptySeq
<1>7. \A i \in 1..(Len(Chunk) - 1) : Chunk[i] # Close
  BY <1>4, <1>5
<1>8. \A i \in DOMAIN written : written[i] # Close
  BY <1>1
<1>9. /\ written \o Chunk # <<>> /\ Last(written \o Chunk) = Last(Chunk)
      /\ \A i \in DOMAIN (written \o Chunk) :
           (written \o Chunk)[i] = Close => i = Len(written \o Chunk)
  BY <1>6, <1>7, <1>8, AtMostLast
<1>10. (written \o Chunk) \o Rest = written \o (Chunk \o Rest)
  BY <1>6, ConcatAssociative
<1>11. currentMsgs \o Chunk = Chunk
  BY <1>1, <1>5, ConcatEmptySeq
<1> QED BY <1>2, <1>5, <1>6, <1>9, <1>10, <1>11
-----------------------------------------------------------------------------
(* Pushing leaves what is being written alone. *)
LEMMA WriteKept ==
  ASSUME TypeOK, WriteInv, NothingAfterClose, UNCHANGED <<writeFlag, written, currentMsgs>>,
         writing' = "frame" <=> writing = "frame",
         UNCHANGED <<sendQueue, accepted>> \/ \E m \in Messages : Push(m)
  PROVE  WriteInv' /\ NothingAfterClose'
<1>1. accepted' = written \o sendQueue'
  <2>1. CASE UNCHANGED <<sendQueue, accepted>>
    BY <2>1 DEF WriteInv
  <2>2. ASSUME NEW m \in Messages, Push(m)
        PROVE  accepted' = written \o sendQueue'
    <3>1. written \in Seq(Messages) /\ accepted = written \o sendQueue
      BY DEF TypeOK, WriteInv
    <3> QED BY <2>2, <3>1, PushSent
  <2> QED BY <2>1, <2>2
<1>2. /\ (~writeFlag => \A i \in DOMAIN written : written[i] # Close)'
      /\ (writing = "frame" => writeFlag /\ currentMsgs # <<>> /\ written # <<>>
                                /\ Last(written) = Last(currentMsgs))'
      /\ (writing # "frame" => currentMsgs = <<>>)'
  BY DEF WriteInv
<1>3. NothingAfterClose'
  BY DEF NothingAfterClose
<1> QED BY <1>1, <1>2, <1>3 DEF WriteInv

(* What is written is preserved: m_write_flag keeps everybody else from
   writing, and is cleared only when the last message was no close frame.  *)
LEMMA WriteStep ==
  ASSUME IInv, [Next]_vars
  PROVE  WriteInv' /\ NothingAfterClose'
<1> USE DEF handshakeVars, queueVars, writeVars, readVars, endVars, senderVars, asioVars
<1> TypeOK /\ StageInv /\ WriteInv /\ NothingAfterClose /\ SenderInv
  BY DEF IInv
<1> Close \in Messages /\ Pong \in Messages
  BY DEF Messages
<1>1. ASSUME NEW answer, NEW leftover, HandleRequest(answer, leftover)
      PROVE  WriteInv' /\ NothingAfterClose'
  <2>1. writing # "frame"
    BY <1>1 DEF HandleRequest, StageInv, TypeOK
  <2> QED BY <1>1, <2>1, WriteKept DEF HandleRequest
<1>2. CASE IgnoreRequest \/ IgnoreResponse \/ HandleResponse \/ EndAfterResponse
  BY <1>2, WriteKept DEF IgnoreRequest, IgnoreResponse, HandleResponse, EndAfterResponse
<1>3. CASE RequestFails \/ ReadFails
  BY <1>3, WriteKept DEF RequestFails, ReadFails
<1>4. ASSUME NEW arrived, HandleRead(arrived)
      PROVE  WriteInv' /\ NothingAfterClose'
  BY <1>4, WriteKept DEF HandleRead
<1>5. CASE Loop
  BY <1>5, LoopFacts, LoopPushes, WriteKept
<1>6. CASE WriteFrame
  <2>1. CASE UNCHANGED <<sendQueue, writeVars>>
    BY <1>6, <2>1, WriteKept DEF WriteFrame
  <2>2. CASE /\ MayWrite /\ IsSomething
             /\ sendQueue' = SubSeq(sendQueue, Taken + 1, Len(sendQueue))
             /\ currentMsgs' = currentMsgs \o SubSeq(sendQueue, 1, Taken)
             /\ writeFlag' = TRUE
             /\ writing' = "frame"
             /\ written' = written \o currentMsgs'
    <3>1. /\ currentMsgs \o Chunk = Chunk /\ Chunk # <<>>
          /\ written \o Chunk # <<>> /\ Last(written \o Chunk) = Last(Chunk)
          /\ \A i \in DOMAIN (written \o Chunk) :
               (written \o Chunk)[i] = Close => i = Len(written \o Chunk)
          /\ accepted = (written \o Chunk) \o Rest
      BY <2>2, WriteFrameFacts DEF MayWrite
    <3>2. /\ sendQueue' = Rest /\ currentMsgs' = Chunk /\ written' = written \o Chunk
          /\ writing' = "frame" /\ writeFlag'
      BY <2>2, <3>1 DEF Chunk, Rest
    <3>3. UNCHANGED accepted
      BY <1>6 DEF WriteFrame
    <3> QED BY <3>1, <3>2, <3>3 DEF WriteInv, NothingAfterClose
  <2> QED BY <1>6, <2>1, <2>2 DEF WriteFrame
<1>7. CASE EndAfterWrite
  <2>1. /\ writing = "frame" /\ currentMsgs' = <<>> /\ writing' = "none"
        /\ UNCHANGED <<writeFlag, written, sendQueue, accepted>>
    BY <1>7 DEF EndAfterWrite
  <2> QED BY <2>1 DEF WriteInv, NothingAfterClose
<1>8. CASE HandleWriteFrame
  <2>1. /\ writing = "frame" /\ currentMsgs' = <<>> /\ writing' = "none" /\ ~writeFlag'
        /\ UNCHANGED <<written, sendQueue, accepted>>
        /\ Last(currentMsgs) # Close
    BY <1>8 DEF HandleWriteFrame, IsTerminal
  <2>2. written[Len(written)] # Close
    BY <2>1 DEF WriteInv, Last
  <2>3. \A i \in DOMAIN written : written[i] # Close
    BY <2>2 DEF NothingAfterClose
  <2> QED BY <2>1, <2>3 DEF WriteInv, NothingAfterClose
<1>9. ASSUME NEW k \in Timers, Expire(k) \/ HandshakeTimeout(k)
      PROVE  WriteInv' /\ NothingAfterClose'
  BY <1>9, WriteKept DEF Expire, HandshakeTimeout
<1>10. ASSUME NEW s \in Senders, Copy(s) \/ Job(s)
       PROVE  WriteInv' /\ NothingAfterClose'
  BY <1>10, JobPushes, WriteKept
<1>11. CASE Release
  BY <1>11, WriteKept DEF Release
<1>12. CASE UNCHANGED vars
  BY <1>12, WriteKept DEF vars
<1>13. CASE Handshake
  BY <1>1, <1>2, <1>3, <1>13 DEF Handshake, ResponseFails, ErrorWritten
<1>14. CASE ShutdownTimeout
  BY <1>14, WriteKept DEF ShutdownTimeout
<1> QED
  BY <1>3, <1>4, <1>5, <1>6, <1>7, <1>8, <1>9, <1>10, <1>11, <1>12, <1>13, <1>14
  DEF Next, WriteFails, TerminalWritten

-----------------------------------------------------------------------------
(* A queue that is not touched keeps whoever is to serve it. *)
LEMMA QueueKept ==
  ASSUME NoStuckQueue, UNCHANGED <<sendQueue, writeFlag, posted, sender>>, alive' => alive
  PROVE  NoStuckQueue'
BY DEF NoStuckQueue

(* The queue is preserved to be served: who pushes finds a write under way,
   or posts a write_frame, and who ends a write looks into the queue.      *)
LEMMA QueueStep ==
  ASSUME IInv, [Next]_vars
  PROVE  NoStuckQueue'
<1> USE DEF handshakeVars, queueVars, writeVars, readVars, endVars, senderVars, asioVars
<1> TypeOK /\ StageInv /\ NoStuckQueue /\ SenderInv
  BY DEF IInv
<1>1. CASE Handshake
  BY <1>1, QueueKept
  DEF Handshake, HandleRequest, IgnoreRequest, IgnoreResponse, RequestFails, ResponseFails,
      HandleResponse, ErrorWritten, EndAfterResponse
<1>2. CASE ReadFails \/ ShutdownTimeout \/ Release \/ UNCHANGED vars
  BY <1>2, QueueKept DEF ReadFails, ShutdownTimeout, Release, vars
<1>3. ASSUME NEW arrived, HandleRead(arrived)
      PROVE  NoStuckQueue'
  BY <1>3, QueueKept DEF HandleRead
<1>4. ASSUME NEW k \in Timers, Expire(k) \/ HandshakeTimeout(k)
      PROVE  NoStuckQueue'
  BY <1>4, QueueKept DEF Expire, HandshakeTimeout
<1>5. CASE Loop
  <2>1. UNCHANGED <<writeFlag, alive, sender>>
    BY <1>5, LoopFacts
  <2>2. UNCHANGED queueVars \/ (posted' \in Nat /\ (writeFlag \/ posted' > 0))
    BY <1>5, LoopPushes
  <2>3. CASE UNCHANGED queueVars
    BY <2>1, <2>3, QueueKept
  <2>4. CASE writeFlag \/ posted' > 0
    BY <2>1, <2>4 DEF NoStuckQueue
  <2> QED BY <2>2, <2>3, <2>4
<1>6. CASE WriteFrame
  <2>1. CASE writeFlag'
    BY <2>1 DEF NoStuckQueue
  <2>2. CASE ~writeFlag'
    <3>1. ~(MayWrite /\ IsSomething) /\ UNCHANGED <<sendQueue, writeFlag>>
      BY <1>6, <2>2 DEF WriteFrame
    <3>2. currentMsgs \o sendQueue = <<>>
      BY <2>2, <3>1 DEF MayWrite, IsSomething
    <3>3. sendQueue = <<>>
      BY <3>2, ConcatEmptySeq DEF TypeOK
    <3> QED BY <3>1, <3>3 DEF NoStuckQueue
  <2> QED BY <2>1, <2>2
<1>7. CASE EndAfterWrite
  BY <1>7, QueueKept DEF EndAfterWrite
<1>8. CASE HandleWriteFrame
  <2>1. UNCHANGED sendQueue /\ posted' = PostedIfQueued
    BY <1>8 DEF HandleWriteFrame
  <2>2. sendQueue # <<>> => posted' > 0
    BY <2>1 DEF PostedIfQueued, TypeOK
  <2> QED BY <2>1, <2>2 DEF NoStuckQueue
<1>9. ASSUME NEW s \in Senders, Copy(s) \/ Job(s)
      PROVE  NoStuckQueue'
  <2>1. UNCHANGED <<writeFlag, alive>>
    BY <1>9, JobPushes
  <2>2. CASE Copy(s) \/ TestExpired(s) \/ GetState(s) \/ Admit(s)
    <3>1. UNCHANGED <<sendQueue, posted>> /\ sender[s] # "pushed"
      BY <2>2 DEF Copy, TestExpired, GetState, Admit, Use, Step
    <3>2. \A r \in Senders : sender[r] = "pushed" => sender'[r] = "pushed"
      BY <2>2, <3>1 DEF Copy, TestExpired, GetState, Admit, Use, Step, TypeOK
    <3> QED BY <2>1, <3>1, <3>2 DEF NoStuckQueue
  <2>3. CASE PushData(s)
    <3>1. CASE alive /\ ~writeFlag
      <4>1. sender'[s] = "pushed"
        BY <2>3, <3>1 DEF PushData, Use, Step, TypeOK
      <4> QED BY <4>1 DEF NoStuckQueue
    <3>2. CASE ~(alive /\ ~writeFlag)
      BY <2>1, <3>2 DEF NoStuckQueue
    <3> QED BY <3>1, <3>2
  <2>4. CASE Dispatch(s)
    <3>1. alive => posted' > 0
      BY <2>4 DEF Dispatch, TypeOK
    <3> QED BY <2>1, <3>1 DEF NoStuckQueue
  <2> QED BY <1>9, <2>2, <2>3, <2>4 DEF Job
<1> QED
  BY <1>1, <1>2, <1>3, <1>4, <1>5, <1>6, <1>7, <1>8, <1>9
  DEF Next, WriteFails, TerminalWritten

(* That a job has a number is preserved. *)
LEMMA SenderStep ==
  ASSUME IInv, [Next]_vars
  PROVE  SenderInv'
<1> USE DEF handshakeVars, queueVars, writeVars, readVars, endVars, senderVars, asioVars
<1> TypeOK /\ StageInv /\ SenderInv
  BY DEF IInv
<1>1. CASE UNCHANGED senderVars
  BY <1>1 DEF SenderInv
<1>2. ASSUME NEW s \in Senders, Copy(s)
      PROVE  SenderInv'
  <2>1. sends \in [Senders -> 0..MaxSends] /\ MaxSends \in Nat
    BY MaxSendsAssumption DEF TypeOK
  <2>2. sends' = [sends EXCEPT ![s] = @ + 1]
    BY <1>2 DEF Copy
  <2>3. sends'[s] # 0
    BY <2>1, <2>2
  <2>4. \A r \in Senders \ {s} : sends'[r] = sends[r] /\ sender'[r] = sender[r]
    BY <1>2, <2>1, <2>2 DEF Copy, Step, TypeOK
  <2> QED BY <2>3, <2>4 DEF SenderInv
<1>3. ASSUME NEW s \in Senders, Job(s)
      PROVE  SenderInv'
  <2>1. UNCHANGED sends /\ sender[s] # "idle"
    BY <1>3 DEF Job, TestExpired, GetState, Admit, PushData, Dispatch, Use, Step
  <2>2. \A r \in Senders \ {s} : sender'[r] = sender[r]
    BY <1>3 DEF Job, TestExpired, GetState, Admit, PushData, Dispatch, Use, Step, TypeOK
  <2> QED BY <2>1, <2>2 DEF SenderInv
<1>4. CASE Handshake
  BY <1>1, <1>4
  DEF Handshake, HandleRequest, IgnoreRequest, IgnoreResponse, RequestFails, ResponseFails,
      HandleResponse, ErrorWritten, EndAfterResponse
<1>5. CASE Loop
  BY <1>1, <1>5, LoopFacts
<1>6. CASE \/ ReadFails \/ WriteFrame \/ EndAfterWrite \/ HandleWriteFrame
           \/ ShutdownTimeout \/ Release \/ UNCHANGED vars
  BY <1>1, <1>6
  DEF ReadFails, WriteFrame, EndAfterWrite, HandleWriteFrame, ShutdownTimeout, Release, vars
<1>7. ASSUME NEW arrived, HandleRead(arrived)
      PROVE  SenderInv'
  BY <1>1, <1>7 DEF HandleRead
<1>8. ASSUME NEW k \in Timers, Expire(k) \/ HandshakeTimeout(k)
      PROVE  SenderInv'
  BY <1>1, <1>8 DEF Expire, HandshakeTimeout
<1> QED
  BY <1>2, <1>3, <1>4, <1>5, <1>6, <1>7, <1>8 DEF Next, WriteFails, TerminalWritten

-----------------------------------------------------------------------------
(* A handler keeps the object for as long as it is to run. *)
LEMMA HandlerAlive ==
  ASSUME TypeOK, StageInv, ReleasedInv, Timers # {},
         \/ InLoop \/ reading # "none" \/ writing # "none" \/ posted > 0 \/ shutdown # "none"
         \/ \E k \in Timers : running[k] > 0 \/ expired[k] > 0
  PROVE  alive
BY DEF ReleasedInv

(* Once the object is gone, it stays gone and so do its handlers. *)
LEMMA ReleasedStep ==
  ASSUME IInv, [Next]_vars
  PROVE  /\ ReleasedInv'
         /\ UNCHANGED alive \/ Release
         /\ \/ alive
            \/ UNCHANGED vars
            \/ \E s \in Senders : Copy(s) \/ Job(s)
<1> USE DEF handshakeVars, queueVars, writeVars, readVars, endVars, senderVars, asioVars
<1> TypeOK /\ StageInv /\ ReleasedInv
  BY DEF IInv
<1> Timers # {}
  BY DEF Timers
<1>1. ASSUME alive, UNCHANGED alive
      PROVE  ReleasedInv'
  BY <1>1 DEF ReleasedInv
<1>2. CASE Handshake
  <2>1. UNCHANGED alive /\ (reading # "none" \/ writing # "none")
    BY <1>2
    DEF Handshake, HandleRequest, IgnoreRequest, IgnoreResponse, RequestFails, ResponseFails,
        HandleResponse, ErrorWritten, EndAfterResponse
  <2> QED BY <1>1, <2>1, HandlerAlive
<1>3. CASE \/ ReadFails \/ WriteFrame \/ EndAfterWrite \/ HandleWriteFrame \/ ShutdownTimeout
           \/ \E arrived \in Arrivals(MaxFrames - frames) : HandleRead(arrived)
  <2>1. /\ UNCHANGED alive
        /\ reading # "none" \/ writing # "none" \/ posted > 0 \/ shutdown # "none"
    BY <1>3 DEF ReadFails, WriteFrame, EndAfterWrite, HandleWriteFrame, ShutdownTimeout, HandleRead
  <2> QED BY <1>1, <2>1, HandlerAlive
<1>4. CASE Loop
  <2>1. UNCHANGED alive /\ InLoop
    BY <1>4, LoopFacts
  <2> QED BY <1>1, <2>1, HandlerAlive
<1>5. CASE \E k \in Timers : Expire(k) \/ HandshakeTimeout(k)
  <2>1. UNCHANGED alive /\ \E k \in Timers : running[k] > 0 \/ expired[k] > 0
    BY <1>5 DEF Expire, HandshakeTimeout
  <2> QED BY <1>1, <2>1, HandlerAlive
<1>6. ASSUME NEW s \in Senders, Copy(s) \/ Job(s)
      PROVE  UNCHANGED alive /\ ReleasedInv'
  <2>1. UNCHANGED <<asioVars, alive>>
    BY <1>6 DEF Copy, Job, TestExpired, GetState, Admit, PushData, Dispatch, Use
  <2>2. ~alive => UNCHANGED posted
    BY <1>6 DEF Copy, Job, TestExpired, GetState, Admit, PushData, Dispatch, Use
  <2> QED BY <2>1, <2>2 DEF ReleasedInv, InLoop
<1>7. CASE Release
  BY <1>7 DEF Release, ReleasedInv, InLoop
<1>8. CASE UNCHANGED vars
  BY <1>8 DEF vars, ReleasedInv, InLoop
<1> QED
  BY <1>2, <1>3, <1>4, <1>5, <1>6, <1>7, <1>8 DEF Next, WriteFails, TerminalWritten, Release

(* What the end of a connection needs to be known of it. *)
LEMMA EndFacts ==
  ASSUME TypeOK, StageInv, EndInv, ReportedBeforeRelease
  PROVE  /\ state = "connecting" => opens = 0 /\ closes = 0 /\ shutdown = "none"
         /\ state \in {"open", "closing"} =>
              /\ stage = "connection" /\ opens = 1 /\ closes = 0 /\ shutdown = "none"
<1>1. opens \in Nat /\ closes \in Nat /\ closes <= opens
  BY DEF TypeOK, ReportedBeforeRelease
<1>2. state = "connecting" => opens = 0
  BY DEF StageInv
<1>3. state \in {"open", "closing"} => stage = "connection" /\ opens = 1
  BY DEF StageInv
<1>4. state # "closed" => closes # 1 /\ shutdown = "none"
  BY DEF EndInv, ReportedBeforeRelease
<1> QED BY <1>1, <1>2, <1>3, <1>4

(* terminate ends it for good, and sees to the close handler. *)
LEMMA TerminateEnds ==
  ASSUME TypeOK, StageInv, EndInv, ReportedBeforeRelease, alive, Terminate,
         UNCHANGED <<opens, alive>>
  PROVE  EndInv' /\ ReportedBeforeRelease'
<1>1. state' = "closed"
  BY TerminateFacts
<1>2. CASE state = "connecting"
  <2>1. opens = 0 /\ closes = 0 /\ shutdown = "none"
    BY <1>2, EndFacts
  <2>2. closes' = 0 /\ shutdown' \in {"none", "failed"}
    BY <1>2, <2>1, TerminateFacts
  <2> QED BY <1>1, <2>1, <2>2 DEF EndInv, ReportedBeforeRelease
<1>3. CASE state \in {"open", "closing"}
  <2>1. opens = 1 /\ closes = 0 /\ shutdown = "none"
    BY <1>3, EndFacts
  <2>2. \/ closes' = 1 /\ ~listed' /\ shutdown' = "none"
        \/ closes' = 0 /\ shutdown' = "closed"
    BY <1>3, <2>1, TerminateFacts
  <2> QED BY <1>1, <2>1, <2>2 DEF EndInv, ReportedBeforeRelease
<1>4. CASE state = "closed"
  <2>1. UNCHANGED <<shutdown, closes, listed>>
    BY <1>4, TerminateFacts
  <2> QED BY <1>1, <1>4, <2>1 DEF EndInv, ReportedBeforeRelease
<1> QED BY <1>2, <1>3, <1>4 DEF TypeOK

(* A close frame of ours begins the end, with a timer that sees it through. *)
LEMMA SendCloseEnds ==
  ASSUME TypeOK, StageInv, EndInv, ReportedBeforeRelease, alive, state # "closed",
         stage = "connection", SendClose(TRUE) \/ SendClose(FALSE), UNCHANGED <<opens, alive>>
  PROVE  EndInv' /\ ReportedBeforeRelease'
<1>1. opens = 1 /\ closes = 0 /\ shutdown = "none"
  BY EndFacts DEF TypeOK, StageInv
<1>2. state' = "closing" /\ running'["close"] > 0 /\ UNCHANGED <<shutdown, closes>>
  BY SendCloseFacts
<1> QED BY <1>1, <1>2 DEF EndInv, ReportedBeforeRelease

(* What is under way of the end is preserved, and the close handler is called
   once, before the object goes.                                           *)
LEMMA EndStep ==
  ASSUME IInv, [Next]_vars
  PROVE  EndInv' /\ ReportedBeforeRelease'
<1> USE DEF handshakeVars, queueVars, writeVars, readVars, endVars, senderVars, asioVars
<1> TypeOK /\ StageInv /\ EndInv /\ ReportedBeforeRelease /\ ReleasedInv
  BY DEF IInv
<1> DEFINE Ends == EndInv' /\ ReportedBeforeRelease'
<1>1. ASSUME UNCHANGED <<state, reading, stage, batch, running, expired, shutdown, opens, closes,
                         listed, alive>>
      PROVE  Ends
  BY <1>1 DEF EndInv, ReportedBeforeRelease, InLoop
<1>2. ASSUME UNCHANGED <<state, running, expired, shutdown, opens, closes, listed, alive>>,
             state = "open" => reading' = "frame" \/ InLoop'
      PROVE  Ends
  BY <1>2 DEF EndInv, ReportedBeforeRelease
<1>3. ASSUME alive, Terminate, UNCHANGED <<opens, alive>>
      PROVE  Ends
  BY <1>3, TerminateEnds
<1> Timers # {}
  BY DEF Timers
<1>4. CASE Handshake
  <2>1. alive
    <3>1. reading # "none" \/ writing # "none"
      BY <1>4
      DEF Handshake, HandleRequest, IgnoreRequest, IgnoreResponse, RequestFails, ResponseFails,
          HandleResponse, ErrorWritten, EndAfterResponse
    <3> QED BY <3>1, HandlerAlive
  <2>2. CASE RequestFails \/ EndAfterResponse
    BY <1>3, <2>1, <2>2 DEF RequestFails, EndAfterResponse
  <2>3. CASE IgnoreRequest \/ IgnoreResponse
    BY <1>2, <2>3 DEF IgnoreRequest, IgnoreResponse
  <2>4. ASSUME NEW answer, NEW leftover, HandleRequest(answer, leftover)
        PROVE  Ends
    BY <1>2, <2>4 DEF HandleRequest
  <2>5. CASE HandleResponse
    <3>1. /\ state = "connecting" /\ state' = "open" /\ stage' = "connection"
          /\ opens' = opens + 1 /\ UNCHANGED <<closes, shutdown, listed, alive>>
          /\ reading' = "frame" \/ batch' # <<>>
      BY <2>5 DEF HandleResponse
    <3>2. opens' = 1 /\ closes' = 0 /\ shutdown' = "none"
      BY <3>1, EndFacts
    <3> QED BY <2>1, <3>1, <3>2 DEF EndInv, ReportedBeforeRelease, InLoop
  <2> QED BY <1>4, <2>2, <2>3, <2>4, <2>5 DEF Handshake, ResponseFails, ErrorWritten
<1>5. CASE ReadFails \/ EndAfterWrite
  <2>1. alive
    BY <1>5, HandlerAlive DEF ReadFails, EndAfterWrite
  <2> QED BY <1>3, <1>5, <2>1 DEF ReadFails, EndAfterWrite
<1>6. ASSUME NEW arrived, HandleRead(arrived)
      PROVE  Ends
  <2>1. InLoop'
    BY <1>6 DEF HandleRead, InLoop, StageInv
  <2> QED BY <1>2, <1>6, <2>1 DEF HandleRead
<1>7. CASE Loop
  <2>1. /\ InLoop /\ stage = "connection"
        /\ UNCHANGED <<stage, expired, alive, opens>>
    BY <1>7, LoopFacts
  <2>2. alive
    BY <2>1, HandlerAlive
  <2>3. state # "connecting"
    BY <2>1 DEF StageInv
  <2>4. ASSUME NEW kind \in Kinds, NextFrame(kind)
        PROVE  reading' = "frame" \/ InLoop'
    BY <2>1, <2>4, NextFrameFacts DEF InLoop
  <2>5. CASE DataFrame
    <3>1. state = "open" /\ UNCHANGED <<state, running, shutdown, closes>> /\ NextFrame("data")
      BY <2>5 DEF DataFrame
    <3>2. opens = 1 /\ closes = 0 /\ shutdown = "none"
      BY <3>1, EndFacts
    <3>3. reading' = "frame" \/ InLoop'
      BY <2>4, <3>1 DEF Kinds
    <3> QED BY <2>1, <2>2, <3>1, <3>2, <3>3 DEF EndInv, ReportedBeforeRelease
  <2>6. CASE PingFrame \/ IgnoreFrame
    <3>1. UNCHANGED endVars /\ \E kind \in Kinds : NextFrame(kind)
      BY <2>6 DEF PingFrame, IgnoreFrame, Kinds
    <3> QED BY <1>2, <2>1, <2>4, <3>1
  <2>7. CASE RefusedFrame \/ AcknowledgeClose
    <3>1. state # "closed" /\ (SendClose(TRUE) \/ SendClose(FALSE))
      BY <2>7 DEF RefusedFrame, AcknowledgeClose
    <3> QED BY <2>1, <2>2, <3>1, SendCloseEnds
  <2>8. CASE CloseAcknowledged
    BY <1>3, <2>1, <2>2, <2>8 DEF CloseAcknowledged
  <2>9. CASE MalformedFrame
    <3>1. \/ state # "closed" /\ SendClose(FALSE)
          \/ Terminate
      BY <2>9 DEF MalformedFrame
    <3> QED BY <1>3, <2>1, <2>2, <3>1, SendCloseEnds
  <2> QED BY <1>7, <2>5, <2>6, <2>7, <2>8, <2>9 DEF Loop
<1>8. CASE WriteFrame \/ HandleWriteFrame \/ UNCHANGED vars
  BY <1>1, <1>8 DEF WriteFrame, HandleWriteFrame, vars
<1>9. ASSUME NEW k \in Timers, Expire(k)
      PROVE  Ends
  <2>1. /\ running' = [running EXCEPT ![k] = @ - 1]
        /\ expired' = [expired EXCEPT ![k] = @ + 1]
        /\ UNCHANGED <<state, reading, stage, batch, shutdown, opens, closes, listed, alive>>
    BY <1>9 DEF Expire
  <2>2. \/ running'["close"] = running["close"] /\ expired'["close"] = expired["close"]
        \/ expired'["close"] > 0
    BY <2>1 DEF TypeOK, Timers
  <2>3. state = "closing" => running'["close"] > 0 \/ expired'["close"] > 0
    BY <2>2 DEF EndInv
  <2> QED BY <2>1, <2>3 DEF EndInv, ReportedBeforeRelease, InLoop
<1>10. ASSUME NEW k \in Timers, HandshakeTimeout(k)
       PROVE  Ends
  <2>1. alive
    BY <1>10, HandlerAlive DEF HandshakeTimeout
  <2> QED BY <1>3, <1>10, <2>1 DEF HandshakeTimeout
<1>11. CASE ShutdownTimeout
  <2>1. /\ shutdown # "none" /\ shutdown' = "none" /\ HandleTerminate(shutdown)
        /\ UNCHANGED <<state, opens, alive>>
    BY <1>11 DEF ShutdownTimeout
  <2>2. alive /\ state = "closed" /\ closes \in Nat
    BY <2>1, HandlerAlive DEF EndInv, TypeOK
  <2>3. CASE shutdown = "closed"
    <3>1. opens = 1 /\ closes = 0
      BY <2>3 DEF EndInv
    <3>2. HandleTerminate("closed")
      BY <2>1, <2>3
    <3>3. ~listed'
      BY <3>2 DEF HandleTerminate
    <3>4. closes' = 1
      BY <3>1, <3>2 DEF HandleTerminate
    <3> QED BY <2>1, <2>2, <3>1, <3>3, <3>4 DEF EndInv, ReportedBeforeRelease
  <2>4. CASE shutdown = "failed"
    <3>1. opens = 0 /\ closes' = closes /\ listed' = listed
      BY <2>1, <2>4 DEF EndInv, HandleTerminate, TypeOK
    <3> QED BY <2>1, <2>2, <3>1 DEF EndInv, ReportedBeforeRelease
  <2> QED BY <2>1, <2>3, <2>4 DEF TypeOK
<1>12. ASSUME NEW s \in Senders, Copy(s) \/ Job(s)
       PROVE  Ends
  <2>1. UNCHANGED <<asioVars, alive>>
    BY <1>12 DEF Copy, Job, TestExpired, GetState, Admit, PushData, Dispatch, Use
  <2> QED BY <1>1, <2>1
<1>13. CASE Release
  <2>1. /\ reading = "none" /\ shutdown = "none" /\ ~InLoop /\ UNCHANGED asioVars
        /\ \A k \in Timers : running[k] = 0 /\ expired[k] = 0
    BY <1>13 DEF Release
  <2>2. state # "open"
    BY <2>1 DEF EndInv
  <2>3. state # "closing"
    BY <2>1 DEF EndInv, Timers
  <2>4. closes = opens
    <3>1. CASE state = "connecting"
      BY <3>1, EndFacts
    <3>2. CASE state = "closed"
      <4>1. opens = 1 => closes = 1
        BY <2>1, <3>2 DEF EndInv
      <4>2. opens \in {0, 1} /\ closes \in Nat /\ closes <= opens
        BY DEF TypeOK, ReportedBeforeRelease
      <4> QED BY <4>1, <4>2
    <3> QED BY <2>2, <2>3, <3>1, <3>2 DEF TypeOK
  <2> QED BY <2>1, <2>4 DEF EndInv, ReportedBeforeRelease, InLoop
<1> QED
  BY <1>4, <1>5, <1>6, <1>7, <1>8, <1>9, <1>10, <1>11, <1>12, <1>13
  DEF Next, WriteFails, TerminalWritten

(* All of this holds for as long as the connection is there, and after. *)
LEMMA Invariance == Spec => []IInv
<1>1. IInv /\ [Next]_vars => IInv'
  <2> SUFFICES ASSUME IInv, [Next]_vars PROVE IInv'
    OBVIOUS
  <2>1. TypeOK' /\ StageInv'
    BY TypeStep, StageStep
  <2>2. WriteInv' /\ NothingAfterClose' /\ NoStuckQueue' /\ SenderInv'
    BY WriteStep, QueueStep, SenderStep
  <2>3. ReleasedInv' /\ EndInv' /\ ReportedBeforeRelease'
    BY ReleasedStep, EndStep
  <2> QED BY <2>1, <2>2, <2>3 DEF IInv
<1> QED BY <1>1, InitIInv, PTL DEF Spec

-----------------------------------------------------------------------------
(* The variables of a connection keep their types. *)
THEOREM TypeCorrect == Spec => []TypeOK
BY Invariance, PTL DEF IInv

(* No handler of asio takes one of its branches for "invalid state", and
   handle_write_frame finds a message in m_current_msgs.                   *)
THEOREM HandlersFound == Spec => []HandlersExpected
<1>1. IInv => HandlersExpected
  <2> SUFFICES ASSUME IInv PROVE HandlersExpected
    OBVIOUS
  <2>1. /\ stage \in {"request", "response", "connection"}
        /\ state \in {"connecting", "open", "closing", "closed"}
    BY DEF IInv, TypeOK
  <2> QED BY <2>1 DEF IInv, StageInv, WriteInv, HandlersExpected
<1> QED BY <1>1, Invariance, PTL

(* Nothing is handed to the transport after a close frame, whatever the pool
   threads push behind it.                                                 *)
THEOREM CloseIsLast == Spec => []NothingAfterClose
BY Invariance, PTL DEF IInv

(* A message in m_send_queue has somebody who is to write it. *)
THEOREM QueueServed == Spec => []NoStuckQueue
BY Invariance, PTL DEF IInv

(* The close handler is called once for every connection that was reported
   open, before the object is destroyed.                                   *)
THEOREM ClosedOnce == Spec => []ReportedBeforeRelease
BY Invariance, PTL DEF IInv

-----------------------------------------------------------------------------
(* The phase of the session, by what the handlers have been told. *)
PhaseKnown ==
  /\ opens \in {0, 1} /\ closes \in {0, 1}
  /\ opens = 0 <=> stage # "connection"
  /\ Phase = IF opens = 0 THEN "new"
             ELSE IF closes = 1 THEN "gone"
             ELSE IF state = "open" THEN "open" ELSE "closing"

(* It is known by who has been called. *)
LEMMA PhaseFacts == IInv => PhaseKnown
<1> SUFFICES ASSUME IInv PROVE PhaseKnown
  OBVIOUS
<1>1. opens \in {0, 1} /\ closes \in {0, 1}
  BY DEF IInv, TypeOK, ReportedBeforeRelease
<1>2. opens = 0 <=> stage # "connection"
  BY DEF IInv, StageInv
<1> QED BY <1>1, <1>2 DEF Phase, PhaseKnown

(* After a step, too. *)
LEMMA NextPhaseFacts == IInv' => PhaseKnown'
BY PhaseFacts, PTL

(* What has been handed over is a beginning of what was accepted. *)
LEMMA PrefixFacts ==
  ASSUME NEW w \in Seq(Messages), NEW r \in Seq(Messages)
  PROVE  SubSeq(w \o r, 1, Len(w)) = w /\ Len(w) <= Len(w \o r) /\ Len(w) \in Nat
<1> DEFINE v == w \o r
<1>1. /\ v \in Seq(Messages) /\ Len(v) = Len(w) + Len(r)
      /\ \A i \in 1..(Len(w) + Len(r)) : v[i] = IF i <= Len(w) THEN w[i] ELSE r[i - Len(w)]
  BY ConcatProperties
<1>2. Len(w) \in Nat /\ Len(r) \in Nat
  BY LenProperties
<1> HIDE DEF v
<1>3. \A i \in 1..Len(w) : v[i] = w[i] /\ v[i] \in Messages
  <2> SUFFICES ASSUME NEW i \in 1..Len(w) PROVE v[i] = w[i] /\ v[i] \in Messages
    OBVIOUS
  <2>1. v[i] = w[i]
    BY <1>1, <1>2
  <2>2. w[i] \in Messages
    BY ElementOfSeq
  <2> QED BY <2>1, <2>2
<1> DEFINE u == SubSeq(v, 1, Len(w))
<1>4. u \in Seq(Messages) /\ Len(u) = Len(w) /\ \A i \in 1..Len(w) : u[i] = v[i]
  BY <1>2, <1>3, SubSeqProperties
<1> HIDE DEF u
<1>5. u = w
  BY <1>3, <1>4, SeqEqual
<1> QED BY <1>1, <1>2, <1>5 DEF u, v

(* terminate calls the close handler, begins to close what was open, or shows
   nothing.                                                                *)
LEMMA TerminateMaps ==
  ASSUME IInv, IInv', Terminate, UNCHANGED <<opens, received, accepted, written>>
  PROVE  [S!Next]_(S!vars)
<1> USE DEF S!vars, S!Next
<1> TypeOK /\ StageInv /\ EndInv /\ ReportedBeforeRelease
  BY DEF IInv
<1>1. Phase' = IF opens' = 0 THEN "new"
               ELSE IF closes' = 1 THEN "gone"
               ELSE IF state' = "open" THEN "open" ELSE "closing"
  BY NextPhaseFacts DEF PhaseKnown
<1>2. state' = "closed"
  BY TerminateFacts
<1>3. CASE state = "connecting"
  <2>1. opens = 0
    BY <1>3, EndFacts
  <2> QED BY <1>1, <2>1, PhaseFacts DEF PhaseKnown
<1>4. CASE state \in {"open", "closing"}
  <2>1. opens = 1 /\ closes = 0
    BY <1>4, EndFacts
  <2>2. Phase = state
    BY <1>4, <2>1, PhaseFacts DEF PhaseKnown
  <2>3. closes' = 1 \/ closes' = 0
    BY <1>4, <2>1, TerminateFacts
  <2>4. CASE closes' = 1
    <3>1. Phase' = "gone"
      BY <1>1, <2>1, <2>4
    <3> QED BY <1>4, <2>2, <3>1 DEF S!CloseHandler
  <2>5. CASE closes' = 0
    <3>1. Phase' = "closing"
      BY <1>1, <1>2, <2>1, <2>5
    <3> QED BY <1>4, <2>2, <3>1 DEF S!StartClosing, S!AcceptNoneOrOne
  <2> QED BY <2>3, <2>4, <2>5
<1>5. CASE state = "closed"
  <2>1. UNCHANGED closes
    BY <1>5, TerminateFacts
  <2> QED BY <1>1, <1>2, <1>5, <2>1, PhaseFacts DEF PhaseKnown
<1> QED BY <1>3, <1>4, <1>5 DEF TypeOK

(* send_close_frame begins to close what was open; what is closing accepts
   one more close frame.                                                   *)
LEMMA SendCloseMaps ==
  ASSUME IInv, IInv', state \in {"open", "closing"}, SendClose(TRUE) \/ SendClose(FALSE),
         UNCHANGED <<opens, received, written>>
  PROVE  [S!Next]_(S!vars)
<1> USE DEF S!vars, S!Next
<1> TypeOK /\ StageInv /\ EndInv /\ ReportedBeforeRelease
  BY DEF IInv
<1>1. opens = 1 /\ closes = 0 /\ Phase = state
  BY EndFacts, PhaseFacts DEF PhaseKnown
<1>2. state' = "closing" /\ UNCHANGED closes
  BY SendCloseFacts
<1>3. Phase' = "closing"
  <2>1. Phase' = IF opens' = 0 THEN "new"
                 ELSE IF closes' = 1 THEN "gone"
                 ELSE IF state' = "open" THEN "open" ELSE "closing"
    BY NextPhaseFacts DEF PhaseKnown
  <2> QED BY <1>1, <1>2, <2>1
<1>4. Close \in Messages /\ accepted' = Append(accepted, Close)
  BY DEF SendClose, PushAndDispatch, Push, Messages
<1>5. CASE state = "open"
  BY <1>1, <1>3, <1>4, <1>5 DEF S!StartClosing, S!AcceptNoneOrOne
<1>6. CASE state = "closing"
  BY <1>1, <1>3, <1>4, <1>6 DEF S!Accept
<1> QED BY <1>5, <1>6

(* A frame that is dealt with shows itself as a step of the session, or not
   at all.                                                                 *)
LEMMA LoopMaps ==
  ASSUME IInv, IInv', Loop
  PROVE  [S!Next]_(S!vars)
<1> USE DEF S!vars, S!Next, queueVars, writeVars, endVars
<1> TypeOK /\ StageInv /\ EndInv /\ ReportedBeforeRelease
  BY DEF IInv
<1>1. /\ stage = "connection" /\ UNCHANGED <<opens, written>>
      /\ Phase' = IF opens' = 0 THEN "new"
                  ELSE IF closes' = 1 THEN "gone"
                  ELSE IF state' = "open" THEN "open" ELSE "closing"
  BY LoopFacts, NextPhaseFacts DEF PhaseKnown
<1>2. state # "connecting" /\ opens = 1
  BY <1>1 DEF StageInv
<1>3. state = "open" => Phase = "open" /\ closes = 0
  BY EndFacts, PhaseFacts DEF PhaseKnown
<1>4. UNCHANGED <<state, closes>> => UNCHANGED Phase
  BY <1>1, PhaseFacts DEF PhaseKnown
<1>5. CASE DataFrame
  <2>1. Phase = "open" /\ UNCHANGED Phase /\ received' = received + 1 /\ UNCHANGED accepted
    BY <1>3, <1>4, <1>5 DEF DataFrame
  <2> QED BY <1>1, <2>1 DEF S!MessageHandler
<1>6. CASE RefusedFrame
  <2>1. state = "open" /\ SendClose(FALSE) /\ received' = received + 1
    BY <1>6 DEF RefusedFrame
  <2>2. state' = "closing" /\ UNCHANGED closes
    BY <2>1, SendCloseFacts
  <2>3. Phase = "open" /\ Phase' = "closing"
    BY <1>1, <1>2, <1>3, <2>1, <2>2
  <2>4. Close \in Messages /\ accepted' = Append(accepted, Close)
    BY <2>1 DEF SendClose, PushAndDispatch, Push, Messages
  <2> QED BY <1>1, <2>1, <2>3, <2>4 DEF S!MessageClosed, S!AcceptNoneOrOne
<1>7. CASE PingFrame
  <2>1. state = "open" /\ UNCHANGED <<state, closes, received>> /\ PushAndDispatch(Pong)
    BY <1>7 DEF PingFrame
  <2>2. Phase = "open" /\ UNCHANGED Phase
    BY <1>3, <1>4, <2>1
  <2>3. Pong \in Messages /\ accepted' = Append(accepted, Pong)
    BY <2>1 DEF PushAndDispatch, Push, Messages
  <2> QED BY <1>1, <2>1, <2>2, <2>3 DEF S!Accept
<1>8. CASE AcknowledgeClose
  <2>1. state # "closed" /\ SendClose(TRUE) /\ UNCHANGED received
    BY <1>8 DEF AcknowledgeClose
  <2>2. state \in {"open", "closing"}
    BY <1>2, <2>1 DEF TypeOK
  <2> QED BY <1>1, <2>1, <2>2, SendCloseMaps
<1>9. CASE CloseAcknowledged
  BY <1>1, <1>9, TerminateMaps DEF CloseAcknowledged
<1>10. CASE IgnoreFrame
  BY <1>1, <1>4, <1>10 DEF IgnoreFrame
<1>11. CASE MalformedFrame
  <2>1. UNCHANGED received
    BY <1>11 DEF MalformedFrame
  <2>2. \/ state \in {"open", "closing"} /\ SendClose(FALSE)
        \/ Terminate /\ UNCHANGED accepted
    BY <1>11 DEF MalformedFrame
  <2> QED BY <1>1, <2>1, <2>2, SendCloseMaps, TerminateMaps
<1> QED BY <1>5, <1>6, <1>7, <1>8, <1>9, <1>10, <1>11 DEF Loop

(* Writing hands over a longer beginning of what was accepted. *)
LEMMA WriteMaps ==
  ASSUME IInv, IInv', WriteFrame
  PROVE  [S!Next]_(S!vars)
<1> USE DEF S!vars, S!Next, handshakeVars, writeVars, readVars, endVars, senderVars
<1> TypeOK /\ WriteInv
  BY DEF IInv
<1>1. UNCHANGED <<Phase, received, accepted>>
  BY DEF WriteFrame, Phase
<1>2. CASE UNCHANGED written
  BY <1>1, <1>2
<1>3. CASE /\ MayWrite /\ IsSomething
           /\ currentMsgs' = currentMsgs \o SubSeq(sendQueue, 1, Taken)
           /\ written' = written \o currentMsgs'
  <2>1. written' = written \o Chunk
    BY <1>3, WriteFrameFacts DEF MayWrite, Chunk
  <2>2. /\ written \in Seq(Messages) /\ Chunk \in Seq(Messages)
        /\ written' \in Seq(Messages) /\ sendQueue' \in Seq(Messages)
        /\ accepted' = written' \o sendQueue'
    BY SplitFacts DEF IInv, TypeOK, WriteInv
  <2>3. Len(written) <= Len(written')
    BY <2>1, <2>2, PrefixFacts
  <2>4. /\ SubSeq(accepted, 1, Len(written')) = written'
        /\ Len(written') <= Len(accepted)
        /\ Len(written') \in Nat
    BY <1>1, <2>2, PrefixFacts
  <2>5. Len(written) \in Nat /\ Len(accepted) \in Nat
    BY LenProperties DEF TypeOK
  <2>6. Len(written') \in Len(written)..Len(accepted) /\ S!Write(Len(written'))
    BY <1>1, <2>3, <2>4, <2>5 DEF S!Write
  <2> QED BY <2>6
<1> QED BY <1>2, <1>3 DEF WriteFrame

(* The handlers that RelayServer is called by, and the messages that reach the
   transport, are those of a session: open once, then the messages, then close
   once; what was accepted is written in order, each message once.         *)
THEOREM SessionImplemented == Spec => ImplementsSession
<1>1. Init => S!Init
  BY DEF Init, S!Init, Phase
<1>2. IInv /\ IInv' /\ [Next]_vars => [S!Next]_(S!vars)
  <2> SUFFICES ASSUME IInv, IInv', [Next]_vars PROVE [S!Next]_(S!vars)
    OBVIOUS
  <2> USE DEF handshakeVars, queueVars, writeVars, readVars, endVars, senderVars, asioVars
  <2> TypeOK /\ StageInv /\ EndInv /\ ReportedBeforeRelease /\ SenderInv
    BY DEF IInv
  <2>1. ASSUME UNCHANGED <<opens, closes, state, received, accepted, written>>
        PROVE  UNCHANGED S!vars
    BY <2>1 DEF Phase, S!vars
  <2>2. CASE Handshake
    <3>1. CASE RequestFails \/ EndAfterResponse
      BY <3>1, TerminateMaps DEF RequestFails, EndAfterResponse
    <3>2. CASE IgnoreRequest \/ IgnoreResponse
      BY <2>1, <3>2 DEF IgnoreRequest, IgnoreResponse
    <3>3. ASSUME NEW answer, NEW leftover, HandleRequest(answer, leftover)
          PROVE  UNCHANGED S!vars
      BY <2>1, <3>3 DEF HandleRequest
    <3>4. CASE HandleResponse
      <4>1. /\ state = "connecting" /\ state' = "open" /\ opens' = opens + 1
            /\ UNCHANGED <<closes, received, accepted, written>>
        BY <3>4 DEF HandleResponse
      <4>2. opens = 0 /\ closes = 0
        BY <4>1, EndFacts
      <4>3. Phase = "new"
        BY <4>2 DEF Phase
      <4>4. opens' = 1 /\ closes' = 0
        BY <4>1, <4>2
      <4>5. Phase' = "open"
        BY <4>1, <4>4, NextPhaseFacts DEF PhaseKnown
      <4> QED BY <4>1, <4>3, <4>5 DEF S!OpenHandler, S!Next
    <3> QED BY <2>2, <3>1, <3>2, <3>3, <3>4 DEF Handshake, ResponseFails, ErrorWritten
  <2>3. CASE ReadFails \/ EndAfterWrite
    BY <2>3, TerminateMaps DEF ReadFails, EndAfterWrite
  <2>4. CASE Loop
    BY <2>4, LoopMaps
  <2>5. CASE WriteFrame
    BY <2>5, WriteMaps
  <2>6. ASSUME NEW arrived, HandleRead(arrived)
        PROVE  UNCHANGED S!vars
    BY <2>1, <2>6 DEF HandleRead
  <2>7. CASE HandleWriteFrame \/ Release \/ UNCHANGED vars
    BY <2>1, <2>7 DEF HandleWriteFrame, Release, vars
  <2>8. ASSUME NEW k \in Timers, Expire(k) \/ HandshakeTimeout(k)
        PROVE  [S!Next]_(S!vars)
    BY <2>1, <2>8, TerminateMaps DEF Expire, HandshakeTimeout
  <2>9. CASE ShutdownTimeout
    <3>1. /\ shutdown # "none" /\ HandleTerminate(shutdown)
          /\ UNCHANGED <<state, opens, received, accepted, written>>
      BY <2>9 DEF ShutdownTimeout
    <3>2. CASE shutdown = "failed"
      <4>1. UNCHANGED closes
        BY <3>1, <3>2 DEF HandleTerminate
      <4> QED BY <2>1, <3>1, <4>1
    <3>3. CASE shutdown = "closed"
      <4>1. opens = 1 /\ closes = 0 /\ state = "closed"
        BY <3>3 DEF EndInv
      <4>2. closes' = 1
        BY <3>1, <3>3, <4>1 DEF HandleTerminate
      <4>3. Phase = "closing"
        BY <4>1, PhaseFacts DEF PhaseKnown
      <4>4. Phase' = "gone"
        BY <3>1, <4>1, <4>2, NextPhaseFacts DEF PhaseKnown
      <4> QED BY <3>1, <4>3, <4>4 DEF S!CloseHandler, S!Next
    <3> QED BY <3>1, <3>2, <3>3 DEF TypeOK
  <2>10. ASSUME NEW s \in Senders, Copy(s) \/ Job(s)
         PROVE  [S!Next]_(S!vars)
    <3>1. UNCHANGED asioVars
      BY <2>10, JobPushes
    <3>2. CASE UNCHANGED accepted
      BY <2>1, <3>1, <3>2
    <3>3. ASSUME NEW m \in Messages, Push(m), sender[s] = "admitted"
          PROVE  [S!Next]_(S!vars)
      <4>1. stage = "connection"
        BY <3>3 DEF StageInv
      <4>2. opens = 1
        BY <4>1 DEF StageInv
      <4>3. Phase # "new"
        BY <4>2 DEF Phase
      <4>4. UNCHANGED <<Phase, received, written>>
        BY <3>1 DEF Phase
      <4>5. accepted' = Append(accepted, m)
        BY <3>3 DEF Push
      <4> QED BY <4>3, <4>4, <4>5 DEF S!Accept, S!Next
    <3> QED BY <2>10, <3>2, <3>3, JobPushes
  <2> QED
    BY <2>2, <2>3, <2>4, <2>5, <2>6, <2>7, <2>8, <2>9, <2>10
    DEF Next, WriteFails, TerminalWritten
<1> QED BY <1>1, <1>2, Invariance, PTL DEF Spec, ImplementsSession, S!Spec

=============================================================================
