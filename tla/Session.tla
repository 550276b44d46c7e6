------------------------------ MODULE Session ------------------------------
(***************************************************************************)
(* What RelayServer relies on of a websocket connection: its handlers are  *)
(* called in the order open, messages, close, the close handler once, and  *)
(* what send was given reaches the transport in order, each message once.  *)
(* Messages may be accepted that are never written: the connection can end *)
(* at any time.                                                            *)
(***************************************************************************)
EXTENDS Naturals, Sequences

CONSTANT Frames   \* the messages that can be sent

VARIABLES
  phase,      \* what the handlers have been told of the connection
  received,   \* how often the message handler has been called
  accepted,   \* the messages that were accepted for sending
  written     \* those that were handed to the transport

vars == <<phase, received, accepted, written>>

Init ==
  /\ phase = "new"
  /\ received = 0
  /\ accepted = <<>>
  /\ written = <<>>

OpenHandler ==
  /\ phase = "new"
  /\ phase' = "open"
  /\ UNCHANGED <<received, accepted, written>>

MessageHandler ==
  /\ phase = "open"
  /\ received' = received + 1
  /\ UNCHANGED <<phase, accepted, written>>

(* The application may answer a message by closing the connection. *)
MessageClosed ==
  /\ phase = "open"
  /\ phase' = "closing"
  /\ received' = received + 1
  /\ UNCHANGED written

StartClosing ==
  /\ phase = "open"
  /\ phase' = "closing"
  /\ UNCHANGED <<received, written>>

CloseHandler ==
  /\ phase \in {"open", "closing"}
  /\ phase' = "gone"
  /\ UNCHANGED <<received, accepted, written>>

Accept(f) ==
  /\ phase # "new"
  /\ accepted' = Append(accepted, f)
  /\ UNCHANGED <<phase, received, written>>

Write(n) ==
  /\ written' = SubSeq(accepted, 1, n)
  /\ UNCHANGED <<phase, received, accepted>>

(* Closing accepts a close frame, which is sent like any other. *)
AcceptNoneOrOne ==
  UNCHANGED accepted \/ \E f \in Frames : accepted' = Append(accepted, f)

Next ==
  \/ OpenHandler \/ MessageHandler \/ CloseHandler
  \/ (MessageClosed \/ StartClosing) /\ AcceptNoneOrOne
  \/ \E f \in Frames : Accept(f)
  \/ \E n \in Len(written)..Len(accepted) : Write(n)

Spec == Init /\ [][Next]_vars

=============================================================================
