-------------------------- MODULE MCRelayDelivery ---------------------------
(* Instances of RelayDelivery for TLC. *)
EXTENDS RelayDelivery

(* One pair of keys per room, with room for every connection. *)
RoomyTable == {[r \in Rooms |-> 3]}

=============================================================================
