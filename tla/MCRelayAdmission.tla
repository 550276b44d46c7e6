-------------------------- MODULE MCRelayAdmission --------------------------
(* Instances of RelayAdmission for TLC. *)
EXTENDS RelayAdmission

(* Permuting the connections maps behaviours to behaviours: no step tells one
   connection from another.  Used in runs without liveness only.           *)
Symmetry == Permutations(Connections)

(* One pair of keys per room, with room for every connection. *)
RoomyTable == {[r \in Rooms |-> 3]}

(* The pair may disappear and come back, and its limit may change. *)
ChangingTables == [Rooms -> {0, 1, NoPair}]

=============================================================================
