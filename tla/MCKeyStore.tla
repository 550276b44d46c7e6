----------------------------- MODULE MCKeyStore -----------------------------
(* Instances of KeyStore for TLC. *)
EXTENDS KeyStore, TLC

(* Threads, keys and the files in the directory are interchangeable where all
   of these have a valid id: no step tells them apart.                     *)
Symmetry == Permutations(Workers) \cup Permutations(Listed) \cup Permutations(Keys)

AllFaults == {"read", "exists", "load", "open", "write", "remove"}

=============================================================================
