------------------------------ MODULE ForkJoin ------------------------------
(***************************************************************************)
(* What a room thread needs of the thread pool: it hands out the jobs of a *)
(* tick, each is executed exactly once, and the tick ends only after the   *)
(* last one has been executed.  The jobs refer to the thread's local       *)
(* vectors (RoomManager.cpp:42 captures them by reference), so a job that  *)
(* outlived its tick would read what is being overwritten.                 *)
(***************************************************************************)
EXTENDS Naturals

CONSTANTS
  Callers,   \* the room threads that share the pool
  MaxJobs    \* bound of the model: jobs (connections) in one tick

VARIABLES
  inTick,    \* whether a caller is between its first job and its last join
  runs       \* how often each job of the caller's tick has been executed

vars == <<inTick, runs>>

Init ==
  /\ inTick = [c \in Callers |-> FALSE]
  /\ runs = [c \in Callers |-> <<>>]

Fork(c, n) ==
  /\ ~inTick[c]
  /\ inTick' = [inTick EXCEPT ![c] = TRUE]
  /\ runs' = [runs EXCEPT ![c] = [k \in 1..n |-> 0]]

Execute(c, k) ==
  /\ inTick[c]
  /\ runs[c][k] = 0
  /\ runs' = [runs EXCEPT ![c] = [@ EXCEPT ![k] = 1]]
  /\ UNCHANGED inTick

Join(c) ==
  /\ inTick[c]
  /\ \A k \in DOMAIN runs[c] : runs[c][k] = 1
  /\ inTick' = [inTick EXCEPT ![c] = FALSE]
  /\ UNCHANGED runs

Next ==
  \E c \in Callers :
    \/ \E n \in 0..MaxJobs : Fork(c, n)
    \/ \E k \in DOMAIN runs[c] : Execute(c, k)
    \/ Join(c)

Spec == Init /\ [][Next]_vars

=============================================================================
