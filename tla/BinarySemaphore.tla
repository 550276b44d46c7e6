-------------------------- MODULE BinarySemaphore --------------------------
(***************************************************************************)
(* What the users of Semaphore take it for: one flag, changed by each call *)
(* at one moment between the call and its return.  RelayThreadPool is      *)
(* written over this flag.                                                 *)
(***************************************************************************)
CONSTANT Threads

VARIABLES
  locked,   \* the flag
  call      \* the call of each thread, or how it has ended

vars == <<locked, call>>

Operations == {"acquire", "try_acquire", "release"}
Outcomes == {"done", "refused"}

Init ==
  /\ locked = FALSE
  /\ call = [t \in Threads |-> "none"]

Become(t, from, to) == call[t] = from /\ call' = [call EXCEPT ![t] = to]

Call(t, op) == Become(t, "none", op) /\ UNCHANGED locked

Acquire(t) == Become(t, "acquire", "done") /\ ~locked /\ locked' = TRUE

TryAcquire(t) == Become(t, "try_acquire", "done") /\ ~locked /\ locked' = TRUE

Refuse(t) == Become(t, "try_acquire", "refused") /\ locked /\ UNCHANGED locked

Release(t) == Become(t, "release", "done") /\ locked' = FALSE

Return(t) ==
  /\ \E o \in Outcomes : Become(t, o, "none")
  /\ UNCHANGED locked

Body(t) == Acquire(t) \/ TryAcquire(t) \/ Refuse(t) \/ Release(t)

Next ==
  \E t \in Threads :
    Body(t) \/ Return(t) \/ \E op \in Operations : Call(t, op)

Spec == Init /\ [][Next]_vars

(* A call ends; acquire need not while the flag is set, or set again and
   again by others, who may all overtake it.                               *)
Fairness == \A t \in Threads : WF_vars(Body(t)) /\ WF_vars(Return(t))

=============================================================================
