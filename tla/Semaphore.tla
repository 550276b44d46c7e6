----------------------------- MODULE Semaphore -----------------------------
(***************************************************************************)
(* Semaphore.h: a flag, a mutex and a condition variable.  A thread that   *)
(* waits gives the mutex back and falls asleep in one step; notify_one     *)
(* wakes one sleeper, which then contends for the mutex with all others; a *)
(* sleeper may also wake for no reason.                                    *)
(***************************************************************************)
EXTENDS Naturals

CONSTANTS
  Threads,   \* the threads that use the semaphore
  NoThread   \* the owner of a free mutex

ASSUME NoThreadAssumption == NoThread \notin Threads

VARIABLES
  locked,   \* m_locked
  mutex,    \* who holds m_mutex
  at,       \* where each thread is in its call
  call      \* which call that is, or its outcome once its body is over

vars == <<locked, mutex, at, call>>

Operations == {"acquire", "try_acquire", "release"}
Outcomes == {"done", "refused"}

(* The mutex belongs to the thread in a body, and there is one at most. *)
TypeOK ==
  /\ locked \in BOOLEAN
  /\ mutex \in Threads \cup {NoThread}
  /\ at \in [Threads -> {"out", "enter", "in", "asleep", "woken"}]
  /\ call \in [Threads -> Operations \cup Outcomes \cup {"none"}]
  /\ \A t \in Threads :
       /\ at[t] = "in" <=> mutex = t
       /\ at[t] = "out" <=> call[t] = "none"
       /\ at[t] = "enter" => call[t] \in Operations
       /\ at[t] \in {"asleep", "woken"} => call[t] = "acquire"

Init ==
  /\ locked = FALSE
  /\ mutex = NoThread
  /\ at = [t \in Threads |-> "out"]
  /\ call = [t \in Threads |-> "none"]

Go(t, from, to) == at[t] = from /\ at' = [at EXCEPT ![t] = to]

Ends(t, outcome) == call' = [call EXCEPT ![t] = outcome]

Call(t, op) ==
  /\ Go(t, "out", "enter")
  /\ call' = [call EXCEPT ![t] = op]
  /\ UNCHANGED <<locked, mutex>>

(* The lock's constructor, or the end of the wait. *)
Lock(t) ==
  /\ mutex = NoThread
  /\ mutex' = t
  /\ Go(t, "enter", "in") \/ Go(t, "woken", "in")
  /\ UNCHANGED <<locked, call>>

InBody(t, op) == at[t] = "in" /\ call[t] = op

KeptByWait(t) == mutex   \* mutant: the mutex is kept while waiting
FreedByWait(t) == NoThread

(* while (m_locked) m_condition.wait(lock) *)
Wait(t) ==
  /\ InBody(t, "acquire")
  /\ locked
  /\ Go(t, "in", "asleep")
  /\ mutex' = FreedByWait(t)
  /\ UNCHANGED <<locked, call>>

MayPassAlways(t) == TRUE   \* mutant: passes without a look at the flag
MayPass(t) == ~locked

Acquire(t) ==
  /\ InBody(t, "acquire")
  /\ MayPass(t)
  /\ locked' = TRUE
  /\ Ends(t, "done")
  /\ UNCHANGED <<mutex, at>>

TryAcquire(t) ==
  /\ InBody(t, "try_acquire")
  /\ locked' = TRUE
  /\ Ends(t, IF locked THEN "refused" ELSE "done")
  /\ UNCHANGED <<mutex, at>>

Sleepers == {t \in Threads : at[t] = "asleep"}

NotifyNone == UNCHANGED at   \* mutant
NotifyOne ==
  \/ Sleepers = {} /\ UNCHANGED at
  \/ \E s \in Sleepers : Go(s, "asleep", "woken")

Release(t) ==
  /\ InBody(t, "release")
  /\ locked' = FALSE
  /\ NotifyOne
  /\ Ends(t, "done")
  /\ UNCHANGED mutex

(* The lock's destructor, and the return. *)
Unlock(t) ==
  /\ at[t] = "in"
  /\ call[t] \in Outcomes
  /\ Go(t, "in", "out")
  /\ mutex' = NoThread
  /\ Ends(t, "none")
  /\ UNCHANGED locked

SpuriousWakeup(t) == Go(t, "asleep", "woken") /\ UNCHANGED <<locked, mutex, call>>

Body(t) == Wait(t) \/ Acquire(t) \/ TryAcquire(t) \/ Release(t) \/ Unlock(t)

Next ==
  \E t \in Threads :
    \/ \E op \in Operations : Call(t, op)
    \/ Lock(t) \/ Body(t) \/ SpuriousWakeup(t)

Spec == Init /\ [][Next]_vars

(* A thread in a body goes on, and one that contends for the mutex again and
   again gets it.  Nobody has to call, and no sleeper wakes by itself.     *)
FairSpec ==
  /\ Spec
  /\ \A t \in Threads : WF_vars(Body(t)) /\ SF_vars(Lock(t))

-----------------------------------------------------------------------------
(* Properties.                                                             *)

(* While the flag is free and threads sleep, one of those that wait has been
   woken: notify_one is never missed, although it wakes one only and others
   may take the flag before that one has the mutex (Semaphore.h:15).       *)
NoLostWakeup ==
  ~locked /\ Sleepers # {} =>
    \E t \in Threads : at[t] = "woken" \/ InBody(t, "acquire")

(* The three bodies are one flag's atomic operations. *)
B == INSTANCE BinarySemaphore

ImplementsFlag == B!Spec

(* A call returns, acquire provided that the flag is free long enough. *)
CallsReturn == B!Fairness

=============================================================================
