--------------------------- MODULE SemaphoreProof ---------------------------
(* Proofs about Semaphore, for any set of threads. *)
EXTENDS Semaphore, TLAPS

(* Each body runs under the mutex, and a thread that waits has given it back. *)
LEMMA TypeInvariance == TypeOK /\ [Next]_vars => TypeOK'
<1> SUFFICES ASSUME TypeOK, [Next]_vars PROVE TypeOK'
  OBVIOUS
<1> USE NoThreadAssumption DEF TypeOK, Operations, Outcomes
<1>1. ASSUME NEW t \in Threads, NEW op \in Operations, Call(t, op) PROVE TypeOK'
  BY <1>1 DEF Call, Go
<1>2. ASSUME NEW t \in Threads, Lock(t) PROVE TypeOK'
  BY <1>2 DEF Lock, Go
<1>3. ASSUME NEW t \in Threads, Wait(t) PROVE TypeOK'
  BY <1>3 DEF Wait, Go, InBody, FreedByWait
<1>4. ASSUME NEW t \in Threads, Acquire(t) PROVE TypeOK'
  BY <1>4 DEF Acquire, InBody, Ends
<1>5. ASSUME NEW t \in Threads, TryAcquire(t) PROVE TypeOK'
  BY <1>5 DEF TryAcquire, InBody, Ends
<1>6. ASSUME NEW t \in Threads, Release(t) PROVE TypeOK'
  <2>1. CASE UNCHANGED at
    BY <1>6, <2>1 DEF Release, InBody, Ends
  <2>2. ASSUME NEW s \in Sleepers, Go(s, "asleep", "woken") PROVE TypeOK'
    BY <1>6, <2>2 DEF Release, InBody, Ends, Go, Sleepers
  <2> QED BY <1>6, <2>1, <2>2 DEF Release, NotifyOne
<1>7. ASSUME NEW t \in Threads, Unlock(t) PROVE TypeOK'
  BY <1>7 DEF Unlock, Go, Ends
<1>8. ASSUME NEW t \in Threads, SpuriousWakeup(t) PROVE TypeOK'
  BY <1>8 DEF SpuriousWakeup, Go
<1>9. CASE UNCHANGED vars
  BY <1>9 DEF vars
<1> QED BY <1>1, <1>2, <1>3, <1>4, <1>5, <1>6, <1>7, <1>8, <1>9 DEF Next, Body

(* Semaphore.h: at most one thread is in a body, and it holds m_mutex. *)
THEOREM TypeCorrect == Spec => []TypeOK
<1>1. Init => TypeOK
  BY NoThreadAssumption DEF Init, TypeOK, Operations, Outcomes
<1> QED BY <1>1, TypeInvariance, PTL DEF Spec

(* Whoever is woken stays so until it is in the body of acquire, where only
   it can go on, and the body ends with the flag set.                      *)
LEMMA WakeupInvariance == TypeOK /\ NoLostWakeup /\ [Next]_vars => NoLostWakeup'
<1> SUFFICES ASSUME TypeOK, NoLostWakeup, [Next]_vars PROVE NoLostWakeup'
  OBVIOUS
<1> USE DEF TypeOK, NoLostWakeup, Sleepers, InBody
<1>1. ASSUME NEW t \in Threads, NEW op \in Operations, Call(t, op) PROVE NoLostWakeup'
  BY <1>1 DEF Call, Go
<1>2. ASSUME NEW t \in Threads, Lock(t) PROVE NoLostWakeup'
  BY <1>2 DEF Lock, Go
<1>3. ASSUME NEW t \in Threads, Wait(t) PROVE NoLostWakeup'
  BY <1>3 DEF Wait
<1>4. ASSUME NEW t \in Threads, Acquire(t) \/ TryAcquire(t) PROVE NoLostWakeup'
  BY <1>4 DEF Acquire, TryAcquire
<1>5. ASSUME NEW t \in Threads, Release(t) PROVE NoLostWakeup'
  <2>1. CASE Sleepers = {} /\ UNCHANGED at
    BY <2>1
  <2>2. ASSUME NEW s \in Sleepers, Go(s, "asleep", "woken") PROVE NoLostWakeup'
    <3>1. at'[s] = "woken"
      BY <2>2 DEF Go
    <3> QED BY <3>1
  <2> QED BY <1>5, <2>1, <2>2 DEF Release, NotifyOne
<1>6. ASSUME NEW t \in Threads, Unlock(t) PROVE NoLostWakeup'
  BY <1>6 DEF Unlock, Go, Ends, Outcomes
<1>7. ASSUME NEW t \in Threads, SpuriousWakeup(t) PROVE NoLostWakeup'
  BY <1>7 DEF SpuriousWakeup, Go
<1>8. CASE UNCHANGED vars
  BY <1>8 DEF vars
<1> QED BY <1>1, <1>2, <1>3, <1>4, <1>5, <1>6, <1>7, <1>8 DEF Next, Body

(* notify_one under the mutex and the loop of acquire never leave all the
   waiting threads asleep over a free flag (Semaphore.h:12-26).            *)
THEOREM WakeupsKept == Spec => []NoLostWakeup
<1>1. Init => NoLostWakeup
  BY DEF Init, NoLostWakeup, Sleepers
<1> QED BY <1>1, WakeupInvariance, TypeCorrect, PTL DEF Spec

(* The lines of acquire, try_acquire and release, interleaved in any way,
   act like atomic operations on one flag, as RelayThreadPool takes them.  *)
THEOREM FlagImplemented == Spec => ImplementsFlag
<1>1. Init => B!Init
  BY DEF Init, B!Init
<1>2. ASSUME TypeOK, [Next]_vars PROVE [B!Next]_(B!vars)
  <2> USE <1>2 DEF TypeOK, B!vars, B!Next, B!Body, B!Become
  <2>1. ASSUME NEW t \in Threads, NEW op \in Operations, Call(t, op)
        PROVE  B!Call(t, op)
    BY <2>1 DEF Call, Go, B!Call
  <2>2. ASSUME NEW t \in Threads, Lock(t) \/ Wait(t) \/ SpuriousWakeup(t)
        PROVE  UNCHANGED <<locked, call>>
    BY <2>2 DEF Lock, Wait, SpuriousWakeup
  <2>3. ASSUME NEW t \in Threads, Acquire(t) PROVE B!Acquire(t)
    BY <2>3 DEF Acquire, InBody, MayPass, Ends, B!Acquire
  <2>4. ASSUME NEW t \in Threads, TryAcquire(t) PROVE B!TryAcquire(t) \/ B!Refuse(t)
    BY <2>4 DEF TryAcquire, InBody, Ends, B!TryAcquire, B!Refuse
  <2>5. ASSUME NEW t \in Threads, Release(t) PROVE B!Release(t)
    BY <2>5 DEF Release, InBody, Ends, B!Release
  <2>6. ASSUME NEW t \in Threads, Unlock(t) PROVE B!Return(t)
    BY <2>6 DEF Unlock, Ends, Outcomes, B!Return, B!Outcomes
  <2>7. CASE UNCHANGED vars
    BY <2>7 DEF vars
  <2> QED BY <2>1, <2>2, <2>3, <2>4, <2>5, <2>6, <2>7 DEF Next, Body, Operations, B!Operations
<1> QED BY <1>1, <1>2, TypeCorrect, PTL DEF Spec, ImplementsFlag, B!Spec

=============================================================================
