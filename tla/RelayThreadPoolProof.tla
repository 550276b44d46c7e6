------------------------ MODULE RelayThreadPoolProof ------------------------
(***************************************************************************)
(* Proofs about RelayThreadPool, for any room threads, any number of pool  *)
(* threads and any number of jobs.                                         *)
(***************************************************************************)
EXTENDS RelayThreadPool, TLAPS

(* A job has been stored in m_function, and is not over. *)
Busy(t) ==
  \/ worker[t] = "wait" /\ ~runningLock[t] /\ ~exit[t]
  \/ worker[t] \in {"run", "done"}

(* The re-arming of the two locks: m_threadLock is free only in a thread that
   waits for m_runningLock, and for nobody else's release of it.           *)
LockInv ==
  \A t \in Threads :
    /\ ~threadLock[t] => worker[t] = "wait" /\ runningLock[t] /\ t \notin destroyed
    /\ worker[t] = "rearm" => ~runningLock[t]
    /\ worker[t] = "offer" => runningLock[t]
    /\ exit[t] <=> t \in destroyed
    /\ t \in destroyed => worker[t] \in {"wait", "ended"}

(* A thread is busy with a job whose controller is held, alone, and which has
   been executed once m_function has returned.                             *)
JobInv ==
  \A t \in Threads : Busy(t) =>
    /\ function[t] # NoJob
    /\ \A c \in Callers, k \in 1..MaxJobs : function[t] = <<c, k>> =>
         /\ k <= Len(controllers[c]) /\ controllers[c][k]
         /\ runs[c][k] = IF worker[t] = "done" THEN 1 ELSE 0
    /\ \A u \in Threads : Busy(u) /\ function[u] = function[t] => u = t

(* A controller that is not held is that of a job which was executed; a job
   that has no controller yet was not.                                     *)
ControllerInv ==
  \A c \in Callers : \A k \in 1..jobs[c] :
    /\ k <= Len(controllers[c]) /\ ~controllers[c][k] => runs[c][k] = 1
    /\ k > Len(controllers[c]) => runs[c][k] = 0

(* Where a room thread is in its tick. *)
TickInv ==
  \A c \in Callers :
    /\ caller[c] = "run" => Len(controllers[c]) < jobs[c]
    /\ caller[c] \in {"join", "idle"} => Len(controllers[c]) = jobs[c]
    /\ caller[c] \in {"scan", "run"} => joined[c] = 0
    /\ caller[c] = "idle" => joined[c] = jobs[c]
    /\ joined[c] <= Len(controllers[c])
    /\ \A k \in 1..joined[c] : ~controllers[c][k]

IInv ==
  /\ TypeOK
  /\ LockInv
  /\ ThreadOwnedOnce
  /\ JobInv
  /\ ControllerInv
  /\ TickInv

-----------------------------------------------------------------------------
(* m_function is a job, once there was one. *)
LEMMA JobParts ==
  ASSUME TypeOK, NEW t \in Threads, function[t] # NoJob
  PROVE  \E c \in Callers, k \in 1..MaxJobs :
           function[t] = <<c, k>> /\ function[t][1] = c /\ function[t][2] = k
<1>1. function[t] \in Callers \X (1..MaxJobs)
  BY DEF TypeOK, Jobs
<1>2. function[t] = <<function[t][1], function[t][2]>>
      /\ function[t][1] \in Callers /\ function[t][2] \in 1..MaxJobs
  BY <1>1
<1> QED BY <1>2

(* The controllers of a room thread are Booleans, one for each job handed out. *)
LEMMA ControllerFacts ==
  ASSUME TypeOK, NEW c \in Callers
  PROVE  /\ controllers[c] \in Seq(BOOLEAN)
         /\ Len(controllers[c]) \in Nat /\ Len(controllers[c]) <= jobs[c]
         /\ jobs[c] \in 0..MaxJobs /\ joined[c] \in 0..MaxJobs
         /\ scan[c] \in Threads
         /\ runs[c] \in [1..jobs[c] -> Nat]
BY DEF TypeOK

(* A controller is taken before it is stored behind the others. *)
LEMMA HandedOutFacts ==
  ASSUME TypeOK, NEW c \in Callers
  PROVE  /\ HandedOut(c) \in Seq(BOOLEAN)
         /\ Len(HandedOut(c)) = Len(controllers[c]) + 1
         /\ HandedOut(c)[Len(controllers[c]) + 1] = TRUE
         /\ \A k \in 1..Len(controllers[c]) : HandedOut(c)[k] = controllers[c][k]
<1> DEFINE s == controllers[c]
<1>1. s \in Seq(BOOLEAN)
  BY DEF TypeOK
<1> HIDE DEF s
<1>2. Append(s, TRUE) \in Seq(BOOLEAN) /\ Len(Append(s, TRUE)) = Len(s) + 1
  BY <1>1
<1>3. Append(s, TRUE)[Len(s) + 1] = TRUE
  BY <1>1
<1>4. \A k \in 1..Len(s) : Append(s, TRUE)[k] = s[k]
  BY <1>1
<1> QED BY <1>2, <1>3, <1>4 DEF HandedOut, s

(* A busy thread's job. *)
LEMMA BusyJob ==
  ASSUME IInv, NEW t \in Threads, Busy(t)
  PROVE  \E c \in Callers, k \in 1..MaxJobs :
           /\ function[t] = <<c, k>> /\ function[t][1] = c /\ function[t][2] = k
           /\ k \in 1..Len(controllers[c]) /\ k \in 1..jobs[c]
           /\ controllers[c][k] /\ joined[c] < k
           /\ runs[c][k] = IF worker[t] = "done" THEN 1 ELSE 0
<1>1. function[t] # NoJob
  BY DEF IInv, JobInv
<1>2. PICK c \in Callers, k \in 1..MaxJobs :
        function[t] = <<c, k>> /\ function[t][1] = c /\ function[t][2] = k
  BY <1>1, JobParts DEF IInv
<1>3. /\ k <= Len(controllers[c]) /\ controllers[c][k]
      /\ runs[c][k] = IF worker[t] = "done" THEN 1 ELSE 0
  BY <1>2 DEF IInv, JobInv
<1>4. joined[c] \in Nat /\ jobs[c] \in Nat /\ Len(controllers[c]) <= jobs[c]
      /\ Len(controllers[c]) \in Nat
  BY ControllerFacts, MaxJobsAssumption DEF IInv
<1>5. ~(k <= joined[c])
  BY <1>3, <1>4 DEF IInv, TickInv
<1> QED BY <1>2, <1>3, <1>4, <1>5

LEMMA InitIInv == Init => IInv
<1> SUFFICES ASSUME Init PROVE IInv
  OBVIOUS
<1> USE ThreadCountAssumption, MaxJobsAssumption, NoJobAssumption
<1>1. TypeOK
  BY DEF Init, TypeOK, Threads, Jobs
<1>2. LockInv /\ ThreadOwnedOnce
  BY DEF Init, LockInv, ThreadOwnedOnce, Owns
<1>3. JobInv /\ ControllerInv /\ TickInv
  BY DEF Init, JobInv, ControllerInv, TickInv, Busy
<1> QED BY <1>1, <1>2, <1>3 DEF IInv

-----------------------------------------------------------------------------
(* Type correctness is preserved. *)
LEMMA TypeStep ==
  ASSUME IInv, [Next]_vars
  PROVE  TypeOK'
<1> USE ThreadCountAssumption, MaxJobsAssumption DEF lockVars, tickVars
<1> TypeOK
  BY DEF IInv
<1>1. ASSUME NEW t \in Threads, Top(t) \/ Rearm(t) \/ Offer(t) \/ Proceed(t)
      PROVE  TypeOK'
  <2>1. worker' \in [Threads -> {"top", "rearm", "offer", "wait", "run", "done", "ended"}]
    BY <1>1 DEF TypeOK, Top, Rearm, Offer, Proceed, Move
  <2>2. threadLock' \in [Threads -> BOOLEAN] /\ runningLock' \in [Threads -> BOOLEAN]
    BY <1>1 DEF TypeOK, Top, Rearm, Offer, Proceed, Locked, Unlocked
  <2>3. UNCHANGED <<exit, function, tickVars, controllers, runs, destroyed>>
    BY <1>1 DEF Top, Rearm, Offer, Proceed
  <2> QED BY <2>1, <2>2, <2>3 DEF TypeOK
<1>2. ASSUME NEW t \in Threads, Execute(t)
      PROVE  TypeOK'
  <2>1. PICK c \in Callers, k \in 1..MaxJobs :
          function[t][1] = c /\ function[t][2] = k /\ k \in 1..jobs[c]
    BY <1>2, BusyJob DEF Execute, Move, Busy
  <2>2. [runs[c] EXCEPT ![k] = runs[c][k] + 1] \in [1..jobs[c] -> Nat]
    BY <2>1, ControllerFacts
  <2>3. runs' = [runs EXCEPT ![c] = [runs[c] EXCEPT ![k] = runs[c][k] + 1]]
    BY <1>2, <2>1 DEF Execute
  <2>4. DOMAIN runs' = Callers /\ \A d \in Callers : runs'[d] \in [1..jobs[d] -> Nat]
    BY <2>2, <2>3 DEF TypeOK
  <2> QED BY <1>2, <2>4 DEF TypeOK, Execute, Move
<1>3. ASSUME NEW t \in Threads, Done(t)
      PROVE  TypeOK'
  <2>1. PICK c \in Callers, k \in 1..MaxJobs :
          function[t][1] = c /\ function[t][2] = k /\ k \in 1..Len(controllers[c])
    BY <1>3, BusyJob DEF Done, Move, Busy
  <2>2. /\ [controllers[c] EXCEPT ![k] = FALSE] \in Seq(BOOLEAN)
        /\ Len([controllers[c] EXCEPT ![k] = FALSE]) = Len(controllers[c])
    BY <2>1, ControllerFacts
  <2>3. controllers' = [controllers EXCEPT ![c] = [controllers[c] EXCEPT ![k] = FALSE]]
    BY <1>3, <2>1 DEF Done
  <2>4. controllers' \in [Callers -> Seq(BOOLEAN)]
        /\ \A d \in Callers : Len(controllers'[d]) <= jobs[d]
    BY <2>2, <2>3 DEF TypeOK
  <2> QED BY <1>3, <2>4 DEF TypeOK, Done, Move
<1>4. ASSUME NEW c \in Callers, NEW n \in 0..MaxJobs, BeginTick(c, n)
      PROVE  TypeOK'
  BY <1>4 DEF TypeOK, BeginTick, Threads
<1>5. ASSUME NEW c \in Callers, TryLock(c)
      PROVE  TypeOK'
  <2>1. NextThread(scan[c]) \in Threads
    BY ControllerFacts DEF NextThread, Threads
  <2> QED BY <1>5, <2>1 DEF TypeOK, TryLock, Locked
<1>6. ASSUME NEW c \in Callers, Run(c)
      PROVE  TypeOK'
  <2>1. Len(controllers[c]) < jobs[c]
    BY <1>6 DEF IInv, TickInv, Run
  <2>2. HandedOut(c) \in Seq(BOOLEAN) /\ Len(HandedOut(c)) = Len(controllers[c]) + 1
    BY HandedOutFacts
  <2>3. Len(controllers[c]) + 1 \in 1..MaxJobs /\ Len(HandedOut(c)) <= jobs[c]
    BY <2>1, <2>2, ControllerFacts
  <2>4. <<c, Len(controllers[c]) + 1>> \in Jobs
    BY <2>3 DEF Jobs
  <2>5. controllers' \in [Callers -> Seq(BOOLEAN)]
        /\ \A d \in Callers : Len(controllers'[d]) <= jobs[d]
    BY <1>6, <2>2, <2>3 DEF TypeOK, Run
  <2> QED BY <1>6, <2>4, <2>5 DEF TypeOK, Run, Unlocked, Threads
<1>7. ASSUME NEW c \in Callers, BeginJoin(c) \/ JoinNext(c) \/ EndTick(c)
      PROVE  TypeOK'
  <2>1. caller' \in [Callers -> {"idle", "scan", "run", "join"}]
    BY <1>7 DEF TypeOK, BeginJoin, JoinNext, EndTick
  <2>2. joined' \in [Callers -> 0..MaxJobs]
    BY <1>7, ControllerFacts DEF TypeOK, BeginJoin, JoinNext, EndTick
  <2> QED BY <1>7, <2>1, <2>2 DEF TypeOK, BeginJoin, JoinNext, EndTick
<1>8. ASSUME NEW t \in Threads, Destroy(t)
      PROVE  TypeOK'
  BY <1>8 DEF TypeOK, Destroy, Shut, Locked, Unlocked
<1>9. CASE UNCHANGED vars
  BY <1>9 DEF TypeOK, vars
<1> QED BY <1>1, <1>2, <1>3, <1>4, <1>5, <1>6, <1>7, <1>8, <1>9 DEF Next, Worker, Caller
-----------------------------------------------------------------------------
(* The re-arming of a thread's locks is preserved. *)
LEMMA LockStep ==
  ASSUME IInv, [Next]_vars
  PROVE  LockInv'
<1> USE DEF LockInv, lockVars, tickVars
<1> TypeOK /\ LockInv /\ ThreadOwnedOnce
  BY DEF IInv
<1>1. ASSUME NEW t \in Threads, Top(t) \/ Rearm(t) \/ Offer(t)
      PROVE  LockInv'
  BY <1>1 DEF TypeOK, Top, Rearm, Offer, Move, Locked, Unlocked
<1>2. ASSUME NEW t \in Threads, Proceed(t)
      PROVE  LockInv'
  BY <1>2 DEF TypeOK, Proceed, Move, Locked
<1>3. ASSUME NEW t \in Threads, Execute(t) \/ Done(t)
      PROVE  LockInv'
  BY <1>3 DEF TypeOK, Execute, Done, Move
<1>4. ASSUME NEW c \in Callers, TryLock(c)
      PROVE  LockInv'
  <2>1. UNCHANGED <<runningLock, worker, exit, destroyed>>
    BY <1>4 DEF TryLock
  <2>2. threadLock' \in [Threads -> BOOLEAN] /\ \A t \in Threads : threadLock[t] => threadLock'[t]
    <3>1. UNCHANGED threadLock \/ threadLock' = Locked(threadLock, scan[c])
      BY <1>4 DEF TryLock
    <3> QED BY <3>1 DEF TypeOK, Locked
  <2> QED BY <2>1, <2>2
<1>5. ASSUME NEW c \in Callers, Run(c)
      PROVE  LockInv'
  <2>1. scan[c] \in Threads /\ threadLock[scan[c]] /\ worker[scan[c]] = "wait"
    BY <1>5 DEF TypeOK, Run, ThreadOwnedOnce, Owns
  <2> QED BY <1>5, <2>1 DEF TypeOK, Run, Unlocked
<1>6. ASSUME NEW c \in Callers, NEW n \in 0..MaxJobs,
             BeginTick(c, n) \/ BeginJoin(c) \/ JoinNext(c) \/ EndTick(c)
      PROVE  LockInv'
  BY <1>6 DEF BeginTick, BeginJoin, JoinNext, EndTick
<1>7. ASSUME NEW t \in Threads, Destroy(t)
      PROVE  LockInv'
  BY <1>7 DEF TypeOK, Destroy, Shut, Locked, Unlocked
<1>8. CASE UNCHANGED vars
  BY <1>8 DEF vars
<1> QED
  BY <1>1, <1>2, <1>3, <1>4, <1>5, <1>6, <1>7, <1>8, MaxJobsAssumption
  DEF Next, Worker, Caller

(* An owned thread waits for its owner, who is alone: try_acquire finds the
   lock of an owned thread taken, and a thread that waits frees none.      *)
LEMMA OwnerStep ==
  ASSUME IInv, [Next]_vars
  PROVE  ThreadOwnedOnce'
<1> USE DEF ThreadOwnedOnce, Owns, lockVars, tickVars
<1> TypeOK /\ LockInv /\ ThreadOwnedOnce
  BY DEF IInv
<1>1. ASSUME NEW t \in Threads, Worker(t)
      PROVE  ThreadOwnedOnce'
  <2>1. worker[t] # "wait" \/ ~runningLock[t]
    BY <1>1 DEF Worker, Top, Rearm, Offer, Proceed, Execute, Done, Move
  <2>2. /\ UNCHANGED <<caller, scan, destroyed>>
        /\ \A u \in Threads \ {t} :
             /\ worker'[u] = worker[u]
             /\ threadLock'[u] = threadLock[u] /\ runningLock'[u] = runningLock[u]
    BY <1>1 DEF TypeOK, Worker, Top, Rearm, Offer, Proceed, Execute, Done, Move,
                Locked, Unlocked
  <2> QED BY <2>1, <2>2
<1>2. ASSUME NEW c \in Callers, TryLock(c)
      PROVE  ThreadOwnedOnce'
  <2>1. CASE threadLock[scan[c]]
    <3>1. /\ UNCHANGED <<threadLock, runningLock, worker, destroyed, caller>>
          /\ caller[c] = "scan" /\ \A d \in Callers \ {c} : scan'[d] = scan[d]
      BY <1>2, <2>1 DEF TypeOK, TryLock
    <3> QED BY <3>1
  <2>2. CASE ~threadLock[scan[c]]
    <3> DEFINE t == scan[c]
    <3>1. t \in Threads
      BY DEF TypeOK
    <3>2. worker[t] = "wait" /\ runningLock[t] /\ t \notin destroyed
      BY <2>2, <3>1 DEF LockInv
    <3>3. \A d \in Callers : ~Owns(d, t)
      BY <2>2, <3>1
    <3>4. /\ threadLock' = Locked(threadLock, t)
          /\ caller' = [caller EXCEPT ![c] = "run"]
          /\ UNCHANGED <<runningLock, worker, destroyed, scan>>
      BY <1>2, <2>2 DEF TryLock
    <3> QED BY <3>1, <3>2, <3>3, <3>4 DEF TypeOK, Locked
  <2> QED BY <2>1, <2>2
<1>3. ASSUME NEW c \in Callers, Run(c)
      PROVE  ThreadOwnedOnce'
  BY <1>3 DEF TypeOK, Run, Unlocked
<1>4. ASSUME NEW c \in Callers, NEW n \in 0..MaxJobs,
             BeginTick(c, n) \/ BeginJoin(c) \/ JoinNext(c) \/ EndTick(c)
      PROVE  ThreadOwnedOnce'
  <2>1. /\ UNCHANGED <<threadLock, runningLock, worker, destroyed>>
        /\ \A d \in Callers :
             caller'[d] = "run" => caller[d] = "run" /\ scan'[d] = scan[d]
    BY <1>4 DEF TypeOK, BeginTick, BeginJoin, JoinNext, EndTick
  <2> QED BY <2>1
<1>5. ASSUME NEW t \in Threads, Destroy(t)
      PROVE  ThreadOwnedOnce'
  BY <1>5 DEF TypeOK, Destroy
<1>6. CASE UNCHANGED vars
  BY <1>6 DEF vars
<1> QED
  BY <1>1, <1>2, <1>3, <1>4, <1>5, <1>6, MaxJobsAssumption DEF Next, Caller
-----------------------------------------------------------------------------
(* A job that goes on keeps its controller and its count. *)
LEMMA BusyKept ==
  ASSUME JobInv, UNCHANGED <<function, controllers, runs>>,
         \A t \in Threads : Busy(t)' =>
           Busy(t) /\ (worker'[t] = "done" <=> worker[t] = "done")
  PROVE  JobInv'
BY DEF JobInv

(* The jobs in progress are preserved: a new one gets a controller of its own,
   one that is over gives its controller back, and no tick begins before the
   caller's jobs are over.                                                 *)
LEMMA JobStep ==
  ASSUME IInv, [Next]_vars
  PROVE  JobInv'
<1> USE DEF lockVars, tickVars
<1> TypeOK /\ LockInv /\ JobInv
  BY DEF IInv
<1>1. ASSUME NEW t \in Threads, Top(t) \/ Rearm(t) \/ Offer(t) \/ Proceed(t)
      PROVE  JobInv'
  <2>1. UNCHANGED <<function, controllers, runs, exit>>
    BY <1>1 DEF Top, Rearm, Offer, Proceed
  <2>2. ASSUME NEW u \in Threads, Busy(u)'
        PROVE  Busy(u) /\ (worker'[u] = "done" <=> worker[u] = "done")
    BY <1>1, <2>2
    DEF TypeOK, LockInv, Busy, Top, Rearm, Offer, Proceed, Move, Locked, Unlocked
  <2> QED BY <2>1, <2>2, BusyKept
<1>2. ASSUME NEW t \in Threads, Execute(t)
      PROVE  JobInv'
  <2>1. PICK c \in Callers, k \in 1..MaxJobs :
          /\ function[t] = <<c, k>> /\ function[t][1] = c /\ function[t][2] = k
          /\ k \in 1..jobs[c] /\ runs[c][k] = 0
    BY <1>2, BusyJob DEF Execute, Move, Busy
  <2>2. /\ UNCHANGED <<function, controllers>>
        /\ \A u \in Threads : Busy(u)' <=> Busy(u)
        /\ worker'[t] = "done" /\ \A u \in Threads \ {t} : worker'[u] = worker[u]
        /\ runs' = [runs EXCEPT ![c] = [runs[c] EXCEPT ![k] = runs[c][k] + 1]]
    BY <1>2, <2>1 DEF TypeOK, Execute, Move, Busy
  <2>3. /\ runs'[c][k] = 1
        /\ \A d \in Callers, j \in 1..MaxJobs : <<d, j>> # <<c, k>> => runs'[d][j] = runs[d][j]
    BY <2>1, <2>2 DEF TypeOK
  <2> QED BY <1>2, <2>1, <2>2, <2>3 DEF JobInv, Busy, Execute, Move
<1>3. ASSUME NEW t \in Threads, Done(t)
      PROVE  JobInv'
  <2>1. PICK c \in Callers, k \in 1..MaxJobs :
          /\ function[t] = <<c, k>> /\ function[t][1] = c /\ function[t][2] = k
          /\ k \in 1..Len(controllers[c])
    BY <1>3, BusyJob DEF Done, Move, Busy
  <2>2. /\ UNCHANGED <<function, runs>>
        /\ ~Busy(t)' /\ Busy(t)
        /\ \A u \in Threads \ {t} : (Busy(u)' <=> Busy(u)) /\ worker'[u] = worker[u]
    BY <1>3 DEF TypeOK, Done, Move, Busy
  <2>3. controllers' = [controllers EXCEPT ![c] = [controllers[c] EXCEPT ![k] = FALSE]]
    BY <1>3, <2>1 DEF Done
  <2>4. \A d \in Callers : Len(controllers'[d]) = Len(controllers[d])
    BY <2>1, <2>3, ControllerFacts DEF TypeOK
  <2>5. ASSUME NEW d \in Callers, NEW j \in 1..Len(controllers[d]), <<d, j>> # <<c, k>>
        PROVE  controllers'[d][j] = controllers[d][j]
    <3>1. CASE d = c
      <4>1. controllers'[d] = [controllers[c] EXCEPT ![k] = FALSE]
        BY <2>3, <3>1 DEF TypeOK
      <4> QED BY <2>5, <3>1, <4>1, ControllerFacts
    <3>2. CASE d # c
      BY <2>3, <3>2 DEF TypeOK
    <3> QED BY <3>1, <3>2
  <2>6. ASSUME NEW u \in Threads, Busy(u)'
        PROVE  /\ function'[u] # NoJob
               /\ \A d \in Callers, j \in 1..MaxJobs : function'[u] = <<d, j>> =>
                    /\ j <= Len(controllers'[d]) /\ controllers'[d][j]
                    /\ runs'[d][j] = IF worker'[u] = "done" THEN 1 ELSE 0
               /\ \A v \in Threads : Busy(v)' /\ function'[v] = function'[u] => v = u
    <3>1. /\ u # t /\ Busy(u) /\ function'[u] = function[u] /\ worker'[u] = worker[u]
          /\ function[u] # <<c, k>>
      BY <2>1, <2>2, <2>6 DEF JobInv
    <3>2. ASSUME NEW d \in Callers, NEW j \in 1..MaxJobs, function[u] = <<d, j>>
          PROVE  /\ j <= Len(controllers'[d]) /\ controllers'[d][j]
                 /\ runs'[d][j] = IF worker[u] = "done" THEN 1 ELSE 0
      <4>1. /\ j <= Len(controllers[d]) /\ controllers[d][j]
            /\ runs[d][j] = IF worker[u] = "done" THEN 1 ELSE 0
        BY <3>1, <3>2 DEF JobInv
      <4>2. j \in 1..Len(controllers[d])
        BY <4>1, ControllerFacts, MaxJobsAssumption
      <4> QED BY <2>2, <2>4, <2>5, <3>1, <3>2, <4>1, <4>2
    <3>3. \A v \in Threads : Busy(v)' /\ function'[v] = function'[u] => v = u
      BY <2>2, <3>1 DEF JobInv
    <3> QED BY <3>1, <3>2, <3>3 DEF JobInv
  <2> QED BY <2>6 DEF JobInv
<1>4. ASSUME NEW c \in Callers, NEW n \in 0..MaxJobs, BeginTick(c, n)
      PROVE  JobInv'
  <2>1. ASSUME NEW t \in Threads, Busy(t)
        PROVE  \A k \in 1..MaxJobs : function[t] # <<c, k>>
    <3>1. joined[c] = Len(controllers[c])
      BY <1>4 DEF IInv, TickInv, BeginTick
    <3> QED BY <2>1, <3>1, BusyJob, ControllerFacts
  <2>2. /\ UNCHANGED <<function, worker>>
        /\ \A t \in Threads : Busy(t)' <=> Busy(t)
        /\ \A d \in Callers \ {c} : runs'[d] = runs[d] /\ controllers'[d] = controllers[d]
    BY <1>4 DEF TypeOK, BeginTick, Busy
  <2> QED BY <2>1, <2>2 DEF JobInv
<1>5. ASSUME NEW c \in Callers, TryLock(c) \/ BeginJoin(c) \/ JoinNext(c) \/ EndTick(c)
      PROVE  JobInv'
  <2>1. UNCHANGED <<function, controllers, runs, worker, runningLock, exit>>
    BY <1>5 DEF TryLock, BeginJoin, JoinNext, EndTick
  <2> QED BY <2>1, BusyKept DEF Busy
<1>6. ASSUME NEW c \in Callers, Run(c)
      PROVE  JobInv'
  <2> DEFINE t == scan[c]
             k == Len(controllers[c]) + 1
  <2>1. t \in Threads /\ worker[t] = "wait" /\ runningLock[t] /\ ~exit[t]
    <3>1. t \in Threads /\ Owns(c, t)
      BY <1>6 DEF TypeOK, Owns, Run
    <3>2. worker[t] = "wait" /\ runningLock[t] /\ t \notin destroyed
      BY <3>1 DEF IInv, ThreadOwnedOnce
    <3> QED BY <3>1, <3>2 DEF LockInv
  <2>2. k \in 1..jobs[c] /\ k \in 1..MaxJobs /\ runs[c][k] = 0
    <3>1. Len(controllers[c]) < jobs[c]
      BY <1>6 DEF IInv, TickInv, Run
    <3>2. k \in 1..jobs[c] /\ k > Len(controllers[c]) /\ k \in 1..MaxJobs
      BY <3>1, ControllerFacts, MaxJobsAssumption
    <3> QED BY <3>2 DEF IInv, ControllerInv
  <2> HIDE DEF k
  <2>3. Len(HandedOut(c)) = k /\ HandedOut(c)[k] = TRUE
        /\ \A j \in 1..Len(controllers[c]) : HandedOut(c)[j] = controllers[c][j]
    BY HandedOutFacts DEF k
  <2>4. /\ UNCHANGED <<worker, runs, exit>>
        /\ function'[t] = <<c, k>> /\ \A u \in Threads \ {t} : function'[u] = function[u]
        /\ \A u \in Threads \ {t} : runningLock'[u] = runningLock[u]
        /\ controllers'[c] = HandedOut(c)
        /\ \A d \in Callers \ {c} : controllers'[d] = controllers[d]
    BY <1>6, <2>1 DEF TypeOK, Run, Unlocked, k
  <2>5. ASSUME NEW u \in Threads, u # t
        PROVE  /\ Busy(u)' <=> Busy(u)
               /\ Busy(u) => function[u] # <<c, k>>
    <3>1. Busy(u)' <=> Busy(u)
      BY <2>4, <2>5 DEF Busy
    <3>2. ASSUME Busy(u), function[u] = <<c, k>> PROVE FALSE
      BY <2>2, <3>2, ControllerFacts DEF JobInv, k
    <3> QED BY <3>1, <3>2
  <2>6. <<c, k>> # NoJob
    BY <2>2, NoJobAssumption
  <2>7. ASSUME NEW u \in Threads, u # t, Busy(u)'
        PROVE  /\ function'[u] # NoJob
               /\ \A d \in Callers, j \in 1..MaxJobs : function'[u] = <<d, j>> =>
                    /\ j <= Len(controllers'[d]) /\ controllers'[d][j]
                    /\ runs'[d][j] = IF worker'[u] = "done" THEN 1 ELSE 0
               /\ \A v \in Threads : Busy(v)' /\ function'[v] = function'[u] => v = u
    <3>1. Busy(u) /\ function'[u] = function[u] /\ function[u] # <<c, k>>
      BY <2>4, <2>5, <2>7
    <3>2. ASSUME NEW d \in Callers, NEW j \in 1..MaxJobs, function'[u] = <<d, j>>
          PROVE  /\ j <= Len(controllers'[d]) /\ controllers'[d][j]
                 /\ runs'[d][j] = IF worker'[u] = "done" THEN 1 ELSE 0
      <4>1. /\ j <= Len(controllers[d]) /\ controllers[d][j]
            /\ runs[d][j] = IF worker[u] = "done" THEN 1 ELSE 0
        <5>1. function[u] = <<d, j>>
          BY <3>1, <3>2
        <5> QED BY <3>1, <5>1 DEF JobInv
      <4>2. j \in 1..Len(controllers[d]) /\ Len(controllers[d]) \in Nat
        BY <4>1, ControllerFacts, MaxJobsAssumption
      <4>3. j <= Len(controllers'[d]) /\ controllers'[d][j]
        <5>1. CASE d = c
          BY <2>3, <2>4, <4>1, <4>2, <5>1 DEF k
        <5>2. CASE d # c
          BY <2>4, <4>1, <5>2
        <5> QED BY <5>1, <5>2
      <4> QED BY <2>4, <4>1, <4>3
    <3>3. \A v \in Threads : Busy(v)' /\ function'[v] = function'[u] => v = u
      BY <2>4, <2>5, <3>1 DEF JobInv
    <3> QED BY <3>1, <3>2, <3>3 DEF JobInv
  <2>8. /\ function'[t] # NoJob
        /\ \A d \in Callers, j \in 1..MaxJobs : function'[t] = <<d, j>> =>
             /\ j <= Len(controllers'[d]) /\ controllers'[d][j]
             /\ runs'[d][j] = IF worker'[t] = "done" THEN 1 ELSE 0
        /\ \A v \in Threads : Busy(v)' /\ function'[v] = function'[t] => v = t
    BY <2>1, <2>2, <2>3, <2>4, <2>5, <2>6
  <2> QED BY <2>7, <2>8 DEF JobInv
<1>7. ASSUME NEW t \in Threads, Destroy(t)
      PROVE  JobInv'
  <2>1. UNCHANGED <<function, controllers, runs, worker>>
    BY <1>7 DEF Destroy
  <2>2. ASSUME NEW u \in Threads, Busy(u)'
        PROVE  Busy(u)
    BY <1>7, <2>2 DEF TypeOK, Busy, Destroy, Shut, Unlocked
  <2> QED BY <2>1, <2>2, BusyKept
<1>8. CASE UNCHANGED vars
  BY <1>8, BusyKept DEF vars, Busy
<1> QED
  BY <1>1, <1>2, <1>3, <1>4, <1>5, <1>6, <1>7, <1>8 DEF Next, Worker, Caller
-----------------------------------------------------------------------------
(* The controllers are preserved: m_done is called after m_function. *)
LEMMA ControllerStep ==
  ASSUME IInv, [Next]_vars
  PROVE  ControllerInv'
<1> USE DEF lockVars, tickVars
<1> TypeOK /\ ControllerInv
  BY DEF IInv
<1>1. ASSUME UNCHANGED <<jobs, controllers, runs>>
      PROVE  ControllerInv'
  BY <1>1 DEF ControllerInv
<1>2. ASSUME NEW t \in Threads, Execute(t)
      PROVE  ControllerInv'
  <2>1. PICK c \in Callers, k \in 1..MaxJobs :
          /\ function[t][1] = c /\ function[t][2] = k
          /\ k \in 1..jobs[c] /\ k \in 1..Len(controllers[c]) /\ controllers[c][k]
    BY <1>2, BusyJob DEF Execute, Move, Busy
  <2>2. /\ UNCHANGED <<jobs, controllers>>
        /\ runs' = [runs EXCEPT ![c] = [runs[c] EXCEPT ![k] = runs[c][k] + 1]]
    BY <1>2, <2>1 DEF Execute
  <2>3. \A d \in Callers : \A j \in 1..jobs[d] : <<d, j>> # <<c, k>> => runs'[d][j] = runs[d][j]
    BY <2>2 DEF TypeOK
  <2> QED BY <2>1, <2>2, <2>3, ControllerFacts DEF ControllerInv
<1>3. ASSUME NEW t \in Threads, Done(t)
      PROVE  ControllerInv'
  <2>1. PICK c \in Callers, k \in 1..MaxJobs :
          /\ function[t][1] = c /\ function[t][2] = k
          /\ k \in 1..Len(controllers[c]) /\ runs[c][k] = 1
    BY <1>3, BusyJob DEF Done, Move, Busy
  <2>2. /\ UNCHANGED <<jobs, runs>>
        /\ controllers' = [controllers EXCEPT ![c] = [controllers[c] EXCEPT ![k] = FALSE]]
    BY <1>3, <2>1 DEF Done
  <2>3. ASSUME NEW d \in Callers, NEW j \in 1..jobs[d]
        PROVE  /\ j <= Len(controllers'[d]) /\ ~controllers'[d][j] => runs[d][j] = 1
               /\ j > Len(controllers'[d]) => runs[d][j] = 0
    <3>1. CASE d = c
      <4>1. /\ controllers'[d] = [controllers[c] EXCEPT ![k] = FALSE]
            /\ Len(controllers'[d]) = Len(controllers[c])
        BY <2>1, <2>2, <3>1, ControllerFacts DEF TypeOK
      <4>2. j \in 1..Len(controllers[c]) /\ j # k => controllers'[d][j] = controllers[c][j]
        BY <4>1, ControllerFacts
      <4> QED BY <2>1, <3>1, <4>1, <4>2, ControllerFacts DEF ControllerInv
    <3>2. CASE d # c
      BY <2>2, <3>2 DEF TypeOK, ControllerInv
    <3> QED BY <3>1, <3>2
  <2> QED BY <2>2, <2>3 DEF ControllerInv
<1>4. ASSUME NEW c \in Callers, NEW n \in 0..MaxJobs, BeginTick(c, n)
      PROVE  ControllerInv'
  <2>1. /\ controllers'[c] = <<>> /\ jobs'[c] = n /\ runs'[c] = [k \in 1..n |-> 0]
        /\ \A d \in Callers \ {c} :
             controllers'[d] = controllers[d] /\ jobs'[d] = jobs[d] /\ runs'[d] = runs[d]
    BY <1>4 DEF TypeOK, BeginTick
  <2> QED BY <2>1, MaxJobsAssumption DEF ControllerInv
<1>5. ASSUME NEW c \in Callers, Run(c)
      PROVE  ControllerInv'
  <2>1. /\ controllers'[c] = HandedOut(c)
        /\ \A d \in Callers \ {c} : controllers'[d] = controllers[d]
        /\ UNCHANGED <<jobs, runs>>
    BY <1>5 DEF TypeOK, Run
  <2>2. ASSUME NEW k \in 1..jobs[c]
        PROVE  /\ k <= Len(HandedOut(c)) /\ ~HandedOut(c)[k] => runs[c][k] = 1
               /\ k > Len(HandedOut(c)) => runs[c][k] = 0
    <3> DEFINE n == Len(controllers[c])
    <3>1. n \in Nat /\ k \in Nat /\ k >= 1
      BY ControllerFacts, MaxJobsAssumption
    <3>2. /\ Len(HandedOut(c)) = n + 1 /\ HandedOut(c)[n + 1] = TRUE
          /\ \A j \in 1..n : HandedOut(c)[j] = controllers[c][j]
      BY HandedOutFacts
    <3>3. /\ k <= n /\ ~controllers[c][k] => runs[c][k] = 1
          /\ k > n => runs[c][k] = 0
      BY DEF ControllerInv
    <3> HIDE DEF n
    <3>4. CASE k <= n
      BY <3>1, <3>2, <3>3, <3>4
    <3>5. CASE k = n + 1
      BY <3>1, <3>2, <3>5
    <3>6. CASE k > n + 1
      BY <3>1, <3>2, <3>3, <3>6
    <3> QED BY <3>1, <3>4, <3>5, <3>6
  <2> QED BY <2>1, <2>2 DEF ControllerInv
<1>6. ASSUME NEW t \in Threads,
             Top(t) \/ Rearm(t) \/ Offer(t) \/ Proceed(t) \/ Destroy(t)
      PROVE  ControllerInv'
  BY <1>1, <1>6 DEF Top, Rearm, Offer, Proceed, Destroy
<1>7. ASSUME NEW c \in Callers, TryLock(c) \/ BeginJoin(c) \/ JoinNext(c) \/ EndTick(c)
      PROVE  ControllerInv'
  BY <1>1, <1>7 DEF TryLock, BeginJoin, JoinNext, EndTick
<1>8. CASE UNCHANGED vars
  BY <1>1, <1>8 DEF vars
<1> QED
  BY <1>2, <1>3, <1>4, <1>5, <1>6, <1>7, <1>8 DEF Next, Worker, Caller

(* A room thread's place in its tick is preserved. *)
LEMMA TickStep ==
  ASSUME IInv, [Next]_vars
  PROVE  TickInv'
<1> USE DEF lockVars, tickVars
<1> TypeOK /\ TickInv
  BY DEF IInv
<1>1. ASSUME UNCHANGED tickVars, UNCHANGED controllers
      PROVE  TickInv'
  BY <1>1 DEF TickInv
<1>2. ASSUME NEW t \in Threads, Done(t)
      PROVE  TickInv'
  <2>1. PICK c \in Callers, k \in 1..MaxJobs :
          /\ function[t][1] = c /\ function[t][2] = k
          /\ k \in 1..Len(controllers[c])
    BY <1>2, BusyJob DEF Done, Move, Busy
  <2>2. /\ UNCHANGED tickVars
        /\ controllers' = [controllers EXCEPT ![c] = [controllers[c] EXCEPT ![k] = FALSE]]
    BY <1>2, <2>1 DEF Done
  <2>3. \A d \in Callers : Len(controllers'[d]) = Len(controllers[d])
    BY <2>1, <2>2, ControllerFacts DEF TypeOK
  <2>4. ASSUME NEW d \in Callers, NEW j \in 1..joined[d]
        PROVE  ~controllers'[d][j]
    <3>1. j \in 1..Len(controllers[d]) /\ ~controllers[d][j]
      BY ControllerFacts, MaxJobsAssumption DEF TickInv
    <3>2. CASE d = c
      <4>1. controllers'[d] = [controllers[c] EXCEPT ![k] = FALSE]
        BY <2>2, <3>2 DEF TypeOK
      <4> QED BY <3>1, <3>2, <4>1, ControllerFacts
    <3>3. CASE d # c
      BY <2>2, <3>1, <3>3 DEF TypeOK
    <3> QED BY <3>2, <3>3
  <2> QED BY <2>2, <2>3, <2>4 DEF TickInv
<1>3. ASSUME NEW c \in Callers, NEW n \in 0..MaxJobs, BeginTick(c, n)
      PROVE  TickInv'
  <2>1. /\ caller'[c] = "scan" /\ jobs'[c] = n /\ controllers'[c] = <<>> /\ joined'[c] = 0
        /\ \A d \in Callers \ {c} :
             /\ caller'[d] = caller[d] /\ jobs'[d] = jobs[d]
             /\ controllers'[d] = controllers[d] /\ joined'[d] = joined[d]
    BY <1>3 DEF TypeOK, BeginTick
  <2> QED BY <2>1 DEF TickInv
<1>4. ASSUME NEW c \in Callers, TryLock(c) \/ BeginJoin(c) \/ EndTick(c)
      PROVE  TickInv'
  <2>1. /\ UNCHANGED <<jobs, controllers, joined>>
        /\ \A d \in Callers \ {c} : caller'[d] = caller[d]
        /\ \/ caller[c] = "scan" /\ caller'[c] = "scan"
           \/ caller[c] = "scan" /\ caller'[c] = "run" /\ Len(controllers[c]) < jobs[c]
           \/ caller[c] = "scan" /\ caller'[c] = "join" /\ Len(controllers[c]) = jobs[c]
           \/ caller[c] = "join" /\ caller'[c] = "idle" /\ joined[c] = jobs[c]
    BY <1>4 DEF TypeOK, TryLock, BeginJoin, EndTick
  <2> QED BY <2>1 DEF TickInv
<1>5. ASSUME NEW c \in Callers, JoinNext(c)
      PROVE  TickInv'
  <2>1. /\ UNCHANGED <<jobs, controllers, caller>>
        /\ caller[c] = "join" /\ joined[c] < jobs[c] /\ ~controllers[c][joined[c] + 1]
        /\ joined'[c] = joined[c] + 1 /\ \A d \in Callers \ {c} : joined'[d] = joined[d]
    BY <1>5 DEF TypeOK, JoinNext, IsOver
  <2> QED BY <2>1, ControllerFacts, MaxJobsAssumption DEF TickInv
<1>6. ASSUME NEW c \in Callers, Run(c)
      PROVE  TickInv'
  <2>1. /\ caller[c] = "run" /\ caller'[c] = "scan"
        /\ controllers'[c] = HandedOut(c) /\ UNCHANGED <<jobs, joined>>
        /\ \A d \in Callers \ {c} : caller'[d] = caller[d] /\ controllers'[d] = controllers[d]
    BY <1>6 DEF TypeOK, Run
  <2>2. Len(HandedOut(c)) = Len(controllers[c]) + 1 /\ Len(controllers[c]) \in Nat
        /\ joined[c] = 0
    BY <2>1, HandedOutFacts, ControllerFacts DEF TickInv
  <2> QED BY <2>1, <2>2 DEF TickInv
<1>7. ASSUME NEW t \in Threads,
             Top(t) \/ Rearm(t) \/ Offer(t) \/ Proceed(t) \/ Execute(t) \/ Destroy(t)
      PROVE  TickInv'
  BY <1>1, <1>7 DEF Top, Rearm, Offer, Proceed, Execute, Destroy
<1>8. CASE UNCHANGED vars
  BY <1>1, <1>8 DEF vars
<1> QED
  BY <1>2, <1>3, <1>4, <1>5, <1>6, <1>7, <1>8 DEF Next, Worker, Caller
-----------------------------------------------------------------------------
LEMMA Invariance == Spec => []IInv
<1>1. IInv /\ [Next]_vars => IInv'
  <2> SUFFICES ASSUME IInv, [Next]_vars PROVE IInv'
    OBVIOUS
  <2>1. TypeOK' /\ LockInv' /\ ThreadOwnedOnce'
    BY TypeStep, LockStep, OwnerStep
  <2>2. JobInv' /\ ControllerInv' /\ TickInv'
    BY JobStep, ControllerStep, TickStep
  <2> QED BY <2>1, <2>2 DEF IInv
<1> QED BY <1>1, InitIInv, PTL DEF Spec

(* m_function, the controllers and the scan of RelayThreadPool::run keep
   their types: a job is executed for a controller that its tick has, and no
   thread beyond the array is tried.                                       *)
THEOREM TypeCorrect == Spec => []TypeOK
<1>1. IInv => TypeOK
  BY DEF IInv
<1> QED BY <1>1, Invariance, PTL

(* RelayThread::lock: a thread that a room thread stores its job in waits for
   it, and for nobody else, however many room threads scan the pool.       *)
THEOREM OneOwner == Spec => []ThreadOwnedOnce
<1>1. IInv => ThreadOwnedOnce
  BY DEF IInv
<1> QED BY <1>1, Invariance, PTL

(* RelayThreadController::join: the job of a joined controller has been
   executed once, and no thread will touch the tick's vectors for it again. *)
THEOREM JoinedOver == Spec => []JoinedJobsAreOver
<1>1. ASSUME IInv PROVE JoinedJobsAreOver
  <2> SUFFICES ASSUME NEW c \in Callers, NEW k \in 1..joined[c]
               PROVE  /\ runs[c][k] = 1
                      /\ \A t \in Threads : function[t] = <<c, k>> => ~Busy(t)
    BY DEF JoinedJobsAreOver, Busy
  <2>1. k \in 1..jobs[c] /\ k <= Len(controllers[c]) /\ ~controllers[c][k]
    BY <1>1, ControllerFacts, MaxJobsAssumption DEF IInv, TickInv
  <2>2. runs[c][k] = 1
    BY <1>1, <2>1 DEF IInv, ControllerInv
  <2>3. ASSUME NEW t \in Threads, function[t] = <<c, k>>, Busy(t) PROVE FALSE
    BY <1>1, <2>1, <2>3, BusyJob
  <2> QED BY <2>2, <2>3
<1> QED BY <1>1, Invariance, PTL

(* RelayThreadPool::run and the joins that follow it are a fork and join:
   each job is executed once, and the tick ends after the last of them.    *)
THEOREM ForkJoinImplemented == Spec => ImplementsForkJoin
<1> DEFINE inTick == [c \in Callers |-> caller[c] # "idle"]
<1>1. Init => FJ!Init
  BY DEF Init, FJ!Init
<1>2. ASSUME IInv, [Next]_vars PROVE [FJ!Next]_(FJ!vars)
  <2> USE DEF lockVars, tickVars
  <2> TypeOK
    BY <1>2 DEF IInv
  <2>1. ASSUME NEW c \in Callers, NEW n \in 0..MaxJobs, BeginTick(c, n)
        PROVE  FJ!Fork(c, n)
    BY <2>1 DEF TypeOK, BeginTick, FJ!Fork
  <2>2. ASSUME NEW t \in Threads, Execute(t)
        PROVE  \E c \in Callers : \E k \in DOMAIN runs[c] : FJ!Execute(c, k)
    <3>1. PICK c \in Callers, k \in 1..MaxJobs :
            /\ function[t][1] = c /\ function[t][2] = k
            /\ k \in 1..jobs[c] /\ runs[c][k] = 0 /\ joined[c] < k
      BY <1>2, <2>2, BusyJob DEF Execute, Move, Busy
    <3>2. caller[c] # "idle"
      BY <1>2, <3>1, ControllerFacts, MaxJobsAssumption DEF IInv, TickInv
    <3>3. runs' = [runs EXCEPT ![c] = [runs[c] EXCEPT ![k] = 1]] /\ UNCHANGED caller
      BY <2>2, <3>1 DEF Execute
    <3>4. k \in DOMAIN runs[c]
      BY <3>1, ControllerFacts
    <3>5. FJ!Execute(c, k)
      BY <3>1, <3>2, <3>3 DEF FJ!Execute
    <3> QED BY <3>4, <3>5
  <2>3. ASSUME NEW c \in Callers, EndTick(c)
        PROVE  FJ!Join(c)
    <3>1. ASSUME NEW k \in DOMAIN runs[c] PROVE runs[c][k] = 1
      <4>1. k \in 1..joined[c]
        BY <2>3, <3>1, ControllerFacts DEF EndTick
      <4>2. k \in 1..jobs[c] /\ k <= Len(controllers[c]) /\ ~controllers[c][k]
        BY <1>2, <4>1, ControllerFacts, MaxJobsAssumption DEF IInv, TickInv
      <4> QED BY <1>2, <4>2 DEF IInv, ControllerInv
    <3> QED BY <2>3, <3>1 DEF TypeOK, EndTick, FJ!Join
  <2>4. ASSUME NEW c \in Callers, TryLock(c) \/ Run(c) \/ BeginJoin(c) \/ JoinNext(c)
        PROVE  UNCHANGED FJ!vars
    <3>1. UNCHANGED runs /\ \A d \in Callers : caller'[d] # "idle" <=> caller[d] # "idle"
      BY <2>4 DEF TypeOK, TryLock, Run, BeginJoin, JoinNext
    <3> QED BY <3>1 DEF FJ!vars
  <2>5. ASSUME NEW t \in Threads,
               Top(t) \/ Rearm(t) \/ Offer(t) \/ Proceed(t) \/ Done(t) \/ Destroy(t)
        PROVE  UNCHANGED FJ!vars
    BY <2>5 DEF Top, Rearm, Offer, Proceed, Done, Destroy, FJ!vars
  <2>6. CASE UNCHANGED vars
    BY <2>6 DEF vars, FJ!vars
  <2> QED
    BY <1>2, <2>1, <2>2, <2>3, <2>4, <2>5, <2>6 DEF Next, Worker, Caller, FJ!Next
<1> QED BY <1>1, <1>2, Invariance, PTL DEF Spec, ImplementsForkJoin, FJ!Spec

=============================================================================
