-------------------------- MODULE RelayThreadPool --------------------------
(***************************************************************************)
(* The thread pool that room threads hand their jobs to: RelayThread's     *)
(* handshake over two binary semaphores, the scan of RelayThreadPool::run  *)
(* and the controllers a tick is joined through.                           *)
(*                                                                         *)
(*  - A Semaphore is the flag of BinarySemaphore, which Semaphore          *)
(*    implements: acquire waits for FALSE and sets TRUE, release sets      *)
(*    FALSE, each in one step.                                             *)
(*  - m_threadLock of an idle thread is free: whoever takes it owns the    *)
(*    thread until the thread itself frees it again.                       *)
(*  - m_runningLock keeps an idle thread waiting until its owner frees it. *)
(*  - m_function and m_done always belong to one job, a pair               *)
(*    <<caller, index in the caller's controllers>>.                       *)
(***************************************************************************)
EXTENDS Integers, Sequences

CONSTANTS
  Callers,        \* the room threads that share the pool
  THREAD_COUNT,   \* the threads of the pool
  MaxJobs,        \* bound of the model: jobs (connections) in one tick
  NoJob           \* m_function before the thread's first job

ASSUME ThreadCountAssumption == THREAD_COUNT \in Nat \ {0}
ASSUME MaxJobsAssumption == MaxJobs \in Nat
ASSUME NoJobAssumption == NoJob \notin Callers \X (1..MaxJobs)

VARIABLES
  threadLock,    \* m_threadLock.m_locked of each thread of the pool
  runningLock,   \* m_runningLock.m_locked
  exit,          \* m_exit
  worker,        \* where the thread is in its loop
  function,      \* m_function and m_done
  caller,        \* where each room thread is in its tick
  jobs,          \* how many connections the tick has
  controllers,   \* the vector of controllers: mutex->m_locked of each
  scan,          \* the thread that RelayThreadPool::run tries, or owns
  joined,        \* how many controllers have been joined
  runs,          \* history: how often each job of the tick was executed
  destroyed      \* the threads whose destructor is past its m_threadLock

lockVars == <<threadLock, runningLock, exit>>
tickVars == <<caller, jobs, scan, joined>>
vars == <<lockVars, worker, function, tickVars, controllers, runs, destroyed>>

Threads == 1..THREAD_COUNT
Jobs == Callers \X (1..MaxJobs)

TypeOK ==
  /\ threadLock \in [Threads -> BOOLEAN]
  /\ runningLock \in [Threads -> BOOLEAN]
  /\ exit \in [Threads -> BOOLEAN]
  /\ worker \in [Threads -> {"top", "rearm", "offer", "wait", "run", "done", "ended"}]
  /\ function \in [Threads -> Jobs \cup {NoJob}]
  /\ caller \in [Callers -> {"idle", "scan", "run", "join"}]
  /\ jobs \in [Callers -> 0..MaxJobs]
  /\ controllers \in [Callers -> Seq(BOOLEAN)]
  /\ \A c \in Callers : Len(controllers[c]) <= jobs[c]
  /\ scan \in [Callers -> Threads]
  /\ joined \in [Callers -> 0..MaxJobs]
  /\ \A c \in Callers : runs[c] \in [1..jobs[c] -> Nat]
  /\ DOMAIN runs = Callers
  /\ destroyed \subseteq Threads

(* RelayThread's constructor takes m_threadLock, then starts the thread. *)
Init ==
  /\ threadLock = [t \in Threads |-> TRUE]
  /\ runningLock = [t \in Threads |-> FALSE]
  /\ exit = [t \in Threads |-> FALSE]
  /\ worker = [t \in Threads |-> "top"]
  /\ function = [t \in Threads |-> NoJob]
  /\ caller = [c \in Callers |-> "idle"]
  /\ jobs = [c \in Callers |-> 0]
  /\ controllers = [c \in Callers |-> <<>>]
  /\ scan = [c \in Callers |-> 1]
  /\ joined = [c \in Callers |-> 0]
  /\ runs = [c \in Callers |-> <<>>]
  /\ destroyed = {}

-----------------------------------------------------------------------------
(* A thread of the pool: the loop of RelayThread's constructor.            *)

Move(t, from, to) == worker[t] = from /\ worker' = [worker EXCEPT ![t] = to]

Locked(lock, t) == [lock EXCEPT ![t] = TRUE]
Unlocked(lock, t) == [lock EXCEPT ![t] = FALSE]

(* while (!m_exit), and m_runningLock.release() *)
TopKeepsLock(t) ==   \* mutant: m_runningLock is not released first
  /\ Move(t, "top", IF exit[t] THEN "ended" ELSE "rearm")
  /\ UNCHANGED <<lockVars, function, tickVars, controllers, runs, destroyed>>

Top(t) ==
  /\ Move(t, "top", IF exit[t] THEN "ended" ELSE "rearm")
  /\ runningLock' = IF exit[t] THEN runningLock ELSE Unlocked(runningLock, t)
  /\ UNCHANGED <<threadLock, exit, function, tickVars, controllers, runs, destroyed>>

(* m_runningLock.acquire() *)
Rearm(t) ==
  /\ Move(t, "rearm", "offer")
  /\ ~runningLock[t]
  /\ runningLock' = Locked(runningLock, t)
  /\ UNCHANGED <<threadLock, exit, function, tickVars, controllers, runs, destroyed>>

(* m_threadLock.release() lets a caller, or the destructor, own the thread. *)
Offer(t) ==
  /\ Move(t, "offer", "wait")
  /\ threadLock' = Unlocked(threadLock, t)
  /\ UNCHANGED <<runningLock, exit, function, tickVars, controllers, runs, destroyed>>

(* m_runningLock.acquire() returns once the owner has called run. *)
Proceed(t) ==
  /\ Move(t, "wait", IF exit[t] THEN "ended" ELSE "run")
  /\ ~runningLock[t]
  /\ runningLock' = Locked(runningLock, t)
  /\ UNCHANGED <<threadLock, exit, function, tickVars, controllers, runs, destroyed>>

(* m_function() *)
Execute(t) ==
  LET c == function[t][1]
      k == function[t][2]
  IN
  /\ Move(t, "run", "done")
  /\ runs' = [runs EXCEPT ![c][k] = @ + 1]
  /\ UNCHANGED <<lockVars, function, tickVars, controllers, destroyed>>

(* m_done() releases the mutex of the job's controller. *)
DoneHandsBack(t) ==   \* mutant: m_threadLock is released with m_done
  LET c == function[t][1]
      k == function[t][2]
  IN
  /\ Move(t, "done", "top")
  /\ controllers' = [controllers EXCEPT ![c] = [@ EXCEPT ![k] = FALSE]]
  /\ threadLock' = Unlocked(threadLock, t)
  /\ UNCHANGED <<runningLock, exit, function, tickVars, runs, destroyed>>

Done(t) ==
  LET c == function[t][1]
      k == function[t][2]
  IN
  /\ Move(t, "done", "top")
  /\ controllers' = [controllers EXCEPT ![c] = [@ EXCEPT ![k] = FALSE]]
  /\ UNCHANGED <<lockVars, function, tickVars, runs, destroyed>>

-----------------------------------------------------------------------------
(* A caller: the tick of a room thread and RelayThreadPool::run.           *)

BeginTick(c, n) ==
  /\ caller[c] = "idle"
  /\ destroyed = {}
  /\ caller' = [caller EXCEPT ![c] = "scan"]
  /\ jobs' = [jobs EXCEPT ![c] = n]
  /\ controllers' = [controllers EXCEPT ![c] = <<>>]
  /\ scan' = [scan EXCEPT ![c] = 1]
  /\ joined' = [joined EXCEPT ![c] = 0]
  /\ runs' = [runs EXCEPT ![c] = [k \in 1..n |-> 0]]
  /\ UNCHANGED <<lockVars, worker, function, destroyed>>

NextThreadOneMore(t) == IF t > THREAD_COUNT THEN 1 ELSE t + 1   \* mutant
NextThread(t) == IF t = THREAD_COUNT THEN 1 ELSE t + 1

(* thread.lock(): m_threadLock.try_acquire() of the next thread. *)
TryLock(c) ==
  /\ caller[c] = "scan"
  /\ Len(controllers[c]) < jobs[c]
  /\ IF threadLock[scan[c]]
     THEN /\ scan' = [scan EXCEPT ![c] = NextThread(@)]
          /\ UNCHANGED <<threadLock, caller>>
     ELSE /\ threadLock' = Locked(threadLock, scan[c])
          /\ caller' = [caller EXCEPT ![c] = "run"]
          /\ UNCHANGED scan
  /\ UNCHANGED <<runningLock, exit, worker, function, jobs, joined, controllers,
                 runs, destroyed>>

HandedOutFree(c) == Append(controllers[c], FALSE)   \* mutant: not acquired
HandedOut(c) == Append(controllers[c], TRUE)

(* The controller's mutex is taken, m_function and m_done are stored, then
   m_runningLock is released; only the owner sees these before the release. *)
Run(c) ==
  LET t == scan[c] IN
  /\ caller[c] = "run"
  /\ controllers' = [controllers EXCEPT ![c] = HandedOut(c)]
  /\ function' = [function EXCEPT ![t] = <<c, Len(controllers[c]) + 1>>]
  /\ runningLock' = Unlocked(runningLock, t)
  /\ caller' = [caller EXCEPT ![c] = "scan"]
  /\ scan' = [scan EXCEPT ![c] = 1]
  /\ UNCHANGED <<threadLock, exit, worker, jobs, joined, runs, destroyed>>

(* All jobs are handed out; the loop over the controllers begins. *)
BeginJoin(c) ==
  /\ caller[c] = "scan"
  /\ Len(controllers[c]) = jobs[c]
  /\ caller' = [caller EXCEPT ![c] = "join"]
  /\ UNCHANGED <<lockVars, worker, function, jobs, scan, joined, controllers, runs,
                 destroyed>>

IsOverUnasked(c, k) == TRUE   \* mutant: join does not wait
IsOver(c, k) == ~controllers[c][k]

(* RelayThreadController::join acquires the mutex and releases it again. *)
JoinNext(c) ==
  /\ caller[c] = "join"
  /\ joined[c] < jobs[c]
  /\ IsOver(c, joined[c] + 1)
  /\ joined' = [joined EXCEPT ![c] = @ + 1]
  /\ UNCHANGED <<lockVars, worker, function, caller, jobs, scan, controllers, runs,
                 destroyed>>

EndTick(c) ==
  /\ caller[c] = "join"
  /\ joined[c] = jobs[c]
  /\ caller' = [caller EXCEPT ![c] = "idle"]
  /\ UNCHANGED <<lockVars, worker, function, jobs, scan, joined, controllers, runs,
                 destroyed>>

-----------------------------------------------------------------------------
(* RelayThread's destructor, when no room thread uses the pool any more: it
   acquires m_threadLock, sets m_exit, releases m_runningLock and joins the
   thread.  The array destroys its elements from the last to the first.    *)
ShutUnreleased(t) ==   \* mutant: the thread is not let go
  exit' = [exit EXCEPT ![t] = TRUE] /\ UNCHANGED runningLock
Shut(t) ==
  exit' = [exit EXCEPT ![t] = TRUE] /\ runningLock' = Unlocked(runningLock, t)

Destroy(t) ==
  /\ \A c \in Callers : caller[c] = "idle"
  /\ t \notin destroyed
  /\ \A u \in Threads : u > t => u \in destroyed /\ worker[u] = "ended"
  /\ ~threadLock[t]
  /\ threadLock' = Locked(threadLock, t)
  /\ Shut(t)
  /\ destroyed' = destroyed \cup {t}
  /\ UNCHANGED <<worker, function, tickVars, controllers, runs>>

Worker(t) ==
  Top(t) \/ Rearm(t) \/ Offer(t) \/ Proceed(t) \/ Execute(t) \/ Done(t)

Caller(c) ==
  TryLock(c) \/ Run(c) \/ BeginJoin(c) \/ JoinNext(c) \/ EndTick(c)

Next ==
  \/ \E t \in Threads : Worker(t) \/ Destroy(t)
  \/ \E c \in Callers : Caller(c) \/ \E n \in 0..MaxJobs : BeginTick(c, n)

Spec == Init /\ [][Next]_vars

(* Threads are scheduled; nobody has to start a tick or destroy the pool.
   try_acquire gives no turn to a caller that keeps finding threads busy.  *)
FairSpec ==
  /\ Spec
  /\ \A t \in Threads : WF_vars(Worker(t))
  /\ \A c \in Callers : WF_vars(Caller(c))

-----------------------------------------------------------------------------
(* Properties.                                                             *)

Owns(c, t) == caller[c] = "run" /\ scan[c] = t

(* A thread of the pool has one owner: while a caller is about to store its
   job, no other caller, no destructor and no running job uses the thread
   (RelayThread::lock, and the re-arming of both locks after each job).    *)
ThreadOwnedOnce ==
  \A c \in Callers, t \in Threads : Owns(c, t) =>
    /\ threadLock[t] /\ runningLock[t]
    /\ worker[t] = "wait"
    /\ t \notin destroyed
    /\ \A d \in Callers : Owns(d, t) => d = c

(* A joined controller's job is over, once and for all, so that the jobs'
   references to the tick's vectors are never used after the tick.         *)
JoinedJobsAreOver ==
  \A c \in Callers : \A k \in 1..joined[c] :
    /\ runs[c][k] = 1
    /\ \A t \in Threads : function[t] = <<c, k>> =>
         /\ worker[t] \notin {"run", "done"}
         /\ worker[t] = "wait" => runningLock[t] \/ exit[t]

(* The pool implements the fork and join of the jobs. *)
FJ == INSTANCE ForkJoin WITH inTick <- [c \in Callers |-> caller[c] # "idle"]

ImplementsForkJoin == FJ!Spec

(* A tick ends, however many jobs share few threads: a caller that scans is
   kept waiting only by other callers that take threads again and again
   (try_acquire of RelayThreadPool::run gives nobody a turn).              *)
TicksEnd ==
  \A c \in Callers :
    \/ []<><<\E d \in Callers \ {c} : Run(d)>>_vars
    \/ (caller[c] # "idle") ~> (caller[c] = "idle")

(* A destroyed thread's loop ends, so that its destructor can join it. *)
DestroyedEnd ==
  \A t \in Threads : t \in destroyed ~> worker[t] = "ended"

=============================================================================
