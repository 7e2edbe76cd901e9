----------------------------- MODULE ToolProofs -----------------------------
(***************************************************************************)
(* Proofs about two tools of libguestfs that run threads and processes.    *)
(*                                                                         *)
(* ParallelWork, for any number of domains and threads: the output is in   *)
(* order, no two workers share a domain, and the threads implement         *)
(* OrderedOutput.  The inductive invariant says who holds the mutexes and  *)
(* what that thread knows about the counters.                              *)
(*                                                                         *)
(* GuestMount, for any options, retries and failing calls, and when the    *)
(* hypervisor dies: nobody stops the hypervisor of a mount that is served, *)
(* the PID file names the worker while it runs, and success means that     *)
(* what was written is in the disk image or that a program was told.  The  *)
(* inductive invariant ties the two processes to each other and to what    *)
(* they share: the handle, its hypervisor and its channel.                 *)
(***************************************************************************)
EXTENDS ParallelWork, GuestMount, TLAPS

-----------------------------------------------------------------------------
(* The workers of virt-df *)

\* A worker between the lock and the unlock of a mutex holds it.
MutexInv ==
  /\ \A t \in Threads : pc[t] \in {"read", "write"} => take_mutex = t
  /\ \A t \in Threads : pc[t] \in {"check", "print"} => retire_mutex = t

\* What a worker knows of the counters while it holds their mutexes.
CounterInv ==
  /\ next_domain_to_retire <= next_domain_to_take
  /\ \A t \in Threads : pc[t] = "write" => dom[t] = next_domain_to_take
  /\ \A t \in Threads : pc[t] = "print" => dom[t] = next_domain_to_retire
  /\ \A t \in Threads : Busy(t) => dom[t] < nr_domains

\* The threads that wait are at the wait, those that are not created do nothing, and those that
\* were joined are done.
ThreadInv ==
  /\ \A t \in waiting : pc[t] = "wait"
  /\ main = "create" => \A t \in Threads : t >= index => pc[t] = "none"
  /\ main = "join" => \A t \in Threads : t < index => pc[t] = "done"
  /\ main = "returned" => \A t \in Threads : pc[t] = "done"

WorkInv == WorkTypeOK /\ MutexInv /\ CounterInv /\ ThreadInv /\ OwnDomain /\ InOrder

-----------------------------------------------------------------------------

\* There are finitely many threads.
LEMMA ThreadsAreNumbers == nr_threads \in Nat /\ Threads \subseteq Nat
  BY NumbersAssumption DEF nr_threads, Threads, AtMost, MAX_THREADS

\* The invariant holds when start_threads is called.
LEMMA WorkInitInv == WorkInit => WorkInv
  <1> SUFFICES ASSUME WorkInit PROVE WorkInv
    OBVIOUS
  <1> USE NumbersAssumption
  <1>1. WorkTypeOK
    BY DEF WorkInit, WorkTypeOK, Steps
  <1>2. MutexInv /\ CounterInv /\ ThreadInv /\ OwnDomain
    BY DEF WorkInit, MutexInv, CounterInv, ThreadInv, OwnDomain, Busy
  <1>3. InOrder
    BY DEF WorkInit, InOrder
  <1> QED BY <1>1, <1>2, <1>3 DEF WorkInv

\* worker_thread or start_threads keeps the invariant: pthread_mutex_lock fails.
LEMMA LockFailsIInv == ASSUME WorkInv, NEW t \in Threads, LockFails(t) PROVE WorkInv'
  <1> USE NumbersAssumption, NobodyAssumption, ThreadsAreNumbers DEF WorkInv, LockFails, GiveUp, Goto, At, Alive, shared, mainVars
  <1>1. WorkTypeOK'
    BY DEF WorkTypeOK, Steps
  <1>2. MutexInv'
    BY DEF WorkTypeOK, MutexInv
  <1>3. CounterInv'
    BY DEF WorkTypeOK, MutexInv, CounterInv, OwnDomain, Busy
  <1>4. ThreadInv'
    BY DEF WorkTypeOK, ThreadInv, Threads
  <1>5. OwnDomain'
    BY DEF WorkTypeOK, MutexInv, CounterInv, OwnDomain, Busy
  <1>6. InOrder'
    BY DEF WorkTypeOK, CounterInv, InOrder
  <1> QED BY <1>1, <1>2, <1>3, <1>4, <1>5, <1>6

\* worker_thread or start_threads keeps the invariant: pthread_mutex_lock of take_mutex.
LEMMA LockTakeIInv == ASSUME WorkInv, NEW t \in Threads, LockTake(t) PROVE WorkInv'
  <1> USE NumbersAssumption, NobodyAssumption, ThreadsAreNumbers DEF WorkInv, LockTake, Goto, At, Alive, mainVars
  <1>1. WorkTypeOK'
    BY DEF WorkTypeOK, Steps
  <1>2. MutexInv'
    BY DEF WorkTypeOK, MutexInv
  <1>3. CounterInv'
    BY DEF WorkTypeOK, MutexInv, CounterInv, OwnDomain, Busy
  <1>4. ThreadInv'
    BY DEF WorkTypeOK, ThreadInv, Threads
  <1>5. OwnDomain'
    BY DEF WorkTypeOK, MutexInv, CounterInv, OwnDomain, Busy
  <1>6. InOrder'
    BY DEF WorkTypeOK, CounterInv, InOrder
  <1> QED BY <1>1, <1>2, <1>3, <1>4, <1>5, <1>6

\* worker_thread or start_threads keeps the invariant: the load of next_domain_to_take.
LEMMA ReadNextIInv == ASSUME WorkInv, NEW t \in Threads, ReadNext(t) PROVE WorkInv'
  <1> USE NumbersAssumption, NobodyAssumption, ThreadsAreNumbers DEF WorkInv, ReadNext, Goto, At, Alive, shared, mainVars
  <1>1. WorkTypeOK'
    BY DEF WorkTypeOK, Steps
  <1>2. MutexInv'
    BY DEF WorkTypeOK, MutexInv
  <1>3. CounterInv'
    BY DEF WorkTypeOK, MutexInv, CounterInv, OwnDomain, Busy
  <1>4. ThreadInv'
    BY DEF WorkTypeOK, ThreadInv, Threads
  <1>5. OwnDomain'
    BY DEF WorkTypeOK, MutexInv, CounterInv, OwnDomain, Busy
  <1>6. InOrder'
    BY DEF WorkTypeOK, CounterInv, InOrder
  <1> QED BY <1>1, <1>2, <1>3, <1>4, <1>5, <1>6

\* worker_thread or start_threads keeps the invariant: the store of next_domain_to_take and the unlock.
LEMMA WriteNextIInv == ASSUME WorkInv, NEW t \in Threads, WriteNext(t) PROVE WorkInv'
  <1> USE NumbersAssumption, NobodyAssumption, ThreadsAreNumbers DEF WorkInv, WriteNext, Goto, At, Alive, mainVars
  <1>1. WorkTypeOK'
    BY DEF WorkTypeOK, Steps
  <1>2. MutexInv'
    BY DEF WorkTypeOK, MutexInv
  <1>3. CounterInv'
    BY DEF WorkTypeOK, MutexInv, CounterInv, OwnDomain, Busy
  <1>4. ThreadInv'
    BY DEF WorkTypeOK, ThreadInv, Threads
  <1>5. OwnDomain'
    BY DEF WorkTypeOK, MutexInv, CounterInv, OwnDomain, Busy
  <1>6. InOrder'
    BY DEF WorkTypeOK, CounterInv, InOrder
  <1> QED BY <1>1, <1>2, <1>3, <1>4, <1>5, <1>6

\* worker_thread or start_threads keeps the invariant: the work function.
LEMMA WorkIInv == ASSUME WorkInv, NEW t \in Threads, Work(t) PROVE WorkInv'
  <1> USE NumbersAssumption, NobodyAssumption, ThreadsAreNumbers DEF WorkInv, Work, GiveUp, Goto, At, Alive, shared, mainVars
  <1>1. WorkTypeOK'
    BY Zenon DEF WorkTypeOK, Steps
  <1>2. MutexInv'
    BY DEF WorkTypeOK, MutexInv
  <1>3. CounterInv'
    BY DEF WorkTypeOK, MutexInv, CounterInv, OwnDomain, Busy
  <1>4. ThreadInv'
    BY DEF WorkTypeOK, ThreadInv, Threads
  <1>5. OwnDomain'
    <2>1. \A u \in Threads : (Busy(u))' => Busy(u)
      BY DEF WorkTypeOK, Busy
    <2> QED BY <2>1 DEF OwnDomain
  <1>6. InOrder'
    BY DEF WorkTypeOK, CounterInv, InOrder
  <1> QED BY <1>1, <1>2, <1>3, <1>4, <1>5, <1>6

\* worker_thread or start_threads keeps the invariant: pthread_mutex_lock of retire_mutex.
LEMMA LockRetireIInv == ASSUME WorkInv, NEW t \in Threads, LockRetire(t) PROVE WorkInv'
  <1> USE NumbersAssumption, NobodyAssumption, ThreadsAreNumbers DEF WorkInv, LockRetire, Goto, At, Alive, mainVars
  <1>1. WorkTypeOK'
    BY DEF WorkTypeOK, Steps
  <1>2. MutexInv'
    BY DEF WorkTypeOK, MutexInv
  <1>3. CounterInv'
    BY DEF WorkTypeOK, MutexInv, CounterInv, OwnDomain, Busy
  <1>4. ThreadInv'
    BY DEF WorkTypeOK, ThreadInv, Threads
  <1>5. OwnDomain'
    BY DEF WorkTypeOK, MutexInv, CounterInv, OwnDomain, Busy
  <1>6. InOrder'
    BY DEF WorkTypeOK, CounterInv, InOrder
  <1> QED BY <1>1, <1>2, <1>3, <1>4, <1>5, <1>6

\* worker_thread or start_threads keeps the invariant: the test in the loop around pthread_cond_wait.
LEMMA CheckIInv == ASSUME WorkInv, NEW t \in Threads, Check(t) PROVE WorkInv'
  <1> USE NumbersAssumption, NobodyAssumption, ThreadsAreNumbers DEF WorkInv, Check, Goto, At, Alive, mainVars
  <1>1. WorkTypeOK'
    BY Zenon DEF WorkTypeOK, Steps
  <1>2. MutexInv'
    BY DEF WorkTypeOK, MutexInv
  <1>3. CounterInv'
    BY DEF WorkTypeOK, MutexInv, CounterInv, OwnDomain, Busy
  <1>4. ThreadInv'
    <2>1. \A u \in Threads : pc'[u] = IF u = t THEN pc'[t] ELSE pc[u]
      BY Zenon DEF WorkTypeOK
    <2>2. /\ pc[t] = "check" /\ pc'[t] \in {"wait", "print"}
          /\ UNCHANGED <<main, index>> /\ waiting' \in {waiting, waiting \cup {t}} /\ (t \in waiting' => pc'[t] = "wait")
      BY DEF WorkTypeOK, ThreadInv
    <2>3. ThreadInv
      BY Zenon
    <2> HIDE DEF WorkInv, Check
    <2>4. \A u \in waiting' : pc'[u] = "wait"
      <3>1. waiting' \subseteq Threads
        BY <1>1, Zenon DEF WorkTypeOK
      <3> QED BY <2>1, <2>2, <2>3, <3>1, Zenon DEF ThreadInv
    <2>5. main' = "create" => \A u \in Threads : u >= index' => pc'[u] = "none"
      BY <2>1, <2>2, <2>3, Zenon DEF ThreadInv
    <2>6. main' = "join" => \A u \in Threads : u < index' => pc'[u] = "done"
      BY <2>1, <2>2, <2>3, Zenon DEF ThreadInv
    <2>7. main' = "returned" => \A u \in Threads : pc'[u] = "done"
      BY <2>1, <2>2, <2>3, Zenon DEF ThreadInv
    <2> QED BY <2>4, <2>5, <2>6, <2>7, Zenon DEF ThreadInv
  <1>5. OwnDomain'
    <2>1. \A u \in Threads : (Busy(u))' => Busy(u)
      BY DEF WorkTypeOK, Busy
    <2>2. UNCHANGED <<dom, next_domain_to_retire, next_domain_to_take>>
      OBVIOUS
    <2> QED BY <2>1, <2>2 DEF OwnDomain
  <1>6. InOrder'
    BY DEF WorkTypeOK, CounterInv, InOrder
  <1> QED BY <1>1, <1>2, <1>3, <1>4, <1>5, <1>6

\* worker_thread or start_threads keeps the invariant: pthread_cond_wait fails.
LEMMA WaitFailsIInv == ASSUME WorkInv, NEW t \in Threads, WaitFails(t) PROVE WorkInv'
  <1> USE NumbersAssumption, NobodyAssumption, ThreadsAreNumbers DEF WorkInv, WaitFails, GiveUp, Goto, At, Alive, mainVars
  <1>1. WorkTypeOK'
    BY DEF WorkTypeOK, Steps
  <1>2. MutexInv'
    BY DEF WorkTypeOK, MutexInv
  <1>3. CounterInv'
    BY DEF WorkTypeOK, MutexInv, CounterInv, OwnDomain, Busy
  <1>4. ThreadInv'
    BY DEF WorkTypeOK, ThreadInv, Threads
  <1>5. OwnDomain'
    BY DEF WorkTypeOK, MutexInv, CounterInv, OwnDomain, Busy
  <1>6. InOrder'
    BY DEF WorkTypeOK, CounterInv, InOrder
  <1> QED BY <1>1, <1>2, <1>3, <1>4, <1>5, <1>6

\* worker_thread or start_threads keeps the invariant: a spurious wake-up.
LEMMA SpuriousWakeupIInv == ASSUME WorkInv, NEW t \in Threads, SpuriousWakeup(t) PROVE WorkInv'
  <1> USE NumbersAssumption, NobodyAssumption, ThreadsAreNumbers DEF WorkInv, SpuriousWakeup, Goto, At, Alive, mainVars
  <1>1. WorkTypeOK'
    BY DEF WorkTypeOK, Steps
  <1>2. MutexInv'
    BY DEF WorkTypeOK, MutexInv
  <1>3. CounterInv'
    BY DEF WorkTypeOK, MutexInv, CounterInv, OwnDomain, Busy
  <1>4. ThreadInv'
    BY DEF WorkTypeOK, ThreadInv, Threads
  <1>5. OwnDomain'
    BY DEF WorkTypeOK, MutexInv, CounterInv, OwnDomain, Busy
  <1>6. InOrder'
    BY DEF WorkTypeOK, CounterInv, InOrder
  <1> QED BY <1>1, <1>2, <1>3, <1>4, <1>5, <1>6

\* worker_thread or start_threads keeps the invariant: printing and retiring a domain, with the broadcast.
LEMMA RetireDomainIInv == ASSUME WorkInv, NEW t \in Threads, RetireDomain(t) PROVE WorkInv'
  <1> USE NumbersAssumption, NobodyAssumption, ThreadsAreNumbers DEF WorkInv, RetireDomain, At, Alive, mainVars
  <1>1. WorkTypeOK'
    BY DEF WorkTypeOK, Steps
  <1>2. MutexInv'
    BY DEF WorkTypeOK, MutexInv
  <1>a. /\ dom' = dom /\ next_domain_to_take' = next_domain_to_take
        /\ next_domain_to_retire' = dom[t] + 1 /\ dom[t] = next_domain_to_retire /\ Busy(t)
    BY DEF CounterInv, Busy
  <1>b. \A u \in Threads : (Busy(u))' => Busy(u) /\ u # t
    BY DEF WorkTypeOK, ThreadInv, Busy
  <1>c. \A u \in Threads : pc'[u] # "print" /\ (pc'[u] = "write" => pc[u] = "write")
    BY DEF WorkTypeOK, MutexInv
  <1>3. CounterInv'
    <2>1. dom[t] < next_domain_to_take
      BY <1>a DEF OwnDomain
    <2> QED BY <1>a, <1>b, <1>c, <2>1 DEF WorkTypeOK, CounterInv
  <1>4. ThreadInv'
    BY DEF WorkTypeOK, ThreadInv, Threads
  <1>5. OwnDomain'
    <2>1. \A u \in Threads : (Busy(u))' => dom[t] < dom[u] /\ dom[u] < next_domain_to_take
      BY <1>a, <1>b DEF WorkTypeOK, OwnDomain
    <2> QED BY <1>a, <1>b, <2>1 DEF WorkTypeOK, OwnDomain
  <1>6. InOrder'
    BY DEF WorkTypeOK, CounterInv, InOrder
  <1> QED BY <1>1, <1>2, <1>3, <1>4, <1>5, <1>6

\* worker_thread or start_threads keeps the invariant: pthread_create of the next worker.
LEMMA CreateIInv == ASSUME WorkInv, Create PROVE WorkInv'
  <1> USE NumbersAssumption, NobodyAssumption, ThreadsAreNumbers DEF WorkInv, Create, shared
  <1>1. WorkTypeOK'
    <2>1. pc' \in [Threads -> Steps]
      BY DEF WorkTypeOK, Steps
    <2>2. index' \in Nat \ {0} /\ main' \in {"create", "join", "returned", "exited"}
      BY DEF WorkTypeOK
    <2> QED BY <2>1, <2>2 DEF WorkTypeOK
  <1>2. MutexInv'
    BY DEF WorkTypeOK, MutexInv
  <1>3. CounterInv'
    BY DEF WorkTypeOK, MutexInv, CounterInv, OwnDomain, Busy
  <1>4. ThreadInv'
    <2>1. CASE index <= nr_threads
      <3>1. index \in Threads /\ pc[index] = "none"
        BY <2>1 DEF WorkTypeOK, ThreadInv, Threads
      <3> QED BY <2>1, <3>1 DEF WorkTypeOK, ThreadInv
    <2>2. CASE index > nr_threads
      BY <2>2 DEF WorkTypeOK, ThreadInv, Threads
    <2> QED BY <2>1, <2>2 DEF WorkTypeOK
  <1>5. OwnDomain'
    <2>1. \A u \in Threads : (Busy(u))' => Busy(u)
      BY DEF WorkTypeOK, Busy
    <2>2. UNCHANGED <<dom, next_domain_to_take, next_domain_to_retire>>
      OBVIOUS
    <2> QED BY <2>1, <2>2 DEF OwnDomain
  <1>6. InOrder'
    BY DEF WorkTypeOK, CounterInv, InOrder
  <1> QED BY <1>1, <1>2, <1>3, <1>4, <1>5, <1>6

\* worker_thread or start_threads keeps the invariant: pthread_create fails and the process exits.
LEMMA CreateFailsIInv == ASSUME WorkInv, CreateFails PROVE WorkInv'
  <1> USE NumbersAssumption, NobodyAssumption, ThreadsAreNumbers DEF WorkInv, CreateFails, shared
  <1>1. WorkTypeOK'
    BY DEF WorkTypeOK
  <1>2. MutexInv'
    BY DEF WorkTypeOK, MutexInv
  <1>3. CounterInv'
    BY DEF WorkTypeOK, MutexInv, CounterInv, OwnDomain, Busy
  <1>4. ThreadInv'
    BY DEF WorkTypeOK, ThreadInv, Threads
  <1>5. OwnDomain'
    BY DEF WorkTypeOK, MutexInv, CounterInv, OwnDomain, Busy
  <1>6. InOrder'
    BY DEF WorkTypeOK, CounterInv, InOrder
  <1> QED BY <1>1, <1>2, <1>3, <1>4, <1>5, <1>6

\* worker_thread or start_threads keeps the invariant: pthread_join of the next worker, or the return.
LEMMA JoinIInv == ASSUME WorkInv, Join PROVE WorkInv'
  <1> USE NumbersAssumption, NobodyAssumption, ThreadsAreNumbers DEF WorkInv, Join, shared
  <1>1. WorkTypeOK'
    <2>1. index <= nr_threads => thread_r[index] \in Nat
      <3>1. index \in Nat \ {0} /\ thread_r \in [Threads -> {0, 1}]
        BY DEF WorkTypeOK
      <3> HIDE DEF WorkInv, Join
      <3>2. index <= nr_threads => index \in Threads
        BY <3>1 DEF Threads
      <3> QED BY <3>1, <3>2
    <2>2. /\ errors' \in Nat /\ index' \in Nat \ {0}
          /\ main' \in {"create", "join", "returned", "exited"}
      BY <2>1 DEF WorkTypeOK
    <2>3. UNCHANGED <<next_domain_to_take, next_domain_to_retire, take_mutex, retire_mutex, waiting,
                      printed, pc, dom, thread_r, wakeups>>
      OBVIOUS
    <2> QED BY <2>2, <2>3 DEF WorkTypeOK
  <1>2. MutexInv'
    BY DEF WorkTypeOK, MutexInv
  <1>3. CounterInv'
    BY DEF WorkTypeOK, MutexInv, CounterInv, OwnDomain, Busy
  <1>4. ThreadInv'
    BY DEF WorkTypeOK, ThreadInv, Threads
  <1>5. OwnDomain'
    BY DEF WorkTypeOK, MutexInv, CounterInv, OwnDomain, Busy
  <1>6. InOrder'
    BY DEF WorkTypeOK, CounterInv, InOrder
  <1> QED BY <1>1, <1>2, <1>3, <1>4, <1>5, <1>6

-----------------------------------------------------------------------------

\* Every step of the threads keeps the invariant.
LEMMA WorkNextInv == WorkInv /\ [WorkNext]_workVars => WorkInv'
  <1> SUFFICES ASSUME WorkInv, [WorkNext]_workVars PROVE WorkInv'
    OBVIOUS
  <1>1. CASE Create BY <1>1, CreateIInv
  <1>2. CASE CreateFails BY <1>2, CreateFailsIInv
  <1>3. CASE Join BY <1>3, JoinIInv
  <1>4. ASSUME NEW t \in Threads, worker_thread(t) PROVE WorkInv'
    BY <1>4, LockTakeIInv, ReadNextIInv, WriteNextIInv, WorkIInv, LockRetireIInv, CheckIInv, RetireDomainIInv
       DEF worker_thread
  <1>5. ASSUME NEW t \in Threads, LockFails(t) \/ WaitFails(t) \/ SpuriousWakeup(t) PROVE WorkInv'
    BY <1>5, LockFailsIInv, WaitFailsIInv, SpuriousWakeupIInv
  <1>6. CASE UNCHANGED workVars
    BY <1>6 DEF workVars, shared, mainVars, WorkInv, WorkTypeOK, MutexInv, CounterInv, ThreadInv, OwnDomain, Busy,
                InOrder
  <1> QED BY <1>1, <1>2, <1>3, <1>4, <1>5, <1>6 DEF WorkNext

\* The invariant holds in every state of df/parallel.c.
LEMMA SpecIInv == WorkSpec => []WorkInv
  BY WorkInitInv, WorkNextInv, PTL DEF WorkSpec

\* For any number of domains, workers and spurious wake-ups, and whichever calls fail, the workers
\* of df/parallel.c print the output of the domains in the order of the list, each once.
THEOREM ParallelInOrder == WorkSpec => []InOrder
  BY SpecIInv, PTL DEF WorkInv

\* For any number of domains and workers, no two workers of df/parallel.c have the same domain and
\* none has one that was retired.
THEOREM ParallelOwnDomain == WorkSpec => []OwnDomain
  BY SpecIInv, PTL DEF WorkInv

-----------------------------------------------------------------------------

\* No domain is lost: while no worker has met an error, every domain that was taken and is not
\* retired is with a worker.
NoDomainLost ==
  (\A t \in Threads : thread_r[t] = 0) =>
    \A d \in next_domain_to_retire..next_domain_to_take :
      d < next_domain_to_take /\ d < nr_domains => \E t \in Threads : Busy(t) /\ dom[t] = d

\* A worker that is done without an error has found no domain left.
DoneMeansNoneLeft ==
  \A t \in Threads : pc[t] = "done" /\ thread_r[t] = 0 => nr_domains < next_domain_to_take

\* The main thread has counted the errors of the threads it has joined.
ErrorsCounted ==
  /\ errors # 0 => \E t \in Threads : thread_r[t] = 1
  /\ main = "create" => errors = 0
  /\ main = "join" => \A t \in Threads : t < index /\ errors = 0 => thread_r[t] = 0
  /\ main = "returned" => \A t \in Threads : errors = 0 => thread_r[t] = 0

RInv == next_domain_to_retire <= nr_domains /\ NoDomainLost /\ DoneMeansNoneLeft /\ ErrorsCounted

\* Nothing is taken and nobody is done when start_threads is called.
LEMMA InitRInv == WorkInit => RInv
  BY NumbersAssumption DEF WorkInit, RInv, NoDomainLost, DoneMeansNoneLeft, ErrorsCounted

\* A step that leaves the counters, thread_r of the others and the domains of the busy workers alone loses no
\* domain.
LEMMA KeepsDomains ==
  ASSUME NoDomainLost, UNCHANGED <<next_domain_to_take, next_domain_to_retire>>,
         \A t \in Threads : thread_r'[t] = 0 => thread_r[t] = 0,
         (\A t \in Threads : thread_r'[t] = 0) => \A t \in Threads : Busy(t) => (Busy(t))' /\ dom'[t] = dom[t]
  PROVE  NoDomainLost'
  BY DEF NoDomainLost

\* The steps of a worker that neither retire a domain nor take one lose none.
LEMMA WorkerRInv ==
  ASSUME WorkInv, RInv, NEW t \in Threads,
         LockTake(t) \/ ReadNext(t) \/ Work(t) \/ LockRetire(t) \/ Check(t) \/ LockFails(t) \/ WaitFails(t)
           \/ SpuriousWakeup(t)
  PROVE  RInv'
  <1> USE DEF LockTake, ReadNext, Work, LockRetire, Check, LockFails, WaitFails, SpuriousWakeup, GiveUp, Goto,
              At, Alive, shared, mainVars
  <1>1. UNCHANGED <<next_domain_to_take, next_domain_to_retire, main, index, errors>>
    OBVIOUS
  <1>2. \A v \in Threads : thread_r'[v] \in {0, 1} /\ (thread_r[v] = 1 => thread_r'[v] = 1)
    BY Zenon DEF WorkInv, WorkTypeOK
  <1>3. \A v \in Threads : v # t => thread_r'[v] = thread_r[v] /\ pc'[v] = pc[v] /\ dom'[v] = dom[v]
    BY Zenon DEF WorkInv, WorkTypeOK
  <1>4. pc[t] # "done" /\ (thread_r'[t] = 0 => pc'[t] # "done")
    BY DEF WorkInv, WorkTypeOK
  <1>5. thread_r'[t] = 0 => (Busy(t) => (Busy(t))' /\ dom'[t] = dom[t])
    BY DEF WorkInv, WorkTypeOK, Busy
  <1>6. NoDomainLost'
    <2>1. \A v \in Threads : thread_r'[v] = 0 => thread_r[v] = 0
      BY <1>2, Zenon DEF WorkInv, WorkTypeOK
    <2>2. \A v \in Threads : v # t => (Busy(v) => (Busy(v))' /\ dom'[v] = dom[v])
      BY <1>3 DEF Busy
    <2> QED BY <1>1, <1>5, <2>1, <2>2, KeepsDomains, Zenon DEF RInv
  <1>7. DoneMeansNoneLeft'
    BY <1>1, <1>3, <1>4, Zenon DEF RInv, DoneMeansNoneLeft
  <1>8. ErrorsCounted'
    <2>1. \A v \in Threads : v # t \/ (~(main = "join" /\ v < index) /\ main # "returned")
      BY <1>4, Zenon DEF WorkInv, ThreadInv
    <2> QED BY <1>1, <1>2, <1>3, <2>1, Zenon DEF RInv, ErrorsCounted
  <1> QED BY <1>1, <1>6, <1>7, <1>8, Zenon DEF RInv

\* A worker that takes a domain has it, and one that finds none left is past the last.
LEMMA WriteNextRInv == ASSUME WorkInv, RInv, NEW t \in Threads, WriteNext(t) PROVE RInv'
  <1> USE NumbersAssumption DEF WriteNext, Goto, At, Alive, mainVars
  <1>1. /\ UNCHANGED <<next_domain_to_retire, main, index, errors, thread_r, dom>>
        /\ dom[t] = next_domain_to_take /\ next_domain_to_take' = next_domain_to_take + 1
        /\ next_domain_to_take \in Nat /\ next_domain_to_retire \in Nat
    BY DEF WorkInv, CounterInv, WorkTypeOK
  <1>2. \A v \in Threads : v # t => pc'[v] = pc[v]
    BY DEF WorkInv, WorkTypeOK
  <1>3. pc[t] = "write" /\ pc'[t] = IF dom[t] >= nr_domains THEN "done" ELSE "work"
    BY DEF WorkInv, WorkTypeOK
  <1>4. NoDomainLost'
    <2> SUFFICES ASSUME \A v \in Threads : thread_r[v] = 0, NEW d \in next_domain_to_retire..(next_domain_to_take + 1),
                        d < next_domain_to_take + 1, d < nr_domains
                 PROVE  \E v \in Threads : (Busy(v))' /\ dom[v] = d
      BY <1>1 DEF NoDomainLost
    <2>1. CASE d = next_domain_to_take
      BY <1>1, <1>3, <2>1 DEF Busy
    <2>2. CASE d < next_domain_to_take
      <3>1. PICK v \in Threads : Busy(v) /\ dom[v] = d
        BY <1>1, <2>2 DEF RInv, NoDomainLost
      <3>2. v # t
        BY <1>3, <3>1 DEF Busy
      <3> QED BY <1>2, <3>1, <3>2 DEF Busy
    <2> QED BY <1>1, <2>1, <2>2
  <1>5. DoneMeansNoneLeft'
    <2>1. pc'[t] = "done" => nr_domains < next_domain_to_take'
      BY <1>1, <1>3
    <2> QED BY <1>1, <1>2, <2>1 DEF RInv, DoneMeansNoneLeft
  <1>6. ErrorsCounted'
    BY <1>1 DEF RInv, ErrorsCounted
  <1> QED BY <1>1, <1>4, <1>5, <1>6, Zenon DEF RInv

\* A worker that retires a domain retires the first that is not retired, and no other worker's.
LEMMA RetireDomainRInv == ASSUME WorkInv, RInv, NEW t \in Threads, RetireDomain(t) PROVE RInv'
  <1> USE NumbersAssumption DEF RetireDomain, At, Alive, mainVars
  <1>1. /\ UNCHANGED <<next_domain_to_take, main, index, errors, thread_r, dom>>
        /\ dom[t] = next_domain_to_retire /\ next_domain_to_retire' = next_domain_to_retire + 1
        /\ next_domain_to_take \in Nat /\ next_domain_to_retire \in Nat /\ dom[t] < nr_domains
    BY DEF WorkInv, CounterInv, WorkTypeOK, Busy
  <1>2. \A v \in Threads : v # t /\ Busy(v) => (Busy(v))'
    BY DEF WorkInv, WorkTypeOK, Busy
  <1>3. \A v \in Threads : pc'[v] = "done" => pc[v] = "done"
    BY DEF WorkInv, WorkTypeOK
  <1>4. NoDomainLost'
    <2> SUFFICES ASSUME \A v \in Threads : thread_r[v] = 0, NEW d \in (next_domain_to_retire + 1)..next_domain_to_take,
                        d < next_domain_to_take, d < nr_domains
                 PROVE  \E v \in Threads : (Busy(v))' /\ dom[v] = d
      BY <1>1 DEF NoDomainLost
    <2>1. PICK v \in Threads : Busy(v) /\ dom[v] = d
      BY <1>1 DEF RInv, NoDomainLost
    <2>2. v # t
      BY <1>1, <2>1
    <2> QED BY <1>2, <2>1, <2>2, Zenon
  <1>5. DoneMeansNoneLeft'
    BY <1>1, <1>3 DEF RInv, DoneMeansNoneLeft
  <1>6. ErrorsCounted'
    BY <1>1 DEF RInv, ErrorsCounted
  <1>7. (next_domain_to_retire <= nr_domains)'
    BY <1>1
  <1> QED BY <1>4, <1>5, <1>6, <1>7 DEF RInv

\* The main thread creates workers, which have no domain yet, and counts the errors of those it joins.
LEMMA MainRInv == ASSUME WorkInv, RInv, Create \/ CreateFails \/ Join PROVE RInv'
  <1> USE NumbersAssumption, ThreadsAreNumbers DEF shared
  <1>1. UNCHANGED <<next_domain_to_take, next_domain_to_retire, thread_r, dom>>
    BY DEF Create, CreateFails, Join
  <1>2. \A v \in Threads : /\ Busy(v) => (Busy(v))'
                           /\ pc'[v] = "done" => pc[v] = "done"
    <2>1. CASE Create
      <3>1. \A v \in Threads : v >= index => pc[v] = "none"
        BY <2>1 DEF Create, WorkInv, ThreadInv
      <3>2. \A v \in Threads : pc'[v] = pc[v] \/ (v = index /\ pc'[v] = "lock_take")
        BY <2>1 DEF Create, WorkInv, WorkTypeOK
      <3> QED BY <3>1, <3>2 DEF Busy, WorkInv, WorkTypeOK
    <2>2. CASE CreateFails \/ Join
      BY <2>2 DEF CreateFails, Join, Busy
    <2> QED BY <2>1, <2>2
  <1>3. NoDomainLost'
    BY <1>1, <1>2, KeepsDomains DEF RInv
  <1>4. DoneMeansNoneLeft'
    BY <1>1, <1>2 DEF RInv, DoneMeansNoneLeft
  <1>5. ErrorsCounted'
    <2>1. CASE Create
      BY <2>1 DEF Create, RInv, ErrorsCounted, WorkInv, WorkTypeOK, Threads
    <2>2. CASE CreateFails
      BY <2>2 DEF CreateFails, RInv, ErrorsCounted
    <2>3. CASE Join /\ index <= nr_threads
      <3>1. index \in Threads /\ thread_r[index] \in {0, 1} /\ errors \in Nat
        BY <2>3 DEF WorkInv, WorkTypeOK, Threads
      <3>2. UNCHANGED <<main, thread_r>> /\ main = "join" /\ errors' = errors + thread_r[index] /\ index' = index + 1
        BY <2>3 DEF Join, WorkInv, WorkTypeOK
      <3> QED BY <3>1, <3>2 DEF RInv, ErrorsCounted, WorkInv, WorkTypeOK, Threads
    <2>4. CASE Join /\ ~(index <= nr_threads)
      BY <2>4 DEF Join, RInv, ErrorsCounted, WorkInv, WorkTypeOK, Threads
    <2> QED BY <2>1, <2>2, <2>3, <2>4
  <1> QED BY <1>1, <1>3, <1>4, <1>5 DEF RInv

\* Every step of the threads loses no domain and no error.
LEMMA NextRInv == WorkInv /\ RInv /\ [WorkNext]_workVars => RInv'
  <1> SUFFICES ASSUME WorkInv, RInv, [WorkNext]_workVars PROVE RInv'
    OBVIOUS
  <1>1. CASE Create \/ CreateFails \/ Join
    BY <1>1, MainRInv
  <1>2. ASSUME NEW t \in Threads, worker_thread(t) \/ LockFails(t) \/ WaitFails(t) \/ SpuriousWakeup(t) PROVE RInv'
    BY <1>2, WorkerRInv, WriteNextRInv, RetireDomainRInv DEF worker_thread
  <1>3. CASE UNCHANGED workVars
    BY <1>3 DEF workVars, shared, mainVars, RInv, NoDomainLost, DoneMeansNoneLeft, ErrorsCounted, Busy
  <1> QED BY <1>1, <1>2, <1>3 DEF WorkNext

\* The invariants say that start_threads returns the truth: all workers are done, so none is busy.
LEMMA RInvResult == WorkInv /\ RInv => ResultIsTrue
  <1> SUFFICES ASSUME WorkInv, RInv, main = "returned" 
               PROVE  /\ errors = 0 => next_domain_to_retire = nr_domains /\ \A t \in Threads : thread_r[t] = 0
                      /\ errors # 0 => \E t \in Threads : thread_r[t] = 1
    BY DEF ResultIsTrue
  <1>1. CASE errors = 0
    <2>1. \A t \in Threads : pc[t] = "done" /\ thread_r[t] = 0
      BY <1>1 DEF WorkInv, ThreadInv, RInv, ErrorsCounted
    <2>2. CASE nr_domains = 0
      BY <1>1, <2>1, <2>2, NumbersAssumption DEF RInv, WorkInv, WorkTypeOK
    <2>3. CASE nr_domains > 0
      <3>1. 1 \in Threads
        BY <2>3, NumbersAssumption DEF Threads, nr_threads, AtMost, MAX_THREADS
      <3>2. nr_domains < next_domain_to_take
        BY <2>1, <3>1 DEF RInv, DoneMeansNoneLeft
      <3>3. ~(next_domain_to_retire < nr_domains)
        <4> SUFFICES ASSUME next_domain_to_retire < nr_domains PROVE FALSE
          OBVIOUS
        <4>1. next_domain_to_retire \in Nat /\ next_domain_to_take \in Nat
          BY DEF WorkInv, WorkTypeOK
        <4>2. next_domain_to_retire \in next_domain_to_retire..next_domain_to_take
          BY <3>2, <4>1, NumbersAssumption
        <4>3. \E t \in Threads : Busy(t)
          BY <2>1, <3>2, <4>1, <4>2, NumbersAssumption DEF RInv, NoDomainLost
        <4> QED BY <2>1, <4>3 DEF Busy
      <3> QED BY <1>1, <2>1, <3>3, NumbersAssumption DEF RInv, WorkInv, WorkTypeOK
    <2> QED BY <2>2, <2>3, NumbersAssumption
  <1>2. CASE errors # 0
    BY <1>2 DEF RInv, ErrorsCounted
  <1> QED BY <1>1, <1>2

\* For any number of domains and workers and whichever calls fail, start_threads of df/parallel.c
\* returns 0 only if every domain was worked on and printed, and -1 only if some worker met an error.
THEOREM ParallelResultIsTrue == WorkSpec => []ResultIsTrue
  BY WorkInitInv, WorkNextInv, InitRInv, NextRInv, RInvResult, PTL DEF WorkSpec

-----------------------------------------------------------------------------

\* Every step of the threads of df/parallel.c is a step of a program that prints the next domain or
\* returns, or changes nothing that this program shows.
LEMMA StepRefines == WorkInv /\ [WorkNext]_workVars => [Output!OutputNext]_Output!outputVars
  <1> SUFFICES ASSUME WorkInv, [WorkNext]_workVars PROVE [Output!OutputNext]_Output!outputVars
    OBVIOUS
  <1> USE DEF Output!OutputNext, Output!outputVars, Output!PrintNext, Output!Return
  <1>1. CASE Create BY <1>1 DEF Create, shared
  <1>2. CASE CreateFails BY <1>2 DEF CreateFails, shared
  <1>3. CASE Join BY <1>3 DEF Join, shared
  <1>4. ASSUME NEW t \in Threads, RetireDomain(t) PROVE Output!PrintNext
    <2>1. dom[t] = next_domain_to_retire /\ dom[t] < nr_domains
      BY <1>4 DEF RetireDomain, At, WorkInv, CounterInv, Busy
    <2>2. main \notin {"returned", "exited"}
      BY <1>4 DEF RetireDomain, At, Alive, WorkInv, ThreadInv
    <2> QED BY <1>4, <2>1, <2>2 DEF RetireDomain, mainVars
  <1>5. ASSUME NEW t \in Threads, worker_thread(t), ~RetireDomain(t) PROVE UNCHANGED Output!outputVars
    BY <1>5 DEF worker_thread, LockTake, ReadNext, WriteNext, Work, LockRetire, Check, shared, mainVars
  <1>6. ASSUME NEW t \in Threads, LockFails(t) \/ WaitFails(t) \/ SpuriousWakeup(t)
        PROVE UNCHANGED Output!outputVars
    BY <1>6 DEF LockFails, WaitFails, SpuriousWakeup, shared, mainVars
  <1>7. CASE UNCHANGED workVars BY <1>7 DEF workVars, shared, mainVars
  <1> QED BY <1>1, <1>2, <1>3, <1>4, <1>5, <1>6, <1>7, Zenon DEF WorkNext

\* For any number of domains and workers, what start_threads of df/parallel.c prints and when it
\* returns is what a sequential program that prints domain after domain would do.
THEOREM ParallelRefines == WorkSpec => ImplementsOutput
  <1>1. WorkInit => Output!OutputInit
    BY DEF WorkInit, Output!OutputInit
  <1> QED BY <1>1, SpecIInv, StepRefines, PTL DEF WorkSpec, ImplementsOutput, Output!OutputSpec

-----------------------------------------------------------------------------
(* guestmount and guestunmount *)

MountConstants == OptionsAssumption /\ RetriesAssumption /\ NoneAssumption

\* Where the processes stand, and guestunmount, whose tries are counted.
KindsInv ==
  /\ opts \in OptionsType
  /\ gm \in {"mount_local", "daemonize", "pid_file", "pipe_fd", "done"}
  /\ wk \in {"none", "setsid", "run", "loop", "sync", "shutdown", "wait", "close", "unlink", "done"}
  /\ un = [pc |-> un.pc, i |-> un.i, retries |-> un.retries, slept |-> un.slept, absent |-> un.absent,
           status |-> un.status]
  /\ un.i \in Nat /\ un.retries \in Nat
  /\ un.pc \in {"idle", "poll", "try", "sleep"} => un.i <= un.retries

\* There is a worker only after the fork, or once the command itself has become the worker.
ForkInv ==
  /\ gm \in {"mount_local", "daemonize"} => wk = "none"
  /\ ~opts.fork /\ gm # "done" => wk = "none"
  /\ wk = "setsid" => opts.fork

\* Nobody stops the hypervisor before the worker shuts it down, or there will be no worker; without a
\* fork it has been waited for.
QemuInv ==
  /\ qemu \in {"term", "gone"} => wk \in {"wait", "close", "unlink", "done"} \/ (gm = "done" /\ wk = "none")
  /\ ~opts.fork /\ wk \in {"close", "unlink", "done"} => qemu \in {"gone", "dead"}

\* Before the cleanup child_cleanup has run only for a dead hypervisor, and while no error has been met
\* it was a program that had the error.
StateInv ==
  /\ state = "CONFIG" => wk \notin {"none", "setsid", "run"}
  /\ state = "CONFIG" => qemu = "dead" \/ wk \in {"close", "unlink", "done"}
  /\ r = 0 /\ state = "CONFIG" /\ wk \in {"loop", "sync"} => told
  /\ told => qemu = "dead"

\* The PID file is written before the command returns.
PidInv == opts.pid_file /\ gm = "pipe_fd" /\ wk # "done" => pid_file = "worker"

\* While no error has been met, the mount is gone once the loop has ended, and the data is in the disk
\* image once the worker has synced, unless a program has had an error.
SyncInv ==
  /\ r = 0 /\ wk \in {"sync", "shutdown", "wait", "close", "unlink", "done"} /\ status.wk # 1 => ~localmountpoint
  /\ r = 0 /\ wk \in {"shutdown", "wait", "close", "unlink", "done"} /\ status.wk # 1 => (opts.sync /\ dirty => told)
  /\ wk \in {"unlink", "done"} => "wk" \notin chan
  /\ status.wk # None => wk = "done"
  /\ status.wk = 0 => r = 0

MountInv ==
  TypeOK /\ KindsInv /\ ForkInv /\ QemuInv /\ StateInv /\ PidInv /\ SyncInv /\ PidFileKept

-----------------------------------------------------------------------------

\* The invariant holds when guestmount is started.
LEMMA MountInitInv == ASSUME MountConstants, Init PROVE MountInv
  <1>1. TypeOK
    <2>1. status \in [{"gm", "wk"} -> {0, 1, None}]
      BY DEF Init
    <2>2. un.i \in 0..un.retries + 1
      BY DEF Init, Fresh
    <2> QED BY <2>1, <2>2, Zenon DEF Init, TypeOK
  <1>2. KindsInv
    <2>1. un = Fresh /\ opts \in OptionsType
      BY DEF MountConstants, OptionsAssumption, Init
    <2>2. un = [pc |-> un.pc, i |-> un.i, retries |-> un.retries, slept |-> un.slept, absent |-> un.absent,
                status |-> un.status]
      BY <2>1 DEF Fresh
    <2> QED BY <2>1, <2>2 DEF Init, Fresh, KindsInv
  <1>3. ForkInv /\ QemuInv /\ StateInv /\ PidInv /\ SyncInv /\ PidFileKept
    BY DEF MountConstants, NoneAssumption, Init, ForkInv, QemuInv, StateInv, PidInv, SyncInv, PidFileKept
  <1> QED BY <1>1, <1>2, <1>3 DEF MountInv

\* The invariant says what is promised.
LEMMA IInvSafe == ASSUME MountConstants, MountInv PROVE MountIsSafe
  BY DEF MountConstants, NoneAssumption, MountInv, TypeOK, KindsInv, ForkInv, QemuInv, StateInv, PidInv, SyncInv, MountIsSafe, Served,
         SuccessIsSynced, CaptiveIsSafe

\* guestfs_mount_local makes the mount, or guestmount exits.
LEMMA MountLocalIInv == ASSUME MountConstants, MountInv, guestfs__mount_local PROVE MountInv'
  <1> USE DEF MountConstants, NoneAssumption, MountInv, guestfs__mount_local, ExitFailure, Terminated, guestfs___free_fuse
  <1>a. /\ localmountpoint' \in BOOLEAN /\ mounted' \in BOOLEAN /\ busy' \in BOOLEAN
        /\ dirty' \in BOOLEAN /\ ready' \in BOOLEAN /\ program' \in BOOLEAN /\ told' \in BOOLEAN
    BY Zenon DEF TypeOK
  <1>1. TypeOK'
    BY <1>a DEF TypeOK, KindsInv, OptionsType
  <1>2. KindsInv'
    BY DEF KindsInv
  <1>3. ForkInv' /\ QemuInv'
    BY Zenon DEF TypeOK, KindsInv, OptionsType, ForkInv, QemuInv
  <1>4. PidInv' /\ PidFileKept'
    BY DEF TypeOK, KindsInv, OptionsType, ForkInv, PidInv, PidFileKept
  <1>5. SyncInv'
    BY DEF TypeOK, KindsInv, OptionsType, ForkInv, StateInv, SyncInv
  <1>6. StateInv'
    BY DEF TypeOK, KindsInv, OptionsType, ForkInv, QemuInv, StateInv
  <1> QED BY <1>1, <1>2, <1>3, <1>4, <1>5, <1>6

\* guestmount forks, or exits.
LEMMA DaemonizeIInv == ASSUME MountConstants, MountInv, Daemonize PROVE MountInv'
  <1> USE DEF MountConstants, NoneAssumption, MountInv, Daemonize, ExitFailure, Terminated, guestfs___free_fuse
  <1>a. /\ localmountpoint' \in BOOLEAN /\ mounted' \in BOOLEAN /\ busy' \in BOOLEAN
        /\ dirty' \in BOOLEAN /\ ready' \in BOOLEAN /\ program' \in BOOLEAN /\ told' \in BOOLEAN
    BY DEF TypeOK
  <1>1. TypeOK'
    BY <1>a, Zenon DEF TypeOK, KindsInv, OptionsType
  <1>2. KindsInv'
    BY DEF KindsInv
  <1>3. ForkInv' /\ QemuInv'
    BY DEF TypeOK, KindsInv, OptionsType, ForkInv, QemuInv
  <1>4. PidInv' /\ PidFileKept'
    BY DEF TypeOK, KindsInv, OptionsType, ForkInv, PidInv, PidFileKept
  <1>5. SyncInv'
    BY Zenon DEF TypeOK, KindsInv, OptionsType, ForkInv, StateInv, SyncInv
  <1>6. StateInv'
    BY DEF TypeOK, KindsInv, OptionsType, ForkInv, QemuInv, StateInv
  <1> QED BY <1>1, <1>2, <1>3, <1>4, <1>5, <1>6

\* The parent writes the PID file, or exits.
LEMMA WritePidFileIInv == ASSUME MountConstants, MountInv, write_pid_file PROVE MountInv'
  <1> USE DEF MountConstants, NoneAssumption, MountInv, write_pid_file, ParentFails, ExitFailure, Terminated, guestfs___free_fuse
  <1>a. /\ localmountpoint' \in BOOLEAN /\ mounted' \in BOOLEAN /\ busy' \in BOOLEAN
        /\ dirty' \in BOOLEAN /\ ready' \in BOOLEAN /\ program' \in BOOLEAN /\ told' \in BOOLEAN
    BY DEF TypeOK
  <1>1. TypeOK'
    BY <1>a DEF TypeOK, KindsInv, OptionsType
  <1>2. KindsInv'
    BY DEF KindsInv
  <1>3. ForkInv' /\ QemuInv'
    BY DEF TypeOK, KindsInv, OptionsType, ForkInv, QemuInv
  <1>4. PidInv' /\ PidFileKept'
    BY DEF TypeOK, KindsInv, OptionsType, ForkInv, PidInv, PidFileKept
  <1>5. SyncInv'
    BY DEF TypeOK, KindsInv, OptionsType, ForkInv, StateInv, SyncInv
  <1>6. StateInv'
    BY DEF TypeOK, KindsInv, OptionsType, ForkInv, QemuInv, StateInv
  <1> QED BY <1>1, <1>2, <1>3, <1>4, <1>5, <1>6

\* The parent writes the byte to the pipe and ends, or goes on as the worker.
LEMMA WritePipeFdIInv == ASSUME MountConstants, MountInv, write_pipe_fd PROVE MountInv'
  <1> USE DEF MountConstants, NoneAssumption, MountInv, write_pipe_fd, ParentFails, ExitFailure, Terminated, guestfs___free_fuse
  <1>a. /\ localmountpoint' \in BOOLEAN /\ mounted' \in BOOLEAN /\ busy' \in BOOLEAN
        /\ dirty' \in BOOLEAN /\ ready' \in BOOLEAN /\ program' \in BOOLEAN /\ told' \in BOOLEAN
    BY Zenon DEF TypeOK
  <1>1. TypeOK'
    BY <1>a DEF TypeOK, KindsInv, OptionsType
  <1>2. KindsInv'
    BY DEF KindsInv
  <1>3. ForkInv' /\ QemuInv'
    BY DEF TypeOK, KindsInv, OptionsType, ForkInv, QemuInv
  <1>4. PidInv' /\ PidFileKept'
    BY DEF TypeOK, KindsInv, OptionsType, ForkInv, PidInv, PidFileKept
  <1>5. SyncInv'
    BY DEF TypeOK, KindsInv, OptionsType, ForkInv, StateInv, SyncInv
  <1>6. StateInv'
    BY DEF TypeOK, KindsInv, OptionsType, ForkInv, QemuInv, StateInv
  <1> QED BY <1>1, <1>2, <1>3, <1>4, <1>5, <1>6

\* The worker leaves the session of its parent, or exits.
LEMMA SetsidIInv == ASSUME MountConstants, MountInv, Setsid PROVE MountInv'
  <1> USE DEF MountConstants, NoneAssumption, MountInv, Setsid, ExitFailure, Terminated, guestfs___free_fuse
  <1>a. /\ localmountpoint' \in BOOLEAN /\ mounted' \in BOOLEAN /\ busy' \in BOOLEAN
        /\ dirty' \in BOOLEAN /\ ready' \in BOOLEAN /\ program' \in BOOLEAN /\ told' \in BOOLEAN
    BY DEF TypeOK
  <1>1. TypeOK'
    BY <1>a, Zenon DEF TypeOK, KindsInv, OptionsType
  <1>2. KindsInv'
    BY DEF KindsInv
  <1>3. ForkInv' /\ QemuInv'
    BY DEF TypeOK, KindsInv, OptionsType, ForkInv, QemuInv
  <1>4. PidInv' /\ PidFileKept'
    BY DEF TypeOK, KindsInv, OptionsType, ForkInv, PidInv, PidFileKept
  <1>5. SyncInv'
    BY DEF TypeOK, KindsInv, OptionsType, ForkInv, StateInv, SyncInv
  <1>6. StateInv'
    BY DEF TypeOK, KindsInv, OptionsType, ForkInv, QemuInv, StateInv
  <1> QED BY <1>1, <1>2, <1>3, <1>4, <1>5, <1>6

\* guestfs_mount_local_run begins to serve, or refuses to.
LEMMA MountLocalRunIInv == ASSUME MountConstants, MountInv, guestfs__mount_local_run PROVE MountInv'
  <1> USE DEF MountConstants, NoneAssumption, MountInv, guestfs__mount_local_run, child_cleanup, ForkInv
  <1>a. /\ localmountpoint' \in BOOLEAN /\ mounted' \in BOOLEAN /\ busy' \in BOOLEAN
        /\ dirty' \in BOOLEAN /\ ready' \in BOOLEAN /\ program' \in BOOLEAN /\ told' \in BOOLEAN
    BY DEF TypeOK
  <1>1. TypeOK'
    BY <1>a, Zenon DEF TypeOK, KindsInv, OptionsType
  <1>2. KindsInv'
    BY DEF KindsInv
  <1>3. ForkInv' /\ QemuInv'
    BY Zenon DEF TypeOK, KindsInv, OptionsType, ForkInv, QemuInv
  <1>4. PidInv' /\ PidFileKept'
    BY DEF TypeOK, KindsInv, OptionsType, ForkInv, PidInv, PidFileKept
  <1>5. SyncInv'
    BY DEF TypeOK, KindsInv, OptionsType, ForkInv, StateInv, SyncInv
  <1>6. StateInv'
    BY DEF TypeOK, KindsInv, OptionsType, ForkInv, QemuInv, StateInv
  <1> QED BY <1>1, <1>2, <1>3, <1>4, <1>5, <1>6

\* fuse_loop returns.
LEMMA LoopEndsIInv == ASSUME MountConstants, MountInv, LoopEnds PROVE MountInv'
  <1> USE DEF MountConstants, NoneAssumption, MountInv, LoopEnds, guestfs___free_fuse
  <1>a. /\ localmountpoint' \in BOOLEAN /\ mounted' \in BOOLEAN /\ busy' \in BOOLEAN
        /\ dirty' \in BOOLEAN /\ ready' \in BOOLEAN /\ program' \in BOOLEAN /\ told' \in BOOLEAN
    BY Zenon DEF TypeOK
  <1>1. TypeOK'
    BY <1>a, Zenon DEF TypeOK, KindsInv, OptionsType
  <1>2. KindsInv'
    BY DEF KindsInv
  <1>3. ForkInv' /\ QemuInv'
    BY Zenon DEF TypeOK, KindsInv, OptionsType, ForkInv, QemuInv
  <1>4. PidInv' /\ PidFileKept'
    BY Zenon DEF TypeOK, KindsInv, OptionsType, ForkInv, PidInv, PidFileKept
  <1>5. SyncInv'
    BY Zenon DEF TypeOK, KindsInv, OptionsType, ForkInv, StateInv, SyncInv
  <1>6. StateInv'
    BY Zenon DEF TypeOK, KindsInv, OptionsType, ForkInv, QemuInv, StateInv
  <1> QED BY <1>1, <1>2, <1>3, <1>4, <1>5, <1>6

\* guestfs_shutdown syncs the guest.
LEMMA SyncIInv == ASSUME MountConstants, MountInv, Sync PROVE MountInv'
  <1> USE DEF MountConstants, NoneAssumption, MountInv, Sync, child_cleanup, ForkInv
  <1>a. /\ localmountpoint' \in BOOLEAN /\ mounted' \in BOOLEAN /\ busy' \in BOOLEAN
        /\ dirty' \in BOOLEAN /\ ready' \in BOOLEAN /\ program' \in BOOLEAN /\ told' \in BOOLEAN
    BY Zenon DEF TypeOK
  <1>1. TypeOK'
    BY <1>a, Zenon DEF TypeOK, KindsInv, OptionsType
  <1>2. KindsInv'
    BY Zenon DEF KindsInv
  <1>3. ForkInv' /\ QemuInv'
    BY Zenon DEF TypeOK, KindsInv, OptionsType, ForkInv, QemuInv, StateInv
  <1>4. PidInv' /\ PidFileKept'
    BY Zenon DEF TypeOK, KindsInv, OptionsType, ForkInv, PidInv, PidFileKept
  <1>5. SyncInv'
    BY DEF TypeOK, KindsInv, OptionsType, ForkInv, StateInv, SyncInv
  <1>6. StateInv'
    BY Zenon DEF TypeOK, KindsInv, OptionsType, ForkInv, QemuInv, StateInv
  <1> QED BY <1>1, <1>2, <1>3, <1>4, <1>5, <1>6

\* The hypervisor is sent SIGTERM.
LEMMA ShutdownIInv == ASSUME MountConstants, MountInv, Shutdown PROVE MountInv'
  <1> USE DEF MountConstants, NoneAssumption, MountInv, Shutdown, ForkInv
  <1>a. /\ localmountpoint' \in BOOLEAN /\ mounted' \in BOOLEAN /\ busy' \in BOOLEAN
        /\ dirty' \in BOOLEAN /\ ready' \in BOOLEAN /\ program' \in BOOLEAN /\ told' \in BOOLEAN
    BY DEF TypeOK
  <1>1. TypeOK'
    BY <1>a, Zenon DEF TypeOK, KindsInv, OptionsType
  <1>2. KindsInv'
    BY DEF KindsInv
  <1>3. ForkInv' /\ QemuInv'
    BY Zenon DEF TypeOK, KindsInv, OptionsType, ForkInv, QemuInv
  <1>4. PidInv' /\ PidFileKept'
    BY DEF TypeOK, KindsInv, OptionsType, ForkInv, PidInv, PidFileKept
  <1>5. SyncInv'
    BY Zenon DEF TypeOK, KindsInv, OptionsType, ForkInv, StateInv, SyncInv
  <1>6. StateInv'
    BY DEF TypeOK, KindsInv, OptionsType, ForkInv, QemuInv, StateInv
  <1> QED BY <1>1, <1>2, <1>3, <1>4, <1>5, <1>6

\* The hypervisor is waited for.
LEMMA WaitIInv == ASSUME MountConstants, MountInv, Wait PROVE MountInv'
  <1> USE DEF MountConstants, NoneAssumption, MountInv, Wait, ForkInv
  <1>a. /\ localmountpoint' \in BOOLEAN /\ mounted' \in BOOLEAN /\ busy' \in BOOLEAN
        /\ dirty' \in BOOLEAN /\ ready' \in BOOLEAN /\ program' \in BOOLEAN /\ told' \in BOOLEAN
    BY DEF TypeOK
  <1>1. TypeOK'
    BY <1>a DEF TypeOK, KindsInv, OptionsType
  <1>2. KindsInv'
    BY DEF KindsInv
  <1>3. ForkInv' /\ QemuInv'
    BY DEF TypeOK, KindsInv, OptionsType, ForkInv, QemuInv
  <1>4. PidInv' /\ PidFileKept'
    BY DEF TypeOK, KindsInv, OptionsType, ForkInv, PidInv, PidFileKept
  <1>5. SyncInv'
    BY Zenon DEF TypeOK, KindsInv, OptionsType, ForkInv, StateInv, SyncInv
  <1>6. StateInv'
    BY DEF TypeOK, KindsInv, OptionsType, ForkInv, QemuInv, StateInv
  <1> QED BY <1>1, <1>2, <1>3, <1>4, <1>5, <1>6

\* guestfs_close.
LEMMA CloseIInv == ASSUME MountConstants, MountInv, Close PROVE MountInv'
  <1> USE DEF MountConstants, NoneAssumption, MountInv, Close, guestfs___free_fuse
  <1>a. /\ localmountpoint' \in BOOLEAN /\ mounted' \in BOOLEAN /\ busy' \in BOOLEAN
        /\ dirty' \in BOOLEAN /\ ready' \in BOOLEAN /\ program' \in BOOLEAN /\ told' \in BOOLEAN
    BY DEF TypeOK
  <1>1. TypeOK'
    BY <1>a, Zenon DEF TypeOK, KindsInv, OptionsType
  <1>2. KindsInv'
    BY DEF KindsInv
  <1>3. ForkInv' /\ QemuInv'
    BY Zenon DEF TypeOK, KindsInv, OptionsType, ForkInv, QemuInv
  <1>4. PidInv' /\ PidFileKept'
    BY Zenon DEF TypeOK, KindsInv, OptionsType, ForkInv, PidInv, PidFileKept
  <1>5. SyncInv'
    BY Zenon DEF TypeOK, KindsInv, OptionsType, ForkInv, StateInv, SyncInv
  <1>6. StateInv'
    BY DEF TypeOK, KindsInv, OptionsType, ForkInv, QemuInv, StateInv
  <1> QED BY <1>1, <1>2, <1>3, <1>4, <1>5, <1>6

\* The PID file is removed and the worker ends.
LEMMA UnlinkIInv == ASSUME MountConstants, MountInv, Unlink PROVE MountInv'
  <1> USE DEF MountConstants, NoneAssumption, MountInv, Unlink, ForkInv
  <1>a. /\ localmountpoint' \in BOOLEAN /\ mounted' \in BOOLEAN /\ busy' \in BOOLEAN
        /\ dirty' \in BOOLEAN /\ ready' \in BOOLEAN /\ program' \in BOOLEAN /\ told' \in BOOLEAN
    BY DEF TypeOK
  <1>1. TypeOK'
    BY <1>a DEF TypeOK, KindsInv, OptionsType
  <1>2. KindsInv'
    BY DEF KindsInv
  <1>3. ForkInv' /\ QemuInv'
    BY DEF TypeOK, KindsInv, OptionsType, ForkInv, QemuInv
  <1>4. PidInv' /\ PidFileKept'
    BY DEF TypeOK, KindsInv, OptionsType, ForkInv, PidInv, PidFileKept
  <1>5. SyncInv'
    BY DEF TypeOK, KindsInv, OptionsType, ForkInv, StateInv, SyncInv
  <1>6. StateInv'
    BY DEF TypeOK, KindsInv, OptionsType, ForkInv, QemuInv, StateInv
  <1> QED BY <1>1, <1>2, <1>3, <1>4, <1>5, <1>6

\* The hypervisor ends.
LEMMA QemuExitsIInv == ASSUME MountConstants, MountInv, QemuExits PROVE MountInv'
  <1> USE DEF MountConstants, NoneAssumption, MountInv, QemuExits, ForkInv
  <1>a. /\ localmountpoint' \in BOOLEAN /\ mounted' \in BOOLEAN /\ busy' \in BOOLEAN
        /\ dirty' \in BOOLEAN /\ ready' \in BOOLEAN /\ program' \in BOOLEAN /\ told' \in BOOLEAN
    BY DEF TypeOK
  <1>1. TypeOK'
    BY <1>a, Zenon DEF TypeOK, KindsInv, OptionsType
  <1>2. KindsInv'
    BY DEF KindsInv
  <1>3. ForkInv' /\ QemuInv'
    BY Zenon DEF TypeOK, KindsInv, OptionsType, ForkInv, QemuInv
  <1>4. PidInv' /\ PidFileKept'
    BY Zenon DEF TypeOK, KindsInv, OptionsType, ForkInv, PidInv, PidFileKept
  <1>5. SyncInv'
    BY Zenon DEF TypeOK, KindsInv, OptionsType, ForkInv, StateInv, SyncInv
  <1>6. StateInv'
    BY DEF TypeOK, KindsInv, OptionsType, ForkInv, QemuInv, StateInv
  <1> QED BY <1>1, <1>2, <1>3, <1>4, <1>5, <1>6

\* The hypervisor dies by itself.
LEMMA QemuDiesIInv == ASSUME MountConstants, MountInv, QemuDies PROVE MountInv'
  <1> USE DEF MountConstants, NoneAssumption, MountInv, QemuDies, ForkInv
  <1>a. /\ localmountpoint' \in BOOLEAN /\ mounted' \in BOOLEAN /\ busy' \in BOOLEAN
        /\ dirty' \in BOOLEAN /\ ready' \in BOOLEAN /\ program' \in BOOLEAN /\ told' \in BOOLEAN
    BY DEF TypeOK
  <1>1. TypeOK'
    BY <1>a, Zenon DEF TypeOK, KindsInv, OptionsType
  <1>2. KindsInv'
    BY DEF KindsInv
  <1>3. ForkInv' /\ QemuInv'
    BY Zenon DEF TypeOK, KindsInv, OptionsType, ForkInv, QemuInv
  <1>4. PidInv' /\ PidFileKept'
    BY Zenon DEF TypeOK, KindsInv, OptionsType, ForkInv, PidInv, PidFileKept
  <1>5. SyncInv'
    BY Zenon DEF TypeOK, KindsInv, OptionsType, ForkInv, StateInv, SyncInv
  <1>6. StateInv'
    BY DEF TypeOK, KindsInv, OptionsType, ForkInv, QemuInv, StateInv
  <1> QED BY <1>1, <1>2, <1>3, <1>4, <1>5, <1>6

\* Programs use the mount and leave it, guestunmount is started, tries, sleeps and ends: of what
\* guestmount knows only the mount itself may go away.
LEMMA OthersIInv ==
  ASSUME MountConstants, MountInv,
         \/ Use \/ Leave \/ ProgramExits \/ Unmounter
         \/ guestunmount \/ guestunmount_fd \/ guestfs__umount_local
  PROVE  MountInv'
  <1> USE DEF MountConstants, NoneAssumption, MountInv, mount
  <1>1. CASE Use
    <2>a. /\ wk = "loop" /\ busy' = TRUE
          /\ \/ dirty' \in BOOLEAN /\ UNCHANGED <<state, told>>
             \/ qemu # "running" /\ state' = "CONFIG" /\ told' = TRUE /\ UNCHANGED dirty
          /\ UNCHANGED <<opts, gm, wk, r, status, localmountpoint, mounted, chan, qemu, pid_file, ready, program, un>>
      BY <1>1, Zenon DEF Use, child_cleanup, TypeOK
    <2>b. TypeOK'
      <3>1. dirty' \in BOOLEAN /\ state' \in {"READY", "CONFIG"} /\ told' \in BOOLEAN /\ busy' \in BOOLEAN
        BY <2>a, Zenon DEF TypeOK
      <3>2. UNCHANGED <<opts, gm, wk, r, status, localmountpoint, mounted, chan, qemu, pid_file, ready, program, un>>
        BY <2>a, Zenon
      <3> QED BY <3>1, <3>2, Zenon DEF TypeOK
    <2>1. KindsInv'
      BY <2>a, Zenon DEF KindsInv
    <2>2. ForkInv' /\ QemuInv' /\ PidInv' /\ PidFileKept'
      BY <2>a, Zenon DEF ForkInv, QemuInv, PidInv, PidFileKept
    <2>3. SyncInv'
      BY <2>a, Zenon DEF SyncInv
    <2>4. StateInv'
      BY <2>a DEF TypeOK, QemuInv, StateInv
    <2> QED BY <2>b, <2>1, <2>2, <2>3, <2>4, Zenon
  <1>2. CASE Leave \/ ProgramExits
    <2>a. busy' \in BOOLEAN /\ program' \in BOOLEAN
      BY <1>2, Zenon DEF Leave, ProgramExits, TypeOK
    <2>b. /\ UNCHANGED <<opts, gm, wk, r, status, localmountpoint, chan, dirty, qemu, state, told, pid_file, ready>>
          /\ UNCHANGED <<mounted, un>>
      BY <1>2, Zenon DEF Leave, ProgramExits
    <2>1. TypeOK'
      BY <2>a, <2>b, Zenon DEF TypeOK
    <2>2. KindsInv'
      BY <2>b, Zenon DEF KindsInv
    <2>3. ForkInv' /\ QemuInv' /\ PidInv' /\ PidFileKept'
      BY <2>b, Zenon DEF ForkInv, QemuInv, PidInv, PidFileKept
    <2>4. StateInv' /\ SyncInv'
      <3>1. StateInv'
        BY <2>b, Zenon DEF StateInv
      <3>2. SyncInv'
        BY <2>b, Zenon DEF SyncInv
      <3> QED BY <3>1, <3>2
    <2> QED BY <2>1, <2>2, <2>3, <2>4, Zenon
  <1>3. ASSUME NEW at, NEW retries \in Retries, Begin(at, retries) PROVE MountInv'
    <2>1. retries \in Nat
      BY DEF RetriesAssumption
    <2>2. un' = [pc |-> at, i |-> 0, retries |-> retries, slept |-> 0, absent |-> FALSE, status |-> None]
      BY <1>3, Zenon DEF Begin, Fresh
    <2>a. UNCHANGED <<opts, gm, wk, r, status, localmountpoint, mounted, chan, busy, dirty, qemu, state, told, pid_file, ready,
                      program>>
      BY <1>3 DEF Begin
    <2>b. /\ un' = [pc |-> un'.pc, i |-> un'.i, retries |-> un'.retries, slept |-> un'.slept, absent |-> un'.absent,
                    status |-> un'.status]
          /\ un'.i = 0 /\ un'.retries \in Nat
      BY <2>1, <2>2
    <2>3. KindsInv'
      BY <2>a, <2>b DEF KindsInv
    <2>4. TypeOK'
      BY <2>a, <2>b DEF TypeOK
    <2> QED BY <1>3, <2>3, <2>4 DEF Begin, ForkInv, QemuInv, StateInv, PidInv, SyncInv, PidFileKept
  <1>4. CASE Unmounter
    <2>1. UNCHANGED mount /\ UNCHANGED <<busy, program>>
      BY <1>4, Zenon DEF Unmounter, Poll, do_fusermount, Sleep, do_fuser
    <2>2. mounted' \in BOOLEAN
      BY <1>4, Zenon DEF Unmounter, Poll, do_fusermount, Sleep, do_fuser, TypeOK
    <2>3. /\ un' = [pc |-> un'.pc, i |-> un'.i, retries |-> un'.retries, slept |-> un'.slept, absent |-> un'.absent,
                    status |-> un'.status]
          /\ un'.i \in 0..un'.retries + 1 /\ un'.retries \in Nat
          /\ un'.pc \in {"idle", "poll", "try", "sleep"} => un'.i <= un'.retries
      <3>1. CASE Poll
        BY <3>1 DEF Poll, KindsInv, TypeOK
      <3>2. CASE do_fusermount
        <4>1. \/ un' = [un EXCEPT !.pc = "done", !.status = 0]
              \/ un' = [un EXCEPT !.pc = "done", !.status = 1]
              \/ un' = [un EXCEPT !.pc = "done", !.status = 2, !.absent = TRUE]
              \/ un' = [un EXCEPT !.pc = IF un.i < un.retries THEN "sleep" ELSE "failed", !.i = @ + 1]
          BY <3>2, Zenon DEF do_fusermount, Answers, Ended
        <4>2. un.pc = "try"
          BY <3>2 DEF do_fusermount
        <4>3. CASE un' = [un EXCEPT !.pc = "done", !.status = 0] \/ un' = [un EXCEPT !.pc = "done", !.status = 1]
          BY <4>3, Zenon DEF KindsInv, TypeOK
        <4>4. CASE un' = [un EXCEPT !.pc = "done", !.status = 2, !.absent = TRUE]
          <5>1. un'.i = un.i /\ un'.retries = un.retries /\ un'.pc = "done"
            BY <4>4 DEF KindsInv
          <5>2. un' = [pc |-> un'.pc, i |-> un'.i, retries |-> un'.retries, slept |-> un'.slept,
                       absent |-> un'.absent, status |-> un'.status]
            BY <4>4, Zenon DEF KindsInv
          <5> QED BY <5>1, <5>2, Zenon DEF KindsInv, TypeOK
        <4>5. CASE un' = [un EXCEPT !.pc = IF un.i < un.retries THEN "sleep" ELSE "failed", !.i = @ + 1]
          <5>1. /\ un'.i = un.i + 1 /\ un'.retries = un.retries
                /\ un'.pc = IF un.i < un.retries THEN "sleep" ELSE "failed"
            BY <4>5 DEF KindsInv
          <5>2. un' = [pc |-> un'.pc, i |-> un'.i, retries |-> un'.retries, slept |-> un'.slept,
                       absent |-> un'.absent, status |-> un'.status]
            BY <4>5, Zenon DEF KindsInv
          <5>3. un.i <= un.retries /\ un.i \in Nat /\ un.retries \in Nat
            BY <4>2 DEF KindsInv
          <5> QED BY <5>1, <5>2, <5>3
        <4> QED BY <4>1, <4>3, <4>4, <4>5
      <3>3. CASE Sleep
        BY <3>3, Zenon DEF Sleep, Shifted, KindsInv, TypeOK
      <3>4. CASE do_fuser
        BY <3>4, Zenon DEF do_fuser, Ended, KindsInv, TypeOK
      <3> QED BY <1>4, <3>1, <3>2, <3>3, <3>4, Zenon DEF Unmounter
    <2>4. TypeOK' /\ KindsInv'
      BY <2>1, <2>2, <2>3 DEF TypeOK, KindsInv
    <2>5. UNCHANGED <<opts, gm, wk, r, status, localmountpoint, chan, dirty, qemu, state, told, pid_file>>
      BY <2>1, Zenon
    <2>6. ForkInv' /\ QemuInv' /\ StateInv'
      BY <2>5, Zenon DEF ForkInv, QemuInv, StateInv
    <2>7. PidInv' /\ SyncInv' /\ PidFileKept'
      BY <2>5, Zenon DEF PidInv, SyncInv, PidFileKept
    <2> QED BY <2>4, <2>6, <2>7, Zenon
  <1> QED BY <1>1, <1>2, <1>3, <1>4 DEF guestunmount, guestunmount_fd, guestfs__umount_local

-----------------------------------------------------------------------------

\* Every step of guestmount, guestunmount, the hypervisor and the programs keeps the invariant.
LEMMA MountNextInv == ASSUME MountConstants, MountInv, [Next]_vars PROVE MountInv'
  <1>1. CASE Parent
    BY <1>1, MountLocalIInv, DaemonizeIInv, WritePidFileIInv, WritePipeFdIInv DEF Parent
  <1>2. CASE Worker
    BY <1>2, SetsidIInv, MountLocalRunIInv, LoopEndsIInv, SyncIInv, ShutdownIInv, WaitIInv, CloseIInv, UnlinkIInv
       DEF Worker
  <1>3. CASE QemuExits \/ QemuDies
    BY <1>3, QemuExitsIInv, QemuDiesIInv
  <1>4. CASE UNCHANGED vars
    <2>1. /\ TypeOK /\ KindsInv /\ ForkInv /\ QemuInv /\ StateInv /\ PidInv /\ SyncInv /\ PidFileKept
          /\ UNCHANGED <<opts, gm, wk, r, status, localmountpoint, mounted, chan, busy, dirty, qemu, state, told, pid_file, ready,
                         program, un>>
      BY <1>4 DEF vars, MountInv
    <2>2. TypeOK' /\ KindsInv'
      BY <2>1 DEF TypeOK, KindsInv
    <2>3. ForkInv' /\ QemuInv' /\ StateInv'
      BY <2>1, Zenon DEF ForkInv, QemuInv, StateInv
    <2>4. PidInv' /\ SyncInv' /\ PidFileKept'
      BY <2>1, Zenon DEF PidInv, SyncInv, PidFileKept
    <2> QED BY <2>2, <2>3, <2>4 DEF MountInv
  <1> QED BY <1>1, <1>2, <1>3, <1>4, OthersIInv DEF Next

\* With any options, numbers of retries and failing calls, and a hypervisor that may die at any moment,
\* while guestmount (fuse/guestmount.c) serves the mount nobody stops its hypervisor; the PID file names
\* the worker from the return of the command until the cleanup; if the worker exits with 0 what was
\* written is in the disk image, or the hypervisor died and a program that used the mount had an error
\* for it; and without a fork no hypervisor is left.
THEOREM MountSafe == ASSUME MountConstants PROVE Spec => []MountIsSafe
  <1>1. Init => MountInv
    BY MountInitInv
  <1>2. MountInv /\ [Next]_vars => MountInv'
    BY MountNextInv
  <1>3. MountInv => MountIsSafe
    BY IInvSafe
  <1> QED BY <1>1, <1>2, <1>3, PTL DEF Spec

=============================================================================
