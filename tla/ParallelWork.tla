---------------------------- MODULE ParallelWork ----------------------------
(***************************************************************************)
(* The worker threads of virt-df and virt-alignment-scan (df/parallel.c).  *)
(* Each worker takes the next domain from a counter under take_mutex,      *)
(* works on it alone, and then waits on retire_cond until all domains      *)
(* before it are retired, prints its output and retires it.  The main      *)
(* thread creates the workers and joins them.  A step is a critical call   *)
(* or the access to a shared variable between two.                         *)
(***************************************************************************)
EXTENDS Naturals, Sequences, FiniteSets

CONSTANTS
  nr_domains,   \* number of domains found
  option_P,     \* the -P option, 0 if it is not given
  estimate,     \* what estimate_max_threads returns
  MaxWakeups,   \* bound: spurious wake-ups
  ThreadFaults, \* "work": the work function fails; "create": open_memstream or guestfs_create
                \* fails; "pthread": pthread_create, pthread_mutex_lock or
                \* pthread_cond_wait fails.  pthread_mutex_unlock of a mutex that the thread
                \* holds, and pthread_join of a thread not yet joined, have no way to fail.
  Nobody        \* no thread

ASSUME NumbersAssumption ==
  /\ nr_domains \in Nat /\ option_P \in Nat /\ estimate \in Nat \ {0} /\ MaxWakeups \in Nat
ASSUME NobodyAssumption == Nobody \notin Nat

MAX_THREADS == 12
AtMost(a, b) == IF a <= b THEN a ELSE b

\* The number of threads start_threads creates.
nr_threads ==
  IF option_P > 0 THEN AtMost(nr_domains, option_P)
  ELSE AtMost(nr_domains, AtMost(MAX_THREADS, estimate))
Threads == 1..nr_threads

VARIABLES
  next_domain_to_take,
  next_domain_to_retire,
  take_mutex,    \* the thread that holds it
  retire_mutex,  \* the thread that holds it
  waiting,       \* threads in pthread_cond_wait on retire_cond
  pc,            \* thread -> its next step
  dom,           \* thread -> its variable i
  thread_r,      \* thread -> thread_data->r
  printed,       \* the domains whose output was printed
  main,          \* the main thread: creating or joining a thread, returned, or exited
  index,         \* the thread it is at
  errors,        \* its variable errors
  wakeups        \* spurious wake-ups so far

shared == <<next_domain_to_take, next_domain_to_retire, take_mutex, retire_mutex, waiting, printed>>
mainVars == <<main, index, errors>>
workVars == <<shared, pc, dom, thread_r, mainVars, wakeups>>

Steps == {"none", "lock_take", "read", "write", "work", "lock_retire", "check", "wait", "relock",
          "print", "done"}

\* Every variable has a value of its kind.
WorkTypeOK ==
  /\ next_domain_to_take \in Nat /\ next_domain_to_retire \in Nat
  /\ take_mutex \in Threads \cup {Nobody} /\ retire_mutex \in Threads \cup {Nobody}
  /\ waiting \subseteq Threads
  /\ pc \in [Threads -> Steps] /\ dom \in [Threads -> Nat] /\ thread_r \in [Threads -> {0, 1}]
  /\ printed \in Seq(Nat)
  /\ main \in {"create", "join", "returned", "exited"} /\ index \in Nat \ {0} /\ errors \in Nat
  /\ wakeups \in Nat

WorkInit ==
  /\ next_domain_to_take = 0 /\ next_domain_to_retire = 0
  /\ take_mutex = Nobody /\ retire_mutex = Nobody /\ waiting = {}
  /\ pc = [t \in Threads |-> "none"] /\ dom = [t \in Threads |-> 0]
  /\ thread_r = [t \in Threads |-> 0]
  /\ printed = <<>> /\ main = "create" /\ index = 1 /\ errors = 0 /\ wakeups = 0

-----------------------------------------------------------------------------
(* worker_thread *)

Goto(t, l) == pc' = [pc EXCEPT ![t] = l]

\* The process has not exited.
Alive == main # "exited"
At(t, l) == Alive /\ pc[t] = l

\* The worker returns -1.
GiveUp(t) == Goto(t, "done") /\ thread_r' = [thread_r EXCEPT ![t] = 1]

LockFails(t) ==
  /\ "pthread" \in ThreadFaults
  /\ At(t, "lock_take") \/ At(t, "lock_retire")
  /\ GiveUp(t) /\ UNCHANGED <<shared, dom, mainVars, wakeups>>

LockTake(t) ==
  /\ At(t, "lock_take") /\ take_mutex = Nobody
  /\ take_mutex' = t /\ Goto(t, "read")
  /\ UNCHANGED <<next_domain_to_take, next_domain_to_retire, retire_mutex, waiting, printed,
                 dom, thread_r, mainVars, wakeups>>

\* i = next_domain_to_take++, first the load and then the store, which the mutex makes one.
ReadNext(t) ==
  /\ At(t, "read") /\ dom' = [dom EXCEPT ![t] = next_domain_to_take] /\ Goto(t, "write")
  /\ UNCHANGED <<shared, thread_r, mainVars, wakeups>>

\* The store, the unlock, and the test whether the work is finished.
WriteNext(t) ==
  /\ At(t, "write")
  /\ next_domain_to_take' = dom[t] + 1 /\ take_mutex' = Nobody
  /\ Goto(t, IF dom[t] >= nr_domains THEN "done" ELSE "work")
  /\ UNCHANGED <<next_domain_to_retire, retire_mutex, waiting, printed, dom, thread_r, mainVars, wakeups>>

\* open_memstream, guestfs_create, the work function, fclose and guestfs_close.
Work(t) ==
  /\ At(t, "work")
  /\ \/ "create" \in ThreadFaults /\ GiveUp(t)
     \/ Goto(t, "lock_retire") /\ UNCHANGED thread_r
     \/ "work" \in ThreadFaults /\ Goto(t, "lock_retire") /\ thread_r' = [thread_r EXCEPT ![t] = 1]
  /\ UNCHANGED <<shared, dom, mainVars, wakeups>>

LockRetire(t) ==
  /\ At(t, "lock_retire") \/ At(t, "relock")
  /\ retire_mutex = Nobody /\ retire_mutex' = t /\ Goto(t, "check")
  /\ UNCHANGED <<next_domain_to_take, next_domain_to_retire, take_mutex, waiting, printed,
                 dom, thread_r, mainVars, wakeups>>

\* Mutant: the domain is retired as soon as the mutex is there.
Check_not(t) ==
  /\ At(t, "check") /\ Goto(t, "print")
  /\ UNCHANGED <<shared, dom, thread_r, mainVars, wakeups>>

\* The loop around pthread_cond_wait, which gives the mutex back while the thread waits.
Check(t) ==
  /\ At(t, "check")
  /\ \/ next_domain_to_retire = dom[t] /\ Goto(t, "print") /\ UNCHANGED <<waiting, retire_mutex>>
     \/ /\ next_domain_to_retire # dom[t] /\ Goto(t, "wait")
        /\ waiting' = waiting \cup {t} /\ retire_mutex' = Nobody
  /\ UNCHANGED <<next_domain_to_take, next_domain_to_retire, take_mutex, printed, dom, thread_r,
                 mainVars, wakeups>>

\* pthread_cond_wait fails: the mutex is given back and the domain is not retired.
WaitFails(t) ==
  /\ "pthread" \in ThreadFaults /\ At(t, "check") /\ next_domain_to_retire # dom[t]
  /\ GiveUp(t) /\ retire_mutex' = Nobody
  /\ UNCHANGED <<next_domain_to_take, next_domain_to_retire, take_mutex, waiting, printed, dom,
                 mainVars, wakeups>>

\* pthread_cond_wait may return although nobody called broadcast.
SpuriousWakeup(t) ==
  /\ At(t, "wait") /\ wakeups < MaxWakeups
  /\ wakeups' = wakeups + 1 /\ waiting' = waiting \ {t} /\ Goto(t, "relock")
  /\ UNCHANGED <<next_domain_to_take, next_domain_to_retire, take_mutex, retire_mutex, printed,
                 dom, thread_r, mainVars>>

\* Mutant: only one of the waiting threads is told.
RetireDomain_signal(t) ==
  /\ At(t, "print")
  /\ printed' = Append(printed, dom[t]) /\ next_domain_to_retire' = dom[t] + 1
  /\ retire_mutex' = Nobody
  /\ \/ waiting = {} /\ Goto(t, "lock_take") /\ UNCHANGED waiting
     \/ \E u \in waiting :
        /\ waiting' = waiting \ {u}
        /\ pc' = [pc EXCEPT ![u] = "relock", ![t] = "lock_take"]
  /\ UNCHANGED <<next_domain_to_take, take_mutex, dom, thread_r, mainVars, wakeups>>

\* printf, next_domain_to_retire = i + 1, pthread_cond_broadcast and the unlock.
RetireDomain(t) ==
  /\ At(t, "print")
  /\ printed' = Append(printed, dom[t]) /\ next_domain_to_retire' = dom[t] + 1
  /\ retire_mutex' = Nobody /\ waiting' = {}
  /\ pc' = [u \in Threads |->
              IF u = t THEN "lock_take" ELSE IF u \in waiting THEN "relock" ELSE pc[u]]
  /\ UNCHANGED <<next_domain_to_take, take_mutex, dom, thread_r, mainVars, wakeups>>

worker_thread(t) ==
  \/ LockTake(t) \/ ReadNext(t) \/ WriteNext(t) \/ Work(t) \/ LockRetire(t) \/ Check(t) \/ RetireDomain(t)

-----------------------------------------------------------------------------
(* start_threads *)

Create ==
  /\ main = "create"
  /\ \/ /\ index <= nr_threads
        /\ pc' = [pc EXCEPT ![index] = "lock_take"] /\ index' = index + 1 /\ UNCHANGED main
     \/ index > nr_threads /\ index' = 1 /\ main' = "join" /\ UNCHANGED pc
  /\ UNCHANGED <<shared, dom, thread_r, errors, wakeups>>

\* error(EXIT_FAILURE, ...) ends the process with all its threads.
CreateFails ==
  /\ "pthread" \in ThreadFaults /\ main = "create" /\ index <= nr_threads
  /\ main' = "exited" /\ UNCHANGED <<shared, pc, dom, thread_r, index, errors, wakeups>>

\* Mutant: the status of the last thread joined is returned.
Join_last ==
  /\ main = "join"
  /\ \/ /\ index <= nr_threads /\ pc[index] = "done"
        /\ errors' = thread_r[index] /\ index' = index + 1 /\ UNCHANGED main
     \/ index > nr_threads /\ main' = "returned" /\ UNCHANGED <<index, errors>>
  /\ UNCHANGED <<shared, pc, dom, thread_r, wakeups>>

\* Mutant: the first error is returned at once, and the other threads are not joined.
Join_early ==
  /\ main = "join"
  /\ \/ /\ index <= nr_threads /\ pc[index] = "done"
        /\ errors' = errors + thread_r[index] /\ index' = index + 1
        /\ main' = IF thread_r[index] = 0 THEN "join" ELSE "returned"
     \/ index > nr_threads /\ main' = "returned" /\ UNCHANGED <<index, errors>>
  /\ UNCHANGED <<shared, pc, dom, thread_r, wakeups>>

\* pthread_join of the threads in turn, and the return with 0 or -1.
Join ==
  /\ main = "join"
  /\ \/ /\ index <= nr_threads /\ pc[index] = "done"
        /\ errors' = errors + thread_r[index] /\ index' = index + 1 /\ UNCHANGED main
     \/ index > nr_threads /\ main' = "returned" /\ UNCHANGED <<index, errors>>
  /\ UNCHANGED <<shared, pc, dom, thread_r, wakeups>>

WorkNext ==
  \/ Create \/ CreateFails \/ Join
  \/ \E t \in Threads : worker_thread(t) \/ LockFails(t) \/ WaitFails(t) \/ SpuriousWakeup(t)

WorkSpec == WorkInit /\ [][WorkNext]_workVars

\* The scheduler runs every thread that can run; mutexes are given to those that wait for them.
WorkFairSpec == WorkSpec /\ WF_workVars(Create \/ Join) /\ \A t \in Threads : WF_workVars(worker_thread(t))

-----------------------------------------------------------------------------
(* Properties *)

\* The workers print the domains' output in the order of the list, each once, however the threads
\* are scheduled and woken up and whichever of them fail: printed is 0, 1, 2, ...
InOrder ==
  /\ Len(printed) = next_domain_to_retire
  /\ \A k \in 1..Len(printed) : printed[k] = k - 1

\* The worker has a domain that it has not retired.
Busy(t) == pc[t] \in {"work", "lock_retire", "check", "wait", "relock", "print"}

\* No two workers have the same domain, and none has one that was retired: next_domain_to_take
\* and next_domain_to_retire hand every domain to one thread.
OwnDomain ==
  /\ \A t \in Threads : Busy(t) => /\ next_domain_to_retire <= dom[t]
                                  /\ dom[t] < next_domain_to_take
  /\ \A t, u \in Threads : Busy(t) /\ Busy(u) /\ dom[t] = dom[u] => t = u

\* start_threads returns 0 only if the work of every domain was done and printed, and -1 only if
\* some worker met an error.
ResultIsTrue ==
  main = "returned" =>
    /\ errors = 0 => next_domain_to_retire = nr_domains /\ \A t \in Threads : thread_r[t] = 0
    /\ errors # 0 => \E t \in Threads : thread_r[t] = 1

\* The output of the threads is the one of a program that prints domain after domain.
Output == INSTANCE OrderedOutput WITH
  count <- next_domain_to_retire, returned <- main \in {"returned", "exited"}
ImplementsOutput == Output!OutputSpec

Finished == main = "returned" /\ next_domain_to_retire = nr_domains

\* start_threads returns, and by then all domains are printed: no worker waits for ever on
\* retire_cond.
AllPrinted == <>[]Finished

\* "Returns 0 if all work items completed successfully, or -1 if there was an error."
\* The code does not have this property (README.md, "Known divergences").
Returns == <>(main = "returned")

=============================================================================
