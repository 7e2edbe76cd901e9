---------------------------- MODULE AlignmentScan ----------------------------
(***************************************************************************)
(* virt-alignment-scan (align/scan.c): the workers of df/parallel.c scan   *)
(* one guest each; every partition they find may lower worst_alignment,    *)
(* which they share under a mutex, and the exit code is made from it.      *)
(***************************************************************************)
EXTENDS Naturals, FiniteSets

CONSTANTS
  Guests,  \* the guests, each scanned by a thread
  Starts,  \* where partitions may start, in bytes
  MaxParts,  \* bound: partitions of a guest
  Fails    \* TRUE if guests may fail to launch or to list their partitions

UINT_MAX == 4294967  \* larger than every alignment

VARIABLES
  left,             \* guest -> start offsets of the partitions not yet looked at
  worst_alignment,
  mutex,            \* guests whose thread holds worst_alignment_mutex
  alignment,        \* guest -> alignment of the partition its thread is at
  pc,               \* guest -> "scan", "lock", "compare", "store", "ok", "failed"
  exit_code,        \* the exit code, or 99 while the program runs
  parts             \* the start offsets of all partitions

vars == <<left, worst_alignment, mutex, alignment, pc, exit_code, parts>>

Running == 99

Init ==
  /\ parts \in [Guests -> {s \in SUBSET Starts : Cardinality(s) <= MaxParts}] /\ left = parts
  /\ worst_alignment = UINT_MAX /\ mutex = {}
  /\ alignment = [g \in Guests |-> 0] /\ pc = [g \in Guests |-> "scan"] /\ exit_code = Running

Goto(g, l) == pc' = [pc EXCEPT ![g] = l]

\* The number of times an offset can be halved.
Alignment(start) ==
  IF start = 0 THEN 64 ELSE CHOOSE a \in 0..29 : start % 2^a = 0 /\ start % 2^(a + 1) # 0

\* The next partition of the guest, or the end.
Partition(g) ==
  /\ pc[g] = "scan"
  /\ \/ left[g] = {} /\ Goto(g, "ok") /\ UNCHANGED <<left, alignment>>
     \/ \E s \in left[g] :
        /\ left' = [left EXCEPT ![g] = @ \ {s}]
        /\ alignment' = [alignment EXCEPT ![g] = Alignment(s)] /\ Goto(g, "lock")
  /\ UNCHANGED <<worst_alignment, mutex, exit_code, parts>>

\* guestfs___add_libvirt_dom, guestfs_launch, list_devices or part_list fails.
ScanFails(g) ==
  /\ Fails /\ pc[g] = "scan" /\ Goto(g, "failed")
  /\ UNCHANGED <<left, worst_alignment, mutex, alignment, exit_code, parts>>

\* Mutant: the mutex is not taken.
Lock_not(g) ==
  /\ pc[g] = "lock" /\ mutex' = mutex \cup {g} /\ Goto(g, "compare")
  /\ UNCHANGED <<left, worst_alignment, alignment, exit_code, parts>>

Lock(g) ==
  /\ pc[g] = "lock" /\ mutex = {} /\ mutex' = {g} /\ Goto(g, "compare")
  /\ UNCHANGED <<left, worst_alignment, alignment, exit_code, parts>>

\* The comparison, and the unlock if nothing is to be stored.
Compare(g) ==
  /\ pc[g] = "compare"
  /\ \/ alignment[g] < worst_alignment /\ Goto(g, "store") /\ UNCHANGED mutex
     \/ alignment[g] >= worst_alignment /\ Goto(g, "scan") /\ mutex' = mutex \ {g}
  /\ UNCHANGED <<left, worst_alignment, alignment, exit_code, parts>>

Store(g) ==
  /\ pc[g] = "store" /\ worst_alignment' = alignment[g] /\ mutex' = mutex \ {g} /\ Goto(g, "scan")
  /\ UNCHANGED <<left, alignment, exit_code, parts>>

\* Mutant: a failed guest is forgotten.
Exit_ok ==
  /\ exit_code = Running /\ \A g \in Guests : pc[g] \in {"ok", "failed"}
  /\ exit_code' = IF worst_alignment < 10 THEN 3 ELSE IF worst_alignment < 16 THEN 2 ELSE 0
  /\ UNCHANGED <<left, worst_alignment, mutex, alignment, pc, parts>>

\* start_threads has returned: the exit code.
Exit ==
  /\ exit_code = Running /\ \A g \in Guests : pc[g] \in {"ok", "failed"}
  /\ exit_code' = IF \E g \in Guests : pc[g] = "failed" THEN 1
                  ELSE IF worst_alignment < 10 THEN 3
                  ELSE IF worst_alignment < 16 THEN 2 ELSE 0
  /\ UNCHANGED <<left, worst_alignment, mutex, alignment, pc, parts>>

Next ==
  \/ Exit
  \/ \E g \in Guests : Partition(g) \/ ScanFails(g) \/ Lock(g) \/ Compare(g) \/ Store(g)

Spec == Init /\ [][Next]_vars

-----------------------------------------------------------------------------
(* Properties *)

All == {Alignment(s) : s \in UNION {parts[g] : g \in Guests}}

\* Once the threads have scanned all guests, worst_alignment is the least alignment of all their
\* partitions: no thread's store overwrites a smaller one of another.
WorstIsLeast ==
  (\A g \in Guests : pc[g] = "ok") /\ All # {} =>
    worst_alignment \in All /\ \A a \in All : worst_alignment <= a

\* The exit code 0 tells that all guests were scanned and all their partitions are aligned to 64K.
ZeroIsAligned ==
  exit_code = 0 => (\A g \in Guests : pc[g] = "ok") /\ \A a \in All : a >= 16

\* 3: "successful exit, some partitions have alignment < 4K".
\* The code does not have this property (README.md, "Known divergences").
ExitCodeTold == exit_code \in {0, 2} => \A a \in All : a >= 12

=============================================================================
