----------------------------- MODULE HashTable -----------------------------
(***************************************************************************)
(* The hash table of supermin-5.1.11/lib/hash.c.  It is the copy in this   *)
(* repository of the gnulib module that libguestfs takes its directory     *)
(* caches from (src/fuse.c).  A bucket is the head and a chain of overflow *)
(* cells; a cell that is unlinked goes to the free list of the table, to   *)
(* be used again.  A rehash moves the entries to a larger or smaller array *)
(* one by one and, when memory runs out half way, moves them back.         *)
(*                                                                         *)
(* A bucket is the sequence of its entries, the head first.  Of the free   *)
(* list only the length matters.  Each operation is given the number of    *)
(* allocations that succeed before one fails.                              *)
(***************************************************************************)
EXTENDS Integers, FiniteSets, SequencesExt

CONSTANTS
  Entries,            \* the user entries
  KeyOf,              \* [Entries -> keys]: what the comparator looks at
  hasher,             \* [key, number of buckets -> 0 .. number of buckets - 1]
  Candidate,          \* how many entries hash_initialize is asked to expect
  tuning,             \* the thresholds and factors, in thousandths
  MaxMem,             \* at most this many allocations succeed in an operation
  Styles,             \* the ways in which the table is walked: "next", "each"
  None                \* NULL

VARIABLES
  table,              \* [bucket, used, n, free]: buckets, n_buckets_used, n_entries, free list
  cells,              \* the overflow cells that were allocated and not given back
  ret,                \* what the last operation returned
  walk,               \* the walk that is going on, or None
  aborted             \* abort () was called

vars == <<table, cells, ret, walk, aborted>>

default_tuning ==
  [shrink_threshold |-> 0, shrink_factor |-> 1000, growth_threshold |-> 800,
   growth_factor |-> 1414, is_n_buckets |-> FALSE]

\* The test of check_tuning.  A table with other values is not made.
check_tuning(t) ==
  t = default_tuning
    \/ /\ 100 < t.growth_threshold /\ t.growth_threshold < 900
       /\ 1100 < t.growth_factor
       /\ 0 <= t.shrink_threshold
       /\ t.shrink_threshold + 100 < t.shrink_factor /\ t.shrink_factor <= 1000
       /\ t.shrink_threshold + 100 < t.growth_threshold

TuningAssumption == check_tuning(tuning)
MaxMemAssumption == MaxMem \in Nat

-----------------------------------------------------------------------------
(* The number of buckets. *)

RECURSIVE Divisor(_, _, _)
Divisor(candidate, divisor, square) ==
  IF square < candidate /\ candidate % divisor # 0
  THEN Divisor(candidate, divisor + 2, square + 4 * (divisor + 1))
  ELSE divisor

is_prime(candidate) == candidate % Divisor(candidate, 3, 9) # 0

RECURSIVE OddPrime(_)
OddPrime(candidate) == IF is_prime(candidate) THEN candidate ELSE OddPrime(candidate + 2)

next_prime(candidate) ==
  LET c == Max({candidate, 10}) IN OddPrime(IF c % 2 = 0 THEN c + 1 ELSE c)

compute_bucket_size(candidate) ==
  next_prime(IF tuning.is_n_buckets THEN candidate ELSE (candidate * 1000) \div tuning.growth_threshold)

\* How many buckets a table of n buckets asks for when it grows or shrinks.
Resized(n, factor) ==
  IF tuning.is_n_buckets THEN (n * factor) \div 1000
  ELSE (n * factor * tuning.growth_threshold) \div 1000000

-----------------------------------------------------------------------------
(* Chains and cells. *)

Size(t) == Len(t.bucket)
safe_hasher(t, e) == hasher[KeyOf[e], Size(t)] + 1
Contents(t) == UNION {ToSet(t.bucket[i]) : i \in 1..Size(t)}
Overflow(t) == MapThenSumSet(LAMBDA i : Max({Len(t.bucket[i]) - 1, 0}), 1..Size(t))

\* Every new overflow entry is linked in right after the head.
Linked(chain, e) == <<Head(chain), e>> \o Tail(chain)

\* The place of the entry that equals e in its bucket, or 0.
Place(t, e) == SelectInSeq(t.bucket[safe_hasher(t, e)], LAMBDA d : KeyOf[d] = KeyOf[e])

\* A cell of the free list, or a new one.  w has the free list, the memory left and the cells.
HasCell(w) == w.free > 0 \/ w.mem > 0
allocate_entry(w) ==
  IF w.free > 0 THEN [w EXCEPT !.free = @ - 1] ELSE [w EXCEPT !.mem = @ - 1, !.cells = @ + 1]

free_entry(w) == [w EXCEPT !.free = @ + 1]

-----------------------------------------------------------------------------
(* Moving the entries of src to dst. *)

Place_head(w, slot, e) ==
  [w EXCEPT !.dst.bucket[slot] = <<e>>, !.dst.used = @ + 1]

\* An overflow cell is linked into the new chain, or its entry becomes a head and it is free.
MoveOverflow(w, e) ==
  LET slot == safe_hasher(w.dst, e)
  IN IF w.dst.bucket[slot] # <<>>
     THEN [w EXCEPT !.dst.bucket[slot] = Linked(@, e)]
     ELSE free_entry(Place_head(w, slot, e))

\* A head needs a cell when it is not the first of its new bucket.
MoveHead(w, i) ==
  LET e == Head(w.src.bucket[i])
      slot == safe_hasher(w.dst, e)
      Gone(v) == [v EXCEPT !.src.bucket[i] = <<>>, !.src.used = @ - 1]
  IN IF w.dst.bucket[slot] = <<>> THEN Gone(Place_head(w, slot, e))
     ELSE IF HasCell(w) THEN Gone([allocate_entry(w) EXCEPT !.dst.bucket[slot] = Linked(@, e)])
     ELSE [w EXCEPT !.ok = FALSE]

TransferBucket(w, i, safe) ==
  IF ~w.ok \/ w.src.bucket[i] = <<>> THEN w
  ELSE LET chain == w.src.bucket[i]
           moved == [FoldLeft(MoveOverflow, w, Tail(chain)) EXCEPT !.src.bucket[i] = <<Head(chain)>>]
       IN IF safe THEN moved ELSE MoveHead(moved, i)

transfer_entries(w, safe) ==
  FoldLeft(LAMBDA v, i : TransferBucket(v, i, safe), w, [i \in 1..Size(w.src) |-> i])

Empty(size) == [bucket |-> [i \in 1..size |-> <<>>], used |-> 0]
Buckets(t) == [bucket |-> t.bucket, used |-> t.used]
Swapped(w) == [w EXCEPT !.src = w.dst, !.dst = w.src, !.ok = TRUE]

\* Mutant: the entries are moved back in one pass.
Undone_onepass(w) == transfer_entries(Swapped(w), FALSE)

\* One pass that moves overflow only and cannot fail, one that moves the heads.
Undone(w) == transfer_entries(transfer_entries(Swapped(w), TRUE), FALSE)

\* What hash_rehash leaves: the buckets in tab, the free list, and whether it worked.
Left(tab, w, ok, abort) ==
  [tab |-> tab, free |-> w.free, mem |-> w.mem, cells |-> w.cells, ok |-> ok, abort |-> abort]

\* After the transfer, and after it was undone.
Reversed(w) == Left(w.dst, w, FALSE, ~w.ok)
Transferred(w) == IF w.ok THEN Left(w.dst, w, TRUE, FALSE) ELSE Reversed(Undone(w))

hash_rehash(t, candidate, mem, c) ==
  LET size == compute_bucket_size(candidate)
      w == [src |-> Buckets(t), dst |-> Empty(size), free |-> t.free, mem |-> mem, cells |-> c, ok |-> TRUE]
  IN IF size = Size(t) THEN Left(w.src, w, TRUE, FALSE)
     ELSE IF mem = 0 THEN Left(w.src, w, FALSE, FALSE)
     ELSE Transferred(transfer_entries([w EXCEPT !.mem = @ - 1], FALSE))

-----------------------------------------------------------------------------
(* The operations. *)

Init ==
  /\ table = [bucket |-> Empty(compute_bucket_size(Candidate)).bucket, used |-> 0, n |-> 0, free |-> 0]
  /\ cells = 0
  /\ ret = None
  /\ walk = None
  /\ aborted = FALSE

Alive == table # None /\ ~aborted
Idle == Alive /\ walk = None

\* The table after the rehash that an insertion may need: what is left and what changed.
Grown(t, mem, c) ==
  IF t.used * 1000 > tuning.growth_threshold * Size(t)
  THEN hash_rehash(t, Resized(Size(t), tuning.growth_factor), mem, c)
  ELSE Left(Buckets(t), [free |-> t.free, mem |-> mem, cells |-> c], TRUE, FALSE)

AsTable(g, n) == [bucket |-> g.tab.bucket, used |-> g.tab.used, n |-> n, free |-> g.free]

\* The entry is put into the table that g left.
InsertInto(g, e) ==
  LET t == AsTable(g, table.n)
      slot == safe_hasher(t, e)
      head == t.bucket[slot] = <<>>
      a == IF head THEN g ELSE allocate_entry(g)
  IN IF ~g.ok \/ ~(head \/ HasCell(g))
     THEN table' = t /\ cells' = g.cells /\ ret' = None /\ aborted' = g.abort
     ELSE /\ table' = [t EXCEPT !.n = @ + 1, !.free = a.free, !.used = IF head THEN @ + 1 ELSE @,
                                !.bucket[slot] = IF head THEN <<e>> ELSE Linked(@, e)]
          /\ cells' = a.cells /\ ret' = e /\ UNCHANGED aborted

hash_insert(e) ==
  /\ Idle
  /\ IF Place(table, e) # 0
     THEN /\ ret' = table.bucket[safe_hasher(table, e)][Place(table, e)]
          /\ UNCHANGED <<table, cells, aborted>>
     ELSE \E mem \in 0..MaxMem : InsertInto(Grown(table, mem, cells), e)
  /\ UNCHANGED walk

\* hash_find_entry with delete, and the counts.
Unlinked(t, e) ==
  LET slot == safe_hasher(t, e)
      chain == t.bucket[slot]
  IN [t EXCEPT !.bucket[slot] = RemoveAt(chain, Place(t, e)), !.n = @ - 1,
               !.free = IF Len(chain) > 1 THEN @ + 1 ELSE @,
               !.used = IF Len(chain) > 1 THEN @ ELSE @ - 1]

\* Mutant: what the free list held is forgotten, not given back.
GivenBack_leaks(g) == IF g.ok THEN g ELSE [g EXCEPT !.free = 0]

\* A table that cannot be made smaller gives its free cells back.
GivenBack(g) == IF g.ok THEN g ELSE [g EXCEPT !.free = 0, !.cells = @ - g.free]

Shrunk(t, mem, c) == GivenBack(hash_rehash(t, Resized(Size(t), tuning.shrink_factor), mem, c))

\* The table that is left by the rehash of a deletion.
Becomes(g, n) == table' = AsTable(g, n) /\ cells' = g.cells /\ aborted' = g.abort

\* Mutant: the data is read after the entry was unlinked.
hash_delete_late(e) ==
  /\ Idle
  /\ Place(table, e) # 0
  /\ table' = Unlinked(table, e)
  /\ LET chain == Unlinked(table, e).bucket[safe_hasher(table, e)]
     IN ret' = IF chain = <<>> THEN None ELSE Head(chain)
  /\ UNCHANGED <<cells, walk, aborted>>

hash_delete(e) ==
  /\ Idle
  /\ IF Place(table, e) = 0
     THEN ret' = None /\ UNCHANGED <<table, cells, aborted>>
     ELSE LET t == Unlinked(table, e)
          IN /\ ret' = table.bucket[safe_hasher(table, e)][Place(table, e)]
             /\ IF t.used < table.used /\ t.used * 1000 < tuning.shrink_threshold * Size(t)
                THEN \E mem \in 0..MaxMem : Becomes(Shrunk(t, mem, cells), t.n)
                ELSE table' = t /\ UNCHANGED <<cells, aborted>>
  /\ UNCHANGED walk

hash_clear ==
  /\ Idle
  /\ table' = [bucket |-> Empty(Size(table)).bucket, used |-> 0, n |-> 0, free |-> table.free + Overflow(table)]
  /\ ret' = None
  /\ UNCHANGED <<cells, walk, aborted>>

hash_free ==
  /\ Idle
  /\ table' = None
  /\ cells' = cells - Overflow(table) - table.free
  /\ ret' = None
  /\ UNCHANGED <<walk, aborted>>

-----------------------------------------------------------------------------
(* Walking.  The caller may remove an entry while it walks "only if there  *)
(* is no shrink threshold and the entry being removed has already been     *)
(* passed to hash_get_next".                                               *)

\* The first bucket after b that is not empty, or 0.
NextBucket(t, b) ==
  LET later == {i \in b + 1 .. Size(t) : t.bucket[i] # <<>>}
  IN IF later = {} THEN 0 ELSE Min(later)

HeadOf(t, b) == IF b = 0 THEN None ELSE Head(t.bucket[b])

hash_get_first ==
  /\ Idle /\ "next" \in Styles
  /\ table.n > 0
  /\ walk' = [style |-> "next", at |-> HeadOf(table, NextBucket(table, 0)), passed |-> <<>>,
              start |-> Contents(table)]
  /\ UNCHANGED <<table, cells, ret, aborted>>

\* Mutant: a chain is left after its first overflow entry.
hash_get_next_short ==
  /\ Alive /\ walk # None
  /\ walk.style = "next" /\ walk.at # None
  /\ LET b == safe_hasher(table, walk.at)
         chain == table.bucket[b]
     IN walk' = [walk EXCEPT !.passed = Append(@, walk.at),
                   !.at = IF Head(chain) = walk.at /\ Len(chain) > 1 THEN chain[2]
                          ELSE HeadOf(table, NextBucket(table, b))]
  /\ UNCHANGED <<table, cells, ret, aborted>>

hash_get_next ==
  /\ Alive /\ walk # None
  /\ walk.style = "next" /\ walk.at # None
  /\ LET b == safe_hasher(table, walk.at)
         chain == table.bucket[b]
         i == SelectInSeq(chain, LAMBDA d : d = walk.at)
     IN walk' = [walk EXCEPT !.passed = Append(@, walk.at),
                   !.at = IF i \in 1 .. Len(chain) - 1 THEN chain[i + 1]
                          ELSE HeadOf(table, NextBucket(table, b))]
  /\ UNCHANGED <<table, cells, ret, aborted>>

\* The caller removes an entry that it has passed to hash_get_next.
RemovePassed(e) ==
  /\ Alive /\ walk # None
  /\ walk.style = "next" /\ e \in ToSet(walk.passed) /\ e \in Contents(table)
  /\ tuning.shrink_threshold = 0
  /\ table' = Unlinked(table, e)
  /\ ret' = e
  /\ UNCHANGED <<cells, walk, aborted>>

\* hash_do_for_each with a processor that deletes the entries of the set expired, as
\* gen_remove_all_expired of src/fuse.c does.  b, i is the cursor; nulls counts the cells of the
\* free list that are still before it, once it stands on a cell that was freed.
hash_do_for_each ==
  /\ Idle /\ "each" \in Styles
  /\ tuning.shrink_threshold = 0
  /\ \E expired \in SUBSET Contents(table) :
       walk' = [style |-> "each", b |-> NextBucket(table, 0), i |-> 1, nulls |-> 0,
                expired |-> expired, start |-> Contents(table)]
  /\ UNCHANGED <<table, cells, ret, aborted>>

\* Mutant: the cursor stays on the cell that was freed.
Onward_stays(t, i, nulls) ==
  IF nulls > 0 \/ i = 0 THEN [walk EXCEPT !.i = 0]
  ELSE IF i \in 1..Len(t.bucket[walk.b]) THEN [walk EXCEPT !.i = i, !.nulls = 0]
  ELSE [walk EXCEPT !.b = NextBucket(t, walk.b), !.i = 1, !.nulls = 0]

\* The cursor after it was at b, i in table t; a freed cell leads into the free list.
Onward(t, i, nulls) ==
  IF nulls > 0 THEN [walk EXCEPT !.nulls = nulls, !.i = 0]
  ELSE IF i \in 1..Len(t.bucket[walk.b]) THEN [walk EXCEPT !.i = i, !.nulls = 0]
  ELSE [walk EXCEPT !.b = NextBucket(t, walk.b), !.i = 1, !.nulls = 0]

\* Mutant: the processor deletes whatever it is called with.
Process_all ==
  /\ Alive /\ walk # None
  /\ walk.style = "each" /\ walk.b # 0 /\ walk.i # 0
  /\ LET e == table.bucket[walk.b][walk.i]
         t == Unlinked(table, e)
     IN table' = t /\ walk' = Onward(t, IF walk.i = 1 THEN 2 ELSE 0, 0) /\ ret' = e
  /\ UNCHANGED <<cells, aborted>>

\* The processor is called with the entry at the cursor.  Deleting the head moves the next entry
\* into it, behind the cursor; deleting another frees the cell that the cursor stands on.
Process ==
  /\ Alive /\ walk # None
  /\ walk.style = "each" /\ walk.b # 0 /\ walk.i # 0
  /\ LET e == table.bucket[walk.b][walk.i]
         t == Unlinked(table, e)
     IN IF e \in walk.expired
        THEN /\ table' = t /\ ret' = e
             /\ walk' = IF walk.i = 1 THEN Onward(t, 2, 0) ELSE Onward(t, 0, table.free)
        ELSE walk' = Onward(table, walk.i + 1, 0) /\ UNCHANGED <<table, ret>>
  /\ UNCHANGED <<cells, aborted>>

\* The processor is called with NULL, for a cell of the free list.
ProcessNull ==
  /\ Alive /\ walk # None
  /\ walk.style = "each" /\ walk.b # 0 /\ walk.i = 0
  /\ walk' = Onward(table, 0, walk.nulls - 1)
  /\ UNCHANGED <<table, cells, ret, aborted>>

WalkOver == walk # None /\ (IF walk.style = "next" THEN walk.at = None ELSE walk.b = 0)

EndWalk ==
  /\ Alive /\ WalkOver
  /\ walk' = None
  /\ UNCHANGED <<table, cells, ret, aborted>>

Next ==
  \/ \E e \in Entries : hash_insert(e) \/ hash_delete(e) \/ RemovePassed(e)
  \/ hash_clear \/ hash_free
  \/ hash_get_first \/ hash_get_next
  \/ hash_do_for_each \/ Process \/ ProcessNull \/ EndWalk

\* The caller's loop goes on: a walk that was begun is taken to its end.
Walking == hash_get_next \/ Process \/ ProcessNull

Spec == Init /\ [][Next]_vars /\ WF_vars(Walking)

-----------------------------------------------------------------------------
(* Properties. *)

TypeOK ==
  /\ table # None =>
       /\ \A i \in 1..Size(table) : table.bucket[i] \in Seq(Entries)
       /\ table.used \in Nat /\ table.n \in Nat /\ table.free \in Nat
  /\ cells \in Nat
  /\ ret \in Entries \cup {None}
  /\ aborted \in BOOLEAN

\* hash_table_ok: the two counts that insertion, deletion, rehash and undone rehash keep agree with
\* the buckets, and every entry is in the bucket where a lookup looks for it, once.
TableOK ==
  table # None =>
    /\ table.used = Cardinality({i \in 1..Size(table) : table.bucket[i] # <<>>})
    /\ table.n = Cardinality(Contents(table))
    /\ \A i \in 1..Size(table) : IsInjective(table.bucket[i])
    /\ \A e \in Contents(table) : e \in ToSet(table.bucket[safe_hasher(table, e)])
    /\ \A d, e \in Contents(table) : KeyOf[d] = KeyOf[e] => d = e

\* The comment of hash_rehash: "we ... ensure that the transfer process can be reversed if we hit a
\* memory allocation failure mid-transfer".  The two passes back need no memory, so that the abort ()
\* behind them is never reached.
NoAbort == ~aborted

\* No overflow cell is lost: each is in a chain or in the free list, and hash_free leaves none.
CellsKept == cells = IF table = None THEN 0 ELSE Overflow(table) + table.free

\* hash_get_first and hash_get_next give every entry that was there once, also when the caller
\* removes entries that it has passed.
WalkComplete ==
  (walk # None /\ walk.style = "next") =>
    /\ IsInjective(walk.passed)
    /\ WalkOver => ToSet(walk.passed) = walk.start

\* Removing entries inside hash_do_for_each, as the directory caches do, takes out none that has
\* not expired.
KeepsUnexpired ==
  (walk # None /\ walk.style = "each") => walk.start \ walk.expired \subseteq Contents(table)

\* hash_do_for_each: "Call a PROCESSOR function for each entry of a hash table".  After a walk that
\* removes the expired entries none is left.
\* The code does not have this property (README.md, "Known divergences").
NoneExpired ==
  (WalkOver /\ walk.style = "each") => Contents(table) \cap walk.expired = {}

\* A walk ends, although it runs into the free list when the processor removes an entry.
WalkEnds == (walk # None) ~> (WalkOver \/ walk = None)

\* Rehashing, failing for lack of memory and undoing a rehash are invisible to the caller: the table
\* is a set of entries with distinct keys, and an operation returns what it should for that set.
KS == INSTANCE KeyedSet WITH entries <- IF table = None THEN {} ELSE Contents(table)
SetSpec == KS!Spec
=============================================================================
