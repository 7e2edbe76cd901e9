------------------------------ MODULE MCMount ------------------------------
(***************************************************************************)
(* A guest mounted on a directory of the host: guestmount and              *)
(* guestunmount, which the module extends, and, in the library, the file   *)
(* system that is served, its caches, the lists that fill them and the     *)
(* hash tables that hold them.  They share no state here.  In a behaviour  *)
(* one of them runs, as part says, and the others rest in their initial    *)
(* state.                                                                  *)
(***************************************************************************)
EXTENDS GuestMount, Sequences

VARIABLES
  part,
  table, cells, ret, walk, aborted,                                                    \* HashTable
  guest, changes, cache, clock, listing, read_only, answer, linked, moved,             \* FuseCache
  dir, names, len, lret, i, ni, cached                                                 \* ListCalls

-----------------------------------------------------------------------------
(* Instances *)

\* An entry of a table is a pair of a key and a copy; two entries with the same key compare equal.
ManyEntries == (0..5) \X {1}
FewEntries == ({0, 1, 2, 4} \X {1}) \cup {<<0, 2>>}
AllEntries == ManyEntries \cup FewEntries
KeyOf == [e \in AllEntries |-> e[1]]

\* The numbers of buckets that the tables below may have.
Sizes == 11..31

\* Spread over 11 buckets, but for two keys, and crowded when there are more.  The two that collide
\* are then apart, so that moving entries back may need the cell that only a later bucket frees.
Spread == [k \in 0..5, n \in Sizes |-> IF n = 11 THEN k % 5 ELSE IF k = 0 THEN 0 ELSE IF k = 5 THEN 1 ELSE 2]

\* A few keys in two buckets.
Crowded == [k \in 0..5, n \in Sizes |-> k % 2]

\* A table that grows from 11 to 17 buckets when 4 are used, and back when fewer than 3 are.
Shrinking ==
  [shrink_threshold |-> 150, shrink_factor |-> 700, growth_threshold |-> 300,
   growth_factor |-> 1414, is_n_buckets |-> TRUE]

default_tuning ==
  [shrink_threshold |-> 0, shrink_factor |-> 1000, growth_threshold |-> 800,
   growth_factor |-> 1414, is_n_buckets |-> FALSE]

T == INSTANCE HashTable WITH
  Entries <- ManyEntries, hasher <- Spread, Candidate <- 11, tuning <- Shrinking,
  MaxMem <- 2, Styles <- {}
W == INSTANCE HashTable WITH
  Entries <- FewEntries, hasher <- Crowded, Candidate <- 8,
  tuning <- default_tuning, MaxMem <- 2, Styles <- {"next", "each"}

\* Two names in the root; one of them may be a directory with one entry, and renamed to the other.
FewPaths == {<<>>, <<"d">>, <<"d", "a">>}
ManyPaths == {<<>>, <<"d">>, <<"e">>, <<"d", "a">>, <<"e", "a">>}

\* A directory "d" with a file "a" in it.
StartOf(paths, inodes) ==
  [node |-> [p \in paths |-> CASE p = <<>> -> 0 [] p = <<"d">> -> 1 [] p = <<"d", "a">> -> 2 [] OTHER -> None],
   kind |-> [n \in inodes |-> IF n = 2 THEN "file" ELSE "dir"],
   attr |-> [n \in inodes |-> 0], xattr |-> [n \in inodes |-> 0]]

C == INSTANCE FuseCache WITH
  Paths <- ManyPaths, Timeout <- 0, MaxTime <- 1, MaxChanges <- 4, StartChanges <- 2,
  Start <- StartOf(ManyPaths, 0..4), NoEntry <- None, Outcomes <- {"new"}
M == INSTANCE FuseCache WITH
  Paths <- FewPaths, Timeout <- 1, MaxTime <- 2, MaxChanges <- 3, StartChanges <- 2,
  Start <- StartOf(FewPaths, 0..3), NoEntry <- None, Outcomes <- {"new", "kept", "lost"}

\* Files with no attribute, one or two, and files that cannot be read, in up to three calls.
L == INSTANCE ListCalls WITH
  Files <- {None, <<>>, <<"a">>, <<"a", "b">>}, MaxFiles <- 5, LXATTRLIST_MAX <- 2, Error <- None, ret <- lret

\* The PID file and the descriptor together or neither and, with a root, the PID file alone;
\* --no-sync in the background, with a root.
MostOptions ==
  {o \in OptionsType : (o.fd = o.pid_file \/ (o.root /\ o.pid_file)) /\ (o.sync \/ (o.root /\ o.fork))}

\* Mounts in which no call fails.
G == INSTANCE GuestMount WITH
  Options <- {o \in MostOptions : o.root /\ o.pid_file}, Retries <- {0, 2}, Early <- FALSE, Faults <- {}

\* The constants have the values that the modules expect.
ASSUME Assumptions ==
  /\ T!TuningAssumption /\ T!MaxMemAssumption /\ W!TuningAssumption /\ W!MaxMemAssumption
  /\ C!PathsAssumption /\ C!TimeoutAssumption /\ C!MaxTimeAssumption /\ C!MaxChangesAssumption
  /\ M!PathsAssumption /\ M!TimeoutAssumption /\ M!MaxTimeAssumption /\ M!MaxChangesAssumption
  /\ C!StartAssumption /\ M!StartAssumption
  /\ L!ChunkAssumption /\ L!MaxFilesAssumption
  /\ OptionsAssumption /\ FaultsAssumption /\ RetriesAssumption /\ EarlyAssumption /\ NoneAssumption
  /\ G!OptionsAssumption /\ G!FaultsAssumption /\ G!RetriesAssumption /\ G!EarlyAssumption

-----------------------------------------------------------------------------
(* Behaviours *)

tableVars == <<table, cells, ret, walk, aborted>>
cacheVars == <<guest, changes, cache, clock, listing, read_only, answer, linked, moved>>
listVars == <<dir, names, len, lret, i, ni, cached>>
allVars == <<part, tableVars, cacheVars, listVars, vars>>

Parts == {"table", "walk", "cache", "cache, no memory", "list", "mount, faults", "mount"}

AllInit ==
  /\ part \in Parts
  /\ T!Init
  /\ IF part = "cache, no memory" THEN M!Init ELSE C!Init
  /\ part \in {"cache", "cache, no memory"} \/ ~read_only
  /\ IF part = "list" THEN L!Init ELSE L!Init /\ dir = <<>>
  /\ IF part = "mount, faults" THEN Init ELSE G!Init
  /\ part \in {"mount", "mount, faults"} \/ opts = [o \in {"fork", "pid_file", "fd", "sync", "root"} |-> TRUE]

OfTable(any, walking) ==
  /\ (part = "table" /\ any) \/ (part = "walk" /\ walking)
  /\ UNCHANGED <<part, cacheVars, listVars, vars>>
OfCache ==
  /\ (part = "cache" /\ C!Next) \/ (part = "cache, no memory" /\ M!Next)
  /\ UNCHANGED <<part, tableVars, listVars, vars>>
OfList == part = "list" /\ L!Next /\ UNCHANGED <<part, tableVars, cacheVars, vars>>
OfMount(faults, none) ==
  /\ (part = "mount, faults" /\ faults) \/ (part = "mount" /\ none)
  /\ UNCHANGED <<part, tableVars, cacheVars, listVars>>

\* A table that has been freed, and a list that has been read or could not be.
Stopped ==
  /\ table = None \/ (part = "list" /\ (lret # None => len = 0 /\ i > Len(lret)))
  /\ UNCHANGED allVars

AllNext ==
  \/ OfTable(T!Next, W!Next) \/ OfCache \/ OfList \/ OfMount(Next, G!Next) \/ Stopped

\* A walk that was begun goes on, the processes of the mount run, and a hypervisor that has been sent
\* SIGTERM ends.
Fairness ==
  /\ WF_allVars(OfTable(FALSE, W!Walking) \/ OfMount(FALSE, G!Parent))
  /\ WF_allVars(OfMount(FALSE, G!Worker)) /\ WF_allVars(OfMount(FALSE, G!Unmounter)) /\ WF_allVars(OfMount(FALSE, G!QemuExits))

AllSpec == AllInit /\ [][AllNext]_allVars /\ Fairness

-----------------------------------------------------------------------------
(* Properties, besides MountIsSafe of GuestMount; with each component the kinds of its variables are checked *)

\* Whatever allocation fails, the counts of a table agree with its buckets, every entry is where a
\* lookup looks for it, no overflow cell is lost, and undoing a rehash needs no memory.
TableOK ==
  /\ part = "table" => T!TypeOK /\ T!TableOK
  /\ part = "walk" => W!TypeOK /\ W!TableOK
  /\ T!NoAbort /\ T!CellsKept

\* The entries of the table of a part that has one.
KS == INSTANCE KeyedSet WITH
  Entries <- AllEntries,
  entries <- IF part \in {"table", "walk"} /\ table # None THEN T!Contents(table) ELSE {}

\* Rehashing, and undoing it for lack of memory, are invisible: a table is a set.
SetSpec == KS!Spec

\* hash_get_first and hash_get_next give every entry once, removing expired entries inside
\* hash_do_for_each takes out no other, and a walk ends, although it runs into the free list.
WalksRight == []W!WalkComplete /\ []W!KeepsUnexpired /\ W!WalkEnds

\* A cached answer is true unless the file was changed under another name, and in any case was true in
\* the last ml_dir_cache_timeout seconds: mount_local_readdir stands on the special attribute of the
\* file that it counts, and caches every name with the attributes of its own file.
CacheIsTrue ==
  /\ part = "cache" => C!TypeOK /\ C!StaleOnlyByAlias
  /\ part = "cache, no memory" => M!TypeOK /\ M!BoundedStaleness
  /\ L!StandsOnHead /\ L!CachedAligned

\* A mount that has been taken away is cleaned up; guestunmount --fd unmounts when the program has
\* exited, or says that it could not, and gives up after as many retries as it was told.
MountCleansUp == (part = "mount" => G!CleansUp /\ G!FdUnmounts) /\ []GivesUpLate

=============================================================================
