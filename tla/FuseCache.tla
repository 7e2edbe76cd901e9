----------------------------- MODULE FuseCache -----------------------------
(***************************************************************************)
(* The FUSE file system of src/fuse.c: every request of the kernel becomes *)
(* calls of the guest file system.  Listing a directory also fetches the   *)
(* attributes, extended attributes and link targets of its entries, and    *)
(* keeps them for a while in three caches, from which the requests that    *)
(* usually follow are answered.  A request that changes a file removes the *)
(* file from the caches, under the names in the request and no others.     *)
(*                                                                         *)
(* fuse_loop serves one request at a time.  Time passes also while a       *)
(* directory is listed.  A path is a sequence of names.                    *)
(***************************************************************************)
EXTENDS Integers, Sequences

CONSTANTS
  Paths,             \* the paths, closed under taking the parent
  Timeout,           \* ml_dir_cache_timeout, in seconds
  MaxTime,           \* bound on the clock
  MaxChanges,        \* bound on the changes of the guest file system
  Start,             \* the guest file system when it is mounted, and the changes made so far
  StartChanges,
  Outcomes,          \* what may become of an insertion: "new", "kept" or "lost"
  NoEntry            \* no entry, no file

PathsAssumption == \A p \in Paths : p \in Seq(STRING)
TimeoutAssumption == Timeout \in Nat
MaxTimeAssumption == MaxTime \in Nat
MaxChangesAssumption == MaxChanges \in Nat

Kinds == {"stat", "xattr", "link"}      \* lsc, xac and rlc
Never == -1

VARIABLES
  guest,             \* the guest file system: see GuestType
  changes,           \* the number of changes made to it
  cache,             \* [Kinds -> [Paths -> entries]]; since: when the entry ceased to be true
  clock,             \* time (NULL)
  listing,           \* the directory that is being listed and when that began, or NoEntry
  read_only,         \* g->ml_read_only
  answer,            \* the answer to the last request
  linked,            \* the files that had two names at some time
  moved              \* the names in the renames so far

vars == <<guest, changes, cache, clock, listing, read_only, answer, linked, moved>>

-----------------------------------------------------------------------------
(* The guest file system, as the calls of guestfs on it see it.            *)

Parent(p) == SubSeq(p, 1, Len(p) - 1)
Below(d, p) == Len(d) < Len(p) /\ SubSeq(p, 1, Len(d)) = d
Children(d) == {p \in Paths : p # <<>> /\ Parent(p) = d}

Inodes == 0..MaxChanges
FileType == {"dir", "file", "symlink"}

\* node: which inode has a name; kind, attr and xattr: its type and when its attributes were changed.
\* The access time, which reading changes, is not among them.
GuestType ==
  [node: [Paths -> Inodes \cup {NoEntry}], kind: [Inodes -> FileType],
   attr: [Inodes -> Inodes], xattr: [Inodes -> Inodes]]

StartAssumption == Start \in GuestType /\ StartChanges \in 0..MaxChanges

IsDir(g, p) == g.node[p] # NoEntry /\ g.kind[g.node[p]] = "dir"
Vacant(g, p) == p # <<>> /\ g.node[p] = NoEntry /\ IsDir(g, Parent(p))
Bare(g, p) == \A q \in Children(p) : g.node[q] = NoEntry

\* The inodes in the set are stamped with the number of the change.
Stamped(g, inodes) == [g EXCEPT !.attr = [i \in Inodes |-> IF i \in inodes THEN changes + 1 ELSE @[i]]]

Made(p, kind) ==
  {Stamped([guest EXCEPT !.node[p] = changes + 1, !.kind[changes + 1] = kind, !.xattr[changes + 1] = changes + 1],
           {guest.node[Parent(p)], changes + 1}) : x \in {q \in {p} : Vacant(guest, q)}}

Removed(p, kinds) ==
  {Stamped([guest EXCEPT !.node[p] = NoEntry], {guest.node[Parent(p)], guest.node[p]}) :
     x \in {q \in {p} : q # <<>> /\ guest.node[q] # NoEntry /\ guest.kind[guest.node[q]] \in kinds /\ Bare(guest, q)}}

\* What rename may replace: nothing, a file by a file, an empty directory by a directory.
Replaceable(p, q) ==
  \/ Vacant(guest, q)
  \/ /\ q # <<>> /\ guest.node[q] \notin {NoEntry, guest.node[p]}
     /\ IsDir(guest, p) = IsDir(guest, q) /\ Bare(guest, q)

\* A name, with everything below it, is another name from now on.
Renamed(p, q) ==
  LET From(r) == p \o SubSeq(r, Len(q) + 1, Len(r))
      To(r) == q \o SubSeq(r, Len(p) + 1, Len(r))
      node == [r \in Paths |-> IF r = p \/ Below(p, r) THEN NoEntry
                               ELSE IF r = q \/ Below(q, r) THEN (IF From(r) \in Paths THEN guest.node[From(r)] ELSE NoEntry)
                               ELSE guest.node[r]]
  IN {Stamped([guest EXCEPT !.node = node], {guest.node[Parent(p)], guest.node[Parent(q)], guest.node[p], guest.node[q]}) :
        x \in {y \in {q} : /\ p # <<>> /\ guest.node[p] # NoEntry /\ ~Below(p, q) /\ Replaceable(p, q)
                           /\ \A r \in Paths : Below(p, r) /\ guest.node[r] # NoEntry => To(r) \in Paths}}

Linked(p, q) ==
  {Stamped([guest EXCEPT !.node[q] = guest.node[p]], {guest.node[Parent(q)], guest.node[p]}) :
     x \in {y \in {q} : guest.node[p] # NoEntry /\ ~IsDir(guest, p) /\ Vacant(guest, q)}}

Changed(p) == {Stamped(guest, {guest.node[p]}) : x \in {q \in {p} : guest.node[q] # NoEntry}}
XChanged(p) == {[g EXCEPT !.xattr[guest.node[p]] = changes + 1] : g \in Changed(p)}

\* What lstat, lgetxattrs and readlink give for a name.
Truth(g, k, p) ==
  LET i == g.node[p]
  IN IF i = NoEntry THEN NoEntry
     ELSE CASE k = "stat" -> [ino |-> i, kind |-> g.kind[i], at |-> g.attr[i]]
            [] k = "xattr" -> [ino |-> i, at |-> g.xattr[i]]
            [] k = "link" -> IF g.kind[i] = "symlink" THEN [ino |-> i] ELSE NoEntry

-----------------------------------------------------------------------------
(* The caches. *)

\* Mutant: the time is not looked at.
gen_lookup_forever(k, p) == IF cache[k][p] # NoEntry THEN cache[k][p].val ELSE NoEntry

gen_lookup(k, p) ==
  IF cache[k][p] # NoEntry /\ cache[k][p].timeout >= clock THEN cache[k][p].val ELSE NoEntry

dir_cache_invalidate(c, names) ==
  [k \in Kinds |-> [p \in Paths |-> IF p \in names THEN NoEntry ELSE c[k][p]]]

\* gen_remove_if_expired is called for some of the entries (see HashTable), and removes expired ones.
dir_cache_remove_all_expired(now, passed) ==
  [k \in Kinds |-> [p \in Paths |->
     IF cache[k][p] # NoEntry /\ cache[k][p].timeout < now /\ p \notin passed THEN NoEntry ELSE cache[k][p]]]

Entry(val, now) == [val |-> val, timeout |-> now + Timeout, since |-> Never]

\* gen_replace, for the entries of a directory.  Memory may run out before the old entry is removed
\* or after it; a name that is no longer there, or is no link, is not inserted.
Inserted(k, d, now, how) ==
  [p \in Paths |->
     IF p \notin Children(d) \/ Truth(guest, k, p) = NoEntry \/ how = "kept" THEN cache[k][p]
     ELSE IF how = "lost" THEN NoEntry
     ELSE Entry(Truth(guest, k, p), now)]

\* An entry that is not true of the changed guest has not been true since now.
Aged(c, g) ==
  [k \in Kinds |-> [p \in Paths |->
     IF c[k][p] # NoEntry /\ c[k][p].since = Never /\ c[k][p].val # Truth(g, k, p)
     THEN [val |-> c[k][p].val, timeout |-> c[k][p].timeout, since |-> clock]
     ELSE c[k][p]]]

-----------------------------------------------------------------------------
Init ==
  /\ guest = Start
  /\ changes = StartChanges
  /\ cache = [k \in Kinds |-> [p \in Paths |-> NoEntry]]
  /\ clock = 0
  /\ listing = NoEntry
  /\ read_only \in BOOLEAN
  /\ answer = "ok"
  /\ linked = {} /\ moved = {}

Idle == listing = NoEntry

\* A request that changes the guest.  The names are invalidated first; the call may fail.
Change(names, outcomes) ==
  /\ Idle
  /\ UNCHANGED <<clock, listing, read_only>>
  /\ \/ /\ read_only
        /\ answer' = "EROFS"
        /\ UNCHANGED <<guest, changes, cache, linked>>
     \/ /\ ~read_only
        /\ answer' = "error"
        /\ cache' = dir_cache_invalidate(cache, names)
        /\ UNCHANGED <<guest, changes, linked>>
     \/ /\ ~read_only
        /\ changes < MaxChanges
        /\ guest' \in outcomes
        /\ changes' = changes + 1
        /\ answer' = "ok"
        /\ cache' = Aged(dir_cache_invalidate(cache, names), guest')
        /\ linked' = linked \cup {i \in Inodes : \E p, q \in Paths : p # q /\ guest'.node[p] = i /\ guest'.node[q] = i}

mount_local_mknod(p) == Change({p}, Made(p, "file")) /\ UNCHANGED moved
mount_local_mkdir(p) == Change({p}, Made(p, "dir")) /\ UNCHANGED moved
mount_local_symlink(p) == Change({p}, Made(p, "symlink")) /\ UNCHANGED moved
mount_local_unlink(p) == Change({p}, Removed(p, {"file", "symlink"})) /\ UNCHANGED moved
mount_local_rmdir(p) == Change({p}, Removed(p, {"dir"})) /\ UNCHANGED moved

\* Mutant: only the old name is invalidated.
mount_local_rename_from(p, q) == Change({p}, Renamed(p, q)) /\ moved' = IF guest' = guest THEN moved ELSE moved \cup {p, q}
mount_local_rename(p, q) == Change({p, q}, Renamed(p, q)) /\ moved' = IF guest' = guest THEN moved ELSE moved \cup {p, q}

mount_local_link(p, q) == Change({p, q}, Linked(p, q)) /\ UNCHANGED moved

mount_local_write(p) == Change({p}, Changed(p)) /\ UNCHANGED moved
mount_local_chmod(p) == Change({p}, Changed(p)) /\ UNCHANGED moved
mount_local_chown(p) == Change({p}, Changed(p)) /\ UNCHANGED moved
mount_local_truncate(p) == Change({p}, Changed(p)) /\ UNCHANGED moved
mount_local_utimens(p) == Change({p}, Changed(p)) /\ UNCHANGED moved

mount_local_setxattr(p) == Change({p}, XChanged(p)) /\ UNCHANGED moved
mount_local_removexattr(p) == Change({p}, XChanged(p)) /\ UNCHANGED moved

\* A request that is answered from the guest or from a cache and changes nothing.
Answered(answers) ==
  /\ Idle
  /\ answer' \in answers
  /\ UNCHANGED <<guest, changes, cache, clock, listing, read_only, linked, moved>>

\* Whether there is a value, cached or not; the call that asks the guest may fail.
Known(k, p) ==
  IF gen_lookup(k, p) # NoEntry THEN {"ok"}
  ELSE IF Truth(guest, k, p) # NoEntry THEN {"ok", "error"}
  ELSE {"error"}

mount_local_getattr(p) == Answered(Known("stat", p))
mount_local_access(p) ==
  Answered((IF "ok" \in Known("stat", p) THEN {"refused"} ELSE {})
             \cup (IF read_only THEN {"EROFS"} ELSE {}) \cup Known("stat", p))
mount_local_readlink(p) == Answered(Known("link", p))
mount_local_getxattr(p) ==
  Answered((IF "ok" \in Known("xattr", p) THEN {"refused"} ELSE {}) \cup Known("xattr", p))
mount_local_listxattr(p) ==
  Answered((IF "ok" \in Known("xattr", p) THEN {"refused"} ELSE {}) \cup Known("xattr", p))
mount_local_open == Answered({"ok"} \cup IF read_only THEN {"EROFS"} ELSE {})
\* pread changes the access time of the file at most, which is not modelled.
mount_local_read(p) ==
  Answered({"error"} \cup IF guest.node[p] # NoEntry /\ ~IsDir(guest, p) THEN {"ok"} ELSE {})
mount_local_statfs == Answered({"ok", "error"})
mount_local_fsync == Answered({"ok", "error"})
mount_local_release == Answered({"ok"})
mount_local_flush == Answered({"ok"})

\* Listing begins: the time is taken before anything is read.
mount_local_readdir(d) ==
  /\ Idle
  /\ listing' = [dir |-> d, now |-> clock]
  /\ \E passed \in SUBSET Children(d) : cache' = dir_cache_remove_all_expired(clock, passed)
  /\ UNCHANGED <<guest, changes, clock, read_only, answer, linked, moved>>

\* The entries are read and put into the caches.
Prepopulate ==
  /\ ~Idle
  /\ IsDir(guest, listing.dir)
  /\ \E how \in [Kinds -> Outcomes] :
       cache' = [k \in Kinds |-> Inserted(k, listing.dir, listing.now, how[k])]
  /\ listing' = NoEntry
  /\ answer' = "ok"
  /\ UNCHANGED <<guest, changes, clock, read_only, linked, moved>>

\* guestfs_readdir fails.
ReaddirFails ==
  /\ ~Idle
  /\ listing' = NoEntry
  /\ answer' = "error"
  /\ UNCHANGED <<guest, changes, cache, clock, read_only, linked, moved>>

Tick ==
  /\ clock < MaxTime
  /\ clock' = clock + 1
  /\ UNCHANGED <<guest, changes, cache, listing, read_only, answer, linked, moved>>

Request(p) ==
  \/ mount_local_mknod(p) \/ mount_local_mkdir(p) \/ mount_local_symlink(p)
  \/ mount_local_unlink(p) \/ mount_local_rmdir(p)
  \/ (\E q \in Paths : mount_local_rename(p, q) \/ mount_local_link(p, q))
  \/ mount_local_write(p) \/ mount_local_chmod(p) \/ mount_local_chown(p)
  \/ mount_local_truncate(p) \/ mount_local_utimens(p)
  \/ mount_local_setxattr(p) \/ mount_local_removexattr(p)
  \/ mount_local_getattr(p) \/ mount_local_access(p) \/ mount_local_readlink(p)
  \/ mount_local_getxattr(p) \/ mount_local_listxattr(p) \/ mount_local_read(p)
  \/ mount_local_readdir(p)

Next ==
  \/ \E p \in Paths : Request(p)
  \/ mount_local_open \/ mount_local_statfs \/ mount_local_fsync
  \/ mount_local_release \/ mount_local_flush
  \/ Prepopulate \/ ReaddirFails \/ Tick

Spec == Init /\ [][Next]_vars

-----------------------------------------------------------------------------
(* Properties. *)

TypeOK ==
  /\ guest \in GuestType
  /\ changes \in 0..MaxChanges
  /\ \A k \in Kinds, p \in Paths :
       cache[k][p] # NoEntry => cache[k][p].timeout \in Nat /\ cache[k][p].since \in Nat \cup {Never}
  /\ clock \in 0..MaxTime
  /\ listing # NoEntry => listing.dir \in Paths /\ listing.now \in 0..clock
  /\ read_only \in BOOLEAN

\* What a request is answered with from a cache was true at some moment of the last
\* ml_dir_cache_timeout seconds, although entries are read, inserted and looked up at different
\* times.
BoundedStaleness ==
  \A k \in Kinds, p \in Paths :
    (gen_lookup(k, p) # NoEntry /\ cache[k][p].since # Never) => clock - cache[k][p].since <= Timeout

\* A cached answer is true, the access time aside, unless the file was changed under a name that the
\* request did not have: a directory by making or removing an entry of it, a file by another of its
\* hard links, or anything below a directory that was renamed.  In particular a program sees what it
\* has done to a file under the name that it used.
StaleOnlyByAlias ==
  \A k \in Kinds, p \in Paths :
    LET val == gen_lookup(k, p)
    IN val \notin {NoEntry, Truth(guest, k, p)} =>
         \/ k = "stat" /\ val.kind = "dir"
         \/ val.ino \in linked
         \/ \E q \in moved : Below(q, p)

=============================================================================
