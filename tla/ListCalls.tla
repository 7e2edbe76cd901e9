----------------------------- MODULE ListCalls -----------------------------
(***************************************************************************)
(* How the attributes of all the files of a directory get from the guest   *)
(* into the caches of src/fuse.c.  The library splits the list of names    *)
(* into calls of limited size (src/file.c); the daemon answers each call   *)
(* with a flat list (daemon/xattr.c, stat.c and link.c); the library puts  *)
(* the answers one behind the other; fuse.c takes the flat list apart      *)
(* again, counting names as it goes.                                       *)
(***************************************************************************)
EXTENDS Integers, Sequences, SequencesExt

CONSTANTS
  Files,             \* a file: Error, or the sequence of its attributes
  MaxFiles,          \* bound on the number of files in the directory
  LXATTRLIST_MAX,    \* the most names in one call
  Error

MaxFilesAssumption == MaxFiles \in Nat
ChunkAssumption == LXATTRLIST_MAX \in Nat \ {0}

VARIABLES
  dir,               \* the files, in the order of their names
  names,             \* what is left of the list of names: the index of the first of them
  len,               \* how many names the library still has to ask for
  ret,               \* the answers of the daemon so far, or Error
  i, ni,             \* the indexes of mount_local_readdir
  cached             \* the entries made so far: <<index of the name, attributes>>

vars == <<dir, names, len, ret, i, ni, cached>>

Head0(val) == [attrname |-> "", attrval |-> val]
Attr(a) == [attrname |-> a, attrval |-> a]

\* Mutant: a file that cannot be read has no place in the answer.
OfFile_skips(file) ==
  IF file = Error THEN <<>> ELSE <<Head0(ToString(Len(file)))>> \o [k \in DOMAIN file |-> Attr(file[k])]

\* What the daemon puts into the list for one file: a special attribute, and the attributes.
OfFile(file) ==
  IF file = Error THEN <<Head0("")>>
  ELSE <<Head0(ToString(Len(file)))>> \o [k \in DOMAIN file |-> Attr(file[k])]

do_internal_lxattrlist(files) == FlattenSeq([k \in DOMAIN files |-> OfFile(files[k])])

\* The first n of the names from the given one.
take_strings(from, n) == SubSeq(dir, from, IF from + n - 1 <= Len(dir) THEN from + n - 1 ELSE Len(dir))

Init ==
  /\ dir \in UNION {[1..n -> Files] : n \in 0..MaxFiles}
  /\ names = 1 /\ len = Len(dir) /\ ret = <<>>
  /\ i = 1 /\ ni = 1 /\ cached = <<>>

\* Mutant: the list of names is not moved on.
guestfs__lxattrlist_first ==
  /\ ret # Error /\ len > 0
  /\ LET first == take_strings(names, LXATTRLIST_MAX)
     IN ret' = ret \o do_internal_lxattrlist(first) /\ names' = names
  /\ len' = IF len <= LXATTRLIST_MAX THEN 0 ELSE len - LXATTRLIST_MAX
  /\ UNCHANGED <<dir, i, ni, cached>>

\* One round of the library's loop; the call may fail, and everything fails with it.
guestfs__lxattrlist ==
  /\ ret # Error /\ len > 0
  /\ LET first == take_strings(names, LXATTRLIST_MAX)
     IN \/ ret' = ret \o do_internal_lxattrlist(first) /\ names' = names + Len(first)
        \/ ret' = Error /\ UNCHANGED names
  /\ len' = IF len <= LXATTRLIST_MAX THEN 0 ELSE len - LXATTRLIST_MAX
  /\ UNCHANGED <<dir, i, ni, cached>>

\* The attributes from an index up to the next special one.
Run(from) ==
  LET rest == SubSeq(ret, from, Len(ret))
      heads == {k \in DOMAIN rest : rest[k].attrname = ""}
  IN IF heads = {} THEN rest ELSE SubSeq(rest, 1, Min(heads) - 1)

\* One round of the loop of mount_local_readdir.
Populate ==
  /\ ret # Error /\ len = 0 /\ i <= Len(ret)
  /\ LET run == Run(i + 1)
     IN IF ret[i].attrval # ""
        THEN cached' = Append(cached, <<ni, [k \in DOMAIN run |-> run[k].attrval]>>) /\ i' = i + Len(run) + 1
        ELSE UNCHANGED cached /\ i' = i + 1
  /\ ni' = ni + 1
  /\ UNCHANGED <<dir, names, len, ret>>

Next == guestfs__lxattrlist \/ Populate

Spec == Init /\ [][Next]_vars

-----------------------------------------------------------------------------
(* Properties. *)

\* The loop in mount_local_readdir always stands on the special attribute of the file that it
\* counts ("assert (strlen (xattrs->val[i].attrname) == 0)"), and there is such a file.
StandsOnHead ==
  ret # Error /\ len = 0 /\ i <= Len(ret) => ret[i].attrname = "" /\ ni <= Len(dir)

\* Whatever the number of files and of attributes, every name is cached with the attributes of its
\* own file, unless they could not be read.
CachedAligned ==
  ret # Error /\ len = 0 /\ i > Len(ret) =>
    cached = SelectSeq([k \in DOMAIN dir |-> <<k, dir[k]>>], LAMBDA e : e[2] # Error)
=============================================================================
