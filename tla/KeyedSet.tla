------------------------------ MODULE KeyedSet ------------------------------
(***************************************************************************)
(* What a hash table of supermin-5.1.11/lib/hash.c promises, as the        *)
(* comments of its functions put it: a set of entries, no two of which     *)
(* compare equal.  An insertion may fail for lack of memory, and then      *)
(* changes nothing.  HashTable implements this specification.              *)
(***************************************************************************)
CONSTANTS Entries, KeyOf, None

VARIABLES entries, ret

vars == <<entries, ret>>

Matching(e) == {d \in entries : KeyOf[d] = KeyOf[e]}

Init == entries = {} /\ ret = None

\* hash_insert: the entry itself, the one in the table that equals it, or NULL.
Insert(e) ==
  \/ /\ Matching(e) # {}
     /\ ret' \in Matching(e)
     /\ UNCHANGED entries
  \/ /\ Matching(e) = {}
     /\ \/ ret' = e /\ entries' = entries \cup {e}
        \/ ret' = None /\ UNCHANGED entries

\* hash_delete: what was taken out, or NULL.
Delete(e) ==
  /\ entries' = entries \ Matching(e)
  /\ \/ Matching(e) = {} /\ ret' = None
     \/ ret' \in Matching(e)

Clear == entries' = {} /\ ret' = None

Next == (\E e \in Entries : Insert(e) \/ Delete(e)) \/ Clear

Spec == Init /\ [][Next]_vars
=============================================================================
