---------------------------- MODULE TemplateCopy ----------------------------
(***************************************************************************)
(* /rest/domain/copy_debian_template (copyDebianTemplate of                *)
(* domain_servlet.py): a template image is copied onto a disk, and through *)
(* libguestfs its second partition is grown to leave room for a swap       *)
(* partition at the end, which goes into the fstab.  Every call is a step; *)
(* a call may fail and the server may die between two.  Positions on the   *)
(* disk are sectors; parted, which libguestfs runs, numbers a new primary  *)
(* partition with the first free number and refuses an overlap.            *)
(***************************************************************************)
EXTENDS Integers, FiniteSets, SequencesExt

CONSTANTS
  Templates,  \* images: length, partition table, and where the root file system lies
  Disks,      \* targets: kind (file or device) and size
  Swaps,      \* the swap arguments of requests, in KiB
  Faults,     \* "guestfs": calls may fail; "crash": the server may die
  MaxTries    \* bound: requests

MaxTriesAssumption == MaxTries \in Nat
SwapsAssumption == Swaps \subseteq Int

VARIABLES
  disk,   \* the target: kind, size, partition table, root file system, swap lines of the fstab
  pc,     \* the next call of the handler
  req,    \* the request: template and swap size
  start,  \* parts[1]['part_start'], in bytes
  tries,  \* requests so far
  reply   \* the last answer: none, OK, BAD_PARAMETER or an internal error

vars == <<disk, pc, req, start, tries, reply>>

SectorSize == 512
Bytes(sector) == sector * SectorSize

\* A partition with its first and its last sector.
Overlap(p, q) == p.start <= q.end /\ q.start <= p.end
Length(p) == p.end - p.start + 1

NoReq == [template |-> CHOOSE t \in Templates : TRUE, swap |-> 0]
NoFs == [start |-> 0, len |-> 0]

Init ==
  /\ disk \in {[kind |-> d.kind, size |-> d.size, table |-> {}, fs |-> NoFs, lines |-> 0] : d \in Disks}
  /\ pc = "idle" /\ req = NoReq /\ start = 0 /\ tries = 0 /\ reply = "none"

-----------------------------------------------------------------------------

Goto(l) == pc' = l /\ UNCHANGED <<req, start, tries, reply>>
Finish(r) == pc' = "idle" /\ reply' = r /\ req' = NoReq /\ start' = 0 /\ UNCHANGED tries

\* Any exception: except: raise, and render answers 500.  The handle is closed as it is collected.
Raise == Finish("error")

\* part_list: parted prints the partitions in the order of their positions.
part_list(table) == SetToSortSeq(table, LAMBDA p, q : p.start < q.start)

\* list_partitions: the device names in the order of the partition numbers.
list_partitions(table) == SetToSortSeq(table, LAMBDA p, q : p.num < q.num)

\* part_add: a negative end counts from the end of the disk, -1 being the last sector.
LastSector(endsect) == IF endsect < 0 THEN disk.size + endsect ELSE endsect
FreeNumber(table) == CHOOSE n \in 1..5 : /\ n \notin {p.num : p \in table}
                                         /\ \A m \in 1..(n - 1) : m \in {p.num : p \in table}
Fits(startsect, endsect) ==
  LET new == [num |-> FreeNumber(disk.table), start |-> startsect, end |-> LastSector(endsect)]
  IN  /\ new.num <= 4 /\ startsect <= new.end /\ new.end < disk.size
      /\ \A p \in disk.table : ~Overlap(p, new)
part_add(startsect, endsect) ==
  /\ Fits(startsect, endsect)
  /\ disk' = [disk EXCEPT !.table = @ \cup
       {[num |-> FreeNumber(@), start |-> startsect, end |-> LastSector(endsect)]}]

-----------------------------------------------------------------------------
(* The handler. *)

\* The parameters: a missing one raises, and so does one that is refused with a code.
copyDebianTemplate(t, s) ==
  /\ pc = "idle" /\ tries < MaxTries
  /\ tries' = tries + 1
  /\ IF s <= 0 THEN reply' = "error" /\ UNCHANGED <<pc, req>>
     ELSE pc' = "copy" /\ req' = [template |-> t, swap |-> s] /\ reply' = "none"
  /\ UNCHANGED <<disk, start>>

\* Mutant: only the partition table is copied again when a root file system is there.
Copy_once ==
  /\ pc = "copy"
  /\ LET t == req.template IN
     /\ disk' = [disk EXCEPT !.size = IF t.len > @ THEN t.len ELSE @, !.table = t.table, !.fs = t.fs]
     /\ Goto("part_del")

\* The copy of the template, add_drive_opts, launch and list_devices: a file grows as needed, a
\* device that is too short ends the copy.  The partition table comes first on the disk.
Copy ==
  /\ pc = "copy"
  /\ LET t == req.template IN
     \/ /\ disk.kind = "file" \/ t.len <= disk.size
        /\ disk' = [disk EXCEPT !.size = IF t.len > @ THEN t.len ELSE @,
                                !.table = t.table, !.fs = t.fs, !.lines = 0]
        /\ Goto("part_del")
     \/ /\ disk.kind = "device" /\ t.len > disk.size
        /\ disk' = [disk EXCEPT !.table = t.table, !.fs = NoFs, !.lines = 0]
        /\ Raise

\* part_list and part_del of the second partition; its start is kept in parts.
PartDel ==
  /\ pc = "part_del"
  /\ LET parts == part_list(disk.table) IN
     \/ Len(parts) < 2 /\ Raise /\ UNCHANGED disk
     \/ /\ Len(parts) >= 2
        /\ disk' = [disk EXCEPT !.table = @ \ {parts[2]}]
        /\ start' = Bytes(parts[2].start)
        /\ pc' = "part_add" /\ UNCHANGED <<req, tries, reply>>

\* part_add of the second partition: from its old start to swap_size KiB before the end.
PartAddRoot ==
  /\ pc = "part_add"
  /\ \/ part_add(start \div SectorSize, -req.swap * 2) /\ Goto("part_swap")
     \/ ~Fits(start \div SectorSize, -req.swap * 2) /\ Raise /\ UNCHANGED disk

\* Mutant: the swap partition starts in the last sector of the one before.
PartAddSwap_overlaps ==
  /\ pc = "part_swap"
  /\ LET parts == part_list(disk.table)
         next == (Bytes(parts[2].end + 1) - 1) \div SectorSize
     IN  \/ part_add(next, -1) /\ Goto("mkswap")
         \/ ~Fits(next, -1) /\ Raise /\ UNCHANGED disk

\* part_list and part_add of the third partition, after the second one to the last sector; part_end
\* is the last byte of a partition.
PartAddSwap ==
  /\ pc = "part_swap"
  /\ LET parts == part_list(disk.table)
         next == (Bytes(parts[2].end + 1) - 1) \div SectorSize + 1
     IN  \/ part_add(next, -1) /\ Goto("mkswap")
         \/ ~Fits(next, -1) /\ Raise /\ UNCHANGED disk

\* list_partitions and mkswap of the third: a file system under it is gone.
Mkswap ==
  /\ pc = "mkswap"
  /\ LET p == list_partitions(disk.table)[3] IN
     /\ disk' = [disk EXCEPT !.fs = IF Overlap(p, [start |-> @.start, end |-> @.start + @.len - 1])
                                    THEN NoFs ELSE @]
     /\ Goto("resize")

\* Mutant: the file system is checked and not resized.
Resize_checked ==
  /\ pc = "resize" /\ UNCHANGED disk
  /\ LET p == list_partitions(disk.table)[2] IN
     IF disk.fs = NoFs \/ (p.start = disk.fs.start /\ disk.fs.len > Length(p)) THEN Raise ELSE Goto("fstab")

\* e2fsck_f refuses a damaged file system and one that is longer than its partition; resize2fs makes
\* it fill the partition.  The first partition's file system is healthy too.
Resize ==
  /\ pc = "resize"
  /\ LET p == list_partitions(disk.table)[2] IN
     \/ /\ p.start = disk.fs.start /\ disk.fs.len > Length(p) /\ Raise /\ UNCHANGED disk
     \/ /\ p.start = disk.fs.start /\ disk.fs.len <= Length(p)
        /\ disk' = [disk EXCEPT !.fs.len = Length(p)] /\ Goto("fstab")
     \/ /\ p.start # disk.fs.start
        /\ \/ disk.fs = NoFs /\ Raise
           \/ disk.fs # NoFs /\ Goto("fstab")
        /\ UNCHANGED disk

\* blkid, mkmountpoint, mount, write_append to /tmp/etc/fstab: only the root file system has /etc.
Fstab ==
  /\ pc = "fstab"
  /\ LET p == list_partitions(disk.table)[2] IN
     \/ p.start # disk.fs.start /\ Raise /\ UNCHANGED disk
     \/ /\ p.start = disk.fs.start
        /\ disk' = [disk EXCEPT !.lines = @ + 1] /\ Goto("close")

\* hostname and interfaces, umount, close, code OK.
Close == pc = "close" /\ Finish("OK") /\ UNCHANGED disk

\* A call of libguestfs fails.
CallFails == "guestfs" \in Faults /\ pc \notin {"idle", "copy"} /\ Raise /\ UNCHANGED disk

\* The server dies and is started again: nobody is answered.
Crash == "crash" \in Faults /\ pc # "idle" /\ Finish("none") /\ UNCHANGED disk

Next ==
  \/ \E t \in Templates, s \in Swaps : copyDebianTemplate(t, s)
  \/ Copy \/ PartDel \/ PartAddRoot \/ PartAddSwap \/ Mkswap \/ Resize \/ Fstab \/ Close
  \/ CallFails \/ Crash

Spec == Init /\ [][Next]_vars

-----------------------------------------------------------------------------
(* Properties *)

\* Every variable has a value of its kind; in particular every partition of the disk has a number
\* of its own, lies on the disk once the template is on it, and overlaps no other.
TypeOK ==
  /\ disk.size \in Nat /\ disk.lines \in Nat /\ start \in Nat /\ tries \in 0..MaxTries
  /\ pc \in {"idle", "copy", "part_del", "part_add", "part_swap", "mkswap", "resize", "fstab", "close"}
  /\ reply \in {"none", "OK", "BAD_PARAMETER", "error"}
  /\ \A p, q \in disk.table : p # q => p.num # q.num /\ ~Overlap(p, q)
  /\ pc \notin {"idle", "copy"} => \A p \in disk.table : p.end < disk.size

\* The step in which copyDebianTemplate answers OK.
AnswersOK == reply # "OK" /\ reply' = "OK"

\* When copyDebianTemplate answers OK, the root file system has kept its place and fills a second
\* partition, the first partition is the template's, and all that remains up to the last sector is
\* the swap partition, one sector less than the size asked for: whatever the arithmetic on bytes,
\* sectors, KiB and negative ends does for the sizes of the template, the disk and the swap space,
\* and whatever an earlier request left on the disk.
LaidOut ==
  [][AnswersOK =>
       LET parts == part_list(disk.table)
           old   == part_list(req.template.table)
       IN  /\ Len(parts) = 3 /\ parts[1] = old[1]
           /\ parts[2].start = req.template.fs.start
           /\ disk.fs = [start |-> parts[2].start, len |-> Length(parts[2])]
           /\ parts[3].start = parts[2].end + 1 /\ parts[3].end = disk.size - 1
           /\ Length(parts[3]) = 2 * req.swap - 1]_vars

\* When copyDebianTemplate answers OK the fstab has one line for the swap partition, also when an
\* earlier request for the same disk had failed after it wrote its line.
OneSwapLine == [][AnswersOK => disk.lines = 1]_vars

\* The template has a first partition and a root partition, numbered in this order, and the disk
\* has room for the root file system and the swap space.
Room ==
  LET t   == req.template
      old == part_list(t.table)
  IN  /\ disk.kind = "device" => t.len <= disk.size
      /\ Len(old) = 2 /\ old[1].num = 1 /\ old[2].start = t.fs.start
      /\ t.fs.start + t.fs.len <=
           (IF t.len > disk.size THEN t.len ELSE disk.size) - 2 * req.swap + 1

\* As long as libguestfs does not fail, copyDebianTemplate succeeds on every disk that has room: the
\* new partitions never overlap, and the root file system is never cut.
FailsForRoom == pc # "idle" /\ reply' = "error" => ~Room
SucceedsIfRoom == [][FailsForRoom]_vars

\* A request whose swap size is not positive is answered with DOMAIN_ERROR_CODE_BAD_PARAMETER, as
\* the code that copyDebianTemplate prepares for it says.
\* The code does not have this property (README.md, "Known divergences").
BadParameterTold ==
  [][\A t \in Templates, s \in Swaps :
       s <= 0 /\ copyDebianTemplate(t, s) => reply' = "BAD_PARAMETER"]_vars

=============================================================================
