---------------------------- MODULE ParallelXzcat ----------------------------
(***************************************************************************)
(* The parallel xzcat of virt-builder (builder/pxzcat-c.c): the indexes of *)
(* the streams are read from the end of the file backwards, the output     *)
(* file is made empty and long enough, and worker threads take block after *)
(* block from a shared iterator and write what they decode at its place.   *)
(* The input is a sequence of words of 4 bytes; the output a sequence of   *)
(* buffers of BUFFER_SIZE.                                                 *)
(***************************************************************************)
EXTENDS Naturals, Sequences, SequencesExt, FiniteSets

CONSTANTS
  Files,       \* inputs: a sequence of streams [blocks, pad], a block the buffers it decodes to
  Olds,        \* what the output file may hold before
  nr_threads,  \* sysconf(_SC_NPROCESSORS_ONLN)
  Faults       \* "read": pread fails or the data is bad; "write": a call on the output file fails;
               \* "create": pthread_create fails

LZMA_STREAM_HEADER_SIZE == 3  \* in words
IndexSize == 2                \* in words

Threads == 1..nr_threads

VARIABLES
  file,      \* the input
  phase,     \* of pxzcat: "parse", "create", "start", "join", "returned", "raised"
  pos,       \* of parse_indexes
  offset,    \* the file offset of fd
  padding,   \* stream_padding
  combined,  \* combined_index: the streams found
  out,       \* the output file
  iter,      \* global.iter: the blocks taken so far
  pc,        \* thread -> "none", "next", "decode", "done"
  block,     \* thread -> its copy of the iterator: a block [data, at]
  chunk,     \* thread -> buffers of it that are written
  status,    \* thread -> state->status
  u,         \* the thread the main thread is at
  nr_errors

parseVars == <<pos, offset, padding, combined>>
threadVars == <<iter, pc, block, chunk, status, u, nr_errors>>
vars == <<file, phase, parseVars, out, threadVars>>

-----------------------------------------------------------------------------
(* The xz file format and liblzma *)

Words(n, w) == [i \in 1..n |-> <<w, i>>]

\* The words of a stream, of which each block takes one.
StreamWords(s) ==
  Words(LZMA_STREAM_HEADER_SIZE, "header") \o Words(Len(s.blocks), "block")
  \o Words(IndexSize, "index") \o Words(LZMA_STREAM_HEADER_SIZE, "footer") \o Words(s.pad, "pad")
FileWords(f) == FlattenSeq([k \in 1..Len(f) |-> StreamWords(f[k])])

\* What read returns for n words at an offset.
At(w, o, n) == SubSeq(w, o + 1, o + n)

\* The stream whose footer starts at an offset.
StreamWithFooter(f, o) ==
  CHOOSE k \in 1..Len(f) :
    o = Len(FileWords(SubSeq(f, 1, k))) - f[k].pad - LZMA_STREAM_HEADER_SIZE

\* The blocks of an index with their offsets in the uncompressed data, without the empty ones.
IndexBlocks(streams) ==
  LET all == FlattenSeq([k \in 1..Len(streams) |-> streams[k].blocks])
      at(i) == Len(FlattenSeq(SubSeq(all, 1, i - 1)))
  IN SelectSeq([i \in 1..Len(all) |-> [data |-> all[i], at |-> at(i)]], LAMBDA b : b.data # <<>>)
UncompressedSize(streams) == Len(FlattenSeq(FlattenSeq([k \in 1..Len(streams) |-> streams[k].blocks])))

-----------------------------------------------------------------------------

NoBlock == [data |-> <<>>, at |-> 0]

Init ==
  /\ file \in Files /\ phase = "parse"
  /\ pos = Len(FileWords(file)) /\ offset = pos /\ padding = 0 /\ combined = <<>>
  /\ out \in Olds /\ iter = 0
  /\ pc = [t \in Threads |-> "none"] /\ block = [t \in Threads |-> NoBlock]
  /\ chunk = [t \in Threads |-> 0] /\ status = [t \in Threads |-> 0]
  /\ u = 1 /\ nr_errors = 0

\* unix_error or caml_invalid_argument: the function does not return.
Raise == phase' = "raised"

ParseFails ==
  /\ phase = "parse" /\ "read" \in Faults
  /\ Raise /\ UNCHANGED <<file, parseVars, out, threadVars>>

\* One round of the loop of parse_indexes: the footer, padding, the index and the header of a
\* stream.  The footer is read before the current offset of the file, which the round leaves
\* behind the last words read.
ParseStream ==
  /\ phase = "parse" /\ pos > 0
  /\ LET w == FileWords(file)
         start == offset - LZMA_STREAM_HEADER_SIZE
         footer == At(w, start, LZMA_STREAM_HEADER_SIZE)
     IN IF pos < LZMA_STREAM_HEADER_SIZE \/ offset < LZMA_STREAM_HEADER_SIZE
        THEN Raise /\ UNCHANGED parseVars
        ELSE IF footer[LZMA_STREAM_HEADER_SIZE][1] = "pad"
        THEN padding' = padding + 1 /\ pos' = pos - 1 /\ UNCHANGED <<phase, offset, combined>>
        ELSE IF footer # Words(LZMA_STREAM_HEADER_SIZE, "footer")
        THEN Raise /\ UNCHANGED parseVars
        ELSE LET s == file[StreamWithFooter(file, start)]
                 index == pos - LZMA_STREAM_HEADER_SIZE - IndexSize
                 header == index - Len(s.blocks) - LZMA_STREAM_HEADER_SIZE
             IN IF At(w, index, IndexSize) = Words(IndexSize, "index")
                THEN /\ pos' = header /\ offset' = header + LZMA_STREAM_HEADER_SIZE
                     /\ combined' = <<[blocks |-> s.blocks, pad |-> padding]>> \o combined
                     /\ UNCHANGED <<phase, padding>>
                ELSE Raise /\ UNCHANGED parseVars
  /\ UNCHANGED <<file, out, threadVars>>

ParseEnd ==
  /\ phase = "parse" /\ pos = 0
  /\ phase' = "create" /\ UNCHANGED <<file, parseVars, out, threadVars>>

Zeros(n) == [i \in 1..n |-> "zero"]

\* Mutant: the file is not cut to one byte first.
CreateOutput_keep ==
  /\ phase = "create"
  /\ phase' = "start"
  /\ out' = [i \in 1..UncompressedSize(combined) |-> IF i <= Len(out) THEN out[i] ELSE "zero"]
  /\ UNCHANGED <<file, parseVars, threadVars>>

\* open, ftruncate to one byte, the write of a zero byte, ftruncate to the uncompressed size.
CreateOutput ==
  /\ phase = "create"
  /\ \/ phase' = "start" /\ out' = Zeros(UncompressedSize(combined))
     \/ "write" \in Faults /\ Raise /\ out' \in {out, Zeros(1)}
  /\ UNCHANGED <<file, parseVars, threadVars>>

-----------------------------------------------------------------------------
(* iter_blocks *)

\* A pthread_create that fails raises the exception at once.
StartThread ==
  /\ phase = "start"
  /\ \/ u <= nr_threads /\ pc' = [pc EXCEPT ![u] = "next"] /\ status' = [status EXCEPT ![u] = 1]
        /\ u' = u + 1 /\ UNCHANGED phase
     \/ u <= nr_threads /\ "create" \in Faults /\ Raise /\ UNCHANGED <<pc, status, u>>
     \/ u > nr_threads /\ phase' = "join" /\ u' = 1 /\ UNCHANGED <<pc, status>>
  /\ UNCHANGED <<file, parseVars, out, iter, block, chunk, nr_errors>>

\* pthread_join, and the exception when some thread failed.
JoinThread ==
  /\ phase = "join"
  /\ \/ /\ u <= nr_threads /\ pc[u] = "done" /\ u' = u + 1
        /\ nr_errors' = nr_errors + status[u] /\ UNCHANGED phase
     \/ /\ u > nr_threads /\ phase' = (IF nr_errors > 0 THEN "raised" ELSE "returned")
        /\ UNCHANGED <<u, nr_errors>>
  /\ UNCHANGED <<file, parseVars, out, iter, pc, block, chunk, status>>

-----------------------------------------------------------------------------
(* worker_thread *)

Goto(t, l) == pc' = [pc EXCEPT ![t] = l]

\* Mutant: no local copy of the iterator is taken.
NextBlock_shared(t) ==
  /\ pc[t] = "next"
  /\ LET all == IndexBlocks(combined)
     IN IF iter < Len(all)
        THEN /\ iter' = iter + 1 /\ block' = [v \in Threads |-> all[iter + 1]]
             /\ chunk' = [chunk EXCEPT ![t] = 0] /\ Goto(t, "decode") /\ UNCHANGED status
        ELSE Goto(t, "done") /\ status' = [status EXCEPT ![t] = 0] /\ UNCHANGED <<iter, block, chunk>>
  /\ UNCHANGED <<file, phase, parseVars, out, u, nr_errors>>

\* Mutant: the iterator does not say that it is at its end.
NextBlock_endless(t) ==
  /\ pc[t] = "next" /\ iter < Len(IndexBlocks(combined))
  /\ iter' = iter + 1 /\ block' = [block EXCEPT ![t] = IndexBlocks(combined)[iter + 1]]
  /\ chunk' = [chunk EXCEPT ![t] = 0] /\ Goto(t, "decode")
  /\ UNCHANGED <<file, phase, parseVars, out, status, u, nr_errors>>

\* Under iter_mutex: the next block that is not empty and a copy of the iterator, or the end.
NextBlock(t) ==
  /\ pc[t] = "next"
  /\ LET all == IndexBlocks(combined)
     IN IF iter < Len(all)
        THEN /\ iter' = iter + 1 /\ block' = [block EXCEPT ![t] = all[iter + 1]]
             /\ chunk' = [chunk EXCEPT ![t] = 0] /\ Goto(t, "decode") /\ UNCHANGED status
        ELSE Goto(t, "done") /\ status' = [status EXCEPT ![t] = 0] /\ UNCHANGED <<iter, block, chunk>>
  /\ UNCHANGED <<file, phase, parseVars, out, u, nr_errors>>

\* A buffer is decoded; it is written unless it is all zero, and the block may be at its end.
Decode(t) ==
  /\ pc[t] = "decode"
  /\ LET b == block[t]
         data == b.data[chunk[t] + 1]
     IN /\ chunk' = [chunk EXCEPT ![t] = @ + 1]
        /\ out' = IF data = "zero" THEN out ELSE [out EXCEPT ![b.at + chunk[t] + 1] = data]
        /\ Goto(t, IF chunk[t] + 1 = Len(b.data) THEN "next" ELSE "decode")
  /\ UNCHANGED <<file, phase, parseVars, iter, block, status, u, nr_errors>>

\* A failed pread, bad data or a failed or short pwrite: the thread returns with status -1.
DecodeFails(t) ==
  /\ pc[t] = "decode" /\ Faults \cap {"read", "write"} # {} /\ Goto(t, "done")
  /\ UNCHANGED <<file, phase, parseVars, out, iter, block, chunk, status, u, nr_errors>>

Worker(t) == NextBlock(t) \/ Decode(t)

\* Threads that run when pthread_create has failed for another one go on, with the frame of iter_blocks
\* that they share gone; what becomes of them is not modelled.
Next ==
  \/ ParseFails \/ ParseStream \/ ParseEnd \/ CreateOutput \/ StartThread \/ JoinThread
  \/ phase # "raised" /\ \E t \in Threads : Worker(t) \/ DecodeFails(t)

Spec == Init /\ [][Next]_vars

\* The scheduler runs every thread that can run.
FairSpec == Spec /\ WF_vars(Next)

-----------------------------------------------------------------------------
(* Properties *)

\* Every variable has a value of its kind.
TypeOK ==
  /\ file \in Files /\ phase \in {"parse", "create", "start", "join", "returned", "raised"}
  /\ pos \in Nat /\ offset \in Nat /\ padding \in Nat /\ iter \in Nat
  /\ pc \in [Threads -> {"none", "next", "decode", "done"}]
  /\ chunk \in [Threads -> Nat] /\ status \in [Threads -> {0, 1}]
  /\ u \in 1..nr_threads + 1 /\ nr_errors \in 0..nr_threads

Content(f) == FlattenSeq(FlattenSeq([k \in 1..Len(f) |-> f[k].blocks]))

\* When pxzcat returns, the output file is the uncompressed input: whatever it held before, in
\* whatever order the threads took and wrote the blocks, and with the buffers of zeros that no
\* thread wrote.
OutputRight == phase = "returned" => out = Content(file)

\* No two threads write to the same place of the output.
Disjoint ==
  \A t, v \in Threads :
    t # v /\ pc[t] = "decode" /\ pc[v] = "decode" =>
      \/ block[t].at + Len(block[t].data) <= block[v].at
      \/ block[v].at + Len(block[v].data) <= block[t].at

Ended == phase \in {"returned", "raised"}

\* pxzcat comes to its end: it returns or raises an exception.
Ends == <>[]Ended

\* "Jump backwards through the file identifying each stream.": a file of several streams, with
\* padding after them, is read.
\* The code does not have this property (README.md, "Known divergences").
StreamsRead == phase # "raised"

=============================================================================
