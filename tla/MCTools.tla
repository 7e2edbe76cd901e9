------------------------------ MODULE MCTools ------------------------------
(***************************************************************************)
(* The tools of libguestfs that run threads and processes: the workers of  *)
(* virt-df, which the module extends, the parallel xzcat of virt-builder,  *)
(* virt-alignment-scan, the remote shell of guestfish, and virt-p2v.  They *)
(* share no state.  In a behaviour one of them runs, as part says, and the *)
(* others rest in their initial state.                                     *)
(***************************************************************************)
EXTENDS ParallelWork, Integers

VARIABLES
  part,
  file, phase, pos, offset, padding, combined, out, iter, xpc, block, chunk, xstatus, xu,
  nr_errors,                                                                           \* ParallelXzcat
  left, worst_alignment, mutex, alignment, apc, exit_code, parts,                      \* AlignmentScan
  plan, server, bound, backlog, conn, stdout, buffer, quit, reply, err, client, sent, shut, replied,
  broken, result, shown, ran,                                                          \* RemoteShell
  cpc, ci, ret, opened, serving, live, zombie, masters, v2v,                           \* P2VConversion
  remote, spc, round, up, down, shell, tries, ps1, major, rewrite, drivers,            \* P2VSession
  entry, config, thread, copy, asked, tested, passed, next, last, dialog, converts     \* P2VDialog

-----------------------------------------------------------------------------
(* Instances *)

\* The workers of virt-df when nothing fails but the work function.
P == INSTANCE ParallelWork WITH ThreadFaults <- {"work"}

Stream(blocks) == <<[blocks |-> blocks, pad |-> 0]>>

\* Files of one stream: buffers of data and of zeros in any order, an empty block, no block.
OneStream == {
  Stream(<<<<"a", "zero", "b">>, <<"zero", "c">>, <<"d">>>>),
  Stream(<<<<"a">>, <<>>, <<"zero">>, <<"zero", "b">>>>),
  Stream(<<>>)}

\* The output file did not exist, or held something longer or shorter.
SomeOlds == {<<>>, <<"old">>, <<"old", "old", "old", "old", "old", "old", "old", "old">>}

X == INSTANCE ParallelXzcat WITH
  Files <- OneStream, Olds <- SomeOlds, nr_threads <- 3, Faults <- {"read", "write", "create"},
  pc <- xpc, status <- xstatus, u <- xu

\* Partitions aligned as badly as those of old Windows, to 4K, to 64K, and at the start of the disk.
A == INSTANCE AlignmentScan WITH
  Guests <- {"g1", "g2"}, Starts <- {0, 32256, 36864, 65536}, MaxParts <- 2, Fails <- TRUE, pc <- apc

Clients == {"c1", "c2"}

\* Clients that are killed, and clients whose output breaks as well.
K == INSTANCE RemoteShell WITH
  Cmds <- {"ok", "fail", "quit"}, Flags <- BOOLEAN, Versions <- BOOLEAN, Faults <- {"kill"}, r <- reply
B == INSTANCE RemoteShell WITH
  Cmds <- {"ok", "fail", "quit"}, Flags <- BOOLEAN, Versions <- {TRUE}, Faults <- {"kill", "pipe"}, r <- reply

C == INSTANCE P2VConversion WITH N <- 3, pc <- cpc, i <- ci, status <- v2v

S == INSTANCE P2VSession WITH
  MaxRounds <- 4, MaxTries <- 2, NInputs <- 2, NOutputs <- 2, Earlier <- {3}, Splits <- FALSE, pc <- spc

\* A user who clicks at any time, and one who waits for the test and makes no mistake.
Clicks == {"t1", "t2", "t3"}
D == INSTANCE P2VDialog WITH
  Servers <- {"s1", "s2"}, Bad <- {"bad"}, Threads <- Clicks, Patient <- FALSE, None <- Nobody
U == INSTANCE P2VDialog WITH
  Servers <- {"s1", "s2"}, Bad <- {}, Threads <- Clicks, Patient <- TRUE, None <- Nobody

-----------------------------------------------------------------------------
(* Behaviours *)

xzVars == <<file, phase, pos, offset, padding, combined, out, iter, xpc, block, chunk, xstatus, xu, nr_errors>>
alignVars == <<left, worst_alignment, mutex, alignment, apc, exit_code, parts>>
remoteVars ==
  <<plan, server, bound, backlog, conn, stdout, buffer, quit, reply, err, client, sent, shut, replied, broken,
    result, shown, ran>>
conversionVars == <<cpc, ci, ret, opened, serving, live, zombie, masters, v2v>>
sessionVars == <<remote, spc, round, up, down, shell, tries, ps1, major, rewrite, drivers>>
dialogVars == <<entry, config, thread, copy, asked, tested, passed, next, last, dialog, converts>>
toolsVars == <<part, workVars, xzVars, alignVars, remoteVars, conversionVars, sessionVars, dialogVars>>

Parts ==
  {"df", "df, work fails", "xzcat", "align", "remote", "remote, pipes", "conversion", "session", "dialog",
   "dialog, patient"}

ToolsInit ==
  /\ part \in Parts
  /\ WorkInit
  /\ X!Init /\ (part = "xzcat" \/ (file = Stream(<<>>) /\ out = <<>>))
  /\ A!Init /\ (part = "align" \/ \A g \in DOMAIN parts : parts[g] = {})
  /\ IF part = "remote, pipes" THEN B!Init ELSE K!Init
  /\ \/ part \in {"remote", "remote, pipes"}
     \/ plan = [c \in Clients |-> [cmd |-> "ok", exit_on_error |-> FALSE, same |-> TRUE]]
  /\ C!Init
  /\ S!Init
  /\ \/ part = "session"
     \/ remote = [version |-> 1, given |-> TRUE, password |-> TRUE] /\ shell = "auth" /\ major = 0
  /\ D!Init /\ (part \in {"dialog", "dialog, patient"} \/ entry = "s1")

OfDf(any, work) ==
  /\ (part = "df" /\ any) \/ (part = "df, work fails" /\ work)
  /\ UNCHANGED <<part, xzVars, alignVars, remoteVars, conversionVars, sessionVars, dialogVars>>
OfXzcat ==
  /\ part = "xzcat" /\ X!Next
  /\ UNCHANGED <<part, workVars, alignVars, remoteVars, conversionVars, sessionVars, dialogVars>>
OfAlign ==
  /\ part = "align" /\ A!Next
  /\ UNCHANGED <<part, workVars, xzVars, remoteVars, conversionVars, sessionVars, dialogVars>>
OfRemote(kills, pipes) ==
  /\ (part = "remote" /\ kills) \/ (part = "remote, pipes" /\ pipes)
  /\ UNCHANGED <<part, workVars, xzVars, alignVars, conversionVars, sessionVars, dialogVars>>
OfConversion(step) ==
  /\ part = "conversion" /\ step
  /\ UNCHANGED <<part, workVars, xzVars, alignVars, remoteVars, sessionVars, dialogVars>>
OfSession(step) ==
  /\ part = "session" /\ step
  /\ UNCHANGED <<part, workVars, xzVars, alignVars, remoteVars, conversionVars, dialogVars>>
OfDialog ==
  /\ (part = "dialog" /\ D!Next) \/ (part = "dialog, patient" /\ U!Next)
  /\ UNCHANGED <<part, workVars, xzVars, alignVars, remoteVars, conversionVars, sessionVars>>

ToolsNext ==
  \/ OfDf(WorkNext, P!WorkNext) \/ OfXzcat \/ OfAlign \/ OfRemote(K!Next, B!Next) \/ OfConversion(C!Next)
  \/ OfSession(S!Next) \/ OfDialog

\* The fairness of the modules, of which one runs: threads and clients that can run do, the server,
\* virt-p2v and the kernel go on, virt-v2v ends and the remote shell with it.
Fairness ==
  /\ WF_toolsVars(\/ OfDf(FALSE, P!Create \/ P!Join) \/ OfXzcat \/ OfRemote(K!Server, FALSE)
                  \/ OfConversion(C!Step) \/ OfSession(S!Step))
  /\ WF_toolsVars(OfDf(FALSE, P!worker_thread(1)) \/ OfRemote(K!Client("c1"), FALSE) \/ OfConversion(C!Hangup))
  /\ WF_toolsVars(OfDf(FALSE, P!worker_thread(2)) \/ OfRemote(K!Client("c2"), FALSE) \/ OfConversion(C!RemoteEnds))
  /\ WF_toolsVars(OfDf(FALSE, P!worker_thread(3)) \/ OfConversion(C!RemoteExits))

ToolsSpec == ToolsInit /\ [][ToolsNext]_toolsVars /\ Fairness

-----------------------------------------------------------------------------
(* Properties; those of ParallelWork are checked as they are *)

\* When pxzcat returns the output file is the uncompressed input, and no two threads write to the same
\* place.
OutputRight == X!TypeOK /\ X!OutputRight /\ X!Disjoint

\* worst_alignment is the least alignment of all partitions, and the exit code 0 tells that all
\* partitions are aligned.
AlignmentIsTrue == A!WorstIsLeast /\ A!ZeroIsAligned

\* A client of the remote shell that is told 0 had its command run once, with success; the output went
\* to it and to no other; while the server waits it holds nobody's standard output; after quit no
\* command is run.
RemoteIsTrue == []K!ToldIsTrue /\ []K!OwnOutput /\ []K!IdleHoldsNothing /\ K!NoneAfterQuit

\* When start_conversion returns no process and no pty is left, and the data connections were taken
\* down after the control connection.
ConversionLeavesNothing == C!NoneLeft /\ C!ControlFirst

\* A connection test of virt-p2v that succeeds is true: a command is sent only when nothing of the
\* synchronisation is still to come, the settings are those that were shown, the Next button is
\* sensitive only if the last test to end succeeded, and a user who waits for each test converts
\* only with settings that were tested.
TestsAreTrue ==
  /\ S!InStep /\ S!TestIsTrue
  /\ D!OwnSettings /\ D!NextIsLast
  /\ part = "dialog, patient" => U!OnlyTested

\* Every tool comes to its end: start_threads prints all domains and returns, whatever the work
\* function returns; pxzcat returns or raises an exception; every client of the remote shell is
\* answered or let go, and a quit command ends the server; start_conversion and the connection
\* test return.
EveryToolEnds ==
  <>[](CASE part = "df, work fails" -> Finished
         [] part = "xzcat" -> X!Ended
         [] part = "remote" -> K!AllClosed /\ K!QuitDone
         [] part = "conversion" -> C!Returned
         [] part = "session" -> S!Tested
         [] OTHER -> TRUE)

=============================================================================
