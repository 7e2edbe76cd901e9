----------------------------- MODULE P2VSession ------------------------------
(***************************************************************************)
(* test_connection of virt-p2v (p2v/ssh.c, p2v/miniexpect.c): an ssh       *)
(* session is driven by sending lines and matching what comes back.  The   *)
(* remote shell may eat what is sent before it is ready, answers late, and *)
(* its output arrives in pieces.  start_ssh synchronises with it by        *)
(* setting the prompt to a new magic string until that prompt comes back.  *)
(***************************************************************************)
EXTENDS Integers, Sequences, FiniteSets

CONSTANTS
  MaxRounds,  \* rounds of the synchronisation, 30 in the code
  MaxTries,   \* passwords that ssh accepts before it gives up
  NInputs,    \* input drivers of virt-v2v
  NOutputs,   \* output drivers of virt-v2v
  Earlier,    \* drivers noted by earlier tests
  Splits      \* the name of a driver may be split between two reads

VARIABLES
  remote,  \* [version, given, password]: the major version of virt-v2v, 0 if there is none that tells
           \* it; whether a password was given, and what is sent as the password is right
  pc,      \* the step of start_ssh and test_connection
  round,   \* count: the magic string of a round is its number
  up,      \* lines sent and not read by the remote
  down,    \* what the remote printed and virt-p2v has not consumed
  shell,   \* what reads the lines: "auth", "starting", "shell" or "gone"
  tries,   \* passwords refused
  ps1,     \* the prompt: 0 before the first export
  major,   \* v2v_major
  rewrite, \* feature_libguestfs_rewrite
  drivers  \* input_drivers and output_drivers

local == <<pc, round, major, rewrite, drivers>>
far == <<shell, tries, ps1>>
vars == <<remote, local, up, down, far>>

Text(what) == [what |-> what, of |-> 0, cut |-> FALSE]
Prompt(k) == [Text("prompt") EXCEPT !.of = k]
Release(v) == [Text("version") EXCEPT !.of = v]

\* The lines of virt-v2v --machine-readable; cut: only the first half of the name is in this piece.
Names == [what : {"input"}, of : 1..NInputs] \cup [what : {"output"}, of : 1..NOutputs]
Line(what, d, cut) == [what |-> what, of |-> d, cut |-> cut]
Name(t) == [what |-> t.what, of |-> t.of]

\* ssh asks for a password, or the server wants none.  This is the first test, or v2v_major
\* and the drivers are what earlier tests, the last of which may have failed, have left.
Init ==
  /\ remote \in [version : 0..2, given : BOOLEAN, password : BOOLEAN]
  /\ pc = "password" /\ round = 0 /\ up = <<>> /\ tries = 0 /\ ps1 = 0
  /\ shell \in {"auth", "starting"} /\ down = IF shell = "auth" THEN <<Text("assword")>> ELSE <<>>
  /\ major \in 0..2 /\ rewrite = FALSE
  /\ drivers = IF major = 0 THEN {} ELSE {Line("output", d, FALSE) : d \in Earlier}

-----------------------------------------------------------------------------
(* The remote side *)

\* A line is taken as a password.
Authenticate ==
  /\ shell = "auth" /\ up # <<>> /\ up' = Tail(up)
  /\ \/ Head(up) = Text("password") /\ remote.password /\ shell' = "starting" /\ UNCHANGED <<down, tries>>
     \/ /\ ~(Head(up) = Text("password") /\ remote.password) /\ tries' = tries + 1
        /\ \/ tries' < MaxTries /\ down' = Append(down, Text("assword")) /\ UNCHANGED shell
           \/ tries' = MaxTries /\ shell' = "gone" /\ UNCHANGED down
  /\ UNCHANGED <<remote, local, ps1>>

\* A line is eaten before the shell is ready.
Eat ==
  /\ shell = "starting" /\ up # <<>> /\ up' = Tail(up)
  /\ UNCHANGED <<remote, local, down, far>>

\* The shell is ready; the message of the day may speak of passwords.
Ready ==
  /\ shell = "starting" /\ shell' = "shell"
  /\ down' \in {down, Append(down, Text("assword"))}
  /\ UNCHANGED <<remote, local, up, tries, ps1>>

\* The features, in the order virt-v2v prints them; cut says which names arrive in two pieces.
Listing(cut) ==
  <<Text("rewrite")>> \o
  [j \in 1..NInputs |-> Line("input", j, [what |-> "input", of |-> j] \in cut)] \o
  [j \in 1..NOutputs |-> Line("output", j, [what |-> "output", of |-> j] \in cut)]

\* The shell runs a line and prompts.
Execute ==
  /\ shell = "shell" /\ up # <<>> /\ up' = Tail(up)
  /\ LET prompt == IF ps1' = 0 THEN <<>> ELSE <<Prompt(ps1')>> IN
     \/ /\ Head(up).what = "export" /\ ps1' = Head(up).of /\ down' = down \o prompt /\ UNCHANGED shell
     \/ Head(up) = Text("password") /\ UNCHANGED <<ps1, shell>> /\ down' = down \o prompt
     \/ /\ Head(up) = Text("virt-v2v -V") /\ UNCHANGED <<ps1, shell>>
        /\ down' = down \o (IF remote.version = 0 THEN <<>> ELSE <<Release(remote.version)>>) \o prompt
     \/ /\ Head(up) = Text("virt-v2v --machine-readable") /\ UNCHANGED <<ps1, shell>>
        /\ \E cut \in IF Splits THEN SUBSET Names ELSE {{}} :
             down' = down \o (IF remote.version = 0 THEN <<>> ELSE Listing(cut)) \o prompt
     \/ Head(up) = Text("exit") /\ shell' = "gone" /\ UNCHANGED <<ps1, down>>
  /\ UNCHANGED <<remote, local, tries>>

\* The connection is lost.
Lost == shell # "gone" /\ shell' = "gone" /\ UNCHANGED <<remote, local, up, down, tries, ps1>>

-----------------------------------------------------------------------------
(* mexp_expect *)

\* The text read so far is the first n pieces of down; the first regular expression of res that
\* matches anywhere in it is taken, at its first place, and the text before it is dropped.
Places(n, re) == {j \in 1..n : down[j].what \in re}
Least(S) == CHOOSE j \in S : \A k \in S : j <= k
Matches(res, n, a) ==
  /\ a \in 1..Len(res) /\ Places(n, res[a]) # {} /\ \A b \in 1..(a - 1) : Places(n, res[b]) = {}

Expect(res, a, piece) ==
  \E n \in 1..Len(down) :
    /\ Matches(res, n, a)
    /\ LET j == Least(Places(n, res[a])) IN
       piece = down[j] /\ down' = SubSeq(down, j + 1, Len(down))

\* End of file, a timeout or an error: mexp_close hangs up and waits for ssh.
Unexpected == shell' = "gone" /\ pc' = "failed" /\ UNCHANGED <<round, up, down, major, rewrite, drivers>>

PasswordRe == {"assword"}
PromptRe == {"prompt"}
Pieces ==
  {Text(w) : w \in {"assword", "rewrite"}} \cup {Prompt(k) : k \in 1..MaxRounds} \cup {Release(v) : v \in 1..2} \cup
  {Line(n.what, n.of, cut) : n \in Names, cut \in BOOLEAN}

-----------------------------------------------------------------------------
(* start_ssh *)

\* A password that was given is sent when ssh asks for it.
WaitPassword ==
  /\ pc = "password"
  /\ \/ ~remote.given /\ pc' = "send" /\ UNCHANGED <<round, up, down, shell, major, rewrite, drivers>>
     \/ /\ remote.given /\ \E t \in Pieces : Expect(<<PasswordRe>>, 1, t)
        /\ up' = Append(up, Text("password")) /\ pc' = "send"
        /\ UNCHANGED <<round, shell, major, rewrite, drivers>>
     \/ remote.given /\ Unexpected
  /\ UNCHANGED <<remote, tries, ps1>>

SendPS1 ==
  /\ pc = "send"
  /\ \/ /\ round < MaxRounds /\ round' = round + 1 /\ pc' = "sync"
        /\ up' = Append(up, [Text("export") EXCEPT !.of = round + 1])
        /\ UNCHANGED <<shell, down, major, rewrite, drivers>>
     \/ round = MaxRounds /\ Unexpected
  /\ UNCHANGED <<remote, tries, ps1>>

\* Mutant: any of the magic prompts will do.
Sync_any ==
  /\ pc = "sync"
  /\ \/ /\ \E t \in Pieces : Expect(<<PasswordRe, PromptRe>>, 1, t)
        /\ up' = Append(up, Text("password")) /\ pc' = "send" /\ UNCHANGED shell
     \/ /\ \E t \in Pieces : Expect(<<PasswordRe, PromptRe>>, 2, t) /\ pc' = "version?"
        /\ UNCHANGED <<up, shell>>
     \/ pc' = "send" /\ down' \in {down, SubSeq(down, 2, Len(down))} /\ UNCHANGED <<up, shell>>
     \/ shell = "gone" /\ pc' = "failed" /\ UNCHANGED <<up, down, shell>>
  /\ UNCHANGED <<remote, round, tries, ps1, major, rewrite, drivers>>

\* Mutant: after a timeout the same prompt is waited for again.
Sync_again ==
  /\ pc = "sync"
  /\ \/ /\ \E t \in Pieces : Expect(<<PasswordRe, PromptRe>>, 1, t)
        /\ up' = Append(up, Text("password")) /\ pc' = "send" /\ UNCHANGED shell
     \/ /\ \E t \in Pieces :
             /\ Expect(<<PasswordRe, PromptRe>>, 2, t)
             /\ pc' = IF t.of = round THEN "version?" ELSE "sync"
        /\ UNCHANGED <<up, shell>>
     \/ shell = "gone" /\ pc' = "failed" /\ UNCHANGED <<up, down, shell>>
  /\ UNCHANGED <<remote, round, tries, ps1, major, rewrite, drivers>>

\* Waiting for the prompt: an unexpected password prompt, the prompt of this round or of an earlier
\* one, a timeout (which may cut a prompt in two, so that it is not matched any more), the end.
Sync ==
  /\ pc = "sync"
  /\ \/ /\ \E t \in Pieces : Expect(<<PasswordRe, PromptRe>>, 1, t)
        /\ up' = Append(up, Text("password")) /\ pc' = "send" /\ UNCHANGED shell
     \/ /\ \E t \in Pieces :
             /\ Expect(<<PasswordRe, PromptRe>>, 2, t)
             /\ pc' = IF t.of = round THEN "version?" ELSE "sync"
        /\ UNCHANGED <<up, shell>>
     \/ pc' = "send" /\ down' \in {down, SubSeq(down, 2, Len(down))} /\ UNCHANGED <<up, shell>>
     \/ shell = "gone" /\ pc' = "failed" /\ UNCHANGED <<up, down, shell>>
  /\ UNCHANGED <<remote, round, tries, ps1, major, rewrite, drivers>>

-----------------------------------------------------------------------------
(* test_connection *)

Ask(at, line, next) ==
  /\ pc = at
  /\ \/ /\ up' = Append(up, Text(line)) /\ pc' = next
        /\ UNCHANGED <<shell, round, down, major, rewrite, drivers>>
     \/ Unexpected
  /\ UNCHANGED <<remote, tries, ps1>>

AskVersion == Ask("version?", "virt-v2v -V", "version")

\* The version is noted, and refused if it is not 1; the prompt must not come without one.
Version ==
  /\ pc = "version"
  /\ \/ /\ \E t \in Pieces : Expect(<<{"version"}, PromptRe>>, 1, t) /\ major' = t.of
        /\ IF major' = 1 THEN UNCHANGED <<pc, shell>> ELSE pc' = "failed" /\ shell' = "gone"
        /\ UNCHANGED up
     \/ /\ \E t \in Pieces : Expect(<<{"version"}, PromptRe>>, 2, t)
        /\ \/ major = 0 /\ pc' = "failed" /\ shell' = "gone" /\ UNCHANGED <<up, major>>
           \/ major # 0 /\ pc' = "features?" /\ UNCHANGED <<up, shell, major>>
     \/ Unexpected
  /\ UNCHANGED <<remote, round, tries, ps1, rewrite, drivers>>

AskFeatures == Ask("features?", "virt-v2v --machine-readable", "features")

FeatureRes == <<{"rewrite"}, {"input"}, {"output"}, PromptRe>>

\* Mutant: the prompt is looked for first.
FeatureAt_prompt(a, t) == IF a = 4 THEN Expect(<<PromptRe>>, 1, t) ELSE Expect(FeatureRes, a, t)
FeatureAt(a, t) == Expect(FeatureRes, a, t)

Features ==
  /\ pc = "features"
  /\ \/ /\ \E t \in Pieces : FeatureAt(1, t)
        /\ rewrite' = TRUE /\ UNCHANGED <<pc, up, shell, drivers>>
     \/ /\ \E t \in Pieces, a \in {2, 3} : FeatureAt(a, t) /\ drivers' = drivers \cup {t}
        /\ UNCHANGED <<pc, up, shell, rewrite>>
     \/ /\ \E t \in Pieces : FeatureAt(4, t)
        /\ \/ ~rewrite /\ pc' = "failed" /\ shell' = "gone" /\ UNCHANGED <<up, rewrite, drivers>>
           \/ rewrite /\ pc' = "exit?" /\ UNCHANGED <<up, shell, rewrite, drivers>>
     \/ Unexpected
  /\ UNCHANGED <<remote, round, tries, ps1, major>>

AskExit == Ask("exit?", "exit", "bye")

\* The end of the session.
Bye ==
  /\ pc = "bye"
  /\ \/ shell = "gone" /\ pc' = "ok" /\ UNCHANGED <<round, up, down, shell, major, rewrite, drivers>>
     \/ Unexpected
  /\ UNCHANGED <<remote, tries, ps1>>

Step ==
  WaitPassword \/ SendPS1 \/ Sync \/ AskVersion \/ Version \/ AskFeatures \/ Features \/ AskExit \/ Bye
Next == Authenticate \/ Eat \/ Ready \/ Execute \/ Lost \/ Step

Spec == Init /\ [][Next]_vars

\* virt-p2v goes on: each of its waits ends at the latest with its timeout.
FairSpec == Spec /\ WF_vars(Step)

-----------------------------------------------------------------------------
(* Properties *)

\* When a command is sent after the synchronisation the session is in step: no earlier line is still
\* to be run and no earlier prompt is still to be read, however late or eaten the earlier ones were.
InStep ==
  pc \in {"version?", "features?", "exit?"} =>
    up = <<>> /\ \A j \in 1..Len(down) : down[j].what # "prompt"

\* A test that succeeds is true: virt-v2v 1 is there and every driver it printed was noted, although
\* the expressions are tried in a fixed order on whatever pieces arrive, and v2v_major keeps the
\* version that an earlier test, of another server, has found.
TestIsTrue ==
  pc = "ok" => remote.version = 1 /\ Names \subseteq {Name(t) : t \in drivers}

Tested == pc \in {"ok", "failed"}

\* The test comes to its end: the synchronisation gives up after its rounds.
TestEnds == <>[]Tested

\* The drivers noted are drivers of the virt-v2v that was asked, by their names.
\* The code does not have this property (README.md, "Known divergences").
DriversNamed ==
  pc = "ok" => \A t \in drivers : ~t.cut /\ Name(t) \in Names

=============================================================================
