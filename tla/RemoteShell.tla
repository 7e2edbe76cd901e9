----------------------------- MODULE RemoteShell -----------------------------
(***************************************************************************)
(* Remote control of guestfish (fish/rc.c, issue_command of fish/fish.c):  *)
(* the server of "guestfish --listen" accepts one connection at a time on  *)
(* a Unix socket, takes over the client's standard output, checks its      *)
(* version, runs its command and replies.  Each client of                  *)
(* "guestfish --remote" sends one command.  Clients may be killed at any   *)
(* moment and the reader of their output may go away.                      *)
(***************************************************************************)
EXTENDS Integers, Sequences, FiniteSets

CONSTANTS
  Clients,  \* runs of guestfish --remote
  Cmds,     \* commands they send: "ok", "fail" and "quit"
  Flags,    \* values of exit_on_error
  Versions, \* whether the client's version is the server's
  Faults,   \* "kill": clients are killed; "pipe": the reader of a client's output goes away
  Nobody    \* no client; also /dev/null as the server's standard output

VARIABLES
  plan,     \* client -> [cmd, exit_on_error, same]: what it sends
  server,   \* the step of rc_listen
  bound,    \* the socket exists in the file system
  backlog,  \* clients connected and not yet accepted
  conn,     \* the client whose connection is s
  stdout,   \* the client whose standard output the server has, or Nobody
  buffer,   \* clients whose output is in the buffer of stdout
  quit,     \* the variable quit
  r,        \* reply.r
  err,      \* the error flag of stdout (ferror)
  client,   \* client -> the step of rc_remote
  sent,     \* client -> messages on its connection that the server has not read
  shut,     \* clients whose connection the server has closed
  replied,  \* client -> replies on its connection
  broken,   \* clients whose standard output cannot be written any more
  result,   \* client -> what rc_remote returned, or 1
  shown,    \* pairs <<c, d>>: output of c's command was written to d's standard output
  ran       \* the clients whose commands were run, in order

serverVars == <<server, bound, conn, stdout, buffer, quit, r, err, shut, shown, ran>>
clientVars == <<client, result>>
vars == <<plan, serverVars, backlog, clientVars, sent, replied, broken>>

Init ==
  /\ plan \in [Clients -> [cmd : Cmds, exit_on_error : Flags, same : Versions]]
  /\ server = "start" /\ bound = FALSE /\ backlog = <<>> /\ conn = Nobody
  /\ stdout = Nobody /\ buffer = {} /\ quit = FALSE /\ r = 0 /\ err = FALSE
  /\ client = [c \in Clients |-> "start"] /\ sent = [c \in Clients |-> <<>>]
  /\ shut = {} /\ replied = [c \in Clients |-> <<>>] /\ broken = {}
  /\ result = [c \in Clients |-> 1] /\ shown = {} /\ ran = <<>>

-----------------------------------------------------------------------------
(* rc_remote *)

\* rc_remote returns, or the client exits: its end of the connection is closed.
Return(c, v) == client' = [client EXCEPT ![c] = "done"] /\ result' = [result EXCEPT ![c] = v]

\* kill(pid, 0) and connect: they fail if the server is gone or its socket is not there yet.
Connect(c) ==
  /\ client[c] = "start"
  /\ \/ /\ bound /\ backlog' = Append(backlog, c)
        /\ client' = [client EXCEPT ![c] = "stdout"] /\ UNCHANGED result
     \/ ~bound /\ Return(c, -1) /\ UNCHANGED backlog
  /\ UNCHANGED <<plan, serverVars, sent, replied, broken>>

Lost(c) == c \in shut \/ server = "gone"

\* send_stdout, which exits if the server has closed the connection.
SendStdout(c) ==
  /\ client[c] = "stdout"
  /\ \/ Lost(c) /\ Return(c, -1) /\ UNCHANGED sent
     \/ /\ ~Lost(c) /\ sent' = [sent EXCEPT ![c] = Append(@, "fd")]
        /\ client' = [client EXCEPT ![c] = "call"] /\ UNCHANGED result
  /\ UNCHANGED <<plan, serverVars, backlog, replied, broken>>

\* The greeting and the call, which leave the buffer of fp together.
SendCall(c) ==
  /\ client[c] = "call"
  /\ \/ Lost(c) /\ UNCHANGED sent
     \/ ~Lost(c) /\ sent' = [sent EXCEPT ![c] = @ \o <<"hello", "call">>]
  /\ client' = [client EXCEPT ![c] = "wait"]
  /\ UNCHANGED <<plan, serverVars, backlog, result, replied, broken>>

\* The reply is read, or the end of the connection.
ReadReply(c) ==
  /\ client[c] = "wait"
  /\ \/ replied[c] # <<>> /\ Return(c, Head(replied[c]))
     \/ replied[c] = <<>> /\ Lost(c) /\ Return(c, -1)
  /\ UNCHANGED <<plan, serverVars, backlog, sent, replied, broken>>

Kill(c) ==
  /\ "kill" \in Faults /\ client[c] \in {"stdout", "call", "wait"}
  /\ client' = [client EXCEPT ![c] = "killed"]
  /\ UNCHANGED <<plan, serverVars, backlog, result, sent, replied, broken>>

PipeBreaks(c) ==
  /\ "pipe" \in Faults /\ c \notin broken
  /\ broken' = broken \cup {c}
  /\ UNCHANGED <<plan, serverVars, backlog, clientVars, sent, replied>>

Closed(c) == client[c] \in {"done", "killed"}

-----------------------------------------------------------------------------
(* rc_listen *)

\* The child creates the socket.
Bind ==
  /\ server = "start" /\ bound' = TRUE /\ server' = "close_stdout"
  /\ UNCHANGED <<plan, backlog, conn, stdout, buffer, quit, r, err, shut, shown, ran, clientVars, sent,
                 replied, broken>>

\* Mutant: the last client's standard output is kept.
CloseStdout_keep ==
  /\ server = "close_stdout" /\ server' = "accept"
  /\ UNCHANGED <<plan, bound, backlog, conn, stdout, buffer, quit, r, err, shut, shown, ran, clientVars,
                 sent, replied, broken>>

CloseStdout ==
  /\ server = "close_stdout" /\ stdout' = Nobody /\ server' = "accept"
  /\ UNCHANGED <<plan, bound, backlog, conn, buffer, quit, r, err, shut, shown, ran, clientVars, sent,
                 replied, broken>>

Accept ==
  /\ server = "accept" /\ backlog # <<>>
  /\ conn' = Head(backlog) /\ backlog' = Tail(backlog) /\ server' = "receive"
  /\ UNCHANGED <<plan, bound, stdout, buffer, quit, r, err, shut, shown, ran, clientVars, sent, replied,
                 broken>>

\* Mutant: the descriptor is received and not installed.
ReceiveStdout_drop ==
  /\ server = "receive"
  /\ \/ sent[conn] # <<>> /\ sent' = [sent EXCEPT ![conn] = Tail(@)]
     \/ sent[conn] = <<>> /\ Closed(conn) /\ UNCHANGED sent
  /\ server' = "hello"
  /\ UNCHANGED <<plan, bound, backlog, conn, stdout, buffer, quit, r, err, shut, shown, ran, clientVars,
                 replied, broken>>

\* receive_stdout: a descriptor, or nothing if the client closed the connection.
ReceiveStdout ==
  /\ server = "receive"
  /\ \/ /\ sent[conn] # <<>> /\ sent' = [sent EXCEPT ![conn] = Tail(@)]
        /\ stdout' = conn
     \/ sent[conn] = <<>> /\ Closed(conn) /\ UNCHANGED <<sent, stdout>>
  /\ server' = "hello"
  /\ UNCHANGED <<plan, bound, backlog, conn, buffer, quit, r, err, shut, shown, ran, clientVars, replied,
                 broken>>

\* Mutant: after a wrong version the next message is waited for.
Hello_wait ==
  /\ server = "hello"
  /\ \/ /\ sent[conn] # <<>> /\ sent' = [sent EXCEPT ![conn] = Tail(@)]
        /\ server' = IF plan[conn].same THEN "call" ELSE "hello"
     \/ sent[conn] = <<>> /\ Closed(conn) /\ server' = "close" /\ UNCHANGED sent
  /\ UNCHANGED <<plan, bound, backlog, conn, stdout, buffer, quit, r, err, shut, shown, ran, clientVars,
                 replied, broken>>

\* The greeting is read and its version compared.
Hello ==
  /\ server = "hello"
  /\ \/ /\ sent[conn] # <<>> /\ sent' = [sent EXCEPT ![conn] = Tail(@)]
        /\ server' = IF plan[conn].same THEN "call" ELSE "close"
     \/ sent[conn] = <<>> /\ Closed(conn) /\ server' = "close" /\ UNCHANGED sent
  /\ UNCHANGED <<plan, bound, backlog, conn, stdout, buffer, quit, r, err, shut, shown, ran, clientVars,
                 replied, broken>>

\* A call is read and run (only "ok" prints anything), or the client has closed the connection.
Call ==
  /\ server = "call"
  /\ \/ /\ sent[conn] # <<>> /\ sent' = [sent EXCEPT ![conn] = Tail(@)] /\ server' = "flush"
        /\ ran' = Append(ran, conn)
        /\ buffer' = IF plan[conn].cmd = "ok" THEN buffer \cup {conn} ELSE buffer
        /\ quit' = (quit \/ plan[conn].cmd = "quit")
        /\ r' = IF plan[conn].cmd = "fail" THEN -1 ELSE 0
     \/ /\ sent[conn] = <<>> /\ Closed(conn) /\ server' = "close"
        /\ UNCHANGED <<sent, quit, r, ran, buffer>>
  /\ UNCHANGED <<plan, bound, backlog, conn, stdout, err, shut, shown, clientVars, replied, broken>>

\* issue_command flushes the standard output, and looks at its error flag if that succeeds.  An error
\* makes the result -1.  One met by fflush leaves the flag set; one met while the command printed, with
\* nothing left to flush, is found by ferror, as is the flag of an earlier command, and cleared.
Flush ==
  /\ server = "flush" /\ server' = "reply" /\ buffer' = {}
  /\ \/ stdout \in broken /\ buffer # {} /\ r' = -1 /\ err' \in BOOLEAN /\ UNCHANGED shown
     \/ /\ stdout \notin broken \/ buffer = {}
        /\ shown' = shown \cup (buffer \X {stdout})
        /\ r' = (IF err THEN -1 ELSE r) /\ err' = FALSE
  /\ UNCHANGED <<plan, bound, backlog, conn, stdout, quit, shut, ran, clientVars, sent, replied,
                 broken>>

\* Mutant: the reply is always 0.
Reply_zero ==
  /\ server = "reply"
  /\ replied' = [replied EXCEPT ![conn] = Append(@, 0)]
  /\ \/ /\ plan[conn].exit_on_error /\ r = -1
        /\ bound' = FALSE /\ server' = "gone" /\ backlog' = <<>>
     \/ ~(plan[conn].exit_on_error /\ r = -1) /\ server' = "call" /\ UNCHANGED <<bound, backlog>>
  /\ UNCHANGED <<plan, conn, stdout, buffer, quit, r, err, shut, shown, ran, clientVars, sent, broken>>

\* The reply, lost if the client is gone; and the exit after an error, which removes the socket.
Reply ==
  /\ server = "reply"
  /\ replied' = [replied EXCEPT ![conn] = Append(@, r)]
  /\ \/ /\ plan[conn].exit_on_error /\ r = -1
        /\ bound' = FALSE /\ server' = "gone" /\ backlog' = <<>>
     \/ ~(plan[conn].exit_on_error /\ r = -1) /\ server' = "call" /\ UNCHANGED <<bound, backlog>>
  /\ UNCHANGED <<plan, conn, stdout, buffer, quit, r, err, shut, shown, ran, clientVars, sent, broken>>

\* Mutant: clients that are connected are served before the main loop ends.
Close_drains ==
  /\ server = "close" /\ shut' = shut \cup {conn} /\ conn' = Nobody
  /\ \/ quit /\ backlog = <<>> /\ bound' = FALSE /\ server' = "gone" /\ UNCHANGED backlog
     \/ (~quit \/ backlog # <<>>) /\ server' = "close_stdout" /\ UNCHANGED <<bound, backlog>>
  /\ UNCHANGED <<plan, stdout, buffer, quit, r, err, shown, ran, clientVars, sent, replied, broken>>

\* Mutant: the socket is not removed.
Close_linked ==
  /\ server = "close" /\ shut' = shut \cup {conn} /\ conn' = Nobody
  /\ \/ quit /\ server' = "gone" /\ backlog' = <<>>
     \/ ~quit /\ server' = "close_stdout" /\ UNCHANGED backlog
  /\ UNCHANGED <<plan, bound, stdout, buffer, quit, r, err, shown, ran, clientVars, sent, replied, broken>>

\* fclose, and the test of the main loop; the end removes the socket.
Close ==
  /\ server = "close" /\ shut' = shut \cup {conn} /\ conn' = Nobody
  /\ \/ quit /\ bound' = FALSE /\ server' = "gone" /\ backlog' = <<>>
     \/ ~quit /\ server' = "close_stdout" /\ UNCHANGED <<bound, backlog>>
  /\ UNCHANGED <<plan, stdout, buffer, quit, r, err, shown, ran, clientVars, sent, replied, broken>>

Server ==
  Bind \/ CloseStdout \/ Accept \/ ReceiveStdout \/ Hello \/ Call \/ Flush \/ Reply \/ Close
Client(c) == Connect(c) \/ SendStdout(c) \/ SendCall(c) \/ ReadReply(c)

Next == Server \/ \E c \in Clients : Client(c) \/ Kill(c) \/ PipeBreaks(c)

Spec == Init /\ [][Next]_vars

\* Server and clients run unless they wait for each other.
FairSpec == Spec /\ WF_vars(Server) /\ \A c \in Clients : WF_vars(Client(c))

-----------------------------------------------------------------------------
(* Properties *)

\* The output of a command is written to the standard output of the client that sent it and to no
\* other, although all commands share the server's standard output and its buffer.
OwnOutput == \A p \in shown : p[1] = p[2]

\* While the server waits for a client it holds nobody's standard output, so that a shell that
\* waits for the end of a client's output does not wait for the server.
IdleHoldsNothing == server = "accept" => stdout = Nobody

\* A client that is told 0 had its command run, once, with success, and its
\* output shown; a command that failed, or whose output was lost, is never reported as done.
ToldIsTrue ==
  \A c \in Clients : result[c] = 0 =>
    /\ Cardinality({i \in 1..Len(ran) : ran[i] = c}) = 1
    /\ plan[c].cmd # "fail" /\ plan[c].same
    /\ plan[c].cmd = "ok" => <<c, c>> \in shown

\* After quit no command is run any more: the handle is closed.
NoneAfterQuit == [][quit => ran' = ran]_vars

AllClosed == \A c \in Clients : Closed(c)
QuitDone == quit => server = "gone" /\ ~bound

\* Every client comes to its end, whoever else is killed, has another version, or makes the server
\* exit.
Answered == <>[]AllClosed

\* A client is told -1 only for its own command: "We've dealt with this error, so clear the flag"
\* (fish.c:1196).
\* The code does not have this property (README.md, "Known divergences").
FailureIsOwn ==
  \A c \in Clients : replied[c] = <<-1>> =>
    plan[c].cmd = "fail" \/ (plan[c].cmd = "ok" /\ <<c, c>> \notin shown)

\* A quit command that is run ends the server, and its socket is removed.
QuitEnds == <>[]QuitDone

=============================================================================
