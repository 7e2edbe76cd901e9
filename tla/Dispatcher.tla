----------------------------- MODULE Dispatcher -----------------------------
(***************************************************************************)
(* How a request reaches its handler: ServletDisptacher (servlet.py) looks *)
(* for a servlet under the path of the request and under ever shorter      *)
(* prefixes of it, and the request method of the servlets picks the        *)
(* operation.  A path is the sequence of its segments, path.split('/'), so *)
(* that "" is <<empty>>, "/" is <<empty, empty>>, and path[0:rfind('/')]   *)
(* is Front.                                                               *)
(***************************************************************************)
EXTENDS Naturals, SequencesExt

CONSTANTS
  Words,     \* segments that are not empty
  empty,     \* the empty segment
  Ops,       \* the words that name an operation of the servlets
  Servlets,  \* the servlets
  MaxLen,    \* bound: segments of a path
  MaxRegs,   \* bound: registrations
  None       \* no servlet

DispatcherAssumption ==
  /\ MaxLen \in Nat \ {0} /\ MaxRegs \in Nat
  /\ empty \notin Words /\ Ops \subseteq Words /\ None \notin Servlets

Segments == Words \cup {empty}
Paths == SeqOf(Segments, MaxLen) \ {<<>>}

VARIABLES
  handlers,  \* the dictionary: path -> servlet, None if there is none
  asked,     \* history: the registrations, in order
  req,       \* the path of the request being dispatched, <<>> if there is none
  path,      \* the prefix to be looked up next
  reply      \* the last outcome: a servlet's operation or a status

vars == <<handlers, asked, req, path, reply>>

NoReply == [to |-> None, status |-> 0]

\* Every variable has a value of its kind, and the path looked up is a prefix of the request's.
TypeOK ==
  /\ handlers \in [Paths -> Servlets \cup {None}]
  /\ asked \in Seq([path: Paths, servlet: Servlets])
  /\ req \in Paths \cup {<<>>} /\ path \in Paths \cup {<<>>} /\ IsPrefix(path, req)
  /\ reply \in [to: Servlets \cup {None}, status: {0, 200, 400, 404}]

Init ==
  /\ handlers = [p \in Paths |-> None] /\ asked = <<>>
  /\ req = <<>> /\ path = <<>> /\ reply = NoReply

-----------------------------------------------------------------------------

\* Mutant: the trailing slash stays.
registerServlet_slash(p, s) ==
  /\ req = <<>> /\ Len(asked) < MaxRegs
  /\ handlers' = [handlers EXCEPT ![p] = s]
  /\ asked' = Append(asked, [path |-> p, servlet |-> s])
  /\ UNCHANGED <<req, path, reply>>

\* registerServlet: one trailing slash is taken off.
registerServlet(p, s) ==
  /\ req = <<>> /\ Len(asked) < MaxRegs
  /\ LET key == IF Len(p) > 1 /\ Last(p) = empty THEN Front(p) ELSE p
     IN  handlers' = [handlers EXCEPT ![key] = s]
  /\ asked' = Append(asked, [path |-> p, servlet |-> s])
  /\ UNCHANGED <<req, path, reply>>

\* A request arrives: render, then the first round of the loop.
request(p) ==
  /\ req = <<>> /\ req' = p /\ path' = p /\ reply' = NoReply
  /\ UNCHANGED <<handlers, asked>>

Finish(s, code) == reply' = [to |-> s, status |-> code] /\ req' = <<>> /\ path' = <<>>

\* The request method of DomainServlet and NodeServlet: the path has four segments, and the last
\* one is the operation.
Serve(s) ==
  Finish(s, IF Len(req) # 4 THEN 400 ELSE IF req[4] \in Ops THEN 200 ELSE 404)

\* One round of the loop of ServletDisptacher.request.
Look ==
  /\ req # <<>>
  /\ IF handlers[path] # None THEN Serve(handlers[path])
     ELSE IF Len(path) = 1 THEN Finish(None, 404)
     ELSE path' = Front(path) /\ UNCHANGED <<req, reply>>
  /\ UNCHANGED <<handlers, asked>>

Next ==
  \/ \E p \in Paths, s \in Servlets : registerServlet(p, s)
  \/ \E p \in Paths : request(p)
  \/ Look

Spec == Init /\ [][Next]_vars

-----------------------------------------------------------------------------
(* Properties *)

\* What a registration means: the path without its trailing slash.
Key(p) == IF Len(p) > 1 /\ Last(p) = empty THEN Front(p) ELSE p

\* The registrations that match a request, by the number of segments they share with it.
Matching(p) == {i \in DOMAIN asked : IsPrefix(Key(asked[i].path), p)}

\* ServletDisptacher.request hands a request to the servlet that was registered last under the
\* longest matching path, with or without a trailing slash, and answers 404 only if there is none:
\* shortening the path at its slashes one by one misses no registration, also not those of the root.
Longest ==
  [][req # <<>> /\ req' = <<>> =>
       IF Matching(req) = {} THEN reply' = [to |-> None, status |-> 404]
       ELSE \E i \in Matching(req) :
              /\ reply'.to = asked[i].servlet
              /\ \A j \in Matching(req) :
                   \/ Len(Key(asked[j].path)) < Len(Key(asked[i].path))
                   \/ Key(asked[j].path) = Key(asked[i].path) /\ j <= i]_vars

=============================================================================
