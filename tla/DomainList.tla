----------------------------- MODULE DomainList -----------------------------
(***************************************************************************)
(* /rest/domain/list (listDomains of domain_servlet.py) over a libvirt     *)
(* host: the inactive domains are listed by name and looked up one by one, *)
(* then the active ones by id, then the state of each is read.  Every call *)
(* is a step, and the host changes between two of them.                    *)
(***************************************************************************)
EXTENDS Libvirt

CONSTANT Faults  \* "libvirtd": the connection may break

VARIABLES
  pc,       \* the next call of the handler
  names,    \* domainNames not yet looked up
  ids,      \* domainIDs not yet looked up, each id named by the domain it was given to
  current,  \* the ids among them that still name a domain
  domains,  \* the domain objects looked up, each with the id it was looked up with
  rows,     \* domainList
  reply,    \* the last answer: none yet, the list, or an internal error
  steady    \* domains that have not come, gone, started or stopped since the request began

handlerVars == <<pc, names, ids, domains, rows, reply>>
vars == <<hostVars, handlerVars, current, steady>>

Object == [dom: Uuids, id: BOOLEAN]
Row == [dom: Uuids, id: BOOLEAN, active: BOOLEAN]

\* Every variable has a value of its kind.
TypeOK ==
  /\ HostTypeOK
  /\ pc \in {"idle", "names", "ids"}
  /\ names \subseteq Names /\ current \subseteq ids /\ ids \subseteq Uuids
  /\ domains \in Seq(Object) /\ rows \in Seq(Row)
  /\ reply \in {"none", "list", "error"} /\ steady \subseteq Uuids

Init ==
  /\ HostInit
  /\ pc = "idle" /\ names = {} /\ ids = {} /\ current = {} /\ domains = <<>> /\ rows = <<>>
  /\ reply = "none" /\ steady = Uuids

-----------------------------------------------------------------------------

\* An exception leaves the handler: conn.close(), and render answers 500.
Raise == pc' = "idle" /\ reply' = "error" /\ UNCHANGED <<names, ids, current, domains, rows>>

\* Mutant: the names of all persistent domains are taken.
listDefinedDomains_all ==
  /\ pc = "idle" /\ pc' = "names"
  /\ names' = {name[u] : u \in {v \in Uuids : defined[v]}}
  /\ ids' = {} /\ current' = {} /\ domains' = <<>> /\ rows' = <<>>
  /\ reply' = "none" /\ steady' = Uuids
  /\ UNCHANGED hostVars

\* getConnection('R') and listDefinedDomains(): the names of the inactive domains.
listDefinedDomains ==
  /\ pc = "idle" /\ pc' = "names"
  /\ names' = {name[u] : u \in {v \in Uuids : defined[v] /\ ~Active(v)}}
  /\ ids' = {} /\ current' = {} /\ domains' = <<>> /\ rows' = <<>>
  /\ reply' = "none" /\ steady' = Uuids
  /\ UNCHANGED hostVars

\* lookupByName(name) for one of the names, whatever the domain is by now.
LookupName(n) ==
  /\ pc = "names" /\ n \in names
  /\ \/ lookupByName(n) = {} /\ Raise
     \/ \E u \in lookupByName(n) :
        /\ domains' = Append(domains, [dom |-> u, id |-> Active(u)])
        /\ names' = names \ {n}
        /\ UNCHANGED <<pc, ids, current, rows, reply>>
  /\ UNCHANGED <<hostVars, steady>>

\* listDomainsID(): the ids of the active domains.
listDomainsID ==
  /\ pc = "names" /\ names = {} /\ pc' = "ids"
  /\ ids' = {u \in Uuids : Active(u)} /\ current' = ids'
  /\ UNCHANGED <<hostVars, names, domains, rows, reply, steady>>

\* lookupByID(id): an id dies with the run it was given to.
LookupID(u) ==
  /\ pc = "ids" /\ u \in ids
  /\ \/ u \notin current /\ Raise
     \/ /\ u \in current
        /\ domains' = Append(domains, [dom |-> u, id |-> TRUE])
        /\ ids' = ids \ {u} /\ current' = current \ {u}
        /\ UNCHANGED <<pc, names, rows, reply>>
  /\ UNCHANGED <<hostVars, steady>>

\* Mutant: a domain that is no longer active is not asked for its state.
State_active ==
  /\ pc = "ids" /\ ids = {} /\ Len(rows) < Len(domains)
  /\ LET d == domains[Len(rows) + 1] IN
     \/ ~Active(d.dom) /\ Raise
     \/ /\ Active(d.dom)
        /\ rows' = Append(rows, [dom |-> d.dom, id |-> d.id, active |-> TRUE])
        /\ UNCHANGED <<pc, names, ids, current, domains, reply>>
  /\ UNCHANGED <<hostVars, steady>>

\* domain.state(0) for the next object; its id, name and uuid are those of the lookup.
State ==
  /\ pc = "ids" /\ ids = {} /\ Len(rows) < Len(domains)
  /\ LET d == domains[Len(rows) + 1] IN
     \/ ~Exists(d.dom) /\ Raise
     \/ /\ Exists(d.dom)
        /\ rows' = Append(rows, [dom |-> d.dom, id |-> d.id, active |-> Active(d.dom)])
        /\ UNCHANGED <<pc, names, ids, current, domains, reply>>
  /\ UNCHANGED <<hostVars, steady>>

\* conn.close(), req.write(...), req.finish().
Answer ==
  /\ pc = "ids" /\ ids = {} /\ Len(rows) = Len(domains)
  /\ pc' = "idle" /\ reply' = "list"
  /\ UNCHANGED <<hostVars, names, ids, current, domains, rows, steady>>

\* The connection to libvirtd breaks: the next call raises.
ConnectionBreaks ==
  /\ "libvirtd" \in Faults /\ pc # "idle"
  /\ Raise /\ steady' = {} /\ UNCHANGED hostVars

\* Guests and other clients act; an id is current as long as its run lasts.
HostChanges ==
  /\ Environment
  /\ current' = {u \in current : state'[u] # "SHUTOFF"}
  /\ steady' = {u \in steady : Active(u) = Active(u)' /\ Exists(u) = Exists(u)'}
  /\ UNCHANGED handlerVars

Next ==
  \/ listDefinedDomains \/ listDomainsID \/ State \/ Answer \/ ConnectionBreaks \/ HostChanges
  \/ \E n \in Names : LookupName(n)
  \/ \E u \in Uuids : LookupID(u)

Spec == Init /\ [][Next]_vars

-----------------------------------------------------------------------------
(* Properties *)

\* When listDomains answers, a domain that neither came, went, started nor stopped during the
\* request is in the list exactly once, with an id exactly if it is active, and every other one
\* that did not exist is absent: only domains that change under the two listings are missing or
\* listed twice.
SteadyListedOnce ==
  [][pc # "idle" /\ pc' = "idle" /\ reply' = "list" =>
       \A u \in steady :
         LET mine == {i \in DOMAIN rows : rows[i].dom = u} IN
         /\ Cardinality(mine) = IF Exists(u) THEN 1 ELSE 0
         /\ \A i \in mine : rows[i].id = Active(u) /\ rows[i].active = Active(u)]_vars

\* listDomains fails only when a domain changed under it or libvirtd is gone: on a quiet host
\* every name and id it was given can still be looked up.
QuietAnswers == reply = "error" => steady # Uuids

=============================================================================
