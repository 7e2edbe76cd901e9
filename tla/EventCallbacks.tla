-------------------------- MODULE EventCallbacks --------------------------
(***************************************************************************)
(* The event callbacks of a handle (src/events.c).  A callback lives in a  *)
(* slot of an array, and the index of the slot is its handle.  Deleting    *)
(* clears the mask of the slot, and gives the slot back only if it is the  *)
(* last.  The old-style functions (guestfs_set_close_callback...) keep one *)
(* callback per kind in the same array, recognised by its wrapper.         *)
(*                                                                         *)
(* An event goes through the array by index and calls back; a callback may *)
(* register and delete callbacks and cause another event.                  *)
(***************************************************************************)
EXTENDS Integers, Sequences, FiniteSets

CONSTANTS
  Limit,             \* the limit of 1000 slots
  Events,
  OldKinds,          \* the wrappers of the old-style functions; each is also the name of its event
  MaxRegs,           \* bound on the registrations
  MaxDepth           \* bound on the events inside callbacks

NewStyle == "callback"              \* a callback that is no old-style wrapper

LimitAssumption == Limit \in Nat
KindsAssumption == OldKinds \subseteq Events /\ IsFiniteSet(OldKinds) /\ NewStyle \notin OldKinds
RegsAssumption == MaxRegs \in Nat
DepthAssumption == MaxDepth \in Nat

Ids == 1..MaxRegs                   \* a name for every registration
Indexes == 0..(Limit + Cardinality(OldKinds))
Nowhere == -1

VARIABLES
  nr_events,         \* g->nr_events
  mask,              \* g->events[i].event_bitmask
  cb,                \* g->events[i].cb: NewStyle or a wrapper
  id,                \* who is in slot i: the registration that opaque stands for
  used,              \* the number of registrations so far
  place,             \* the handle that each registration was given
  live,              \* registrations that nobody has deleted or replaced
  stack,             \* the events in progress, the innermost last
  refused            \* "too many event callbacks registered"

eventVars == <<nr_events, mask, cb, id, used, place, live, stack, refused>>
table == <<nr_events, mask, cb, id, used, place, live, refused>>

EventsInit ==
  /\ nr_events = 0
  /\ mask = [i \in Indexes |-> {}] /\ cb = [i \in Indexes |-> NewStyle] /\ id = [i \in Indexes |-> 0]
  /\ used = 0 /\ place = [r \in Ids |-> Nowhere] /\ live = {}
  /\ stack = <<>> /\ refused = FALSE

\* The program runs: outside of an event, or in a callback.
Running == stack # <<>> => stack[Len(stack)].pc = "callback"

Fill(i, events, wrapper) ==
  /\ mask' = [mask EXCEPT ![i] = events]
  /\ cb' = [cb EXCEPT ![i] = wrapper]
  /\ id' = [id EXCEPT ![i] = used + 1]
  /\ used' = used + 1
  /\ place' = [place EXCEPT ![used + 1] = i]

guestfs_set_event_callback(events) ==
  /\ Running /\ used < MaxRegs
  /\ IF nr_events >= Limit
     THEN refused' = TRUE /\ UNCHANGED <<nr_events, mask, cb, id, used, place, live>>
     ELSE /\ Fill(nr_events, events, NewStyle)
          /\ nr_events' = nr_events + 1
          /\ live' = live \cup {used + 1}
          /\ refused' = FALSE
  /\ UNCHANGED stack

\* Mutant: the array is closed up, which moves the others.
delete_compacts(i) ==
  /\ mask' = [k \in Indexes |-> IF k >= i /\ k + 1 \in Indexes THEN mask[k + 1] ELSE mask[k]]
  /\ id' = [k \in Indexes |-> IF k >= i /\ k + 1 \in Indexes THEN id[k + 1] ELSE id[k]]
  /\ nr_events' = nr_events - 1

\* Mutant: the mask of the last slot is not cleared and the slot is kept.
delete_keeps(i) ==
  /\ mask' = IF i = nr_events - 1 THEN mask ELSE [mask EXCEPT ![i] = {}]
  /\ UNCHANGED <<nr_events, id>>

delete(i) ==
  /\ mask' = [mask EXCEPT ![i] = {}]
  /\ nr_events' = IF i = nr_events - 1 THEN nr_events - 1 ELSE nr_events
  /\ UNCHANGED id

\* The program deletes a registration of its own, once.
guestfs_delete_event_callback(r) ==
  /\ Running
  /\ r \in live /\ cb[place[r]] = NewStyle
  /\ delete(place[r])
  /\ live' = live \ {r}
  /\ UNCHANGED <<cb, used, place, stack, refused>>

\* guestfs_set_close_callback and the others: a wrapper is for one event.
EventOf(wrapper) == {wrapper}

Slots(wrapper) == {i \in 0..(nr_events - 1) : cb[i] = wrapper}
First(S) == CHOOSE i \in S : \A k \in S : i <= k

replace_old_style_event_callback(wrapper) ==
  /\ Running /\ used < MaxRegs
  /\ IF Slots(wrapper) = {}
     THEN Fill(nr_events, EventOf(wrapper), wrapper) /\ nr_events' = nr_events + 1 /\ live' = live \cup {used + 1}
     ELSE LET i == First(Slots(wrapper))
          IN Fill(i, EventOf(wrapper), wrapper) /\ UNCHANGED nr_events /\ live' = (live \ {id[i]}) \cup {used + 1}
  /\ UNCHANGED <<stack, refused>>

\* The same with a NULL callback.
RemoveOldStyle(wrapper) ==
  /\ Running
  /\ Slots(wrapper) # {}
  /\ delete(First(Slots(wrapper)))
  /\ live' = live \ {id[First(Slots(wrapper))]}
  /\ UNCHANGED <<cb, used, place, stack, refused>>

\* An event; due is the history of who should hear of it, and told of who was called.
guestfs___call_callbacks(event) ==
  /\ Running /\ Len(stack) < MaxDepth
  /\ stack' = Append(stack, [event |-> event, i |-> 0, pc |-> "loop", told |-> [r \in Ids |-> 0],
                             due |-> {r \in live : event \in mask[place[r]]}])
  /\ UNCHANGED table

Top == stack[Len(stack)]

\* One round of the loop.
Loop ==
  /\ stack # <<>> /\ Top.pc = "loop" /\ Top.i < nr_events
  /\ stack' = [stack EXCEPT ![Len(stack)] =
                 IF Top.event \in mask[Top.i]
                 THEN [Top EXCEPT !.pc = "callback", !.told[id[Top.i]] = @ + 1]
                 ELSE [Top EXCEPT !.i = @ + 1]]
  /\ UNCHANGED table

\* Mutant: the loop stays where it is after a call.
ReturnFromCallback_stays ==
  /\ stack # <<>> /\ Top.pc = "callback"
  /\ stack' = [stack EXCEPT ![Len(stack)] = [Top EXCEPT !.pc = "loop"]]
  /\ UNCHANGED table

\* Mutant: the loop goes on by two.
ReturnFromCallback_skips ==
  /\ stack # <<>> /\ Top.pc = "callback"
  /\ stack' = [stack EXCEPT ![Len(stack)] = [Top EXCEPT !.pc = "loop", !.i = @ + 2]]
  /\ UNCHANGED table

ReturnFromCallback ==
  /\ stack # <<>> /\ Top.pc = "callback"
  /\ stack' = [stack EXCEPT ![Len(stack)] = [Top EXCEPT !.pc = "loop", !.i = @ + 1]]
  /\ UNCHANGED table

EndLoop ==
  /\ stack # <<>> /\ Top.pc = "loop" /\ Top.i >= nr_events
  /\ stack' = SubSeq(stack, 1, Len(stack) - 1)
  /\ UNCHANGED table

EventsNext ==
  \/ \E events \in (SUBSET Events) \ {{}} : guestfs_set_event_callback(events)
  \/ \E r \in Ids : guestfs_delete_event_callback(r)
  \/ \E wrapper \in OldKinds : replace_old_style_event_callback(wrapper) \/ RemoveOldStyle(wrapper)
  \/ \E event \in Events : guestfs___call_callbacks(event)
  \/ Loop \/ ReturnFromCallback \/ EndLoop

EventsSpec == EventsInit /\ [][EventsNext]_eventVars

-----------------------------------------------------------------------------
(* Properties. *)

\* The array stays within the limit and one slot for each of the old-style functions, which do not
\* look at the limit.
EventsTypeOK ==
  /\ nr_events \in Indexes
  /\ mask \in [Indexes -> SUBSET Events]
  /\ cb \in [Indexes -> OldKinds \cup {NewStyle}]
  /\ id \in [Indexes -> 0..MaxRegs]
  /\ used \in 0..MaxRegs
  /\ place \in [Ids -> Indexes \cup {Nowhere}]
  /\ live \subseteq 1..used
  /\ refused \in BOOLEAN

\* A handle that the program has not deleted names the callback that it was given for, whatever
\* else was registered, replaced and deleted: programs that delete only what they have registered
\* do not disturb each other.
HandlesHold ==
  \A r \in live : place[r] \in 0..(nr_events - 1) /\ id[place[r]] = r /\ mask[place[r]] # {}

\* What is deleted is not called: a slot with a mask is that of a live callback.
DeadAreSilent == \A i \in 0..(nr_events - 1) : mask[i] # {} => id[i] \in live

\* No callback hears of an event twice, although callbacks come and go during the event.
AtMostOnce == \A k \in DOMAIN stack : \A r \in Ids : stack[k].told[r] <= 1

\* When an event is over every callback that was registered when it began, and still is, has heard
\* of it.
AllTold ==
  stack # <<>> /\ Top.pc = "loop" /\ Top.i >= nr_events => \A r \in Top.due \cap live : Top.told[r] = 1

\* Callbacks hear of every event once, while they are registered and not afterwards.
ToldOnce == EventsTypeOK /\ AllTold /\ AtMostOnce /\ DeadAreSilent /\ HandlesHold

\* guestfs_delete_event_callback: "If the program continually allocated and then deallocated event
\* handlers, it would eventually run into the limit (of 1000) in the function above.  Avoid that
\* here."
\* The code does not have this property (README.md, "Known divergences").
LimitAvoided == refused => live # {}
=============================================================================
