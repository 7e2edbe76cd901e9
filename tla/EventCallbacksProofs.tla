------------------------ MODULE EventCallbacksProofs ------------------------
(***************************************************************************)
(* Proofs about EventCallbacks for any limit, events, old-style functions, *)
(* registrations and depth of events inside callbacks: every callback      *)
(* hears of an event once, and handles stay what they were given for.  The *)
(* inductive invariant says of each event in progress, the outer ones      *)
(* included, that exactly the slots it has passed have been told.          *)
(***************************************************************************)
EXTENDS EventCallbacks, FiniteSetTheorems, TLAPS

Constants == LimitAssumption /\ KindsAssumption /\ RegsAssumption /\ DepthAssumption

\* The wrappers that have a slot; only they have slots beyond the limit.
Wrappers == {w \in OldKinds : \E i \in 0..(nr_events - 1) : cb[i] = w}
CountInv == nr_events <= Limit + Cardinality(Wrappers)

\* Every slot is that of the registration which was given it last.
SlotsInv == \A i \in 0..(nr_events - 1) : id[i] \in 1..used /\ place[id[i]] = i

\* A wrapper has at most one slot.
OneSlot ==
  \A i, j \in 0..(nr_events - 1) : cb[i] = cb[j] /\ cb[i] # NewStyle => i = j

\* The loop has been at slot p.
Passed(f, p) == p < f.i \/ (p = f.i /\ f.pc = "callback")

Frames == [event : Events, i : Nat, pc : {"loop", "callback"}, told : [Ids -> 0..1], due : SUBSET Ids]

\* Those told have been passed, and of those who are to be told, the ones that have been passed were told;
\* nobody changes the mask of a callback that is registered.
FrameInv(f) ==
  /\ \A r \in Ids : f.told[r] = 1 => r \in 1..used /\ Passed(f, place[r])
  /\ f.due \subseteq 1..used
  /\ \A r \in f.due \cap live : f.event \in mask[place[r]] /\ (Passed(f, place[r]) => f.told[r] = 1)

StackInv == stack \in Seq(Frames) /\ \A k \in DOMAIN stack : FrameInv(stack[k])

TableInv == EventsTypeOK /\ CountInv /\ SlotsInv /\ OneSlot /\ HandlesHold /\ DeadAreSilent

IInv == TableInv /\ StackInv

-----------------------------------------------------------------------------
(* The array *)

\* The slots of an array are slots of a longer one, and have an index.
LEMMA Below ==
  ASSUME Limit \in Nat, Cardinality(OldKinds) \in Nat, NEW n \in Indexes, NEW m \in Nat, m <= n, NEW k \in 0..(m - 1)
  PROVE k \in 0..(n - 1) /\ k \in Indexes
  <1>1. n \in Int /\ k \in Int /\ 0 <= k /\ k <= m - 1 /\ n <= Limit + Cardinality(OldKinds)
    BY DEF Indexes
  <1> QED BY <1>1 DEF Indexes

\* One registration more.
LEMMA OneMore ==
  ASSUME NEW u \in Nat, NEW max \in Nat, u < max, NEW S, S \subseteq 1..u
  PROVE u + 1 \in 0..max /\ S \cup {u + 1} \subseteq 1..(u + 1)
  OBVIOUS

\* A wrapper that has a slot is found in it.
LEMMA FirstIsSlot ==
  ASSUME TableInv, KindsAssumption, NEW wrapper \in OldKinds, Slots(wrapper) # {}
  PROVE First(Slots(wrapper)) \in 0..(nr_events - 1) /\ cb[First(Slots(wrapper))] = wrapper
  <1>0. OneSlot /\ wrapper # NewStyle /\ nr_events \in Nat
    BY DEF TableInv, KindsAssumption, EventsTypeOK, Indexes
  <1>1. PICK i \in 0..(nr_events - 1) : cb[i] = wrapper
    BY DEF Slots
  <1>2. \A k \in Slots(wrapper) : k = i
    BY <1>0, <1>1 DEF Slots, OneSlot
  <1>3. i \in Slots(wrapper) /\ \A k \in Slots(wrapper) : i <= k
    BY <1>0, <1>1, <1>2 DEF Slots
  <1>4. First(Slots(wrapper)) \in Slots(wrapper)
    BY <1>3, Zenon DEF First
  <1> QED BY <1>4 DEF Slots

\* The wrappers are finitely many, and no more than the old-style functions.
LEMMA WrappersFinite ==
  ASSUME KindsAssumption
  PROVE /\ IsFiniteSet(Wrappers) /\ Cardinality(Wrappers) \in Nat
        /\ Cardinality(OldKinds) \in Nat /\ Cardinality(Wrappers) <= Cardinality(OldKinds)
  <1>1. IsFiniteSet(OldKinds) /\ Wrappers \subseteq OldKinds
    BY DEF KindsAssumption, Wrappers
  <1> QED BY <1>1, FS_Subset, FS_CardinalityType

\* The events in progress are not disturbed by a step that registers and deletes callbacks, if the ones
\* that stay keep their slot and their mask.
LEMMA StackKept ==
  ASSUME IInv, used \in Nat, used' \in Nat, used <= used', stack' = stack,
         \A r \in 1..used : place'[r] = place[r],
         live' \subseteq live \cup {used + 1},
         \A r \in live \cap live' : mask'[place[r]] = mask[place[r]]
  PROVE StackInv'
  <1>1. StackInv /\ live \subseteq 1..used
    BY DEF IInv, TableInv, EventsTypeOK
  <1>2. ASSUME NEW k \in DOMAIN stack PROVE FrameInv(stack[k])'
    <2> DEFINE f == stack[k]
    <2>1. FrameInv(f) /\ f' = f
      BY <1>1, <1>2 DEF StackInv
    <2> HIDE DEF f
    <2>2. ASSUME NEW r \in Ids, f.told[r] = 1 PROVE r \in 1..used' /\ Passed(f, place'[r])
      BY <2>1, <2>2 DEF FrameInv
    <2>3. f.due \subseteq 1..used'
      BY <2>1 DEF FrameInv
    <2>4. ASSUME NEW r \in f.due \cap live' PROVE f.event \in mask'[place'[r]] /\ (Passed(f, place'[r]) => f.told[r] = 1)
      <3>1. r \in 1..used /\ r \in live /\ place'[r] = place[r]
        BY <2>1 DEF FrameInv
      <3>2. mask'[place[r]] = mask[place[r]]
        BY <3>1
      <3> QED BY <2>1, <3>1, <3>2 DEF FrameInv
    <2>5. FrameInv(f)'
      BY <2>1, <2>2, <2>3, <2>4, Zenon DEF FrameInv, Passed
    <2> QED BY <2>5 DEF f
  <1> QED BY <1>1, <1>2 DEF StackInv, Frames, Ids

-----------------------------------------------------------------------------
(* The steps of the program *)

\* A slot is cleared, and given back if it is the last.
LEMMA DeleteIInv ==
  ASSUME Constants, IInv, NEW i \in 0..(nr_events - 1),
         delete(i), live' = live \ {id[i]}, UNCHANGED <<cb, used, place, stack, refused>>
  PROVE IInv'
  <1>0. /\ EventsTypeOK /\ CountInv /\ SlotsInv /\ OneSlot /\ HandlesHold /\ DeadAreSilent
        /\ Limit \in Nat /\ nr_events \in Nat
    BY DEF IInv, TableInv, EventsTypeOK, Indexes, Constants, LimitAssumption
  <1>1. /\ mask' = [mask EXCEPT ![i] = {}] /\ id' = id
        /\ nr_events' = IF i = nr_events - 1 THEN nr_events - 1 ELSE nr_events
    BY DEF delete
  <1>2. nr_events' \in Nat /\ nr_events' <= nr_events /\ nr_events \in Indexes
    BY <1>0, <1>1 DEF EventsTypeOK
  <1>3. Cardinality(OldKinds) \in Nat /\ Cardinality(Wrappers) \in Nat /\ IsFiniteSet(Wrappers)
    BY WrappersFinite DEF Constants
  <1>4. i \in Indexes /\ nr_events' \in Indexes
    BY <1>0, <1>2, <1>3 DEF Indexes
  <1>5. EventsTypeOK'
    BY <1>0, <1>1, <1>4, Zenon DEF EventsTypeOK
  <1>6. CountInv'
    <2>1. CASE i = nr_events - 1
      <3>1. Wrappers \subseteq Wrappers' \cup {cb[i]}
        BY <1>0, <1>1, <2>1 DEF Wrappers
      <3>2. IsFiniteSet(Wrappers') /\ Cardinality(Wrappers') \in Nat
        <4>1. Wrappers' \subseteq OldKinds /\ IsFiniteSet(OldKinds)
          BY DEF Wrappers, Constants, KindsAssumption
        <4> QED BY <4>1, FS_Subset, FS_CardinalityType
      <3>3. IsFiniteSet(Wrappers' \cup {cb[i]}) /\ Cardinality(Wrappers' \cup {cb[i]}) <= Cardinality(Wrappers') + 1
        <4>1. /\ IsFiniteSet(Wrappers' \cup {cb[i]})
              /\ Cardinality(Wrappers' \cup {cb[i]}) =
                   IF cb[i] \in Wrappers' THEN Cardinality(Wrappers') ELSE Cardinality(Wrappers') + 1
          BY <3>2, FS_AddElement, Zenon
        <4> QED BY <3>2, <4>1
      <3>4. Cardinality(Wrappers) <= Cardinality(Wrappers' \cup {cb[i]})
        BY <3>1, <3>3, FS_Subset
      <3>5. Cardinality(Wrappers' \cup {cb[i]}) \in Nat
        BY <3>3, FS_CardinalityType
      <3>6. nr_events - 1 <= Limit + Cardinality(Wrappers')
        BY <1>0, <1>3, <3>2, <3>3, <3>4, <3>5 DEF CountInv
      <3> QED BY <1>1, <2>1, <3>6 DEF CountInv
    <2>2. CASE i # nr_events - 1
      <3>1. nr_events' = nr_events /\ Wrappers' = Wrappers
        BY <1>1, <2>2 DEF Wrappers
      <3> QED BY <1>0, <3>1 DEF CountInv
    <2> QED BY <2>1, <2>2
  <1>7. SlotsInv' /\ OneSlot'
    BY <1>0, <1>1, <1>2 DEF SlotsInv, OneSlot
  <1>8. ASSUME NEW r \in live' PROVE place[r] # i /\ place[r] \in 0..(nr_events' - 1) /\ mask'[place[r]] = mask[place[r]]
    <2>1. r \in live /\ r # id[i] /\ place[r] \in 0..(nr_events - 1) /\ id[place[r]] = r
      BY <1>0 DEF HandlesHold
    <2>2. place[r] # i
      BY <2>1
    <2>3. place[r] \in 0..(nr_events' - 1)
      BY <1>0, <1>1, <2>1, <2>2
    <2>4. mask'[place[r]] = mask[place[r]]
      BY <1>0, <1>1, <2>2, <1>2, <2>1 DEF EventsTypeOK, Indexes
    <2> QED BY <2>2, <2>3, <2>4
  <1>9. HandlesHold'
    <2>1. ASSUME NEW r \in live' PROVE place[r] \in 0..(nr_events' - 1) /\ id[place[r]] = r /\ mask'[place[r]] # {}
      BY <1>0, <1>8, <2>1 DEF HandlesHold
    <2> QED BY <1>1, <2>1 DEF HandlesHold
  <1>10. DeadAreSilent'
    <2>1. ASSUME NEW k \in 0..(nr_events' - 1), mask'[k] # {} PROVE id[k] \in live'
      <3>1. k \in 0..(nr_events - 1) /\ k \in Indexes
        BY <1>0, <1>2, <1>3, Below, Zenon
      <3>2. k # i /\ mask'[k] = mask[k]
        BY <1>0, <1>1, <2>1, <3>1 DEF EventsTypeOK
      <3>3. place[id[k]] = k /\ place[id[i]] = i
        BY <1>0, <3>1 DEF SlotsInv
      <3>4. id[k] \in live
        BY <1>0, <2>1, <3>1, <3>2 DEF DeadAreSilent
      <3> QED BY <3>2, <3>3, <3>4
    <2> QED BY <1>1, <2>1 DEF DeadAreSilent
  <1>11. StackInv'
    BY <1>0, <1>8, StackKept DEF EventsTypeOK
  <1> QED BY <1>5, <1>6, <1>7, <1>9, <1>10, <1>11 DEF IInv, TableInv

\* A registration takes the next slot: a wrapper that has none, or another callback within the limit.
LEMMA FillNewIInv ==
  ASSUME Constants, IInv, used < MaxRegs, NEW events \in SUBSET Events, events # {},
         NEW w \in OldKinds \cup {NewStyle}, IF w = NewStyle THEN nr_events < Limit ELSE w \notin Wrappers,
         Fill(nr_events, events, w), nr_events' = nr_events + 1, live' = live \cup {used + 1},
         stack' = stack, refused' \in BOOLEAN
  PROVE IInv'
  <1>0. /\ EventsTypeOK /\ CountInv /\ SlotsInv /\ OneSlot /\ HandlesHold /\ DeadAreSilent
        /\ Limit \in Nat /\ nr_events \in Nat /\ nr_events \in Indexes /\ used \in Nat /\ MaxRegs \in Nat
    BY DEF IInv, TableInv, EventsTypeOK, Indexes, Constants, LimitAssumption, RegsAssumption
  <1>1. /\ mask' = [mask EXCEPT ![nr_events] = events] /\ cb' = [cb EXCEPT ![nr_events] = w]
        /\ id' = [id EXCEPT ![nr_events] = used + 1] /\ place' = [place EXCEPT ![used + 1] = nr_events]
        /\ used' = used + 1
    BY DEF Fill
  <1>2. /\ Cardinality(OldKinds) \in Nat /\ Cardinality(Wrappers) \in Nat /\ IsFiniteSet(Wrappers)
        /\ Cardinality(Wrappers') \in Nat /\ Cardinality(Wrappers') <= Cardinality(OldKinds)
    <2>1. Wrappers' \subseteq OldKinds /\ IsFiniteSet(OldKinds)
      BY DEF Wrappers, Constants, KindsAssumption
    <2> QED BY <2>1, WrappersFinite, FS_Subset, FS_CardinalityType DEF Constants
  <1>3. \A k \in 0..(nr_events - 1) : k \in Indexes /\ mask'[k] = mask[k] /\ cb'[k] = cb[k] /\ id'[k] = id[k]
    BY <1>0, <1>1, <1>2 DEF EventsTypeOK, Indexes
  <1>4. mask'[nr_events] = events /\ cb'[nr_events] = w /\ id'[nr_events] = used + 1
    BY <1>0, <1>1 DEF EventsTypeOK
  <1>5. used + 1 \in Ids /\ place'[used + 1] = nr_events /\ \A r \in 1..used : place'[r] = place[r]
    BY <1>0, <1>1 DEF EventsTypeOK, Ids
  <1>6. CountInv'
    <2>1. CASE w = NewStyle
      BY <1>0, <1>2, <2>1 DEF CountInv
    <2>2. CASE w # NewStyle
      <3>1. w \notin Wrappers /\ w \in OldKinds
        BY <2>2
      <3>2. Wrappers' = Wrappers \cup {w}
        <4>1. \A u \in OldKinds : u \in Wrappers => u \in Wrappers'
          BY <1>0, <1>3 DEF Wrappers
        <4>2. w \in Wrappers'
          BY <1>0, <1>4, <3>1 DEF Wrappers
        <4>3. \A u \in OldKinds : u \in Wrappers' => u \in Wrappers \/ u = w
          BY <1>0, <1>3, <1>4 DEF Wrappers
        <4>4. Wrappers \subseteq OldKinds /\ Wrappers' \subseteq OldKinds
          BY DEF Wrappers
        <4> QED BY <3>1, <4>1, <4>2, <4>3, <4>4
      <3>3. Cardinality(Wrappers') = Cardinality(Wrappers) + 1
        BY <1>2, <3>1, <3>2, FS_AddElement, Zenon
      <3> QED BY <1>0, <1>2, <3>3 DEF CountInv
    <2> QED BY <2>1, <2>2
  <1>7. EventsTypeOK'
    <2>1. nr_events' \in Indexes
      BY <1>0, <1>2, <1>6 DEF CountInv, Indexes
    <2>2. used' \in 0..MaxRegs /\ live' \subseteq 1..used' /\ used + 1 \in 0..MaxRegs
      BY <1>0, <1>1 DEF EventsTypeOK
    <2>3. place' \in [Ids -> Indexes \cup {Nowhere}]
      BY <1>0, <1>1, <1>5 DEF EventsTypeOK
    <2> QED BY <1>0, <1>1, <2>1, <2>2, <2>3 DEF EventsTypeOK
  <1>8. SlotsInv'
    <2>1. ASSUME NEW k \in 0..(nr_events' - 1) PROVE id'[k] \in 1..used' /\ place'[id'[k]] = k
      <3>1. CASE k = nr_events
        BY <1>0, <1>1, <1>4, <1>5, <3>1
      <3>2. CASE k # nr_events
        <4>1. k \in 0..(nr_events - 1)
          BY <1>0, <3>2
        <4> QED BY <1>0, <1>1, <1>3, <1>5, <4>1 DEF SlotsInv
      <3> QED BY <3>1, <3>2
    <2> QED BY <2>1 DEF SlotsInv
  <1>9. OneSlot'
    <2>1. ASSUME NEW k \in 0..(nr_events - 1), w # NewStyle PROVE cb[k] # w
      BY <2>1 DEF Wrappers
    <2>2. ASSUME NEW j \in 0..(nr_events' - 1), NEW k \in 0..(nr_events' - 1), cb'[j] = cb'[k], cb'[j] # NewStyle
          PROVE j = k
      <3>1. (j = nr_events \/ j \in 0..(nr_events - 1)) /\ (k = nr_events \/ k \in 0..(nr_events - 1))
        BY <1>0
      <3> QED BY <1>0, <1>3, <1>4, <2>1, <2>2, <3>1 DEF OneSlot
    <2> QED BY <2>2 DEF OneSlot
  <1>10. \A r \in live : r \in 1..used /\ place'[r] = place[r] /\ place[r] \in 0..(nr_events - 1)
    BY <1>0, <1>5 DEF EventsTypeOK, HandlesHold
  <1>11. HandlesHold'
    <2>1. ASSUME NEW r \in live' PROVE place'[r] \in 0..(nr_events' - 1) /\ id'[place'[r]] = r /\ mask'[place'[r]] # {}
      <3>1. CASE r = used + 1
        BY <1>0, <1>4, <1>5, <3>1
      <3>2. CASE r \in live
        BY <1>0, <1>3, <1>10, <3>2 DEF HandlesHold
      <3> QED BY <3>1, <3>2
    <2> QED BY <2>1 DEF HandlesHold
  <1>12. DeadAreSilent'
    <2>1. ASSUME NEW k \in 0..(nr_events' - 1), mask'[k] # {} PROVE id'[k] \in live'
      <3>1. k = nr_events \/ k \in 0..(nr_events - 1)
        BY <1>0
      <3> QED BY <1>0, <1>3, <1>4, <2>1, <3>1 DEF DeadAreSilent
    <2> QED BY <2>1 DEF DeadAreSilent
  <1>13. StackInv'
    <2>1. \A r \in live \cap live' : mask'[place[r]] = mask[place[r]]
      BY <1>3, <1>10
    <2> QED BY <1>0, <1>1, <1>5, <2>1, StackKept
  <1> QED BY <1>6, <1>7, <1>8, <1>9, <1>11, <1>12, <1>13 DEF IInv, TableInv

\* A registration takes the slot that its wrapper has already.
LEMMA FillOldIInv ==
  ASSUME Constants, IInv, used < MaxRegs, NEW w \in OldKinds, NEW i \in 0..(nr_events - 1), cb[i] = w,
         Fill(i, EventOf(w), w), live' = (live \ {id[i]}) \cup {used + 1},
         UNCHANGED <<nr_events, stack, refused>>
  PROVE IInv'
  <1>0. /\ EventsTypeOK /\ CountInv /\ SlotsInv /\ OneSlot /\ HandlesHold /\ DeadAreSilent
        /\ Limit \in Nat /\ nr_events \in Nat /\ nr_events \in Indexes /\ used \in Nat /\ MaxRegs \in Nat
    BY DEF IInv, TableInv, EventsTypeOK, Indexes, Constants, LimitAssumption, RegsAssumption
  <1>1. /\ mask' = [mask EXCEPT ![i] = {w}] /\ cb' = [cb EXCEPT ![i] = w]
        /\ id' = [id EXCEPT ![i] = used + 1] /\ place' = [place EXCEPT ![used + 1] = i]
        /\ used' = used + 1
    BY DEF Fill, EventOf
  <1>2. Cardinality(OldKinds) \in Nat
    BY WrappersFinite DEF Constants
  <1>3. \A k \in 0..(nr_events - 1) : k \in Indexes
    BY <1>0, <1>2 DEF Indexes
  <1>4. \A k \in 0..(nr_events - 1) : k # i => mask'[k] = mask[k] /\ id'[k] = id[k]
    BY <1>0, <1>1, <1>3 DEF EventsTypeOK
  <1>5. mask'[i] = {w} /\ id'[i] = used + 1 /\ i \in Indexes
    BY <1>0, <1>1, <1>3 DEF EventsTypeOK
  <1>6. cb' = cb
    BY <1>0, <1>1, <1>5 DEF EventsTypeOK
  <1>7. used + 1 \in Ids /\ place'[used + 1] = i /\ \A r \in 1..used : place'[r] = place[r]
    BY <1>0, <1>1 DEF EventsTypeOK, Ids
  <1>8. EventsTypeOK'
    <2>1. used' \in 0..MaxRegs /\ live' \subseteq 1..used' /\ used + 1 \in 0..MaxRegs
      <3>1. live \subseteq 1..used /\ used \in 0..MaxRegs
        BY <1>0 DEF EventsTypeOK
      <3>2. used + 1 \in 0..MaxRegs /\ live \cup {used + 1} \subseteq 1..(used + 1)
        BY <1>0, <3>1, OneMore
      <3> QED BY <1>1, <3>2
    <2>2. place' \in [Ids -> Indexes \cup {Nowhere}]
      BY <1>0, <1>1, <1>5, <1>7 DEF EventsTypeOK
    <2>3. {w} \in SUBSET Events
      BY DEF Constants, KindsAssumption
    <2>4. mask' \in [Indexes -> SUBSET Events] /\ id' \in [Indexes -> 0..MaxRegs]
      BY <1>0, <1>1, <1>5, <2>1, <2>3 DEF EventsTypeOK
    <2> QED BY <1>0, <1>1, <1>6, <2>1, <2>2, <2>4 DEF EventsTypeOK
  <1>9. CountInv' /\ OneSlot'
    BY <1>0, <1>6 DEF CountInv, OneSlot, Wrappers
  <1>10. SlotsInv'
    <2>1. ASSUME NEW k \in 0..(nr_events - 1) PROVE id'[k] \in 1..used' /\ place'[id'[k]] = k
      <3>1. CASE k = i
        BY <1>0, <1>1, <1>5, <1>7, <3>1
      <3>2. CASE k # i
        BY <1>0, <1>1, <1>4, <1>7, <3>2 DEF SlotsInv
      <3> QED BY <3>1, <3>2
    <2> QED BY <2>1 DEF SlotsInv
  <1>11. ASSUME NEW r \in live, r # id[i]
         PROVE r \in 1..used /\ place'[r] = place[r] /\ place[r] \in 0..(nr_events - 1) /\ place[r] # i
    BY <1>0, <1>7, <1>11 DEF EventsTypeOK, HandlesHold
  <1>12. HandlesHold'
    <2>1. ASSUME NEW r \in live' PROVE place'[r] \in 0..(nr_events - 1) /\ id'[place'[r]] = r /\ mask'[place'[r]] # {}
      <3>1. CASE r = used + 1
        BY <1>5, <1>7, <3>1
      <3>2. CASE r # used + 1
        <4>1. r \in live /\ r # id[i]
          BY <3>2
        <4> QED BY <1>0, <1>4, <1>11, <4>1 DEF HandlesHold
      <3> QED BY <3>1, <3>2
    <2> QED BY <2>1 DEF HandlesHold
  <1>13. DeadAreSilent'
    <2>1. ASSUME NEW k \in 0..(nr_events - 1), mask'[k] # {} PROVE id'[k] \in live'
      <3>1. CASE k = i
        BY <1>5, <3>1
      <3>2. CASE k # i
        <4>1. id'[k] = id[k] /\ id[k] \in live
          BY <1>0, <1>4, <2>1, <3>2 DEF DeadAreSilent
        <4>2. place[id[k]] = k /\ place[id[i]] = i
          BY <1>0 DEF SlotsInv
        <4> QED BY <3>2, <4>1, <4>2
      <3> QED BY <3>1, <3>2
    <2> QED BY <2>1 DEF DeadAreSilent
  <1>14. StackInv'
    <2>1. ASSUME NEW r \in live \cap live' PROVE mask'[place[r]] = mask[place[r]]
      <3>1. r # used + 1
        BY <1>0 DEF EventsTypeOK
      <3>2. r # id[i]
        BY <3>1
      <3> QED BY <1>4, <1>11, <3>2
    <2> QED BY <1>0, <1>1, <1>7, <2>1, StackKept
  <1> QED BY <1>8, <1>9, <1>10, <1>12, <1>13, <1>14 DEF IInv, TableInv

-----------------------------------------------------------------------------
(* The steps of an event *)

\* A step that changes only the innermost event keeps the invariant if the event does.
LEMMA TopIInv ==
  ASSUME IInv, stack # <<>>, NEW f \in Frames, FrameInv(f), UNCHANGED table,
         stack' = [stack EXCEPT ![Len(stack)] = f]
  PROVE IInv'
  <1>1. stack \in Seq(Frames) /\ \A k \in DOMAIN stack : FrameInv(stack[k])
    BY DEF IInv, StackInv
  <1>2. TableInv'
    BY DEF IInv, TableInv, table, EventsTypeOK, CountInv, Wrappers, SlotsInv, OneSlot, HandlesHold, DeadAreSilent
  <1>3. stack' \in Seq(Frames) /\ DOMAIN stack' = DOMAIN stack
    BY <1>1
  <1>4. ASSUME NEW k \in DOMAIN stack PROVE FrameInv(stack'[k])
    BY <1>1, <1>4
  <1>5. \A k \in DOMAIN stack' : FrameInv(stack[k])'
    <2>1. ASSUME NEW k \in DOMAIN stack' PROVE FrameInv(stack[k])'
      <3>1. FrameInv(stack'[k])
        BY <1>3, <1>4
      <3> QED BY <3>1, Zenon DEF FrameInv, Passed, table
    <2> QED BY <2>1
  <1>6. Frames' = Frames
    BY DEF Frames, Ids
  <1> QED BY <1>2, <1>3, <1>5, <1>6 DEF IInv, StackInv

\* An event begins: nobody has been told.
LEMMA CallIInv ==
  ASSUME Constants, IInv, NEW event \in Events, guestfs___call_callbacks(event) PROVE IInv'
  <1> DEFINE f == [event |-> event, i |-> 0, pc |-> "loop", told |-> [r \in Ids |-> 0],
                   due |-> {r \in live : event \in mask[place[r]]}]
  <1>1. /\ EventsTypeOK /\ HandlesHold /\ stack \in Seq(Frames) /\ \A k \in DOMAIN stack : FrameInv(stack[k])
        /\ UNCHANGED table /\ stack' = Append(stack, f)
    BY DEF IInv, TableInv, StackInv, guestfs___call_callbacks
  <1>2. live \subseteq 1..used /\ live \subseteq Ids /\ nr_events \in Nat
    BY <1>1 DEF EventsTypeOK, Ids, Indexes, Constants, RegsAssumption
  <1>3. f \in Frames
    <2>1. [r \in Ids |-> 0] \in [Ids -> 0..1] /\ {r \in live : event \in mask[place[r]]} \in SUBSET Ids
      <3>1. [r \in Ids |-> 0] \in [Ids -> 0..1]
        OBVIOUS
      <3>2. {r \in live : event \in mask[place[r]]} \subseteq live
        OBVIOUS
      <3> QED BY <1>2, <3>1, <3>2, Zenon
    <2> QED BY <2>1 DEF Frames
  <1>4. FrameInv(f)
    <2>1. \A r \in live : place[r] \in Nat
      BY <1>1, <1>2 DEF HandlesHold
    <2>2. \A r \in f.due : r \in live /\ event \in mask[place[r]]
      OBVIOUS
    <2>3. f.i = 0 /\ f.pc = "loop" /\ f.event = event /\ f.told = [r \in Ids |-> 0]
      OBVIOUS
    <2> HIDE DEF f
    <2>4. \A r \in live : ~Passed(f, place[r])
      BY <2>1, <2>3 DEF Passed
    <2>5. \A r \in Ids : f.told[r] # 1
      BY <2>3
    <2>6. f.due \subseteq 1..used /\ \A r \in f.due \cap live : f.event \in mask[place[r]]
      BY <1>2, <2>2, <2>3, Zenon
    <2> QED BY <2>4, <2>5, <2>6 DEF FrameInv
  <1> HIDE DEF f
  <1>5. TableInv'
    BY <1>1 DEF IInv, TableInv, table, EventsTypeOK, CountInv, Wrappers, SlotsInv, OneSlot, HandlesHold, DeadAreSilent
  <1>6. stack' \in Seq(Frames)
    BY <1>1, <1>3
  <1>7. \A k \in DOMAIN stack' : FrameInv(stack[k])'
    <2>1. ASSUME NEW k \in DOMAIN stack' PROVE FrameInv(stack[k])'
      <3>1. FrameInv(stack'[k])
        BY <1>1, <1>3, <1>4
      <3> QED BY <1>1, <3>1, Zenon DEF FrameInv, Passed, table
    <2> QED BY <2>1
  <1>8. Frames' = Frames
    BY DEF Frames, Ids
  <1> QED BY <1>5, <1>6, <1>7, <1>8 DEF IInv, StackInv

\* A round of the loop calls the callback of the slot if it is registered for the event; nobody has told it.
LEMMA LoopIInv ==
  ASSUME Constants, IInv, Loop PROVE IInv'
  <1> DEFINE p == Top.i
             f == IF Top.event \in mask[p]
                  THEN [Top EXCEPT !.pc = "callback", !.told[id[p]] = @ + 1]
                  ELSE [Top EXCEPT !.i = @ + 1]
  <1>1. /\ EventsTypeOK /\ SlotsInv /\ HandlesHold /\ DeadAreSilent /\ nr_events \in Nat /\ used \in 0..MaxRegs
        /\ stack # <<>> /\ Top.pc = "loop" /\ p < nr_events /\ UNCHANGED table /\ stack' = [stack EXCEPT ![Len(stack)] = f]
    BY DEF IInv, TableInv, EventsTypeOK, Indexes, Loop
  <1>2. Top \in Frames /\ FrameInv(Top)
    BY <1>1 DEF IInv, StackInv, Top
  <1>3. p \in 0..(nr_events - 1) /\ id[p] \in 1..used /\ id[p] \in Ids /\ place[id[p]] = p
    BY <1>1, <1>2 DEF SlotsInv, Frames, Ids, Constants, RegsAssumption
  <1>4. \A r \in live : place[r] \in Nat /\ id[place[r]] = r
    BY <1>1 DEF HandlesHold
  <1>5. f \in Frames /\ FrameInv(f)
    <2>1. CASE Top.event \in mask[p]
      <3>1. Top.told[id[p]] = 0
        <4>1. ~Passed(Top, place[id[p]])
          BY <1>1, <1>3 DEF Passed
        <4>2. Top.told[id[p]] \in 0..1 /\ Top.told[id[p]] # 1
          BY <1>2, <1>3, <4>1 DEF FrameInv, Frames
        <4> QED BY <4>2
      <3>2. f = [Top EXCEPT !.pc = "callback", !.told = [Top.told EXCEPT ![id[p]] = 1]]
        BY <1>2, <1>3, <2>1, <3>1 DEF Frames
      <3>3. f.i = p /\ f.pc = "callback" /\ f.event = Top.event /\ f.due = Top.due /\ f.told = [Top.told EXCEPT ![id[p]] = 1]
        BY <1>2, <3>2, Zenon DEF Frames
      <3>4. f \in Frames
        <4>1. [Top.told EXCEPT ![id[p]] = 1] \in [Ids -> 0..1]
          <5>1. Top.told \in [Ids -> 0..1] /\ 1 \in 0..1
            BY <1>2 DEF Frames
          <5> QED BY <5>1, Zenon
        <4> QED BY <1>2, <3>2, <4>1, Zenon DEF Frames
      <3>5. f.told[id[p]] = 1 /\ \A r \in Ids : r # id[p] => f.told[r] = Top.told[r]
        BY <1>2, <1>3, <3>3 DEF Frames
      <3> HIDE DEF f
      <3>6. \A q \in Nat : Passed(f, q) <=> Passed(Top, q) \/ q = p
        BY <1>1, <1>2, <3>3 DEF Passed, Frames
      <3>7. ASSUME NEW r \in Ids, f.told[r] = 1 PROVE r \in 1..used /\ Passed(f, place[r])
        <4>1. CASE r = id[p]
          BY <1>3, <3>6, <4>1
        <4>2. CASE r # id[p]
          <5>1. r \in 1..used /\ Passed(Top, place[r])
            BY <1>2, <3>5, <3>7, <4>2 DEF FrameInv
          <5>2. Passed(f, place[r])
            BY <1>1, <3>3, <5>1 DEF Passed
          <5> QED BY <5>1, <5>2
        <4> QED BY <4>1, <4>2
      <3>8. ASSUME NEW r \in f.due \cap live PROVE f.event \in mask[place[r]] /\ (Passed(f, place[r]) => f.told[r] = 1)
        <4>1. r \in Top.due \cap live /\ Top.event \in mask[place[r]] /\ (Passed(Top, place[r]) => Top.told[r] = 1) /\ r \in Ids
          BY <1>2, <3>3 DEF FrameInv, Frames
        <4>2. Passed(f, place[r]) => Passed(Top, place[r]) \/ r = id[p]
          BY <1>4, <3>6
        <4> QED BY <3>3, <3>5, <4>1, <4>2
      <3> QED BY <1>2, <3>3, <3>4, <3>7, <3>8 DEF FrameInv
    <2>2. CASE Top.event \notin mask[p]
      <3>1. f = [Top EXCEPT !.i = p + 1]
        BY <1>2, <2>2 DEF Frames
      <3>2. f.i = p + 1 /\ f.pc = "loop" /\ f.event = Top.event /\ f.due = Top.due /\ f.told = Top.told
        BY <1>1, <1>2, <3>1, Zenon DEF Frames
      <3>6. f \in Frames /\ p \in Nat
        <4>1. p \in Nat /\ p + 1 \in Nat
          BY <1>3
        <4> QED BY <1>2, <3>1, <4>1 DEF Frames
      <3> HIDE DEF f
      <3>3. \A q \in Nat : Passed(f, q) <=> Passed(Top, q) \/ q = p
        BY <1>1, <3>2, <3>6 DEF Passed
      <3>4. ASSUME NEW r \in Ids, f.told[r] = 1 PROVE r \in 1..used /\ Passed(f, place[r])
        <4>1. r \in 1..used /\ Passed(Top, place[r]) /\ place[r] \in Indexes \cup {Nowhere}
          BY <1>1, <1>2, <3>2, <3>4 DEF FrameInv, EventsTypeOK
        <4>2. place[r] \in Int
          BY <4>1 DEF Indexes, Nowhere
        <4>3. Passed(f, place[r])
          BY <1>1, <3>2, <3>6, <4>1, <4>2 DEF Passed
        <4> QED BY <4>1, <4>3
      <3>5. ASSUME NEW r \in f.due \cap live PROVE f.event \in mask[place[r]] /\ (Passed(f, place[r]) => f.told[r] = 1)
        <4>1. r \in Top.due \cap live /\ Top.event \in mask[place[r]] /\ (Passed(Top, place[r]) => Top.told[r] = 1)
          BY <1>2, <3>2 DEF FrameInv
        <4>2. place[r] # p
          BY <2>2, <4>1
        <4> QED BY <1>4, <3>2, <3>3, <4>1, <4>2
      <3> QED BY <1>2, <3>2, <3>4, <3>5, <3>6 DEF FrameInv
    <2> QED BY <2>1, <2>2
  <1> HIDE DEF f
  <1> QED BY <1>1, <1>5, TopIInv, Zenon

\* The loop goes on after a callback; the slot counts as passed as before.
LEMMA ReturnIInv ==
  ASSUME Constants, IInv, ReturnFromCallback PROVE IInv'
  <1> DEFINE f == [Top EXCEPT !.pc = "loop", !.i = @ + 1]
  <1>1. /\ EventsTypeOK /\ HandlesHold /\ stack # <<>> /\ Top.pc = "callback"
        /\ UNCHANGED table /\ stack' = [stack EXCEPT ![Len(stack)] = f]
    BY DEF IInv, TableInv, ReturnFromCallback
  <1>2. Top \in Frames /\ FrameInv(Top)
    BY <1>1 DEF IInv, StackInv, Top
  <1>3. Top.i \in Nat /\ Top.i + 1 \in Nat
    BY <1>2 DEF Frames
  <1>4. f \in Frames
    BY <1>2, <1>3, Zenon DEF Frames
  <1>5. f.i = Top.i + 1 /\ f.pc = "loop" /\ f.event = Top.event /\ f.due = Top.due /\ f.told = Top.told
    BY <1>2 DEF Frames
  <1> HIDE DEF f
  <1>6. \A q \in Int : Passed(f, q) <=> Passed(Top, q)
    BY <1>1, <1>3, <1>5 DEF Passed
  <1>7. ASSUME NEW r \in Ids PROVE place[r] \in Int
    <2>1. place[r] \in Indexes \cup {Nowhere}
      BY <1>1 DEF EventsTypeOK
    <2> QED BY <2>1 DEF Indexes, Nowhere
  <1>8. \A r \in f.due \cap live : r \in Ids
    BY <1>2, <1>5 DEF Frames
  <1>9. FrameInv(f)
    BY <1>2, <1>5, <1>6, <1>7, <1>8 DEF FrameInv
  <1> QED BY <1>1, <1>4, <1>9, TopIInv, Zenon

\* An event is over.
LEMMA EndIInv ==
  ASSUME IInv, EndLoop PROVE IInv'
  <1>1. /\ stack \in Seq(Frames) /\ \A k \in DOMAIN stack : FrameInv(stack[k])
        /\ stack # <<>> /\ UNCHANGED table /\ stack' = SubSeq(stack, 1, Len(stack) - 1)
    BY DEF IInv, StackInv, EndLoop
  <1>2. TableInv'
    BY <1>1 DEF IInv, TableInv, table, EventsTypeOK, CountInv, Wrappers, SlotsInv, OneSlot, HandlesHold, DeadAreSilent
  <1>3. Len(stack) \in Nat /\ Len(stack) # 0 /\ DOMAIN stack = 1..Len(stack)
    BY <1>1
  <1>4. /\ stack' \in Seq(Frames) /\ DOMAIN stack' = 1..(Len(stack) - 1)
        /\ \A k \in 1..(Len(stack) - 1) : stack'[k] = stack[k]
    BY <1>1, <1>3
  <1>5. \A k \in DOMAIN stack' : FrameInv(stack[k])'
    <2>1. ASSUME NEW k \in DOMAIN stack' PROVE FrameInv(stack[k])'
      <3>1. k \in DOMAIN stack /\ stack'[k] = stack[k]
        BY <1>3, <1>4
      <3>2. FrameInv(stack'[k])
        BY <1>1, <3>1
      <3> QED BY <1>1, <3>2, Zenon DEF FrameInv, Passed, table
    <2> QED BY <2>1
  <1>6. Frames' = Frames
    BY DEF Frames, Ids
  <1> QED BY <1>2, <1>4, <1>5, <1>6 DEF IInv, StackInv

-----------------------------------------------------------------------------
(* The theorem *)

LEMMA InitIInv ==
  ASSUME Constants, EventsInit PROVE IInv
  <1>1. /\ nr_events = 0 /\ used = 0 /\ live = {} /\ stack = <<>> /\ refused = FALSE
        /\ mask = [i \in Indexes |-> {}] /\ cb = [i \in Indexes |-> NewStyle] /\ id = [i \in Indexes |-> 0]
        /\ place = [r \in Ids |-> Nowhere]
    BY DEF EventsInit
  <1>2. Cardinality(OldKinds) \in Nat /\ Cardinality(Wrappers) \in Nat /\ Limit \in Nat /\ MaxRegs \in Nat
    BY WrappersFinite DEF Constants, LimitAssumption, RegsAssumption
  <1>3. EventsTypeOK
    <2>1. nr_events \in Indexes /\ used \in 0..MaxRegs /\ 0 \in 0..MaxRegs
      BY <1>1, <1>2 DEF Indexes
    <2>2. /\ mask \in [Indexes -> SUBSET Events] /\ cb \in [Indexes -> OldKinds \cup {NewStyle}]
          /\ id \in [Indexes -> 0..MaxRegs] /\ place \in [Ids -> Indexes \cup {Nowhere}]
      BY <1>1, <2>1
    <2> QED BY <1>1, <2>1, <2>2 DEF EventsTypeOK
  <1>4. CountInv /\ SlotsInv /\ OneSlot /\ HandlesHold /\ DeadAreSilent
    BY <1>1, <1>2 DEF CountInv, SlotsInv, OneSlot, HandlesHold, DeadAreSilent
  <1>5. StackInv
    BY <1>1 DEF StackInv
  <1> QED BY <1>3, <1>4, <1>5 DEF IInv, TableInv

LEMMA StepIInv ==
  ASSUME Constants, IInv, [EventsNext]_eventVars PROVE IInv'
  <1>0. /\ KindsAssumption /\ TableInv /\ EventsTypeOK /\ HandlesHold /\ nr_events \in Nat /\ Limit \in Nat
        /\ NewStyle \notin OldKinds
    BY DEF Constants, KindsAssumption, LimitAssumption, IInv, TableInv, EventsTypeOK, Indexes
  <1>1. ASSUME NEW events \in (SUBSET Events) \ {{}}, guestfs_set_event_callback(events) PROVE IInv'
    <2>1. CASE nr_events >= Limit
      <3>1. UNCHANGED <<nr_events, mask, cb, id, used, place, live, stack>> /\ refused' = TRUE
        BY <1>1, <2>1 DEF guestfs_set_event_callback
      <3>2. StackInv'
        BY <3>1, Zenon DEF IInv, StackInv, FrameInv, Passed, Frames, Ids
      <3>3. TableInv'
        BY <1>0, <3>1 DEF TableInv, EventsTypeOK, CountInv, Wrappers, SlotsInv, OneSlot, HandlesHold, DeadAreSilent
      <3> QED BY <3>2, <3>3 DEF IInv
    <2>2. CASE ~(nr_events >= Limit)
      <3>1. /\ used < MaxRegs /\ Fill(nr_events, events, NewStyle) /\ nr_events' = nr_events + 1
            /\ live' = live \cup {used + 1} /\ stack' = stack /\ refused' = FALSE
        BY <1>1, <2>2 DEF guestfs_set_event_callback
      <3>2. nr_events < Limit
        BY <1>0, <2>2
      <3>3. events \in SUBSET Events /\ events # {}
        OBVIOUS
      <3> QED BY <3>1, <3>2, <3>3, FillNewIInv, Zenon
    <2> QED BY <2>1, <2>2
  <1>2. ASSUME NEW r \in Ids, guestfs_delete_event_callback(r) PROVE IInv'
    <2>1. /\ r \in live /\ delete(place[r]) /\ live' = live \ {r} /\ UNCHANGED <<cb, used, place, stack, refused>>
      BY <1>2 DEF guestfs_delete_event_callback
    <2>2. place[r] \in 0..(nr_events - 1) /\ id[place[r]] = r
      BY <1>0, <2>1 DEF HandlesHold
    <2> QED BY <2>1, <2>2, DeleteIInv
  <1>3. ASSUME NEW wrapper \in OldKinds, replace_old_style_event_callback(wrapper) PROVE IInv'
    <2>1. CASE Slots(wrapper) = {}
      <3>1. /\ used < MaxRegs /\ Fill(nr_events, EventOf(wrapper), wrapper) /\ nr_events' = nr_events + 1
            /\ live' = live \cup {used + 1} /\ stack' = stack /\ refused' = refused
        BY <1>3, <2>1 DEF replace_old_style_event_callback
      <3>2. wrapper # NewStyle /\ wrapper \notin Wrappers
        BY <1>0, <2>1 DEF Wrappers, Slots
      <3>3. EventOf(wrapper) \in SUBSET Events /\ EventOf(wrapper) # {} /\ refused \in BOOLEAN
        BY <1>0 DEF EventOf, KindsAssumption, EventsTypeOK
      <3> QED BY <3>1, <3>2, <3>3, FillNewIInv
    <2>2. CASE Slots(wrapper) # {}
      <3> DEFINE i == First(Slots(wrapper))
      <3>1. /\ used < MaxRegs /\ Fill(i, EventOf(wrapper), wrapper) /\ nr_events' = nr_events
            /\ live' = (live \ {id[i]}) \cup {used + 1} /\ stack' = stack /\ refused' = refused
        BY <1>3, <2>2 DEF replace_old_style_event_callback
      <3>2. i \in 0..(nr_events - 1) /\ cb[i] = wrapper
        BY <1>0, <2>2, FirstIsSlot
      <3> HIDE DEF i
      <3> QED BY <3>1, <3>2, FillOldIInv
    <2> QED BY <2>1, <2>2
  <1>4. ASSUME NEW wrapper \in OldKinds, RemoveOldStyle(wrapper) PROVE IInv'
    <2> DEFINE i == First(Slots(wrapper))
    <2>1. /\ Slots(wrapper) # {} /\ delete(i) /\ live' = live \ {id[i]}
          /\ UNCHANGED <<cb, used, place, stack, refused>>
      BY <1>4 DEF RemoveOldStyle
    <2>2. i \in 0..(nr_events - 1)
      BY <1>0, <2>1, FirstIsSlot
    <2> HIDE DEF i
    <2> QED BY <2>1, <2>2, DeleteIInv
  <1>5. ASSUME NEW event \in Events, guestfs___call_callbacks(event) PROVE IInv'
    BY <1>5, CallIInv
  <1>6. CASE Loop
    BY <1>6, LoopIInv
  <1>7. CASE ReturnFromCallback
    BY <1>7, ReturnIInv
  <1>8. CASE EndLoop
    BY <1>8, EndIInv
  <1>9. CASE UNCHANGED eventVars
    <2>1. UNCHANGED <<nr_events, mask, cb, id, used, place, live, stack, refused>>
      BY <1>9 DEF eventVars
    <2>2. StackInv'
      BY <2>1, Zenon DEF IInv, StackInv, FrameInv, Passed, Frames, Ids
    <2>3. TableInv'
      BY <1>0, <2>1 DEF TableInv, EventsTypeOK, CountInv, Wrappers, SlotsInv, OneSlot, HandlesHold, DeadAreSilent
    <2> QED BY <2>2, <2>3 DEF IInv
  <1> QED BY <1>1, <1>2, <1>3, <1>4, <1>5, <1>6, <1>7, <1>8, <1>9, Zenon DEF EventsNext

LEMMA IInvToldOnce ==
  ASSUME IInv PROVE ToldOnce
  <1>1. EventsTypeOK /\ HandlesHold /\ DeadAreSilent /\ stack \in Seq(Frames) /\ \A k \in DOMAIN stack : FrameInv(stack[k])
    BY DEF IInv, TableInv, StackInv
  <1>2. AtMostOnce
    <2>1. ASSUME NEW k \in DOMAIN stack, NEW r \in Ids PROVE stack[k].told[r] <= 1
      <3>1. stack[k] \in Frames
        BY <1>1
      <3>2. stack[k].told[r] \in 0..1
        BY <3>1 DEF Frames
      <3> QED BY <3>2
    <2> QED BY <2>1 DEF AtMostOnce
  <1>3. AllTold
    <2>1. ASSUME stack # <<>>, Top.i >= nr_events, NEW r \in Top.due \cap live PROVE Top.told[r] = 1
      <3>1. Top \in Frames /\ FrameInv(Top)
        BY <1>1, <2>1 DEF Top
      <3>2. place[r] \in 0..(nr_events - 1) /\ nr_events \in Int
        BY <1>1 DEF HandlesHold, EventsTypeOK, Indexes
      <3>3. place[r] < Top.i
        BY <2>1, <3>1, <3>2 DEF Frames
      <3> QED BY <3>1, <3>3 DEF FrameInv, Passed
    <2> QED BY <2>1 DEF AllTold
  <1> QED BY <1>1, <1>2, <1>3 DEF ToldOnce

\* Whatever callbacks register, replace and delete, and however events nest, every callback that is registered
\* when an event begins and stays so hears of it exactly once, one that was deleted hears nothing, and the handle
\* that guestfs_set_event_callback returned names the same callback until it is deleted
\* (guestfs___call_callbacks_void and the others, guestfs_delete_event_callback, replace_old_style_event_callback).
THEOREM EventsToldOnce ==
  ASSUME Constants PROVE EventsSpec => []ToldOnce
  <1>1. EventsInit => IInv
    BY InitIInv
  <1>2. IInv /\ [EventsNext]_eventVars => IInv'
    BY StepIInv
  <1>3. IInv => ToldOnce
    BY IInvToldOnce
  <1> QED BY <1>1, <1>2, <1>3, PTL DEF EventsSpec

=============================================================================
