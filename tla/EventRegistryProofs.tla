------------------------- MODULE EventRegistryProofs -------------------------
(***************************************************************************)
(* The slot table of event.c implements the registry of event.h: every     *)
(* step of EventManager is, under the mapping absReg, absReady, absMode,   *)
(* a step of EventRegistry or leaves the registry as it was.               *)
(***************************************************************************)
EXTENDS EventManagerProofs

(***************************************************************************)
(* The mapping as operators of a table m, a loop position p and an index x.*)
(***************************************************************************)
FdsOf(m) == {m.pfds[i].fd : i \in Used(m)}
SlotIn(m, fd) == CHOOSE i \in Used(m) : m.pfds[i].fd = fd
Entry(m, i) == [events   |-> m.pfds[i].events,
                data     |-> m.events[i].data,
                callback |-> m.events[i].callback]
RegOf(m) == [fd \in FdsOf(m) |-> Entry(m, SlotIn(m, fd))]
AheadOf(m, p, x) == {i \in Used(m) : \/ p = "dispatch" /\ i >= x
                                     \/ p = "callback" /\ i > x}
ReadyOf(m, p, x) == [fd \in Fds |->
                       IF \E i \in AheadOf(m, p, x) : m.pfds[i].fd = fd
                         THEN m.pfds[SlotIn(m, fd)].revents ELSE {}]

\* They are the mapping of EventManager.
LEMMA MappingIs ==
    /\ absReg = RegOf(mgr) /\ absReg' = RegOf(mgr')
    /\ absReady = ReadyOf(mgr, pc, idx) /\ absReady' = ReadyOf(mgr', pc', idx')
BY DEF absReg, absReady, RegOf, ReadyOf, RegisteredFds, SlotOf, FdsOf, SlotIn, Entry,
       Ahead, AheadOf

\* The element of a registered descriptor is the one that names it.
LEMMA SlotUnique ==
    ASSUME NEW m, Good(m), NEW i \in Used(m)
    PROVE  SlotIn(m, m.pfds[i].fd) = i
<1> DEFINE k == SlotIn(m, m.pfds[i].fd)
<1>1. k \in Used(m) /\ m.pfds[k].fd = m.pfds[i].fd
  BY DEF SlotIn
<1> QED
  BY <1>1 DEF Good, OneSlotPerFd

\* What the registry holds, element by element.
LEMMA RegAt ==
    ASSUME NEW m, Good(m)
    PROVE  /\ DOMAIN RegOf(m) = FdsOf(m)
           /\ FdsOf(m) \subseteq Fds
           /\ \A i \in Used(m) : RegOf(m)[m.pfds[i].fd] = Entry(m, i)
           /\ \A fd \in FdsOf(m) : \E i \in Used(m) : m.pfds[i].fd = fd
<1>1. \A i \in Used(m) : RegOf(m)[m.pfds[i].fd] = Entry(m, i)
  BY SlotUnique DEF RegOf, FdsOf
<1> QED
  BY <1>1 DEF RegOf, FdsOf, Good, UsedComplete

\* What is still to be handed out, element by element.
LEMMA ReadyAt ==
    ASSUME NEW m, Good(m), NEW p, NEW x
    PROVE  /\ DOMAIN ReadyOf(m, p, x) = Fds
           /\ \A i \in AheadOf(m, p, x) :
                ReadyOf(m, p, x)[m.pfds[i].fd] = m.pfds[i].revents
           /\ \A i \in Used(m) \ AheadOf(m, p, x) : ReadyOf(m, p, x)[m.pfds[i].fd] = {}
           /\ \A fd \in Fds \ FdsOf(m) : ReadyOf(m, p, x)[fd] = {}
<1>1. AheadOf(m, p, x) \subseteq Used(m)
  BY DEF AheadOf
<1>2. \A i \in AheadOf(m, p, x) : ReadyOf(m, p, x)[m.pfds[i].fd] = m.pfds[i].revents
  BY <1>1, SlotUnique DEF ReadyOf, Good, UsedComplete
<1>3. \A i \in Used(m) \ AheadOf(m, p, x) : ReadyOf(m, p, x)[m.pfds[i].fd] = {}
  <2> SUFFICES ASSUME NEW i \in Used(m) \ AheadOf(m, p, x)
               PROVE  ReadyOf(m, p, x)[m.pfds[i].fd] = {}
    OBVIOUS
  <2>1. ~ \E j \in AheadOf(m, p, x) : m.pfds[j].fd = m.pfds[i].fd
    BY <1>1 DEF Good, OneSlotPerFd
  <2>2. m.pfds[i].fd \in Fds
    BY DEF Good, UsedComplete
  <2> QED
    BY <2>1, <2>2 DEF ReadyOf
<1>4. \A fd \in Fds \ FdsOf(m) : ReadyOf(m, p, x)[fd] = {}
  BY <1>1 DEF ReadyOf, FdsOf
<1> QED
  BY <1>2, <1>3, <1>4 DEF ReadyOf

\* There are as many registered descriptors as elements in use.
LEMMA RegSize ==
    ASSUME NEW m, Good(m)
    PROVE  /\ Cardinality(FdsOf(m)) = Cardinality(Used(m))
           /\ Cardinality(Used(m)) <= MAX_EVENTS
<1>1. IsFiniteSet(Used(m)) /\ Used(m) \subseteq 0 .. (m.max_idx - 1)
  BY UsedFinite
<1>2. Cardinality(FdsOf(m)) = Cardinality(Used(m))
  <2> DEFINE f == [i \in Used(m) |-> m.pfds[i].fd]
  <2>1. f \in Bijection(Used(m), FdsOf(m))
    <3>1. f \in [Used(m) -> FdsOf(m)]
      BY DEF FdsOf
    <3>2. \A i, j \in Used(m) : f[i] = f[j] => i = j
      BY DEF Good, OneSlotPerFd
    <3>3. \A fd \in FdsOf(m) : \E i \in Used(m) : f[i] = fd
      BY DEF FdsOf
    <3> HIDE DEF f
    <3> QED
      BY <3>1, <3>2, <3>3 DEF Bijection, Injection, Surjection, IsInjective
  <2>2. ExistsBijection(Used(m), FdsOf(m))
    BY <2>1 DEF ExistsBijection
  <2> QED
    BY <1>1, <2>2, FS_Bijection
<1>3. Cardinality(Used(m)) <= MAX_EVENTS
  <2> DEFINE last == m.max_idx - 1
  <2>1. last \in Int /\ 0 \in Int /\ m.max_idx \in Nat /\ m.max_idx <= MAX_EVENTS
        /\ MAX_EVENTS \in Nat /\ last = m.max_idx - 1
    BY MaxEventsAssumption DEF Good, TableType
  <2> HIDE DEF last
  <2>2. /\ IsFiniteSet(0 .. last)
        /\ Cardinality(0 .. last) = IF 0 > last THEN 0 ELSE last - 0 + 1
    BY <2>1, FS_Interval, Zenon
  <2>3. Used(m) \subseteq 0 .. last
    BY <1>1 DEF last
  <2>4. Cardinality(Used(m)) <= Cardinality(0 .. last)
    BY <2>2, <2>3, FS_Subset
  <2>5. Cardinality(Used(m)) \in Nat
    BY <1>1, FS_CardinalityType
  <2> QED
    BY <2>1, <2>2, <2>4, <2>5
<1> QED
  BY <1>2, <1>3

-----------------------------------------------------------------------------
(* What the operations do to the registry.                                 *)

\* Table n differs from table m in the element of descriptor efd only, and n has no
\* report left for efd.
SameBut(m, n, efd) ==
    /\ \A j \in Used(m) : m.pfds[j].fd # efd =>
          j \in Used(n) /\ n.pfds[j] = m.pfds[j] /\ n.events[j] = m.events[j]
    /\ \A j \in Used(n) : n.pfds[j].fd # efd => j \in Used(m) /\ n.pfds[j] = m.pfds[j]
    /\ \A j \in Used(n) : n.pfds[j].fd = efd => n.pfds[j].revents = {}

\* Such a change leaves the other registrations and their pending reports
\* alone, and discards the report of efd.
LEMMA ChangeOne ==
    ASSUME NEW m, NEW n, Good(m), Good(n), NEW efd \in Fds, SameBut(m, n, efd),
           NEW p, NEW x
    PROVE  /\ FdsOf(n) \ {efd} = FdsOf(m) \ {efd}
           /\ \A f \in FdsOf(m) \ {efd} : RegOf(n)[f] = RegOf(m)[f]
           /\ ReadyOf(n, p, x) = [ReadyOf(m, p, x) EXCEPT ![efd] = {}]
<1>1. FdsOf(n) \ {efd} = FdsOf(m) \ {efd}
  BY DEF FdsOf, SameBut
<1>2. \A f \in FdsOf(m) \ {efd} : RegOf(n)[f] = RegOf(m)[f]
  <2> SUFFICES ASSUME NEW f \in FdsOf(m) \ {efd} PROVE RegOf(n)[f] = RegOf(m)[f]
    OBVIOUS
  <2>1. PICK j \in Used(m) : m.pfds[j].fd = f
    BY DEF FdsOf
  <2>2. j \in Used(n) /\ n.pfds[j] = m.pfds[j] /\ n.events[j] = m.events[j]
    BY <2>1 DEF SameBut
  <2>3. RegOf(m)[f] = Entry(m, j) /\ RegOf(n)[f] = Entry(n, j)
    BY <2>1, <2>2, RegAt
  <2> QED
    BY <2>2, <2>3 DEF Entry
<1>3. \A f \in Fds : f # efd => ReadyOf(n, p, x)[f] = ReadyOf(m, p, x)[f]
  <2> SUFFICES ASSUME NEW f \in Fds, f # efd
               PROVE  ReadyOf(n, p, x)[f] = ReadyOf(m, p, x)[f]
    OBVIOUS
  <2>1. CASE f \notin FdsOf(m)
    <3>1. f \notin FdsOf(n)
      BY <1>1, <2>1
    <3> QED
      BY <2>1, <3>1, ReadyAt
  <2>2. CASE f \in FdsOf(m)
    <3>1. PICK j \in Used(m) : m.pfds[j].fd = f
      BY <2>2 DEF FdsOf
    <3>2. j \in Used(n) /\ n.pfds[j] = m.pfds[j]
      BY <3>1 DEF SameBut
    <3>3. j \in AheadOf(m, p, x) <=> j \in AheadOf(n, p, x)
      BY <3>2 DEF AheadOf
    <3>4. CASE j \in AheadOf(m, p, x)
      <4>1. ReadyOf(m, p, x)[f] = m.pfds[j].revents
        BY <3>1, <3>4, ReadyAt
      <4>2. ReadyOf(n, p, x)[f] = n.pfds[j].revents
        BY <3>1, <3>2, <3>3, <3>4, ReadyAt
      <4> QED
        BY <3>2, <4>1, <4>2
    <3>5. CASE j \notin AheadOf(m, p, x)
      <4>1. ReadyOf(m, p, x)[f] = {}
        BY <3>1, <3>5, ReadyAt
      <4>2. ReadyOf(n, p, x)[f] = {}
        BY <3>1, <3>2, <3>3, <3>5, ReadyAt
      <4> QED
        BY <4>1, <4>2
    <3> QED
      BY <3>4, <3>5
  <2> QED
    BY <2>1, <2>2
<1>4. ReadyOf(n, p, x)[efd] = {}
  <2>1. CASE efd \notin FdsOf(n)
    BY <2>1, ReadyAt
  <2>2. CASE efd \in FdsOf(n)
    <3>1. PICK j \in Used(n) : n.pfds[j].fd = efd
      BY <2>2 DEF FdsOf
    <3>2. n.pfds[j].revents = {}
      BY <3>1 DEF SameBut
    <3> QED
      BY <3>1, <3>2, ReadyAt
  <2> QED
    BY <2>1, <2>2
<1>5. /\ ReadyOf(n, p, x) = [f \in Fds |-> ReadyOf(n, p, x)[f]]
      /\ DOMAIN ReadyOf(m, p, x) = Fds
  BY DEF ReadyOf
<1>6. ReadyOf(n, p, x) = [ReadyOf(m, p, x) EXCEPT ![efd] = {}]
  BY <1>3, <1>4, <1>5
<1> QED
  BY <1>1, <1>2, <1>6

\* event_add's insertion is the registry's Add: the element it takes carries no
\* report, although event_add does not clear revents.
LEMMA InsertReg ==
    ASSUME NEW m, Good(m), CountExact(m), ~AtCapacity(m),
           NEW efd \in Fds, NEW events \in PollMasks,
           NEW data \in Data, NEW callback \in Callbacks,
           \A i \in Used(m) : m.pfds[i].fd # efd,
           NEW p, NEW x
    PROVE  LET n == Insert(m, efd, events, data, callback)
           IN  /\ RegOf(n) = [f \in FdsOf(m) \cup {efd} |->
                     IF f = efd
                       THEN [events |-> events, data |-> data, callback |-> callback]
                     ELSE RegOf(m)[f]]
               /\ ReadyOf(n, p, x) = [ReadyOf(m, p, x) EXCEPT ![efd] = {}]
<1> DEFINE n == Insert(m, efd, events, data, callback)
           i == InsertIdx(m)
           e == [events |-> events, data |-> data, callback |-> callback]
<1>1. /\ m \in [pfds : [Slots -> PfdType], events : [Slots -> EventType],
                max_idx : Nat, num_events : Nat]
      /\ m.max_idx <= MAX_EVENTS /\ MAX_EVENTS \in Nat
  BY MaxEventsAssumption DEF Good, TableType
<1>2. /\ i \in Slots /\ i \notin Used(m)
      /\ Holes(m) # {} => i \in Scanned(m)
      /\ Holes(m) = {} => i = m.max_idx /\ m.max_idx < MAX_EVENTS
  BY InsertIdxFree
<1>3. efd \in Nat /\ efd # NoFd
  BY FdsAssumption DEF NoFd
<1>4. m.pfds[i].revents = {}
  BY <1>2 DEF Good, UnusedClean
<1>5. /\ \A j \in Slots : j # i => n.pfds[j] = m.pfds[j] /\ n.events[j] = m.events[j]
      /\ n.pfds[i] = [fd |-> efd, events |-> events, revents |-> {}]
      /\ n.events[i] = [fd |-> efd, callback |-> callback, data |-> data]
      /\ n.max_idx = IF Holes(m) = {} THEN m.max_idx + 1 ELSE m.max_idx
  BY <1>1, <1>2, <1>4 DEF Insert
<1>g. Good(n)
  BY InsertGood
<1> HIDE DEF n, i
<1>6. Scanned(n) = Scanned(m) \cup {i} /\ Scanned(n) \subseteq Slots
  BY <1>1, <1>2, <1>5 DEF Scanned, Slots
<1>7. Used(n) = Used(m) \cup {i} /\ Used(n) \subseteq Slots
  BY <1>2, <1>3, <1>5, <1>6 DEF Used
<1>8. SameBut(m, n, efd)
  BY <1>2, <1>5, <1>7 DEF SameBut
<1>9. FdsOf(n) = FdsOf(m) \cup {efd} /\ efd \notin FdsOf(m)
  BY <1>2, <1>5, <1>7 DEF FdsOf
<1>10. RegOf(n)[efd] = e
  <2>1. RegOf(n)[efd] = Entry(n, i)
    BY <1>5, <1>7, <1>g, RegAt
  <2> QED
    BY <1>5, <2>1 DEF Entry
<1>11. /\ \A f \in FdsOf(m) : RegOf(n)[f] = RegOf(m)[f]
       /\ ReadyOf(n, p, x) = [ReadyOf(m, p, x) EXCEPT ![efd] = {}]
  BY <1>8, <1>9, <1>g, ChangeOne
<1> HIDE DEF e
<1>12. RegOf(n) = [f \in FdsOf(m) \cup {efd} |-> IF f = efd THEN e ELSE RegOf(m)[f]]
  <2>1. RegOf(n) = [f \in FdsOf(n) |-> RegOf(n)[f]]
    BY DEF RegOf
  <2> QED
    BY <1>9, <1>10, <1>11, <2>1
<1> QED
  BY <1>11, <1>12 DEF n, e

\* event_modify is the registry's Modify.
LEMMA ModifyReg ==
    ASSUME NEW m, Good(m), CountExact(m), NEW efd \in Fds, NEW events \in PollMasks,
           events # {}, get_idx_from_fd(m, efd) # -1,
           NEW p, NEW x
    PROVE  LET n == event_modify(m, efd, events).mgr
           IN  /\ efd \in FdsOf(m)
               /\ RegOf(n) = [RegOf(m) EXCEPT ![efd] =
                     [events |-> events, data |-> @.data, callback |-> @.callback]]
               /\ ReadyOf(n, p, x) = [ReadyOf(m, p, x) EXCEPT ![efd] = {}]
<1> DEFINE n == event_modify(m, efd, events).mgr
           i == get_idx_from_fd(m, efd)
<1>1. m \in [pfds : [Slots -> PfdType], events : [Slots -> EventType],
             max_idx : Nat, num_events : Nat]
  BY DEF Good, TableType
<1>2. i \in Used(m) /\ m.pfds[i].fd = efd
  BY GetIdx
<1>3. Used(m) \subseteq Scanned(m) /\ Scanned(m) \subseteq Slots
  BY <1>1, MaxEventsAssumption DEF Used, Scanned, Slots, Good, TableType
<1>4. n = [m EXCEPT !.pfds = [m.pfds EXCEPT ![i] = ModifiedPfd(m.pfds[i], events)]]
  BY FdsAssumption DEF event_modify
<1>5. /\ \A j \in Slots : j # i => n.pfds[j] = m.pfds[j]
      /\ n.pfds[i] = [fd |-> efd, events |-> events, revents |-> {}]
      /\ n.events = m.events /\ n.max_idx = m.max_idx
  BY <1>1, <1>2, <1>3, <1>4 DEF ModifiedPfd
<1>g. Good(n)
  BY ModifyGood
<1> HIDE DEF n, i
<1>6. Used(n) = Used(m)
  BY <1>2, <1>3, <1>5 DEF Used, Scanned
<1>7. \A j \in Used(m) : m.pfds[j].fd = efd => j = i
  BY <1>2 DEF Good, OneSlotPerFd
<1>8. SameBut(m, n, efd)
  BY <1>2, <1>3, <1>5, <1>6, <1>7 DEF SameBut
<1>9. efd \in FdsOf(m) /\ FdsOf(n) = FdsOf(m)
  BY <1>2, <1>3, <1>5, <1>6 DEF FdsOf
<1>10. RegOf(n)[efd] = [events |-> events, data |-> RegOf(m)[efd].data,
                        callback |-> RegOf(m)[efd].callback]
  <2>1. RegOf(n)[efd] = Entry(n, i) /\ RegOf(m)[efd] = Entry(m, i)
    BY <1>2, <1>5, <1>6, <1>g, RegAt
  <2> QED
    BY <1>5, <2>1 DEF Entry
<1>11. /\ \A f \in FdsOf(m) \ {efd} : RegOf(n)[f] = RegOf(m)[f]
       /\ ReadyOf(n, p, x) = [ReadyOf(m, p, x) EXCEPT ![efd] = {}]
  BY <1>8, <1>g, ChangeOne
<1>12. RegOf(n) = [RegOf(m) EXCEPT ![efd] =
                     [events |-> events, data |-> @.data, callback |-> @.callback]]
  <2>1. RegOf(n) = [f \in FdsOf(n) |-> RegOf(n)[f]] /\ DOMAIN RegOf(m) = FdsOf(m)
    BY DEF RegOf
  <2> QED
    BY <1>9, <1>10, <1>11, <2>1
<1> QED
  BY <1>9, <1>11, <1>12 DEF n

\* event_remove is the registry's Remove: when max_idx shrinks, only the removed
\* element leaves the scan.
LEMMA RemoveReg ==
    ASSUME NEW m, Good(m), CountExact(m), NEW efd \in Fds,
           get_idx_from_fd(m, efd) # -1,
           NEW p, NEW x
    PROVE  LET n == event_remove(m, efd).mgr
           IN  /\ efd \in FdsOf(m)
               /\ RegOf(n) = [f \in FdsOf(m) \ {efd} |-> RegOf(m)[f]]
               /\ ReadyOf(n, p, x) = [ReadyOf(m, p, x) EXCEPT ![efd] = {}]
<1> DEFINE n == event_remove(m, efd).mgr
           i == get_idx_from_fd(m, efd)
<1>1. /\ m \in [pfds : [Slots -> PfdType], events : [Slots -> EventType],
                max_idx : Nat, num_events : Nat]
      /\ m.max_idx <= MAX_EVENTS /\ MAX_EVENTS \in Nat
  BY MaxEventsAssumption DEF Good, TableType
<1>2. i \in Used(m) /\ m.pfds[i].fd = efd
  BY GetIdx
<1>3. Used(m) \subseteq Scanned(m) /\ Scanned(m) \subseteq Slots
  BY <1>1 DEF Used, Scanned, Slots
<1>4. n = [pfds |-> [m.pfds EXCEPT ![i] = RemovedPfd(m.pfds[i])],
           events |-> [m.events EXCEPT ![i] =
                         [fd |-> NoFd, callback |-> NULL, data |-> NULL]],
           max_idx |-> IF i = m.max_idx - 1 THEN m.max_idx - 1 ELSE m.max_idx,
           num_events |-> m.num_events - 1]
  BY FdsAssumption DEF event_remove
<1>5. /\ \A j \in Slots : j # i => n.pfds[j] = m.pfds[j] /\ n.events[j] = m.events[j]
      /\ n.pfds[i] = [fd |-> NoFd, events |-> {}, revents |-> {}]
      /\ n.max_idx = IF i = m.max_idx - 1 THEN m.max_idx - 1 ELSE m.max_idx
  BY <1>1, <1>2, <1>3, <1>4 DEF RemovedPfd
<1>g. Good(n)
  BY RemoveGood
<1> HIDE DEF n, i
<1>6. /\ Scanned(n) \subseteq Scanned(m)
      /\ Scanned(m) \ {i} \subseteq Scanned(n)
  BY <1>1, <1>2, <1>3, <1>5 DEF Scanned
<1>7. Used(n) = Used(m) \ {i}
  BY <1>2, <1>3, <1>5, <1>6 DEF Used
<1>8. \A j \in Used(m) : m.pfds[j].fd = efd => j = i
  BY <1>2 DEF Good, OneSlotPerFd
<1>9. SameBut(m, n, efd)
  BY <1>2, <1>3, <1>5, <1>7, <1>8 DEF SameBut
<1>10. efd \in FdsOf(m) /\ FdsOf(n) = FdsOf(m) \ {efd}
  BY <1>2, <1>3, <1>5, <1>7, <1>8 DEF FdsOf
<1>11. /\ \A f \in FdsOf(m) \ {efd} : RegOf(n)[f] = RegOf(m)[f]
       /\ ReadyOf(n, p, x) = [ReadyOf(m, p, x) EXCEPT ![efd] = {}]
  BY <1>9, <1>g, ChangeOne
<1>12. RegOf(n) = [f \in FdsOf(m) \ {efd} |-> RegOf(m)[f]]
  <2>1. RegOf(n) = [f \in FdsOf(n) |-> RegOf(n)[f]]
    BY DEF RegOf
  <2> QED
    BY <1>10, <1>11, <2>1
<1> QED
  BY <1>10, <1>11, <1>12 DEF n

-----------------------------------------------------------------------------
(* Every step is a step of the registry.                                   *)

\* What the mapping needs beyond the table invariants: call names a callback
\* only while one runs, as the registry's call does.
RInv == IInv /\ (pc # "callback" => call = NULL)

\* RInv is kept by every step.
LEMMA RInvInductive == Spec => []RInv
<1>1. Init => RInv
  BY InitIInv DEF Init, RInv
<1>2. RInv /\ [Next]_vars => RInv'
  <2> SUFFICES ASSUME RInv, [Next]_vars PROVE (pc # "callback" => call = NULL)'
    BY NextIInv DEF RInv
  <2>1. ASSUME NEW result, Apply(result) PROVE (pc # "callback" => call = NULL)'
    BY <2>1 DEF Apply, RInv
  <2>2. ASSUME NEW err, CallbackReturns(err) PROVE (pc # "callback" => call = NULL)'
    BY <2>2 DEF CallbackReturns
  <2>3. CASE LoopStep /\ UNCHANGED <<call, res>>
    BY <2>3 DEF LoopStep, CheckFlag, Signal, PollInterrupted, PollFails, SkipSlot,
                EndRound, NextSlot, RInv
  <2>4. CASE StartLoop \/ Poll \/ Invoke \/ event_teardown \/ UNCHANGED vars
    BY <2>4 DEF StartLoop, Poll, PollReturns, Invoke, event_teardown, vars, loopVars, RInv
  <2> QED
    BY <2>1, <2>2, <2>3, <2>4 DEF Next, Add, Modify, Remove
<1> QED
  BY <1>1, <1>2, PTL DEF Spec

\* Nothing is left to be handed out unless the loop is walking the table.
LEMMA NothingAhead ==
    ASSUME NEW m, NEW p, NEW x, p \notin {"dispatch", "callback"}
    PROVE  ReadyOf(m, p, x) = [fd \in Fds |-> {}]
BY DEF ReadyOf, AheadOf

\* The registry's modes, spelled out.
LEMMA Modes ==
    /\ pc = "setup" => absMode = "client"
    /\ pc \in {"check", "poll", "dispatch"} => absMode = "loop"
    /\ pc = "callback" => absMode = "callback"
    /\ pc = "returned" => absMode = "stopped"
    /\ pc = "done" => absMode = "done"
    /\ pc' = "setup" => absMode' = "client"
    /\ pc' \in {"check", "poll", "dispatch"} => absMode' = "loop"
    /\ pc' = "callback" => absMode' = "callback"
    /\ pc' = "returned" => absMode' = "stopped"
    /\ pc' = "done" => absMode' = "done"
    /\ pc' = pc => absMode' = absMode
BY DEF absMode

\* A call that changes neither the table nor the loop changes the registry's
\* answer only; one on the table is seen through the mapping.
LEMMA ApplyMaps ==
    ASSUME RInv, NEW result, Apply(result)
    PROVE  /\ Registry!ClientRuns
           /\ absReg = RegOf(mgr) /\ absReady = ReadyOf(mgr, pc, idx)
           /\ absReg' = RegOf(result.mgr) /\ absReady' = ReadyOf(result.mgr, pc, idx)
           /\ res' = result.err /\ call' = call /\ absMode' = absMode
           /\ Good(mgr) /\ CountExact(mgr)
<1>1. /\ pc \in {"setup", "callback", "returned"}
      /\ mgr' = result.mgr /\ res' = result.err /\ pc' = pc /\ idx' = idx /\ call' = call
  BY DEF Apply, ClientRuns
<1>2. Good(mgr) /\ CountExact(mgr)
  BY <1>1, IInvGood DEF RInv
<1>3. Registry!ClientRuns /\ absMode' = absMode
  BY <1>1, Modes DEF Registry!ClientRuns
<1> QED
  BY <1>1, <1>2, <1>3, MappingIs

\* The registry's copies of what both modules extend.
LEMMA SameConstants ==
    /\ Registry!PROXY_SUCCESS = PROXY_SUCCESS
    /\ Registry!PROXY_ERR = PROXY_ERR
    /\ Registry!PROXY_MAX_EVENTS = PROXY_MAX_EVENTS
    /\ \A S : Registry!Cardinality(S) = Cardinality(S)
<1>1. /\ Registry!PROXY_SUCCESS = PROXY_SUCCESS
      /\ Registry!PROXY_ERR = PROXY_ERR
      /\ Registry!PROXY_MAX_EVENTS = PROXY_MAX_EVENTS
  BY DEF PROXY_SUCCESS, PROXY_ERR, PROXY_MAX_EVENTS,
         Registry!PROXY_SUCCESS, Registry!PROXY_ERR, Registry!PROXY_MAX_EVENTS
<1>2. \A S : Registry!Cardinality(S) = Cardinality(S)
  BY DEF Cardinality, Registry!Cardinality
<1> QED
  BY <1>1, <1>2

\* event_add: refused for a descriptor already registered or an empty mask, then
\* for want of room, else inserted.
LEMMA AddMaps ==
    ASSUME RInv, NEW fd \in Fds, NEW m \in Masks, NEW d \in Data, NEW c \in Callbacks,
           Add(fd, m, d, c)
    PROVE  Registry!Add(fd, m, d, c)
<1> DEFINE r == event_add(mgr, fd, m, d, c)
<1>1. Apply(r)
  BY DEF Add
<1>2. /\ Registry!ClientRuns
      /\ absReg = RegOf(mgr) /\ absReady = ReadyOf(mgr, pc, idx)
      /\ absReg' = RegOf(r.mgr) /\ absReady' = ReadyOf(r.mgr, pc, idx)
      /\ res' = r.err /\ call' = call /\ absMode' = absMode
      /\ Good(mgr) /\ CountExact(mgr)
  BY <1>1, ApplyMaps
<1>3. fd >= 0 /\ m \in PollMasks
  BY FdsAssumption, ClientAssumption
<1>4. DOMAIN absReg = FdsOf(mgr)
  BY <1>2, RegAt
<1>5. fd \in FdsOf(mgr) <=> get_idx_from_fd(mgr, fd) # -1
  BY <1>2, GetIdx DEF FdsOf
<1>6. /\ AtCapacity(mgr) <=> Cardinality(FdsOf(mgr)) = MAX_EVENTS
      /\ ~AtCapacity(mgr) => Cardinality(FdsOf(mgr)) < MAX_EVENTS
  <2>1. /\ Cardinality(FdsOf(mgr)) = Cardinality(Used(mgr))
        /\ Cardinality(Used(mgr)) <= MAX_EVENTS /\ Cardinality(Used(mgr)) \in Nat
    BY <1>2, RegSize, UsedFinite
  <2> QED
    BY <1>2, <2>1, MaxEventsAssumption DEF AtCapacity, CountExact
<1>7. CASE m = {} \/ fd \in FdsOf(mgr)
  <2>1. r.mgr = mgr /\ r.err = PROXY_ERR
    BY <1>5, <1>7 DEF event_add
  <2> HIDE DEF r
  <2> QED
    BY <1>2, <1>4, <1>7, <2>1, SameConstants DEF Registry!Add, Registry!Refuse
<1>8. CASE m # {} /\ fd \notin FdsOf(mgr) /\ AtCapacity(mgr)
  <2>1. r.mgr = mgr /\ r.err = PROXY_MAX_EVENTS
    BY <1>3, <1>5, <1>8, FdsAssumption DEF event_add
  <2> HIDE DEF r
  <2> QED
    BY <1>2, <1>4, <1>6, <1>8, <2>1, SameConstants DEF Registry!Add, Registry!Refuse
<1>9. CASE m # {} /\ fd \notin FdsOf(mgr) /\ ~AtCapacity(mgr)
  <2>1. r.mgr = Insert(mgr, fd, m, d, c) /\ r.err = PROXY_SUCCESS
    BY <1>3, <1>5, <1>9, FdsAssumption DEF event_add
  <2>2. \A i \in Used(mgr) : mgr.pfds[i].fd # fd
    BY <1>9 DEF FdsOf
  <2> HIDE DEF r
  <2>3. /\ absReg' = [f \in DOMAIN absReg \cup {fd} |->
                        IF f = fd THEN [events |-> m, data |-> d, callback |-> c]
                        ELSE absReg[f]]
        /\ absReady' = [absReady EXCEPT ![fd] = {}]
    BY <1>2, <1>3, <1>4, <1>9, <2>1, <2>2, InsertReg, SMTT(40)
  <2>4. Registry!Update(fd, [f \in DOMAIN absReg \cup {fd} |->
                               IF f = fd THEN [events |-> m, data |-> d, callback |-> c]
                               ELSE absReg[f]])
    BY <1>2, <2>1, <2>3, SameConstants DEF Registry!Update
  <2> QED
    BY <1>2, <1>4, <1>6, <1>9, <2>4, SameConstants DEF Registry!Add
<1> QED
  BY <1>7, <1>8, <1>9

\* event_modify.
LEMMA ModifyMaps ==
    ASSUME RInv, NEW fd \in Fds, NEW m \in Masks, Modify(fd, m)
    PROVE  Registry!Modify(fd, m)
<1> DEFINE r == event_modify(mgr, fd, m)
<1>1. Apply(r)
  BY DEF Modify
<1>2. /\ Registry!ClientRuns
      /\ absReg = RegOf(mgr) /\ absReady = ReadyOf(mgr, pc, idx)
      /\ absReg' = RegOf(r.mgr) /\ absReady' = ReadyOf(r.mgr, pc, idx)
      /\ res' = r.err /\ call' = call /\ absMode' = absMode
      /\ Good(mgr) /\ CountExact(mgr)
  BY <1>1, ApplyMaps
<1>3. fd >= 0 /\ m \in PollMasks
  BY FdsAssumption, ClientAssumption
<1>4. DOMAIN absReg = FdsOf(mgr)
  BY <1>2, RegAt
<1>5. fd \in FdsOf(mgr) <=> get_idx_from_fd(mgr, fd) # -1
  BY <1>2, GetIdx DEF FdsOf
<1>6. CASE m = {} \/ fd \notin FdsOf(mgr)
  <2>1. r.mgr = mgr /\ r.err = PROXY_ERR
    BY <1>5, <1>6 DEF event_modify
  <2> HIDE DEF r
  <2> QED
    BY <1>2, <1>4, <1>6, <2>1, SameConstants DEF Registry!Modify, Registry!Refuse
<1>7. CASE m # {} /\ fd \in FdsOf(mgr)
  <2>1. r.err = PROXY_SUCCESS
    BY <1>3, <1>5, <1>7, FdsAssumption DEF event_modify
  <2>2. /\ RegOf(r.mgr) = [RegOf(mgr) EXCEPT ![fd] =
                     [events |-> m, data |-> @.data, callback |-> @.callback]]
        /\ ReadyOf(r.mgr, pc, idx) = [ReadyOf(mgr, pc, idx) EXCEPT ![fd] = {}]
    BY <1>2, <1>3, <1>5, <1>7, ModifyReg
  <2> HIDE DEF r
  <2>3. Registry!Update(fd, [absReg EXCEPT ![fd] =
                     [events |-> m, data |-> @.data, callback |-> @.callback]])
    BY <1>2, <2>1, <2>2, SameConstants DEF Registry!Update
  <2> QED
    BY <1>2, <1>4, <1>7, <2>3 DEF Registry!Modify
<1> QED
  BY <1>6, <1>7

\* event_remove.
LEMMA RemoveMaps ==
    ASSUME RInv, NEW fd \in Fds, Remove(fd)
    PROVE  Registry!Remove(fd)
<1> DEFINE r == event_remove(mgr, fd)
<1>1. Apply(r)
  BY DEF Remove
<1>2. /\ Registry!ClientRuns
      /\ absReg = RegOf(mgr) /\ absReady = ReadyOf(mgr, pc, idx)
      /\ absReg' = RegOf(r.mgr) /\ absReady' = ReadyOf(r.mgr, pc, idx)
      /\ res' = r.err /\ call' = call /\ absMode' = absMode
      /\ Good(mgr) /\ CountExact(mgr)
  BY <1>1, ApplyMaps
<1>4. DOMAIN absReg = FdsOf(mgr)
  BY <1>2, RegAt
<1>5. fd \in FdsOf(mgr) <=> get_idx_from_fd(mgr, fd) # -1
  BY <1>2, GetIdx DEF FdsOf
<1>6. CASE fd \notin FdsOf(mgr)
  <2>1. r.mgr = mgr /\ r.err = PROXY_ERR
    BY <1>5, <1>6 DEF event_remove
  <2> HIDE DEF r
  <2> QED
    BY <1>2, <1>4, <1>6, <2>1, SameConstants DEF Registry!Remove, Registry!Refuse
<1>7. CASE fd \in FdsOf(mgr)
  <2>1. r.err = PROXY_SUCCESS
    BY <1>5, <1>7, FdsAssumption DEF event_remove
  <2>2. /\ RegOf(r.mgr) = [f \in FdsOf(mgr) \ {fd} |-> RegOf(mgr)[f]]
        /\ ReadyOf(r.mgr, pc, idx) = [ReadyOf(mgr, pc, idx) EXCEPT ![fd] = {}]
    BY <1>2, <1>5, <1>7, RemoveReg
  <2> HIDE DEF r
  <2>3. Registry!Update(fd, [f \in DOMAIN absReg \ {fd} |-> absReg[f]])
    BY <1>2, <1>4, <2>1, <2>2, SameConstants DEF Registry!Update
  <2> QED
    BY <1>2, <1>4, <1>7, <2>3 DEF Registry!Remove
<1> QED
  BY <1>6, <1>7

\* When the elements still to be looked at hold the same reports, so does the
\* registry.
LEMMA ReadySame ==
    ASSUME NEW m, Good(m), NEW p, NEW x, NEW q, NEW y,
           AheadOf(m, q, y) \subseteq AheadOf(m, p, x),
           \A i \in AheadOf(m, p, x) \ AheadOf(m, q, y) : m.pfds[i].revents = {}
    PROVE  ReadyOf(m, q, y) = ReadyOf(m, p, x)
<1>1. \A f \in Fds : ReadyOf(m, q, y)[f] = ReadyOf(m, p, x)[f]
  <2> SUFFICES ASSUME NEW f \in Fds PROVE ReadyOf(m, q, y)[f] = ReadyOf(m, p, x)[f]
    OBVIOUS
  <2>1. CASE f \notin FdsOf(m)
    BY <2>1, ReadyAt
  <2>2. CASE f \in FdsOf(m)
    <3>1. PICK i \in Used(m) : m.pfds[i].fd = f
      BY <2>2 DEF FdsOf
    <3>2. CASE i \in AheadOf(m, q, y)
      <4>1. ReadyOf(m, q, y)[f] = m.pfds[i].revents
        BY <3>1, <3>2, ReadyAt
      <4>2. ReadyOf(m, p, x)[f] = m.pfds[i].revents
        BY <3>1, <3>2, ReadyAt
      <4> QED
        BY <4>1, <4>2
    <3>3. CASE i \notin AheadOf(m, q, y)
      <4>1. ReadyOf(m, q, y)[f] = {}
        BY <3>1, <3>3, ReadyAt
      <4>2. i \in AheadOf(m, p, x) => ReadyOf(m, p, x)[f] = m.pfds[i].revents
        BY <3>1, ReadyAt
      <4>3. i \notin AheadOf(m, p, x) => ReadyOf(m, p, x)[f] = {}
        BY <3>1, ReadyAt
      <4> QED
        BY <3>3, <4>1, <4>2, <4>3
    <3> QED
      BY <3>2, <3>3
  <2> QED
    BY <2>1, <2>2
<1>2. /\ ReadyOf(m, q, y) = [f \in Fds |-> ReadyOf(m, q, y)[f]]
      /\ ReadyOf(m, p, x) = [f \in Fds |-> ReadyOf(m, p, x)[f]]
  BY DEF ReadyOf
<1> QED
  BY <1>1, <1>2

\* poll(): the reports of the registered descriptors, all of them ahead.
LEMMA PollMaps ==
    ASSUME RInv, Poll
    PROVE  Registry!Poll
<1>1. PICK report \in [Fds -> Reports] : PollReturns(report)
  BY DEF Poll
<1> DEFINE n == FillReports(mgr, report)
<1>2. /\ pc = "poll" /\ pc' = "dispatch" /\ mgr' = n /\ idx' = 0
      /\ call' = call /\ res' = res
      /\ \E i \in Scanned(mgr) : mgr.pfds[i].fd # NoFd /\ report[mgr.pfds[i].fd] # {}
  BY <1>1 DEF PollReturns, Poll
<1>3. Good(mgr) /\ Good(n)
  BY <1>1, IInvGood, FillGood DEF RInv
<1>4. /\ mgr \in [pfds : [Slots -> PfdType], events : [Slots -> EventType],
                  max_idx : Nat, num_events : Nat]
      /\ Used(mgr) \subseteq Scanned(mgr) /\ Scanned(mgr) \subseteq Slots
  BY <1>3, MaxEventsAssumption DEF Good, TableType, Used, Scanned, Slots
<1>5. /\ n.pfds = [i \in Slots |->
           IF i \in Scanned(mgr)
             THEN [fd |-> mgr.pfds[i].fd, events |-> mgr.pfds[i].events,
                   revents |-> IF mgr.pfds[i].fd = NoFd THEN {}
                               ELSE report[mgr.pfds[i].fd]]
           ELSE mgr.pfds[i]]
      /\ n.events = mgr.events /\ n.max_idx = mgr.max_idx
  BY <1>4 DEF FillReports
<1> HIDE DEF n
<1>6. Scanned(n) = Scanned(mgr) /\ Used(n) = Used(mgr)
  BY <1>4, <1>5 DEF Used, Scanned
<1>7. \A i \in Used(mgr) : /\ n.pfds[i].fd = mgr.pfds[i].fd
                           /\ n.pfds[i].events = mgr.pfds[i].events
                           /\ n.pfds[i].revents = report[mgr.pfds[i].fd]
                           /\ n.events[i] = mgr.events[i]
                           /\ mgr.pfds[i].fd \in Fds
  BY <1>3, <1>4, <1>5 DEF Used, Good, UsedComplete
<1>8. FdsOf(n) = FdsOf(mgr)
  BY <1>6, <1>7 DEF FdsOf
<1>9. RegOf(n) = RegOf(mgr)
  <2>1. \A f \in FdsOf(mgr) : RegOf(n)[f] = RegOf(mgr)[f]
    <3> SUFFICES ASSUME NEW f \in FdsOf(mgr) PROVE RegOf(n)[f] = RegOf(mgr)[f]
      OBVIOUS
    <3>1. PICK i \in Used(mgr) : mgr.pfds[i].fd = f
      BY DEF FdsOf
    <3>2. RegOf(n)[f] = Entry(n, i) /\ RegOf(mgr)[f] = Entry(mgr, i)
      BY <1>3, <1>6, <1>7, <3>1, RegAt
    <3> QED
      BY <1>7, <3>1, <3>2 DEF Entry
  <2>2. /\ RegOf(n) = [f \in FdsOf(n) |-> RegOf(n)[f]]
        /\ RegOf(mgr) = [f \in FdsOf(mgr) |-> RegOf(mgr)[f]]
    BY DEF RegOf
  <2> QED
    BY <1>8, <2>1, <2>2
<1> DEFINE R == ReadyOf(n, "dispatch", 0)
<1>10. AheadOf(n, "dispatch", 0) = Used(mgr)
  BY <1>3, <1>6, UsedFinite DEF AheadOf, Used, Scanned
<1>11. /\ \A f \in FdsOf(mgr) : R[f] = report[f]
       /\ \A f \in Fds \ FdsOf(mgr) : R[f] = {}
  <2>1. \A i \in Used(mgr) : R[mgr.pfds[i].fd] = report[mgr.pfds[i].fd]
    BY <1>3, <1>7, <1>10, ReadyAt
  <2>2. \A f \in Fds \ FdsOf(mgr) : R[f] = {}
    BY <1>3, <1>8, ReadyAt
  <2> QED
    BY <2>1, <2>2 DEF FdsOf
<1>12. R \in [Fds -> Reports]
  <2>1. R = [f \in Fds |-> R[f]]
    BY DEF ReadyOf
  <2>2. \A f \in Fds : R[f] \in Reports
    BY <1>11, ClientAssumption
  <2> HIDE DEF R
  <2> QED
    BY <2>1, <2>2
<1>13. \E f \in Fds : R[f] # {}
  <2>1. PICK i \in Used(mgr) : report[mgr.pfds[i].fd] # {}
    BY <1>2 DEF Used
  <2> QED
    BY <1>7, <1>11, <2>1 DEF FdsOf
<1>14. \A f \in Fds : R[f] # {} => f \in FdsOf(mgr)
  BY <1>11
<1>15. /\ absReg = RegOf(mgr) /\ absReg' = absReg /\ absReady' = R
       /\ absReady = [fd \in Fds |-> {}]
       /\ DOMAIN absReg = FdsOf(mgr)
  BY <1>2, <1>3, <1>9, MappingIs, NothingAhead, RegAt
<1>16. absMode = "loop" /\ absMode' = "loop"
  BY <1>2, Modes
<1> HIDE DEF R
<1> QED
  BY <1>2, <1>12, <1>13, <1>14, <1>15, <1>16 DEF Registry!Poll, Registry!Quiet

\* handle_event's invocation: the callback, the data and the report are those of
\* one registration, and the report is used up.
LEMMA InvokeMaps ==
    ASSUME RInv, Invoke
    PROVE  Registry!Invoke
<1> DEFINE f == mgr.pfds[idx].fd
<1>1. /\ pc = "dispatch" /\ pc' = "callback" /\ mgr' = mgr /\ idx' = idx /\ res' = res
      /\ mgr.pfds[idx].revents # {} /\ EventIdx # -1
  BY DEF Invoke, Dispatching
<1>2. Good(mgr) /\ idx \in Nat
  BY IInvGood DEF RInv, IInv, TypeOK
<1>3. idx \in Used(mgr) /\ f \in Fds
  BY <1>2, DispatchIdx DEF Invoke, RInv, Good, UsedComplete
<1>4. EventIdx = idx
  <2>1. EventIdx \in Used(mgr) /\ mgr.pfds[EventIdx].fd = f
    BY <1>1, <1>2, <1>3, GetIdx DEF EventIdx
  <2> QED
    BY <1>2, <1>3, <2>1 DEF Good, OneSlotPerFd
<1>5. mgr.events[idx].fd = f
  BY <1>2, <1>3 DEF Good, ArraysAgree, Used
<1>6. /\ absReg = RegOf(mgr) /\ absReg' = RegOf(mgr)
      /\ absReady = ReadyOf(mgr, "dispatch", idx)
      /\ absReady' = ReadyOf(mgr, "callback", idx)
  BY <1>1, MappingIs
<1>7. f \in DOMAIN absReg /\ absReg[f] = Entry(mgr, idx)
  <2>1. f \in FdsOf(mgr)
    BY <1>3 DEF FdsOf
  <2>2. DOMAIN RegOf(mgr) = FdsOf(mgr) /\ RegOf(mgr)[f] = Entry(mgr, idx)
    BY <1>2, <1>3, RegAt
  <2> QED
    BY <1>6, <2>1, <2>2
<1>8. Used(mgr) \subseteq Nat
  BY <1>2, UsedFinite DEF Used, Scanned
<1>9. /\ AheadOf(mgr, "dispatch", idx) = AheadOf(mgr, "callback", idx) \cup {idx}
      /\ idx \notin AheadOf(mgr, "callback", idx)
  BY <1>2, <1>3, <1>8 DEF AheadOf
<1>10. absReady[f] = mgr.pfds[idx].revents
  BY <1>2, <1>6, <1>9, ReadyAt
<1>11. call' = [fd |-> f, revents |-> absReady[f],
                callback |-> absReg[f].callback, data |-> absReg[f].data]
  BY <1>4, <1>5, <1>7, <1>10 DEF Invoke, Entry
<1>12. absReady' = [absReady EXCEPT ![f] = {}]
  <2>1. \A g \in Fds : g # f => absReady'[g] = absReady[g]
    <3> SUFFICES ASSUME NEW g \in Fds, g # f PROVE absReady'[g] = absReady[g]
      OBVIOUS
    <3>1. CASE g \notin FdsOf(mgr)
      BY <1>2, <1>6, <3>1, ReadyAt
    <3>2. CASE g \in FdsOf(mgr)
      <4>1. PICK i \in Used(mgr) : mgr.pfds[i].fd = g
        BY <3>2 DEF FdsOf
      <4>2. i # idx
        BY <4>1
      <4>3. CASE i \in AheadOf(mgr, "callback", idx)
        <5>1. absReady'[g] = mgr.pfds[i].revents
          BY <1>2, <1>6, <4>1, <4>3, ReadyAt
        <5>2. absReady[g] = mgr.pfds[i].revents
          BY <1>2, <1>6, <1>9, <4>1, <4>3, ReadyAt
        <5> QED
          BY <5>1, <5>2
      <4>4. CASE i \notin AheadOf(mgr, "callback", idx)
        <5>1. absReady'[g] = {}
          BY <1>2, <1>6, <4>1, <4>4, ReadyAt
        <5>2. absReady[g] = {}
          BY <1>2, <1>6, <1>9, <4>1, <4>2, <4>4, ReadyAt
        <5> QED
          BY <5>1, <5>2
      <4> QED
        BY <4>3, <4>4
    <3> QED
      BY <3>1, <3>2
  <2>2. absReady'[f] = {}
    BY <1>2, <1>3, <1>6, <1>9, ReadyAt
  <2>3. DOMAIN absReady = Fds /\ absReady' = [g \in Fds |-> absReady'[g]]
    BY <1>6 DEF ReadyOf
  <2> HIDE DEF f
  <2> QED
    BY <2>1, <2>2, <2>3
<1>13. absMode = "loop" /\ absMode' = "callback"
  BY <1>1, Modes
<1>14. absReady[f] # {} /\ absReg' = absReg
  BY <1>1, <1>6, <1>10
<1> HIDE DEF f
<1> QED
  BY <1>1, <1>7, <1>11, <1>12, <1>13, <1>14 DEF Registry!Invoke

\* A step that leaves the table alone and ends the loop is the registry's Stop.
LEMMA StopMaps ==
    ASSUME RInv, mgr' = mgr, pc \in {"check", "poll", "dispatch", "callback"},
           pc' = "returned", call' = NULL, res' = res
    PROVE  Registry!Stop
<1>1. absReg' = absReg
  BY MappingIs
<1>2. absReady' = [fd \in Fds |-> {}]
  BY MappingIs, NothingAhead
<1>3. absMode \in {"loop", "callback"} /\ absMode' = "stopped"
  BY Modes
<1> QED
  BY <1>1, <1>2, <1>3 DEF Registry!Stop, Registry!Quiet

\* A callback returns: the loop goes on with the elements behind it, or ends.
LEMMA ReturnMaps ==
    ASSUME RInv, NEW err, CallbackReturns(err)
    PROVE  Registry!CallbackReturns \/ Registry!Stop
<1>1. pc = "callback" /\ NextSlot(err) /\ call' = NULL /\ mgr' = mgr /\ res' = res
  BY DEF CallbackReturns
<1>2. Good(mgr) /\ idx \in Nat /\ Used(mgr) \subseteq Nat
  BY IInvGood, UsedFinite DEF RInv, IInv, TypeOK, Used, Scanned
<1>3. CASE err = PROXY_SUCCESS
  <2>1. pc' = "dispatch" /\ idx' = idx + 1
    BY <1>1, <1>3 DEF NextSlot
  <2>2. AheadOf(mgr, "dispatch", idx + 1) = AheadOf(mgr, "callback", idx)
    BY <1>2 DEF AheadOf
  <2>3. ReadyOf(mgr, "dispatch", idx + 1) = ReadyOf(mgr, "callback", idx)
    BY <1>2, <2>2, ReadySame
  <2>4. absReg' = absReg /\ absReady' = absReady
    BY <1>1, <2>1, <2>3, MappingIs
  <2>5. absMode = "callback" /\ absMode' = "loop"
    BY <1>1, <2>1, Modes
  <2> QED
    BY <1>1, <2>4, <2>5 DEF Registry!CallbackReturns
<1>4. CASE err # PROXY_SUCCESS
  <2>1. pc' = "returned"
    BY <1>1, <1>4 DEF NextSlot
  <2> QED
    BY <1>1, <2>1, StopMaps
<1> QED
  BY <1>3, <1>4

\* A step of the loop outside a callback ends it, or changes nothing the registry
\* shows: an element without a report is passed over, a round ends, the flag is
\* read or cleared.
LEMMA LoopStepMaps ==
    ASSUME RInv, LoopStep, UNCHANGED <<call, res>>
    PROVE  Registry!Stop \/ UNCHANGED Registry!regVars
<1>0. Good(mgr) /\ idx \in Nat /\ Used(mgr) \subseteq Nat /\ call' = call /\ res' = res
  BY IInvGood, UsedFinite DEF RInv, IInv, TypeOK, Used, Scanned
<1>1. CASE SkipSlot
  <2>1. pc = "dispatch" /\ mgr' = mgr /\ idx \in Scanned(mgr)
    BY <1>1 DEF SkipSlot
  <2>2. mgr.pfds[idx].fd # NoFd => EventIdx # -1
    <3> SUFFICES ASSUME mgr.pfds[idx].fd # NoFd PROVE EventIdx # -1
      OBVIOUS
    <3>1. idx \in Used(mgr) /\ mgr.pfds[idx].fd \in Fds
      BY <1>0, <2>1 DEF Used, Good, UsedComplete
    <3> QED
      BY <1>0, <3>1, GetIdx DEF EventIdx
  <2>3. pc' = "dispatch" /\ idx' = idx + 1
    BY <1>1, <2>2 DEF SkipSlot, NextSlot
  <2>4. \A i \in AheadOf(mgr, "dispatch", idx) \ AheadOf(mgr, "dispatch", idx + 1) :
          mgr.pfds[i].revents = {}
    <3> SUFFICES ASSUME NEW i \in AheadOf(mgr, "dispatch", idx)
                                  \ AheadOf(mgr, "dispatch", idx + 1)
                 PROVE  mgr.pfds[i].revents = {}
      OBVIOUS
    <3>1. i = idx /\ i \in Used(mgr)
      BY <1>0 DEF AheadOf
    <3> QED
      BY <1>1, <2>1, <2>2, <3>1 DEF SkipSlot, Dispatching, Used
  <2>5. AheadOf(mgr, "dispatch", idx + 1) \subseteq AheadOf(mgr, "dispatch", idx)
    BY <1>0 DEF AheadOf
  <2>6. ReadyOf(mgr, "dispatch", idx + 1) = ReadyOf(mgr, "dispatch", idx)
    BY <1>0, <2>4, <2>5, ReadySame
  <2>7. absReg' = absReg /\ absReady' = absReady /\ absMode' = absMode
    BY <2>1, <2>3, <2>6, MappingIs, Modes
  <2> QED
    BY <1>0, <2>7 DEF Registry!regVars
<1>2. CASE EndRound
  <2>1. pc = "dispatch" /\ pc' = "check" /\ mgr' = mgr /\ idx \notin Scanned(mgr)
    BY <1>2 DEF EndRound
  <2>2. AheadOf(mgr, "dispatch", idx) = {}
    BY <1>0, <2>1 DEF AheadOf, Used, Scanned, Good, TableType
  <2>3. /\ absReady = ReadyOf(mgr, "dispatch", idx)
        /\ absReady' = [fd \in Fds |-> {}] /\ absReg' = absReg /\ absMode' = absMode
    BY <2>1, MappingIs, NothingAhead, Modes
  <2>4. absReady = [fd \in Fds |-> {}]
    BY <2>2, <2>3 DEF ReadyOf
  <2> QED
    BY <1>0, <2>3, <2>4 DEF Registry!regVars
<1>3. CASE Signal
  <2>1. mgr' = mgr /\ pc' = pc /\ idx' = idx
    BY <1>3 DEF Signal
  <2>2. absReg' = absReg /\ absReady' = absReady /\ absMode' = absMode
    BY <2>1, MappingIs, Modes
  <2> QED
    BY <1>0, <2>2 DEF Registry!regVars
<1>4. CASE CheckFlag /\ pc' = "poll"
  <2>1. mgr' = mgr /\ pc = "check" /\ pc' = "poll"
    BY <1>4 DEF CheckFlag
  <2>2. absReg' = absReg /\ absReady' = absReady /\ absMode' = absMode
    BY <2>1, MappingIs, Modes, NothingAhead
  <2> QED
    BY <1>0, <2>2 DEF Registry!regVars
<1>5. CASE PollInterrupted \/ PollFails \/ (CheckFlag /\ pc' # "poll")
  <2>1. mgr' = mgr /\ pc \in {"check", "poll"} /\ pc' = "returned"
    BY <1>5 DEF PollInterrupted, PollFails, CheckFlag
  <2>2. call' = NULL
    BY <1>0, <2>1 DEF RInv
  <2> QED
    BY <1>0, <2>1, <2>2, StopMaps
<1> QED
  BY <1>1, <1>2, <1>3, <1>4, <1>5 DEF LoopStep

\* event_run_loop is entered.
LEMMA StartMaps ==
    ASSUME RInv, StartLoop
    PROVE  Registry!Start
<1>1. /\ pc = "setup" /\ pc' = "check" /\ mgr' = mgr
      /\ call' = call /\ res' = res
  BY DEF StartLoop
<1>2. absReg' = absReg /\ absReady' = absReady
  BY <1>1, MappingIs, NothingAhead
<1>3. absMode = "client" /\ absMode' = "loop"
  BY <1>1, Modes
<1> QED
  BY <1>1, <1>2, <1>3 DEF Registry!Start

\* A table without an element in use is the empty registry.
LEMMA EmptyReg == ASSUME NEW m, Used(m) = {} PROVE RegOf(m) = << >>
BY DEF RegOf, FdsOf

\* event_teardown empties the registry.
LEMMA TeardownMaps ==
    ASSUME RInv, event_teardown
    PROVE  Registry!Teardown
<1>1. /\ pc = "returned" /\ pc' = "done" /\ mgr' = ClearTable(mgr)
      /\ call' = call /\ res' = res
  BY DEF event_teardown
<1>2. Used(mgr') = {}
  <2>1. /\ Good(mgr) /\ Scanned(mgr) \subseteq Slots
        /\ mgr \in [pfds : [Slots -> PfdType], events : [Slots -> EventType],
                    max_idx : Nat, num_events : Nat]
    BY IInvGood, MaxEventsAssumption DEF RInv, Good, TableType, Scanned, Slots
  <2>2. /\ mgr'.max_idx = mgr.max_idx
        /\ \A i \in Scanned(mgr) : mgr'.pfds[i].fd = NoFd
    BY <1>1, <2>1 DEF ClearTable
  <2> QED
    BY <2>2 DEF Used, Scanned
<1>3. absReg' = << >> /\ absReady' = absReady
  <2>1. absReg' = << >>
    BY <1>2, EmptyReg, MappingIs, Zenon
  <2>2. /\ ReadyOf(mgr, pc, idx) = [fd \in Fds |-> {}]
        /\ ReadyOf(mgr', pc', idx') = [fd \in Fds |-> {}]
    BY <1>1, NothingAhead
  <2> QED
    BY <2>1, <2>2, MappingIs, Zenon
<1>4. absMode = "stopped" /\ absMode' = "done"
  BY <1>1, Modes
<1> QED
  BY <1>1, <1>3, <1>4 DEF Registry!Teardown

\* The zero-initialised table is the empty registry.
LEMMA InitMaps == Init => Registry!Init
<1> SUFFICES ASSUME Init PROVE Registry!Init
  OBVIOUS
<1>1. Used(mgr) = {} /\ pc = "setup" /\ call = NULL /\ res = PROXY_SUCCESS
  BY DEF Init, LoopInit, EmptyTable, Used, Scanned
<1>2. absReg = << >> /\ absReady = [fd \in Fds |-> {}] /\ absMode = "client"
  BY <1>1, MappingIs, NothingAhead, EmptyReg, Modes
<1> QED
  BY <1>1, <1>2, SameConstants DEF Registry!Init, Registry!Quiet

\* Every step of the event manager is a step of the registry or a stutter.
LEMMA NextMaps == RInv /\ [Next]_vars => [Registry!Next]_(Registry!regVars)
<1> SUFFICES ASSUME RInv, [Next]_vars
             PROVE  Registry!Next \/ UNCHANGED Registry!regVars
  OBVIOUS
<1>1. CASE \E fd \in Fds, m \in Masks, d \in Data, c \in Callbacks : Add(fd, m, d, c)
  BY <1>1, AddMaps DEF Registry!Next
<1>2. CASE \E fd \in Fds, m \in Masks : Modify(fd, m)
  BY <1>2, ModifyMaps DEF Registry!Next
<1>3. CASE \E fd \in Fds : Remove(fd)
  BY <1>3, RemoveMaps DEF Registry!Next
<1>4. CASE StartLoop \/ Poll \/ Invoke \/ event_teardown
  BY <1>4, StartMaps, PollMaps, InvokeMaps, TeardownMaps DEF Registry!Next
<1>5. CASE \E err \in {PROXY_SUCCESS, PROXY_ERR} : CallbackReturns(err)
  BY <1>5, ReturnMaps DEF Registry!Next
<1>6. CASE LoopStep /\ UNCHANGED <<call, res>>
  BY <1>6, LoopStepMaps DEF Registry!Next
<1>7. CASE UNCHANGED vars
  <2>1. mgr' = mgr /\ pc' = pc /\ idx' = idx /\ call' = call /\ res' = res
    BY <1>7 DEF vars, loopVars
  <2>2. absReg' = absReg /\ absReady' = absReady /\ absMode' = absMode
    BY <2>1, MappingIs, Modes
  <2> QED
    BY <2>1, <2>2 DEF Registry!regVars
<1> QED
  BY <1>1, <1>2, <1>3, <1>4, <1>5, <1>6, <1>7 DEF Next

\* The slot table, its scans and its loop implement the registry: for every
\* capacity and every client, no report reaches a registration it was not made
\* for, none is handed out twice and none is skipped.
THEOREM Refinement == Spec => ImplementsRegistry
<1>1. Spec => Registry!Init /\ [][Registry!Next]_(Registry!regVars)
  BY InitMaps, NextMaps, RInvInductive, PTL DEF Spec
<1> QED
  BY <1>1 DEF ImplementsRegistry, Registry!Spec
=============================================================================
