-------------------------- MODULE EventManagerProofs --------------------------
(***************************************************************************)
(* Proofs about EventManager, for every capacity, every set of descriptors *)
(* and every client.                                                       *)
(***************************************************************************)
EXTENDS EventManager, FiniteSetTheorems, TLAPS

(***************************************************************************)
(* Facts about the elements of the table.                                  *)
(***************************************************************************)

\* The scan for the first element that satisfies a condition finds one.
LEMMA LeastProperties ==
    ASSUME NEW S \in SUBSET Nat, S # {}
    PROVE  Least(S) \in S /\ \A j \in S : Least(S) <= j
<1> DEFINE R == OpToRel(<, Nat)
<1>1. IsWellFoundedOn(R, Nat)
  BY NatLessThanWellFounded
<1> HIDE DEF R
<1>2. \E x \in S : \A y \in S : ~(<<y, x>> \in R)
  BY <1>1, WFMin
<1>3. \A x, y \in Nat : ~(<<y, x>> \in R) => x <= y
  BY DEF R, OpToRel
<1>4. \E x \in S : \A y \in S : x <= y
  BY <1>2, <1>3
<1> QED
  BY <1>4 DEF Least


\* What holds of the table between any two calls.
Good(m) ==
    /\ TableType(m)
    /\ ArraysAgree(m) /\ OneSlotPerFd(m) /\ UsedComplete(m) /\ UnusedClean(m)

\* The elements in use are finitely many and all lie below max_idx.
LEMMA UsedFinite ==
    ASSUME NEW m, Good(m)
    PROVE  /\ Used(m) \subseteq 0 .. (m.max_idx - 1)
           /\ IsFiniteSet(Used(m))
           /\ Cardinality(Used(m)) \in Nat
<1>1. m.max_idx \in Nat
  BY DEF Good, TableType
<1>2. Used(m) \subseteq 0 .. (m.max_idx - 1)
  BY DEF Used, Scanned
<1>3. IsFiniteSet(0 .. (m.max_idx - 1))
  BY <1>1, FS_Interval
<1>4. IsFiniteSet(Used(m))
  BY <1>2, <1>3, FS_Subset
<1> QED
  BY <1>2, <1>4, FS_CardinalityType

\* get_idx_from_fd finds the one element that names the descriptor.
LEMMA GetIdx ==
    ASSUME NEW m, Good(m), NEW efd \in Fds
    PROVE  /\ get_idx_from_fd(m, efd) # -1 =>
                /\ get_idx_from_fd(m, efd) \in Used(m)
                /\ m.pfds[get_idx_from_fd(m, efd)].fd = efd
           /\ get_idx_from_fd(m, efd) = -1 => \A i \in Used(m) : m.pfds[i].fd # efd
<1>1. efd \in Nat /\ efd # NoFd
  BY FdsAssumption DEF NoFd
<1>2. CASE SlotsOf(m, efd) = {}
  BY <1>2, <1>1 DEF SlotsOf, Used, get_idx_from_fd
<1>3. CASE SlotsOf(m, efd) # {}
  <2> DEFINE i == Least(SlotsOf(m, efd))
  <2>1. SlotsOf(m, efd) \in SUBSET Nat
    BY DEF SlotsOf, Scanned, Good, TableType
  <2>2. i \in SlotsOf(m, efd)
    BY <1>3, <2>1, LeastProperties
  <2>3. i \in Scanned(m) /\ m.pfds[i].fd = efd
    BY <2>2 DEF SlotsOf
  <2>4. m.events[i].fd = efd
    BY <2>3 DEF Good, ArraysAgree
  <2>5. get_idx_from_fd(m, efd) = i
    BY <1>3, <2>4 DEF get_idx_from_fd
  <2>6. i \in Nat
    BY <2>1, <2>2
  <2> QED
    BY <1>1, <2>3, <2>5, <2>6 DEF Used
<1> QED
  BY <1>2, <1>3

\* The element event_add takes is free and inside the arrays: without holes
\* num_events equals max_idx, so the capacity test also bounds max_idx.
LEMMA InsertIdxFree ==
    ASSUME NEW m, Good(m), CountExact(m), ~AtCapacity(m)
    PROVE  /\ InsertIdx(m) \in Slots /\ InsertIdx(m) \notin Used(m)
           /\ Holes(m) # {} => InsertIdx(m) \in Scanned(m)
           /\ Holes(m) = {} => /\ InsertIdx(m) = m.max_idx
                               /\ m.max_idx < MAX_EVENTS
<1>1. m.max_idx \in Nat /\ m.max_idx <= MAX_EVENTS /\ MAX_EVENTS \in Nat
  BY MaxEventsAssumption DEF Good, TableType
<1>2. CASE Holes(m) # {}
  <2>1. Holes(m) \in SUBSET Nat
    BY DEF Holes, Scanned
  <2>2. InsertIdx(m) \in Holes(m)
    BY <1>2, <2>1, LeastProperties DEF InsertIdx
  <2> QED
    BY <1>1, <1>2, <2>2 DEF Holes, Used, Scanned, Slots
<1>3. CASE Holes(m) = {}
  <2>1. Used(m) = 0 .. (m.max_idx - 1)
    BY <1>3 DEF Holes, Used, Scanned
  <2>2. Cardinality(Used(m)) = m.max_idx
    <3> DEFINE last == m.max_idx - 1
    <3>1. last \in Int /\ 0 \in Int
      BY <1>1
    <3> HIDE DEF last
    <3>2. Cardinality(0 .. last) = IF 0 > last THEN 0 ELSE last - 0 + 1
      BY <3>1, FS_Interval, Zenon
    <3> QED
      BY <1>1, <2>1, <3>1, <3>2 DEF last
  <2>3. m.num_events # MAX_EVENTS
    BY DEF AtCapacity
  <2>4. m.max_idx < MAX_EVENTS
    BY <1>1, <2>2, <2>3 DEF CountExact
  <2> QED
    BY <1>1, <1>3, <2>1, <2>4 DEF InsertIdx, Slots
<1> QED
  BY <1>2, <1>3


-----------------------------------------------------------------------------
(* Every operation keeps the table good and the count exact.               *)

\* event_add's insertion.
LEMMA InsertGood ==
    ASSUME NEW m, Good(m), CountExact(m), ~AtCapacity(m),
           NEW efd \in Fds, NEW events \in PollMasks,
           NEW data \in Data, NEW callback \in Callbacks,
           \A i \in Used(m) : m.pfds[i].fd # efd
    PROVE  /\ Good(Insert(m, efd, events, data, callback))
           /\ CountExact(Insert(m, efd, events, data, callback))
<1> DEFINE n == Insert(m, efd, events, data, callback)
           i == InsertIdx(m)
<1>1. /\ m \in [pfds : [Slots -> PfdType], events : [Slots -> EventType],
                max_idx : Nat, num_events : Nat]
      /\ m.max_idx <= MAX_EVENTS /\ MAX_EVENTS \in Nat
  BY MaxEventsAssumption DEF Good, TableType
<1>2. /\ i \in Slots /\ i \notin Used(m)
      /\ Holes(m) # {} => i \in Scanned(m)
      /\ Holes(m) = {} => i = m.max_idx /\ m.max_idx < MAX_EVENTS
  BY InsertIdxFree
<1>3. efd \in Nat /\ efd # NoFd
  BY FdsAssumption DEF NoFd
<1>4. /\ n.pfds = [m.pfds EXCEPT ![i] =
                     [fd |-> efd, events |-> events, revents |-> m.pfds[i].revents]]
      /\ n.events = [m.events EXCEPT ![i] =
                     [fd |-> efd, callback |-> callback, data |-> data]]
      /\ n.max_idx = IF Holes(m) = {} THEN m.max_idx + 1 ELSE m.max_idx
      /\ n.num_events = m.num_events + 1
  BY DEF Insert
<1>5. /\ \A j \in Slots : j # i => n.pfds[j] = m.pfds[j] /\ n.events[j] = m.events[j]
      /\ n.pfds[i] = [fd |-> efd, events |-> events, revents |-> m.pfds[i].revents]
      /\ n.events[i] = [fd |-> efd, callback |-> callback, data |-> data]
  BY <1>1, <1>2, <1>4
<1>6. Scanned(n) = Scanned(m) \cup {i} /\ Scanned(n) \subseteq Slots
  BY <1>1, <1>2, <1>4 DEF Scanned, Slots
<1>7. Used(n) = Used(m) \cup {i}
  BY <1>1, <1>2, <1>3, <1>5, <1>6 DEF Used
<1>8. TableType(n)
  <2>1. /\ [fd |-> efd, events |-> events, revents |-> m.pfds[i].revents] \in PfdType
        /\ [fd |-> efd, callback |-> callback, data |-> data] \in EventType
    BY <1>1, <1>2 DEF PfdType, EventType
  <2>2. n.pfds \in [Slots -> PfdType] /\ n.events \in [Slots -> EventType]
    BY <1>1, <1>2, <1>4, <2>1
  <2>3. n.max_idx \in Nat /\ n.num_events \in Nat /\ n.max_idx <= MAX_EVENTS
    BY <1>1, <1>2, <1>4
  <2> QED
    BY <2>2, <2>3 DEF TableType, Insert
<1>9. ArraysAgree(n)
  BY <1>5, <1>6 DEF Good, ArraysAgree
<1>10. OneSlotPerFd(n)
  BY <1>5, <1>6, <1>7 DEF Good, OneSlotPerFd, Used
<1>11. UsedComplete(n)
  BY <1>5, <1>6, <1>7 DEF Good, UsedComplete, Used
<1>12. UnusedClean(n)
  BY <1>5, <1>7 DEF Good, UnusedClean
<1>13. CountExact(n)
  <2>1. Cardinality(Used(m) \cup {i}) = Cardinality(Used(m)) + 1
    BY <1>2, UsedFinite, FS_AddElement
  <2> QED
    BY <1>4, <1>7, <2>1 DEF CountExact
<1> QED
  BY <1>8, <1>9, <1>10, <1>11, <1>12, <1>13 DEF Good

\* event_add.
LEMMA AddGood ==
    ASSUME NEW m, Good(m), CountExact(m), NEW efd \in Fds, NEW events \in PollMasks,
           NEW data \in Data, NEW callback \in Callbacks
    PROVE  LET r == event_add(m, efd, events, data, callback)
           IN  Good(r.mgr) /\ CountExact(r.mgr) /\ r.err \in ProxyCodes
<1> DEFINE r == event_add(m, efd, events, data, callback)
<1>1. \/ r.mgr = m /\ r.err \in {PROXY_ERR, PROXY_MAX_EVENTS}
      \/ /\ r.mgr = Insert(m, efd, events, data, callback) /\ r.err = PROXY_SUCCESS
         /\ get_idx_from_fd(m, efd) = -1 /\ ~AtCapacity(m)
  BY DEF event_add
<1>2. r.err \in ProxyCodes
  BY <1>1 DEF ProxyCodes, PROXY_ERR, PROXY_MAX_EVENTS, PROXY_SUCCESS
<1>3. Good(r.mgr) /\ CountExact(r.mgr)
  <2>1. CASE r.mgr = m
    BY <2>1
  <2>2. CASE /\ r.mgr = Insert(m, efd, events, data, callback)
             /\ get_idx_from_fd(m, efd) = -1 /\ ~AtCapacity(m)
    <3>1. \A i \in Used(m) : m.pfds[i].fd # efd
      BY <2>2, GetIdx
    <3> QED
      BY <2>2, <3>1, InsertGood
  <2> QED
    BY <1>1, <2>1, <2>2
<1> QED
  BY <1>2, <1>3

\* event_modify.
LEMMA ModifyGood ==
    ASSUME NEW m, Good(m), CountExact(m), NEW efd \in Fds, NEW events \in PollMasks
    PROVE  LET r == event_modify(m, efd, events)
           IN  Good(r.mgr) /\ CountExact(r.mgr) /\ r.err \in ProxyCodes
<1> DEFINE r == event_modify(m, efd, events)
           n == r.mgr
           i == get_idx_from_fd(m, efd)
<1>1. m \in [pfds : [Slots -> PfdType], events : [Slots -> EventType],
             max_idx : Nat, num_events : Nat]
  BY DEF Good, TableType
<1>2. \/ n = m /\ r.err = PROXY_ERR
      \/ /\ i # -1 /\ r.err = PROXY_SUCCESS
         /\ n = [m EXCEPT !.pfds = [m.pfds EXCEPT ![i] = ModifiedPfd(m.pfds[i], events)]]
  BY DEF event_modify
<1>3. r.err \in ProxyCodes
  BY <1>2 DEF ProxyCodes, PROXY_ERR, PROXY_MAX_EVENTS, PROXY_SUCCESS
<1>4. CASE n = m
  BY <1>3, <1>4
<1>5. CASE /\ i # -1
           /\ n = [m EXCEPT !.pfds = [m.pfds EXCEPT ![i] = ModifiedPfd(m.pfds[i], events)]]
  <2>1. i \in Used(m) /\ m.pfds[i].fd = efd
    BY <1>5, GetIdx
  <2>2. Used(m) \subseteq Scanned(m) /\ Scanned(m) \subseteq Slots
    BY <1>1, MaxEventsAssumption DEF Used, Scanned, Slots, Good, TableType
  <2>3. /\ n.pfds = [m.pfds EXCEPT ![i] = ModifiedPfd(m.pfds[i], events)]
        /\ n.events = m.events /\ n.max_idx = m.max_idx /\ n.num_events = m.num_events
    BY <1>1, <1>5
  <2>4. /\ \A j \in Slots : j # i => n.pfds[j] = m.pfds[j]
        /\ n.pfds[i] = [fd |-> efd, events |-> events, revents |-> {}]
    BY <1>1, <2>1, <2>2, <2>3 DEF ModifiedPfd
  <2>5. \A j \in Slots : n.pfds[j].fd = m.pfds[j].fd
    BY <2>1, <2>4
  <2>6. Scanned(n) = Scanned(m) /\ Used(n) = Used(m)
    BY <2>2, <2>3, <2>5 DEF Scanned, Used
  <2>7. TableType(n)
    <3>1. [fd |-> efd, events |-> events, revents |-> {}] \in PfdType
      BY DEF PfdType, PollReports
    <3>2. n.pfds \in [Slots -> PfdType]
      BY <1>1, <2>3, <3>1, <2>1 DEF ModifiedPfd
    <3> QED
      BY <1>1, <1>5, <2>3, <3>2 DEF TableType, Good
  <2>8. ArraysAgree(n) /\ OneSlotPerFd(n) /\ UsedComplete(n)
    BY <2>2, <2>3, <2>5, <2>6 DEF Good, ArraysAgree, OneSlotPerFd, UsedComplete
  <2>9. UnusedClean(n) /\ CountExact(n)
    BY <2>1, <2>3, <2>4, <2>6 DEF Good, UnusedClean, CountExact
  <2> QED
    BY <1>3, <2>7, <2>8, <2>9 DEF Good
<1> QED
  BY <1>2, <1>4, <1>5

\* event_remove.
LEMMA RemoveGood ==
    ASSUME NEW m, Good(m), CountExact(m), NEW efd \in Fds
    PROVE  LET r == event_remove(m, efd)
           IN  Good(r.mgr) /\ CountExact(r.mgr) /\ r.err \in ProxyCodes
<1> DEFINE r == event_remove(m, efd)
           n == r.mgr
           i == get_idx_from_fd(m, efd)
<1>1. /\ m \in [pfds : [Slots -> PfdType], events : [Slots -> EventType],
                max_idx : Nat, num_events : Nat]
      /\ m.max_idx <= MAX_EVENTS /\ MAX_EVENTS \in Nat
  BY MaxEventsAssumption DEF Good, TableType
<1>2. \/ n = m /\ r.err = PROXY_ERR
      \/ /\ i # -1 /\ r.err = PROXY_SUCCESS
         /\ n = [pfds |-> [m.pfds EXCEPT ![i] = RemovedPfd(m.pfds[i])],
                 events |-> [m.events EXCEPT ![i] =
                               [fd |-> NoFd, callback |-> NULL, data |-> NULL]],
                 max_idx |-> IF i = m.max_idx - 1 THEN m.max_idx - 1 ELSE m.max_idx,
                 num_events |-> m.num_events - 1]
  BY DEF event_remove
<1>3. r.err \in ProxyCodes
  BY <1>2 DEF ProxyCodes, PROXY_ERR, PROXY_MAX_EVENTS, PROXY_SUCCESS
<1>4. CASE n = m
  BY <1>3, <1>4
<1>5. CASE /\ i # -1
           /\ n = [pfds |-> [m.pfds EXCEPT ![i] = RemovedPfd(m.pfds[i])],
                   events |-> [m.events EXCEPT ![i] =
                                 [fd |-> NoFd, callback |-> NULL, data |-> NULL]],
                   max_idx |-> IF i = m.max_idx - 1 THEN m.max_idx - 1 ELSE m.max_idx,
                   num_events |-> m.num_events - 1]
  <2>1. i \in Used(m)
    BY <1>5, GetIdx
  <2>2. Used(m) \subseteq Scanned(m) /\ Scanned(m) \subseteq Slots
    BY <1>1 DEF Used, Scanned, Slots
  <2>3. /\ n.pfds = [m.pfds EXCEPT ![i] = RemovedPfd(m.pfds[i])]
        /\ n.events = [m.events EXCEPT ![i] =
                         [fd |-> NoFd, callback |-> NULL, data |-> NULL]]
        /\ n.max_idx = IF i = m.max_idx - 1 THEN m.max_idx - 1 ELSE m.max_idx
        /\ n.num_events = m.num_events - 1
    BY <1>5
  <2>4. /\ \A j \in Slots : j # i => n.pfds[j] = m.pfds[j] /\ n.events[j] = m.events[j]
        /\ n.pfds[i] = [fd |-> NoFd, events |-> {}, revents |-> {}]
        /\ n.events[i] = [fd |-> NoFd, callback |-> NULL, data |-> NULL]
    BY <1>1, <2>1, <2>2, <2>3 DEF RemovedPfd
  <2>5. /\ Scanned(n) \subseteq Scanned(m)
        /\ Scanned(m) \ {i} \subseteq Scanned(n)
    BY <1>1, <2>1, <2>2, <2>3 DEF Scanned
  <2>6. Used(n) = Used(m) \ {i}
    BY <2>1, <2>2, <2>4, <2>5 DEF Used
  <2>7. m.num_events >= 1 /\ Cardinality(Used(m) \ {i}) = m.num_events - 1
    <3>1. /\ IsFiniteSet(Used(m) \ {i})
          /\ Cardinality(Used(m) \ {i}) = Cardinality(Used(m)) - 1
      BY <2>1, UsedFinite, FS_RemoveElement
    <3>2. Cardinality(Used(m) \ {i}) \in Nat
      BY <3>1, FS_CardinalityType
    <3> QED
      BY <1>1, <3>1, <3>2 DEF CountExact
  <2>8. TableType(n)
    <3>1. /\ [fd |-> NoFd, events |-> {}, revents |-> {}] \in PfdType
          /\ [fd |-> NoFd, callback |-> NULL, data |-> NULL] \in EventType
      BY DEF PfdType, EventType, PollReports, PollMasks
    <3>2. n.pfds \in [Slots -> PfdType] /\ n.events \in [Slots -> EventType]
      BY <1>1, <2>1, <2>2, <2>3, <3>1 DEF RemovedPfd
    <3>3. n.max_idx \in Nat /\ n.max_idx <= MAX_EVENTS /\ n.num_events \in Nat
      BY <1>1, <2>1, <2>2, <2>3, <2>7 DEF Scanned
    <3> QED
      BY <1>5, <3>2, <3>3 DEF TableType
  <2>9. ArraysAgree(n) /\ OneSlotPerFd(n) /\ UsedComplete(n)
    BY <2>2, <2>4, <2>5, <2>6 DEF Good, ArraysAgree, OneSlotPerFd, UsedComplete
  <2>10. UnusedClean(n)
    BY <2>4, <2>6 DEF Good, UnusedClean
  <2>11. CountExact(n)
    BY <2>3, <2>6, <2>7 DEF CountExact
  <2> QED
    BY <1>3, <2>8, <2>9, <2>10, <2>11 DEF Good
<1> QED
  BY <1>2, <1>4, <1>5

\* poll() writes revents of elements in use only.
LEMMA FillGood ==
    ASSUME NEW m, Good(m), NEW report \in [Fds -> Reports]
    PROVE  /\ Good(FillReports(m, report))
           /\ CountExact(m) => CountExact(FillReports(m, report))
<1> DEFINE n == FillReports(m, report)
<1>1. /\ m \in [pfds : [Slots -> PfdType], events : [Slots -> EventType],
                max_idx : Nat, num_events : Nat]
      /\ m.max_idx <= MAX_EVENTS /\ MAX_EVENTS \in Nat
  BY MaxEventsAssumption DEF Good, TableType
<1>2. Used(m) \subseteq Scanned(m) /\ Scanned(m) \subseteq Slots
  BY <1>1 DEF Used, Scanned, Slots
<1>3. /\ n.pfds = [i \in Slots |->
           IF i \in Scanned(m)
             THEN [fd |-> m.pfds[i].fd, events |-> m.pfds[i].events,
                   revents |-> IF m.pfds[i].fd = NoFd THEN {} ELSE report[m.pfds[i].fd]]
           ELSE m.pfds[i]]
      /\ n.events = m.events /\ n.max_idx = m.max_idx /\ n.num_events = m.num_events
  BY <1>1 DEF FillReports
<1>4. \A i \in Slots : n.pfds[i].fd = m.pfds[i].fd
  BY <1>3
<1>5. Scanned(n) = Scanned(m) /\ Used(n) = Used(m)
  BY <1>2, <1>3, <1>4 DEF Scanned, Used
<1>6. \A i \in Used(m) : report[m.pfds[i].fd] \in PollReports
  BY ClientAssumption DEF Good, UsedComplete
<1>7. \A i \in Slots : n.pfds[i] \in PfdType
  <2> SUFFICES ASSUME NEW i \in Slots PROVE n.pfds[i] \in PfdType
    OBVIOUS
  <2>1. CASE i \in Used(m)
    BY <1>1, <1>2, <1>3, <1>6, <2>1 DEF PfdType, Used
  <2>2. CASE i \in Scanned(m) \ Used(m)
    BY <1>1, <1>3, <2>2 DEF PfdType, Used, PollReports
  <2>3. CASE i \notin Scanned(m)
    BY <1>1, <1>3, <2>3
  <2> QED
    BY <2>1, <2>2, <2>3
<1>8. TableType(n)
  <2>1. n.pfds \in [Slots -> PfdType]
    BY <1>3, <1>7
  <2> QED
    BY <1>1, <1>3, <2>1 DEF TableType, FillReports
<1>9. ArraysAgree(n) /\ OneSlotPerFd(n) /\ UsedComplete(n)
  BY <1>2, <1>3, <1>4, <1>5 DEF Good, ArraysAgree, OneSlotPerFd, UsedComplete
<1>10. UnusedClean(n)
  BY <1>3, <1>5 DEF Good, UnusedClean, Used
<1>11. CountExact(m) => CountExact(n)
  BY <1>3, <1>5 DEF CountExact
<1> QED
  BY <1>8, <1>9, <1>10, <1>11 DEF Good

\* event_teardown.
LEMMA ClearGood ==
    ASSUME NEW m, Good(m)
    PROVE  Good(ClearTable(m))
<1> DEFINE n == ClearTable(m)
<1>1. m \in [pfds : [Slots -> PfdType], events : [Slots -> EventType],
             max_idx : Nat, num_events : Nat]
  BY DEF Good, TableType
<1>2. Scanned(m) \subseteq Slots
  BY <1>1, MaxEventsAssumption DEF Scanned, Slots, Good, TableType
<1>3. /\ n.pfds = [i \in Slots |-> IF i \in Scanned(m)
                     THEN [fd |-> NoFd, events |-> {}, revents |-> {}] ELSE m.pfds[i]]
      /\ n.events = [i \in Slots |-> IF i \in Scanned(m)
                     THEN [fd |-> NoFd, callback |-> NULL, data |-> NULL] ELSE m.events[i]]
      /\ n.max_idx = m.max_idx /\ n.num_events = m.num_events
  BY <1>1 DEF ClearTable
<1>4. Scanned(n) = Scanned(m) /\ Used(n) = {}
  BY <1>2, <1>3 DEF Scanned, Used
<1>5. /\ [fd |-> NoFd, events |-> {}, revents |-> {}] \in PfdType
      /\ [fd |-> NoFd, callback |-> NULL, data |-> NULL] \in EventType
  BY DEF PfdType, EventType, PollReports, PollMasks
<1>6. n.pfds \in [Slots -> PfdType] /\ n.events \in [Slots -> EventType]
  BY <1>1, <1>3, <1>5
<1>7. TableType(n)
  BY <1>1, <1>3, <1>6 DEF TableType, ClearTable, Good
<1>8. ArraysAgree(n) /\ OneSlotPerFd(n) /\ UsedComplete(n)
  BY <1>2, <1>3, <1>4 DEF ArraysAgree, OneSlotPerFd, UsedComplete
<1>9. UnusedClean(n)
  BY <1>3, <1>4 DEF Good, UnusedClean, Used
<1> QED
  BY <1>7, <1>8, <1>9 DEF Good

-----------------------------------------------------------------------------
(* The inductive invariant.                                                *)

\* The three invariants are inductive together: the capacity test of event_add
\* keeps max_idx inside the arrays only because the count is exact, and the
\* count stays exact only because no descriptor has two elements.
IInv == TypeOK /\ TableCoherent /\ CapacityExact

\* The invariant says of the table of event.c what the lemmas above need.
LEMMA IInvGood == ASSUME IInv PROVE Good(mgr) /\ (pc # "done" => CountExact(mgr))
BY DEF IInv, TypeOK, TableCoherent, CapacityExact, Good

\* It holds of the zero-initialised g_mgr.
LEMMA InitIInv == Init => IInv
<1> SUFFICES ASSUME Init PROVE IInv
  OBVIOUS
<1> USE DEF Init, LoopInit, EmptyTable
<1>1. Scanned(mgr) = {} /\ Used(mgr) = {}
  BY DEF Scanned, Used
<1>2. TableType(mgr)
  BY MaxEventsAssumption DEF TableType, PfdType, EventType, PollMasks, PollReports
<1>3. CountExact(mgr)
  BY <1>1, FS_EmptySet DEF CountExact
<1>4. TableCoherent
  BY <1>1 DEF TableCoherent, ArraysAgree, OneSlotPerFd, UsedComplete, UnusedClean
<1>5. TypeOK
  BY <1>2 DEF TypeOK, ProxyCodes, PROXY_MAX_EVENTS, PROXY_SUCCESS
<1> QED
  BY <1>3, <1>4, <1>5 DEF IInv, CapacityExact

\* A client's call on the table.
LEMMA ApplyIInv ==
    ASSUME IInv, NEW result, Apply(result),
           Good(result.mgr), CountExact(result.mgr), result.err \in ProxyCodes
    PROVE  IInv'
BY DEF IInv, Apply, Good, TypeOK, TableCoherent, CapacityExact

\* The code a callback returned.
LEMMA NextSlotType ==
    ASSUME IInv, NEW err \in ProxyCodes, NextSlot(err)
    PROVE  idx' \in Nat /\ ret' \in ProxyCodes /\ pc' \in {"dispatch", "returned"}
BY DEF IInv, TypeOK, NextSlot

\* handle_event finds the element of the descriptor it looks at.
LEMMA DispatchIdx ==
    ASSUME IInv, Dispatching
    PROVE  EventIdx \in Used(mgr) /\ idx \in Used(mgr)
<1>1. idx \in Used(mgr)
  BY DEF Dispatching, Used
<1>2. mgr.pfds[idx].fd \in Fds
  BY <1>1, IInvGood DEF Good, UsedComplete
<1>3. EventIdx \in Used(mgr)
  BY <1>2, IInvGood, GetIdx DEF Dispatching, EventIdx
<1> QED
  BY <1>1, <1>3

\* One step of the client or of the loop keeps the invariant.
LEMMA NextIInv == IInv /\ [Next]_vars => IInv'
<1> SUFFICES ASSUME IInv, [Next]_vars PROVE IInv'
  OBVIOUS
<1>0. /\ Good(mgr) /\ (pc # "done" => CountExact(mgr))
      /\ idx \in Nat /\ call \in CallType \cup {NULL} /\ res \in ProxyCodes
      /\ ret \in ProxyCodes /\ run_flag \in BOOLEAN
  BY IInvGood DEF IInv, TypeOK
<1>c. {PROXY_SUCCESS, PROXY_ERR, PROXY_INTR} \subseteq ProxyCodes
  BY DEF ProxyCodes, PROXY_MAX_EVENTS, PROXY_SUCCESS, PROXY_ERR, PROXY_INTR
<1>1. ASSUME NEW fd \in Fds, NEW m \in Masks, NEW d \in Data, NEW c \in Callbacks,
             Add(fd, m, d, c)
      PROVE  IInv'
  <2>1. m \in PollMasks /\ CountExact(mgr)
    BY <1>0, <1>1, ClientAssumption DEF Add, Apply, ClientRuns
  <2> QED
    BY <1>0, <1>1, <2>1, AddGood, ApplyIInv DEF Add
<1>2. ASSUME NEW fd \in Fds, NEW m \in Masks, Modify(fd, m)
      PROVE  IInv'
  <2>1. m \in PollMasks /\ CountExact(mgr)
    BY <1>0, <1>2, ClientAssumption DEF Modify, Apply, ClientRuns
  <2> QED
    BY <1>0, <1>2, <2>1, ModifyGood, ApplyIInv DEF Modify
<1>3. ASSUME NEW fd \in Fds, Remove(fd)
      PROVE  IInv'
  <2>1. CountExact(mgr)
    BY <1>0, <1>3 DEF Remove, Apply, ClientRuns
  <2> QED
    BY <1>0, <1>3, <2>1, RemoveGood, ApplyIInv DEF Remove
<1>4. CASE StartLoop
  BY <1>4 DEF StartLoop, IInv, TypeOK, TableCoherent, CapacityExact
<1>5. CASE Poll
  <2>1. PICK report \in [Fds -> Reports] : PollReturns(report)
    BY <1>5 DEF Poll
  <2>2. Good(mgr') /\ CountExact(mgr')
    BY <1>0, <2>1, FillGood DEF PollReturns
  <2>3. /\ pc' = "dispatch" /\ idx' = 0 /\ run_flag' = run_flag
        /\ ret' = ret /\ call' = call /\ res' = res
    BY <1>5, <2>1 DEF Poll, PollReturns
  <2> QED
    BY <1>0, <2>2, <2>3 DEF IInv, Good, TypeOK, TableCoherent, CapacityExact
<1>6. CASE Invoke
  <2>1. EventIdx \in Used(mgr) /\ idx \in Used(mgr)
    BY <1>6, DispatchIdx DEF Invoke
  <2>2. Used(mgr) \subseteq Slots
    BY <1>0, MaxEventsAssumption DEF Used, Scanned, Slots, Good, TableType
  <2>3. /\ mgr.events[EventIdx].callback \in Callbacks /\ mgr.events[EventIdx].data \in Data
        /\ mgr.pfds[EventIdx].fd \in Fds /\ mgr.events[EventIdx].fd = mgr.pfds[EventIdx].fd
    BY <1>0, <2>1 DEF Good, UsedComplete, ArraysAgree, Used
  <2>4. mgr.pfds[idx].revents \in PollReports
    BY <1>0, <2>1, <2>2 DEF Good, TableType, PfdType
  <2>5. call' \in CallType
    BY <1>6, <2>3, <2>4 DEF Invoke, CallType
  <2>6. pc' = "callback" /\ UNCHANGED <<mgr, idx, run_flag, ret, res>>
    BY <1>6 DEF Invoke
  <2>7. pc # "done"
    BY <1>6 DEF Invoke, Dispatching
  <2> QED
    BY <1>0, <2>5, <2>6, <2>7 DEF IInv, TypeOK, TableCoherent, CapacityExact
<1>7. ASSUME NEW err \in {PROXY_SUCCESS, PROXY_ERR}, CallbackReturns(err)
      PROVE  IInv'
  <2>1. idx' \in Nat /\ ret' \in ProxyCodes /\ pc' \in {"dispatch", "returned"}
    BY <1>c, <1>7, NextSlotType DEF CallbackReturns
  <2>2. call' = NULL /\ mgr' = mgr /\ run_flag' = run_flag /\ res' = res /\ pc # "done"
    BY <1>7 DEF CallbackReturns
  <2> QED
    BY <1>0, <2>1, <2>2 DEF IInv, TypeOK, TableCoherent, CapacityExact
<1>8. CASE LoopStep /\ UNCHANGED <<call, res>>
  <2>1. /\ mgr' = mgr /\ pc # "done" /\ run_flag' \in BOOLEAN
        /\ idx' \in Nat /\ ret' \in ProxyCodes
        /\ pc' \in {"setup", "check", "poll", "dispatch", "callback", "returned"}
    <3>1. CASE CheckFlag
      BY <1>0, <1>c, <3>1 DEF CheckFlag
    <3>2. CASE Signal
      BY <1>0, <1>c, <3>2 DEF Signal, IInv, TypeOK
    <3>3. CASE PollInterrupted
      BY <1>0, <1>c, <3>3 DEF PollInterrupted
    <3>4. CASE PollFails
      BY <1>0, <1>c, <3>4 DEF PollFails
    <3>5. CASE SkipSlot
      <4>1. PICK err \in {PROXY_SUCCESS, PROXY_ERR} : NextSlot(err)
        BY <3>5 DEF SkipSlot
      <4> QED
        BY <1>0, <1>c, <3>5, <4>1, NextSlotType DEF SkipSlot
    <3>6. CASE EndRound
      BY <1>0, <1>c, <3>6 DEF EndRound
    <3> QED
      BY <1>8, <3>1, <3>2, <3>3, <3>4, <3>5, <3>6 DEF LoopStep
  <2> QED
    BY <1>0, <1>8, <2>1 DEF IInv, TypeOK, TableCoherent, CapacityExact
<1>9. CASE event_teardown
  <2>1. Good(mgr')
    BY <1>0, <1>9, ClearGood DEF event_teardown
  <2>2. pc' = "done" /\ UNCHANGED <<idx, run_flag, ret, call, res>>
    BY <1>9 DEF event_teardown
  <2> QED
    BY <1>0, <2>1, <2>2 DEF IInv, Good, TypeOK, TableCoherent, CapacityExact
<1>10. CASE UNCHANGED vars
  BY <1>10 DEF vars, loopVars, IInv, TypeOK, TableCoherent, CapacityExact
<1> QED
  BY <1>1, <1>2, <1>3, <1>4, <1>5, <1>6, <1>7, <1>8, <1>9, <1>10 DEF Next

-----------------------------------------------------------------------------
(* The theorems.                                                           *)

\* The strengthened invariant holds in every reachable state.
THEOREM Inductive == Spec => []IInv
BY InitIInv, NextIInv, PTL DEF Spec

\* Type correctness of event.c; in particular event_add never writes outside
\* its two arrays, whatever the capacity.
THEOREM TypeCorrect == Spec => []TypeOK
<1>1. IInv => TypeOK
  BY DEF IInv
<1> QED
  BY <1>1, Inductive, PTL

\* The pollfd array and the event array stay coherent under every sequence of
\* calls a callback can make in the middle of the loop.
THEOREM Coherent == Spec => []TableCoherent
<1>1. IInv => TableCoherent
  BY DEF IInv
<1> QED
  BY <1>1, Inductive, PTL

\* num_events is the number of elements in use until the table is torn down,
\* so event_add refuses exactly when MAX_EVENTS descriptors are registered.
THEOREM Capacity == Spec => []CapacityExact
<1>1. IInv => CapacityExact
  BY DEF IInv
<1> QED
  BY <1>1, Inductive, PTL
=============================================================================
