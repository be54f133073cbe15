-------------------------- MODULE ProxyTableProofs --------------------------
(***************************************************************************)
(* The event table as src/proxy.c uses it, seen by descriptor: which       *)
(* descriptors are watched, for what, with which callback and for which    *)
(* connection, and what event_add, event_modify, event_remove and poll()   *)
(* do to that view.  The proofs about Proxy reason with it and never look  *)
(* at elements, holes and max_idx again.                                   *)
(***************************************************************************)
EXTENDS ProxyProperties, FiniteSetTheorems, TLAPS

Handlers == {"accept_callback", "pending_connect_callback", "handshake_callback",
             "conn_callback"}

PfdType == [fd : Nat \cup {NoFd}, events : PollMasks, revents : PollReports]
EventType == [fd : Nat \cup {NoFd}, callback : Handlers \cup {NULL},
              data : ConnIds \cup {NULL}]
TableType == [pfds : [Slots -> PfdType], events : [Slots -> EventType],
              max_idx : 0 .. MAX_EVENTS, num_events : Nat]

\* The elements in use, and what holds of the table between any two calls.
Used(m) == {i \in Scanned(m) : m.pfds[i].fd # NoFd}
Sound(m) ==
    /\ m \in TableType
    /\ \A i \in Scanned(m) : m.pfds[i].fd = m.events[i].fd
    /\ \A i, j \in Used(m) : m.pfds[i].fd = m.pfds[j].fd => i = j
    /\ \A i \in Slots \ Used(m) : m.pfds[i].revents = {}
    /\ \A i \in Scanned(m) \ Used(m) : m.events[i].data = NULL
    /\ m.num_events = Cardinality(Used(m))

\* The view by descriptor.
Watched(m) == {m.pfds[i].fd : i \in Used(m)}
MaskAt(m, f) == m.pfds[get_idx_from_fd(m, f)].events
HandlerAt(m, f) == m.events[get_idx_from_fd(m, f)].callback
DataAt(m, f) == m.events[get_idx_from_fd(m, f)].data

\* Two tables say the same of descriptor f.
Same(m, n, f) ==
    /\ f \in Watched(n) <=> f \in Watched(m)
    /\ f \in Watched(m) => /\ MaskAt(n, f) = MaskAt(m, f)
                           /\ HandlerAt(n, f) = HandlerAt(m, f)
                           /\ DataAt(n, f) = DataAt(m, f)

\* Every element in use for another descriptor than f stays as it is.
KeepsSlots(m, n, f) ==
    \A i \in Used(m) : m.pfds[i].fd # f =>
      i \in Used(n) /\ n.pfds[i] = m.pfds[i] /\ n.events[i] = m.events[i]

-----------------------------------------------------------------------------
(* Elements and descriptors.                                               *)

\* A non-empty set of numbers has a least member.
LEMMA LeastProperties ==
    ASSUME NEW S \in SUBSET Nat, S # {}
    PROVE  Least(S) \in S /\ \A j \in S : Least(S) <= j
<1> DEFINE R == OpToRel(<, Nat)
<1>1. IsWellFoundedOn(R, Nat)
  BY NatLessThanWellFounded
<1> HIDE DEF R
<1>2. \E x \in S : \A y \in S : ~(<<y, x>> \in R)
  BY <1>1, WFMin
<1>3. \A x, y \in Nat : ~(<<y, x>> \in R) => x <= y
  BY DEF R, OpToRel
<1>4. \E x \in S : \A y \in S : x <= y
  BY <1>2, <1>3
<1> QED
  BY <1>4 DEF Least

\* The elements in use are elements of the arrays, and finitely many.
LEMMA UsedFinite ==
    ASSUME NEW m, Sound(m)
    PROVE  /\ m \in TableType /\ m.max_idx \in Nat /\ m.max_idx <= MAX_EVENTS
           /\ MAX_EVENTS \in Nat
           /\ Used(m) \subseteq Scanned(m) /\ Scanned(m) \subseteq Slots
           /\ Scanned(m) \subseteq Nat
           /\ IsFiniteSet(Used(m)) /\ Cardinality(Used(m)) \in Nat
<1>1. m \in TableType /\ m.max_idx \in Nat /\ m.max_idx <= MAX_EVENTS /\ MAX_EVENTS \in Nat
  BY MaxEventsAssumption DEF Sound, TableType
<1>2. /\ Used(m) \subseteq Scanned(m) /\ Scanned(m) \subseteq Slots
      /\ Scanned(m) \subseteq Nat
  BY <1>1 DEF Used, Scanned, Slots
<1>3. IsFiniteSet(0 .. (m.max_idx - 1))
  BY <1>1, FS_Interval
<1>4. IsFiniteSet(Used(m))
  BY <1>2, <1>3, FS_Subset DEF Scanned
<1> QED
  BY <1>1, <1>2, <1>4, FS_CardinalityType

\* Neither counter of a sound table leaves its range.
LEMMA SoundBounds ==
    ASSUME NEW m, Sound(m)
    PROVE  m.max_idx \in 0 .. MAX_EVENTS /\ m.num_events \in 0 .. MAX_EVENTS
<1>1. /\ m.max_idx \in Nat /\ m.max_idx <= MAX_EVENTS /\ MAX_EVENTS \in Nat
      /\ Used(m) \subseteq 0 .. (m.max_idx - 1) /\ Cardinality(Used(m)) \in Nat
  BY UsedFinite DEF Scanned
<1>2. IsFiniteSet(0 .. (m.max_idx - 1))
  BY <1>1, FS_Interval, SMTT(40)
<1>3. Cardinality(Used(m)) <= Cardinality(0 .. (m.max_idx - 1))
  BY <1>1, <1>2, FS_Subset
<1>4. Cardinality(0 .. (m.max_idx - 1)) = m.max_idx
  <2> DEFINE last == m.max_idx - 1
  <2>1. last \in Int /\ 0 \in Int
    BY <1>1
  <2> HIDE DEF last
  <2>2. Cardinality(0 .. last) = IF 0 > last THEN 0 ELSE last - 0 + 1
    BY <2>1, FS_Interval, Zenon
  <2> QED
    BY <1>1, <2>1, <2>2 DEF last
<1> QED
  BY <1>1, <1>3, <1>4 DEF Sound

\* get_idx_from_fd finds the one element of a watched descriptor.
LEMMA SlotOfFd ==
    ASSUME NEW m, Sound(m), NEW f \in Nat
    PROVE  /\ f \in Watched(m) => /\ get_idx_from_fd(m, f) \in Used(m)
                                  /\ get_idx_from_fd(m, f) # -1
                                  /\ m.pfds[get_idx_from_fd(m, f)].fd = f
           /\ f \notin Watched(m) => get_idx_from_fd(m, f) = -1
<1>1. f # NoFd
  BY DEF NoFd
<1>2. CASE SlotsOf(m, f) = {}
  BY <1>1, <1>2 DEF SlotsOf, Used, Watched, get_idx_from_fd
<1>3. CASE SlotsOf(m, f) # {}
  <2> DEFINE i == Least(SlotsOf(m, f))
  <2>1. SlotsOf(m, f) \in SUBSET Nat
    BY UsedFinite DEF SlotsOf
  <2>2. i \in SlotsOf(m, f)
    BY <1>3, <2>1, LeastProperties
  <2>3. i \in Scanned(m) /\ m.pfds[i].fd = f
    BY <2>2 DEF SlotsOf
  <2>4. m.events[i].fd = f
    BY <2>3 DEF Sound
  <2>5. get_idx_from_fd(m, f) = i
    BY <1>3, <2>4 DEF get_idx_from_fd
  <2>6. i \in Nat
    BY <2>1, <2>2
  <2> QED
    BY <1>1, <2>3, <2>5, <2>6 DEF Used, Watched
<1> QED
  BY <1>2, <1>3

\* The element of a descriptor is the only one that names it.
LEMMA SlotIs ==
    ASSUME NEW m, Sound(m), NEW i \in Used(m)
    PROVE  /\ m.pfds[i].fd \in Nat /\ m.pfds[i].fd \in Watched(m)
           /\ get_idx_from_fd(m, m.pfds[i].fd) = i
<1>1. m.pfds[i].fd \in Nat /\ m.pfds[i].fd \in Watched(m)
  BY UsedFinite DEF TableType, PfdType, Used, Watched
<1> QED
  BY <1>1, SlotOfFd DEF Sound

\* Watched descriptors are descriptors, and a watched element is typed.
LEMMA WatchedTyped ==
    ASSUME NEW m, Sound(m), NEW f \in Watched(m)
    PROVE  /\ f \in Nat /\ MaskAt(m, f) \in PollMasks
           /\ HandlerAt(m, f) \in Handlers \cup {NULL}
           /\ DataAt(m, f) \in ConnIds \cup {NULL}
<1>1. f \in Nat
  BY SlotIs DEF Watched
<1>2. get_idx_from_fd(m, f) \in Slots
  BY <1>1, SlotOfFd, UsedFinite
<1> QED
  BY <1>1, <1>2, UsedFinite DEF TableType, PfdType, EventType, MaskAt, HandlerAt, DataAt

\* Where the elements of other descriptors stay, so does what is said of them.
LEMMA FromSlots ==
    ASSUME NEW m, NEW n, Sound(m), Sound(n), NEW f,
           KeepsSlots(m, n, f), Watched(n) \subseteq Watched(m) \cup {f}
    PROVE  \A g \in Nat : g # f => Same(m, n, g)
<1> SUFFICES ASSUME NEW g \in Nat, g # f
             PROVE  Same(m, n, g)
  OBVIOUS
<1>1. CASE g \notin Watched(m)
  BY <1>1 DEF Same
<1>2. CASE g \in Watched(m)
  <2> DEFINE i == get_idx_from_fd(m, g)
  <2>1. i \in Used(m) /\ m.pfds[i].fd = g
    BY <1>2, SlotOfFd
  <2>2. i \in Used(n) /\ n.pfds[i] = m.pfds[i] /\ n.events[i] = m.events[i]
    BY <2>1 DEF KeepsSlots
  <2>3. g \in Watched(n) /\ get_idx_from_fd(n, g) = i
    BY <2>1, <2>2, SlotIs
  <2> QED
    BY <1>2, <2>2, <2>3 DEF Same, MaskAt, HandlerAt, DataAt
<1> QED
  BY <1>1, <1>2

\* The element event_add takes is free and inside the arrays: without holes
\* num_events equals max_idx, so the capacity test also bounds max_idx.
LEMMA InsertIdxFree ==
    ASSUME NEW m, Sound(m), ~AtCapacity(m)
    PROVE  /\ InsertIdx(m) \in Slots /\ InsertIdx(m) \notin Used(m)
           /\ Holes(m) # {} => InsertIdx(m) \in Scanned(m)
           /\ Holes(m) = {} => InsertIdx(m) = m.max_idx /\ m.max_idx < MAX_EVENTS
<1>1. m.max_idx \in Nat /\ m.max_idx <= MAX_EVENTS /\ MAX_EVENTS \in Nat
  BY UsedFinite
<1>2. CASE Holes(m) # {}
  <2>1. Holes(m) \in SUBSET Nat
    BY DEF Holes, Scanned
  <2>2. InsertIdx(m) \in Holes(m)
    BY <1>2, <2>1, LeastProperties DEF InsertIdx
  <2> QED
    BY <1>1, <1>2, <2>2 DEF Holes, Used, Scanned, Slots
<1>3. CASE Holes(m) = {}
  <2>1. Used(m) = 0 .. (m.max_idx - 1)
    BY <1>3 DEF Holes, Used, Scanned
  <2>2. Cardinality(Used(m)) = m.max_idx
    <3> DEFINE last == m.max_idx - 1
    <3>1. last \in Int /\ 0 \in Int
      BY <1>1
    <3> HIDE DEF last
    <3>2. Cardinality(0 .. last) = IF 0 > last THEN 0 ELSE last - 0 + 1
      BY <3>1, FS_Interval, Zenon
    <3> QED
      BY <1>1, <2>1, <3>1, <3>2 DEF last
  <2>3. m.num_events # MAX_EVENTS
    BY DEF AtCapacity
  <2>4. m.max_idx < MAX_EVENTS
    BY <1>1, <2>2, <2>3 DEF Sound
  <2> QED
    BY <1>1, <1>3, <2>1, <2>4 DEF InsertIdx, Slots
<1> QED
  BY <1>2, <1>3

-----------------------------------------------------------------------------
(* What the operations of src/event.c do to the view.                      *)

\* event_add's insertion.
LEMMA InsertView ==
    ASSUME NEW m, Sound(m), ~AtCapacity(m), NEW f \in Nat, f \notin Watched(m),
           NEW mask \in PollMasks, NEW data \in ConnIds \cup {NULL},
           NEW callback \in Handlers
    PROVE  LET n == Insert(m, f, mask, data, callback)
           IN  /\ Sound(n) /\ KeepsSlots(m, n, f)
               /\ Watched(n) = Watched(m) \cup {f}
               /\ MaskAt(n, f) = mask /\ HandlerAt(n, f) = callback /\ DataAt(n, f) = data
               /\ \A g \in Nat : g # f => Same(m, n, g)
<1> DEFINE n == Insert(m, f, mask, data, callback)
           i == InsertIdx(m)
<1>1. /\ m \in TableType /\ m.max_idx \in Nat /\ m.max_idx <= MAX_EVENTS
      /\ MAX_EVENTS \in Nat
      /\ m.pfds \in [Slots -> PfdType] /\ m.events \in [Slots -> EventType]
      /\ m.num_events \in Nat
  BY UsedFinite DEF TableType
<1>2. /\ i \in Slots /\ i \notin Used(m)
      /\ Holes(m) # {} => i \in Scanned(m)
      /\ Holes(m) = {} => i = m.max_idx /\ m.max_idx < MAX_EVENTS
  BY InsertIdxFree
<1>3. f # NoFd
  BY DEF NoFd
<1>4. /\ n.pfds = [m.pfds EXCEPT ![i] =
                     [fd |-> f, events |-> mask, revents |-> m.pfds[i].revents]]
      /\ n.events = [m.events EXCEPT ![i] =
                     [fd |-> f, callback |-> callback, data |-> data]]
      /\ n.max_idx = IF Holes(m) = {} THEN m.max_idx + 1 ELSE m.max_idx
      /\ n.num_events = m.num_events + 1
  BY DEF Insert
<1>5. /\ \A j \in Slots : j # i => n.pfds[j] = m.pfds[j] /\ n.events[j] = m.events[j]
      /\ n.pfds[i] = [fd |-> f, events |-> mask, revents |-> m.pfds[i].revents]
      /\ n.events[i] = [fd |-> f, callback |-> callback, data |-> data]
  BY <1>1, <1>2, <1>4
<1>6. /\ Scanned(n) = Scanned(m) \cup {i} /\ Scanned(n) \subseteq Slots
      /\ Scanned(m) \subseteq Slots
  BY <1>1, <1>2, <1>4 DEF Scanned, Slots
<1>7. Used(n) = Used(m) \cup {i}
  BY <1>1, <1>2, <1>3, <1>5, <1>6 DEF Used
<1>8. n \in TableType
  <2>1. /\ [fd |-> f, events |-> mask, revents |-> m.pfds[i].revents] \in PfdType
        /\ [fd |-> f, callback |-> callback, data |-> data] \in EventType
    BY <1>1, <1>2 DEF PfdType, EventType
  <2>2. n.pfds \in [Slots -> PfdType] /\ n.events \in [Slots -> EventType]
    BY <1>1, <1>2, <1>4, <2>1
  <2>3. n.max_idx \in 0 .. MAX_EVENTS /\ n.num_events \in Nat
    BY <1>1, <1>2, <1>4
  <2> QED
    BY <2>2, <2>3 DEF TableType, Insert
<1>9. \A j \in Scanned(n) : n.pfds[j].fd = n.events[j].fd
  BY <1>5, <1>6 DEF Sound
<1>10. \A j \in Used(m) : m.pfds[j].fd # f
  BY DEF Watched
<1>11. \A j, k \in Used(n) : n.pfds[j].fd = n.pfds[k].fd => j = k
  BY <1>5, <1>6, <1>7, <1>10 DEF Sound, Used
<1>12. /\ \A j \in Slots \ Used(n) : n.pfds[j].revents = {}
       /\ \A j \in Scanned(n) \ Used(n) : n.events[j].data = NULL
  BY <1>2, <1>5, <1>6, <1>7 DEF Sound
<1>13. n.num_events = Cardinality(Used(n))
  <2>1. Cardinality(Used(m) \cup {i}) = Cardinality(Used(m)) + 1
    BY <1>2, UsedFinite, FS_AddElement
  <2> QED
    BY <1>4, <1>7, <2>1 DEF Sound
<1>14. Sound(n)
  BY <1>8, <1>9, <1>11, <1>12, <1>13 DEF Sound
<1>15. KeepsSlots(m, n, f)
  BY <1>2, <1>5, <1>6, <1>7 DEF KeepsSlots, Used
<1>16. Watched(n) = Watched(m) \cup {f}
  BY <1>2, <1>5, <1>6, <1>7 DEF Watched, Used
<1>17. MaskAt(n, f) = mask /\ HandlerAt(n, f) = callback /\ DataAt(n, f) = data
  <2>1. i \in Used(n) /\ n.pfds[i].fd = f
    BY <1>5, <1>7
  <2>2. get_idx_from_fd(n, f) = i
    BY <1>14, <2>1, SlotIs
  <2> QED
    BY <1>5, <2>2 DEF MaskAt, HandlerAt, DataAt
<1>18. \A g \in Nat : g # f => Same(m, n, g)
  <2> HIDE DEF n
  <2> QED
    BY <1>14, <1>15, <1>16, FromSlots
<1> QED
  BY <1>14, <1>15, <1>16, <1>17, <1>18

\* event_add.
LEMMA AddView ==
    ASSUME NEW m, Sound(m), NEW f \in Nat,
           NEW mask \in PollMasks, mask # {}, NEW data \in ConnIds \cup {NULL},
           NEW callback \in Handlers
    PROVE  LET r == event_add(m, f, mask, data, callback)
               n == r.mgr
           IN  /\ Sound(n) /\ KeepsSlots(m, n, f)
               /\ r.err \in {PROXY_SUCCESS, PROXY_ERR, PROXY_MAX_EVENTS}
               /\ r.err # PROXY_SUCCESS => n = m
               /\ r.err = PROXY_SUCCESS =>
                    /\ Watched(n) = Watched(m) \cup {f} /\ f \notin Watched(m)
                    /\ MaskAt(n, f) = mask /\ HandlerAt(n, f) = callback
                    /\ DataAt(n, f) = data
               /\ \A g \in Nat : g # f => Same(m, n, g)
<1> DEFINE r == event_add(m, f, mask, data, callback)
<1>1. \/ r.mgr = m /\ r.err \in {PROXY_ERR, PROXY_MAX_EVENTS}
      \/ /\ r.mgr = Insert(m, f, mask, data, callback) /\ r.err = PROXY_SUCCESS
         /\ get_idx_from_fd(m, f) = -1 /\ ~AtCapacity(m)
  BY DEF event_add
<1>2. PROXY_SUCCESS \notin {PROXY_ERR, PROXY_MAX_EVENTS}
  BY DEF PROXY_SUCCESS, PROXY_ERR, PROXY_MAX_EVENTS
<1>3. CASE r.mgr = m /\ r.err \in {PROXY_ERR, PROXY_MAX_EVENTS}
  BY <1>2, <1>3 DEF KeepsSlots, Same
<1>4. CASE /\ r.mgr = Insert(m, f, mask, data, callback) /\ r.err = PROXY_SUCCESS
           /\ get_idx_from_fd(m, f) = -1 /\ ~AtCapacity(m)
  <2>1. f \notin Watched(m)
    BY <1>4, SlotOfFd
  <2> QED
    BY <1>2, <1>4, <2>1, InsertView, SMTT(40)
<1> QED
  BY <1>1, <1>3, <1>4

\* event_modify.
LEMMA ModifyView ==
    ASSUME NEW m, Sound(m), NEW f \in Nat, NEW mask \in PollMasks, mask # {}
    PROVE  LET r == event_modify(m, f, mask)
               n == r.mgr
           IN  /\ Sound(n) /\ KeepsSlots(m, n, f) /\ Watched(n) = Watched(m)
               /\ f \notin Watched(m) => n = m /\ r.err = PROXY_ERR
               /\ f \in Watched(m) =>
                    /\ r.err = PROXY_SUCCESS /\ MaskAt(n, f) = mask
                    /\ HandlerAt(n, f) = HandlerAt(m, f) /\ DataAt(n, f) = DataAt(m, f)
               /\ \A g \in Nat : g # f => Same(m, n, g)
<1> DEFINE r == event_modify(m, f, mask)
           n == r.mgr
           i == get_idx_from_fd(m, f)
<1>0. f # NoFd /\ ~(f < 0)
  BY DEF NoFd
<1>1. CASE f \notin Watched(m)
  <2>1. n = m /\ r.err = PROXY_ERR
    BY <1>1, SlotOfFd DEF event_modify
  <2> QED
    BY <1>1, <2>1 DEF KeepsSlots, Same
<1>2. CASE f \in Watched(m)
  <2>1. i \in Used(m) /\ i # -1 /\ m.pfds[i].fd = f
    BY <1>2, SlotOfFd
  <2>2. /\ m \in TableType /\ Used(m) \subseteq Scanned(m) /\ Scanned(m) \subseteq Slots
        /\ m.pfds \in [Slots -> PfdType] /\ m.events \in [Slots -> EventType]
        /\ m.num_events \in Nat
    BY UsedFinite DEF TableType
  <2>3. /\ r.err = PROXY_SUCCESS
        /\ n = [m EXCEPT !.pfds = [m.pfds EXCEPT ![i] = ModifiedPfd(m.pfds[i], mask)]]
    BY <1>0, <2>1 DEF event_modify
  <2>4. /\ n.pfds = [m.pfds EXCEPT ![i] = ModifiedPfd(m.pfds[i], mask)]
        /\ n.events = m.events /\ n.max_idx = m.max_idx /\ n.num_events = m.num_events
    BY <2>2, <2>3 DEF TableType
  <2>5. /\ \A j \in Slots : j # i => n.pfds[j] = m.pfds[j]
        /\ n.pfds[i] = [fd |-> f, events |-> mask, revents |-> {}]
    BY <2>1, <2>2, <2>4 DEF ModifiedPfd
  <2>6. \A j \in Slots : n.pfds[j].fd = m.pfds[j].fd
    BY <2>1, <2>5
  <2>7. Scanned(n) = Scanned(m) /\ Used(n) = Used(m)
    BY <2>2, <2>4, <2>6 DEF Scanned, Used
  <2>8. n \in TableType
    <3>1. [fd |-> f, events |-> mask, revents |-> {}] \in PfdType
      BY DEF PfdType, PollReports
    <3>2. n.pfds \in [Slots -> PfdType]
      BY <2>1, <2>2, <2>4, <3>1 DEF ModifiedPfd
    <3> QED
      BY <2>2, <2>3, <2>4, <3>2 DEF TableType
  <2>9. /\ \A j \in Scanned(n) : n.pfds[j].fd = n.events[j].fd
        /\ \A j, k \in Used(n) : n.pfds[j].fd = n.pfds[k].fd => j = k
    BY <2>2, <2>4, <2>6, <2>7 DEF Sound
  <2>10. /\ \A j \in Slots \ Used(n) : n.pfds[j].revents = {}
         /\ \A j \in Scanned(n) \ Used(n) : n.events[j].data = NULL
         /\ n.num_events = Cardinality(Used(n))
    BY <2>1, <2>4, <2>5, <2>7 DEF Sound
  <2>11. Sound(n)
    BY <2>8, <2>9, <2>10 DEF Sound
  <2>12. KeepsSlots(m, n, f)
    BY <2>1, <2>2, <2>4, <2>5, <2>7 DEF KeepsSlots
  <2>13. Watched(n) = Watched(m)
    BY <2>2, <2>6, <2>7 DEF Watched
  <2>14. get_idx_from_fd(n, f) = i
    BY <2>1, <2>5, <2>7, <2>11, SlotIs
  <2>15. /\ MaskAt(n, f) = mask
         /\ HandlerAt(n, f) = HandlerAt(m, f) /\ DataAt(n, f) = DataAt(m, f)
    BY <2>4, <2>5, <2>14 DEF MaskAt, HandlerAt, DataAt
  <2>16. \A g \in Nat : g # f => Same(m, n, g)
    <3> HIDE DEF n
    <3> QED
      BY <2>11, <2>12, <2>13, FromSlots
  <2> QED
    BY <1>2, <2>3, <2>11, <2>12, <2>13, <2>15, <2>16
<1> QED
  BY <1>1, <1>2

\* event_remove of a watched descriptor.
LEMMA RemoveWatched ==
    ASSUME NEW m, Sound(m), NEW f \in Watched(m)
    PROVE  LET n == event_remove(m, f).mgr
           IN  Sound(n) /\ KeepsSlots(m, n, f) /\ Watched(n) = Watched(m) \ {f}
<1> DEFINE n == event_remove(m, f).mgr
           i == get_idx_from_fd(m, f)
<1>1. f \in Nat /\ ~(f < 0)
  BY WatchedTyped
<1>2. i \in Used(m) /\ i # -1 /\ m.pfds[i].fd = f
  BY <1>1, SlotOfFd
<1>3. /\ m \in TableType /\ Used(m) \subseteq Scanned(m) /\ Scanned(m) \subseteq Slots
      /\ m.pfds \in [Slots -> PfdType] /\ m.events \in [Slots -> EventType]
      /\ m.num_events \in Nat /\ m.max_idx \in Nat /\ m.max_idx <= MAX_EVENTS
      /\ MAX_EVENTS \in Nat
  BY UsedFinite DEF TableType
<1>4. n = [pfds |-> [m.pfds EXCEPT ![i] = RemovedPfd(m.pfds[i])],
           events |-> [m.events EXCEPT ![i] =
                         [fd |-> NoFd, callback |-> NULL, data |-> NULL]],
           max_idx |-> IF i = m.max_idx - 1 THEN m.max_idx - 1 ELSE m.max_idx,
           num_events |-> m.num_events - 1]
  BY <1>1, <1>2 DEF event_remove
<1>5. /\ n.pfds = [m.pfds EXCEPT ![i] = RemovedPfd(m.pfds[i])]
      /\ n.events = [m.events EXCEPT ![i] = [fd |-> NoFd, callback |-> NULL, data |-> NULL]]
      /\ n.max_idx = IF i = m.max_idx - 1 THEN m.max_idx - 1 ELSE m.max_idx
      /\ n.num_events = m.num_events - 1
  BY <1>4
<1>6. /\ \A j \in Slots : j # i => n.pfds[j] = m.pfds[j] /\ n.events[j] = m.events[j]
      /\ n.pfds[i] = [fd |-> NoFd, events |-> {}, revents |-> {}]
      /\ n.events[i] = [fd |-> NoFd, callback |-> NULL, data |-> NULL]
  BY <1>2, <1>3, <1>5 DEF RemovedPfd
<1>7. /\ Scanned(n) \subseteq Scanned(m)
      /\ Scanned(m) \ {i} \subseteq Scanned(n)
  BY <1>2, <1>3, <1>5 DEF Scanned
<1>8. Used(n) = Used(m) \ {i}
  BY <1>2, <1>3, <1>6, <1>7 DEF Used
<1>9. m.num_events >= 1 /\ Cardinality(Used(m) \ {i}) = m.num_events - 1
  <2>1. /\ IsFiniteSet(Used(m) \ {i})
        /\ Cardinality(Used(m) \ {i}) = Cardinality(Used(m)) - 1
    BY <1>2, UsedFinite, FS_RemoveElement
  <2>2. Cardinality(Used(m) \ {i}) \in Nat
    BY <2>1, FS_CardinalityType
  <2> QED
    BY <1>3, <2>1, <2>2 DEF Sound
<1>10. n \in TableType
  <2>1. /\ [fd |-> NoFd, events |-> {}, revents |-> {}] \in PfdType
        /\ [fd |-> NoFd, callback |-> NULL, data |-> NULL] \in EventType
    BY DEF PfdType, EventType, PollReports, PollMasks
  <2>2. n.pfds \in [Slots -> PfdType] /\ n.events \in [Slots -> EventType]
    BY <1>2, <1>3, <1>5, <2>1 DEF RemovedPfd
  <2>3. n.max_idx \in 0 .. MAX_EVENTS /\ n.num_events \in Nat
    BY <1>2, <1>3, <1>5, <1>9 DEF Scanned
  <2> QED
    BY <1>4, <2>2, <2>3 DEF TableType
<1>11. /\ \A j \in Scanned(n) : n.pfds[j].fd = n.events[j].fd
       /\ \A j, k \in Used(n) : n.pfds[j].fd = n.pfds[k].fd => j = k
  BY <1>3, <1>6, <1>7, <1>8 DEF Sound
<1>12. /\ \A j \in Slots \ Used(n) : n.pfds[j].revents = {}
       /\ \A j \in Scanned(n) \ Used(n) : n.events[j].data = NULL
  BY <1>3, <1>6, <1>7, <1>8 DEF Sound
<1>13. n.num_events = Cardinality(Used(n))
  BY <1>5, <1>8, <1>9
<1>14. Sound(n)
  BY <1>10, <1>11, <1>12, <1>13 DEF Sound
<1>15. KeepsSlots(m, n, f)
  BY <1>2, <1>3, <1>6, <1>8 DEF KeepsSlots
<1>16. \A j \in Used(m) : m.pfds[j].fd = f => j = i
  BY <1>2 DEF Sound
<1>17. Watched(n) = Watched(m) \ {f}
  BY <1>2, <1>3, <1>6, <1>8, <1>16 DEF Watched
<1> QED
  BY <1>14, <1>15, <1>17

\* event_remove, which callers also hand descriptors that are not watched and
\* the -1 of a side that is gone.
LEMMA RemoveView ==
    ASSUME NEW m, Sound(m), NEW f \in Nat \cup {NoFd}
    PROVE  LET n == event_remove(m, f).mgr
           IN  /\ Sound(n) /\ KeepsSlots(m, n, f) /\ Watched(n) = Watched(m) \ {f}
               /\ \A g \in Nat : g # f => Same(m, n, g)
<1> DEFINE n == event_remove(m, f).mgr
<1>1. CASE f \notin Watched(m)
  <2>1. n = m
    BY <1>1, SlotOfFd DEF event_remove, NoFd
  <2> QED
    BY <1>1, <2>1 DEF KeepsSlots, Same
<1>2. CASE f \in Watched(m)
  <2>1. Sound(n) /\ KeepsSlots(m, n, f) /\ Watched(n) = Watched(m) \ {f}
    BY <1>2, RemoveWatched
  <2> HIDE DEF n
  <2>2. \A g \in Nat : g # f => Same(m, n, g)
    BY <2>1, FromSlots
  <2> QED
    BY <2>1, <2>2 DEF n
<1> QED
  BY <1>1, <1>2

\* poll() writes revents only.
LEMMA FillView ==
    ASSUME NEW m, Sound(m), NEW report,
           \A i \in Used(m) : report[m.pfds[i].fd] \in PollReports
    PROVE  LET n == FillReports(m, report)
           IN  /\ Sound(n) /\ Used(n) = Used(m)
               /\ \A g \in Nat : Same(m, n, g)
               /\ \A i \in Used(m) : /\ n.pfds[i].fd = m.pfds[i].fd
                                     /\ n.pfds[i].revents = report[m.pfds[i].fd]
                                     /\ n.events[i] = m.events[i]
<1> DEFINE n == FillReports(m, report)
<1>1. /\ m \in TableType /\ Used(m) \subseteq Scanned(m) /\ Scanned(m) \subseteq Slots
      /\ m.pfds \in [Slots -> PfdType] /\ m.events \in [Slots -> EventType]
  BY UsedFinite DEF TableType
<1>2. /\ n.pfds = [i \in Slots |->
           IF i \in Scanned(m)
             THEN [fd |-> m.pfds[i].fd, events |-> m.pfds[i].events,
                   revents |-> IF m.pfds[i].fd = NoFd THEN {} ELSE report[m.pfds[i].fd]]
           ELSE m.pfds[i]]
      /\ n.events = m.events /\ n.max_idx = m.max_idx /\ n.num_events = m.num_events
  BY <1>1 DEF FillReports, TableType
<1>3. \A i \in Slots : n.pfds[i].fd = m.pfds[i].fd /\ n.pfds[i].events = m.pfds[i].events
  BY <1>2
<1>4. Scanned(n) = Scanned(m) /\ Used(n) = Used(m)
  BY <1>1, <1>2, <1>3 DEF Scanned, Used
<1>5. \A i \in Used(m) : n.pfds[i].revents = report[m.pfds[i].fd]
  BY <1>1, <1>2 DEF Used
<1>6. \A i \in Slots : n.pfds[i] \in PfdType
  <2> SUFFICES ASSUME NEW i \in Slots PROVE n.pfds[i] \in PfdType
    OBVIOUS
  <2>1. CASE i \in Used(m)
    BY <1>1, <1>2, <2>1 DEF PfdType, Used
  <2>2. CASE i \in Scanned(m) \ Used(m)
    BY <1>1, <1>2, <2>2 DEF PfdType, Used, PollReports
  <2>3. CASE i \notin Scanned(m)
    BY <1>1, <1>2, <2>3
  <2> QED
    BY <2>1, <2>2, <2>3
<1>7. n \in TableType
  <2>1. n.pfds \in [Slots -> PfdType]
    BY <1>2, <1>6
  <2> QED
    BY <1>1, <1>2, <2>1 DEF TableType, FillReports
<1>8. /\ \A i \in Scanned(n) : n.pfds[i].fd = n.events[i].fd
      /\ \A i, j \in Used(n) : n.pfds[i].fd = n.pfds[j].fd => i = j
  BY <1>1, <1>2, <1>3, <1>4 DEF Sound
<1>9. /\ \A i \in Slots \ Used(n) : n.pfds[i].revents = {}
      /\ \A i \in Scanned(n) \ Used(n) : n.events[i].data = NULL
      /\ n.num_events = Cardinality(Used(n))
  <2>1. \A i \in Slots \ Used(m) : m.pfds[i].revents = {} /\ (i \in Scanned(m) => m.pfds[i].fd = NoFd)
    BY DEF Sound, Used
  <2>2. \A i \in Slots \ Used(m) : n.pfds[i].revents = {}
    BY <1>2, <2>1
  <2> QED
    BY <1>2, <1>4, <2>2 DEF Sound
<1>10. Sound(n)
  BY <1>7, <1>8, <1>9 DEF Sound
<1>11. \A g \in Nat : Same(m, n, g)
  <2> SUFFICES ASSUME NEW g \in Nat PROVE Same(m, n, g)
    OBVIOUS
  <2>1. Watched(n) = Watched(m)
    BY <1>1, <1>3, <1>4 DEF Watched
  <2>2. CASE g \in Watched(m)
    <3>1. get_idx_from_fd(m, g) \in Used(m) /\ m.pfds[get_idx_from_fd(m, g)].fd = g
      BY <2>2, SlotOfFd
    <3>2. get_idx_from_fd(n, g) = get_idx_from_fd(m, g)
      <4> DEFINE i == get_idx_from_fd(m, g)
      <4>1. i \in Used(n) /\ n.pfds[i].fd = g
        BY <1>1, <1>3, <1>4, <3>1
      <4> QED
        BY <4>1, <1>10, SlotIs
    <3> QED
      BY <1>1, <1>2, <1>3, <2>1, <3>1, <3>2 DEF Same, MaskAt, HandlerAt, DataAt
  <2> QED
    BY <2>1, <2>2 DEF Same
<1> QED
  BY <1>1, <1>2, <1>3, <1>4, <1>5, <1>10, <1>11

\* The zero-initialised g_mgr watches nothing, although every element of it
\* names descriptor 0.
LEMMA EmptyView == Sound(EmptyTable) /\ Watched(EmptyTable) = {} /\ Scanned(EmptyTable) = {}
<1>1. Scanned(EmptyTable) = {} /\ Used(EmptyTable) = {} /\ Watched(EmptyTable) = {}
  BY DEF EmptyTable, Scanned, Used, Watched
<1>2. EmptyTable \in TableType
  BY MaxEventsAssumption DEF EmptyTable, TableType, PfdType, EventType, PollMasks, PollReports
<1>3. Cardinality(Used(EmptyTable)) = 0
  BY <1>1, FS_EmptySet
<1> QED
  BY <1>1, <1>2, <1>3 DEF Sound, EmptyTable

-----------------------------------------------------------------------------
(* Several operations in a row.                                            *)

\* From m to n only elements of descriptors in F came, went or changed.
Outside(m, n, F) ==
    /\ \A i \in Used(m) : m.pfds[i].fd \notin F =>
         i \in Used(n) /\ n.pfds[i] = m.pfds[i] /\ n.events[i] = m.events[i]
    /\ Watched(n) \subseteq Watched(m) \cup F

LEMMA OutsideOne ==
    ASSUME NEW m, NEW n, NEW f, NEW F, f \in F,
           KeepsSlots(m, n, f), Watched(n) \subseteq Watched(m) \cup {f}
    PROVE  Outside(m, n, F)
BY DEF Outside, KeepsSlots

LEMMA OutsideNone == ASSUME NEW m, NEW F PROVE Outside(m, m, F)
BY DEF Outside

LEMMA OutsideTwo ==
    ASSUME NEW m, NEW n, NEW o, NEW F, Outside(m, n, F), Outside(n, o, F)
    PROVE  Outside(m, o, F)
BY DEF Outside

LEMMA RemoveOutside ==
    ASSUME NEW m, Sound(m), NEW F, NEW f \in Nat \cup {NoFd}, f = NoFd \/ f \in F
    PROVE  Outside(m, event_remove(m, f).mgr, F)
<1>1. CASE f = NoFd
  <2>1. event_remove(m, f).mgr = m
    BY <1>1 DEF event_remove, NoFd
  <2> QED
    BY <2>1, OutsideNone
<1>2. CASE f \in F
  <2> DEFINE n == event_remove(m, f).mgr
  <2>1. KeepsSlots(m, n, f) /\ Watched(n) = Watched(m) \ {f}
    BY RemoveView
  <2> HIDE DEF n
  <2>2. Outside(m, n, F)
    BY <1>2, <2>1, OutsideOne
  <2> QED
    BY <2>2 DEF n
<1> QED
  BY <1>1, <1>2

LEMMA OutsideSame ==
    ASSUME NEW m, NEW n, NEW F, Sound(m), Sound(n), Outside(m, n, F)
    PROVE  \A g \in Nat : g \notin F => Same(m, n, g)
<1> SUFFICES ASSUME NEW g \in Nat, g \notin F
             PROVE  Same(m, n, g)
  OBVIOUS
<1>1. CASE g \notin Watched(m)
  BY <1>1 DEF Same, Outside
<1>2. CASE g \in Watched(m)
  <2> DEFINE i == get_idx_from_fd(m, g)
  <2>1. i \in Used(m) /\ m.pfds[i].fd = g
    BY <1>2, SlotOfFd
  <2>2. i \in Used(n) /\ n.pfds[i] = m.pfds[i] /\ n.events[i] = m.events[i]
    BY <2>1 DEF Outside
  <2>3. g \in Watched(n) /\ get_idx_from_fd(n, g) = i
    BY <2>1, <2>2, SlotIs
  <2> QED
    BY <1>2, <2>2, <2>3 DEF Same, MaskAt, HandlerAt, DataAt
<1> QED
  BY <1>1, <1>2
=============================================================================
