------------------------- MODULE AddressCacheProofs -------------------------
(***************************************************************************)
(* What AddressCache promises of the cached address list, for any set of   *)
(* addresses, any answers of the resolver and any age limit.               *)
(***************************************************************************)
EXTENDS AddressCache, WellFoundedInduction, TLAPS

\* connect_to_server returns one of the three outcomes, never "none".
LEMMA ConnectOutcome ==
    ASSUME NEW addrs \in Answers, NEW out \in [Addrs -> Outcomes]
    PROVE  connect_to_server(addrs, out) \in Outcomes
<1> DEFINE good == {i \in DOMAIN addrs : out[addrs[i]] # "fail"}
           first == CHOOSE i \in good : \A j \in good : i <= j
<1>1. addrs \in Seq(Addrs)
  BY AddressAssumption
<1>2. CASE good = {}
  BY <1>2 DEF connect_to_server, Outcomes
<1>3. CASE good # {}
  <2>1. good \subseteq Nat
    BY <1>1
  <2>2. \E i \in good : \A j \in good : i <= j
    <3> DEFINE R == OpToRel(<, Nat)
    <3>1. IsWellFoundedOn(R, Nat)
      BY NatLessThanWellFounded
    <3> HIDE DEF R, good
    <3>2. \E i \in good : \A j \in good : ~(<<j, i>> \in R)
      BY <1>3, <2>1, <3>1, WFMin
    <3>3. \A i, j \in Nat : ~(<<j, i>> \in R) => i <= j
      BY DEF R, OpToRel
    <3> QED
      BY <2>1, <3>2, <3>3
  <2>3. first \in good
    BY <2>2
  <2>4. out[addrs[first]] \in Outcomes
    BY <2>3, <1>1
  <2>5. connect_to_server(addrs, out) = out[addrs[first]]
    BY <1>3 DEF connect_to_server
  <2> QED
    BY <2>4, <2>5
<1> QED
  BY <1>2, <1>3

\* A list is cached with the time of its resolution, is the only one that is
\* allocated, and gave the last caller a socket.
IInv == TypeOK /\ OnlyCachedIsLive /\ CachedIffSocket

\* It holds when the process starts: nothing is cached, nothing allocated.
LEMMA InitIInv == Init => IInv
BY AddressAssumption DEF Init, IInv, TypeOK, Cached, OnlyCachedIsLive, CachedIffSocket, Outcomes

\* The cached list is used: it stays, and its connect() did not fail.
LEMMA ConnectCachedStep ==
    ASSUME IInv, running, NEW out \in [Addrs -> Outcomes], ConnectCached(out)
    PROVE  IInv'
<1>1. gp_cached_server_address.addrs \in Answers
  BY DEF IInv, TypeOK, Cached, ConnectCached
<1>2. attempt' \in Outcomes /\ attempt' # "fail"
  BY <1>1, ConnectOutcome DEF ConnectCached
<1>3. TypeOK'
  BY <1>2 DEF IInv, TypeOK, Cached, ConnectCached
<1>4. OnlyCachedIsLive'
  BY DEF IInv, OnlyCachedIsLive, Cached, ConnectCached
<1>5. CachedIffSocket'
  BY <1>2 DEF CachedIffSocket, Cached, ConnectCached, Outcomes
<1> QED
  BY <1>3, <1>4, <1>5 DEF IInv

\* After a drop nothing is allocated.
LEMMA DroppedIsAll ==
    ASSUME IInv
    PROVE  live \ Dropped = {}
BY DEF IInv, OnlyCachedIsLive, Cached, Dropped

\* getaddrinfo() fails: nothing is cached and nothing allocated.
LEMMA ResolveFailsStep ==
    ASSUME IInv, running, NEW out, ResolveFails(out)
    PROVE  IInv'
<1>1. live' = {} /\ gp_cached_server_address' = NULL /\ attempt' = "fail"
  BY DroppedIsAll DEF ResolveFails
<1>2. TypeOK'
  BY <1>1 DEF IInv, TypeOK, Cached, ResolveFails, Outcomes
<1> QED
  BY <1>1, <1>2 DEF IInv, OnlyCachedIsLive, CachedIffSocket, Cached

\* An answer is cached when it gave a socket and freed when not.
LEMMA ResolveStep ==
    ASSUME IInv, running, NEW out \in [Addrs -> Outcomes], Resolve(out)
    PROVE  IInv'
<1>1. PICK addrs \in Answers :
        /\ attempt' = connect_to_server(addrs, out)
        /\ gp_cached_server_address' =
             IF Cacheable(attempt') THEN [id |-> lists', addrs |-> addrs, at |-> now] ELSE NULL
        /\ live' = (live \ Dropped) \cup (IF Cacheable(attempt') THEN {lists'} ELSE {})
  BY DEF Resolve
<1>2. attempt' \in Outcomes
  BY <1>1, ConnectOutcome
<1>3. lists' \in 1 .. MaxLists /\ now \in 1 .. MaxTime
  BY AddressAssumption DEF IInv, TypeOK, Resolve
<1>4. UNCHANGED <<gts_last_resolution, now, running>>
  BY DEF Resolve
<1>5. live' = IF Cacheable(attempt') THEN {lists'} ELSE {}
  BY <1>1, DroppedIsAll
<1>6. CASE Cacheable(attempt')
  <2>1. gp_cached_server_address' = [id |-> lists', addrs |-> addrs, at |-> now]
    BY <1>1, <1>6
  <2>2. gp_cached_server_address' # NULL
    BY <2>1, <1>3, AddressAssumption
  <2>3. TypeOK'
    BY <1>2, <1>3, <1>5, <1>6, <1>4, <2>1 DEF IInv, TypeOK, Cached
  <2>4. OnlyCachedIsLive'
    BY <1>5, <1>6, <2>1, <2>2 DEF OnlyCachedIsLive, Cached
  <2>5. CachedIffSocket'
    BY <1>2, <1>6, <2>2 DEF CachedIffSocket, Cached, Cacheable, Outcomes
  <2> QED
    BY <2>3, <2>4, <2>5 DEF IInv
<1>7. CASE ~Cacheable(attempt')
  <2>1. gp_cached_server_address' = NULL /\ live' = {} /\ attempt' = "fail"
    BY <1>1, <1>5, <1>7 DEF Cacheable
  <2>2. TypeOK'
    BY <1>3, <1>4, <2>1 DEF IInv, TypeOK, Cached, Outcomes
  <2> QED
    BY <2>1, <2>2 DEF IInv, OnlyCachedIsLive, CachedIffSocket, Cached
<1> QED
  BY <1>6, <1>7

\* Every step of the program and of its environment keeps the invariant.
LEMMA NextIInv == IInv /\ [Next]_vars => IInv'
<1> SUFFICES ASSUME IInv, [Next]_vars PROVE IInv'
  OBVIOUS
<1>1. CASE network_connect_to_server
  <2>1. CASE freeaddrinfo_NULL
    BY <2>1 DEF freeaddrinfo_NULL, IInv, TypeOK, OnlyCachedIsLive, CachedIffSocket, Cached
  <2>2. ASSUME NEW out \in [Addrs -> Outcomes],
               ConnectCached(out) \/ ResolveFails(out) \/ Resolve(out)
        PROVE  IInv'
    BY <1>1, <2>2, ConnectCachedStep, ResolveFailsStep, ResolveStep DEF network_connect_to_server
  <2> QED
    BY <1>1, <2>1, <2>2 DEF network_connect_to_server
<1>2. CASE network_free_cached_address
  <2>1. live' = {} /\ gp_cached_server_address' = NULL /\ running' = FALSE
    BY <1>2, DroppedIsAll DEF network_free_cached_address
  <2> QED
    BY <1>2, <2>1 DEF network_free_cached_address, IInv, TypeOK, OnlyCachedIsLive,
                      CachedIffSocket, Cached
<1>3. CASE Tick
  BY <1>3, AddressAssumption DEF Tick, IInv, TypeOK, OnlyCachedIsLive, CachedIffSocket, Cached
<1>4. CASE ConnectSettles
  <2>1. attempt' \in {"open", "refused"} /\ attempt = "pending"
    BY <1>4 DEF ConnectSettles
  <2> QED
    BY <1>4, <2>1 DEF ConnectSettles, IInv, TypeOK, OnlyCachedIsLive, CachedIffSocket, Cached
<1>5. CASE UNCHANGED vars
  BY <1>5 DEF vars, IInv, TypeOK, OnlyCachedIsLive, CachedIffSocket, Cached
<1> QED
  BY <1>1, <1>2, <1>3, <1>4, <1>5 DEF Next

\* The three invariants together are inductive.
THEOREM Inductive == Spec => []IInv
BY InitIInv, NextIInv, PTL DEF Spec

\* network.c never leaks an addrinfo list and never keeps a freed one,
\* whatever the resolver answers and whichever connect() fails.
THEOREM NoListLeak == Spec => []OnlyCachedIsLive
<1>1. IInv => OnlyCachedIsLive
  BY DEF IInv
<1> QED
  BY Inductive, <1>1, PTL

\* A list is cached exactly when it gave the last caller a socket, also when that
\* socket's connect() was refused afterwards.
THEOREM CacheIsLastSuccess == Spec => []CachedIffSocket
<1>1. IInv => CachedIffSocket
  BY DEF IInv
<1> QED
  BY Inductive, <1>1, PTL
=============================================================================
