---------------------------- MODULE AddressCache ----------------------------
(***************************************************************************)
(* src/network.c: how the proxy finds an address of the server.  The       *)
(* answer of getaddrinfo() is kept in gp_cached_server_address between the *)
(* calls of network_connect_to_server; gts_last_resolution is the time the *)
(* code compares with TIME_SINCE_LAST_RESOLUTION_SEC.                      *)
(*                                                                         *)
(* The caller is handle_accept in src/proxy.c, one call per accepted       *)
(* client.  The resolver, and the outcome of connect() for each address,   *)
(* are external and change from call to call.                              *)
(***************************************************************************)
EXTENDS Integers, Sequences

CONSTANTS Addrs,         \* addresses of the server
          Answers,       \* lists of addresses getaddrinfo() may return
          TIME_SINCE_LAST_RESOLUTION_SEC,
          MaxTime,       \* bound: seconds the clock shows
          MaxLists,      \* bound: answers of the resolver
          NULL

ASSUME AddressAssumption ==
    /\ Answers \subseteq Seq(Addrs) \ {<< >>}
    /\ TIME_SINCE_LAST_RESOLUTION_SEC \in Nat
    /\ MaxTime \in Nat \ {0} /\ MaxLists \in Nat
    /\ NULL \notin [id : Nat, addrs : Answers, at : Nat]

VARIABLES gp_cached_server_address,  \* an addrinfo list, or NULL
          gts_last_resolution,       \* 0: never set
          now,                       \* CLOCK_MONOTONIC, in seconds
          live,                      \* addrinfo lists allocated and not freed
          lists,                     \* addrinfo lists getaddrinfo() has returned
          attempt,                   \* what became of the last call
          running                    \* proxy_run has not ended

vars == <<gp_cached_server_address, gts_last_resolution, now, live, lists, attempt, running>>

\* What connect_to_server returns: connected, EINPROGRESS, or -1.
Outcomes == {"now", "pending", "fail"}

Init ==
    /\ gp_cached_server_address = NULL
    /\ gts_last_resolution = 0
    /\ now = 1
    /\ live = {}
    /\ lists = 0
    /\ attempt = "none"
    /\ running = TRUE

\* connect_to_server: the outcome of the first address with a socket whose
\* connect() does not fail at once.
connect_to_server(addrs, out) ==
    LET good == {i \in DOMAIN addrs : out[addrs[i]] # "fail"}
        first == CHOOSE i \in good : \A j \in good : i <= j
    IN  IF good = {} THEN "fail" ELSE out[addrs[first]]

\* The age test at the top of network_connect_to_server; what is cached is
\* then freed.
Expired ==
    /\ gts_last_resolution # 0
    /\ now - gts_last_resolution > TIME_SINCE_LAST_RESOLUTION_SEC

\* network_connect_to_server with a cached list that gives a socket: the time is
\* set.
ConnectCached(out) ==
    /\ gp_cached_server_address # NULL /\ ~Expired
    /\ attempt' = connect_to_server(gp_cached_server_address.addrs, out)
    /\ attempt' # "fail"
    /\ gts_last_resolution' = now
    /\ UNCHANGED <<gp_cached_server_address, now, live, lists, running>>

\* Nothing is cached, or it is dropped: by the age test, or because no
\* address of it could be connected to.
CacheMiss(out) ==
    gp_cached_server_address # NULL /\ ~Expired
      => connect_to_server(gp_cached_server_address.addrs, out) = "fail"

\* Mutant of Dropped: the dropped list is not freed.
Dropped_Leaks == {}
Dropped == IF gp_cached_server_address = NULL THEN {} ELSE {gp_cached_server_address.id}

\* The age test drops a list that is not there: freeaddrinfo(NULL) does nothing
\* in glibc, so the call goes on, but reads through the pointer in musl, which
\* the release builds are linked with, so the process ends.
freeaddrinfo_NULL ==
    /\ Expired /\ gp_cached_server_address = NULL
    /\ attempt' = "crash"
    /\ running' = FALSE
    /\ UNCHANGED <<gp_cached_server_address, gts_last_resolution, now, live, lists>>

\* network_connect_to_server when getaddrinfo() has no answer.
ResolveFails(out) ==
    /\ CacheMiss(out)
    /\ gp_cached_server_address' = NULL
    /\ live' = live \ Dropped
    /\ attempt' = "fail"
    /\ UNCHANGED <<gts_last_resolution, now, lists, running>>

\* Mutant of Cacheable: a list is cached before connect() was tried.
Cacheable_Always(r) == TRUE
Cacheable(r) == r # "fail"

\* network_connect_to_server with an answer: cached if it gives a socket, else
\* freed.
Resolve(out) ==
    /\ CacheMiss(out)
    /\ lists < MaxLists
    /\ lists' = lists + 1
    /\ \E addrs \in Answers :
         LET r == connect_to_server(addrs, out)
         IN  /\ attempt' = r
             /\ gp_cached_server_address' =
                  IF Cacheable(r) THEN [id |-> lists', addrs |-> addrs, at |-> now] ELSE NULL
             /\ live' = (live \ Dropped) \cup (IF Cacheable(r) THEN {lists'} ELSE {})
    /\ UNCHANGED <<gts_last_resolution, now, running>>

network_connect_to_server ==
    /\ running
    /\ \/ freeaddrinfo_NULL
       \/ \E out \in [Addrs -> Outcomes] :
            ConnectCached(out) \/ ResolveFails(out) \/ Resolve(out)

\* proxy_run's last call.
network_free_cached_address ==
    /\ running
    /\ running' = FALSE
    /\ live' = live \ Dropped
    /\ gp_cached_server_address' = NULL
    /\ UNCHANGED <<gts_last_resolution, now, lists, attempt>>

\* External: time passes; a connect() in progress completes or fails.
Tick ==
    /\ now < MaxTime
    /\ now' = now + 1
    /\ UNCHANGED <<gp_cached_server_address, gts_last_resolution, live, lists, attempt, running>>

ConnectSettles ==
    /\ attempt = "pending"
    /\ attempt' \in {"open", "refused"}
    /\ UNCHANGED <<gp_cached_server_address, gts_last_resolution, now, live, lists, running>>

Next == network_connect_to_server \/ network_free_cached_address \/ Tick \/ ConnectSettles

Spec == Init /\ [][Next]_vars

-----------------------------------------------------------------------------
Cached == gp_cached_server_address # NULL
Age == now - gp_cached_server_address.at

TypeOK ==
    /\ Cached => gp_cached_server_address \in
                   [id : 1 .. MaxLists, addrs : Answers, at : 1 .. MaxTime]
    /\ gts_last_resolution \in 0 .. MaxTime /\ now \in 1 .. MaxTime
    /\ lists \in 0 .. MaxLists /\ live \subseteq 1 .. lists
    /\ attempt \in Outcomes \cup {"none", "open", "refused", "crash"}
    /\ running \in BOOLEAN

\* No addrinfo list is leaked and none is used after it was freed: what is
\* allocated is what is cached, after every call and after proxy_run's
\* clean-up (network.c frees on four paths).
OnlyCachedIsLive == live = (IF Cached THEN {gp_cached_server_address.id} ELSE {})

\* What is cached gave the last caller a socket, and every list that did is kept
\* for the next caller: one whose connect() succeeded or is in progress, and also
\* one whose connect() was refused later, because nothing tells network.c of that
\* (network.c:68 has "tries each result until connect succeeds", line 100
\* "Resolve address if no cached address or if connection failed").
CachedIffSocket == running => (Cached <=> attempt \notin {"none", "fail"})

-----------------------------------------------------------------------------
(* What comments of src/network.c say and the code does not keep.          *)

\* src/network.c:77: "Check if we have a cached address and if it's still
\* valid", with TIME_SINCE_LAST_RESOLUTION_SEC as the limit: the age test drops
\* a list when there is one and it was resolved longer ago than that, and only
\* then ("Try cached address first", line 87, holds of all others).
AgeTestExact == Expired <=> Cached /\ Age > TIME_SINCE_LAST_RESOLUTION_SEC
=============================================================================
