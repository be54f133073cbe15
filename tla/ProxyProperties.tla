--------------------------- MODULE ProxyProperties ---------------------------
(***************************************************************************)
(* What the proxy of Proxy must and must not do.                           *)
(***************************************************************************)
EXTENDS Proxy

BufType == [data : Seq(Nat), read_pos : Nat]
ConnType ==
    [st : {"unused", "live", "freed", "double free"}, fd : [Sides -> FdSet \cup {NoFd}],
     buf : [Sides -> BufType],
     netnacl : [Sides -> [key : {"null", "created", "sent", "ready"},
                         recv_pt : Seq(Nat), send_buf_pos : 0 .. NN_MAX_MESSAGE_LEN - 1]],
     ref : 0 .. 2]

\* Type of the proxy's state; a buffer never holds more than BUF_SIZ bytes
\* and never reads behind what it holds.
TypeOK ==
    /\ mgr.max_idx \in 0 .. MAX_EVENTS /\ mgr.num_events \in 0 .. MAX_EVENTS
    /\ pc \in {"setup", "check", "poll", "dispatch", "send", "returned", "done"}
    /\ ret \in ProxyCodes
    /\ config \in [b_encrypt_in : BOOLEAN, b_encrypt_out : BOOLEAN]
    /\ status \in {"none", "running", EXIT_SUCCESS, EXIT_FAILURE}
    /\ conns \in [ConnIds -> ConnType]
    /\ \A c \in ConnIds, side \in Sides :
         LET b == conns[c].buf[side]
         IN  b.read_pos <= Len(b.data) /\ Len(b.data) <= BUF_SIZ
    /\ sock \in [FdSet -> SockType]
    /\ listen_fd \in FdSet \cup {NoFd}
    /\ call \in [conn : ConnIds, side : Sides] \cup {NULL}
    /\ accepted <= arrived /\ arrived <= MaxClients

-----------------------------------------------------------------------------
(* Descriptors, contexts and events belong together.                       *)

Events == {i \in Scanned(mgr) : mgr.pfds[i].fd # NoFd}
EventsOf(c) == {i \in Events : mgr.events[i].data = c}
FdOf(c, side) == conns[c].fd[side]

\* A callback is never run on freed memory or on a descriptor that was closed
\* and handed out again: while the loop runs, every registered event names an
\* open socket of the live connection it carries, and a connection that is
\* between handle_recv and handle_send is live (src/proxy.c frees and closes
\* in the middle of the loop over the table).
NoDangling ==
    pc # "done" =>
      /\ \A i \in Events : mgr.events[i].callback # "accept_callback" =>
           LET c == mgr.events[i].data
           IN  Live(c) /\ mgr.pfds[i].fd \in FdsOf(c)
      /\ \A c \in ConnIds, side \in Sides :
           Live(c) /\ FdOf(c, side) # NoFd =>
             sock[FdOf(c, side)].peer = [conn |-> c, side |-> side]
      /\ pc = "send" => Live(call.conn)

\* No descriptor is leaked while the proxy runs: every open socket is held by
\* a live connection (close_connection, handle_accept).
NoFdLeak ==
    \A f \in FdSet : sock[f].peer # NoPeer =>
       LET c == sock[f].peer.conn
       IN  pc # "done" => Live(c) /\ FdOf(c, sock[f].peer.side) = f

\* A step that gives up a registered connection closes both its sockets and
\* removes both its events, on whatever path (close_connection in the callbacks,
\* with a full table too; free_connection alone would leave them).
GivenUpIsClosed ==
    [][\A c \in ConnIds : Live(c) /\ conns'[c].st = "freed" /\ pc' # "done" =>
         /\ \A f \in FdSet : sock'[f].peer.conn # c
         /\ \A i \in Scanned(mgr') : mgr'.events[i].data # c]_vars

\* Every socket of a connection is watched by exactly one event, except the
\* client of a connection whose connect() is pending; otherwise a side would
\* never be served again.
EverySideWatched ==
    pc \notin {"returned", "done"} =>
      \A c \in ConnIds : Live(c) =>
        LET watched == {mgr.pfds[i].fd : i \in EventsOf(c)}
        IN  /\ Cardinality(EventsOf(c)) = Cardinality(watched)
            /\ \/ watched = FdsOf(c)
               \/ /\ watched = {FdOf(c, "server")}
                  /\ \A i \in EventsOf(c) :
                       mgr.events[i].callback = "pending_connect_callback"

\* free_connection never frees a context twice, however the connections stood
\* when the loop ended: ref is never below the number of events that
\* event_teardown will call it for.
NoDoubleFree == \A c \in ConnIds : conns[c].st # "double free"

\* A socket that is open although its connection was given up.
Leaked(f) == sock[f].peer # NoPeer /\ ~Live(sock[f].peer.conn)

\* Elements of the table that handle_accept needs for connection c: one while
\* its connect() is in progress, one for each side otherwise.
EventsNeeded(s, c) ==
    IF \E f \in FdSet : s[f].peer.conn = c /\ s[f].st = "connecting" THEN 1 ELSE 2

\* There is one way to leak a socket, and it is a full table: a socket is
\* leaked by the step of handle_accept that opens it, when the table has no
\* room for the events of the new connection (event_add fails and handle_accept
\* returns past its CLEANUP), and by no other step of any callback.
LeaksExactlyWhenFull ==
    [][pc' # "done" => \A f \in FdSet :
         (~Leaked(f) /\ Leaked(f)') <=>
            /\ sock[f].peer = NoPeer /\ sock'[f].peer # NoPeer
            /\ mgr.num_events + EventsNeeded(sock', sock'[f].peer.conn) > MAX_EVENTS]_vars

-----------------------------------------------------------------------------
(* The data path.                                                          *)

UpTo(n) == [i \in 1 .. n |-> i]
DataOf(rx) == IF rx # << >> /\ Head(rx) = Key THEN Tail(rx) ELSE rx
Unread(c, side) ==
    IF FdOf(c, side) = NoFd THEN << >>
    ELSE conns[c].netnacl[side].recv_pt \o DataOf(sock[FdOf(c, side)].rx)

\* Both directions are byte streams: what went out to one side, what waits in
\* its buffer, in the other side's netnacl_t and in its socket is exactly what the
\* other peer sent, in order, through partial sends, full buffers and
\* half-closed connections; a connection that is gone delivered a prefix.
StreamIntact ==
    \A c \in ConnIds, side \in Sides :
      LET from == Other(side)
          all == UpTo(sent[c][from])
      IN  IF Live(c) /\ pc # "done"
            THEN got[c][side] \o Pending(conns[c].buf[side]) \o Unread(c, from) = all
            ELSE got[c][side] = SubSeq(all, 1, Len(got[c][side]))

\* POLLOUT is asked for on a connected side exactly when its buffer holds
\* unsent data.  One direction keeps the assertions of buf_send and buf_recv
\* ("we should never be recving before a send from the same buffer is
\* complete"), the other keeps data from waiting for ever.
PollOutIffPending ==
    \A i \in Events : mgr.events[i].callback = "conn_callback" /\ pc # "done" =>
      LET c == mgr.events[i].data
          b == conns[c].buf[SideOf(c, mgr.pfds[i].fd)]
      IN  /\ "POLLOUT" \in mgr.pfds[i].events <=> Pending(b) # << >>
          /\ Pending(b) = << >> => b = EmptyBuf

\* A connection that has lost one side lives only to send what it still holds
\* for the other (handle_recv closes it otherwise, handle_send when done).
HalfClosedHasWork ==
    \A c \in ConnIds, side \in Sides :
      Live(c) /\ pc # "done" /\ FdOf(c, side) = NoFd =>
        /\ FdOf(c, Other(side)) # NoFd
        /\ Pending(conns[c].buf[Other(side)]) # << >>

-----------------------------------------------------------------------------
(* Liveness.                                                               *)

KeyMissing(c, side) == FdOf(c, side) # NoFd /\ Encrypted(side) /\ ~sock[FdOf(c, side)].hello
Ending(c) == ~Live(c) \/ \E side \in Sides : FdOf(c, side) = NoFd \/ sock[FdOf(c, side)].eof

\* While nobody closes or fails, everything a peer sends reaches the other
\* side: no order of partial sends, full buffers and reports wedges a
\* connection.  (Where the other side is encrypted its peer must send its
\* key: do_handshake waits for it without a time limit.  From an encrypted
\* side a byte may instead stay in recv_pt of its netnacl_t; EncryptedDelivery
\* is about those.)
Delivery ==
    \A c \in ConnIds, side \in Sides : \A n \in 1 .. Bytes[side] :
      (Live(c) /\ sent[c][side] >= n)
        ~> \/ Len(got[c][Other(side)]) >= n
           \/ Ending(c) \/ KeyMissing(c, Other(side)) \/ ~run_flag
           \/ \E i \in DOMAIN conns[c].netnacl[side].recv_pt :
                conns[c].netnacl[side].recv_pt[i] = n

\* A FIN on either side ends the connection, whatever is in the buffers and
\* whatever the other side does (except that it must send its key).
EofCloses ==
    \A c \in ConnIds, side \in Sides :
      (Live(c) /\ FdOf(c, side) # NoFd /\ sock[FdOf(c, side)].eof)
        ~> (~Live(c) \/ FdOf(c, side) = NoFd \/ KeyMissing(c, Other(side)) \/ ~run_flag)

\* A signal ends the proxy, unless it falls between the test of the flag and
\* poll(), where it waits for a descriptor to become ready (event_run_loop).
SignalStops == (~run_flag /\ pc # "poll") ~> pc = "done"

-----------------------------------------------------------------------------
(* What comments, headers and tests say of the proxy and the code does not *)
(* keep.                                                                   *)

\* src/proxy.c:466, of a side that disconnected: "we need to make sure the
\* data still gets sent".  A half-closed connection is not freed before its
\* buffer was sent, unless the surviving side failed.
FinDataDelivered ==
    [][\A c \in ConnIds, side \in Sides :
         /\ Live(c) /\ FdOf(c, side) = NoFd /\ conns'[c].st = "freed"
         /\ Healthy(FdOf(c, Other(side))) /\ pc' # "done"
         => Len(got'[c][Other(side)]) = sent[c][side]]_vars

\* test/test_http.py:175: "aborting a client download does not affect subsequent
\* downloads through the proxy"; src/proxy.c:162: "Listener should keep running if
\* these errors happened, otherwise entire proxy will exit."  What happens to one
\* connection, in any callback, never ends the loop that serves the others.
CallbackKeepsLoop ==
    [][Dispatching \/ pc = "send" => pc' # "returned"]_vars

\* src/main.c:29, of the branch that returns EXIT_FAILURE: "Proxy failed to start
\* or encountered a fatal error".  The process reports success only when it was
\* told to stop by a signal.
SuccessMeansSignal == status = EXIT_SUCCESS => ~run_flag

\* test/test_dynamic_connection.py:123: "the proxy correctly forwards data of
\* different sizes", through encrypting proxies too.  Everything an encrypted
\* peer sends reaches the other side.
EncryptedDelivery ==
    \A c \in ConnIds, side \in Sides : \A n \in 1 .. Bytes[side] :
      (Live(c) /\ Encrypted(side) /\ sent[c][side] >= n)
        ~> (Len(got[c][Other(side)]) >= n)
=============================================================================
