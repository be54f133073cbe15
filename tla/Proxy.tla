-------------------------------- MODULE Proxy --------------------------------
(***************************************************************************)
(* src/proxy.c and src/buf.c on top of the event loop of EventLoop: the    *)
(* life of proxied connections and the bytes that pass through them.       *)
(*                                                                         *)
(* The proxy is one thread; every callback is one action, except that      *)
(* conn_callback is two (handle_recv, then handle_send).  Between any two  *)
(* of its actions the peers of Sockets may act: data, FIN and RST arrive,  *)
(* send buffers drain, connects complete, signals are delivered.           *)
(*                                                                         *)
(* Where several conjuncts use the table an operation returns, it is named *)
(* by \E x \in {...}, which TLC evaluates once.                            *)
(*                                                                         *)
(* A connection is a function of its sides, "client" and "server";         *)
(* buf[side] is the buffer of data to be sent to that side.                *)
(***************************************************************************)
EXTENDS EventLoop, Sockets

CONSTANTS BUF_SIZ,         \* capacity of a buf_t (16348 in buf.h)
          ConnectResults,  \* outcomes of connect(): "now", "pending", "fail"
          AcceptErrnos,    \* errno values accept() may fail with
          EnvFaults        \* what else may fail or happen to the process

ASSUME ProxyAssumption ==
    /\ BUF_SIZ \in Nat \ {0}
    /\ ConnectResults \subseteq {"now", "pending", "fail"}
    /\ AcceptErrnos \subseteq {"ECONNABORTED", "EAGAIN", "ENFILE"}
    /\ NULL \notin ConnIds
    /\ EnvFaults \subseteq {"listen", "listener", "poll", "calloc", "fcntl", "signal"}

VARIABLES conns,       \* the heap of conn_t
          listen_fd,   \* server_fd of proxy_run, -1 when there is none
          call         \* conn_callback between handle_recv and handle_send

proxyVars == <<conns, listen_fd, call>>
vars == <<mainVars, loopVars, sockVars, proxyVars>>

EmptyBuf == [data |-> << >>, read_pos |-> 0]
Pending(b) == SubSeq(b.data, b.read_pos + 1, Len(b.data))

\* A netnacl_t: how far the key exchange is ("null": there is no context),
\* decrypted bytes still to be read, and how much of the message being sent
\* has been sent.
NullNN == [key |-> "null", recv_pt |-> << >>, send_buf_pos |-> 0]

NewConn(cfd, sfd) ==
    [st |-> "live", fd |-> [client |-> cfd, server |-> sfd],
     buf |-> [side \in Sides |-> EmptyBuf],
     netnacl |-> [side \in Sides |-> NullNN], ref |-> 0]
NoConn == [NewConn(NoFd, NoFd) EXCEPT !.st = "unused"]
FreedConn == [NoConn EXCEPT !.st = "freed"]
Live(c) == conns[c].st = "live"

Init ==
    /\ CommandLineInit
    /\ LoopInit
    /\ SocketsInit
    /\ conns = [c \in ConnIds |-> NoConn]
    /\ listen_fd = NoFd
    /\ call = NULL

MaskOf(f) == UNION {mgr.pfds[i].events : i \in SlotsOf(mgr, f)}

\* poll() adds error conditions to the events asked for.
PollReport ==
    [f \in FdSet |-> Condition(f) \cap (MaskOf(f) \cup {"POLLERR", "POLLHUP", "POLLNVAL"})]

-----------------------------------------------------------------------------
(* proxy_run: set-up, and the loop steps that involve no callback.         *)

\* The lowest free descriptor: the socket of an address that cannot be bound
\* is closed before the next is tried.
network_get_listen_socket ==
    (IF FreeFds(sock) = {} THEN {NoFd} ELSE {Least(FreeFds(sock))})
      \cup (IF "listen" \in EnvFaults THEN {NoFd} ELSE {})

proxy_run ==
    /\ status = "running" /\ pc = "setup"
    /\ \E f \in network_get_listen_socket :
         \/ /\ f # NoFd
            /\ mgr' = event_add(mgr, f, {"POLLIN"}, NULL, "accept_callback").mgr
            /\ sock' = [sock EXCEPT ![f] = [Closed EXCEPT !.st = "listen"]]
            /\ listen_fd' = f
            /\ pc' = "check"
            /\ UNCHANGED ret
         \/ /\ f = NoFd
            /\ pc' = "returned"
            /\ ret' = PROXY_ERR
            /\ UNCHANGED <<mgr, sock, listen_fd>>
    /\ UNCHANGED <<idx, run_flag, conns, call, peerVars>>

LoopStep ==
    /\ \/ CheckFlag \/ SkipSlot \/ EndRound
       \/ \E report \in {PollReport} : PollReturns(report)
       \/ "poll" \in EnvFaults /\ PollFails
    /\ UNCHANGED <<sockVars, proxyVars>>

SignalArrives ==
    /\ "signal" \in EnvFaults /\ status = "running"
    /\ Signal \/ PollInterrupted
    /\ UNCHANGED <<sockVars, proxyVars>>

\* The listening socket fails.
ListenerFails ==
    /\ "listener" \in EnvFaults
    /\ listen_fd # NoFd
    /\ sock[listen_fd].err = "none"
    /\ UpdateSock(listen_fd, [sock[listen_fd] EXCEPT !.err = "reset"])
    /\ UNCHANGED <<loopVars, peerVars, proxyVars>>

\* Callback, arguments and connection of the event being dispatched.
At(callback) == Dispatching /\ mgr.events[EventIdx].callback = callback
Fd == mgr.pfds[idx].fd
Revents == mgr.pfds[idx].revents
Conn == mgr.events[EventIdx].data
SideOf(c, f) == IF conns[c].fd["client"] = f THEN "client" ELSE "server"

-----------------------------------------------------------------------------
(* Opening and closing connections.                                        *)

\* add_connection_events: an encrypted side starts with the handshake.  When
\* the second event_add fails the first is undone, the reference it counted
\* is not.
AddSide(m, c, side, f) ==
    IF Encrypted(side) THEN event_add(m, f, {"POLLOUT"}, c, "handshake_callback")
                       ELSE event_add(m, f, {"POLLIN"}, c, "conn_callback")

\* Mutants of add_connection_events: the second event_add is not checked; the
\* server side is not counted.
add_connection_events_Unchecked(m, c, fd) ==
    LET one == AddSide(m, c, "client", fd["client"])
        two == AddSide(one.mgr, c, "server", fd["server"])
    IN  [mgr |-> two.mgr, err |-> one.err, ref |-> 2]
add_connection_events_OneRef(m, c, fd) ==
    LET one == AddSide(m, c, "client", fd["client"])
        two == AddSide(one.mgr, c, "server", fd["server"])
    IN  IF two.err = PROXY_SUCCESS
          THEN [mgr |-> two.mgr, err |-> PROXY_SUCCESS, ref |-> 1]
        ELSE [mgr |-> m, err |-> two.err, ref |-> 0]

add_connection_events(m, c, fd) ==
    LET one == AddSide(m, c, "client", fd["client"])
        two == AddSide(one.mgr, c, "server", fd["server"])
    IN  IF one.err # PROXY_SUCCESS THEN [mgr |-> one.mgr, err |-> one.err, ref |-> 0]
        ELSE IF two.err # PROXY_SUCCESS
          THEN [mgr |-> event_remove(two.mgr, fd["client"]).mgr, err |-> two.err, ref |-> 1]
        ELSE [mgr |-> two.mgr, err |-> PROXY_SUCCESS, ref |-> 2]

FdsOf(c) == {conns[c].fd[side] : side \in Sides} \ {NoFd}

\* Mutants of close_connection: an event, or a socket, of the pair stays.
close_connection_KeepsEvent(m, c) ==
    /\ mgr' = event_remove(m, conns[c].fd["client"]).mgr
    /\ sock' = CloseFds(sock, FdsOf(c))
    /\ conns' = [conns EXCEPT ![c] = FreedConn]
close_connection_KeepsSocket(m, c) ==
    /\ mgr' = event_remove(event_remove(m, conns[c].fd["client"]).mgr,
                           conns[c].fd["server"]).mgr
    /\ sock' = CloseFds(sock, {conns[c].fd["client"]})
    /\ conns' = [conns EXCEPT ![c] = FreedConn]

\* close_connection: both events, both sockets, and (ref is set to 0 first)
\* the context with its netnacl contexts.
close_connection(m, c) ==
    /\ \E one \in {event_remove(m, conns[c].fd["client"]).mgr} :
         mgr' = event_remove(one, conns[c].fd["server"]).mgr
    /\ sock' = CloseFds(sock, FdsOf(c))
    /\ conns' = [conns EXCEPT ![c] = FreedConn]

\* accept_callback: these codes do not end the loop.
AcceptCode(err) ==
    IF err \in {PROXY_MAX_EVENTS, PROXY_INCOMPLETE_ACCEPT, PROXY_CONNECT_ERR}
      THEN PROXY_SUCCESS ELSE err

\* The test handle_accept makes of errno when accept() fails.
AcceptErr(errno) ==
    IF errno = "ECONNABORTED" /\ errno = "EAGAIN" /\ errno = "EWOULDBLOCK"
      THEN PROXY_INCOMPLETE_ACCEPT ELSE PROXY_ERR

\* accept_callback gives up before accept(): the listener is in error, or
\* there is no memory for a conn_t.
AcceptAborted ==
    /\ At("accept_callback")
    /\ "POLLERR" \in Revents \/ "calloc" \in EnvFaults
    /\ NextSlot(PROXY_ERR)
    /\ UNCHANGED <<mgr, run_flag, sockVars, proxyVars>>

Accepting == At("accept_callback") /\ "POLLERR" \notin Revents

\* accept() fails.  server.sock_fd is still 0 from calloc(), so the clean-up
\* closes descriptor 0.
AcceptFails ==
    /\ Accepting
    /\ \E errno \in AcceptErrnos \cup (IF FreeFds(sock) = {} THEN {"EMFILE"} ELSE {}) :
         NextSlot(AcceptCode(AcceptErr(errno)))
    /\ sock' = CloseFds(sock, {0})
    /\ UNCHANGED <<mgr, run_flag, conns, listen_fd, call, peerVars>>

\* Both calls of fcntl() succeed, or one fails.
network_set_sock_nonblocking ==
    {PROXY_SUCCESS} \cup (IF "fcntl" \in EnvFaults THEN {PROXY_ERR} ELSE {})

\* accept() succeeded but the socket cannot be made non-blocking: as above,
\* and the client is closed.
AcceptSetupFails ==
    /\ Accepting
    /\ PROXY_ERR \in network_set_sock_nonblocking /\ FreeFds(sock) # {}
    /\ accepted' = accepted + 1
    /\ conns' = [conns EXCEPT ![accepted + 1] = FreedConn]
    /\ sock' = CloseFds(sock, {0})
    /\ NextSlot(AcceptCode(PROXY_ERR))
    /\ UNCHANGED <<mgr, run_flag, listen_fd, call, arrived, sent, got>>

\* No server socket: the client is closed and the context freed.
AcceptThenConnectFails ==
    /\ Accepting
    /\ FreeFds(sock) # {}
    /\ "fail" \in ConnectResults \/ Cardinality(FreeFds(sock)) = 1
    /\ accepted' = accepted + 1
    /\ conns' = [conns EXCEPT ![accepted + 1] = FreedConn]
    /\ NextSlot(AcceptCode(PROXY_CONNECT_ERR))
    /\ UNCHANGED <<mgr, run_flag, sock, listen_fd, call, arrived, sent, got>>

\* connect() succeeded or is in progress.  When the events cannot be added
\* the context is freed by accept_callback; nothing closes the two sockets.
AcceptThenConnect ==
    /\ Accepting
    /\ Cardinality(FreeFds(sock)) >= 2
    /\ \E result \in ConnectResults \ {"fail"} :
         LET c  == accepted + 1
             cf == Least(FreeFds(sock))
             sf == Least(FreeFds(sock) \ {cf})
             r  == IF result = "pending"
                     THEN event_add(mgr, sf, {"POLLOUT"}, c, "pending_connect_callback")
                     ELSE add_connection_events(mgr, c, [client |-> cf, server |-> sf])
         IN  /\ accepted' = c
             /\ sock' = [sock EXCEPT
                  ![cf] = NewSock("open", c, "client"),
                  ![sf] = NewSock(IF result = "pending" THEN "connecting" ELSE "open",
                                  c, "server")]
             /\ mgr' = r.mgr
             /\ conns' = [conns EXCEPT ![c] =
                  IF r.err = PROXY_SUCCESS
                    THEN [NewConn(cf, sf) EXCEPT !.ref = IF result = "now" THEN r.ref ELSE 0]
                    ELSE FreedConn]
             /\ NextSlot(AcceptCode(r.err))
    /\ UNCHANGED <<run_flag, listen_fd, call, arrived, sent, got>>

\* SO_ERROR says the connect failed: the connection is given up.
PendingConnectFails ==
    /\ At("pending_connect_callback")
    /\ "POLLNVAL" \in Revents \/ sock[Fd].st = "failed" \/ sock[Fd].err # "none"
    /\ close_connection(mgr, Conn)
    /\ NextSlot(PROXY_SUCCESS)
    /\ UNCHANGED <<run_flag, listen_fd, call, peerVars>>

\* Connected: from one event for the pair to one for each side.
PendingConnectSucceeds ==
    /\ At("pending_connect_callback")
    /\ "POLLNVAL" \notin Revents /\ Healthy(Fd)
    /\ \E r \in {add_connection_events(event_remove(mgr, Fd).mgr, Conn, conns[Conn].fd)} :
           /\ IF r.err = PROXY_SUCCESS
                THEN /\ mgr' = r.mgr
                     /\ conns' = [conns EXCEPT ![Conn].ref = @ + r.ref]
                     /\ UNCHANGED sock
                ELSE close_connection(r.mgr, Conn)
           /\ NextSlot(r.err)
    /\ UNCHANGED <<run_flag, listen_fd, call, peerVars>>

-----------------------------------------------------------------------------
(* Key exchange on an encrypted side.                                      *)

\* netnacl_wrap: send our key, then receive the peer's, each when it can be
\* done without blocking.
SendKey(nn, s) ==
    IF nn.key = "sent" THEN [err |-> NN_SUCCESS, nn |-> nn, s |-> s]
    ELSE IF s.err # "none" THEN [err |-> NN_ERR, nn |-> nn, s |-> s]
    ELSE IF s.room = 0 THEN [err |-> NN_WANT_WRITE, nn |-> [nn EXCEPT !.key = "created"], s |-> s]
    ELSE [err |-> NN_SUCCESS, nn |-> [nn EXCEPT !.key = "sent"],
          s |-> [s EXCEPT !.room = @ - 1, !.keyed = TRUE]]

RecvKey(nn, s) ==
    IF s.rx # << >>
      THEN [err |-> NN_SUCCESS, nn |-> [nn EXCEPT !.key = "ready"], s |-> Consume(s, 1)]
    ELSE IF s.err # "none" \/ s.eof THEN [err |-> NN_ERR, nn |-> nn, s |-> s]
    ELSE [err |-> NN_WANT_READ, nn |-> nn, s |-> s]

netnacl_wrap(nn, s) ==
    LET out == SendKey(nn, s)
    IN  IF out.err # NN_SUCCESS THEN out ELSE RecvKey(out.nn, out.s)

\* do_handshake: the context is created by the first call.
DoWrap(nn, s) ==
    {netnacl_wrap(nn, s)} \cup
    (IF "calloc" \in EnvFaults /\ nn.key = "null"
       THEN {[err |-> PROXY_ERR, nn |-> nn, s |-> s]} ELSE {})

\* Mutant of HandshakeMask: buffered data is not looked at.
HandshakeMask_ReadsOnly(c, side) == {"POLLIN"}

\* Data for this side may have arrived on the other during the handshake.
HandshakeMask(c, side) ==
    IF conns[c].buf[side].data # << >> THEN {"POLLOUT"} ELSE {"POLLIN"}

\* Mutant of AfterWrap: the data event is added before the old one goes.
AfterWrap_Swapped(err, c, side, f) ==
    CASE err = NN_SUCCESS ->
           event_remove(event_add(mgr, f, HandshakeMask(c, side), c, "conn_callback").mgr, f)
      [] err = NN_WANT_READ  -> event_modify(mgr, f, {"POLLIN"})
      [] err = NN_WANT_WRITE -> event_modify(mgr, f, {"POLLOUT"})
      [] OTHER -> [mgr |-> mgr, err |-> err]

\* do_handshake: what the side's event becomes after netnacl_wrap.
AfterWrap(err, c, side, f) ==
    CASE err = NN_SUCCESS ->
           event_add(event_remove(mgr, f).mgr, f, HandshakeMask(c, side), c, "conn_callback")
      [] err = NN_WANT_READ  -> event_modify(mgr, f, {"POLLIN"})
      [] err = NN_WANT_WRITE -> event_modify(mgr, f, {"POLLOUT"})
      [] OTHER -> [mgr |-> mgr, err |-> err]

\* handshake_callback with an error report on the socket.
HandshakeHup ==
    /\ At("handshake_callback")
    /\ Revents \cap {"POLLERR", "POLLHUP", "POLLNVAL"} # {}
    /\ close_connection(mgr, Conn)
    /\ NextSlot(PROXY_ERR)
    /\ UNCHANGED <<run_flag, listen_fd, call, peerVars>>

\* handshake_callback: a failed handshake (NN_ERR, which is PROXY_ERR too)
\* closes the connection and keeps the loop running.
Handshake ==
    /\ At("handshake_callback")
    /\ Revents \cap {"POLLERR", "POLLHUP", "POLLNVAL"} = {}
    /\ \E w \in DoWrap(conns[Conn].netnacl[SideOf(Conn, Fd)], sock[Fd]) :
       LET side == SideOf(Conn, Fd)
       IN  \E r \in {AfterWrap(w.err, Conn, side, Fd)} :
           /\ IF r.err = PROXY_SUCCESS
                THEN /\ mgr' = r.mgr
                     /\ conns' = [conns EXCEPT ![Conn].netnacl[side] = w.nn]
                     /\ sock' = [sock EXCEPT ![Fd] = w.s]
                ELSE close_connection(r.mgr, Conn)
           /\ NextSlot(IF r.err = NN_ERR THEN PROXY_SUCCESS ELSE r.err)
    /\ UNCHANGED <<run_flag, listen_fd, call, peerVars>>

-----------------------------------------------------------------------------
(* conn_callback, first half: handle_recv and buf_recv.                    *)

ErrOrHup == Revents \cap {"POLLERR", "POLLHUP", "POLLNVAL"} # {}
AtConn == At("conn_callback") /\ ~ErrOrHup
Receiving == AtConn /\ "POLLIN" \in Revents

\* An error report closes the connection, whatever is still to be read.
ConnHup ==
    /\ At("conn_callback") /\ ErrOrHup
    /\ IF "POLLNVAL" \in Revents
         THEN NextSlot(PROXY_ERR) /\ UNCHANGED <<mgr, sock, conns>>
         ELSE NextSlot(PROXY_SUCCESS) /\ close_connection(mgr, Conn)
    /\ UNCHANGED <<run_flag, listen_fd, call, peerVars>>

\* conn_callback goes on to handle_send when the report asks for it.
AfterRecv(err) ==
    IF err = PROXY_SUCCESS /\ "POLLOUT" \in Revents
      THEN /\ pc' = "send"
           /\ call' = [conn |-> Conn, side |-> SideOf(Conn, Fd)]
           /\ UNCHANGED <<idx, ret>>
      ELSE /\ NextSlot(IF err = PROXY_DISCONNECT THEN PROXY_SUCCESS ELSE err)
           /\ UNCHANGED call

\* Mutant of RecvCode: recv() returning 0 is taken for an empty socket.
RecvCode_IgnoresFin(s, n) ==
    IF n = BUF_SIZ THEN PROXY_SUCCESS
    ELSE IF s.err # "none" THEN PROXY_ERR
    ELSE IF n = 0 THEN PROXY_WOULD_BLOCK ELSE PROXY_SUCCESS

\* buf_recv's code after n bytes: full, recv() failed, recv() returned 0, or
\* recv() would block.
RecvCode(s, n) ==
    IF n = BUF_SIZ THEN PROXY_SUCCESS
    ELSE IF s.err # "none" THEN PROXY_ERR
    ELSE IF s.eof THEN PROXY_DISCONNECT
    ELSE IF n = 0 THEN PROXY_WOULD_BLOCK ELSE PROXY_SUCCESS

\* Mutant of RecvSize: a message is copied whole, whatever room there is.
RecvSize_WholeMessage(all) == Len(all)

RecvSize(all) == IF Len(all) < BUF_SIZ THEN Len(all) ELSE BUF_SIZ

\* What a netnacl_t holds decrypted and the first k bytes of the socket; and
\* the number of bytes, in whole messages, that it takes to fill the buffer or
\* to empty the socket.
Read(nn, s, k) == nn.recv_pt \o SubSeq(s.rx, 1, k)
Reads(nn, s) ==
    {k \in {0} \cup s.ends :
       /\ k = Len(s.rx) \/ Len(nn.recv_pt) + k >= BUF_SIZ
       /\ \A j \in {0} \cup s.ends : j < k => Len(nn.recv_pt) + j < BUF_SIZ}

\* Mutant of RecvPt: the rest of a message is dropped with its context.
RecvPt_Dropped(all) == << >>

\* netnacl_recv keeps what does not fit the buffer of the last message read.
RecvPt(all) == SubSeq(all, RecvSize(all) + 1, Len(all))

\* buf_recv: read until the buffer is full, the socket is empty, the peer's
\* FIN is reached or recv() fails.  It takes as many messages as it needs;
\* what is over of the last (never on a plain side) stays with netnacl.
Received(all, s, k) ==
    [data |-> SubSeq(all, 1, RecvSize(all)), recv_pt |-> RecvPt(all),
     s |-> Consume(s, k), err |-> RecvCode(s, RecvSize(all))]
buf_recv(nn, s) == {Received(Read(nn, s, k), s, k) : k \in Reads(nn, s)}

\* The buffer for the other side: data received on Fd goes there.
RecvBuf == conns[Conn].buf[Other(SideOf(Conn, Fd))]
ModFd == conns[Conn].fd[Other(SideOf(Conn, Fd))]
GotData(r) == r.err = PROXY_SUCCESS \/ (r.err = PROXY_DISCONNECT /\ r.data # << >>)

\* Earlier data is still to be sent: nothing is received.
RecvHeld ==
    /\ Receiving /\ RecvBuf.data # << >>
    /\ AfterRecv(PROXY_SUCCESS)
    /\ UNCHANGED <<mgr, run_flag, conns, sock, listen_fd, peerVars>>

\* handle_recv with buf_recv's result r: there was nothing to read.
RecvNothing(r) ==
    /\ r.err = PROXY_WOULD_BLOCK
    /\ AfterRecv(PROXY_SUCCESS)
    /\ UNCHANGED <<mgr, conns, sock>>

\* Mutant of SendMask: the other side is not asked about POLLOUT.
SendMask_ReadsOnly == {"POLLIN"}
SendMask == {"POLLIN", "POLLOUT"}

\* Data, with the peer's FIN behind it or not: the other side is to be
\* written to; after a FIN this side's event, socket and netnacl context go.
RecvData(r) ==
    /\ GotData(r) /\ ModFd # NoFd
    /\ LET side == SideOf(Conn, Fd)
           fin  == r.err = PROXY_DISCONNECT
           full == [conns[Conn] EXCEPT !.buf[Other(side)].data = r.data,
                                       !.netnacl[side].recv_pt = r.recv_pt]
       IN  \E m \in {IF fin THEN event_remove(mgr, Fd).mgr ELSE mgr} :
           \E mod \in {event_modify(m, ModFd, SendMask)} :
           /\ mgr' = mod.mgr
           /\ sock' = IF fin THEN CloseFds(sock, {Fd}) ELSE [sock EXCEPT ![Fd] = r.s]
           /\ conns' = [conns EXCEPT ![Conn] =
                IF fin THEN [full EXCEPT !.fd[side] = NoFd, !.netnacl[side] = NullNN]
                       ELSE full]
           /\ AfterRecv(mod.err)

\* Nothing to forward it to, no data before the FIN, or recv() failed: both
\* sides are closed.
RecvCloses(r) ==
    /\ \/ GotData(r) /\ ModFd = NoFd
       \/ ~GotData(r) /\ r.err # PROXY_WOULD_BLOCK
    /\ close_connection(mgr, Conn)
    /\ AfterRecv(IF GotData(r) THEN PROXY_DISCONNECT ELSE r.err)

handle_recv ==
    /\ Receiving /\ RecvBuf.data = << >>
    /\ \E r \in buf_recv(conns[Conn].netnacl[SideOf(Conn, Fd)], sock[Fd]) :
         RecvNothing(r) \/ RecvData(r) \/ RecvCloses(r)
    /\ UNCHANGED <<run_flag, listen_fd, peerVars>>

-----------------------------------------------------------------------------
(* conn_callback, second half: handle_send and buf_send.                   *)

Sending == pc = "send" \/ (AtConn /\ "POLLIN" \notin Revents)
SendTo == IF pc = "send" THEN call ELSE [conn |-> Conn, side |-> SideOf(Conn, Fd)]

\* buf_send's possible codes.  The side may have been closed by handle_recv
\* just before: send() on -1 fails with EBADF; netnacl_send of a null context
\* fails without setting errno, and buf_send then looks at whatever errno is.
\* Of an encrypted message send_buf_pos bytes went out before.
buf_send(conn, side) ==
    LET f == conn.fd[side]
        left == Len(Pending(conn.buf[side]))
    IN  IF left = 0 THEN {PROXY_ERR}
        ELSE IF f = NoFd
          THEN IF Encrypted(side) THEN {PROXY_WOULD_BLOCK, PROXY_DISCONNECT, PROXY_ERR}
                                  ELSE {PROXY_ERR}
        ELSE IF sock[f].err = "reset" THEN {PROXY_DISCONNECT}
        ELSE IF sock[f].err # "none" THEN {PROXY_ERR}
        ELSE IF sock[f].room + conn.netnacl[side].send_buf_pos < left THEN {PROXY_WOULD_BLOCK}
        ELSE {PROXY_SUCCESS}

\* The first n pending bytes pass to the kernel.
Transfer(c, side, n) ==
    /\ got' = [got EXCEPT ![c][side] = @ \o SubSeq(Pending(conns[c].buf[side]), 1, n)]
    /\ UNCHANGED <<arrived, accepted, sent>>

\* Mutant of Advance: the sent bytes are not skipped.
Advance_Forgotten(b, n) == b
Advance(b, n) == [b EXCEPT !.read_pos = @ + n]

\* Of the bytes taken by the kernel since the last whole message, those that
\* netnacl_send has reported: whole messages only.
SentBytes(side, taken) ==
    IF Encrypted(side) THEN (taken \div NN_MAX_MESSAGE_LEN) * NN_MAX_MESSAGE_LEN ELSE taken

\* The kernel takes less than all: the rest waits for the next POLLOUT.
SendSome ==
    /\ Sending
    /\ PROXY_WOULD_BLOCK \in buf_send(conns[SendTo.conn], SendTo.side)
    /\ LET c == SendTo.conn
           side == SendTo.side
           f == conns[c].fd[side]
           taken == IF f = NoFd THEN 0 ELSE sock[f].room + conns[c].netnacl[side].send_buf_pos
           n == SentBytes(side, taken)
       IN  /\ Transfer(c, side, n)
           /\ conns' = [conns EXCEPT ![c].buf[side] = Advance(@, n),
                                     ![c].netnacl[side].send_buf_pos = taken - n]
           /\ sock' = IF f = NoFd THEN sock ELSE [sock EXCEPT ![f].room = 0]
    /\ NextSlot(PROXY_SUCCESS)
    /\ call' = NULL
    /\ UNCHANGED <<mgr, run_flag, listen_fd>>

\* Mutant of PeerGone: the other side is not looked at.
PeerGone_Ignored(c, side) == FALSE
PeerGone(c, side) == conns[c].fd[Other(side)] = NoFd

\* All sent: back to reading, or, when the other side is gone, close.
SendAll ==
    /\ Sending
    /\ PROXY_SUCCESS \in buf_send(conns[SendTo.conn], SendTo.side)
    /\ LET c == SendTo.conn
           side == SendTo.side
           f == conns[c].fd[side]
           n == Len(Pending(conns[c].buf[side]))
       IN  \E r \in {event_modify(mgr, f, {"POLLIN"})} :
           /\ Transfer(c, side, n)
           /\ IF PeerGone(c, side)
                THEN close_connection(mgr, c) /\ NextSlot(PROXY_SUCCESS)
                ELSE /\ mgr' = r.mgr
                     /\ conns' = [conns EXCEPT ![c].buf[side] = EmptyBuf,
                                               ![c].netnacl[side].send_buf_pos = 0]
                     /\ sock' = [sock EXCEPT ![f].room =
                          @ - (n - conns[c].netnacl[side].send_buf_pos)]
                     /\ NextSlot(r.err)
    /\ call' = NULL
    /\ UNCHANGED <<run_flag, listen_fd>>

SendFails ==
    /\ Sending
    /\ \E err \in buf_send(conns[SendTo.conn], SendTo.side) \cap {PROXY_DISCONNECT, PROXY_ERR} :
         NextSlot(IF err = PROXY_DISCONNECT THEN PROXY_SUCCESS ELSE err)
    /\ close_connection(mgr, SendTo.conn)
    /\ call' = NULL
    /\ UNCHANGED <<run_flag, listen_fd, peerVars>>

-----------------------------------------------------------------------------
(* The end of proxy_run and of main.                                       *)

\* free_connection is called once for every element that holds the context;
\* a call frees it when ref is at most 1 and decrements ref otherwise.
AfterFrees(conn, calls) ==
    LET needed == IF conn.ref <= 1 THEN 1 ELSE conn.ref
    IN  CASE calls = needed -> FreedConn
          [] calls > needed -> [conn EXCEPT !.st = "double free"]
          [] OTHER -> [conn EXCEPT !.ref = @ - calls]

Teardown ==
    /\ pc = "returned"
    /\ \E m \in {event_remove(mgr, listen_fd).mgr} :
       LET held == {i \in Scanned(m) : m.events[i].fd > NoFd}
           Calls(c) == Cardinality({i \in Scanned(m) : m.events[i].data = c})
       IN  /\ mgr' = ClearTable(m)
           /\ sock' = CloseFds(sock, {listen_fd} \cup {m.events[i].fd : i \in held})
           /\ conns' = [c \in ConnIds |->
                IF Live(c) THEN AfterFrees(conns[c], Calls(c)) ELSE conns[c]]
    /\ listen_fd' = NoFd
    /\ pc' = "done"
    /\ status' = ExitStatus(ret)
    /\ UNCHANGED <<config, idx, run_flag, ret, call, peerVars>>

-----------------------------------------------------------------------------
Callback ==
    \/ AcceptAborted \/ AcceptFails \/ AcceptSetupFails
    \/ AcceptThenConnectFails \/ AcceptThenConnect
    \/ PendingConnectFails \/ PendingConnectSucceeds
    \/ HandshakeHup \/ Handshake
    \/ ConnHup \/ RecvHeld \/ handle_recv
    \/ SendSome \/ SendAll \/ SendFails

main == ReadCommandLine /\ UNCHANGED <<loopVars, sockVars, proxyVars>>

System ==
    \/ main \/ Teardown
    \/ (proxy_run \/ LoopStep \/ Callback) /\ UNCHANGED mainVars

Peer(f) == PeerStep(f) /\ UNCHANGED <<mainVars, loopVars, proxyVars>>

Environment == (SignalArrives \/ ListenerFails) /\ UNCHANGED mainVars

Next == System \/ Environment \/ \E f \in FdSet : Peer(f)

Spec == Init /\ [][Next]_vars

\* The process is scheduled, peers go on reading, connects complete.  Nothing
\* makes a peer send or close, or a signal arrive.
PeerGoesOn(f) == (PeerReads(f) \/ ConnectSettles(f)) /\ UNCHANGED <<mainVars, loopVars, proxyVars>>

Fairness == WF_vars(System) /\ \A f \in FdSet : WF_vars(PeerGoesOn(f))

FairSpec == Spec /\ Fairness
=============================================================================
