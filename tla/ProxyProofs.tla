----------------------------- MODULE ProxyProofs -----------------------------
(***************************************************************************)
(* Proofs about Proxy, for every table size, buffer size, number of        *)
(* clients and of descriptors, every mode and every set of failures.       *)
(***************************************************************************)
EXTENDS ProxyTableProofs

Running == pc \notin {"returned", "done"}
Connected == {"connecting", "failed", "open"}

-----------------------------------------------------------------------------
(* The inductive invariant: what holds of one live connection c with       *)
(* context k, of its sockets s and of its elements in the table m.         *)

\* Its descriptors are its own sockets, and every socket of it is one of them.
Owned(s, c, k) ==
    /\ \A side \in Sides : k.fd[side] # NoFd =>
         /\ k.fd[side] \in FdSet /\ k.fd[side] # 0
         /\ s[k.fd[side]].peer = [conn |-> c, side |-> side]
         /\ s[k.fd[side]].st \in Connected
    /\ \A f \in FdSet : s[f].peer.conn = c => k.fd[s[f].peer.side] = f

\* Between handle_accept and pending_connect_callback only the server's socket
\* is watched; no reference is counted yet and nothing was received.
Opening(m, c, k) ==
    /\ \A side \in Sides : k.fd[side] # NoFd /\ k.buf[side] = EmptyBuf
    /\ k.fd["client"] \notin Watched(m)
    /\ k.fd["server"] \in Watched(m)
    /\ HandlerAt(m, k.fd["server"]) = "pending_connect_callback"
    /\ DataAt(m, k.fd["server"]) = c
    /\ k.ref = 0

\* Afterwards every socket is, for the handshake or for data.
Serving(m, c, k) ==
    /\ \A side \in Sides : k.fd[side] # NoFd =>
         /\ k.fd[side] \in Watched(m)
         /\ HandlerAt(m, k.fd[side]) \in {"handshake_callback", "conn_callback"}
         /\ DataAt(m, k.fd[side]) = c
    /\ k.ref = 2

\* A buffer that has nothing left to send was reset, and netnacl has not sent
\* more of a message than the buffer still holds.
BufOK(b, nn) ==
    /\ b.read_pos <= Len(b.data) /\ Len(b.data) <= BUF_SIZ
    /\ Pending(b) = << >> => b = EmptyBuf
    /\ nn.send_buf_pos <= Len(Pending(b))

\* POLLOUT is asked for exactly while there is something to send.
MasksFit(m, k) ==
    \A side \in Sides :
      /\ k.fd[side] # NoFd /\ k.fd[side] \in Watched(m)
      /\ HandlerAt(m, k.fd[side]) = "conn_callback"
      => ("POLLOUT" \in MaskAt(m, k.fd[side]) <=> Pending(k.buf[side]) # << >>)

\* A side that is gone left data for the other.
HasWork(k) ==
    \A side \in Sides : k.fd[side] = NoFd =>
      k.fd[Other(side)] # NoFd /\ Pending(k.buf[Other(side)]) # << >>

ConnInv(m, s, c, k) ==
    /\ Owned(s, c, k)
    /\ Opening(m, c, k) \/ Serving(m, c, k)
    /\ \A side \in Sides : BufOK(k.buf[side], k.netnacl[side])
    /\ MasksFit(m, k)
    /\ HasWork(k)

-----------------------------------------------------------------------------
(* What holds of the proxy as a whole.                                     *)

\* A socket has a peer exactly while it is a connection's, and its messages end
\* inside what has arrived.
SockOK(x) ==
    /\ x \in SockType /\ x.ends \subseteq 1 .. Len(x.rx)
    /\ x.st \in Connected <=> x.peer # NoPeer
SockTyped(s) == s \in [FdSet -> SockType] /\ \A f \in FdSet : SockOK(s[f])

Types ==
    /\ pc \in {"setup", "check", "poll", "dispatch", "send", "returned", "done"}
    /\ idx \in Nat /\ ret \in ProxyCodes /\ run_flag \in BOOLEAN
    /\ config \in [b_encrypt_in : BOOLEAN, b_encrypt_out : BOOLEAN]
    /\ status \in {"none", "running", EXIT_SUCCESS, EXIT_FAILURE}
    /\ conns \in [ConnIds -> ConnType]
    /\ SockTyped(sock) /\ sent \in [ConnIds -> [Sides -> Nat]]
    /\ listen_fd \in FdSet \cup {NoFd}
    /\ call \in [conn : ConnIds, side : Sides] \cup {NULL}
    /\ accepted \in Nat /\ arrived \in Nat
    /\ accepted <= arrived /\ arrived <= MaxClients

\* Every watched descriptor is the listener's or a live connection's.
Owners(m, k, l) ==
    \A f \in Watched(m) :
      \/ f = l /\ HandlerAt(m, f) = "accept_callback" /\ DataAt(m, f) = NULL
      \/ /\ DataAt(m, f) \in ConnIds /\ k[DataAt(m, f)].st = "live"
         /\ \E side \in Sides : f = k[DataAt(m, f)].fd[side]
         /\ HandlerAt(m, f) # "accept_callback"

\* Clients that accept() has not returned have neither context nor socket.
Fresh(s, k, n) ==
    /\ \A c \in ConnIds : c > n => k[c].st = "unused"
    /\ \A f \in FdSet : s[f].peer.conn <= n

\* The listener is element 0; it is reported ready only when a client waits,
\* and accept() is called once for a report.
Listener ==
    /\ pc = "setup" => mgr = EmptyTable /\ listen_fd = NoFd
    /\ listen_fd # NoFd => listen_fd # 0 /\ sock[listen_fd].st = "listen"
    /\ pc \in {"check", "poll", "dispatch", "send"} =>
         /\ listen_fd # NoFd
         /\ 0 \in Used(mgr) /\ mgr.pfds[0].fd = listen_fd
         /\ mgr.events[0].callback = "accept_callback"
    /\ Running => sock[0].st = "stdin"
    /\ pc = "dispatch" /\ idx = 0 /\ mgr.pfds[0].revents # {}
         /\ "POLLERR" \notin mgr.pfds[0].revents => accepted < arrived

\* conn_callback goes on with a live connection.
CallOK == pc = "send" => call \in [conn : ConnIds, side : Sides] /\ Live(call.conn)

Structure ==
    /\ Sound(mgr)
    /\ \A c \in ConnIds : Live(c) => ConnInv(mgr, sock, c, conns[c])
    /\ Owners(mgr, conns, listen_fd)
    /\ Fresh(sock, conns, accepted)
    /\ Listener
    /\ CallOK

IInv ==
    /\ Types
    /\ mgr.max_idx \in 0 .. MAX_EVENTS /\ mgr.num_events \in 0 .. MAX_EVENTS
    /\ NoDoubleFree
    /\ pc # "done" => Structure
    /\ \A c \in ConnIds, side \in Sides :
         LET b == conns[c].buf[side]
         IN  b.read_pos <= Len(b.data) /\ Len(b.data) <= BUF_SIZ

-----------------------------------------------------------------------------
(* One connection changes and the others stay.                             *)

LEMMA SideFacts ==
    /\ Sides = {"client", "server"} /\ Other("client") = "server" /\ Other("server") = "client"
    /\ \A side \in Sides : Other(side) \in Sides /\ Other(side) # side
                           /\ Other(Other(side)) = side
    /\ NoFd \notin FdSet /\ FdSet \subseteq Nat /\ 0 \in FdSet
    /\ ConnIds \subseteq Nat /\ 0 \notin ConnIds /\ NULL \notin ConnIds
BY SocketsAssumption, ProxyAssumption DEF Sides, Other, FdSet, NoFd, ConnIds

\* A descriptor is a side of some client's connection, or has no peer.
LEMMA PeerTyped ==
    ASSUME Types, NEW f \in FdSet
    PROVE  /\ sock[f] \in SockType
           /\ sock[f].peer = NoPeer \/ sock[f].peer \in [conn : ConnIds, side : Sides]
           /\ sock[f].peer.conn \in Nat
           /\ sock[f].peer.conn = 0 <=> sock[f].peer = NoPeer
<1>1. sock[f] \in SockType
  BY DEF Types, SockTyped
<1>2. sock[f].peer = NoPeer \/ sock[f].peer \in [conn : ConnIds, side : Sides]
  BY <1>1 DEF SockType
<1>3. CASE sock[f].peer = NoPeer
  BY <1>1, <1>3 DEF NoPeer
<1>4. CASE sock[f].peer \in [conn : ConnIds, side : Sides]
  <2>1. sock[f].peer.conn \in ConnIds
    BY <1>4
  <2>2. NoPeer.conn = 0
    BY DEF NoPeer
  <2> QED
    BY <1>1, <1>4, <2>1, <2>2, SideFacts
<1> QED
  BY <1>2, <1>3, <1>4

\* A connection keeps its invariant while its sockets keep their peers and its
\* elements stay as they are.
LEMMA ConnFrame ==
    ASSUME NEW m, NEW n, NEW s, NEW t, NEW d, NEW k, ConnInv(m, s, d, k),
           \A f \in FdSet : s[f].peer.conn = d =>
             /\ Same(m, n, f) /\ t[f].peer = s[f].peer
             /\ s[f].st \in Connected => t[f].st \in Connected,
           \A f \in FdSet : t[f].peer.conn = d => t[f].peer = s[f].peer
    PROVE  ConnInv(n, t, d, k)
<1>1. \A side \in Sides : k.fd[side] # NoFd =>
        /\ k.fd[side] \in FdSet /\ k.fd[side] # 0
        /\ s[k.fd[side]].peer = [conn |-> d, side |-> side]
        /\ s[k.fd[side]].peer.conn = d
        /\ s[k.fd[side]].st \in Connected
  BY DEF ConnInv, Owned
<1>2. \A side \in Sides : k.fd[side] # NoFd => Same(m, n, k.fd[side])
  BY <1>1
<1>3. Owned(t, d, k)
  BY <1>1 DEF ConnInv, Owned
<1>4. CASE Opening(m, d, k)
  <2>1. Opening(n, d, k)
    BY <1>2, <1>4, SideFacts DEF Opening, Same
  <2>2. MasksFit(n, k)
    BY <1>2 DEF ConnInv, MasksFit, Same
  <2> QED
    BY <1>3, <2>1, <2>2 DEF ConnInv
<1>5. CASE Serving(m, d, k)
  <2>1. Serving(n, d, k)
    BY <1>2, <1>5, SideFacts DEF Serving, Same
  <2>2. MasksFit(n, k)
    BY <1>2 DEF ConnInv, MasksFit, Same
  <2> QED
    BY <1>3, <2>1, <2>2 DEF ConnInv
<1> QED
  BY <1>4, <1>5 DEF ConnInv

\* A step of a callback that touches only connection c, and of the descriptors
\* only those in F, which are c's or nobody's.
Touches(c, F) ==
    /\ Sound(mgr') /\ Outside(mgr, mgr', F)
    /\ \A f \in F : /\ f \in FdSet /\ f # listen_fd /\ sock[f].peer.conn \in {0, c}
                    /\ sock'[f].peer.conn \in {0, c}
    /\ \A f \in FdSet \ F : sock'[f] = sock[f]
    /\ \A d \in ConnIds : d # c => conns'[d] = conns[d]
    /\ conns'[c].st = "live" => ConnInv(mgr', sock', c, conns'[c])
    /\ \A f \in Watched(mgr') : f \in F =>
         /\ DataAt(mgr', f) = c /\ HandlerAt(mgr', f) # "accept_callback"
         /\ conns'[c].st = "live" /\ \E side \in Sides : f = conns'[c].fd[side]
    /\ \A f \in Watched(mgr') : f \notin F /\ DataAt(mgr', f) = c =>
         conns'[c].st = "live" /\ \E side \in Sides : f = conns'[c].fd[side]

\* Such a step keeps the structure, whatever connection it was.
LEMMA OneConn ==
    ASSUME Types, Structure, NEW c \in ConnIds, NEW F, Touches(c, F),
           pc \in {"dispatch", "send"}, pc' \in {"dispatch", "send", "returned"},
           pc' = "dispatch" => idx' # 0,
           pc' # "returned" => sock'[0].st = "stdin",
           listen_fd' = listen_fd, accepted' \in Nat, accepted <= accepted',
           c <= accepted' \/ (conns'[c] = conns[c] /\ \A f \in F : sock'[f].peer.conn = 0),
           CallOK'
    PROVE  Structure'
<1> USE SideFacts
<1>0. /\ Sound(mgr) /\ Sound(mgr')
      /\ \A d \in ConnIds : Live(d) => ConnInv(mgr, sock, d, conns[d])
      /\ Owners(mgr, conns, listen_fd) /\ Fresh(sock, conns, accepted) /\ Listener
  BY DEF Structure, Touches
<1>1. \A g \in Nat : g \notin F => Same(mgr, mgr', g)
  BY <1>0, OutsideSame DEF Touches
<1>2. ASSUME NEW d \in ConnIds, conns'[d].st = "live"
      PROVE  ConnInv(mgr', sock', d, conns'[d])
  <2>1. CASE d = c
    BY <1>2, <2>1 DEF Touches
  <2>2. CASE d # c
    <3>1. conns'[d] = conns[d] /\ ConnInv(mgr, sock, d, conns[d])
      BY <1>0, <1>2, <2>2 DEF Touches, Live
    <3>2. d # 0
      OBVIOUS
    <3>3. \A f \in FdSet : sock[f].peer.conn = d \/ sock'[f].peer.conn = d => f \notin F
      BY <2>2, <3>2 DEF Touches
    <3>4. \A f \in FdSet : sock[f].peer.conn = d \/ sock'[f].peer.conn = d =>
            sock'[f] = sock[f] /\ Same(mgr, mgr', f)
      BY <1>1, <3>3 DEF Touches
    <3>5. ConnInv(mgr', sock', d, conns[d])
      BY <3>1, <3>4, ConnFrame
    <3> QED
      BY <3>1, <3>5
  <2> QED
    BY <2>1, <2>2
<1>3. Owners(mgr', conns', listen_fd')
  <2> SUFFICES ASSUME NEW f \in Watched(mgr')
               PROVE  \/ /\ f = listen_fd' /\ HandlerAt(mgr', f) = "accept_callback"
                         /\ DataAt(mgr', f) = NULL
                      \/ /\ DataAt(mgr', f) \in ConnIds /\ conns'[DataAt(mgr', f)].st = "live"
                         /\ \E side \in Sides : f = conns'[DataAt(mgr', f)].fd[side]
                         /\ HandlerAt(mgr', f) # "accept_callback"
    BY DEF Owners
  <2>1. f \in Nat
    BY <1>0, WatchedTyped
  <2>2. CASE f \in F
    BY <2>2 DEF Touches
  <2>3. CASE f \notin F
    <3>1. /\ f \in Watched(mgr) /\ HandlerAt(mgr', f) = HandlerAt(mgr, f)
          /\ DataAt(mgr', f) = DataAt(mgr, f)
      BY <1>1, <2>1, <2>3 DEF Same
    <3>2. \/ f = listen_fd /\ HandlerAt(mgr, f) = "accept_callback" /\ DataAt(mgr, f) = NULL
          \/ /\ DataAt(mgr, f) \in ConnIds /\ conns[DataAt(mgr, f)].st = "live"
             /\ \E side \in Sides : f = conns[DataAt(mgr, f)].fd[side]
             /\ HandlerAt(mgr, f) # "accept_callback"
      BY <1>0, <3>1 DEF Owners
    <3>3. CASE DataAt(mgr, f) = c
      BY <2>3, <3>1, <3>2, <3>3 DEF Touches
    <3>4. CASE DataAt(mgr, f) # c
      BY <3>1, <3>2, <3>4, ZenonT(40) DEF Touches
    <3> QED
      BY <3>3, <3>4
  <2> QED
    BY <2>2, <2>3
<1>4. Fresh(sock', conns', accepted')
  <2>0. accepted \in Nat /\ c \in Nat /\ \A d \in ConnIds : d \in Nat
    BY DEF Types
  <2>1. \A d \in ConnIds : d > accepted' => d > accepted /\ conns'[d] = conns[d]
    BY <2>0 DEF Touches
  <2>2. \A d \in ConnIds : d > accepted' => conns'[d].st = "unused"
    BY <1>0, <2>1 DEF Fresh
  <2>3. \A f \in FdSet : sock'[f].peer.conn <= accepted'
    <3> SUFFICES ASSUME NEW f \in FdSet PROVE sock'[f].peer.conn <= accepted'
      OBVIOUS
    <3>1. CASE f \in F
      <4>1. sock'[f].peer.conn = 0 \/ (sock'[f].peer.conn = c /\ c <= accepted')
        BY <3>1 DEF Touches
      <4> QED
        BY <2>0, <4>1
    <3>2. CASE f \notin F
      <4>1. sock'[f] = sock[f] /\ sock[f].peer.conn <= accepted
        BY <1>0, <3>2 DEF Touches, Fresh
      <4>2. sock[f].peer.conn \in Nat
        BY PeerTyped
      <4> QED
        BY <2>0, <4>1, <4>2
    <3> QED
      BY <3>1, <3>2
  <2> QED
    BY <2>2, <2>3 DEF Fresh
<1>5. Listener'
  <2>1. /\ listen_fd \in FdSet /\ listen_fd # 0 /\ sock[listen_fd].st = "listen"
        /\ 0 \in Used(mgr) /\ mgr.pfds[0].fd = listen_fd
        /\ mgr.events[0].callback = "accept_callback"
    BY <1>0 DEF Listener, Types
  <2>2. listen_fd \notin F
    BY DEF Touches
  <2>3. sock'[listen_fd] = sock[listen_fd]
    BY <2>1, <2>2 DEF Touches
  <2>4. 0 \in Used(mgr') /\ mgr'.pfds[0] = mgr.pfds[0] /\ mgr'.events[0] = mgr.events[0]
    BY <2>1, <2>2 DEF Touches, Outside
  <2> QED
    BY <2>1, <2>3, <2>4 DEF Listener, Running
<1> QED
  BY <1>0, <1>2, <1>3, <1>4, <1>5 DEF Structure, Live

-----------------------------------------------------------------------------
(* The element being dispatched, and close_connection.                     *)

\* handle_event's look-up through the descriptor finds the element it is at.
LEMMA Dispatched ==
    ASSUME Types, Structure, Dispatching
    PROVE  /\ pc = "dispatch" /\ idx \in Used(mgr) /\ Fd \in Watched(mgr) /\ Fd \in Nat
           /\ EventIdx = idx /\ Conn = DataAt(mgr, Fd)
           /\ mgr.events[EventIdx].callback = HandlerAt(mgr, Fd)
<1>1. Sound(mgr) /\ idx \in Used(mgr) /\ pc = "dispatch"
  BY DEF Structure, Dispatching, Used
<1>2. Fd \in Nat /\ Fd \in Watched(mgr) /\ get_idx_from_fd(mgr, Fd) = idx
  BY <1>1, SlotIs DEF Fd
<1> QED
  BY <1>1, <1>2 DEF EventIdx, Conn, Fd, DataAt, HandlerAt

\* What holds of any live connection, spelled out.
LEMMA LiveConn ==
    ASSUME Types, Structure, NEW c \in ConnIds, Live(c)
    PROVE  /\ c \in Nat /\ c <= accepted /\ conns[c] \in ConnType
           /\ ConnInv(mgr, sock, c, conns[c])
           /\ \A side \in Sides : conns[c].fd[side] \in FdSet \cup {NoFd}
           /\ \A f \in FdsOf(c) :
                /\ f \in FdSet /\ f \in Nat /\ f # 0 /\ f # NoFd /\ sock[f].peer.conn = c
                /\ sock[f].st \in Connected /\ f # listen_fd
                /\ \E side \in Sides : f = conns[c].fd[side]
           /\ \A side \in Sides : conns[c].fd[side] # NoFd => conns[c].fd[side] \in FdsOf(c)
           /\ \A f \in FdSet : sock[f].peer.conn = c => f \in FdsOf(c)
           /\ \A f \in Watched(mgr) : DataAt(mgr, f) = c => f \in FdsOf(c)
<1> USE SideFacts
<1>1. c \in Nat /\ conns[c] \in ConnType /\ accepted \in Nat
  BY DEF Types
<1>2. c <= accepted
  BY <1>1 DEF Structure, Fresh, Live
<1>3. ConnInv(mgr, sock, c, conns[c]) /\ Owned(sock, c, conns[c])
  BY DEF Structure, ConnInv
<1>4. \A side \in Sides : conns[c].fd[side] \in FdSet \cup {NoFd}
  BY <1>1 DEF ConnType
<1>5. \A side \in Sides : conns[c].fd[side] # NoFd => conns[c].fd[side] \in FdsOf(c)
  BY DEF FdsOf
<1>6. ASSUME NEW f \in FdsOf(c)
      PROVE  /\ f \in FdSet /\ f \in Nat /\ f # 0 /\ f # NoFd /\ sock[f].peer.conn = c
             /\ sock[f].st \in Connected /\ f # listen_fd
             /\ \E side \in Sides : f = conns[c].fd[side]
  <2>1. PICK side \in Sides : f = conns[c].fd[side] /\ f # NoFd
    BY DEF FdsOf
  <2>2. /\ f \in FdSet /\ f # 0 /\ sock[f].peer = [conn |-> c, side |-> side]
        /\ sock[f].st \in Connected
    BY <1>3, <2>1 DEF Owned
  <2>3. sock[f].peer.conn = c /\ f \in Nat
    BY <2>2
  <2>4. f # listen_fd
    BY <2>1, <2>2 DEF Structure, Listener, Connected
  <2> QED
    BY <2>1, <2>2, <2>3, <2>4
<1>7. ASSUME NEW f \in FdSet, sock[f].peer.conn = c
      PROVE  f \in FdsOf(c)
  <2>1. sock[f].peer \in [conn : ConnIds, side : Sides]
    BY <1>7, PeerTyped
  <2>2. conns[c].fd[sock[f].peer.side] = f /\ sock[f].peer.side \in Sides
    BY <1>3, <1>7, <2>1 DEF Owned
  <2> QED
    BY <2>2 DEF FdsOf
<1>8. ASSUME NEW f \in Watched(mgr), DataAt(mgr, f) = c
      PROVE  f \in FdsOf(c)
  <2>1. f \in Nat /\ f # NoFd
    BY WatchedTyped DEF Structure, NoFd
  <2>2. \E side \in Sides : f = conns[c].fd[side]
    BY <1>8 DEF Structure, Owners
  <2> QED
    BY <2>1, <2>2 DEF FdsOf
<1> QED
  BY <1>1, <1>2, <1>3, <1>4, <1>5, <1>6, <1>7, <1>8

\* The connection whose callback is invoked.
LEMMA AtConnection ==
    ASSUME Types, Structure, NEW callback \in Handlers \ {"accept_callback"}, At(callback)
    PROVE  /\ Conn \in ConnIds /\ Live(Conn) /\ HandlerAt(mgr, Fd) = callback
           /\ pc = "dispatch" /\ Fd \in FdSet /\ Fd # NoFd /\ Fd \in Watched(mgr)
           /\ SideOf(Conn, Fd) \in Sides /\ conns[Conn].fd[SideOf(Conn, Fd)] = Fd
           /\ Fd \in FdsOf(Conn)
<1> USE SideFacts
<1>1. /\ pc = "dispatch" /\ Fd \in Watched(mgr) /\ Fd \in Nat
      /\ Conn = DataAt(mgr, Fd) /\ HandlerAt(mgr, Fd) = callback
  BY Dispatched DEF At
<1>2. /\ Conn \in ConnIds /\ Live(Conn)
      /\ \E side \in Sides : Fd = conns[Conn].fd[side]
  BY <1>1 DEF Structure, Owners, Live
<1>3. SideOf(Conn, Fd) \in Sides /\ conns[Conn].fd[SideOf(Conn, Fd)] = Fd
  BY <1>2 DEF SideOf
<1>4. Fd \in FdsOf(Conn)
  BY <1>1, <1>2, LiveConn
<1>5. Fd \in FdSet
  BY <1>2, <1>4, LiveConn
<1> QED
  BY <1>1, <1>2, <1>3, <1>4, <1>5

\* Contexts and sockets that are set up or given up have their types.
LEMMA ConstTypes ==
    /\ FreedConn \in ConnType /\ NoConn \in ConnType
    /\ FreedConn.st = "freed" /\ NoConn.st = "unused"
    /\ \A side \in Sides : FreedConn.buf[side] = EmptyBuf /\ NoConn.buf[side] = EmptyBuf
    /\ EmptyBuf.data = << >> /\ EmptyBuf.read_pos = 0 /\ EmptyBuf \in BufType
    /\ Pending(EmptyBuf) = << >>
    /\ Closed \in SockType /\ Closed.st = "closed" /\ Closed.peer = NoPeer
    /\ Closed.ends = {} /\ Closed.peer.conn = 0
<1>1. /\ EmptyBuf.data = << >> /\ EmptyBuf.read_pos = 0 /\ EmptyBuf \in BufType
      /\ Pending(EmptyBuf) = << >>
  BY DEF EmptyBuf, BufType, Pending
<1>2. 0 \in 0 .. NN_MAX_MESSAGE_LEN - 1 /\ 0 \in 0 .. TxCap
  BY SocketsAssumption
<1>3. /\ Closed \in SockType /\ Closed.st = "closed" /\ Closed.peer = NoPeer
      /\ Closed.ends = {} /\ Closed.peer.conn = 0
  BY <1>2 DEF Closed, SockType, NoPeer
<1>4. NullNN \in [key : {"null", "created", "sent", "ready"},
                  recv_pt : Seq(Nat), send_buf_pos : 0 .. NN_MAX_MESSAGE_LEN - 1]
  BY <1>2 DEF NullNN
<1>5. /\ NoConn = [st |-> "unused", fd |-> [client |-> NoFd, server |-> NoFd],
                   buf |-> [side \in Sides |-> EmptyBuf],
                   netnacl |-> [side \in Sides |-> NullNN], ref |-> 0]
      /\ FreedConn = [st |-> "freed", fd |-> [client |-> NoFd, server |-> NoFd],
                      buf |-> [side \in Sides |-> EmptyBuf],
                      netnacl |-> [side \in Sides |-> NullNN], ref |-> 0]
  <2> DEFINE fds == [client |-> NoFd, server |-> NoFd]
             bufs == [side \in Sides |-> EmptyBuf]
             nns == [side \in Sides |-> NullNN]
  <2>1. NewConn(NoFd, NoFd) = [st |-> "live", fd |-> fds, buf |-> bufs, netnacl |-> nns, ref |-> 0]
    BY DEF NewConn
  <2> HIDE DEF fds, bufs, nns
  <2>2. NoConn = [st |-> "unused", fd |-> fds, buf |-> bufs, netnacl |-> nns, ref |-> 0]
    BY <2>1 DEF NoConn
  <2>3. FreedConn = [st |-> "freed", fd |-> fds, buf |-> bufs, netnacl |-> nns, ref |-> 0]
    BY <2>2 DEF FreedConn
  <2> QED
    BY <2>2, <2>3 DEF fds, bufs, nns
<1>6. [client |-> NoFd, server |-> NoFd] \in [Sides -> FdSet \cup {NoFd}]
  BY DEF Sides
<1>7. FreedConn \in ConnType /\ NoConn \in ConnType
  BY <1>1, <1>4, <1>5, <1>6 DEF ConnType
<1> QED
  BY <1>1, <1>3, <1>5, <1>7

\* close_connection takes both events and both sockets of the connection with
\* it and touches nothing else, whatever the table was before.
LEMMA CloseTouches ==
    ASSUME Types, Structure, NEW c \in ConnIds, Live(c), NEW m, Sound(m),
           Outside(mgr, m, FdsOf(c)), close_connection(m, c)
    PROVE  /\ Touches(c, FdsOf(c))
           /\ conns' = [conns EXCEPT ![c] = FreedConn] /\ conns'[c] = FreedConn
           /\ sock' = CloseFds(sock, FdsOf(c)) /\ sock'[0] = sock[0]
           /\ \A f \in FdSet : sock'[f].peer.conn # c
           /\ \A f \in Watched(mgr') : DataAt(mgr', f) # c
<1> USE SideFacts
<1> DEFINE F == FdsOf(c)
           one == event_remove(m, conns[c].fd["client"]).mgr
           two == event_remove(one, conns[c].fd["server"]).mgr
<1>1. /\ mgr' = two /\ sock' = CloseFds(sock, F)
      /\ conns' = [conns EXCEPT ![c] = FreedConn]
  BY DEF close_connection
<1>2. /\ conns[c].fd["client"] \in Nat \cup {NoFd} /\ conns[c].fd["server"] \in Nat \cup {NoFd}
      /\ conns[c].fd["client"] = NoFd \/ conns[c].fd["client"] \in F
      /\ conns[c].fd["server"] = NoFd \/ conns[c].fd["server"] \in F
  BY LiveConn
<1>3. Sound(one) /\ Watched(one) = Watched(m) \ {conns[c].fd["client"]} /\ Outside(m, one, F)
  BY <1>2, RemoveView, RemoveOutside
<1>4. Sound(two) /\ Watched(two) = Watched(one) \ {conns[c].fd["server"]} /\ Outside(one, two, F)
  <2> HIDE DEF one
  <2> QED
    BY <1>2, <1>3, RemoveView, RemoveOutside
<1>5. Outside(mgr, two, F)
  <2> HIDE DEF one, two
  <2>1. Outside(mgr, one, F)
    BY <1>3, OutsideTwo DEF F
  <2> QED
    BY <1>4, <2>1, OutsideTwo
<1>6. \A f \in Watched(two) : f \notin F
  <2> HIDE DEF one, two
  <2> QED
    BY <1>3, <1>4 DEF FdsOf, F
<1> HIDE DEF one, two
<1>7. \A g \in Nat : g \notin F => Same(mgr, mgr', g)
  BY <1>1, <1>4, <1>5, OutsideSame DEF Structure
<1>8. \A f \in Watched(mgr') : DataAt(mgr', f) # c
  <2> SUFFICES ASSUME NEW f \in Watched(mgr'), DataAt(mgr', f) = c PROVE FALSE
    OBVIOUS
  <2>1. f \in Nat /\ f \notin F
    BY <1>1, <1>4, <1>6, WatchedTyped
  <2>2. f \in Watched(mgr) /\ DataAt(mgr, f) = c
    BY <1>7, <2>1 DEF Same
  <2> QED
    BY <2>1, <2>2, LiveConn
<1>9. \A f \in F : /\ f \in FdSet /\ f # listen_fd /\ sock[f].peer.conn = c /\ f # 0
  BY LiveConn
<1>10. \A f \in FdSet : sock'[f] = IF f \in F THEN Closed ELSE sock[f]
  BY <1>1 DEF CloseFds
<1>11. \A f \in FdSet : sock'[f].peer.conn # c
  BY <1>10, ConstTypes, LiveConn
<1>12. conns'[c] = FreedConn /\ \A d \in ConnIds : d # c => conns'[d] = conns[d]
  BY <1>1 DEF Types
<1>13. Touches(c, F)
  <2>1. conns'[c].st # "live"
    BY <1>12, ConstTypes
  <2> QED
    BY <1>1, <1>4, <1>5, <1>6, <1>8, <1>9, <1>10, <1>12, <2>1, ConstTypes DEF Touches
<1>14. sock'[0] = sock[0]
  BY <1>9, <1>10
<1> QED
  BY <1>1, <1>8, <1>11, <1>12, <1>13, <1>14

-----------------------------------------------------------------------------
(* A callback's step keeps the invariant when it keeps its part of it.     *)

\* What a callback does to the loop: on to the next element, out of the loop,
\* or on to handle_send.
Moves ==
    \/ pc' = "dispatch" /\ idx' = idx + 1 /\ ret' = ret
    \/ pc' = "returned" /\ idx' = idx /\ ret' \in ProxyCodes
    \/ pc' = "send" /\ idx' = idx /\ ret' = ret

LEMMA NextSlotMoves ==
    ASSUME NEW err \in ProxyCodes, NextSlot(err)
    PROVE  Moves /\ pc' # "send"
BY DEF NextSlot, Moves

LEMMA CallbackInv ==
    ASSUME IInv, pc \in {"dispatch", "send"}, NEW c \in ConnIds, NEW F, Touches(c, F),
           conns' \in [ConnIds -> ConnType],
           conns'[c].st = "live" \/ conns'[c] \in {FreedConn, conns[c]},
           SockTyped(sock'), Moves, pc' # "returned" => sock'[0].st = "stdin",
           listen_fd' = listen_fd, arrived' = arrived,
           accepted' \in Nat, accepted <= accepted', accepted' <= arrived,
           c <= accepted' \/ (conns'[c] = conns[c] /\ \A f \in F : sock'[f].peer.conn = 0),
           call' \in [conn : ConnIds, side : Sides] \cup {NULL}, CallOK', sent' = sent,
           UNCHANGED <<mainVars, run_flag>>
    PROVE  IInv'
<1>0. Types /\ Structure /\ NoDoubleFree
  BY DEF IInv
<1>1. idx \in Nat /\ ret \in ProxyCodes /\ arrived \in Nat
  BY <1>0 DEF Types
<1>2. /\ pc' \in {"dispatch", "send", "returned"} /\ idx' \in Nat /\ ret' \in ProxyCodes
      /\ pc' = "dispatch" => idx' # 0
  BY <1>1 DEF Moves
<1>3. Structure'
  BY <1>0, <1>2, OneConn
<1>4. Types'
  BY <1>0, <1>2 DEF Types, mainVars
<1>5. mgr'.max_idx \in 0 .. MAX_EVENTS /\ mgr'.num_events \in 0 .. MAX_EVENTS
  BY SoundBounds DEF Touches
<1>6. NoDoubleFree'
  BY <1>0, ConstTypes DEF NoDoubleFree, Touches
<1>7. \A d \in ConnIds, side \in Sides :
        /\ conns'[d].buf[side].read_pos <= Len(conns'[d].buf[side].data)
        /\ Len(conns'[d].buf[side].data) <= BUF_SIZ
  <2> SUFFICES ASSUME NEW d \in ConnIds, NEW side \in Sides
               PROVE  /\ conns'[d].buf[side].read_pos <= Len(conns'[d].buf[side].data)
                      /\ Len(conns'[d].buf[side].data) <= BUF_SIZ
    OBVIOUS
  <2>1. CASE d # c \/ conns'[c] = conns[c]
    <3>1. conns'[d] = conns[d]
      BY <2>1 DEF Touches
    <3> QED
      BY <3>1 DEF IInv
  <2>2. CASE d = c /\ conns'[c].st = "live"
    <3>1. BufOK(conns'[c].buf[side], conns'[c].netnacl[side])
      BY <2>2 DEF Touches, ConnInv
    <3> QED
      BY <2>2, <3>1 DEF BufOK
  <2>3. CASE d = c /\ conns'[c] = FreedConn
    <3>1. conns'[d].buf[side].data = << >> /\ conns'[d].buf[side].read_pos = 0
      BY <2>3, ConstTypes
    <3>2. Len(<< >>) = 0 /\ BUF_SIZ \in Nat
      BY ProxyAssumption
    <3> QED
      BY <3>1, <3>2
  <2> QED
    BY <2>1, <2>2, <2>3
<1> QED
  BY <1>2, <1>3, <1>4, <1>5, <1>6, <1>7 DEF IInv

\* close() leaves sockets in order.
LEMMA CloseFdsTyped == ASSUME Types, NEW F PROVE SockTyped(CloseFds(sock, F))
<1> DEFINE s == CloseFds(sock, F)
<1>1. \A f \in FdSet : SockOK(sock[f])
  BY DEF Types, SockTyped
<1>2. SockOK(Closed)
  BY ConstTypes DEF Connected, SockOK
<1>3. \A f \in FdSet : s[f] = Closed \/ s[f] = sock[f]
  BY DEF CloseFds
<1>4. s = [f \in FdSet |-> s[f]]
  BY DEF CloseFds
<1> HIDE DEF s
<1>5. \A f \in FdSet : SockOK(s[f])
  BY <1>1, <1>2, <1>3
<1>6. SockTyped(s)
  BY <1>4, <1>5 DEF SockTyped, SockOK
<1> QED
  BY <1>6 DEF s

\* So does one that ends with close_connection.
LEMMA CloseInv ==
    ASSUME IInv, pc \in {"dispatch", "send"}, NEW c \in ConnIds, Live(c), NEW m, Sound(m),
           Outside(mgr, m, FdsOf(c)), close_connection(m, c), Moves, pc' # "send",
           listen_fd' = listen_fd, arrived' = arrived, accepted' = accepted,
           call' \in {call, NULL}, sent' = sent,
           UNCHANGED <<mainVars, run_flag>>
    PROVE  IInv' /\ Touches(c, FdsOf(c))
<1>0. Types /\ Structure
  BY DEF IInv
<1>1. /\ Touches(c, FdsOf(c)) /\ conns' = [conns EXCEPT ![c] = FreedConn]
      /\ conns'[c] = FreedConn /\ sock' = CloseFds(sock, FdsOf(c)) /\ sock'[0] = sock[0]
  BY <1>0, CloseTouches
<1>2. conns' \in [ConnIds -> ConnType]
  BY <1>0, <1>1, ConstTypes DEF Types
<1>3. SockTyped(sock')
  BY <1>0, <1>1, CloseFdsTyped
<1>4. sock'[0].st = "stdin"
  BY <1>0, <1>1 DEF Structure, Listener, Running
<1>5. accepted \in Nat /\ accepted <= arrived /\ c <= accepted
  BY <1>0, LiveConn DEF Types
<1>6. call' \in [conn : ConnIds, side : Sides] \cup {NULL} /\ CallOK'
  BY <1>0 DEF Types, CallOK
<1>7. IInv'
  BY <1>1, <1>2, <1>3, <1>4, <1>5, <1>6, CallbackInv
<1> QED
  BY <1>1, <1>7

-----------------------------------------------------------------------------
(* Steps that touch no connection.                                         *)

\* The loop moves, the flag or main's variables change, and nothing else.
LEMMA QuietInv ==
    ASSUME IInv, UNCHANGED <<mgr, sock, conns, listen_fd, arrived, accepted, sent, call>>,
           pc' = pc \/ pc' \in {"check", "poll", "dispatch", "returned"},
           pc = "setup" => pc' \in {"setup", "returned"},
           pc = "returned" => pc' = "returned", pc = "done" => pc' = "done",
           pc' = "dispatch" => pc = "dispatch" /\ idx' \in {idx, idx + 1},
           idx' \in Nat, ret' \in ProxyCodes, run_flag' \in BOOLEAN,
           config' \in [b_encrypt_in : BOOLEAN, b_encrypt_out : BOOLEAN],
           status' \in {"none", "running", EXIT_SUCCESS, EXIT_FAILURE}
    PROVE  IInv'
<1>0. Types /\ NoDoubleFree /\ (pc # "done" => Structure) /\ idx \in Nat
  BY DEF IInv, Types
<1>1. Types'
  BY <1>0 DEF Types
<1>2. pc' # "done" => Structure'
  <2> SUFFICES ASSUME pc' # "done" PROVE Structure'
    OBVIOUS
  <2>1. pc # "done" /\ Structure
    BY <1>0
  <2>2. Listener'
    <3>1. /\ pc' \in {"check", "poll", "dispatch", "send"} =>
                pc \in {"check", "poll", "dispatch", "send"}
          /\ pc' = "setup" => pc = "setup"
          /\ Running' => Running
          /\ pc' = "dispatch" /\ idx' = 0 => pc = "dispatch" /\ idx = 0
      BY <1>0, <2>1 DEF Types, Running
    <3>2. Listener
      BY <2>1 DEF Structure
    <3> QED
      BY <3>1, <3>2 DEF Listener
  <2>3. CallOK'
    BY <2>1 DEF Structure, CallOK, Live
  <2> QED
    BY <2>1, <2>2, <2>3 DEF Structure, Live
<1> QED
  BY <1>0, <1>1, <1>2 DEF IInv, NoDoubleFree

LEMMA CodesTyped ==
    /\ {PROXY_SUCCESS, PROXY_ERR, PROXY_MAX_EVENTS, PROXY_INTR} \subseteq ProxyCodes
    /\ PROXY_SUCCESS = 0 /\ PROXY_ERR = -1 /\ PROXY_MAX_EVENTS = -7 /\ NN_ERR = -1
    /\ PROXY_DISCONNECT = -2 /\ PROXY_WOULD_BLOCK = -3 /\ PROXY_CONNECT_ERR = -5
    /\ PROXY_INCOMPLETE_ACCEPT = -4
BY DEF ProxyCodes, PROXY_MAX_EVENTS, PROXY_SUCCESS, PROXY_ERR, PROXY_INTR, NN_ERR,
       PROXY_DISCONNECT, PROXY_WOULD_BLOCK, PROXY_CONNECT_ERR, PROXY_INCOMPLETE_ACCEPT

\* main reads the command line.
LEMMA MainInv == ASSUME IInv, main PROVE IInv'
<1>1. Types
  BY DEF IInv
<1>2. /\ config' \in [b_encrypt_in : BOOLEAN, b_encrypt_out : BOOLEAN]
      /\ status' \in {"none", "running", EXIT_SUCCESS, EXIT_FAILURE}
  <2>1. PICK argv \in CommandLines :
          \/ /\ config' = [b_encrypt_in |-> "i" \in argv.opts, b_encrypt_out |-> "o" \in argv.opts]
             /\ status' = "running"
          \/ config' = config /\ status' = EXIT_FAILURE
    BY DEF main, ReadCommandLine
  <2>2. \A p, q \in BOOLEAN : [b_encrypt_in |-> p, b_encrypt_out |-> q]
                                \in [b_encrypt_in : BOOLEAN, b_encrypt_out : BOOLEAN]
    OBVIOUS
  <2>3. ("i" \in argv.opts) \in BOOLEAN /\ ("o" \in argv.opts) \in BOOLEAN
    OBVIOUS
  <2>4. [b_encrypt_in |-> "i" \in argv.opts, b_encrypt_out |-> "o" \in argv.opts]
          \in [b_encrypt_in : BOOLEAN, b_encrypt_out : BOOLEAN]
    BY <2>2, <2>3, Zenon
  <2> QED
    BY <1>1, <2>1, <2>4 DEF Types
<1> QED
  BY <1>1, <1>2, QuietInv DEF main, loopVars, sockVars, peerVars, proxyVars, Types

\* The steps of event_run_loop other than poll() returning.
LEMMA LoopInv ==
    ASSUME IInv, CheckFlag \/ SkipSlot \/ EndRound \/ PollFails \/ Signal \/ PollInterrupted,
           UNCHANGED <<sockVars, proxyVars, mainVars>>
    PROVE  IInv'
<1>0. Types
  BY DEF IInv
<1>1. mgr' = mgr
  BY DEF CheckFlag, SkipSlot, EndRound, PollFails, Signal, PollInterrupted
<1>2. /\ pc' = pc \/ pc' \in {"check", "poll", "dispatch", "returned"}
      /\ pc = "setup" => pc' = "setup"
      /\ pc = "returned" => pc' = "returned"
      /\ pc = "done" => pc' = "done"
      /\ pc' = "dispatch" => pc = "dispatch" /\ idx' \in {idx, idx + 1}
      /\ idx' \in Nat /\ ret' \in ProxyCodes /\ run_flag' \in BOOLEAN
  <2>1. CASE CheckFlag
    BY <1>0, <2>1, CodesTyped DEF CheckFlag, Types
  <2>2. CASE SkipSlot
    BY <1>0, <2>2, CodesTyped DEF SkipSlot, NextSlot, Types
  <2>3. CASE EndRound
    BY <1>0, <2>3 DEF EndRound, Types
  <2>4. CASE PollFails
    BY <1>0, <2>4, CodesTyped DEF PollFails, Types
  <2>5. CASE Signal
    BY <1>0, <2>5 DEF Signal, Types
  <2>6. CASE PollInterrupted
    BY <1>0, <2>6, CodesTyped DEF PollInterrupted, Types
  <2> QED
    BY <2>1, <2>2, <2>3, <2>4, <2>5, <2>6
<1> QED
  BY <1>0, <1>1, <1>2, QuietInv DEF sockVars, peerVars, proxyVars, mainVars, Types

\* poll() returns: the listener is reported ready, and not in error, only when
\* a client waits.
LEMMA PollInv ==
    ASSUME IInv, PollReturns(PollReport), UNCHANGED <<sockVars, proxyVars, mainVars>>
    PROVE  IInv' /\ \A f \in FdSet : Same(mgr, mgr', f)
<1> USE SideFacts
<1>0. Types /\ Structure /\ NoDoubleFree /\ pc = "poll"
  BY DEF IInv, PollReturns
<1>1. /\ mgr' = FillReports(mgr, PollReport) /\ idx' = 0 /\ pc' = "dispatch"
      /\ run_flag' = run_flag /\ ret' = ret
  BY DEF PollReturns
<1>2. UNCHANGED <<sock, conns, listen_fd, arrived, accepted, sent, call, config, status>>
  BY DEF sockVars, peerVars, proxyVars, mainVars
<1>3. \A f \in Watched(mgr) : f \in FdSet
  <2> SUFFICES ASSUME NEW f \in Watched(mgr) PROVE f \in FdSet
    OBVIOUS
  <2>0. f \in Nat /\ f # NoFd
    BY <1>0, WatchedTyped DEF Structure, NoFd
  <2>1. CASE f = listen_fd
    BY <1>0, <2>0, <2>1 DEF Types
  <2>2. CASE DataAt(mgr, f) \in ConnIds /\ Live(DataAt(mgr, f))
    BY <1>0, <2>2, LiveConn
  <2> QED
    BY <1>0, <2>1, <2>2 DEF Structure, Owners, Live
<1>4. \A f \in FdSet : PollReport[f] \in PollReports
  <2> SUFFICES ASSUME NEW f \in FdSet PROVE PollReport[f] \in PollReports
    OBVIOUS
  <2>1. PollReport[f] \subseteq Condition(f)
    BY DEF PollReport
  <2>2. Condition(f) \subseteq {"POLLIN", "POLLOUT", "POLLERR", "POLLHUP", "POLLNVAL"}
    BY DEF Condition, ErrorReport
  <2> QED
    BY <2>1, <2>2 DEF PollReports
<1>5. \A i \in Used(mgr) : PollReport[mgr.pfds[i].fd] \in PollReports
  BY <1>3, <1>4 DEF Watched
<1>6. /\ Sound(mgr') /\ Used(mgr') = Used(mgr)
      /\ \A g \in Nat : Same(mgr, mgr', g)
      /\ \A i \in Used(mgr) : /\ mgr'.pfds[i].fd = mgr.pfds[i].fd
                              /\ mgr'.pfds[i].revents = PollReport[mgr.pfds[i].fd]
                              /\ mgr'.events[i] = mgr.events[i]
  BY <1>0, <1>1, <1>5, FillView DEF Structure
<1>7. \A c \in ConnIds : conns'[c].st = "live" => ConnInv(mgr', sock', c, conns'[c])
  <2> SUFFICES ASSUME NEW c \in ConnIds, conns[c].st = "live"
               PROVE  ConnInv(mgr', sock, c, conns[c])
    BY <1>2
  <2>1. ConnInv(mgr, sock, c, conns[c])
    BY <1>0 DEF Structure, Live
  <2> QED
    BY <1>6, <2>1, ConnFrame
<1>8. Owners(mgr', conns', listen_fd')
  <2>1. \A f \in Watched(mgr') : /\ f \in Watched(mgr) /\ HandlerAt(mgr', f) = HandlerAt(mgr, f)
                                 /\ DataAt(mgr', f) = DataAt(mgr, f)
    BY <1>6, WatchedTyped DEF Same
  <2> QED
    BY <1>0, <1>2, <2>1 DEF Structure, Owners
<1>9. Listener'
  <2>1. /\ listen_fd \in FdSet /\ listen_fd # 0 /\ sock[listen_fd].st = "listen"
        /\ 0 \in Used(mgr) /\ mgr.pfds[0].fd = listen_fd /\ sock[0].st = "stdin"
        /\ mgr.events[0].callback = "accept_callback"
    BY <1>0 DEF Types, Structure, Listener, Running
  <2>2. mgr'.pfds[0].revents = PollReport[listen_fd]
    BY <1>6, <2>1
  <2>3. PollReport[listen_fd] # {} /\ "POLLERR" \notin PollReport[listen_fd] => accepted < arrived
    <3>1. Condition(listen_fd) = (IF accepted < arrived THEN {"POLLIN"} ELSE {})
                                   \cup ErrorReport(sock[listen_fd])
      BY <2>1 DEF Condition
    <3>2. \/ ErrorReport(sock[listen_fd]) = {}
          \/ ErrorReport(sock[listen_fd]) = {"POLLERR", "POLLHUP"}
      BY DEF ErrorReport
    <3>3. PollReport[listen_fd] = Condition(listen_fd) \cap
                                    (MaskOf(listen_fd) \cup {"POLLERR", "POLLHUP", "POLLNVAL"})
      BY <2>1 DEF PollReport
    <3> QED
      BY <3>1, <3>2, <3>3
  <2> QED
    BY <1>1, <1>2, <1>6, <2>1, <2>2, <2>3 DEF Listener, Running
<1>10. Structure'
  BY <1>0, <1>1, <1>2, <1>6, <1>7, <1>8, <1>9 DEF Structure, Fresh, Live, CallOK
<1>11. Types'
  BY <1>0, <1>1, <1>2 DEF Types
<1>12. \A f \in FdSet : Same(mgr, mgr', f)
  BY <1>6
<1>13. IInv'
  BY <1>0, <1>1, <1>2, <1>6, <1>10, <1>11, SoundBounds DEF IInv, NoDoubleFree
<1> QED
  BY <1>12, <1>13

-----------------------------------------------------------------------------
(* What the peers do.                                                      *)

\* A socket changes and stays the socket it was.
LEMMA SockChange ==
    ASSUME IInv, NEW f \in FdSet, NEW x, sock' = [sock EXCEPT ![f] = x], SockOK(x),
           x.peer = sock[f].peer, sock[f].st \notin Connected => x.st = sock[f].st,
           arrived' \in Nat, arrived <= arrived', arrived' <= MaxClients,
           sent' \in [ConnIds -> [Sides -> Nat]], accepted' = accepted,
           UNCHANGED <<loopVars, proxyVars, mainVars>>
    PROVE  IInv'
<1>0. Types /\ NoDoubleFree /\ (pc # "done" => Structure)
  BY DEF IInv
<1>1. /\ UNCHANGED <<mgr, pc, idx, run_flag, ret, conns, listen_fd, call, config, status>>
      /\ UNCHANGED accepted
  BY DEF loopVars, proxyVars, mainVars
<1>2. /\ sock' \in [FdSet -> SockType] /\ sock'[f] = x
      /\ \A g \in FdSet : g # f => sock'[g] = sock[g]
  BY <1>0 DEF Types, SockTyped, SockOK
<1>3. SockTyped(sock')
  BY <1>0, <1>2 DEF SockTyped, Types
<1>4. \A g \in FdSet : /\ sock'[g].peer = sock[g].peer
                       /\ sock[g].st \notin Connected => sock'[g].st = sock[g].st
                       /\ sock[g].st \in Connected => sock'[g].st \in Connected
  <2>1. sock[f].st \in Connected => x.st \in Connected
    BY <1>0 DEF Types, SockTyped, SockOK
  <2> QED
    BY <1>2, <2>1
<1>5. Types'
  BY <1>0, <1>1, <1>3 DEF Types
<1>6. ASSUME pc # "done" PROVE Structure'
  <2>0. Structure
    BY <1>0, <1>6
  <2>1. \A c \in ConnIds : conns[c].st = "live" => ConnInv(mgr, sock', c, conns[c])
    <3> SUFFICES ASSUME NEW c \in ConnIds, conns[c].st = "live"
                 PROVE  ConnInv(mgr, sock', c, conns[c])
      OBVIOUS
    <3>1. ConnInv(mgr, sock, c, conns[c])
      BY <2>0 DEF Structure, Live
    <3>2. \A g \in FdSet : Same(mgr, mgr, g)
      BY DEF Same
    <3> QED
      BY <1>4, <3>1, <3>2, ConnFrame, ZenonT(40)
  <2>2. Fresh(sock', conns, accepted)
    BY <1>4, <2>0 DEF Structure, Fresh
  <2>3. Listener'
    <3>1. \A g \in {listen_fd, 0} : g \in FdSet /\ sock[g].st \in {"listen", "stdin"} =>
            sock'[g].st = sock[g].st
      BY <1>4 DEF Connected
    <3>2. listen_fd # NoFd => listen_fd \in FdSet
      BY <1>0 DEF Types
    <3>3. 0 \in FdSet
      BY SideFacts
    <3>4. accepted < arrived => accepted < arrived'
      BY <1>0 DEF Types
    <3>5. Listener
      BY <2>0 DEF Structure
    <3> QED
      BY <1>1, <3>1, <3>2, <3>3, <3>4, <3>5 DEF Listener, Running
  <2>4. CallOK'
    BY <1>1, <2>0 DEF Structure, CallOK, Live
  <2> QED
    BY <1>1, <2>0, <2>1, <2>2, <2>3, <2>4 DEF Structure, Live
<1>7. NoDoubleFree'
  BY <1>0, <1>1 DEF NoDoubleFree
<1> QED
  BY <1>1, <1>5, <1>6, <1>7 DEF IInv

\* Bytes that arrive are added behind the others.
LEMMA ArriveOK ==
    ASSUME NEW x, SockOK(x), NEW bytes \in Seq(Nat), Len(bytes) > 0
    PROVE  /\ SockOK(Arrive(x, bytes))
           /\ Arrive(x, bytes).peer = x.peer /\ Arrive(x, bytes).st = x.st
<1> DEFINE y == Arrive(x, bytes)
           all == x.rx \o bytes
           ends == x.ends \cup {Len(x.rx) + Len(bytes)}
<1>1. x \in SockType /\ x.rx \in Seq(Nat) /\ x.ends \in SUBSET Nat
  BY DEF SockOK, SockType
<1>2. all \in Seq(Nat) /\ Len(all) = Len(x.rx) + Len(bytes) /\ Len(x.rx) \in Nat
      /\ Len(bytes) \in Nat
  BY <1>1
<1>3. ends \subseteq 1 .. Len(all) /\ ends \in SUBSET Nat
  BY <1>1, <1>2 DEF SockOK
<1>4. y = [x EXCEPT !.rx = all, !.ends = ends]
  BY DEF Arrive
<1> HIDE DEF all, ends, y
<1>5. /\ y \in SockType /\ y.rx = all /\ y.ends = ends /\ y.st = x.st /\ y.peer = x.peer
  BY <1>1, <1>2, <1>3, <1>4 DEF SockType
<1>6. SockOK(y)
  BY <1>3, <1>5 DEF SockOK
<1> QED
  BY <1>5, <1>6 DEF y

\* The same when only the socket changes.
LEMMA SockChangeOnly ==
    ASSUME IInv, NEW f \in FdSet, NEW x, sock' = [sock EXCEPT ![f] = x], SockOK(x),
           x.peer = sock[f].peer, sock[f].st \notin Connected => x.st = sock[f].st,
           UNCHANGED <<loopVars, proxyVars, mainVars, arrived, accepted, sent>>
    PROVE  IInv'
<1>1. /\ arrived' \in Nat /\ arrived <= arrived' /\ arrived' <= MaxClients
      /\ sent' \in [ConnIds -> [Sides -> Nat]] /\ accepted' = accepted
  BY DEF IInv, Types
<1>2. UNCHANGED <<loopVars, proxyVars, mainVars>>
  OBVIOUS
<1> QED
  BY <1>1, <1>2, SockChange

LEMMA PeerInv == ASSUME IInv, NEW f \in FdSet, Peer(f) PROVE IInv'
<1>0. /\ Types /\ SockOK(sock[f]) /\ sock[f] \in SockType
      /\ arrived \in Nat /\ sent \in [ConnIds -> [Sides -> Nat]] /\ arrived <= MaxClients
      /\ MaxClients \in Nat /\ sock \in [FdSet -> SockType]
  BY SocketsAssumption DEF IInv, Types, SockTyped, SockOK
<1>1. UNCHANGED <<loopVars, proxyVars, mainVars>>
  BY DEF Peer
<1>2. CASE ClientConnects(f)
  <2>1. sock' = [sock EXCEPT ![f] = sock[f]]
    BY <1>0, <1>2 DEF ClientConnects
  <2>2. arrived' \in Nat /\ arrived <= arrived' /\ arrived' <= MaxClients
    BY <1>0, <1>2 DEF ClientConnects
  <2>3. sent' = sent /\ accepted' = accepted
    BY <1>2 DEF ClientConnects
  <2> QED
    BY <1>0, <1>1, <2>1, <2>2, <2>3, SockChange
<1>3. CASE PeerSendsKey(f)
  <2> DEFINE x == [Arrive(sock[f], <<Key>>) EXCEPT !.hello = TRUE]
  <2>1. <<Key>> \in Seq(Nat) /\ Len(<<Key>>) > 0
    BY DEF Key
  <2>2. /\ SockOK(Arrive(sock[f], <<Key>>))
        /\ Arrive(sock[f], <<Key>>).peer = sock[f].peer /\ Arrive(sock[f], <<Key>>).st = sock[f].st
    BY <1>0, <2>1, ArriveOK
  <2>3. SockOK(x) /\ x.peer = sock[f].peer /\ x.st = sock[f].st
    BY <2>2 DEF SockOK, SockType
  <2>4. sock' = [sock EXCEPT ![f] = x] /\ UNCHANGED <<arrived, accepted, sent>>
    BY <1>3 DEF PeerSendsKey, UpdateSock, peerVars
  <2> HIDE DEF x
  <2> QED
    BY <1>1, <2>3, <2>4, SockChangeOnly
<1>4. CASE PeerSends(f)
  <2> DEFINE c == sock[f].peer.conn
             side == sock[f].peer.side
  <2>1. sock[f].peer \in [conn : ConnIds, side : Sides]
    BY <1>0, <1>4, PeerTyped DEF PeerSends, Healthy, SockOK, Connected
  <2>2. c \in ConnIds /\ side \in Sides
    BY <2>1
  <2> HIDE DEF c, side
  <2>3. sent[c][side] \in Nat
    BY <1>0, <2>2
  <2>4. PICK n \in 1 .. (IF Encrypted(side) THEN NN_MAX_MESSAGE_LEN ELSE 1) :
          /\ sent' = [sent EXCEPT ![c][side] = @ + n]
          /\ sock' = [sock EXCEPT ![f] =
               Arrive(sock[f], [i \in 1 .. n |-> sent[c][side] + i])]
    BY <1>4 DEF PeerSends, UpdateSock, c, side
  <2>5. n \in Nat /\ n > 0
    BY <2>4, SocketsAssumption
  <2> DEFINE bytes == [i \in 1 .. n |-> sent[c][side] + i]
  <2>6. bytes \in Seq(Nat) /\ Len(bytes) > 0
    BY <2>3, <2>5
  <2>7. sent' \in [ConnIds -> [Sides -> Nat]]
    BY <1>0, <2>2, <2>3, <2>4, <2>5
  <2>8. UNCHANGED <<arrived, accepted>>
    BY <1>4 DEF PeerSends
  <2>9. sock' = [sock EXCEPT ![f] = Arrive(sock[f], bytes)]
    BY <2>4
  <2> HIDE DEF bytes
  <2> QED
    <3>1. arrived' \in Nat /\ arrived <= arrived' /\ arrived' <= MaxClients
      BY <1>0, <2>8
    <3>2. /\ SockOK(Arrive(sock[f], bytes)) /\ Arrive(sock[f], bytes).peer = sock[f].peer
          /\ Arrive(sock[f], bytes).st = sock[f].st
      BY <1>0, <2>6, ArriveOK
    <3> QED
      BY <1>1, <2>7, <2>8, <2>9, <3>1, <3>2, SockChange
<1>5. CASE PeerCloses(f) \/ PeerFails(f) \/ PeerReads(f) \/ ConnectSettles(f)
  <2>1. UNCHANGED <<arrived, accepted, sent>>
    BY <1>5 DEF PeerCloses, PeerFails, PeerReads, ConnectSettles, peerVars
  <2>2. \E x : /\ sock' = [sock EXCEPT ![f] = x] /\ SockOK(x) /\ x.peer = sock[f].peer
               /\ sock[f].st \notin Connected => x.st = sock[f].st
    <3>1. CASE PeerCloses(f)
      <4>1. sock' = [sock EXCEPT ![f] = [sock[f] EXCEPT !.eof = TRUE]]
        BY <3>1 DEF PeerCloses, UpdateSock
      <4> DEFINE x == [sock[f] EXCEPT !.eof = TRUE]
      <4>2. SockOK(x) /\ x.peer = sock[f].peer /\ x.st = sock[f].st
        BY <1>0 DEF SockOK, SockType
      <4> QED
        BY <4>1, <4>2
    <3>2. CASE PeerFails(f)
      <4>1. PICK e \in {"reset", "timeout"} : sock' = [sock EXCEPT ![f] = [sock[f] EXCEPT !.err = e]]
        BY <3>2, SocketsAssumption DEF PeerFails, UpdateSock
      <4> DEFINE x == [sock[f] EXCEPT !.err = e]
      <4>2. SockOK(x) /\ x.peer = sock[f].peer /\ x.st = sock[f].st
        BY <1>0 DEF SockOK, SockType
      <4> QED
        BY <4>1, <4>2
    <3>3. CASE PeerReads(f)
      <4>1. sock' = [sock EXCEPT ![f] = [sock[f] EXCEPT !.room = TxCap]]
        BY <3>3 DEF PeerReads, UpdateSock
      <4> DEFINE x == [sock[f] EXCEPT !.room = TxCap]
      <4>2. SockOK(x) /\ x.peer = sock[f].peer /\ x.st = sock[f].st
        <5>1. TxCap \in 0 .. TxCap
          BY SocketsAssumption
        <5> QED
          BY <1>0, <5>1 DEF SockOK, SockType
      <4> QED
        BY <4>1, <4>2
    <3>4. CASE ConnectSettles(f)
      <4>1. PICK st \in {"open", "failed"} : sock' = [sock EXCEPT ![f] = [sock[f] EXCEPT !.st = st]]
        BY <3>4 DEF ConnectSettles, UpdateSock
      <4>2. sock[f].st \in Connected
        BY <3>4 DEF ConnectSettles, Connected
      <4> DEFINE x == [sock[f] EXCEPT !.st = st]
      <4>3. SockOK(x) /\ x.peer = sock[f].peer
        BY <1>0, <4>2 DEF SockOK, SockType, Connected
      <4> QED
        BY <4>1, <4>2, <4>3
    <3> QED
      BY <1>5, <3>1, <3>2, <3>3, <3>4
  <2> QED
    BY <1>1, <2>1, <2>2, SockChangeOnly
<1> QED
  BY <1>2, <1>3, <1>4, <1>5 DEF Peer, PeerStep

LEMMA ListenerFailsInv == ASSUME IInv, ListenerFails, UNCHANGED mainVars PROVE IInv'
<1>0. /\ Types /\ listen_fd \in FdSet /\ SockOK(sock[listen_fd])
      /\ arrived \in Nat /\ arrived <= MaxClients /\ sent \in [ConnIds -> [Sides -> Nat]]
  BY DEF IInv, Types, SockTyped, ListenerFails
<1> DEFINE x == [sock[listen_fd] EXCEPT !.err = "reset"]
<1>1. SockOK(x) /\ x.peer = sock[listen_fd].peer /\ x.st = sock[listen_fd].st
  BY <1>0 DEF SockOK, SockType
<1>2. sock' = [sock EXCEPT ![listen_fd] = x]
  BY DEF ListenerFails, UpdateSock
<1>3. UNCHANGED <<loopVars, proxyVars, mainVars, arrived, accepted, sent>>
  BY DEF ListenerFails, peerVars
<1> HIDE DEF x
<1> QED
  BY <1>0, <1>1, <1>2, <1>3, SockChangeOnly

-----------------------------------------------------------------------------
(* The beginning.                                                          *)

LEMMA InitInv == ASSUME Init PROVE IInv
<1> USE SideFacts, ConstTypes
<1>1. /\ config = NoConfig /\ status = "none"
      /\ mgr = EmptyTable /\ pc = "setup" /\ idx = 0 /\ run_flag = TRUE /\ ret = PROXY_SUCCESS
      /\ sock = [f \in FdSet |-> IF f = 0 THEN [Closed EXCEPT !.st = "stdin"] ELSE Closed]
      /\ arrived = 0 /\ accepted = 0 /\ sent = [c \in ConnIds |-> [side \in Sides |-> 0]]
      /\ conns = [c \in ConnIds |-> NoConn] /\ listen_fd = NoFd /\ call = NULL
  BY DEF Init, CommandLineInit, LoopInit, SocketsInit
<1>2. /\ SockOK(Closed) /\ SockOK([Closed EXCEPT !.st = "stdin"])
      /\ [Closed EXCEPT !.st = "stdin"].st = "stdin"
      /\ [Closed EXCEPT !.st = "stdin"].peer.conn = 0
  BY DEF SockOK, SockType, Connected, NoPeer
<1>3. SockTyped(sock)
  BY <1>1, <1>2 DEF SockTyped, SockOK
<1>4. Types
  <2>1. NoConfig \in [b_encrypt_in : BOOLEAN, b_encrypt_out : BOOLEAN]
    BY DEF NoConfig
  <2>2. 0 <= MaxClients
    BY SocketsAssumption
  <2> QED
    BY <1>1, <1>3, <2>1, <2>2, CodesTyped DEF Types
<1>5. Structure
  <2>1. Sound(mgr) /\ Watched(mgr) = {}
    BY <1>1, EmptyView
  <2>2. \A c \in ConnIds : conns[c].st = "unused"
    BY <1>1
  <2>3. Owners(mgr, conns, listen_fd)
    BY <2>1 DEF Owners
  <2>4. Fresh(sock, conns, accepted)
    <3>1. \A f \in FdSet : sock[f].peer.conn = 0
      BY <1>1, <1>2
    <3>2. \A f \in FdSet : sock[f].peer.conn <= accepted
      BY <1>1, <3>1
    <3> QED
      BY <2>2, <3>2 DEF Fresh
  <2>5. Listener
    BY <1>1, <1>2 DEF Listener, Running
  <2> QED
    BY <1>1, <2>1, <2>2, <2>3, <2>4, <2>5 DEF Structure, CallOK, Live
<1>6. mgr.max_idx \in 0 .. MAX_EVENTS /\ mgr.num_events \in 0 .. MAX_EVENTS
  BY <1>5, SoundBounds DEF Structure
<1>7. NoDoubleFree
  BY <1>1 DEF NoDoubleFree
<1>8. \A c \in ConnIds, side \in Sides :
        conns[c].buf[side].read_pos <= Len(conns[c].buf[side].data)
        /\ Len(conns[c].buf[side].data) <= BUF_SIZ
  <2>1. Len(<< >>) = 0 /\ BUF_SIZ \in Nat
    BY ProxyAssumption
  <2> QED
    BY <1>1, <2>1
<1> QED
  BY <1>4, <1>5, <1>6, <1>7, <1>8 DEF IInv

\* The first registration takes element 0.
LEMMA FirstSlot ==
    ASSUME NEW f \in Nat
    PROVE  LET n == event_add(EmptyTable, f, {"POLLIN"}, NULL, "accept_callback").mgr
           IN  /\ Sound(n) /\ Watched(n) = {f}
               /\ HandlerAt(n, f) = "accept_callback" /\ DataAt(n, f) = NULL
               /\ 0 \in Used(n) /\ n.pfds[0].fd = f
               /\ n.events[0].callback = "accept_callback"
<1> DEFINE n == Insert(EmptyTable, f, {"POLLIN"}, NULL, "accept_callback")
<1>1. /\ Sound(EmptyTable) /\ Watched(EmptyTable) = {} /\ Scanned(EmptyTable) = {}
      /\ EmptyTable.max_idx = 0
  BY EmptyView DEF EmptyTable
<1>2. get_idx_from_fd(EmptyTable, f) = -1
  BY <1>1, SlotOfFd
<1>3. ~AtCapacity(EmptyTable)
  BY MaxEventsAssumption DEF AtCapacity, EmptyTable
<1>4. {"POLLIN"} \in PollMasks /\ {"POLLIN"} # {} /\ ~(f < 0)
  BY DEF PollMasks
<1>5. event_add(EmptyTable, f, {"POLLIN"}, NULL, "accept_callback").mgr = n
  BY <1>2, <1>3, <1>4 DEF event_add
<1>6. /\ Sound(n) /\ Watched(n) = {f}
      /\ HandlerAt(n, f) = "accept_callback" /\ DataAt(n, f) = NULL
  BY <1>1, <1>3, <1>4, InsertView DEF Handlers
<1>7. Holes(EmptyTable) = {} /\ InsertIdx(EmptyTable) = 0
  BY <1>1 DEF Holes, InsertIdx
<1>8. 0 \in Slots
  BY MaxEventsAssumption DEF Slots
<1>9. n.pfds[0].fd = f /\ n.events[0].callback = "accept_callback" /\ n.max_idx = 1
  BY <1>1, <1>7, <1>8 DEF Insert, EmptyTable
<1>10. 0 \in Used(n)
  <2>1. 0 \in Scanned(n)
    BY <1>9 DEF Scanned
  <2> QED
    BY <1>9, <2>1 DEF Used, NoFd
<1> QED
  BY <1>5, <1>6, <1>9, <1>10

\* proxy_run opens the listener.
LEMMA ProxyRunInv == ASSUME IInv, proxy_run, UNCHANGED mainVars PROVE IInv'
<1> USE SideFacts
<1>0. /\ Types /\ Structure /\ NoDoubleFree /\ pc = "setup" /\ mgr = EmptyTable
      /\ listen_fd = NoFd /\ sock[0].st = "stdin"
  BY DEF IInv, proxy_run, Structure, Listener, Running
<1>1. PICK f \in network_get_listen_socket :
        \/ /\ f # NoFd
           /\ mgr' = event_add(mgr, f, {"POLLIN"}, NULL, "accept_callback").mgr
           /\ sock' = [sock EXCEPT ![f] = [Closed EXCEPT !.st = "listen"]]
           /\ listen_fd' = f
           /\ pc' = "check"
           /\ UNCHANGED ret
        \/ /\ f = NoFd
           /\ pc' = "returned"
           /\ ret' = PROXY_ERR
           /\ UNCHANGED <<mgr, sock, listen_fd>>
  BY DEF proxy_run
<1>2. UNCHANGED <<idx, run_flag, conns, call, arrived, accepted, sent, config, status>>
  BY DEF proxy_run, peerVars, mainVars
<1>3. CASE f = NoFd
  BY <1>0, <1>1, <1>2, <1>3, QuietInv, CodesTyped DEF Types
<1>4. CASE f # NoFd
  <2> DEFINE x == [Closed EXCEPT !.st = "listen"]
  <2>1. FreeFds(sock) # {} /\ f = Least(FreeFds(sock))
    BY <1>4 DEF network_get_listen_socket
  <2>2. f \in FreeFds(sock)
    BY <2>1, LeastProperties DEF FreeFds
  <2>3. f \in FdSet /\ f # 0 /\ sock[f].st = "closed" /\ f \in Nat
    BY <1>0, <2>2 DEF FreeFds
  <2>4. sock' = [sock EXCEPT ![f] = x] /\ listen_fd' = f /\ pc' = "check" /\ ret' = ret
    BY <1>1, <1>4
  <2>5. SockOK(x) /\ x.st = "listen" /\ x.peer = NoPeer /\ x \in SockType
    BY ConstTypes DEF SockOK, SockType, Connected
  <2> HIDE DEF x
  <2>6. /\ sock' \in [FdSet -> SockType] /\ sock'[f] = x
        /\ \A g \in FdSet : g # f => sock'[g] = sock[g]
    BY <1>0, <2>3, <2>4, <2>5 DEF Types, SockTyped
  <2>7. SockTyped(sock')
    BY <1>0, <2>5, <2>6 DEF Types, SockTyped
  <2>8. Types'
    BY <1>0, <1>2, <2>3, <2>4, <2>7 DEF Types
  <2>9. /\ Sound(mgr') /\ Watched(mgr') = {f}
        /\ HandlerAt(mgr', f) = "accept_callback" /\ DataAt(mgr', f) = NULL
        /\ 0 \in Used(mgr') /\ mgr'.pfds[0].fd = f
        /\ mgr'.events[0].callback = "accept_callback"
    BY <1>0, <1>1, <1>4, <2>3, FirstSlot
  <2>10. \A c \in ConnIds : conns[c].st # "live"
    <3> SUFFICES ASSUME NEW c \in ConnIds, conns[c].st = "live" PROVE FALSE
      OBVIOUS
    <3>1. ConnInv(mgr, sock, c, conns[c])
      BY <1>0 DEF Structure, Live
    <3>2. Watched(mgr) = {}
      BY <1>0, EmptyView
    <3>3. ~Opening(mgr, c, conns[c])
      BY <3>2 DEF Opening
    <3>4. \A side \in Sides : conns[c].fd[side] = NoFd
      BY <3>1, <3>2, <3>3 DEF ConnInv, Serving
    <3> QED
      BY <3>1, <3>4 DEF ConnInv, HasWork
  <2>11. Owners(mgr', conns', listen_fd')
    BY <2>4, <2>9 DEF Owners
  <2>12. Fresh(sock', conns', accepted')
    <3>1. x.peer.conn = 0
      BY <2>5 DEF NoPeer
    <3>2. \A g \in FdSet : sock'[g].peer.conn <= accepted
      BY <1>0, <2>6, <3>1 DEF Structure, Fresh, Types
    <3> QED
      BY <1>0, <1>2, <3>2 DEF Structure, Fresh
  <2>13. Listener'
    BY <1>0, <2>3, <2>4, <2>5, <2>6, <2>9 DEF Listener, Running
  <2>14. Structure'
    BY <1>2, <2>4, <2>9, <2>10, <2>11, <2>12, <2>13 DEF Structure, CallOK, Live
  <2> QED
    BY <1>0, <1>2, <2>4, <2>8, <2>9, <2>14, SoundBounds DEF IInv, NoDoubleFree
<1> QED
  BY <1>3, <1>4

-----------------------------------------------------------------------------
(* accept_callback.                                                        *)

\* It is invoked for element 0, once for each report, and finds a client.
LEMMA AtAccept ==
    ASSUME Types, Structure, Accepting
    PROVE  /\ pc = "dispatch" /\ accepted \in Nat /\ accepted < arrived /\ arrived \in Nat
           /\ accepted + 1 \in ConnIds /\ accepted + 1 <= arrived
           /\ conns[accepted + 1].st = "unused"
           /\ \A f \in Watched(mgr) : DataAt(mgr, f) # accepted + 1 /\ f # 0
           /\ \A f \in FdSet : sock[f].peer.conn # accepted + 1
           /\ listen_fd \in FdSet /\ listen_fd # 0 /\ sock[listen_fd].st = "listen"
           /\ sock[0].st = "stdin" /\ sock[0].peer.conn = 0
<1> USE SideFacts
<1>1. /\ pc = "dispatch" /\ idx \in Used(mgr) /\ Fd \in Watched(mgr)
      /\ HandlerAt(mgr, Fd) = "accept_callback"
  BY Dispatched DEF Accepting, At
<1>2. Fd = listen_fd
  BY <1>1 DEF Structure, Owners
<1>3. idx = 0
  BY <1>1, <1>2 DEF Structure, Listener, Sound, Fd
<1>4. mgr.pfds[0].revents # {} /\ "POLLERR" \notin mgr.pfds[0].revents
  BY <1>3 DEF Accepting, At, Dispatching, Revents
<1>5. accepted < arrived /\ accepted \in Nat /\ arrived \in Nat /\ arrived <= MaxClients
  BY <1>1, <1>3, <1>4 DEF Structure, Listener, Types
<1>6. accepted + 1 \in ConnIds /\ accepted + 1 <= arrived
  BY <1>5, SocketsAssumption DEF ConnIds
<1>7. conns[accepted + 1].st = "unused"
  BY <1>5, <1>6 DEF Structure, Fresh
<1>8. \A f \in FdSet : sock[f].peer.conn # accepted + 1
  <2>1. \A f \in FdSet : sock[f].peer.conn \in Nat /\ sock[f].peer.conn <= accepted
    BY PeerTyped DEF Structure, Fresh
  <2> QED
    BY <1>5, <2>1
<1>9. listen_fd \in FdSet /\ listen_fd # 0 /\ sock[listen_fd].st = "listen"
  BY <1>1 DEF Structure, Listener, Types
<1>10. \A f \in Watched(mgr) : DataAt(mgr, f) # accepted + 1 /\ f # 0
  <2> SUFFICES ASSUME NEW f \in Watched(mgr)
               PROVE  DataAt(mgr, f) # accepted + 1 /\ f # 0
    OBVIOUS
  <2>1. CASE f = listen_fd /\ DataAt(mgr, f) = NULL
    BY <1>6, <1>9, <2>1
  <2>2. CASE /\ DataAt(mgr, f) \in ConnIds /\ conns[DataAt(mgr, f)].st = "live"
    BY <1>7, <2>2, LiveConn DEF Live
  <2> QED
    BY <2>1, <2>2 DEF Structure, Owners
<1>11. sock[0].st = "stdin" /\ sock[0].peer.conn = 0
  BY <1>1, PeerTyped DEF Structure, Listener, Running, Types, SockTyped, SockOK, Connected
<1> QED
  BY <1>1, <1>5, <1>6, <1>7, <1>8, <1>9, <1>10, <1>11

\* What accept_callback does when it ends without a connection: at most
\* descriptor 0 is closed, and then the loop ends.
LEMMA AcceptNothing ==
    ASSUME IInv, Accepting, NEW F, F \subseteq {0}, F # {} => pc' = "returned",
           sock' = CloseFds(sock, F), mgr' = mgr, Moves, pc' # "send",
           listen_fd' = listen_fd, arrived' = arrived, sent' = sent, call' = call,
           \/ accepted' = accepted /\ conns' = conns
           \/ accepted' = accepted + 1 /\ conns' = [conns EXCEPT ![accepted + 1] = FreedConn],
           UNCHANGED <<mainVars, run_flag>>
    PROVE  IInv'
<1> USE SideFacts
<1> DEFINE c == accepted + 1
<1>0. Types /\ Structure
  BY DEF IInv, Accepting, At, Dispatching
<1>1. /\ pc = "dispatch" /\ accepted \in Nat /\ accepted < arrived /\ arrived \in Nat
      /\ c \in ConnIds /\ c <= arrived /\ conns[c].st = "unused"
      /\ \A f \in Watched(mgr) : DataAt(mgr, f) # c /\ f # 0
      /\ listen_fd # 0 /\ sock[0].st = "stdin" /\ sock[0].peer.conn = 0
  BY <1>0, AtAccept
<1>2. /\ accepted' \in Nat /\ accepted <= accepted' /\ accepted' <= arrived
      /\ c <= accepted' \/ conns'[c] = conns[c]
  BY <1>1
<1> HIDE DEF c
<1>3. /\ \A f \in F : f = 0
      /\ \A f \in FdSet : sock'[f] = IF f \in F THEN Closed ELSE sock[f]
  BY DEF CloseFds
<1>4. /\ conns' \in [ConnIds -> ConnType] /\ conns'[c] \in {FreedConn, conns[c]}
      /\ \A d \in ConnIds : d # c => conns'[d] = conns[d]
      /\ conns'[c].st # "live"
  BY <1>0, <1>1, ConstTypes DEF Types, c
<1>5. Touches(c, F)
  <2>1. Sound(mgr') /\ Outside(mgr, mgr', F)
    BY <1>0, OutsideNone DEF Structure
  <2> QED
    BY <1>1, <1>3, <1>4, <2>1, ConstTypes DEF Touches
<1>6. SockTyped(sock')
  BY <1>0, CloseFdsTyped
<1>7. pc' # "returned" => sock'[0].st = "stdin"
  BY <1>1, <1>3
<1>8. call' \in [conn : ConnIds, side : Sides] \cup {NULL} /\ CallOK'
  BY <1>0 DEF Types, CallOK
<1>9. \A f \in F : sock'[f].peer.conn = 0
  BY <1>3, ConstTypes
<1> QED
  BY <1>1, <1>2, <1>4, <1>5, <1>6, <1>7, <1>8, <1>9, CallbackInv

LEMMA AcceptErrors ==
    ASSUME IInv, UNCHANGED mainVars,
           AcceptAborted \/ AcceptFails \/ AcceptSetupFails \/ AcceptThenConnectFails
    PROVE  IInv'
<1>0. Types /\ pc = "dispatch"
  BY DEF IInv, AcceptAborted, AcceptFails, AcceptSetupFails, AcceptThenConnectFails, Accepting,
         At, Dispatching
<1>1. CASE AcceptAborted
  <2>1. pc' = "returned" /\ ret' = PROXY_ERR /\ idx' = idx
    BY <1>1, CodesTyped DEF AcceptAborted, NextSlot
  <2>2. UNCHANGED <<mgr, run_flag, sock, conns, listen_fd, arrived, accepted, sent, call, config, status>>
    BY <1>1 DEF AcceptAborted, sockVars, peerVars, proxyVars, mainVars
  <2> QED
    BY <1>0, <2>1, <2>2, CodesTyped, QuietInv DEF Types
<1>2. CASE AcceptFails
  <2>1. pc' = "returned" /\ ret' = PROXY_ERR /\ idx' = idx
    <3>1. PICK errno : NextSlot(AcceptCode(AcceptErr(errno)))
      BY <1>2 DEF AcceptFails
    <3>2. AcceptErr(errno) = PROXY_ERR
      BY DEF AcceptErr
    <3>3. AcceptCode(PROXY_ERR) = PROXY_ERR
      BY CodesTyped DEF AcceptCode
    <3> QED
      BY <3>1, <3>2, <3>3, CodesTyped DEF NextSlot
  <2>2. Moves /\ pc' # "send"
    BY <2>1, CodesTyped DEF Moves
  <2>3. /\ Accepting /\ sock' = CloseFds(sock, {0})
        /\ UNCHANGED <<mgr, run_flag, conns, listen_fd, arrived, accepted, sent, call, mainVars>>
    BY <1>2 DEF AcceptFails, peerVars
  <2> QED
    BY <2>1, <2>2, <2>3, AcceptNothing
<1>3. CASE AcceptSetupFails
  <2>1. pc' = "returned" /\ ret' = PROXY_ERR /\ idx' = idx
    BY <1>3, CodesTyped DEF AcceptSetupFails, AcceptCode, NextSlot
  <2>2. Moves /\ pc' # "send"
    BY <2>1, CodesTyped DEF Moves
  <2>3. /\ Accepting /\ sock' = CloseFds(sock, {0})
        /\ accepted' = accepted + 1 /\ conns' = [conns EXCEPT ![accepted + 1] = FreedConn]
        /\ UNCHANGED <<mgr, run_flag, listen_fd, arrived, sent, call, mainVars>>
    BY <1>3 DEF AcceptSetupFails
  <2> QED
    BY <2>1, <2>2, <2>3, AcceptNothing
<1>4. CASE AcceptThenConnectFails
  <2>1. NextSlot(PROXY_SUCCESS)
    BY <1>4 DEF AcceptThenConnectFails, AcceptCode
  <2>2. Moves /\ pc' # "send"
    BY <2>1, CodesTyped, NextSlotMoves
  <2>3. sock' = CloseFds(sock, {})
    <3>1. sock \in [FdSet -> SockType]
      BY <1>0 DEF Types, SockTyped
    <3> QED
      BY <1>4, <3>1 DEF AcceptThenConnectFails, CloseFds
  <2>4. /\ Accepting
        /\ accepted' = accepted + 1 /\ conns' = [conns EXCEPT ![accepted + 1] = FreedConn]
        /\ UNCHANGED <<mgr, run_flag, listen_fd, arrived, sent, call, mainVars>>
    BY <1>4 DEF AcceptThenConnectFails
  <2> QED
    BY <2>2, <2>3, <2>4, AcceptNothing
<1> QED
  BY <1>1, <1>2, <1>3, <1>4

-----------------------------------------------------------------------------
(* A new connection, and add_connection_events.                            *)

\* What the table says of a side add_connection_events has registered.
Registered(m, c, side, f) ==
    /\ f \in Watched(m) /\ DataAt(m, f) = c
    /\ HandlerAt(m, f) = (IF Encrypted(side) THEN "handshake_callback" ELSE "conn_callback")
    /\ HandlerAt(m, f) = "conn_callback" => MaskAt(m, f) = {"POLLIN"}

\* The outcome r of registering a side in m: it is registered or m is kept.
SideAdded(m, r, c, side, f) ==
    /\ Sound(r.mgr) /\ KeepsSlots(m, r.mgr, f)
    /\ r.err \in {PROXY_SUCCESS, PROXY_ERR, PROXY_MAX_EVENTS}
    /\ r.err # PROXY_SUCCESS => r.mgr = m
    /\ r.err = PROXY_SUCCESS =>
         /\ Watched(r.mgr) = Watched(m) \cup {f} /\ f \notin Watched(m)
         /\ Registered(r.mgr, c, side, f)
    /\ Watched(r.mgr) \subseteq Watched(m) \cup {f}

LEMMA AddSideView ==
    ASSUME NEW m, Sound(m), NEW c \in ConnIds, NEW side \in Sides, NEW f \in Nat, NEW r,
           r = AddSide(m, c, side, f)
    PROVE  SideAdded(m, r, c, side, f)
<1> DEFINE callback == IF Encrypted(side) THEN "handshake_callback" ELSE "conn_callback"
           mask == IF Encrypted(side) THEN {"POLLOUT"} ELSE {"POLLIN"}
<1>1. r = event_add(m, f, mask, c, callback)
  BY DEF AddSide
<1>2. mask \in PollMasks /\ mask # {} /\ callback \in Handlers
  BY DEF PollMasks, Handlers
<1>3. callback = "conn_callback" => mask = {"POLLIN"}
  OBVIOUS
<1>4. callback = IF Encrypted(side) THEN "handshake_callback" ELSE "conn_callback"
  OBVIOUS
<1> HIDE DEF callback, mask
<1>5. /\ Sound(r.mgr) /\ KeepsSlots(m, r.mgr, f)
      /\ r.err \in {PROXY_SUCCESS, PROXY_ERR, PROXY_MAX_EVENTS}
      /\ r.err # PROXY_SUCCESS => r.mgr = m
      /\ r.err = PROXY_SUCCESS =>
           /\ Watched(r.mgr) = Watched(m) \cup {f} /\ f \notin Watched(m)
           /\ MaskAt(r.mgr, f) = mask /\ HandlerAt(r.mgr, f) = callback
           /\ DataAt(r.mgr, f) = c
  BY <1>1, <1>2, AddView
<1>6. r.err = PROXY_SUCCESS => Registered(r.mgr, c, side, f)
  BY <1>3, <1>4, <1>5 DEF Registered
<1> QED
  BY <1>5, <1>6 DEF SideAdded

\* Both sides are registered, or none is.
LEMMA AddBoth ==
    ASSUME NEW m, Sound(m), NEW c \in ConnIds, NEW fd,
           fd["client"] \in Nat, fd["server"] \in Nat, fd["client"] # fd["server"],
           fd["client"] \notin Watched(m), fd["server"] \notin Watched(m)
    PROVE  LET r == add_connection_events(m, c, fd)
           IN  /\ Sound(r.mgr) /\ Outside(m, r.mgr, {fd["client"], fd["server"]})
               /\ r.err \in {PROXY_SUCCESS, PROXY_ERR, PROXY_MAX_EVENTS}
               /\ r.err # PROXY_SUCCESS => Watched(r.mgr) = Watched(m)
               /\ r.err = PROXY_SUCCESS =>
                    /\ r.ref = 2
                    /\ \A side \in Sides : Registered(r.mgr, c, side, fd[side])
<1> DEFINE cf == fd["client"]
           sf == fd["server"]
           one == AddSide(m, c, "client", cf)
           two == AddSide(one.mgr, c, "server", sf)
           r == add_connection_events(m, c, fd)
<1>0. /\ cf \in Nat /\ sf \in Nat /\ "client" \in Sides /\ "server" \in Sides
      /\ cf # sf /\ cf \notin Watched(m) /\ sf \notin Watched(m)
  BY SideFacts
<1>f. cf = fd["client"] /\ sf = fd["server"]
  OBVIOUS
<1> HIDE DEF cf, sf
<1>1. /\ Sound(one.mgr) /\ KeepsSlots(m, one.mgr, cf)
      /\ one.err \in {PROXY_SUCCESS, PROXY_ERR, PROXY_MAX_EVENTS}
      /\ one.err # PROXY_SUCCESS => one.mgr = m
      /\ one.err = PROXY_SUCCESS => /\ Watched(one.mgr) = Watched(m) \cup {cf}
                                    /\ Registered(one.mgr, c, "client", cf)
      /\ Watched(one.mgr) \subseteq Watched(m) \cup {cf}
  <2>1. one = AddSide(m, c, "client", cf)
    OBVIOUS
  <2> HIDE DEF one
  <2>2. SideAdded(m, one, c, "client", cf)
    BY <1>0, <2>1, AddSideView
  <2> QED
    BY <2>2 DEF SideAdded
<1>2. Outside(m, one.mgr, {cf, sf})
  <2> HIDE DEF one
  <2> QED
    BY <1>1, OutsideOne
<1>3. /\ Sound(two.mgr) /\ KeepsSlots(one.mgr, two.mgr, sf)
      /\ two.err \in {PROXY_SUCCESS, PROXY_ERR, PROXY_MAX_EVENTS}
      /\ two.err # PROXY_SUCCESS => two.mgr = one.mgr
      /\ two.err = PROXY_SUCCESS => /\ Watched(two.mgr) = Watched(one.mgr) \cup {sf}
                                    /\ Registered(two.mgr, c, "server", sf)
      /\ Watched(two.mgr) \subseteq Watched(one.mgr) \cup {sf}
  <2>1. PICK o : o = one.mgr
    OBVIOUS
  <2>2. two = AddSide(o, c, "server", sf) /\ Sound(o)
    BY <1>1, <2>1
  <2> HIDE DEF one, two
  <2>3. SideAdded(o, two, c, "server", sf)
    BY <1>0, <2>2, AddSideView
  <2> QED
    BY <2>1, <2>3 DEF SideAdded
<1>4. Outside(one.mgr, two.mgr, {cf, sf})
  <2> HIDE DEF one, two
  <2> QED
    BY <1>3, OutsideOne
<1>5. Outside(m, two.mgr, {cf, sf})
  <2> HIDE DEF one, two
  <2> QED
    BY <1>2, <1>4, OutsideTwo
<1>6. CASE one.err # PROXY_SUCCESS
  <2>1. r = [mgr |-> one.mgr, err |-> one.err, ref |-> 0]
    BY <1>6, <1>f DEF add_connection_events
  <2> HIDE DEF one, two, r
  <2> QED
    BY <1>1, <1>2, <1>6, <1>f, <2>1 DEF r
<1>7. CASE one.err = PROXY_SUCCESS /\ two.err # PROXY_SUCCESS
  <2> DEFINE back == event_remove(two.mgr, cf).mgr
  <2>1. r = [mgr |-> back, err |-> two.err, ref |-> 1]
    BY <1>7, <1>f DEF add_connection_events
  <2> HIDE DEF one, two
  <2>2. Sound(back) /\ Watched(back) = Watched(two.mgr) \ {cf}
    BY <1>0, <1>3, RemoveView
  <2>3. Outside(two.mgr, back, {cf, sf})
    BY <1>0, <1>3, RemoveOutside
  <2> HIDE DEF back, r
  <2>4. Outside(m, back, {cf, sf})
    BY <1>5, <2>3, OutsideTwo
  <2>5. Watched(back) = Watched(m)
    BY <1>0, <1>1, <1>3, <1>7, <2>2
  <2> QED
    BY <1>3, <1>7, <1>f, <2>1, <2>2, <2>4, <2>5 DEF r
<1>8. CASE one.err = PROXY_SUCCESS /\ two.err = PROXY_SUCCESS
  <2>1. r = [mgr |-> two.mgr, err |-> PROXY_SUCCESS, ref |-> 2]
    BY <1>8, <1>f DEF add_connection_events
  <2> HIDE DEF one, two
  <2>2. Same(one.mgr, two.mgr, cf)
    <3>1. Watched(two.mgr) \subseteq Watched(one.mgr) \cup {sf}
      BY <1>3
    <3> QED
      BY <1>0, <1>1, <1>3, <3>1, FromSlots
  <2>3. Registered(two.mgr, c, "client", cf)
    BY <1>1, <1>8, <2>2 DEF Registered, Same
  <2>4. \A side \in Sides : Registered(two.mgr, c, side, fd[side])
    BY <1>3, <1>8, <1>f, <2>3, SideFacts
  <2> HIDE DEF r
  <2> QED
    BY <1>3, <1>5, <1>f, <2>1, <2>4 DEF r
<1> QED
  BY <1>6, <1>7, <1>8

\* Fields and type of a new context.
RefConn(cf, sf, ref) == [NewConn(cf, sf) EXCEPT !.ref = ref]

LEMMA NewConnFields ==
    ASSUME NEW cf \in FdSet, NEW sf \in FdSet, NEW ref \in 0 .. 2, NEW k,
           k = RefConn(cf, sf, ref)
    PROVE  /\ k \in ConnType /\ k.st = "live" /\ k.ref = ref
           /\ k.fd["client"] = cf /\ k.fd["server"] = sf
           /\ \A side \in Sides : k.buf[side] = EmptyBuf /\ k.netnacl[side] = NullNN
<1> USE SideFacts
<1> DEFINE fds == [client |-> cf, server |-> sf]
           bufs == [side \in Sides |-> EmptyBuf]
           nns == [side \in Sides |-> NullNN]
<1>1. NewConn(cf, sf) = [st |-> "live", fd |-> fds, buf |-> bufs, netnacl |-> nns, ref |-> 0]
  BY DEF NewConn
<1>2. fds \in [Sides -> FdSet \cup {NoFd}] /\ fds["client"] = cf /\ fds["server"] = sf
  OBVIOUS
<1>3. 0 \in 0 .. NN_MAX_MESSAGE_LEN - 1
  BY SocketsAssumption
<1>4. /\ bufs \in [Sides -> BufType]
      /\ nns \in [Sides -> [key : {"null", "created", "sent", "ready"}, recv_pt : Seq(Nat),
                            send_buf_pos : 0 .. NN_MAX_MESSAGE_LEN - 1]]
      /\ \A side \in Sides : bufs[side] = EmptyBuf /\ nns[side] = NullNN
  BY <1>3, ConstTypes DEF NullNN
<1> HIDE DEF fds, bufs, nns
<1>5. k = [st |-> "live", fd |-> fds, buf |-> bufs, netnacl |-> nns, ref |-> ref]
  BY <1>1 DEF RefConn
<1> QED
  BY <1>2, <1>4, <1>5 DEF ConnType

\* A new connection has its invariant once its sockets and events are there.
LEMMA NewConnInv ==
    ASSUME NEW c \in ConnIds, NEW m, NEW s, NEW k,
           \A side \in Sides :
             /\ k.fd[side] \in FdSet /\ k.fd[side] # 0
             /\ s[k.fd[side]].peer = [conn |-> c, side |-> side]
             /\ s[k.fd[side]].st \in Connected
             /\ k.buf[side] = EmptyBuf /\ k.netnacl[side].send_buf_pos = 0,
           \A f \in FdSet : s[f].peer.conn = c => \E side \in Sides : f = k.fd[side],
           \/ Opening(m, c, k)
           \/ k.ref = 2 /\ \A side \in Sides : Registered(m, c, side, k.fd[side])
    PROVE  ConnInv(m, s, c, k)
<1> USE SideFacts
<1>1. Owned(s, c, k)
  <2>1. \A side \in Sides : s[k.fd[side]].peer.side = side
    OBVIOUS
  <2>2. \A side \in Sides : k.fd[side] # NoFd =>
          /\ k.fd[side] \in FdSet /\ k.fd[side] # 0
          /\ s[k.fd[side]].peer = [conn |-> c, side |-> side]
          /\ s[k.fd[side]].st \in Connected
    OBVIOUS
  <2>3. ASSUME NEW f \in FdSet, s[f].peer.conn = c
        PROVE  k.fd[s[f].peer.side] = f
    <3>1. PICK side \in Sides : f = k.fd[side]
      BY <2>3
    <3>2. s[f].peer.side = side
      BY <2>1, <3>1
    <3> QED
      BY <3>1, <3>2
  <2> QED
    BY <2>2, <2>3 DEF Owned
<1>2. Opening(m, c, k) \/ Serving(m, c, k)
  BY DEF Serving, Registered
<1>3. \A side \in Sides : BufOK(k.buf[side], k.netnacl[side])
  <2>1. Len(<< >>) = 0 /\ BUF_SIZ \in Nat
    BY ProxyAssumption
  <2> QED
    BY <2>1, ConstTypes DEF BufOK
<1>4. MasksFit(m, k)
  <2> SUFFICES ASSUME NEW side \in Sides, HandlerAt(m, k.fd[side]) = "conn_callback",
                      k.fd[side] \in Watched(m)
               PROVE  "POLLOUT" \in MaskAt(m, k.fd[side]) <=> Pending(k.buf[side]) # << >>
    BY DEF MasksFit
  <2>1. Pending(k.buf[side]) = << >>
    BY ConstTypes
  <2>2. ~Opening(m, c, k)
    BY DEF Opening
  <2>3. MaskAt(m, k.fd[side]) = {"POLLIN"}
    BY <2>2 DEF Registered
  <2> QED
    BY <2>1, <2>3
<1>5. HasWork(k)
  BY DEF HasWork
<1> QED
  BY <1>1, <1>2, <1>3, <1>4, <1>5 DEF ConnInv

\* The socket of a new connection is in order.
LEMMA NewSockOK ==
    ASSUME NEW st \in {"connecting", "open"}, NEW c \in ConnIds, NEW side \in Sides, NEW x,
           x = NewSock(st, c, side)
    PROVE  /\ SockOK(x) /\ x.st \in Connected /\ x.peer = [conn |-> c, side |-> side]
           /\ x.peer.conn = c /\ x.rx = << >> /\ ~x.hello
<1>1. TxCap \in 0 .. TxCap
  BY SocketsAssumption
<1>2. x = [st |-> st, rx |-> << >>, ends |-> {}, eof |-> FALSE, err |-> "none",
           room |-> TxCap, keyed |-> FALSE, hello |-> FALSE,
           peer |-> [conn |-> c, side |-> side]]
  BY DEF NewSock, Closed
<1>3. [conn |-> c, side |-> side] # NoPeer
  <2>1. [conn |-> c, side |-> side].conn = c /\ NoPeer.conn = 0
    BY DEF NoPeer
  <2> QED
    BY <2>1, SideFacts
<1>4. [conn |-> c, side |-> side] \in [conn : ConnIds, side : Sides]
  OBVIOUS
<1>5. x \in SockType
  BY <1>1, <1>2, <1>4 DEF SockType
<1> QED
  BY <1>2, <1>3, <1>5 DEF SockOK, Connected

\* The two descriptors handle_accept gets are free: no event watches them.
LEMMA FreshFds ==
    ASSUME Types, Structure, Accepting, Cardinality(FreeFds(sock)) >= 2,
           NEW cf, cf = Least(FreeFds(sock)), NEW sf, sf = Least(FreeFds(sock) \ {cf})
    PROVE  /\ cf \in FdSet /\ sf \in FdSet /\ cf # sf
           /\ \A f \in {cf, sf} : /\ f \in FdSet /\ f \in Nat /\ f # 0 /\ f # listen_fd
                                  /\ f \notin Watched(mgr) /\ sock[f].peer.conn = 0
<1> USE SideFacts
<1> DEFINE free == FreeFds(sock)
<1>1. free \in SUBSET Nat /\ \A f \in free : f \in FdSet /\ sock[f].st = "closed"
  BY DEF FreeFds
<1>2. free # {}
  <2>1. Cardinality({}) = 0
    BY FS_EmptySet
  <2> QED
    BY <2>1
<1> HIDE DEF free
<1>3. cf \in free
  BY <1>1, <1>2, LeastProperties DEF free
<1>4. free \ {cf} # {}
  <2> SUFFICES ASSUME free = {cf} PROVE FALSE
    BY <1>3
  <2>1. Cardinality({cf}) = 1
    BY FS_Singleton
  <2>2. Cardinality(free) >= 2
    BY DEF free
  <2> QED
    BY <2>1, <2>2
<1>5. sf \in free \ {cf}
  <2>1. free \ {cf} \in SUBSET Nat
    BY <1>1
  <2> QED
    BY <1>4, <2>1, LeastProperties DEF free
<1>6. \A f \in Watched(mgr) : f \in FdSet => sock[f].st # "closed"
  <2> SUFFICES ASSUME NEW f \in Watched(mgr), f \in FdSet PROVE sock[f].st # "closed"
    OBVIOUS
  <2>1. CASE f = listen_fd
    BY <2>1, AtAccept
  <2>2. CASE DataAt(mgr, f) \in ConnIds /\ Live(DataAt(mgr, f))
    <3>1. f \in FdsOf(DataAt(mgr, f))
      BY <2>2, LiveConn
    <3>2. sock[f].st \in Connected
      BY <2>2, <3>1, LiveConn
    <3> QED
      BY <3>2 DEF Connected
  <2> QED
    BY <2>1, <2>2 DEF Structure, Owners, Live
<1>7. sock[0].st = "stdin" /\ sock[listen_fd].st = "listen"
  BY AtAccept
<1>8. \A f \in free : sock[f].peer.conn = 0
  <2> SUFFICES ASSUME NEW f \in free PROVE sock[f].peer.conn = 0
    OBVIOUS
  <2>1. f \in FdSet /\ sock[f].st = "closed" /\ SockOK(sock[f])
    BY <1>1 DEF Types, SockTyped
  <2>2. sock[f].peer = NoPeer
    BY <2>1 DEF SockOK, Connected
  <2> QED
    BY <2>1, <2>2, PeerTyped
<1> QED
  BY <1>1, <1>3, <1>5, <1>6, <1>7, <1>8, ZenonT(40)

\* What handle_accept does for client c: two sockets, and a context that is
\* registered, or given up because its events could not be added.
OpensConn(c, cf, sf) ==
    /\ c = accepted + 1 /\ accepted <= c /\ c <= arrived
    /\ \A f \in Watched(mgr) : DataAt(mgr, f) # c
    /\ \A f \in FdSet : sock[f].peer.conn # c
    /\ cf \in FdSet /\ sf \in FdSet /\ cf # sf
    /\ \A f \in {cf, sf} : /\ f \in FdSet /\ f \in Nat /\ f # 0 /\ f # listen_fd
                           /\ f \notin Watched(mgr) /\ sock[f].peer.conn = 0
    /\ SockTyped(sock') /\ \A f \in FdSet \ {cf, sf} : sock'[f] = sock[f]
    /\ sock'[cf].st \in Connected /\ sock'[cf].peer = [conn |-> c, side |-> "client"]
    /\ sock'[sf].st \in Connected /\ sock'[sf].peer = [conn |-> c, side |-> "server"]
    /\ \A f \in {cf, sf} : sock'[f].rx = << >> /\ ~sock'[f].hello
    /\ Sound(mgr') /\ Outside(mgr, mgr', {cf, sf})
    /\ conns' \in [ConnIds -> ConnType] /\ \A d \in ConnIds : d # c => conns'[d] = conns[d]
    /\ LET k == conns'[c]
       IN  \/ k = FreedConn /\ Watched(mgr') = Watched(mgr)
           \/ /\ k.st = "live" /\ k.fd["client"] = cf /\ k.fd["server"] = sf
              /\ \A side \in Sides : k.buf[side] = EmptyBuf /\ k.netnacl[side] = NullNN
              /\ \/ Opening(mgr', c, k)
                 \/ k.ref = 2 /\ \A side \in Sides : Registered(mgr', c, side, k.fd[side])
    /\ accepted' = c

LEMMA NewConnStep ==
    ASSUME IInv, Accepting, NEW c \in ConnIds, NEW cf, NEW sf, OpensConn(c, cf, sf),
           Moves, pc' # "send", UNCHANGED <<listen_fd, arrived, sent, call, mainVars, run_flag>>
    PROVE  IInv' /\ Touches(c, {cf, sf})
<1> USE SideFacts
<1> DEFINE F == {cf, sf}
           k == conns'[c]
<1>0. Types /\ Structure
  BY DEF IInv, Accepting, At, Dispatching
<1>1. pc = "dispatch" /\ accepted \in Nat /\ arrived \in Nat /\ sock[0].st = "stdin"
  BY <1>0, AtAccept
<1>2. c \in Nat /\ c # 0 /\ accepted <= c /\ c <= arrived
  BY DEF OpensConn
<1>3. /\ \A f \in FdSet \ F : sock'[f] = sock[f]
      /\ cf \in FdSet /\ sf \in FdSet /\ cf # sf /\ F \subseteq FdSet
      /\ \A f \in F : f # 0 /\ f # listen_fd /\ f \notin Watched(mgr) /\ sock[f].peer.conn = 0
      /\ \A f \in Watched(mgr) : DataAt(mgr, f) # c
      /\ \A f \in FdSet : sock[f].peer.conn # c
      /\ Sound(mgr') /\ Outside(mgr, mgr', F)
  BY DEF OpensConn
<1>4. /\ sock'[cf].st \in Connected
      /\ sock'[cf].peer = [conn |-> c, side |-> "client"] /\ sock'[cf].peer.conn = c
  BY DEF OpensConn
<1>5. /\ sock'[sf].st \in Connected
      /\ sock'[sf].peer = [conn |-> c, side |-> "server"] /\ sock'[sf].peer.conn = c
  BY DEF OpensConn
<1>6. SockTyped(sock')
  BY DEF OpensConn
<1>7. \A f \in FdSet : sock'[f].peer.conn = c => f \in F
  BY <1>3
<1>8. conns'[c] = k /\ \A d \in ConnIds : d # c => conns'[d] = conns[d]
  BY DEF OpensConn
<1>9. conns' \in [ConnIds -> ConnType]
  BY DEF OpensConn
<1>10. \A f \in Watched(mgr') : f \notin F => DataAt(mgr', f) # c
  <2> SUFFICES ASSUME NEW f \in Watched(mgr'), f \notin F PROVE DataAt(mgr', f) # c
    OBVIOUS
  <2>1. f \in Nat
    BY <1>3, WatchedTyped
  <2>2. Same(mgr, mgr', f)
    BY <1>0, <1>3, <2>1, OutsideSame DEF Structure
  <2> QED
    BY <1>3, <2>2 DEF Same
<1>11. conns'[c].st = "live" \/ conns'[c] = FreedConn
  BY DEF OpensConn
<1>12. conns'[c].st = "live" => ConnInv(mgr', sock', c, conns'[c])
  <2> SUFFICES ASSUME k.st = "live" PROVE ConnInv(mgr', sock', c, k)
    BY <1>8
  <2>1. /\ k.fd["client"] = cf /\ k.fd["server"] = sf
        /\ \A side \in Sides : k.buf[side] = EmptyBuf /\ k.netnacl[side] = NullNN
        /\ \/ Opening(mgr', c, k)
           \/ k.ref = 2 /\ \A side \in Sides : Registered(mgr', c, side, k.fd[side])
    BY ConstTypes DEF OpensConn
  <2>2. \A side \in Sides :
             /\ k.fd[side] \in FdSet /\ k.fd[side] # 0
             /\ sock'[k.fd[side]].peer = [conn |-> c, side |-> side]
             /\ sock'[k.fd[side]].st \in Connected
             /\ k.buf[side] = EmptyBuf /\ k.netnacl[side].send_buf_pos = 0
    <3>1. NullNN.send_buf_pos = 0
      BY DEF NullNN
    <3> QED
      BY <1>3, <1>4, <1>5, <2>1, <3>1
  <2>4. \A f \in FdSet : sock'[f].peer.conn = c => \E side \in Sides : f = k.fd[side]
    BY <1>7, <2>1
  <2> HIDE DEF F
  <2>5. PICK m, kk : m = mgr' /\ kk = k
    OBVIOUS
  <2>6. PICK s : s = sock'
    OBVIOUS
  <2>7. \/ Opening(m, c, kk)
        \/ kk.ref = 2 /\ \A side \in Sides : Registered(m, c, side, kk.fd[side])
    BY <2>1, <2>5
  <2>8. ConnInv(m, s, c, kk)
    BY <2>2, <2>4, <2>5, <2>6, <2>7, NewConnInv
  <2> QED
    BY <2>5, <2>6, <2>8
<1>13. \A f \in Watched(mgr') : f \in F =>
         /\ DataAt(mgr', f) = c /\ HandlerAt(mgr', f) # "accept_callback"
         /\ conns'[c].st = "live" /\ \E side \in Sides : f = conns'[c].fd[side]
  <2> SUFFICES ASSUME NEW f \in Watched(mgr'), f \in F
               PROVE  /\ DataAt(mgr', f) = c /\ HandlerAt(mgr', f) # "accept_callback"
                      /\ k.st = "live" /\ \E side \in Sides : f = k.fd[side]
    BY <1>8
  <2>1. /\ k.st = "live" /\ k.fd["client"] = cf /\ k.fd["server"] = sf
        /\ \/ Opening(mgr', c, k)
           \/ \A side \in Sides : Registered(mgr', c, side, k.fd[side])
    BY <1>3 DEF OpensConn
  <2>2. CASE Opening(mgr', c, k)
    BY <2>1, <2>2 DEF Opening
  <2>3. CASE \A side \in Sides : Registered(mgr', c, side, k.fd[side])
    BY <2>1, <2>3 DEF Registered
  <2> QED
    BY <2>1, <2>2, <2>3
<1>14. Touches(c, F)
  BY <1>1, <1>3, <1>4, <1>5, <1>8, <1>10, <1>12, <1>13 DEF Touches
<1>15. sock'[0].st = "stdin"
  BY <1>1, <1>3
<1>16. call' \in [conn : ConnIds, side : Sides] \cup {NULL} /\ CallOK'
  BY <1>0 DEF Types, CallOK
<1>17. accepted' \in Nat /\ accepted <= accepted' /\ accepted' <= arrived /\ c <= accepted'
  BY <1>1, <1>2 DEF OpensConn
<1> HIDE DEF F
<1>18. IInv'
  BY <1>1, <1>6, <1>9, <1>11, <1>14, <1>15, <1>16, <1>17, CallbackInv
<1> QED
  BY <1>14, <1>18 DEF F

LEMMA AcceptOpens ==
    ASSUME IInv, UNCHANGED mainVars, AcceptThenConnect
    PROVE  /\ IInv'
           /\ \E c, cf, sf : c \in ConnIds /\ OpensConn(c, cf, sf) /\ Touches(c, {cf, sf})
<1> USE SideFacts
<1>0. Accepting /\ Types /\ Structure
  BY DEF IInv, AcceptThenConnect, Accepting, At, Dispatching
<1>1. PICK c : c = accepted + 1
  OBVIOUS
<1>2. PICK cf : cf = Least(FreeFds(sock))
  OBVIOUS
<1>3. PICK sf : sf = Least(FreeFds(sock) \ {cf})
  OBVIOUS
<1>4. PICK result, r :
        /\ result \in ConnectResults \ {"fail"}
        /\ r = IF result = "pending"
                 THEN event_add(mgr, sf, {"POLLOUT"}, c, "pending_connect_callback")
                 ELSE add_connection_events(mgr, c, [client |-> cf, server |-> sf])
        /\ accepted' = c
        /\ sock' = [sock EXCEPT
             ![cf] = NewSock("open", c, "client"),
             ![sf] = NewSock(IF result = "pending" THEN "connecting" ELSE "open", c, "server")]
        /\ mgr' = r.mgr
        /\ conns' = [conns EXCEPT ![c] =
             IF r.err = PROXY_SUCCESS
               THEN [NewConn(cf, sf) EXCEPT !.ref = IF result = "now" THEN r.ref ELSE 0]
               ELSE FreedConn]
        /\ NextSlot(AcceptCode(r.err))
  BY <1>1, <1>2, <1>3, Zenon DEF AcceptThenConnect
<1>5. UNCHANGED <<run_flag, listen_fd, call, arrived, sent, got>>
  BY DEF AcceptThenConnect
<1>6. /\ c \in ConnIds /\ accepted <= c /\ c <= arrived
      /\ \A f \in Watched(mgr) : DataAt(mgr, f) # c
      /\ \A f \in FdSet : sock[f].peer.conn # c
      /\ pc = "dispatch" /\ c \in Nat
  BY <1>0, <1>1, AtAccept
<1>7. /\ cf \in FdSet /\ sf \in FdSet /\ cf # sf
      /\ \A f \in {cf, sf} : /\ f \in FdSet /\ f \in Nat /\ f # 0 /\ f # listen_fd
                             /\ f \notin Watched(mgr) /\ sock[f].peer.conn = 0
  BY <1>0, <1>2, <1>3, FreshFds DEF AcceptThenConnect
<1>8. PICK x, y :
        /\ x = NewSock("open", c, "client")
        /\ y = NewSock(IF result = "pending" THEN "connecting" ELSE "open", c, "server")
  OBVIOUS
<1>9. /\ SockOK(x) /\ x.st \in Connected /\ x.peer = [conn |-> c, side |-> "client"]
      /\ SockOK(y) /\ y.st \in Connected /\ y.peer = [conn |-> c, side |-> "server"]
      /\ x.rx = << >> /\ ~x.hello /\ y.rx = << >> /\ ~y.hello
  <2>1. (IF result = "pending" THEN "connecting" ELSE "open") \in {"connecting", "open"}
    OBVIOUS
  <2> QED
    BY <1>6, <1>8, <2>1, NewSockOK
<1>10. /\ SockTyped(sock') /\ \A f \in FdSet \ {cf, sf} : sock'[f] = sock[f]
       /\ sock'[cf] = x /\ sock'[sf] = y
  <2>1. sock' = [sock EXCEPT ![cf] = x, ![sf] = y]
    BY <1>4, <1>8
  <2>2. sock \in [FdSet -> SockType] /\ \A f \in FdSet : SockOK(sock[f])
    BY <1>0 DEF Types, SockTyped
  <2>3. /\ \A f \in FdSet \ {cf, sf} : sock'[f] = sock[f]
        /\ sock'[cf] = x /\ sock'[sf] = y /\ sock' = [f \in FdSet |-> sock'[f]]
    BY <1>7, <2>1, <2>2
  <2>4. \A f \in FdSet : SockOK(sock'[f])
    BY <1>9, <2>2, <2>3
  <2> QED
    BY <2>3, <2>4 DEF SockTyped, SockOK
<1>11. PICK k : /\ conns' = [conns EXCEPT ![c] = k]
                /\ k = IF r.err = PROXY_SUCCESS
                         THEN [NewConn(cf, sf) EXCEPT !.ref = IF result = "now" THEN r.ref ELSE 0]
                         ELSE FreedConn
  BY <1>4
<1>12. ASSUME NEW ref \in 0 .. 2, k = RefConn(cf, sf, ref)
       PROVE  /\ k \in ConnType /\ k.st = "live" /\ k.ref = ref
              /\ k.fd["client"] = cf /\ k.fd["server"] = sf
              /\ \A side \in Sides : k.buf[side] = EmptyBuf /\ k.netnacl[side] = NullNN
  BY <1>7, <1>12, NewConnFields
<1>13. result \in {"now", "pending"}
  BY <1>4, ProxyAssumption
<1>16. /\ accepted' = c /\ mgr' = r.mgr
       /\ UNCHANGED <<listen_fd, arrived, sent, call, mainVars, run_flag>>
  BY <1>4, <1>5
<1>17. /\ conns'[c] = k /\ \A d \in ConnIds : d # c => conns'[d] = conns[d]
       /\ k \in ConnType => conns' \in [ConnIds -> ConnType]
  BY <1>0, <1>6, <1>11 DEF Types
<1>14. CASE result = "pending"
  <2>1. r = event_add(mgr, sf, {"POLLOUT"}, c, "pending_connect_callback")
    BY <1>4, <1>14
  <2>2. {"POLLOUT"} \in PollMasks /\ {"POLLOUT"} # {} /\ "pending_connect_callback" \in Handlers
    BY DEF PollMasks, Handlers
  <2>3. /\ Sound(r.mgr) /\ KeepsSlots(mgr, r.mgr, sf)
        /\ r.err \in {PROXY_SUCCESS, PROXY_ERR, PROXY_MAX_EVENTS}
        /\ r.err # PROXY_SUCCESS => r.mgr = mgr
        /\ r.err = PROXY_SUCCESS =>
             /\ Watched(r.mgr) = Watched(mgr) \cup {sf}
             /\ HandlerAt(r.mgr, sf) = "pending_connect_callback" /\ DataAt(r.mgr, sf) = c
    BY <1>0, <1>6, <1>7, <2>1, <2>2, AddView DEF Structure
  <2>4. Outside(mgr, r.mgr, {cf, sf})
    BY <2>3, OutsideOne
  <2>5. \/ k = FreedConn /\ Watched(r.mgr) = Watched(mgr)
        \/ /\ k \in ConnType /\ k.st = "live" /\ k.fd["client"] = cf /\ k.fd["server"] = sf
           /\ \A side \in Sides : k.buf[side] = EmptyBuf /\ k.netnacl[side] = NullNN
           /\ Opening(r.mgr, c, k)
    <3>1. CASE r.err = PROXY_SUCCESS
      <4>1. k = RefConn(cf, sf, 0) /\ 0 \in 0 .. 2
        BY <1>11, <1>14, <3>1 DEF RefConn
      <4>2. /\ k \in ConnType /\ k.st = "live" /\ k.ref = 0
            /\ k.fd["client"] = cf /\ k.fd["server"] = sf
            /\ \A side \in Sides : k.buf[side] = EmptyBuf /\ k.netnacl[side] = NullNN
        BY <1>12, <4>1
      <4>3. Opening(r.mgr, c, k)
        BY <1>7, <2>3, <3>1, <4>2 DEF Opening
      <4> QED
        BY <4>2, <4>3
    <3>2. CASE r.err # PROXY_SUCCESS
      BY <1>11, <2>3, <3>2
    <3> QED
      BY <3>1, <3>2
  <2>6. AcceptCode(r.err) \in ProxyCodes
    BY <2>3, CodesTyped DEF AcceptCode
  <2>7. Moves /\ pc' # "send"
    BY <1>4, <2>6, NextSlotMoves
  <2>8. OpensConn(c, cf, sf)
    BY <1>1, <1>6, <1>7, <1>9, <1>10, <1>16, <1>17, <2>3, <2>4, <2>5, ConstTypes DEF OpensConn
  <2> QED
    BY <1>0, <1>6, <1>16, <2>7, <2>8, NewConnStep
<1>15. CASE result = "now"
  <2>1. PICK fd : fd = [client |-> cf, server |-> sf]
    OBVIOUS
  <2>2. r = add_connection_events(mgr, c, fd) /\ fd["client"] = cf /\ fd["server"] = sf
    BY <1>4, <1>15, <2>1
  <2>3. /\ Sound(r.mgr) /\ Outside(mgr, r.mgr, {cf, sf})
        /\ r.err \in {PROXY_SUCCESS, PROXY_ERR, PROXY_MAX_EVENTS}
        /\ r.err # PROXY_SUCCESS => Watched(r.mgr) = Watched(mgr)
        /\ r.err = PROXY_SUCCESS =>
             /\ r.ref = 2 /\ \A side \in Sides : Registered(r.mgr, c, side, fd[side])
    BY <1>0, <1>6, <1>7, <2>2, AddBoth DEF Structure
  <2>4. \/ k = FreedConn /\ Watched(r.mgr) = Watched(mgr)
        \/ /\ k \in ConnType /\ k.st = "live" /\ k.fd["client"] = cf /\ k.fd["server"] = sf
           /\ \A side \in Sides : k.buf[side] = EmptyBuf /\ k.netnacl[side] = NullNN
           /\ k.ref = 2 /\ \A side \in Sides : Registered(r.mgr, c, side, k.fd[side])
    <3>1. CASE r.err = PROXY_SUCCESS
      <4>1. k = RefConn(cf, sf, 2) /\ 2 \in 0 .. 2
        BY <1>11, <1>15, <2>3, <3>1 DEF RefConn
      <4>2. /\ k \in ConnType /\ k.st = "live" /\ k.ref = 2
            /\ k.fd["client"] = cf /\ k.fd["server"] = sf
            /\ \A side \in Sides : k.buf[side] = EmptyBuf /\ k.netnacl[side] = NullNN
        BY <1>12, <4>1
      <4>3. \A side \in Sides : Registered(r.mgr, c, side, k.fd[side])
        BY <2>2, <2>3, <3>1, <4>2
      <4> QED
        BY <4>2, <4>3
    <3>2. CASE r.err # PROXY_SUCCESS
      BY <1>11, <2>3, <3>2
    <3> QED
      BY <3>1, <3>2
  <2>6. AcceptCode(r.err) \in ProxyCodes
    BY <2>3, CodesTyped DEF AcceptCode
  <2>7. Moves /\ pc' # "send"
    BY <1>4, <2>6, NextSlotMoves
  <2>8. OpensConn(c, cf, sf)
    BY <1>1, <1>6, <1>7, <1>9, <1>10, <1>16, <1>17, <2>3, <2>4, ConstTypes DEF OpensConn
  <2> QED
    BY <1>0, <1>6, <1>16, <2>7, <2>8, NewConnStep
<1> QED
  BY <1>13, <1>14, <1>15

-----------------------------------------------------------------------------
(* A callback that leaves its connection c alive.                          *)

KeepsConn(c) ==
    /\ Sound(mgr') /\ Outside(mgr, mgr', FdsOf(c))
    /\ \A f \in Watched(mgr') : f \in FdsOf(c) =>
         /\ DataAt(mgr', f) = c /\ HandlerAt(mgr', f) # "accept_callback"
         /\ \E side \in Sides : f = conns'[c].fd[side]
    /\ SockTyped(sock') /\ \A f \in FdSet \ FdsOf(c) : sock'[f] = sock[f]
    /\ \A f \in FdsOf(c) : sock'[f].peer.conn \in {0, c}
    /\ conns' \in [ConnIds -> ConnType] /\ \A d \in ConnIds : d # c => conns'[d] = conns[d]
    /\ conns'[c].st = "live" /\ ConnInv(mgr', sock', c, conns'[c])

NNType == [key : {"null", "created", "sent", "ready"}, recv_pt : Seq(Nat),
           send_buf_pos : 0 .. NN_MAX_MESSAGE_LEN - 1]

\* A context by its fields.
LEMMA ConnFields ==
    ASSUME NEW k \in ConnType
    PROVE  /\ k = [st |-> k.st, fd |-> k.fd, buf |-> k.buf, netnacl |-> k.netnacl, ref |-> k.ref]
           /\ k.st \in {"unused", "live", "freed", "double free"}
           /\ k.fd \in [Sides -> FdSet \cup {NoFd}] /\ k.buf \in [Sides -> BufType]
           /\ k.netnacl \in [Sides -> NNType] /\ k.ref \in 0 .. 2
           /\ \A side \in Sides : /\ k.netnacl[side] \in NNType /\ k.buf[side] \in BufType
                                   /\ k.netnacl[side].send_buf_pos \in Nat
                                   /\ k.netnacl[side].recv_pt \in Seq(Nat)
                                   /\ k.buf[side].data \in Seq(Nat) /\ k.buf[side].read_pos \in Nat
                                   /\ k.fd[side] \in FdSet \cup {NoFd}
<1>1. /\ k = [st |-> k.st, fd |-> k.fd, buf |-> k.buf, netnacl |-> k.netnacl, ref |-> k.ref]
      /\ k.st \in {"unused", "live", "freed", "double free"}
      /\ k.fd \in [Sides -> FdSet \cup {NoFd}] /\ k.buf \in [Sides -> BufType]
      /\ k.netnacl \in [Sides -> NNType] /\ k.ref \in 0 .. 2
  BY DEF ConnType, NNType
<1>2. \A side \in Sides : k.netnacl[side] \in NNType /\ k.buf[side] \in BufType
  BY <1>1
<1>3. 0 .. NN_MAX_MESSAGE_LEN - 1 \subseteq Nat
  BY SocketsAssumption
<1>4. ASSUME NEW side \in Sides
      PROVE  /\ k.netnacl[side].send_buf_pos \in Nat /\ k.netnacl[side].recv_pt \in Seq(Nat)
  BY <1>2, <1>3 DEF NNType
<1>5. ASSUME NEW side \in Sides
      PROVE  k.buf[side].data \in Seq(Nat) /\ k.buf[side].read_pos \in Nat
  BY <1>2 DEF BufType
<1>6. \A side \in Sides : k.fd[side] \in FdSet \cup {NoFd}
  BY <1>1
<1> QED
  BY <1>1, <1>2, <1>4, <1>5, <1>6

LEMMA ConnMake ==
    ASSUME NEW st \in {"unused", "live", "freed", "double free"},
           NEW fd \in [Sides -> FdSet \cup {NoFd}], NEW buf \in [Sides -> BufType],
           NEW nn \in [Sides -> NNType], NEW ref \in 0 .. 2
    PROVE  [st |-> st, fd |-> fd, buf |-> buf, netnacl |-> nn, ref |-> ref] \in ConnType
BY DEF ConnType, NNType

LEMMA ConnSetRef ==
    ASSUME NEW k \in ConnType, NEW ref \in 0 .. 2, NEW n, n = [k EXCEPT !.ref = ref]
    PROVE  /\ n \in ConnType /\ n.st = k.st /\ n.fd = k.fd /\ n.buf = k.buf
           /\ n.netnacl = k.netnacl /\ n.ref = ref
<1>1. n = [st |-> k.st, fd |-> k.fd, buf |-> k.buf, netnacl |-> k.netnacl, ref |-> ref]
  BY DEF ConnType
<1>2. n \in ConnType
  <2>1. [st |-> k.st, fd |-> k.fd, buf |-> k.buf, netnacl |-> k.netnacl, ref |-> ref] \in ConnType
    BY ConnFields, ConnMake
  <2> QED
    BY <1>1, <2>1, Zenon
<1> QED
  BY <1>1, <1>2

\* One context is replaced.
LEMMA ConnsSet ==
    ASSUME Types, NEW c \in ConnIds, NEW k \in ConnType, conns' = [conns EXCEPT ![c] = k]
    PROVE  /\ conns' \in [ConnIds -> ConnType] /\ conns'[c] = k
           /\ \A d \in ConnIds : d # c => conns'[d] = conns[d]
BY DEF Types

LEMMA KeepsConnInv ==
    ASSUME IInv, pc \in {"dispatch", "send"}, NEW c \in ConnIds, Live(c), KeepsConn(c), Moves,
           call' \in [conn : ConnIds, side : Sides] \cup {NULL},
           pc' = "send" => call' \in [conn : ConnIds, side : Sides] /\ call'.conn = c,
           UNCHANGED <<listen_fd, arrived, accepted, sent, mainVars, run_flag>>
    PROVE  IInv' /\ Touches(c, FdsOf(c))
<1> USE SideFacts
<1> DEFINE F == FdsOf(c)
<1>0. Types /\ Structure
  BY DEF IInv
<1>1. /\ accepted \in Nat /\ accepted <= arrived /\ c <= accepted
      /\ \A f \in F : /\ f \in FdSet /\ f # listen_fd /\ f # 0 /\ sock[f].peer.conn = c
      /\ \A f \in Watched(mgr) : DataAt(mgr, f) = c => f \in F
  BY <1>0, LiveConn DEF Types
<1>2. \A f \in Watched(mgr') : f \notin F => DataAt(mgr', f) # c
  <2> SUFFICES ASSUME NEW f \in Watched(mgr'), f \notin F, DataAt(mgr', f) = c PROVE FALSE
    OBVIOUS
  <2>1. f \in Nat
    BY WatchedTyped DEF KeepsConn
  <2>2. Same(mgr, mgr', f)
    BY <1>0, <2>1, OutsideSame DEF Structure, KeepsConn
  <2> QED
    BY <1>1, <2>2 DEF Same
<1>3. Touches(c, F)
  <2> HIDE DEF F
  <2>1. /\ Sound(mgr') /\ Outside(mgr, mgr', F)
        /\ \A f \in Watched(mgr') : f \in F =>
             /\ DataAt(mgr', f) = c /\ HandlerAt(mgr', f) # "accept_callback"
             /\ \E side \in Sides : f = conns'[c].fd[side]
        /\ \A f \in FdSet \ F : sock'[f] = sock[f]
        /\ \A f \in F : sock'[f].peer.conn \in {0, c}
        /\ \A d \in ConnIds : d # c => conns'[d] = conns[d]
        /\ conns'[c].st = "live" /\ ConnInv(mgr', sock', c, conns'[c])
    BY DEF KeepsConn, F
  <2> QED
    BY <1>1, <1>2, <2>1 DEF Touches
<1>4. sock'[0].st = "stdin"
  <2>1. sock'[0] = sock[0]
    BY <1>1 DEF KeepsConn
  <2> QED
    BY <1>0, <2>1 DEF Structure, Listener, Running
<1>5. CallOK'
  BY DEF CallOK, KeepsConn, Live
<1>6. /\ conns' \in [ConnIds -> ConnType] /\ SockTyped(sock') /\ conns'[c].st = "live"
      /\ accepted' \in Nat /\ accepted <= accepted' /\ accepted' <= arrived /\ c <= accepted'
  BY <1>1 DEF KeepsConn
<1> HIDE DEF F
<1>7. IInv'
  BY <1>3, <1>4, <1>5, <1>6, CallbackInv
<1> QED
  BY <1>3, <1>7 DEF F

-----------------------------------------------------------------------------
(* pending_connect_callback.                                               *)

LEMMA AtPending ==
    ASSUME Types, Structure, At("pending_connect_callback")
    PROVE  /\ Conn \in ConnIds /\ Live(Conn) /\ pc = "dispatch"
           /\ Opening(mgr, Conn, conns[Conn]) /\ conns[Conn].fd["server"] = Fd
<1>1. /\ Conn \in ConnIds /\ Live(Conn) /\ HandlerAt(mgr, Fd) = "pending_connect_callback"
      /\ pc = "dispatch" /\ Fd # NoFd /\ Fd \in Watched(mgr)
      /\ SideOf(Conn, Fd) \in Sides /\ conns[Conn].fd[SideOf(Conn, Fd)] = Fd
  BY AtConnection DEF Handlers
<1>2. Opening(mgr, Conn, conns[Conn]) \/ Serving(mgr, Conn, conns[Conn])
  BY <1>1, LiveConn DEF ConnInv
<1>3. ~Serving(mgr, Conn, conns[Conn])
  BY <1>1 DEF Serving
<1>4. SideOf(Conn, Fd) = "server"
  BY <1>1, <1>2, <1>3, SideFacts DEF Opening
<1> QED
  BY <1>1, <1>2, <1>3, <1>4

LEMMA PendingFailsInv == ASSUME IInv, UNCHANGED mainVars, PendingConnectFails PROVE IInv'
<1>0. Types /\ Structure /\ At("pending_connect_callback")
  BY DEF IInv, PendingConnectFails, At, Dispatching
<1>1. Conn \in ConnIds /\ Live(Conn) /\ pc = "dispatch"
  BY <1>0, AtPending
<1>2. Sound(mgr) /\ Outside(mgr, mgr, FdsOf(Conn)) /\ close_connection(mgr, Conn)
  BY <1>0, OutsideNone DEF Structure, PendingConnectFails
<1>3. Moves /\ pc' # "send"
  BY CodesTyped, NextSlotMoves DEF PendingConnectFails
<1>4. UNCHANGED <<run_flag, listen_fd, call, arrived, accepted, sent>>
  BY DEF PendingConnectFails, peerVars
<1> QED
  BY <1>1, <1>2, <1>3, <1>4, CloseInv

\* Connection c, whose connect() is complete, was given up or has both its sides
\* registered.
OpenedOn(c) ==
    /\ c \in ConnIds /\ Live(c) /\ Touches(c, FdsOf(c))
    /\ \/ conns'[c].st # "live"
       \/ /\ conns'[c] \in ConnType /\ conns'[c].fd = conns[c].fd
          /\ conns'[c].buf = conns[c].buf /\ conns'[c].netnacl = conns[c].netnacl
          /\ conns[c].ref # 2 /\ conns'[c].ref = 2 /\ sock' = sock
          /\ \A side \in Sides : Registered(mgr', c, side, conns[c].fd[side])

LEMMA PendingSucceedsInv ==
    ASSUME IInv, UNCHANGED mainVars, PendingConnectSucceeds
    PROVE  IInv' /\ OpenedOn(Conn)
<1> USE SideFacts
<1>0. Types /\ Structure /\ At("pending_connect_callback")
  BY DEF IInv, PendingConnectSucceeds, At, Dispatching
<1>1. PICK c : c = Conn
  OBVIOUS
<1>2. PICK fd : fd = conns[c].fd
  OBVIOUS
<1>3. /\ c \in ConnIds /\ Live(c) /\ pc = "dispatch" /\ Opening(mgr, c, conns[c])
      /\ fd["server"] = Fd
  BY <1>0, <1>1, <1>2, AtPending
<1>4. PICK m : m = event_remove(mgr, Fd).mgr
  OBVIOUS
<1>5. PICK r : r = add_connection_events(m, c, fd)
  OBVIOUS
<1>6. /\ IF r.err = PROXY_SUCCESS
           THEN /\ mgr' = r.mgr
                /\ conns' = [conns EXCEPT ![c].ref = @ + r.ref]
                /\ sock' = sock
           ELSE close_connection(r.mgr, c)
      /\ NextSlot(r.err)
  BY <1>1, <1>2, <1>4, <1>5 DEF PendingConnectSucceeds
<1>7. /\ UNCHANGED <<run_flag, listen_fd, call, arrived, accepted, sent>>
      /\ UNCHANGED <<listen_fd, arrived, accepted, sent, mainVars, run_flag>>
  BY DEF PendingConnectSucceeds, peerVars
<1>8. /\ \A side \in Sides : fd[side] # NoFd /\ fd[side] \in FdsOf(c) /\ fd[side] \in FdSet
      /\ FdsOf(c) = {fd["client"], fd["server"]}
      /\ fd["client"] # fd["server"] /\ fd["client"] \notin Watched(mgr)
      /\ \A side \in Sides : conns[c].buf[side] = EmptyBuf
      /\ conns[c].ref = 0
  <2>1. /\ \A side \in Sides : fd[side] # NoFd /\ conns[c].buf[side] = EmptyBuf
        /\ fd["client"] \notin Watched(mgr) /\ fd["server"] \in Watched(mgr)
        /\ conns[c].ref = 0
    BY <1>2, <1>3 DEF Opening
  <2>2. \A side \in Sides : fd[side] \in FdsOf(c)
    BY <1>0, <1>2, <1>3, <2>1, LiveConn
  <2>3. \A side \in Sides : fd[side] \in FdSet
    BY <1>0, <1>2, <1>3, <2>2, LiveConn
  <2>4. FdsOf(c) = {fd["client"], fd["server"]}
    BY <1>2, <2>1 DEF FdsOf
  <2> QED
    BY <2>1, <2>2, <2>3, <2>4
<1>9. /\ Sound(m) /\ Watched(m) = Watched(mgr) \ {Fd} /\ Outside(mgr, m, FdsOf(c))
  BY <1>0, <1>3, <1>4, <1>8, RemoveView, RemoveOutside DEF Structure
<1>10. /\ Sound(r.mgr) /\ Outside(m, r.mgr, FdsOf(c))
       /\ r.err \in {PROXY_SUCCESS, PROXY_ERR, PROXY_MAX_EVENTS}
       /\ r.err = PROXY_SUCCESS =>
            /\ r.ref = 2
            /\ \A side \in Sides : Registered(r.mgr, c, side, fd[side])
  <2>1. /\ fd["client"] \in Nat /\ fd["server"] \in Nat
        /\ fd["client"] \notin Watched(m) /\ fd["server"] \notin Watched(m)
    BY <1>3, <1>8, <1>9
  <2> QED
    BY <1>3, <1>5, <1>8, <1>9, <2>1, AddBoth
<1>11. Outside(mgr, r.mgr, FdsOf(c))
  BY <1>9, <1>10, OutsideTwo
<1>12. Moves /\ pc' # "send"
  BY <1>6, <1>10, CodesTyped, NextSlotMoves
<1>13. CASE r.err # PROXY_SUCCESS
  <2>1. close_connection(r.mgr, c)
    BY <1>6, <1>13
  <2>2. IInv' /\ Touches(c, FdsOf(c))
    BY <1>3, <1>7, <1>10, <1>11, <1>12, <2>1, CloseInv
  <2>3. conns'[c].st # "live"
    <3>1. conns'[c] = FreedConn
      BY <1>0, <1>3, <1>10, <1>11, <2>1, CloseTouches
    <3> QED
      BY <3>1, ConstTypes
  <2>4. OpenedOn(c)
    BY <1>3, <2>2, <2>3 DEF OpenedOn
  <2> QED
    BY <1>1, <2>2, <2>4
<1>14. CASE r.err = PROXY_SUCCESS
  <2>1. /\ mgr' = r.mgr /\ sock' = sock /\ r.ref = 2
        /\ conns' = [conns EXCEPT ![c].ref = @ + r.ref]
    BY <1>6, <1>10, <1>14
  <2>2. PICK k : k = [conns[c] EXCEPT !.ref = 2]
    OBVIOUS
  <2>3. conns' = [conns EXCEPT ![c] = k]
    <3>1. [conns[c] EXCEPT !.ref = @ + r.ref] = k
      BY <1>8, <2>1, <2>2
    <3> QED
      BY <2>1, <3>1
  <2>4. /\ k \in ConnType /\ k.st = "live" /\ k.fd = fd /\ k.buf = conns[c].buf
        /\ k.netnacl = conns[c].netnacl /\ k.ref = 2
    <3>1. conns[c] \in ConnType /\ conns[c].st = "live"
      BY <1>0, <1>3 DEF Types, Live
    <3>2. 2 \in 0 .. 2
      OBVIOUS
    <3> QED
      BY <1>2, <2>2, <3>1, <3>2, ConnSetRef
  <2>5. /\ conns' \in [ConnIds -> ConnType] /\ conns'[c] = k
        /\ \A d \in ConnIds : d # c => conns'[d] = conns[d]
    BY <1>0, <1>3, <2>3, <2>4, ConnsSet
  <2>6. ConnInv(mgr', sock', c, k)
    <3>1. /\ Owned(sock, c, conns[c])
          /\ \A side \in Sides : BufOK(conns[c].buf[side], conns[c].netnacl[side])
      BY <1>0, <1>3, LiveConn DEF ConnInv
    <3>2. \A side \in Sides : k.netnacl[side].send_buf_pos = 0
      <4> SUFFICES ASSUME NEW side \in Sides PROVE k.netnacl[side].send_buf_pos = 0
        OBVIOUS
      <4>1. k.netnacl[side].send_buf_pos <= Len(Pending(EmptyBuf))
        BY <1>8, <2>4, <3>1 DEF BufOK
      <4>2. Len(Pending(EmptyBuf)) = 0
        BY ConstTypes
      <4>3. k.netnacl[side].send_buf_pos \in Nat
        BY <2>4, ConnFields
      <4> QED
        BY <4>1, <4>2, <4>3
    <3>3. \A side \in Sides :
             /\ k.fd[side] \in FdSet /\ k.fd[side] # 0
             /\ sock[k.fd[side]].peer = [conn |-> c, side |-> side]
             /\ sock[k.fd[side]].st \in Connected
             /\ k.buf[side] = EmptyBuf /\ k.netnacl[side].send_buf_pos = 0
      BY <1>2, <1>8, <2>4, <3>1, <3>2 DEF Owned
    <3>4. \A f \in FdSet : sock[f].peer.conn = c => \E side \in Sides : f = k.fd[side]
      <4>1. \A f \in FdSet : sock[f].peer.conn = c => f \in FdsOf(c)
        BY <1>0, <1>3, LiveConn
      <4> QED
        BY <1>8, <2>4, <4>1
    <3>5. k.ref = 2 /\ \A side \in Sides : Registered(r.mgr, c, side, k.fd[side])
      BY <1>10, <1>14, <2>4
    <3>6. ConnInv(r.mgr, sock, c, k)
      BY <1>3, <3>3, <3>4, <3>5, NewConnInv
    <3> QED
      BY <2>1, <3>6
  <2>7. KeepsConn(c)
    <3>1. \A f \in FdsOf(c) : /\ DataAt(mgr', f) = c /\ HandlerAt(mgr', f) # "accept_callback"
                              /\ \E side \in Sides : f = k.fd[side]
      BY <1>8, <1>10, <1>14, <2>1, <2>4 DEF Registered
    <3>2. \A f \in FdsOf(c) : sock'[f].peer.conn = c
      BY <1>0, <1>3, <2>1, LiveConn
    <3>3. SockTyped(sock')
      BY <1>0, <2>1 DEF Types
    <3> QED
      BY <1>10, <1>11, <2>1, <2>4, <2>5, <2>6, <3>1, <3>2, <3>3 DEF KeepsConn
  <2>8. call' \in [conn : ConnIds, side : Sides] \cup {NULL}
    BY <1>0, <1>7 DEF Types
  <2>9. IInv' /\ Touches(c, FdsOf(c))
    BY <1>3, <1>7, <1>12, <2>7, <2>8, KeepsConnInv
  <2>10. OpenedOn(c)
    BY <1>2, <1>3, <1>8, <1>10, <1>14, <2>1, <2>4, <2>5, <2>9 DEF OpenedOn
  <2> QED
    BY <1>1, <2>9, <2>10
<1> QED
  BY <1>1, <1>13, <1>14

-----------------------------------------------------------------------------
(* A connection in service: its handshakes and its data.                   *)

LEMMA AtServing ==
    ASSUME Types, Structure, NEW callback \in {"handshake_callback", "conn_callback"},
           At(callback)
    PROVE  /\ Conn \in ConnIds /\ Live(Conn) /\ HandlerAt(mgr, Fd) = callback
           /\ pc = "dispatch" /\ Fd \in FdSet /\ Fd \in Nat /\ Fd # NoFd /\ Fd \in Watched(mgr)
           /\ SideOf(Conn, Fd) \in Sides /\ conns[Conn].fd[SideOf(Conn, Fd)] = Fd
           /\ Fd \in FdsOf(Conn) /\ Serving(mgr, Conn, conns[Conn])
<1>1. callback \in Handlers \ {"accept_callback"}
  BY DEF Handlers
<1>2. /\ Conn \in ConnIds /\ Live(Conn) /\ HandlerAt(mgr, Fd) = callback
      /\ pc = "dispatch" /\ Fd \in FdSet /\ Fd # NoFd /\ Fd \in Watched(mgr)
      /\ SideOf(Conn, Fd) \in Sides /\ conns[Conn].fd[SideOf(Conn, Fd)] = Fd
      /\ Fd \in FdsOf(Conn)
  BY <1>1, AtConnection
<1>3. Opening(mgr, Conn, conns[Conn]) \/ Serving(mgr, Conn, conns[Conn])
  BY <1>2, LiveConn DEF ConnInv
<1>4. ~Opening(mgr, Conn, conns[Conn])
  BY <1>2, SideFacts DEF Opening
<1> QED
  BY <1>2, <1>3, <1>4, SideFacts

\* The element of one side changes; the connection is still served.
LEMMA ServingFrame ==
    ASSUME NEW m, NEW n, NEW c, NEW k, Serving(m, c, k), NEW f,
           \A side \in Sides : k.fd[side] \in FdSet \cup {NoFd},
           \A g \in Nat : g # f => Same(m, n, g),
           f \in Watched(n), DataAt(n, f) = c,
           HandlerAt(n, f) \in {"handshake_callback", "conn_callback"}
    PROVE  Serving(n, c, k)
BY SideFacts DEF Serving, Same

\* What a step has to show when it changes neither descriptors nor peers.
LEMMA ServesStep ==
    ASSUME Types, Structure, NEW c \in ConnIds, Live(c), Sound(mgr'),
           Outside(mgr, mgr', FdsOf(c)), SockTyped(sock'),
           \A f \in FdSet \ FdsOf(c) : sock'[f] = sock[f],
           \A f \in FdsOf(c) : sock'[f].peer = sock[f].peer /\ sock'[f].st = sock[f].st,
           NEW k \in ConnType, conns' = [conns EXCEPT ![c] = k],
           k.st = "live", k.fd = conns[c].fd, Serving(mgr', c, k),
           \A side \in Sides : BufOK(k.buf[side], k.netnacl[side]),
           MasksFit(mgr', k), HasWork(k)
    PROVE  KeepsConn(c)
<1> USE SideFacts
<1>1. /\ conns' \in [ConnIds -> ConnType] /\ conns'[c] = k
      /\ \A d \in ConnIds : d # c => conns'[d] = conns[d]
  BY ConnsSet
<1>2. /\ Owned(sock, c, conns[c])
      /\ \A f \in FdsOf(c) : /\ f \in FdSet /\ f # NoFd /\ sock[f].peer.conn = c
                             /\ \E side \in Sides : f = conns[c].fd[side]
      /\ \A side \in Sides : conns[c].fd[side] # NoFd => conns[c].fd[side] \in FdsOf(c)
  BY LiveConn DEF ConnInv
<1>3. \A f \in FdSet : /\ sock'[f].peer = sock[f].peer /\ sock'[f].st = sock[f].st
  BY <1>2
<1>4. Owned(sock', c, k)
  <2> QED
    BY <1>2, <1>3 DEF Owned
<1>5. ConnInv(mgr', sock', c, k)
  BY <1>4 DEF ConnInv
<1>6. \A f \in FdsOf(c) :
        /\ DataAt(mgr', f) = c /\ HandlerAt(mgr', f) # "accept_callback"
        /\ \E side \in Sides : f = k.fd[side]
  <2> SUFFICES ASSUME NEW f \in FdsOf(c)
               PROVE  /\ DataAt(mgr', f) = c /\ HandlerAt(mgr', f) # "accept_callback"
                      /\ \E side \in Sides : f = k.fd[side]
    OBVIOUS
  <2>1. PICK side \in Sides : f = k.fd[side] /\ f # NoFd
    BY <1>2
  <2> QED
    BY <2>1 DEF Serving
<1>7. \A f \in FdsOf(c) : sock'[f].peer.conn = c
  BY <1>2
<1> QED
  BY <1>1, <1>5, <1>6, <1>7 DEF KeepsConn

\* Data or a key is read from a socket.
LEMMA ConsumeOK ==
    ASSUME NEW s, SockOK(s), NEW n \in 0 .. Len(s.rx), NEW t, t = Consume(s, n)
    PROVE  /\ SockOK(t) /\ t.st = s.st /\ t.peer = s.peer /\ t.err = s.err /\ t.eof = s.eof
           /\ t.room = s.room /\ t.hello = s.hello /\ t.keyed = s.keyed
           /\ t.rx = SubSeq(s.rx, n + 1, Len(s.rx))
<1> DEFINE rx == SubSeq(s.rx, n + 1, Len(s.rx))
           ends == {e - n : e \in {e \in s.ends : e > n}}
<1>0. s \in SockType /\ s.ends \subseteq 1 .. Len(s.rx) /\ s.rx \in Seq(Nat)
  BY DEF SockOK, SockType
<1>1. rx \in Seq(Nat) /\ Len(rx) = Len(s.rx) - n
  BY <1>0
<1>2. ends \subseteq 1 .. Len(rx)
  <2>1. Len(s.rx) \in Nat /\ n \in Nat
    BY <1>0
  <2> HIDE DEF rx
  <2> SUFFICES ASSUME NEW e \in s.ends, e > n PROVE e - n \in 1 .. Len(rx)
    OBVIOUS
  <2>2. e \in Nat /\ e <= Len(s.rx)
    BY <1>0, <2>1
  <2> QED
    BY <1>1, <2>1, <2>2
<1>3. ends \in SUBSET Nat
  <2>1. 1 .. Len(rx) \subseteq Nat
    BY <1>1
  <2> QED
    BY <1>2, <2>1
<1>4. t = [st |-> s.st, rx |-> rx, ends |-> ends, eof |-> s.eof, err |-> s.err,
           room |-> s.room, keyed |-> s.keyed, hello |-> s.hello, peer |-> s.peer]
  BY <1>0 DEF Consume, SockType
<1> HIDE DEF rx, ends
<1>5. t \in SockType
  BY <1>0, <1>1, <1>3, <1>4 DEF SockType
<1>6. /\ t.rx = rx /\ t.ends = ends /\ t.st = s.st /\ t.peer = s.peer /\ t.err = s.err
      /\ t.eof = s.eof /\ t.room = s.room /\ t.hello = s.hello /\ t.keyed = s.keyed
  BY <1>4
<1>7. SockOK(t)
  BY <1>2, <1>5, <1>6 DEF SockOK
<1> QED
  BY <1>6, <1>7 DEF rx

\* A context of netnacl by its fields.
LEMMA NNFields ==
    ASSUME NEW nn \in NNType
    PROVE  /\ nn = [key |-> nn.key, recv_pt |-> nn.recv_pt, send_buf_pos |-> nn.send_buf_pos]
           /\ nn.key \in {"null", "created", "sent", "ready"} /\ nn.recv_pt \in Seq(Nat)
           /\ nn.send_buf_pos \in 0 .. NN_MAX_MESSAGE_LEN - 1
BY DEF NNType

LEMMA KeySent ==
    ASSUME NEW s, SockOK(s), s.room # 0, NEW t, t = [s EXCEPT !.room = @ - 1, !.keyed = TRUE]
    PROVE  SockOK(t) /\ t.st = s.st /\ t.peer = s.peer
<1>0. s \in SockType /\ s.room \in 0 .. TxCap /\ TxCap \in Nat
  BY SocketsAssumption DEF SockOK, SockType
<1>1. s.room - 1 \in 0 .. TxCap
  BY <1>0
<1>2. PICK room : room = s.room - 1
  OBVIOUS
<1>3. t = [st |-> s.st, rx |-> s.rx, ends |-> s.ends, eof |-> s.eof, err |-> s.err,
           room |-> room, keyed |-> TRUE, hello |-> s.hello, peer |-> s.peer]
  BY <1>0, <1>2 DEF SockType
<1>4. t \in SockType
  BY <1>0, <1>1, <1>2, <1>3 DEF SockType
<1> QED
  BY <1>3, <1>4 DEF SockOK

\* netnacl_wrap changes nothing but keys, room and what it has read.
LEMMA WrapTyped ==
    ASSUME NEW nn \in NNType, NEW s, SockOK(s), NEW w \in DoWrap(nn, s)
    PROVE  /\ w.err \in {NN_SUCCESS, NN_ERR, NN_WANT_READ, NN_WANT_WRITE}
           /\ w.nn \in NNType /\ w.nn.send_buf_pos = nn.send_buf_pos
           /\ SockOK(w.s) /\ w.s.st = s.st /\ w.s.peer = s.peer
<1>0. /\ s \in SockType /\ s.rx \in Seq(Nat) /\ s.room \in 0 .. TxCap /\ TxCap \in Nat
      /\ NN_ERR = PROXY_ERR
  BY SocketsAssumption, CodesTyped DEF SockOK, SockType
<1>1. ASSUME NEW key \in {"null", "created", "sent", "ready"}
      PROVE  /\ [nn EXCEPT !.key = key] \in NNType
             /\ [nn EXCEPT !.key = key].send_buf_pos = nn.send_buf_pos
  BY NNFields DEF NNType
<1> DEFINE out == SendKey(nn, s)
<1>2. /\ out.err \in {NN_SUCCESS, NN_ERR, NN_WANT_READ, NN_WANT_WRITE}
      /\ out.nn \in NNType /\ out.nn.send_buf_pos = nn.send_buf_pos
      /\ SockOK(out.s) /\ out.s.st = s.st /\ out.s.peer = s.peer
  <2>1. CASE out = [err |-> NN_SUCCESS, nn |-> nn, s |-> s]
             \/ out = [err |-> NN_ERR, nn |-> nn, s |-> s]
    BY <2>1
  <2>2. CASE out = [err |-> NN_WANT_WRITE, nn |-> [nn EXCEPT !.key = "created"], s |-> s]
    <3>1. PICK q : q = [nn EXCEPT !.key = "created"]
      OBVIOUS
    <3>2. q \in NNType /\ q.send_buf_pos = nn.send_buf_pos
      BY <1>1, <3>1
    <3>3. out = [err |-> NN_WANT_WRITE, nn |-> q, s |-> s]
      BY <2>2, <3>1
    <3> HIDE DEF out
    <3> QED
      BY <3>2, <3>3
  <2>3. CASE /\ s.room # 0
             /\ out = [err |-> NN_SUCCESS, nn |-> [nn EXCEPT !.key = "sent"],
                       s |-> [s EXCEPT !.room = @ - 1, !.keyed = TRUE]]
    <3>1. PICK t : t = [s EXCEPT !.room = @ - 1, !.keyed = TRUE]
      OBVIOUS
    <3>2. PICK q : q = [nn EXCEPT !.key = "sent"]
      OBVIOUS
    <3>3. q \in NNType /\ q.send_buf_pos = nn.send_buf_pos
      BY <1>1, <3>2
    <3>4. SockOK(t) /\ t.st = s.st /\ t.peer = s.peer
      BY <2>3, <3>1, KeySent
    <3>5. out = [err |-> NN_SUCCESS, nn |-> q, s |-> t]
      BY <2>3, <3>1, <3>2
    <3> HIDE DEF out
    <3> QED
      BY <3>3, <3>4, <3>5
  <2> QED
    BY <2>1, <2>2, <2>3 DEF SendKey
<1>3. CASE w = out
  BY <1>2, <1>3
<1>4. CASE w = RecvKey(out.nn, out.s)
  <2> HIDE DEF out
  <2>0. PICK p, t : p = out.nn /\ t = out.s
    OBVIOUS
  <2>1. /\ p \in NNType /\ p.send_buf_pos = nn.send_buf_pos
        /\ SockOK(t) /\ t.st = s.st /\ t.peer = s.peer /\ t.rx \in Seq(Nat)
    BY <1>2, <2>0 DEF SockOK, SockType
  <2>2. \/ t.rx # << >> /\ w = [err |-> NN_SUCCESS, nn |-> [p EXCEPT !.key = "ready"], s |-> Consume(t, 1)]
        \/ w = [err |-> NN_ERR, nn |-> p, s |-> t]
        \/ w = [err |-> NN_WANT_READ, nn |-> p, s |-> t]
    BY <1>4, <2>0 DEF RecvKey
  <2>3. CASE w = [err |-> NN_ERR, nn |-> p, s |-> t] \/ w = [err |-> NN_WANT_READ, nn |-> p, s |-> t]
    BY <2>1, <2>3
  <2>4. CASE /\ t.rx # << >>
             /\ w = [err |-> NN_SUCCESS, nn |-> [p EXCEPT !.key = "ready"], s |-> Consume(t, 1)]
    <3>1. 1 \in 0 .. Len(t.rx)
      BY <2>1, <2>4
    <3>2. PICK u : u = Consume(t, 1)
      OBVIOUS
    <3>3. SockOK(u) /\ u.st = t.st /\ u.peer = t.peer
      BY <2>1, <3>1, <3>2, ConsumeOK
    <3>4. PICK q : q = [p EXCEPT !.key = "ready"]
      OBVIOUS
    <3>5. q \in NNType /\ q.send_buf_pos = p.send_buf_pos
      BY <2>1, <3>4, NNFields DEF NNType
    <3>6. w = [err |-> NN_SUCCESS, nn |-> q, s |-> u]
      BY <2>4, <3>2, <3>4
    <3> QED
      BY <2>1, <3>3, <3>5, <3>6
  <2> QED
    BY <2>2, <2>3, <2>4
<1>5. CASE w = [err |-> PROXY_ERR, nn |-> nn, s |-> s]
  BY <1>0, <1>5
<1> QED
  BY <1>3, <1>4, <1>5 DEF DoWrap, netnacl_wrap

LEMMA PendingSeq ==
    ASSUME NEW b \in BufType, b.read_pos <= Len(b.data)
    PROVE  /\ Pending(b) \in Seq(Nat) /\ Len(Pending(b)) \in Nat
           /\ Len(Pending(b)) = Len(b.data) - b.read_pos
<1>1. b.data \in Seq(Nat) /\ b.read_pos \in Nat
  BY DEF BufType
<1>2. PICK data, p : data = b.data /\ p = b.read_pos
  OBVIOUS
<1>3. SubSeq(data, p + 1, Len(data)) \in Seq(Nat) /\ Len(SubSeq(data, p + 1, Len(data))) = Len(data) - p
  BY <1>1, <1>2
<1> QED
  BY <1>2, <1>3 DEF Pending

\* A buffer holds data exactly when some of it is to be sent.
LEMMA PendingData ==
    ASSUME NEW b \in BufType, NEW nn, BufOK(b, nn)
    PROVE  b.data = << >> <=> Pending(b) = << >>
<1>1. b.data \in Seq(Nat) /\ b.read_pos \in Nat
  BY DEF BufType
<1>2. ASSUME b.data = << >> PROVE Pending(b) = << >>
  BY <1>1, <1>2 DEF Pending
<1>3. ASSUME Pending(b) = << >> PROVE b.data = << >>
  BY <1>3, ConstTypes DEF BufOK
<1> QED
  BY <1>2, <1>3

LEMMA ConnSetNN ==
    ASSUME NEW k \in ConnType, NEW side \in Sides, NEW nn \in NNType,
           NEW n, n = [k EXCEPT !.netnacl[side] = nn]
    PROVE  /\ n \in ConnType /\ n.st = k.st /\ n.fd = k.fd /\ n.buf = k.buf /\ n.ref = k.ref
           /\ n.netnacl[side] = nn /\ n.netnacl[Other(side)] = k.netnacl[Other(side)]
<1>0. PICK nns : nns = [k.netnacl EXCEPT ![side] = nn]
  OBVIOUS
<1>1. n = [st |-> k.st, fd |-> k.fd, buf |-> k.buf, netnacl |-> nns, ref |-> k.ref]
  BY <1>0 DEF ConnType
<1>2. nns \in [Sides -> NNType] /\ nns[side] = nn /\ nns[Other(side)] = k.netnacl[Other(side)]
  BY <1>0, ConnFields, SideFacts
<1>3. n \in ConnType
  <2>1. [st |-> k.st, fd |-> k.fd, buf |-> k.buf, netnacl |-> nns, ref |-> k.ref] \in ConnType
    BY <1>2, ConnFields, ConnMake
  <2> QED
    BY <1>1, <2>1, Zenon
<1> QED
  BY <1>1, <1>2, <1>3

\* One socket changes, and neither its state nor its peer.
LEMMA SockSet ==
    ASSUME Types, NEW f \in FdSet, NEW x, SockOK(x), x.st = sock[f].st, x.peer = sock[f].peer,
           sock' = [sock EXCEPT ![f] = x]
    PROVE  /\ SockTyped(sock') /\ sock'[f] = x
           /\ \A g \in FdSet : g # f => sock'[g] = sock[g]
           /\ \A g \in FdSet : sock'[g].peer = sock[g].peer /\ sock'[g].st = sock[g].st
<1>1. /\ sock'[f] = x /\ \A g \in FdSet : g # f => sock'[g] = sock[g]
      /\ sock' = [g \in FdSet |-> sock'[g]]
  BY DEF Types, SockTyped
<1>2. \A g \in FdSet : SockOK(sock'[g])
  BY <1>1 DEF Types, SockTyped
<1>3. SockTyped(sock')
  BY <1>1, <1>2 DEF SockTyped, SockOK
<1> QED
  BY <1>1, <1>3

LEMMA HandshakeHupInv == ASSUME IInv, UNCHANGED mainVars, HandshakeHup PROVE IInv'
<1>0. Types /\ Structure /\ At("handshake_callback")
  BY DEF IInv, HandshakeHup, At, Dispatching
<1>1. Conn \in ConnIds /\ Live(Conn) /\ pc = "dispatch"
  BY <1>0, AtServing
<1>2. Sound(mgr) /\ Outside(mgr, mgr, FdsOf(Conn)) /\ close_connection(mgr, Conn)
  BY <1>0, OutsideNone DEF Structure, HandshakeHup
<1>3. Moves /\ pc' # "send"
  BY CodesTyped, NextSlotMoves DEF HandshakeHup
<1>4. UNCHANGED <<run_flag, listen_fd, call, arrived, accepted, sent>>
  BY DEF HandshakeHup, peerVars
<1> QED
  BY <1>1, <1>2, <1>3, <1>4, CloseInv

\* What the handshake makes of the side's element: the data callback with a
\* mask that fits the buffer, or another mask.
LEMMA AfterWrapView ==
    ASSUME Types, Structure, NEW c \in ConnIds, NEW side \in Sides, NEW f \in FdSet,
           f \in Watched(mgr), DataAt(mgr, f) = c, HandlerAt(mgr, f) = "handshake_callback",
           NEW err \in {NN_SUCCESS, NN_ERR, NN_WANT_READ, NN_WANT_WRITE},
           NEW r, r = AfterWrap(err, c, side, f)
    PROVE  /\ Sound(r.mgr) /\ KeepsSlots(mgr, r.mgr, f)
           /\ Watched(r.mgr) \subseteq Watched(mgr) \cup {f}
           /\ r.err \in {PROXY_SUCCESS, PROXY_ERR, PROXY_MAX_EVENTS}
           /\ r.err = PROXY_SUCCESS =>
                /\ f \in Watched(r.mgr) /\ DataAt(r.mgr, f) = c
                /\ HandlerAt(r.mgr, f) \in {"handshake_callback", "conn_callback"}
                /\ HandlerAt(r.mgr, f) = "conn_callback" <=> err = NN_SUCCESS
                /\ HandlerAt(r.mgr, f) = "conn_callback" => MaskAt(r.mgr, f) = HandshakeMask(c, side)
<1> USE SideFacts
<1>0. /\ Sound(mgr) /\ f \in Nat /\ NN_SUCCESS = 0 /\ NN_ERR = -1 /\ NN_WANT_READ = -3
      /\ NN_WANT_WRITE = -2
  BY DEF Structure, NN_SUCCESS, NN_ERR, NN_WANT_READ, NN_WANT_WRITE
<1>1. CASE err = NN_SUCCESS
  <2>1. PICK m, mask : m = event_remove(mgr, f).mgr /\ mask = HandshakeMask(c, side)
    OBVIOUS
  <2>2. r = event_add(m, f, mask, c, "conn_callback")
    BY <1>0, <1>1, <2>1 DEF AfterWrap
  <2>3. Sound(m) /\ KeepsSlots(mgr, m, f) /\ Watched(m) = Watched(mgr) \ {f}
    BY <1>0, <2>1, RemoveView
  <2>4. mask \in PollMasks /\ mask # {} /\ "conn_callback" \in Handlers
    BY <2>1 DEF HandshakeMask, PollMasks, Handlers
  <2>5. /\ Sound(r.mgr) /\ KeepsSlots(m, r.mgr, f)
        /\ r.err \in {PROXY_SUCCESS, PROXY_ERR, PROXY_MAX_EVENTS}
        /\ r.err # PROXY_SUCCESS => r.mgr = m
        /\ r.err = PROXY_SUCCESS =>
             /\ Watched(r.mgr) = Watched(m) \cup {f}
             /\ MaskAt(r.mgr, f) = mask /\ HandlerAt(r.mgr, f) = "conn_callback"
             /\ DataAt(r.mgr, f) = c
    BY <1>0, <2>2, <2>3, <2>4, AddView
  <2>6. KeepsSlots(mgr, r.mgr, f)
    BY <2>3, <2>5 DEF KeepsSlots
  <2>7. Watched(r.mgr) \subseteq Watched(mgr) \cup {f}
    BY <2>3, <2>5
  <2> QED
    BY <1>1, <2>1, <2>5, <2>6, <2>7
<1>2. CASE err \in {NN_WANT_READ, NN_WANT_WRITE}
  <2>1. PICK mask \in {{"POLLIN"}, {"POLLOUT"}} : r = event_modify(mgr, f, mask)
    BY <1>0, <1>2 DEF AfterWrap
  <2>2. mask \in PollMasks /\ mask # {}
    BY <2>1 DEF PollMasks
  <2>3. /\ Sound(r.mgr) /\ KeepsSlots(mgr, r.mgr, f) /\ Watched(r.mgr) = Watched(mgr)
        /\ r.err = PROXY_SUCCESS
        /\ HandlerAt(r.mgr, f) = HandlerAt(mgr, f) /\ DataAt(r.mgr, f) = DataAt(mgr, f)
    BY <1>0, <2>1, <2>2, ModifyView
  <2>4. err # NN_SUCCESS
    BY <1>0, <1>2
  <2> QED
    BY <2>3, <2>4
<1>3. CASE err = NN_ERR
  <2>1. r = [mgr |-> mgr, err |-> err]
    BY <1>0, <1>3 DEF AfterWrap
  <2>2. r.mgr = mgr /\ r.err = PROXY_ERR /\ PROXY_ERR # PROXY_SUCCESS
    BY <1>3, <2>1, CodesTyped
  <2> QED
    BY <1>0, <2>2 DEF KeepsSlots
<1> QED
  BY <1>1, <1>2, <1>3

\* do_handshake ended with w on a side of connection c, which was given up or
\* goes on with what w says.
WrappedOn(c, side, w) ==
    LET k == conns[c]
        n == conns'[c]
        f == conns[c].fd[side]
    IN  /\ c \in ConnIds /\ Live(c) /\ side \in Sides /\ Touches(c, FdsOf(c))
        /\ f \in FdSet /\ f # NoFd /\ f \in Watched(mgr)
        /\ HandlerAt(mgr, f) = "handshake_callback" /\ Serving(mgr, c, k)
        /\ w \in DoWrap(k.netnacl[side], sock[f])
        /\ \/ n.st # "live"
           \/ /\ n \in ConnType /\ n.fd = k.fd /\ n.buf = k.buf /\ n.ref = k.ref
              /\ n.netnacl[side] = w.nn /\ n.netnacl[Other(side)] = k.netnacl[Other(side)]
              /\ sock'[f] = w.s /\ \A h \in FdSet : h # f => sock'[h] = sock[h]
              /\ HandlerAt(mgr', f) \in {"handshake_callback", "conn_callback"}
              /\ HandlerAt(mgr', f) = "conn_callback" <=> w.err = NN_SUCCESS
              /\ \A h \in Nat : h # f => Same(mgr, mgr', h)

LEMMA HandshakeInv ==
    ASSUME IInv, UNCHANGED mainVars, Handshake
    PROVE  IInv' /\ \E c, side, w : WrappedOn(c, side, w)
<1> USE SideFacts
<1>0. Types /\ Structure /\ At("handshake_callback")
  BY DEF IInv, Handshake, At, Dispatching
<1>1. PICK c, f, side : c = Conn /\ f = Fd /\ side = SideOf(Conn, Fd)
  OBVIOUS
<1>2. /\ c \in ConnIds /\ Live(c) /\ HandlerAt(mgr, f) = "handshake_callback"
      /\ pc = "dispatch" /\ f \in FdSet /\ f \in Nat /\ f # NoFd /\ f \in Watched(mgr)
      /\ side \in Sides /\ conns[c].fd[side] = f /\ f \in FdsOf(c) /\ Serving(mgr, c, conns[c])
  BY <1>0, <1>1, AtServing
<1>3. PICK w, r :
        /\ w \in DoWrap(conns[c].netnacl[side], sock[f])
        /\ r = AfterWrap(w.err, c, side, f)
        /\ IF r.err = PROXY_SUCCESS
             THEN /\ mgr' = r.mgr
                  /\ conns' = [conns EXCEPT ![c].netnacl[side] = w.nn]
                  /\ sock' = [sock EXCEPT ![f] = w.s]
             ELSE close_connection(r.mgr, c)
        /\ NextSlot(IF r.err = NN_ERR THEN PROXY_SUCCESS ELSE r.err)
  BY <1>1 DEF Handshake
<1>4. /\ UNCHANGED <<run_flag, listen_fd, call, arrived, accepted, sent>>
      /\ UNCHANGED <<listen_fd, arrived, accepted, sent, mainVars, run_flag>>
  BY DEF Handshake, peerVars
<1>5. /\ conns[c] \in ConnType /\ conns[c].st = "live" /\ SockOK(sock[f]) /\ Sound(mgr)
      /\ conns[c].netnacl[side] \in NNType
      /\ DataAt(mgr, f) = c /\ ConnInv(mgr, sock, c, conns[c])
  <2>1. conns[c] \in ConnType /\ SockOK(sock[f])
    BY <1>0, <1>2 DEF Types, SockTyped
  <2> QED
    BY <1>0, <1>2, <2>1, ConnFields DEF Structure, Live, Serving
<1>6. /\ w.err \in {NN_SUCCESS, NN_ERR, NN_WANT_READ, NN_WANT_WRITE}
      /\ w.nn \in NNType /\ w.nn.send_buf_pos = conns[c].netnacl[side].send_buf_pos
      /\ SockOK(w.s) /\ w.s.st = sock[f].st /\ w.s.peer = sock[f].peer
  BY <1>3, <1>5, WrapTyped
<1>7. /\ Sound(r.mgr) /\ KeepsSlots(mgr, r.mgr, f)
      /\ Watched(r.mgr) \subseteq Watched(mgr) \cup {f}
      /\ r.err \in {PROXY_SUCCESS, PROXY_ERR, PROXY_MAX_EVENTS}
      /\ r.err = PROXY_SUCCESS =>
           /\ f \in Watched(r.mgr) /\ DataAt(r.mgr, f) = c
           /\ HandlerAt(r.mgr, f) \in {"handshake_callback", "conn_callback"}
           /\ HandlerAt(r.mgr, f) = "conn_callback" <=> w.err = NN_SUCCESS
           /\ HandlerAt(r.mgr, f) = "conn_callback" => MaskAt(r.mgr, f) = HandshakeMask(c, side)
  <2>1. r = AfterWrap(w.err, c, side, f)
    BY <1>3
  <2> QED
    BY <1>0, <1>2, <1>5, <1>6, <2>1, AfterWrapView
<1>8. Outside(mgr, r.mgr, FdsOf(c))
  BY <1>2, <1>7, OutsideOne
<1>9. Moves /\ pc' # "send"
  BY <1>3, <1>7, CodesTyped, NextSlotMoves
<1>10. CASE r.err # PROXY_SUCCESS
  <2>1. close_connection(r.mgr, c)
    BY <1>3, <1>10
  <2>2. IInv' /\ Touches(c, FdsOf(c))
    BY <1>2, <1>4, <1>7, <1>8, <1>9, <2>1, CloseInv
  <2>3. conns'[c].st # "live"
    <3>1. conns'[c] = FreedConn
      BY <1>0, <1>2, <1>7, <1>8, <2>1, CloseTouches
    <3> QED
      BY <3>1, ConstTypes
  <2>4. WrappedOn(c, side, w)
    BY <1>2, <1>3, <2>2, <2>3 DEF WrappedOn
  <2> QED
    BY <2>2, <2>4
<1>11. CASE r.err = PROXY_SUCCESS
  <2>1. /\ mgr' = r.mgr /\ conns' = [conns EXCEPT ![c].netnacl[side] = w.nn]
        /\ sock' = [sock EXCEPT ![f] = w.s]
    BY <1>3, <1>11
  <2>2. /\ SockTyped(sock') /\ \A g \in FdSet \ FdsOf(c) : sock'[g] = sock[g]
        /\ \A g \in FdSet : sock'[g].peer = sock[g].peer /\ sock'[g].st = sock[g].st
    BY <1>0, <1>2, <1>6, <2>1, SockSet, ZenonT(40)
  <2>3. PICK k : k = [conns[c] EXCEPT !.netnacl[side] = w.nn]
    OBVIOUS
  <2>4. conns' = [conns EXCEPT ![c] = k]
    BY <2>1, <2>3
  <2>5. /\ k \in ConnType /\ k.st = "live" /\ k.fd = conns[c].fd /\ k.buf = conns[c].buf
        /\ k.ref = conns[c].ref
        /\ k.netnacl[side] = w.nn /\ k.netnacl[Other(side)] = conns[c].netnacl[Other(side)]
    BY <1>2, <1>5, <1>6, <2>3, ConnSetNN
  <2>6. \A g \in Nat : g # f => Same(mgr, r.mgr, g)
    BY <1>5, <1>7, FromSlots
  <2>7. Serving(r.mgr, c, conns[c])
    <3>1. \A d \in Sides : conns[c].fd[d] \in FdSet \cup {NoFd}
      BY <1>5, ConnFields
    <3> QED
      BY <1>2, <1>7, <1>11, <2>6, <3>1, ServingFrame
  <2>8. Serving(mgr', c, k)
    BY <2>1, <2>5, <2>7 DEF Serving
  <2>9. \A d \in Sides : BufOK(conns[c].buf[d], conns[c].netnacl[d])
    BY <1>5 DEF ConnInv
  <2>10. \A d \in Sides : BufOK(k.buf[d], k.netnacl[d])
    <3>1. BufOK(k.buf[side], k.netnacl[side])
      BY <1>2, <1>6, <2>5, <2>9 DEF BufOK
    <3>2. BufOK(k.buf[Other(side)], k.netnacl[Other(side)])
      BY <1>2, <2>5, <2>9
    <3> QED
      BY <1>2, <3>1, <3>2
  <2>11. MasksFit(mgr', k)
    <3> SUFFICES ASSUME NEW d \in Sides, k.fd[d] # NoFd, k.fd[d] \in Watched(mgr'),
                        HandlerAt(mgr', k.fd[d]) = "conn_callback"
                 PROVE  "POLLOUT" \in MaskAt(mgr', k.fd[d]) <=> Pending(k.buf[d]) # << >>
      BY DEF MasksFit
    <3>1. CASE k.fd[d] = f
      <4>1. d = side
        <5>1. Owned(sock, c, conns[c])
          BY <1>5 DEF ConnInv
        <5>2. sock[f].peer = [conn |-> c, side |-> d] /\ sock[f].peer = [conn |-> c, side |-> side]
          BY <1>2, <2>5, <3>1, <5>1 DEF Owned
        <5> QED
          BY <5>2
      <4>2. MaskAt(mgr', f) = HandshakeMask(c, side)
        BY <1>7, <1>11, <2>1, <3>1
      <4>3. conns[c].buf[side].data # << >> <=> Pending(conns[c].buf[side]) # << >>
        BY <1>2, <1>5, <2>9, ConnFields, PendingData
      <4>4. "POLLOUT" \in HandshakeMask(c, side) <=> conns[c].buf[side].data # << >>
        BY DEF HandshakeMask
      <4> QED
        BY <2>5, <3>1, <4>1, <4>2, <4>3, <4>4
    <3>2. CASE k.fd[d] # f
      <4>1. Same(mgr, mgr', k.fd[d])
        <5>1. k.fd[d] \in Nat
          BY <2>5, ConnFields
        <5> QED
          BY <2>1, <2>6, <3>2, <5>1
      <4>2. MasksFit(mgr, conns[c])
        BY <1>5 DEF ConnInv
      <4> QED
        BY <2>5, <4>1, <4>2 DEF MasksFit, Same
    <3> QED
      BY <3>1, <3>2
  <2>12. HasWork(k)
    BY <1>5, <2>5 DEF ConnInv, HasWork
  <2>13. KeepsConn(c)
    <3>1. Sound(mgr') /\ Outside(mgr, mgr', FdsOf(c))
      BY <1>7, <1>8, <2>1
    <3>2. \A g \in FdsOf(c) : sock'[g].peer = sock[g].peer /\ sock'[g].st = sock[g].st
      BY <1>0, <1>2, <2>2, LiveConn
    <3> QED
      BY <1>0, <1>2, <2>2, <2>4, <2>5, <2>8, <2>10, <2>11, <2>12, <3>1, <3>2, ServesStep
  <2>14. call' \in [conn : ConnIds, side : Sides] \cup {NULL}
    BY <1>0, <1>4 DEF Types
  <2>15. IInv' /\ Touches(c, FdsOf(c))
    BY <1>2, <1>4, <1>9, <2>13, <2>14, KeepsConnInv
  <2>16. conns'[c] = k
    BY <1>0, <1>2, <2>4, <2>5, ConnsSet
  <2>17. sock'[f] = w.s /\ \A h \in FdSet : h # f => sock'[h] = sock[h]
    BY <1>0, <1>2, <1>6, <2>1, SockSet, ZenonT(40)
  <2>18. /\ HandlerAt(mgr', f) \in {"handshake_callback", "conn_callback"}
         /\ HandlerAt(mgr', f) = "conn_callback" <=> w.err = NN_SUCCESS
         /\ \A h \in Nat : h # f => Same(mgr, mgr', h)
    BY <1>7, <1>11, <2>1, <2>6
  <2>19. WrappedOn(c, side, w)
    BY <1>2, <1>3, <2>5, <2>15, <2>16, <2>17, <2>18 DEF WrappedOn
  <2> QED
    BY <2>15, <2>19
<1> QED
  BY <1>10, <1>11

-----------------------------------------------------------------------------
(* conn_callback, first half.                                              *)

\* handle_recv ends the callback, or hands the same connection to handle_send.
LEMMA AfterRecvMoves ==
    ASSUME Types, NEW err \in ProxyCodes, AfterRecv(err), Conn \in ConnIds,
           SideOf(Conn, Fd) \in Sides
    PROVE  /\ Moves /\ call' \in [conn : ConnIds, side : Sides] \cup {NULL}
           /\ pc' = "send" => call' \in [conn : ConnIds, side : Sides] /\ call'.conn = Conn
           /\ err # PROXY_SUCCESS => pc' # "send" /\ call' = call
<1>1. call \in [conn : ConnIds, side : Sides] \cup {NULL}
  BY DEF Types
<1>2. CASE err = PROXY_SUCCESS /\ "POLLOUT" \in Revents
  <2>1. /\ pc' = "send" /\ idx' = idx /\ ret' = ret
        /\ call' = [conn |-> Conn, side |-> SideOf(Conn, Fd)]
    BY <1>2 DEF AfterRecv
  <2>2. call' \in [conn : ConnIds, side : Sides] /\ call'.conn = Conn
    BY <2>1
  <2> QED
    BY <1>2, <2>1, <2>2 DEF Moves
<1>3. CASE ~(err = PROXY_SUCCESS /\ "POLLOUT" \in Revents)
  <2>1. /\ NextSlot(IF err = PROXY_DISCONNECT THEN PROXY_SUCCESS ELSE err) /\ call' = call
    BY <1>3 DEF AfterRecv
  <2>2. Moves /\ pc' # "send"
    BY <2>1, CodesTyped, NextSlotMoves
  <2> QED
    BY <1>1, <2>1, <2>2
<1> QED
  BY <1>2, <1>3

\* A step that leaves table, sockets and contexts alone.
LEMMA SameConn ==
    ASSUME Types, Structure, NEW c \in ConnIds, Live(c), UNCHANGED <<mgr, sock, conns>>
    PROVE  KeepsConn(c)
<1>1. /\ conns[c] \in ConnType /\ ConnInv(mgr, sock, c, conns[c])
      /\ \A f \in FdsOf(c) : /\ sock[f].peer.conn = c /\ \E side \in Sides : f = conns[c].fd[side]
                             /\ f # listen_fd
  BY LiveConn
<1>2. Sound(mgr) /\ Outside(mgr, mgr, FdsOf(c))
  BY OutsideNone DEF Structure
<1>3. SockTyped(sock) /\ conns \in [ConnIds -> ConnType]
  BY DEF Types
<1>4. ASSUME NEW f \in Watched(mgr), f \in FdsOf(c)
      PROVE  DataAt(mgr, f) = c /\ HandlerAt(mgr, f) # "accept_callback"
  <2>1. /\ DataAt(mgr, f) \in ConnIds /\ conns[DataAt(mgr, f)].st = "live"
        /\ HandlerAt(mgr, f) # "accept_callback"
        /\ \E side \in Sides : f = conns[DataAt(mgr, f)].fd[side]
    BY <1>1, <1>4 DEF Structure, Owners
  <2>2. f \in FdsOf(DataAt(mgr, f))
    BY <2>1, LiveConn DEF Live
  <2>3. sock[f].peer.conn = DataAt(mgr, f)
    BY <2>1, <2>2, LiveConn DEF Live
  <2> QED
    BY <1>1, <1>4, <2>1, <2>3
<1> QED
  BY <1>1, <1>2, <1>3, <1>4 DEF KeepsConn, Live

LEMMA ConnHupInv == ASSUME IInv, UNCHANGED mainVars, ConnHup PROVE IInv'
<1>0. Types /\ Structure /\ At("conn_callback")
  BY DEF IInv, ConnHup, At, Dispatching
<1>1. Conn \in ConnIds /\ Live(Conn) /\ pc = "dispatch"
  BY <1>0, AtServing
<1>4. UNCHANGED <<run_flag, listen_fd, call, arrived, accepted, sent>>
  BY DEF ConnHup, peerVars
<1>5. CASE "POLLNVAL" \in Revents
  <2>1. NextSlot(PROXY_ERR) /\ UNCHANGED <<mgr, sock, conns>>
    BY <1>5 DEF ConnHup
  <2>2. pc' = "returned" /\ ret' = PROXY_ERR /\ idx' = idx
    BY <2>1, CodesTyped DEF NextSlot
  <2> QED
    BY <1>0, <1>1, <1>4, <2>1, <2>2, CodesTyped, QuietInv DEF Types, mainVars
<1>6. CASE "POLLNVAL" \notin Revents
  <2>1. NextSlot(PROXY_SUCCESS) /\ close_connection(mgr, Conn)
    BY <1>6 DEF ConnHup
  <2>2. Moves /\ pc' # "send"
    BY <2>1, CodesTyped, NextSlotMoves
  <2>3. Sound(mgr) /\ Outside(mgr, mgr, FdsOf(Conn))
    BY <1>0, OutsideNone DEF Structure
  <2> QED
    BY <1>1, <1>4, <2>1, <2>2, <2>3, CloseInv
<1> QED
  BY <1>5, <1>6

\* Nothing is received: earlier data waits, or there is nothing to read.
LEMMA RecvIdle ==
    ASSUME IInv, UNCHANGED mainVars, At("conn_callback"), AfterRecv(PROXY_SUCCESS),
           UNCHANGED <<mgr, sock, conns, run_flag, listen_fd, peerVars>>
    PROVE  IInv'
<1>0. Types /\ Structure
  BY DEF IInv, At, Dispatching
<1>1. /\ Conn \in ConnIds /\ Live(Conn) /\ pc = "dispatch" /\ SideOf(Conn, Fd) \in Sides
  BY <1>0, AtServing
<1>2. KeepsConn(Conn)
  BY <1>0, <1>1, SameConn
<1>3. /\ Moves /\ call' \in [conn : ConnIds, side : Sides] \cup {NULL}
      /\ pc' = "send" => call' \in [conn : ConnIds, side : Sides] /\ call'.conn = Conn
  BY <1>0, <1>1, CodesTyped, AfterRecvMoves
<1>4. UNCHANGED <<listen_fd, arrived, accepted, sent, mainVars, run_flag>>
  BY DEF peerVars
<1> QED
  BY <1>1, <1>2, <1>3, <1>4, KeepsConnInv

\* What buf_recv returns: at most a buffer full, and not nothing when it says
\* that it received something.
LEMMA RecvTyped ==
    ASSUME NEW nn \in NNType, NEW s, SockOK(s), NEW r \in buf_recv(nn, s)
    PROVE  /\ r.data \in Seq(Nat) /\ Len(r.data) <= BUF_SIZ /\ r.recv_pt \in Seq(Nat)
           /\ SockOK(r.s) /\ r.s.st = s.st /\ r.s.peer = s.peer
           /\ r.err \in {PROXY_SUCCESS, PROXY_ERR, PROXY_DISCONNECT, PROXY_WOULD_BLOCK}
           /\ GotData(r) => r.data # << >>
<1>0. s.rx \in Seq(Nat) /\ nn.recv_pt \in Seq(Nat) /\ s.ends \subseteq 1 .. Len(s.rx)
  BY NNFields DEF SockOK, SockType
<1>1. PICK k \in Reads(nn, s) : r = Received(Read(nn, s, k), s, k)
  BY DEF buf_recv
<1>2. k \in 0 .. Len(s.rx)
  <2>1. k \in {0} \cup s.ends /\ Len(s.rx) \in Nat
    BY <1>0 DEF Reads
  <2> QED
    BY <1>0, <2>1
<1>3. PICK all : all = Read(nn, s, k)
  OBVIOUS
<1>4. all \in Seq(Nat)
  <2>1. SubSeq(s.rx, 1, k) \in Seq(Nat)
    BY <1>0, <1>2
  <2> QED
    BY <1>0, <1>3, <2>1 DEF Read
<1>5. PICK n : n = RecvSize(all)
  OBVIOUS
<1>6. /\ n \in Nat /\ n <= Len(all) /\ n <= BUF_SIZ /\ Len(all) \in Nat /\ BUF_SIZ \in Nat
      /\ BUF_SIZ # 0
  BY <1>4, <1>5, ProxyAssumption DEF RecvSize
<1>7. PICK t : t = Consume(s, k)
  OBVIOUS
<1>8. SockOK(t) /\ t.st = s.st /\ t.peer = s.peer
  BY <1>2, <1>7, ConsumeOK
<1>9. r = [data |-> SubSeq(all, 1, n), recv_pt |-> SubSeq(all, n + 1, Len(all)),
           s |-> t, err |-> RecvCode(s, n)]
  BY <1>1, <1>3, <1>5, <1>7 DEF Received, RecvPt
<1>10. /\ SubSeq(all, 1, n) \in Seq(Nat) /\ Len(SubSeq(all, 1, n)) = n
       /\ SubSeq(all, n + 1, Len(all)) \in Seq(Nat)
  BY <1>4, <1>6
<1>11. /\ RecvCode(s, n) \in {PROXY_SUCCESS, PROXY_ERR, PROXY_DISCONNECT, PROXY_WOULD_BLOCK}
       /\ RecvCode(s, n) = PROXY_SUCCESS => n # 0
  BY <1>6, CodesTyped DEF RecvCode
<1>12. GotData(r) => r.data # << >>
  <2> SUFFICES ASSUME GotData(r), r.data = << >> PROVE FALSE
    OBVIOUS
  <2>1. r.err = PROXY_SUCCESS
    BY DEF GotData
  <2>2. n # 0
    BY <1>9, <1>11, <2>1
  <2>3. Len(r.data) = n /\ Len(<< >>) = 0
    BY <1>9, <1>10
  <2> QED
    BY <2>2, <2>3
<1> QED
  BY <1>6, <1>8, <1>9, <1>10, <1>11, <1>12

LEMMA RecvClosesInv ==
    ASSUME IInv, UNCHANGED mainVars, At("conn_callback"),
           NEW r \in buf_recv(conns[Conn].netnacl[SideOf(Conn, Fd)], sock[Fd]), RecvCloses(r),
           UNCHANGED <<run_flag, listen_fd, peerVars>>
    PROVE  IInv'
<1>0. Types /\ Structure
  BY DEF IInv, At, Dispatching
<1>1. /\ Conn \in ConnIds /\ Live(Conn) /\ pc = "dispatch" /\ SideOf(Conn, Fd) \in Sides
      /\ Fd \in FdSet
  BY <1>0, AtServing
<1>2. conns[Conn].netnacl[SideOf(Conn, Fd)] \in NNType /\ SockOK(sock[Fd])
  <2>1. conns[Conn] \in ConnType
    BY <1>0, <1>1 DEF Types
  <2> QED
    BY <1>0, <1>1, <2>1, ConnFields DEF Types, SockTyped
<1>3. r.err \in {PROXY_SUCCESS, PROXY_ERR, PROXY_DISCONNECT, PROXY_WOULD_BLOCK}
  BY <1>2, RecvTyped
<1>4. PICK err : /\ err = IF GotData(r) THEN PROXY_DISCONNECT ELSE r.err
                 /\ AfterRecv(err)
  BY DEF RecvCloses
<1>5. err \in {PROXY_ERR, PROXY_DISCONNECT}
  BY <1>3, <1>4 DEF RecvCloses, GotData
<1>6. err \in ProxyCodes /\ err # PROXY_SUCCESS
  BY <1>5, CodesTyped DEF ProxyCodes, PROXY_MAX_EVENTS, PROXY_SUCCESS
<1>7. Moves /\ pc' # "send" /\ call' = call
  BY <1>0, <1>1, <1>4, <1>6, AfterRecvMoves
<1>8. close_connection(mgr, Conn) /\ Sound(mgr) /\ Outside(mgr, mgr, FdsOf(Conn))
  BY <1>0, OutsideNone DEF RecvCloses, Structure
<1>9. UNCHANGED <<run_flag, listen_fd, arrived, accepted, sent>>
  BY DEF peerVars
<1> QED
  BY <1>1, <1>7, <1>8, <1>9, CloseInv

\* The context after data has been received on a side, and after its FIN.
RecvConn(k, side, data, pt) ==
    [k EXCEPT !.buf[Other(side)].data = data, !.netnacl[side].recv_pt = pt]
FinConn(k, side) == [k EXCEPT !.fd[side] = NoFd, !.netnacl[side] = NullNN]

LEMMA ConnSetRecv ==
    ASSUME NEW k \in ConnType, NEW side \in Sides, NEW data \in Seq(Nat), NEW pt \in Seq(Nat),
           NEW n, n = RecvConn(k, side, data, pt)
    PROVE  /\ n \in ConnType /\ n.st = k.st /\ n.fd = k.fd /\ n.ref = k.ref
           /\ n.buf[side] = k.buf[side]
           /\ n.buf[Other(side)] = [data |-> data, read_pos |-> k.buf[Other(side)].read_pos]
           /\ n.netnacl[side].send_buf_pos = k.netnacl[side].send_buf_pos
           /\ n.netnacl[side].key = k.netnacl[side].key /\ n.netnacl[side].recv_pt = pt
           /\ n.netnacl[Other(side)] = k.netnacl[Other(side)]
<1>a. Other(side) \in Sides /\ Other(side) # side
  BY SideFacts
<1>0. PICK o, b, nn : /\ o = Other(side) /\ b = [k.buf[o] EXCEPT !.data = data]
                      /\ nn = [k.netnacl[side] EXCEPT !.recv_pt = pt]
  OBVIOUS
<1>1. PICK bufs, nns : bufs = [k.buf EXCEPT ![o] = b] /\ nns = [k.netnacl EXCEPT ![side] = nn]
  OBVIOUS
<1>2. n = [st |-> k.st, fd |-> k.fd, buf |-> bufs, netnacl |-> nns, ref |-> k.ref]
  BY <1>0, <1>1 DEF ConnType, RecvConn
<1>3. o \in Sides /\ o # side
  BY <1>a, <1>0
<1>4. k.buf[o] \in BufType /\ k.netnacl[side] \in NNType
  BY <1>3, ConnFields
<1>5. b = [data |-> data, read_pos |-> k.buf[o].read_pos] /\ b \in BufType
  BY <1>0, <1>4 DEF BufType
<1>6. /\ nn \in NNType /\ nn.send_buf_pos = k.netnacl[side].send_buf_pos
      /\ nn.key = k.netnacl[side].key /\ nn.recv_pt = pt
  BY <1>0, <1>4 DEF NNType
<1>7. bufs \in [Sides -> BufType] /\ bufs[o] = b /\ bufs[side] = k.buf[side]
  <2>1. k.buf \in [Sides -> BufType]
    BY ConnFields
  <2> QED
    BY <1>1, <1>3, <1>5, <2>1
<1>8. nns \in [Sides -> NNType] /\ nns[side] = nn /\ nns[o] = k.netnacl[o]
  <2>1. k.netnacl \in [Sides -> NNType]
    BY ConnFields
  <2> QED
    BY <1>1, <1>3, <1>6, <2>1
<1>9. n \in ConnType
  <2>1. /\ k.st \in {"unused", "live", "freed", "double free"}
        /\ k.fd \in [Sides -> FdSet \cup {NoFd}] /\ k.ref \in 0 .. 2
    BY ConnFields
  <2>2. [st |-> k.st, fd |-> k.fd, buf |-> bufs, netnacl |-> nns, ref |-> k.ref] \in ConnType
    BY <1>7, <1>8, <2>1, ConnMake
  <2> QED
    BY <1>2, <2>2, Zenon
<1>10. /\ n.st = k.st /\ n.fd = k.fd /\ n.ref = k.ref /\ n.buf = bufs /\ n.netnacl = nns
  BY <1>2
<1>11. /\ n.buf[side] = k.buf[side]
       /\ n.buf[o] = [data |-> data, read_pos |-> k.buf[o].read_pos]
  BY <1>5, <1>7, <1>10
<1>12. /\ n.netnacl[side].send_buf_pos = k.netnacl[side].send_buf_pos
       /\ n.netnacl[side].key = k.netnacl[side].key /\ n.netnacl[side].recv_pt = pt
       /\ n.netnacl[o] = k.netnacl[o]
  BY <1>6, <1>8, <1>10
<1> QED
  BY <1>0, <1>9, <1>10, <1>11, <1>12

LEMMA ConnSetFin ==
    ASSUME NEW k \in ConnType, NEW side \in Sides, NEW n,
           n = FinConn(k, side)
    PROVE  /\ n \in ConnType /\ n.st = k.st /\ n.ref = k.ref /\ n.buf = k.buf
           /\ n.fd[side] = NoFd /\ n.fd[Other(side)] = k.fd[Other(side)]
           /\ n.netnacl[side] = NullNN /\ n.netnacl[Other(side)] = k.netnacl[Other(side)]
<1>0. PICK fds, nns : fds = [k.fd EXCEPT ![side] = NoFd] /\ nns = [k.netnacl EXCEPT ![side] = NullNN]
  OBVIOUS
<1>1. n = [st |-> k.st, fd |-> fds, buf |-> k.buf, netnacl |-> nns, ref |-> k.ref]
  BY <1>0 DEF ConnType, FinConn
<1>2. /\ fds \in [Sides -> FdSet \cup {NoFd}] /\ fds[side] = NoFd
      /\ fds[Other(side)] = k.fd[Other(side)]
  BY <1>0, ConnFields, SideFacts
<1>3. NullNN \in NNType
  <2>1. 0 \in 0 .. NN_MAX_MESSAGE_LEN - 1
    BY SocketsAssumption
  <2> QED
    BY <2>1 DEF NullNN, NNType
<1>4. /\ nns \in [Sides -> NNType] /\ nns[side] = NullNN
      /\ nns[Other(side)] = k.netnacl[Other(side)]
  BY <1>0, <1>3, ConnFields, SideFacts
<1>5. n \in ConnType
  <2>1. /\ k.st \in {"unused", "live", "freed", "double free"}
        /\ k.buf \in [Sides -> BufType] /\ k.ref \in 0 .. 2
    BY ConnFields
  <2>2. [st |-> k.st, fd |-> fds, buf |-> k.buf, netnacl |-> nns, ref |-> k.ref] \in ConnType
    BY <1>2, <1>4, <2>1, ConnMake
  <2> QED
    BY <1>1, <2>2, Zenon
<1> QED
  BY <1>1, <1>2, <1>4, <1>5

\* A buffer that has just been filled.
LEMMA FilledBuf ==
    ASSUME NEW data \in Seq(Nat), Len(data) <= BUF_SIZ, data # << >>, NEW b,
           b = [data |-> data, read_pos |-> 0], NEW nn, nn.send_buf_pos = 0
    PROVE  BufOK(b, nn) /\ Pending(b) # << >>
<1>1. b.data = data /\ b.read_pos = 0 /\ Len(data) \in Nat
  OBVIOUS
<1>2. Pending(b) = data
  <2>1. SubSeq(data, 1, Len(data)) = data
    OBVIOUS
  <2> QED
    BY <1>1, <2>1 DEF Pending
<1> QED
  BY <1>1, <1>2 DEF BufOK

\* handle_recv took r from a side of connection c into the buffer for the other;
\* behind a FIN the side is gone.
ReceivedOn(c, side, r) ==
    LET k == conns[c]
        n == conns'[c]
        o == Other(side)
    IN  /\ c \in ConnIds /\ Live(c) /\ side \in Sides /\ Touches(c, FdsOf(c))
        /\ k.fd[side] # NoFd /\ k.fd[side] \in Watched(mgr)
        /\ HandlerAt(mgr, k.fd[side]) = "conn_callback"
        /\ r \in buf_recv(k.netnacl[side], sock[k.fd[side]]) /\ Serving(mgr, c, k)
        /\ n \in ConnType /\ n.st = "live" /\ n.ref = k.ref
        /\ k.buf[o] = EmptyBuf /\ n.buf[o] = [data |-> r.data, read_pos |-> 0]
        /\ n.buf[side] = k.buf[side] /\ n.netnacl[o] = k.netnacl[o] /\ n.fd[o] = k.fd[o]
        /\ IF r.err = PROXY_DISCONNECT
             THEN n.fd[side] = NoFd
             ELSE /\ n.fd[side] = k.fd[side] /\ n.netnacl[side].key = k.netnacl[side].key
                  /\ n.netnacl[side].recv_pt = r.recv_pt /\ sock'[k.fd[side]] = r.s
        /\ \A f \in FdSet : f # k.fd[side] => sock'[f] = sock[f]
        /\ \A f \in FdSet : f \in Watched(mgr') =>
             f \in Watched(mgr) /\ HandlerAt(mgr', f) = HandlerAt(mgr, f)

LEMMA RecvDataInv ==
    ASSUME IInv, UNCHANGED mainVars, At("conn_callback"), RecvBuf.data = << >>,
           NEW r \in buf_recv(conns[Conn].netnacl[SideOf(Conn, Fd)], sock[Fd]), RecvData(r),
           UNCHANGED <<run_flag, listen_fd, peerVars>>
    PROVE  IInv' /\ ReceivedOn(Conn, SideOf(Conn, Fd), r)
<1> USE SideFacts
<1>0. Types /\ Structure
  BY DEF IInv, At, Dispatching
<1>1. PICK c, f, side, o, g :
        /\ c = Conn /\ f = Fd /\ side = SideOf(Conn, Fd) /\ o = Other(side)
        /\ g = conns[c].fd[o]
  OBVIOUS
<1>2. /\ c \in ConnIds /\ Live(c) /\ pc = "dispatch" /\ f \in FdSet /\ f \in Nat /\ f # NoFd
      /\ side \in Sides /\ conns[c].fd[side] = f /\ f \in FdsOf(c) /\ Serving(mgr, c, conns[c])
      /\ f \in Watched(mgr) /\ HandlerAt(mgr, f) = "conn_callback"
  BY <1>0, <1>1, AtServing
<1>3. o \in Sides /\ o # side /\ Other(o) = side /\ Sides = {side, o}
  BY <1>1, <1>2
<1>4. /\ conns[c] \in ConnType /\ conns[c].st = "live" /\ Sound(mgr)
      /\ conns[c].netnacl[side] \in NNType /\ conns[c].netnacl[o] \in NNType
      /\ conns[c].buf[o] \in BufType /\ SockOK(sock[f])
      /\ ConnInv(mgr, sock, c, conns[c])
  <2>1. conns[c] \in ConnType /\ SockOK(sock[f])
    BY <1>0, <1>2 DEF Types, SockTyped
  <2> QED
    BY <1>0, <1>2, <1>3, <2>1, ConnFields DEF Structure, Live
<1>5. /\ r.data \in Seq(Nat) /\ Len(r.data) <= BUF_SIZ /\ r.recv_pt \in Seq(Nat)
      /\ SockOK(r.s) /\ r.s.st = sock[f].st /\ r.s.peer = sock[f].peer
      /\ r.data # << >>
  BY <1>1, <1>4, RecvTyped DEF RecvData
<1>6. g # NoFd /\ g \in FdsOf(c) /\ g \in FdSet /\ g \in Nat /\ g \in Watched(mgr) /\ g # f
  <2>1. g # NoFd
    BY <1>1 DEF RecvData, ModFd
  <2>2. g \in FdsOf(c)
    BY <1>0, <1>1, <1>2, <1>3, <2>1, LiveConn
  <2>3. g \in FdSet
    BY <1>0, <1>2, <2>2, LiveConn
  <2>4. g \in Watched(mgr)
    BY <1>1, <1>2, <1>3, <2>1 DEF Serving
  <2>5. Owned(sock, c, conns[c])
    BY <1>4 DEF ConnInv
  <2>6. sock[g].peer.side = o /\ sock[f].peer.side = side
    BY <1>1, <1>2, <1>3, <2>1, <2>5 DEF Owned
  <2> QED
    BY <1>3, <2>1, <2>2, <2>3, <2>4, <2>6
<1>7. /\ conns[c].buf[o].read_pos = 0 /\ conns[c].netnacl[o].send_buf_pos = 0
      /\ conns[c].buf[o] = EmptyBuf
      /\ \A d \in Sides : BufOK(conns[c].buf[d], conns[c].netnacl[d])
  <2>1. \A d \in Sides : BufOK(conns[c].buf[d], conns[c].netnacl[d])
    BY <1>4 DEF ConnInv
  <2>2. conns[c].buf[o].data = << >>
    BY <1>1 DEF RecvBuf
  <2>3. Pending(conns[c].buf[o]) = << >>
    BY <1>3, <1>4, <2>1, <2>2, PendingData
  <2>4. conns[c].buf[o] = EmptyBuf
    BY <1>3, <2>1, <2>3 DEF BufOK
  <2>5. conns[c].netnacl[o].send_buf_pos <= Len(<< >>)
    BY <1>3, <2>1, <2>3 DEF BufOK
  <2>6. conns[c].netnacl[o].send_buf_pos \in Nat /\ Len(<< >>) = 0
    BY <1>3, <1>4, ConnFields
  <2>7. conns[c].netnacl[o].send_buf_pos = 0
    BY <2>5, <2>6
  <2> QED
    BY <2>1, <2>4, <2>7, ConstTypes
<1>8. PICK full : full = RecvConn(conns[c], side, r.data, r.recv_pt)
  OBVIOUS
<1>9. /\ full \in ConnType /\ full.st = "live" /\ full.fd = conns[c].fd /\ full.ref = conns[c].ref
      /\ full.buf[side] = conns[c].buf[side]
      /\ full.buf[o] = [data |-> r.data, read_pos |-> 0]
      /\ full.netnacl[side].send_buf_pos = conns[c].netnacl[side].send_buf_pos
      /\ full.netnacl[side].key = conns[c].netnacl[side].key
      /\ full.netnacl[side].recv_pt = r.recv_pt
      /\ full.netnacl[o] = conns[c].netnacl[o]
  <2>1. PICK k, data, pt : k = conns[c] /\ data = r.data /\ pt = r.recv_pt
    OBVIOUS
  <2>2. /\ k \in ConnType /\ side \in Sides /\ data \in Seq(Nat) /\ pt \in Seq(Nat)
        /\ full = RecvConn(k, side, data, pt)
    BY <1>2, <1>4, <1>5, <1>8, <2>1
  <2>3. /\ full \in ConnType /\ full.st = k.st /\ full.fd = k.fd /\ full.ref = k.ref
        /\ full.buf[side] = k.buf[side]
        /\ full.buf[Other(side)] = [data |-> data, read_pos |-> k.buf[Other(side)].read_pos]
        /\ full.netnacl[side].send_buf_pos = k.netnacl[side].send_buf_pos
        /\ full.netnacl[side].key = k.netnacl[side].key /\ full.netnacl[side].recv_pt = pt
        /\ full.netnacl[Other(side)] = k.netnacl[Other(side)]
    BY <2>2, ConnSetRecv
  <2> QED
    BY <1>1, <1>4, <1>7, <2>1, <2>3
<1>10. BufOK(full.buf[o], full.netnacl[o]) /\ Pending(full.buf[o]) # << >>
  BY <1>5, <1>7, <1>9, FilledBuf
<1>11. PICK fin, m, mod :
         /\ fin = (r.err = PROXY_DISCONNECT)
         /\ m = IF fin THEN event_remove(mgr, f).mgr ELSE mgr
         /\ mod = event_modify(m, g, SendMask)
         /\ mgr' = mod.mgr
         /\ sock' = IF fin THEN CloseFds(sock, {f}) ELSE [sock EXCEPT ![f] = r.s]
         /\ conns' = [conns EXCEPT ![c] =
              IF fin THEN FinConn(full, side) ELSE full]
         /\ AfterRecv(mod.err)
  BY <1>1, <1>8, Zenon DEF RecvData, ModFd, RecvConn, FinConn
<1>12. /\ Sound(m) /\ Watched(m) = (IF fin THEN Watched(mgr) \ {f} ELSE Watched(mgr))
       /\ Outside(mgr, m, FdsOf(c)) /\ Same(mgr, m, g)
       /\ \A h \in Nat : h # f => Same(mgr, m, h)
       /\ ~fin => m = mgr
  <2>1. CASE fin
    <3>1. m = event_remove(mgr, f).mgr
      BY <1>11, <2>1
    <3>2. /\ Sound(m) /\ Watched(m) = Watched(mgr) \ {f} /\ Same(mgr, m, g)
          /\ \A h \in Nat : h # f => Same(mgr, m, h)
      BY <1>2, <1>4, <1>6, <3>1, RemoveView
    <3>3. Outside(mgr, m, FdsOf(c))
      BY <1>2, <1>4, <3>1, RemoveOutside
    <3> QED
      BY <2>1, <3>2, <3>3
  <2>2. CASE ~fin
    BY <1>4, <1>11, <2>2, OutsideNone DEF Same
  <2> QED
    BY <2>1, <2>2
<1>13. g \in Watched(m) /\ HandlerAt(m, g) \in {"handshake_callback", "conn_callback"}
       /\ DataAt(m, g) = c
  <2>1. HandlerAt(mgr, g) \in {"handshake_callback", "conn_callback"} /\ DataAt(mgr, g) = c
    BY <1>1, <1>2, <1>3, <1>6 DEF Serving
  <2> QED
    BY <1>6, <1>12, <2>1 DEF Same
<1>14. /\ Sound(mgr') /\ KeepsSlots(m, mgr', g) /\ Watched(mgr') = Watched(m)
       /\ mod.err = PROXY_SUCCESS /\ MaskAt(mgr', g) = {"POLLIN", "POLLOUT"}
       /\ HandlerAt(mgr', g) = HandlerAt(m, g) /\ DataAt(mgr', g) = c
       /\ \A h \in Nat : h # g => Same(m, mgr', h)
  <2>1. SendMask \in PollMasks /\ SendMask # {}
    BY DEF SendMask, PollMasks
  <2>2. mod = event_modify(m, g, SendMask) /\ mgr' = mod.mgr /\ Sound(m)
    BY <1>11, <1>12
  <2>3. /\ Sound(mod.mgr) /\ KeepsSlots(m, mod.mgr, g) /\ Watched(mod.mgr) = Watched(m)
        /\ mod.err = PROXY_SUCCESS /\ MaskAt(mod.mgr, g) = SendMask
        /\ HandlerAt(mod.mgr, g) = HandlerAt(m, g) /\ DataAt(mod.mgr, g) = DataAt(m, g)
        /\ \A h \in Nat : h # g => Same(m, mod.mgr, h)
    BY <1>6, <1>13, <2>1, <2>2, ModifyView
  <2> QED
    BY <1>13, <2>2, <2>3 DEF SendMask
<1>15. Outside(mgr, mgr', FdsOf(c))
  <2>1. Outside(m, mgr', FdsOf(c))
    BY <1>6, <1>14, OutsideOne
  <2> QED
    BY <1>12, <2>1, OutsideTwo
<1>16. /\ Moves /\ call' \in [conn : ConnIds, side : Sides] \cup {NULL}
       /\ pc' = "send" => call' \in [conn : ConnIds, side : Sides] /\ call'.conn = c
  <2>1. AfterRecv(PROXY_SUCCESS) /\ PROXY_SUCCESS \in ProxyCodes
    BY <1>11, <1>14, CodesTyped
  <2> QED
    BY <1>0, <1>1, <1>2, <2>1, AfterRecvMoves
<1>17. UNCHANGED <<listen_fd, arrived, accepted, sent, mainVars, run_flag>>
  BY DEF peerVars
<1>18. ASSUME ~fin
       PROVE  /\ KeepsConn(c) /\ conns'[c] = full /\ sock'[f] = r.s
              /\ \A h \in FdSet : h # f => sock'[h] = sock[h]
  <2>1. m = mgr /\ sock' = [sock EXCEPT ![f] = r.s] /\ conns' = [conns EXCEPT ![c] = full]
    BY <1>11, <1>12, <1>18
  <2>2. /\ SockTyped(sock') /\ \A h \in FdSet \ FdsOf(c) : sock'[h] = sock[h]
        /\ \A h \in FdSet : sock'[h].peer = sock[h].peer /\ sock'[h].st = sock[h].st
    BY <1>0, <1>2, <1>5, <2>1, SockSet, ZenonT(40)
  <2>a. sock'[f] = r.s /\ \A h \in FdSet : h # f => sock'[h] = sock[h]
    BY <1>0, <1>2, <1>5, <2>1, SockSet, ZenonT(40)
  <2>b. conns'[c] = full
    BY <1>0, <1>2, <1>9, <2>1, ConnsSet
  <2>3. \A h \in FdsOf(c) : sock'[h].peer = sock[h].peer /\ sock'[h].st = sock[h].st
    BY <1>0, <1>2, <2>2, LiveConn
  <2>4. Serving(mgr', c, conns[c])
    <3>1. \A d \in Sides : conns[c].fd[d] \in FdSet \cup {NoFd}
      BY <1>4, ConnFields
    <3>2. /\ \A h \in Nat : h # g => Same(mgr, mgr', h)
          /\ g \in Watched(mgr') /\ DataAt(mgr', g) = c
          /\ HandlerAt(mgr', g) \in {"handshake_callback", "conn_callback"}
      BY <1>13, <1>14, <2>1
    <3> QED
      BY <1>2, <3>1, <3>2, ServingFrame
  <2>5. Serving(mgr', c, full)
    BY <1>9, <2>4 DEF Serving
  <2>6. BufOK(full.buf[side], full.netnacl[side])
    BY <1>2, <1>7, <1>9 DEF BufOK
  <2>7. \A d \in Sides : BufOK(full.buf[d], full.netnacl[d])
    BY <1>3, <1>10, <2>6
  <2>8. MasksFit(mgr', full)
    <3> SUFFICES ASSUME NEW d \in Sides, full.fd[d] # NoFd, full.fd[d] \in Watched(mgr'),
                        HandlerAt(mgr', full.fd[d]) = "conn_callback"
                 PROVE  "POLLOUT" \in MaskAt(mgr', full.fd[d]) <=> Pending(full.buf[d]) # << >>
      BY DEF MasksFit
    <3>1. CASE d = o
      BY <1>1, <1>9, <1>10, <1>14, <3>1
    <3>2. CASE d = side
      <4>1. Same(mgr, mgr', f) /\ full.fd[d] = f
        BY <1>2, <1>6, <1>9, <1>14, <2>1, <3>2
      <4>2. MasksFit(mgr, conns[c])
        BY <1>4 DEF ConnInv
      <4> QED
        BY <1>2, <1>9, <3>2, <4>1, <4>2 DEF MasksFit, Same
    <3> QED
      BY <1>3, <3>1, <3>2
  <2>9. HasWork(full)
    BY <1>1, <1>2, <1>3, <1>6, <1>9 DEF HasWork
  <2>10. KeepsConn(c)
    BY <1>0, <1>2, <1>9, <1>14, <1>15, <2>1, <2>2, <2>3, <2>5, <2>7, <2>8, <2>9, ServesStep
  <2> QED
    BY <2>a, <2>b, <2>10
<1>19. ASSUME fin
       PROVE  /\ KeepsConn(c) /\ conns'[c].st = "live" /\ conns'[c].ref = conns[c].ref
              /\ conns'[c].buf = full.buf /\ conns'[c].fd[side] = NoFd /\ conns'[c].fd[o] = g
              /\ conns'[c].netnacl[o] = full.netnacl[o] /\ conns'[c] \in ConnType
              /\ \A h \in FdSet : h # f => sock'[h] = sock[h]
  <2>1. PICK k : k = FinConn(full, side)
    OBVIOUS
  <2>2. sock' = CloseFds(sock, {f}) /\ conns' = [conns EXCEPT ![c] = k]
    BY <1>11, <1>19, <2>1
  <2>3. /\ k \in ConnType /\ k.st = "live" /\ k.ref = conns[c].ref /\ k.buf = full.buf
        /\ k.fd[side] = NoFd /\ k.fd[o] = g
        /\ k.netnacl[side] = NullNN /\ k.netnacl[o] = full.netnacl[o]
    BY <1>1, <1>2, <1>9, <2>1, ConnSetFin
  <2>4. /\ conns' \in [ConnIds -> ConnType] /\ conns'[c] = k
        /\ \A d \in ConnIds : d # c => conns'[d] = conns[d]
    BY <1>0, <1>2, <2>2, <2>3, ConnsSet
  <2>5. SockTyped(sock') /\ \A h \in FdSet : sock'[h] = IF h = f THEN Closed ELSE sock[h]
    <3>1. \A h \in FdSet : sock'[h] = IF h = f THEN Closed ELSE sock[h]
      BY <2>2 DEF CloseFds
    <3> QED
      BY <1>0, <2>2, <3>1, CloseFdsTyped
  <2>6. Owned(sock', c, k)
    <3>1. Owned(sock, c, conns[c])
      BY <1>4 DEF ConnInv
    <3>2. /\ g # 0 /\ sock[g].peer = [conn |-> c, side |-> o] /\ sock[g].st \in Connected
      BY <1>1, <1>3, <1>6, <3>1 DEF Owned
    <3>3. /\ sock'[g].peer = [conn |-> c, side |-> o] /\ sock'[g].st \in Connected
      BY <1>6, <2>5, <3>2
    <3>4. ASSUME NEW h \in FdSet, sock'[h].peer.conn = c
          PROVE  k.fd[sock'[h].peer.side] = h
      <4>1. h # f /\ sock'[h] = sock[h]
        BY <1>2, <2>5, <3>4, ConstTypes
      <4>2. h \in FdsOf(c)
        BY <1>0, <1>2, <3>4, <4>1, LiveConn
      <4>3. conns[c].fd[sock[h].peer.side] = h
        BY <3>1, <3>4, <4>1 DEF Owned
      <4>4. sock[h].peer.side \in Sides
        <5>1. sock[h].peer \in [conn : ConnIds, side : Sides]
          BY <1>0, <1>2, <3>4, <4>1, PeerTyped
        <5> QED
          BY <5>1
      <4>5. sock[h].peer.side = o
        BY <1>2, <1>3, <4>1, <4>3, <4>4
      <4> QED
        BY <1>1, <2>3, <4>1, <4>3, <4>5
    <3> QED
      BY <1>3, <1>6, <2>3, <3>2, <3>3, <3>4 DEF Owned
  <2>7. g \in Watched(mgr') /\ f \notin Watched(mgr')
    BY <1>12, <1>13, <1>14, <1>19
  <2>8. Serving(mgr', c, k)
    BY <1>2, <1>3, <1>13, <1>14, <2>3, <2>7 DEF Serving
  <2>9. \A d \in Sides : BufOK(k.buf[d], k.netnacl[d])
    <3>1. NullNN.send_buf_pos = 0
      BY DEF NullNN
    <3>2. Len(Pending(conns[c].buf[side])) \in Nat
      <4>1. conns[c].buf[side].data \in Seq(Nat) /\ conns[c].buf[side].read_pos \in Nat
        BY <1>2, <1>4, ConnFields
      <4> QED
        BY <1>2, <1>4, <1>7, ConnFields, PendingSeq DEF BufOK
    <3>3. BufOK(k.buf[side], k.netnacl[side])
      BY <1>2, <1>7, <1>9, <2>3, <3>1, <3>2, SMTT(40) DEF BufOK
    <3> QED
      BY <1>3, <1>10, <2>3, <3>3
  <2>10. MasksFit(mgr', k)
    BY <1>3, <1>10, <1>14, <2>3 DEF MasksFit
  <2>11. HasWork(k)
    BY <1>1, <1>3, <1>6, <1>10, <2>3 DEF HasWork
  <2>12. ConnInv(mgr', sock', c, k)
    BY <2>6, <2>8, <2>9, <2>10, <2>11 DEF ConnInv
  <2>13. \A h \in FdsOf(c) : h \in {f, g} /\ h \in FdSet /\ sock[h].peer.conn = c
    <3>1. \A h \in FdsOf(c) : /\ h \in FdSet /\ sock[h].peer.conn = c
                              /\ \E d \in Sides : h = conns[c].fd[d]
      BY <1>0, <1>2, LiveConn
    <3> QED
      BY <1>1, <1>2, <1>3, <3>1
  <2>14. \A h \in Watched(mgr') : h \in FdsOf(c) =>
           /\ DataAt(mgr', h) = c /\ HandlerAt(mgr', h) # "accept_callback"
           /\ \E d \in Sides : h = k.fd[d]
    BY <1>3, <1>13, <1>14, <2>3, <2>7, <2>13
  <2>15. /\ \A h \in FdSet \ FdsOf(c) : sock'[h] = sock[h]
         /\ \A h \in FdsOf(c) : sock'[h].peer.conn \in {0, c}
    BY <1>2, <2>5, <2>13, ConstTypes
  <2>16. KeepsConn(c)
    BY <1>14, <1>15, <2>3, <2>4, <2>5, <2>12, <2>14, <2>15 DEF KeepsConn
  <2> QED
    BY <2>3, <2>4, <2>5, <2>16
<1>20. KeepsConn(c)
  BY <1>18, <1>19
<1>21. IInv' /\ Touches(c, FdsOf(c))
  BY <1>2, <1>16, <1>17, <1>20, KeepsConnInv
<1>22. \A h \in FdSet : h \in Watched(mgr') =>
         h \in Watched(mgr) /\ HandlerAt(mgr', h) = HandlerAt(mgr, h)
  <2> SUFFICES ASSUME NEW h \in FdSet, h \in Watched(mgr')
               PROVE  h \in Watched(mgr) /\ HandlerAt(mgr', h) = HandlerAt(mgr, h)
    OBVIOUS
  <2>1. h \in Watched(m) /\ HandlerAt(mgr', h) = HandlerAt(m, h)
    BY <1>14 DEF Same
  <2>2. CASE h = f
    BY <1>12, <2>1, <2>2
  <2>3. CASE h # f
    BY <1>12, <2>1, <2>3 DEF Same
  <2> QED
    BY <2>1, <2>2, <2>3
<1>23. /\ r \in buf_recv(conns[c].netnacl[side], sock[f])
       /\ \A h \in FdSet : h # f => sock'[h] = sock[h]
  BY <1>1, <1>18, <1>19
<1>24. /\ conns'[c] \in ConnType /\ conns'[c].st = "live" /\ conns'[c].ref = conns[c].ref
       /\ conns'[c].buf[o] = [data |-> r.data, read_pos |-> 0]
       /\ conns'[c].buf[side] = conns[c].buf[side]
       /\ conns'[c].netnacl[o] = conns[c].netnacl[o] /\ conns'[c].fd[o] = conns[c].fd[o]
  BY <1>1, <1>9, <1>18, <1>19
<1>25. IF r.err = PROXY_DISCONNECT
         THEN conns'[c].fd[side] = NoFd
         ELSE /\ conns'[c].fd[side] = f
              /\ conns'[c].netnacl[side].key = conns[c].netnacl[side].key
              /\ conns'[c].netnacl[side].recv_pt = r.recv_pt /\ sock'[f] = r.s
  <2>1. fin <=> r.err = PROXY_DISCONNECT
    BY <1>11
  <2>2. CASE fin
    BY <1>19, <2>1, <2>2
  <2>3. CASE ~fin
    BY <1>2, <1>9, <1>18, <2>1, <2>3
  <2> QED
    BY <2>2, <2>3
<1>26. ReceivedOn(c, side, r)
  <2>1. PICK k, n : k = conns[c] /\ n = conns'[c]
    OBVIOUS
  <2>2. /\ n \in ConnType /\ n.st = "live" /\ n.ref = k.ref
        /\ n.buf[o] = [data |-> r.data, read_pos |-> 0]
        /\ n.buf[side] = k.buf[side] /\ n.netnacl[o] = k.netnacl[o] /\ n.fd[o] = k.fd[o]
    BY <1>24, <2>1
  <2>3. IF r.err = PROXY_DISCONNECT
          THEN n.fd[side] = NoFd
          ELSE /\ n.fd[side] = k.fd[side] /\ n.netnacl[side].key = k.netnacl[side].key
               /\ n.netnacl[side].recv_pt = r.recv_pt /\ sock'[k.fd[side]] = r.s
    BY <1>2, <1>25, <2>1
  <2>4. k.fd[side] = f /\ k.buf[o] = EmptyBuf /\ Serving(mgr, c, k)
    BY <1>2, <1>7, <2>1
  <2> QED
    BY <1>1, <1>2, <1>21, <1>22, <1>23, <2>1, <2>2, <2>3, <2>4, Zenon DEF ReceivedOn
<1> QED
  BY <1>1, <1>21, <1>26

LEMMA HandleRecvInv ==
    ASSUME IInv, UNCHANGED mainVars, RecvHeld \/ handle_recv
    PROVE  IInv'
<1>1. CASE RecvHeld
  <2>1. /\ At("conn_callback") /\ AfterRecv(PROXY_SUCCESS)
        /\ UNCHANGED <<mgr, sock, conns, run_flag, listen_fd, peerVars>>
    BY <1>1 DEF RecvHeld, Receiving, AtConn
  <2> QED
    BY <2>1, RecvIdle
<1>2. CASE handle_recv
  <2>1. /\ At("conn_callback") /\ RecvBuf.data = << >>
        /\ UNCHANGED <<run_flag, listen_fd, peerVars>>
    BY <1>2 DEF handle_recv, Receiving, AtConn
  <2>2. PICK r \in buf_recv(conns[Conn].netnacl[SideOf(Conn, Fd)], sock[Fd]) :
          RecvNothing(r) \/ RecvData(r) \/ RecvCloses(r)
    BY <1>2 DEF handle_recv
  <2>3. CASE RecvNothing(r)
    <3>1. AfterRecv(PROXY_SUCCESS) /\ UNCHANGED <<mgr, sock, conns>>
      BY <2>3 DEF RecvNothing
    <3> QED
      BY <2>1, <3>1, RecvIdle
  <2>4. CASE RecvData(r)
    BY <2>1, <2>4, RecvDataInv
  <2>5. CASE RecvCloses(r)
    BY <2>1, <2>5, RecvClosesInv
  <2> QED
    BY <2>2, <2>3, <2>4, <2>5
<1> QED
  BY <1>1, <1>2

-----------------------------------------------------------------------------
(* conn_callback, second half.                                             *)

\* The connection that handle_send serves; one with something to send is in
\* service.
LEMMA AtSending ==
    ASSUME IInv, Sending
    PROVE  /\ Types /\ Structure /\ pc \in {"dispatch", "send"}
           /\ SendTo.conn \in ConnIds /\ Live(SendTo.conn) /\ SendTo.side \in Sides
           /\ Len(Pending(conns[SendTo.conn].buf[SendTo.side])) # 0 =>
                Serving(mgr, SendTo.conn, conns[SendTo.conn])
<1>0. Types /\ Structure
  BY DEF IInv, Sending, AtConn, At, Dispatching
<1>1. CASE pc = "send"
  <2>1. SendTo = call /\ call \in [conn : ConnIds, side : Sides] /\ Live(call.conn)
    BY <1>0, <1>1 DEF SendTo, Structure, CallOK
  <2>2. SendTo.conn \in ConnIds /\ Live(SendTo.conn) /\ SendTo.side \in Sides
    BY <2>1
  <2>3. PICK c, side : c = SendTo.conn /\ side = SendTo.side
    OBVIOUS
  <2>4. Opening(mgr, c, conns[c]) \/ Serving(mgr, c, conns[c])
    BY <1>0, <2>2, <2>3, LiveConn DEF ConnInv
  <2>5. Opening(mgr, c, conns[c]) => Pending(conns[c].buf[side]) = << >>
    <3>1. Pending(EmptyBuf) = << >>
      BY DEF EmptyBuf, Pending
    <3> QED
      BY <2>2, <2>3, <3>1 DEF Opening
  <2> QED
    BY <1>0, <1>1, <2>2, <2>3, <2>4, <2>5
<1>2. CASE pc # "send"
  <2>1. At("conn_callback")
    BY <1>2 DEF Sending, AtConn
  <2>2. SendTo = [conn |-> Conn, side |-> SideOf(Conn, Fd)]
    BY <1>2 DEF SendTo
  <2>3. /\ Conn \in ConnIds /\ Live(Conn) /\ pc = "dispatch"
        /\ SideOf(Conn, Fd) \in Sides /\ Serving(mgr, Conn, conns[Conn])
    BY <1>0, <2>1, AtServing
  <2>4. SendTo.conn = Conn /\ SendTo.side = SideOf(Conn, Fd)
    BY <2>2
  <2> QED
    BY <1>0, <2>3, <2>4
<1> QED
  BY <1>1, <1>2

LEMMA SendFailsInv == ASSUME IInv, UNCHANGED mainVars, SendFails PROVE IInv'
<1>1. Sending /\ close_connection(mgr, SendTo.conn) /\ call' = NULL
  BY DEF SendFails
<1>2. /\ Types /\ Structure /\ pc \in {"dispatch", "send"}
      /\ SendTo.conn \in ConnIds /\ Live(SendTo.conn)
  BY <1>1, AtSending
<1>3. PICK err : /\ err \in {PROXY_DISCONNECT, PROXY_ERR}
                 /\ NextSlot(IF err = PROXY_DISCONNECT THEN PROXY_SUCCESS ELSE err)
  BY DEF SendFails
<1>4. Moves /\ pc' # "send"
  BY <1>3, CodesTyped, NextSlotMoves
<1>5. Sound(mgr) /\ Outside(mgr, mgr, FdsOf(SendTo.conn))
  BY <1>2, OutsideNone DEF Structure
<1>6. UNCHANGED <<run_flag, listen_fd, arrived, accepted, sent>>
  BY DEF SendFails, peerVars
<1> QED
  BY <1>1, <1>2, <1>4, <1>5, <1>6, CloseInv

\* Whole messages of N bytes.
LEMMA WholeMessages ==
    ASSUME NEW t \in Nat, NEW N \in Nat \ {0}, NEW q, q = (t \div N) * N
    PROVE  q \in Nat /\ q <= t /\ t - q \in 0 .. N - 1
<1>1. t \div N \in Int /\ t % N \in 0 .. N - 1
  OBVIOUS
<1>2. t = N * (t \div N) + (t % N)
  OBVIOUS
<1>3. PICK d, r : d = t \div N /\ r = t % N
  OBVIOUS
<1>4. N * d = d * N /\ N * d \in Int
  BY <1>1, <1>3
<1>5. t - q = r
  BY <1>1, <1>2, <1>3, <1>4
<1>6. d >= 0
  BY <1>1, <1>2, <1>3
<1> QED
  BY <1>1, <1>2, <1>3, <1>4, <1>5, <1>6

LEMMA SentBytesBound ==
    ASSUME NEW side, NEW taken \in Nat, NEW n, n = SentBytes(side, taken)
    PROVE  n \in Nat /\ n <= taken /\ taken - n \in 0 .. NN_MAX_MESSAGE_LEN - 1
<1>1. NN_MAX_MESSAGE_LEN \in Nat \ {0}
  BY SocketsAssumption
<1>2. CASE Encrypted(side)
  <2>1. n = (taken \div NN_MAX_MESSAGE_LEN) * NN_MAX_MESSAGE_LEN
    BY <1>2 DEF SentBytes
  <2> QED
    BY <1>1, <2>1, WholeMessages
<1>3. CASE ~Encrypted(side)
  <2>1. n = taken
    BY <1>3 DEF SentBytes
  <2> QED
    BY <1>1, <2>1
<1> QED
  BY <1>2, <1>3

\* The context after data has been sent to a side.
SentConn(k, side, b, pos) ==
    [k EXCEPT !.buf[side] = b, !.netnacl[side].send_buf_pos = pos]

LEMMA ConnSetSent ==
    ASSUME NEW k \in ConnType, NEW side \in Sides, NEW b \in BufType,
           NEW pos \in 0 .. NN_MAX_MESSAGE_LEN - 1, NEW n, n = SentConn(k, side, b, pos)
    PROVE  /\ n \in ConnType /\ n.st = k.st /\ n.fd = k.fd /\ n.ref = k.ref
           /\ n.buf[side] = b /\ n.buf[Other(side)] = k.buf[Other(side)]
           /\ n.netnacl[side].send_buf_pos = pos
           /\ n.netnacl[side].recv_pt = k.netnacl[side].recv_pt
           /\ n.netnacl[side].key = k.netnacl[side].key
           /\ n.netnacl[Other(side)] = k.netnacl[Other(side)]
<1>a. Other(side) \in Sides /\ Other(side) # side
  BY SideFacts
<1>0. PICK o, nn : o = Other(side) /\ nn = [k.netnacl[side] EXCEPT !.send_buf_pos = pos]
  OBVIOUS
<1>1. PICK bufs, nns : bufs = [k.buf EXCEPT ![side] = b] /\ nns = [k.netnacl EXCEPT ![side] = nn]
  OBVIOUS
<1>2. n = [st |-> k.st, fd |-> k.fd, buf |-> bufs, netnacl |-> nns, ref |-> k.ref]
  BY <1>0, <1>1 DEF ConnType, SentConn
<1>3. o \in Sides /\ o # side
  BY <1>a, <1>0
<1>4. k.netnacl[side] \in NNType
  BY ConnFields
<1>5. /\ nn \in NNType /\ nn.send_buf_pos = pos /\ nn.recv_pt = k.netnacl[side].recv_pt
      /\ nn.key = k.netnacl[side].key
  BY <1>0, <1>4 DEF NNType
<1>6. bufs \in [Sides -> BufType] /\ bufs[side] = b /\ bufs[o] = k.buf[o]
  <2>1. k.buf \in [Sides -> BufType]
    BY ConnFields
  <2> QED
    BY <1>1, <1>3, <2>1
<1>7. nns \in [Sides -> NNType] /\ nns[side] = nn /\ nns[o] = k.netnacl[o]
  <2>1. k.netnacl \in [Sides -> NNType]
    BY ConnFields
  <2> QED
    BY <1>1, <1>3, <1>5, <2>1
<1>8. n \in ConnType
  <2>1. /\ k.st \in {"unused", "live", "freed", "double free"}
        /\ k.fd \in [Sides -> FdSet \cup {NoFd}] /\ k.ref \in 0 .. 2
    BY ConnFields
  <2>2. [st |-> k.st, fd |-> k.fd, buf |-> bufs, netnacl |-> nns, ref |-> k.ref] \in ConnType
    BY <1>6, <1>7, <2>1, ConnMake
  <2> QED
    BY <1>2, <2>2, Zenon
<1>9. /\ n.st = k.st /\ n.fd = k.fd /\ n.ref = k.ref /\ n.buf = bufs /\ n.netnacl = nns
  BY <1>2
<1> QED
  BY <1>0, <1>5, <1>6, <1>7, <1>8, <1>9

SentConns(all, c, side, b, pos) ==
    [all EXCEPT ![c].buf[side] = b, ![c].netnacl[side].send_buf_pos = pos]

LEMMA ConnsSent ==
    ASSUME NEW all \in [ConnIds -> ConnType], NEW c \in ConnIds, NEW side \in Sides, NEW b,
           NEW pos, NEW k, k = SentConn(all[c], side, b, pos)
    PROVE  SentConns(all, c, side, b, pos) = [all EXCEPT ![c] = k]
BY DEF ConnType, SentConn, SentConns

\* The send buffer of a socket fills up.
LEMMA RoomSet ==
    ASSUME NEW s, SockOK(s), NEW room \in 0 .. TxCap, NEW t, t = [s EXCEPT !.room = room]
    PROVE  SockOK(t) /\ t.st = s.st /\ t.peer = s.peer /\ t.rx = s.rx /\ t.hello = s.hello
<1>0. s \in SockType
  BY DEF SockOK
<1>1. t = [st |-> s.st, rx |-> s.rx, ends |-> s.ends, eof |-> s.eof, err |-> s.err,
           room |-> room, keyed |-> s.keyed, hello |-> s.hello, peer |-> s.peer]
  BY <1>0 DEF SockType
<1>2. t \in SockType
  BY <1>0, <1>1 DEF SockType
<1> QED
  BY <1>1, <1>2 DEF SockOK

\* A buffer of which a part was sent.
LEMMA AdvancedBuf ==
    ASSUME NEW b \in BufType, b.read_pos <= Len(b.data), Len(b.data) <= BUF_SIZ,
           NEW taken \in Nat, taken < Len(Pending(b)), NEW n \in Nat, n <= taken,
           NEW d, d = Advance(b, n), NEW nn, nn.send_buf_pos = taken - n
    PROVE  d \in BufType /\ BufOK(d, nn) /\ Pending(d) # << >>
<1>1. b.data \in Seq(Nat) /\ b.read_pos \in Nat /\ Len(b.data) \in Nat
  BY DEF BufType
<1>2. Len(Pending(b)) = Len(b.data) - b.read_pos
  BY PendingSeq
<1>3. d = [data |-> b.data, read_pos |-> b.read_pos + n]
  BY DEF Advance, BufType
<1>4. d \in BufType /\ d.read_pos <= Len(d.data)
  BY <1>1, <1>2, <1>3 DEF BufType
<1>5. Len(Pending(d)) = Len(d.data) - d.read_pos
  BY <1>4, PendingSeq
<1>6. Len(Pending(d)) = Len(Pending(b)) - n
  BY <1>1, <1>2, <1>3, <1>5, SMTT(40)
<1>7. Len(Pending(d)) > 0 /\ nn.send_buf_pos <= Len(Pending(d))
  BY <1>1, <1>2, <1>6
<1>8. Pending(d) # << >>
  <2>1. Len(<< >>) = 0
    OBVIOUS
  <2> QED
    BY <1>7, <2>1
<1>9. d.data = b.data
  BY <1>3
<1> QED
  BY <1>4, <1>7, <1>8, <1>9 DEF BufOK

\* What buf_send's code says of the connection.
LEMMA SendCodes ==
    ASSUME NEW k, NEW side, NEW code \in {PROXY_WOULD_BLOCK, PROXY_SUCCESS},
           code \in buf_send(k, side)
    PROVE  /\ Len(Pending(k.buf[side])) # 0
           /\ k.fd[side] # NoFd \/ code = PROXY_WOULD_BLOCK
           /\ code = PROXY_WOULD_BLOCK /\ k.fd[side] # NoFd =>
                sock[k.fd[side]].room + k.netnacl[side].send_buf_pos < Len(Pending(k.buf[side]))
           /\ code = PROXY_SUCCESS =>
                ~(sock[k.fd[side]].room + k.netnacl[side].send_buf_pos < Len(Pending(k.buf[side])))
<1>1. /\ PROXY_SUCCESS = 0 /\ PROXY_ERR = -1 /\ PROXY_DISCONNECT = -2 /\ PROXY_WOULD_BLOCK = -3
  BY CodesTyped
<1>2. PICK f, left, taken : /\ f = k.fd[side] /\ left = Len(Pending(k.buf[side]))
                            /\ taken = sock[f].room + k.netnacl[side].send_buf_pos
  OBVIOUS
<1>3. code \in (IF left = 0 THEN {PROXY_ERR}
        ELSE IF f = NoFd
          THEN IF Encrypted(side) THEN {PROXY_WOULD_BLOCK, PROXY_DISCONNECT, PROXY_ERR}
                                  ELSE {PROXY_ERR}
        ELSE IF sock[f].err = "reset" THEN {PROXY_DISCONNECT}
        ELSE IF sock[f].err # "none" THEN {PROXY_ERR}
        ELSE IF taken < left THEN {PROXY_WOULD_BLOCK}
        ELSE {PROXY_SUCCESS})
  BY <1>2 DEF buf_send
<1>4. /\ left # 0
      /\ f # NoFd \/ code = PROXY_WOULD_BLOCK
      /\ code = PROXY_WOULD_BLOCK /\ f # NoFd => taken < left
      /\ code = PROXY_SUCCESS => ~(taken < left)
  <2> HIDE DEF NoFd
  <2> QED
    BY <1>1, <1>3
<1> QED
  BY <1>2, <1>4

\* handle_send took n bytes out of the buffer for a side of connection c and left
\* b in it, and everything else that the connection's streams consist of is as it
\* was.
SentOn(c, side, n, b) ==
    /\ c \in ConnIds /\ Live(c) /\ side \in Sides /\ Touches(c, FdsOf(c))
    /\ n \in 0 .. Len(Pending(conns[c].buf[side]))
    /\ got' = [got EXCEPT ![c][side] = @ \o SubSeq(Pending(conns[c].buf[side]), 1, n)]
    /\ conns'[c] \in ConnType /\ conns'[c].st = "live"
    /\ conns'[c].fd = conns[c].fd /\ conns'[c].ref = conns[c].ref
    /\ conns'[c].buf[side] = b /\ conns'[c].buf[Other(side)] = conns[c].buf[Other(side)]
    /\ \A d \in Sides : /\ conns'[c].netnacl[d].key = conns[c].netnacl[d].key
                         /\ conns'[c].netnacl[d].recv_pt = conns[c].netnacl[d].recv_pt
    /\ \A f \in FdSet : sock'[f].rx = sock[f].rx /\ sock'[f].hello = sock[f].hello
    /\ \A f \in FdSet : f \in Watched(mgr') =>
         f \in Watched(mgr) /\ HandlerAt(mgr', f) = HandlerAt(mgr, f)

LEMMA SendSomeInv ==
    ASSUME IInv, UNCHANGED mainVars, SendSome
    PROVE  /\ IInv'
           /\ \E c, side, n, b : SentOn(c, side, n, b) /\ b = Advance(conns[c].buf[side], n)
<1> USE SideFacts
<1>0. Sending /\ NextSlot(PROXY_SUCCESS) /\ call' = NULL
  BY DEF SendSome
<1>1. PICK c, side, f, taken, n, b :
        /\ c = SendTo.conn /\ side = SendTo.side /\ f = conns[c].fd[side]
        /\ taken = (IF f = NoFd THEN 0 ELSE sock[f].room + conns[c].netnacl[side].send_buf_pos)
        /\ n = SentBytes(side, taken) /\ b = Advance(conns[c].buf[side], n)
  OBVIOUS
<1>2. /\ conns' = [conns EXCEPT ![c].buf[side] = Advance(@, n),
                                ![c].netnacl[side].send_buf_pos = taken - n]
      /\ sock' = IF f = NoFd THEN sock ELSE [sock EXCEPT ![f].room = 0]
      /\ PROXY_WOULD_BLOCK \in buf_send(conns[c], side)
      /\ mgr' = mgr /\ run_flag' = run_flag /\ listen_fd' = listen_fd
      /\ UNCHANGED <<arrived, accepted, sent>>
      /\ got' = [got EXCEPT ![c][side] = @ \o SubSeq(Pending(conns[c].buf[side]), 1, n)]
  BY <1>1 DEF SendSome, Transfer
<1>3. /\ Len(Pending(conns[c].buf[side])) # 0
      /\ f # NoFd => sock[f].room + conns[c].netnacl[side].send_buf_pos
                       < Len(Pending(conns[c].buf[side]))
  BY <1>1, <1>2, SendCodes
<1>4. /\ Types /\ Structure /\ pc \in {"dispatch", "send"} /\ c \in ConnIds /\ Live(c)
      /\ side \in Sides /\ Serving(mgr, c, conns[c])
  BY <1>0, <1>1, <1>3, AtSending
<1>5. /\ conns[c] \in ConnType /\ conns[c].st = "live" /\ Sound(mgr)
      /\ ConnInv(mgr, sock, c, conns[c]) /\ conns[c].buf[side] \in BufType
      /\ conns[c].netnacl[side].send_buf_pos \in Nat
      /\ f \in FdSet \cup {NoFd}
  <2>1. conns[c] \in ConnType
    BY <1>4 DEF Types
  <2> QED
    BY <1>1, <1>4, <2>1, ConnFields DEF Structure, Live
<1>6. \A d \in Sides : BufOK(conns[c].buf[d], conns[c].netnacl[d])
  BY <1>5 DEF ConnInv
<1>7. f # NoFd => f \in FdSet /\ f \in FdsOf(c) /\ SockOK(sock[f]) /\ sock[f].room \in Nat
  <2> SUFFICES ASSUME f # NoFd
               PROVE  f \in FdSet /\ f \in FdsOf(c) /\ SockOK(sock[f]) /\ sock[f].room \in Nat
    OBVIOUS
  <2>1. f \in FdSet /\ f \in FdsOf(c)
    BY <1>1, <1>4, <1>5, LiveConn
  <2>2. SockOK(sock[f])
    BY <1>4, <2>1 DEF Types, SockTyped
  <2>3. sock[f].room \in 0 .. TxCap /\ TxCap \in Nat
    BY <2>2, SocketsAssumption DEF SockOK, SockType
  <2> QED
    BY <2>1, <2>2, <2>3
<1>8. /\ conns[c].buf[side].read_pos <= Len(conns[c].buf[side].data)
      /\ Len(conns[c].buf[side].data) <= BUF_SIZ
      /\ Len(Pending(conns[c].buf[side])) \in Nat
  <2>1. /\ conns[c].buf[side].read_pos <= Len(conns[c].buf[side].data)
        /\ Len(conns[c].buf[side].data) <= BUF_SIZ
    BY <1>4, <1>6 DEF BufOK
  <2> QED
    BY <1>5, <2>1, PendingSeq
<1>9. taken \in Nat /\ taken < Len(Pending(conns[c].buf[side]))
  <2>1. PICK pos, left : /\ pos = conns[c].netnacl[side].send_buf_pos
                         /\ left = Len(Pending(conns[c].buf[side]))
    OBVIOUS
  <2>2. CASE f = NoFd
    <3>1. taken = 0 /\ left \in Nat /\ left # 0
      BY <1>1, <1>3, <1>8, <2>1, <2>2
    <3> QED
      BY <2>1, <3>1
  <2>3. CASE f # NoFd
    <3>1. PICK room : room = sock[f].room
      OBVIOUS
    <3>2. taken = room + pos /\ room \in Nat /\ pos \in Nat /\ taken < left
      BY <1>1, <1>3, <1>5, <1>7, <2>1, <2>3, <3>1
    <3> QED
      BY <2>1, <3>2
  <2> QED
    BY <2>2, <2>3
<1>10. n \in Nat /\ n <= taken /\ taken - n \in 0 .. NN_MAX_MESSAGE_LEN - 1
  BY <1>1, <1>9, SentBytesBound
<1>11. PICK k0, b0, k, pos : /\ k0 = conns[c] /\ b0 = k0.buf[side] /\ pos = taken - n
                             /\ k = SentConn(k0, side, b, pos)
  OBVIOUS
<1>a. /\ b0 \in BufType /\ b0.read_pos <= Len(b0.data) /\ Len(b0.data) <= BUF_SIZ
      /\ taken < Len(Pending(b0)) /\ b = Advance(b0, n)
  BY <1>1, <1>5, <1>8, <1>9, <1>11
<1>b. k0 \in ConnType /\ pos \in 0 .. NN_MAX_MESSAGE_LEN - 1
  BY <1>5, <1>10, <1>11
<1>12. b \in BufType
  <2>1. PICK nn : nn = [send_buf_pos |-> taken - n]
    OBVIOUS
  <2>2. nn.send_buf_pos = taken - n
    BY <2>1
  <2> QED
    BY <1>a, <1>9, <1>10, <2>2, AdvancedBuf
<1>13. /\ k \in ConnType /\ k.st = "live" /\ k.fd = conns[c].fd /\ k.ref = conns[c].ref
       /\ k.buf[side] = b /\ k.buf[Other(side)] = conns[c].buf[Other(side)]
       /\ k.netnacl[side].send_buf_pos = pos
       /\ k.netnacl[side].recv_pt = conns[c].netnacl[side].recv_pt
       /\ k.netnacl[side].key = conns[c].netnacl[side].key
       /\ k.netnacl[Other(side)] = conns[c].netnacl[Other(side)]
  <2>1. /\ k \in ConnType /\ k.st = k0.st /\ k.fd = k0.fd /\ k.ref = k0.ref
        /\ k.buf[side] = b /\ k.buf[Other(side)] = k0.buf[Other(side)]
        /\ k.netnacl[side].send_buf_pos = pos
        /\ k.netnacl[side].recv_pt = k0.netnacl[side].recv_pt
        /\ k.netnacl[side].key = k0.netnacl[side].key
        /\ k.netnacl[Other(side)] = k0.netnacl[Other(side)]
    BY <1>4, <1>b, <1>11, <1>12, ConnSetSent, SMTT(40)
  <2> QED
    BY <1>5, <1>11, <2>1
<1>14. BufOK(b, k.netnacl[side]) /\ Pending(b) # << >>
  <2>1. PICK nn : nn = k.netnacl[side]
    OBVIOUS
  <2>2. nn.send_buf_pos = taken - n
    BY <1>11, <1>13, <2>1
  <2>3. BufOK(b, nn) /\ Pending(b) # << >>
    BY <1>a, <1>9, <1>10, <2>2, AdvancedBuf
  <2> QED
    BY <2>1, <2>3
<1>15. conns' = [conns EXCEPT ![c] = k]
  <2>1. conns' = [conns EXCEPT ![c].buf[side] = b, ![c].netnacl[side].send_buf_pos = pos]
    <3>1. conns \in [ConnIds -> ConnType]
      BY <1>4 DEF Types
    <3> QED
      BY <1>1, <1>2, <1>4, <1>11, <3>1 DEF ConnType
  <2>2. conns \in [ConnIds -> ConnType]
    BY <1>4 DEF Types
  <2> QED
    <3>1. conns' = SentConns(conns, c, side, b, pos)
      BY <2>1 DEF SentConns
    <3>2. k = SentConn(conns[c], side, b, pos)
      BY <1>11
    <3>3. SentConns(conns, c, side, b, pos) = [conns EXCEPT ![c] = k]
      BY <1>4, <2>2, <3>2, ConnsSent
    <3> QED
      BY <3>1, <3>3
<1>16. /\ SockTyped(sock') /\ \A h \in FdSet \ FdsOf(c) : sock'[h] = sock[h]
       /\ \A h \in FdsOf(c) : sock'[h].peer = sock[h].peer /\ sock'[h].st = sock[h].st
       /\ \A h \in FdSet : sock'[h].rx = sock[h].rx /\ sock'[h].hello = sock[h].hello
  <2>1. CASE f = NoFd
    BY <1>2, <1>4, <2>1 DEF Types
  <2>2. CASE f # NoFd
    <3>1. PICK x : x = [sock[f] EXCEPT !.room = 0]
      OBVIOUS
    <3>2. /\ SockOK(x) /\ x.st = sock[f].st /\ x.peer = sock[f].peer
          /\ x.rx = sock[f].rx /\ x.hello = sock[f].hello
      <4>1. 0 \in 0 .. TxCap
        BY SocketsAssumption
      <4> QED
        BY <1>7, <2>2, <3>1, <4>1, RoomSet
    <3>3. sock' = [sock EXCEPT ![f] = x]
      BY <1>2, <2>2, <3>1
    <3>4. /\ SockTyped(sock') /\ \A g \in FdSet : g # f => sock'[g] = sock[g]
          /\ \A g \in FdSet : sock'[g].peer = sock[g].peer /\ sock'[g].st = sock[g].st
          /\ sock'[f] = x
      BY <1>4, <1>7, <2>2, <3>2, <3>3, SockSet
    <3>5. \A h \in FdSet : sock'[h].rx = sock[h].rx /\ sock'[h].hello = sock[h].hello
      BY <3>2, <3>4
    <3> QED
      BY <1>4, <1>7, <2>2, <3>4, <3>5, LiveConn
  <2> QED
    BY <2>1, <2>2
<1>17. Serving(mgr', c, k)
  BY <1>2, <1>4, <1>13 DEF Serving
<1>18. \A d \in Sides : BufOK(k.buf[d], k.netnacl[d])
  <2>1. BufOK(k.buf[Other(side)], k.netnacl[Other(side)])
    BY <1>4, <1>6, <1>13
  <2> QED
    BY <1>4, <1>13, <1>14, <2>1
<1>19. Pending(conns[c].buf[side]) # << >>
  <2>1. Len(<< >>) = 0
    OBVIOUS
  <2> QED
    BY <1>3, <2>1
<1>20. \A d \in Sides : Pending(k.buf[d]) # << >> <=> Pending(conns[c].buf[d]) # << >>
  BY <1>4, <1>13, <1>14, <1>19
<1>21. MasksFit(mgr', k)
  <2>1. MasksFit(mgr, conns[c])
    BY <1>5 DEF ConnInv
  <2> QED
    BY <1>2, <1>13, <1>20, <2>1 DEF MasksFit
<1>22. HasWork(k)
  <2>1. HasWork(conns[c])
    BY <1>5 DEF ConnInv
  <2> QED
    BY <1>13, <1>20, <2>1 DEF HasWork
<1>23. Sound(mgr') /\ Outside(mgr, mgr', FdsOf(c))
  BY <1>2, <1>5, OutsideNone
<1>24. KeepsConn(c)
  BY <1>4, <1>13, <1>15, <1>16, <1>17, <1>18, <1>21, <1>22, <1>23, ServesStep
<1>25. Moves /\ pc' # "send"
  BY <1>0, CodesTyped, NextSlotMoves
<1>26. UNCHANGED <<listen_fd, arrived, accepted, sent, mainVars, run_flag>>
  BY <1>2
<1>27. IInv' /\ Touches(c, FdsOf(c))
  BY <1>0, <1>4, <1>24, <1>25, <1>26, KeepsConnInv
<1>28. SentOn(c, side, n, b)
  <2>1. conns'[c] = k
    BY <1>4, <1>13, <1>15, ConnsSet
  <2>2. n \in 0 .. Len(Pending(conns[c].buf[side]))
    BY <1>8, <1>9, <1>10
  <2>3. \A d \in Sides : /\ k.netnacl[d].key = conns[c].netnacl[d].key
                         /\ k.netnacl[d].recv_pt = conns[c].netnacl[d].recv_pt
    BY <1>4, <1>13
  <2> QED
    BY <1>2, <1>4, <1>13, <1>16, <1>27, <2>1, <2>2, <2>3 DEF SentOn
<1> QED
  BY <1>1, <1>27, <1>28

LEMMA SendAllInv ==
    ASSUME IInv, UNCHANGED mainVars, SendAll
    PROVE  /\ IInv' /\ Touches(SendTo.conn, FdsOf(SendTo.conn))
           /\ \/ PeerGone(SendTo.conn, SendTo.side)
              \/ \E c, side, n, b : /\ SentOn(c, side, n, b) /\ b = EmptyBuf
                                    /\ n = Len(Pending(conns[c].buf[side]))
<1> USE SideFacts
<1>0. Sending /\ call' = NULL /\ UNCHANGED <<run_flag, listen_fd>>
  BY DEF SendAll
<1>1. PICK c, side, o, f, n, pos, r :
        /\ c = SendTo.conn /\ side = SendTo.side /\ f = conns[c].fd[side] /\ o = Other(side)
        /\ n = Len(Pending(conns[c].buf[side])) /\ r = event_modify(mgr, f, {"POLLIN"})
        /\ pos = conns[c].netnacl[side].send_buf_pos
  OBVIOUS
<1>2. /\ PROXY_SUCCESS \in buf_send(conns[c], side)
      /\ UNCHANGED <<arrived, accepted, sent>>
      /\ got' = [got EXCEPT ![c][side] = @ \o SubSeq(Pending(conns[c].buf[side]), 1, n)]
      /\ IF PeerGone(c, side)
           THEN close_connection(mgr, c) /\ NextSlot(PROXY_SUCCESS)
           ELSE /\ mgr' = r.mgr
                /\ conns' = [conns EXCEPT ![c].buf[side] = EmptyBuf,
                                          ![c].netnacl[side].send_buf_pos = 0]
                /\ sock' = [sock EXCEPT ![f].room = @ - (n - pos)]
                /\ NextSlot(r.err)
  BY <1>1 DEF SendAll, Transfer
<1>3. n # 0 /\ f # NoFd /\ ~(sock[f].room + pos < n)
  <2>1. PROXY_SUCCESS # PROXY_WOULD_BLOCK
    BY CodesTyped
  <2> QED
    BY <1>1, <1>2, <2>1, SendCodes, ZenonT(40)
<1>4. /\ Types /\ Structure /\ pc \in {"dispatch", "send"} /\ c \in ConnIds /\ Live(c)
      /\ side \in Sides /\ Serving(mgr, c, conns[c])
  BY <1>0, <1>1, <1>3, AtSending
<1>5. /\ conns[c] \in ConnType /\ conns[c].st = "live" /\ Sound(mgr)
      /\ ConnInv(mgr, sock, c, conns[c]) /\ conns[c].buf[side] \in BufType
      /\ pos \in Nat /\ o \in Sides /\ o # side /\ Sides = {side, o} /\ Other(o) = side
      /\ \A d \in Sides : conns[c].fd[d] \in FdSet \cup {NoFd}
  <2>1. conns[c] \in ConnType
    BY <1>4 DEF Types
  <2>2. conns[c].st = "live" /\ Sound(mgr) /\ ConnInv(mgr, sock, c, conns[c])
    BY <1>4 DEF Structure, Live
  <2>3. o \in Sides /\ o # side /\ Sides = {side, o} /\ Other(o) = side
    BY <1>1, <1>4
  <2>4. /\ conns[c].buf[side] \in BufType /\ pos \in Nat
        /\ \A d \in Sides : conns[c].fd[d] \in FdSet \cup {NoFd}
    BY <1>1, <1>4, <2>1, ConnFields
  <2> QED
    BY <2>1, <2>2, <2>3, <2>4
<1>6. CASE PeerGone(c, side)
  <2>1. close_connection(mgr, c) /\ NextSlot(PROXY_SUCCESS)
    BY <1>2, <1>6
  <2>2. Moves /\ pc' # "send"
    BY <2>1, CodesTyped, NextSlotMoves
  <2>3. Outside(mgr, mgr, FdsOf(c))
    BY OutsideNone
  <2>4. IInv' /\ Touches(c, FdsOf(c))
    BY <1>0, <1>2, <1>4, <1>5, <2>1, <2>2, <2>3, CloseInv
  <2> QED
    BY <1>1, <1>6, <2>4
<1>7. CASE ~PeerGone(c, side)
  <2>1. /\ mgr' = r.mgr /\ NextSlot(r.err) /\ sock' = [sock EXCEPT ![f].room = @ - (n - pos)]
        /\ conns' = [conns EXCEPT ![c].buf[side] = EmptyBuf,
                                  ![c].netnacl[side].send_buf_pos = 0]
    BY <1>2, <1>7
  <2>2. conns[c].fd[o] # NoFd
    BY <1>1, <1>7 DEF PeerGone
  <2>3. /\ f \in FdSet /\ f \in FdsOf(c) /\ f \in Nat /\ f \in Watched(mgr)
        /\ DataAt(mgr, f) = c
        /\ HandlerAt(mgr, f) \in {"handshake_callback", "conn_callback"}
        /\ conns[c].fd[o] \in FdSet /\ conns[c].fd[o] # f
    <3>1. f \in FdSet /\ f \in FdsOf(c) /\ conns[c].fd[o] \in FdSet
      BY <1>1, <1>3, <1>4, <1>5, <2>2, LiveConn
    <3>2. f \in Watched(mgr) /\ DataAt(mgr, f) = c
          /\ HandlerAt(mgr, f) \in {"handshake_callback", "conn_callback"}
      BY <1>1, <1>3, <1>4 DEF Serving
    <3>3. Owned(sock, c, conns[c])
      BY <1>5 DEF ConnInv
    <3>4. sock[f].peer.side = side /\ sock[conns[c].fd[o]].peer.side = o
      <4>1. /\ sock[f].peer = [conn |-> c, side |-> side]
            /\ sock[conns[c].fd[o]].peer = [conn |-> c, side |-> o]
        BY <1>1, <1>3, <1>4, <1>5, <2>2, <3>3 DEF Owned
      <4> QED
        BY <4>1
    <3> QED
      BY <1>5, <3>1, <3>2, <3>4
  <2>4. \A d \in Sides : BufOK(conns[c].buf[d], conns[c].netnacl[d])
    BY <1>5 DEF ConnInv
  <2>5. n \in Nat /\ pos <= n
    <3>1. conns[c].buf[side].read_pos <= Len(conns[c].buf[side].data) /\ pos <= n
      BY <1>1, <1>4, <2>4 DEF BufOK
    <3> QED
      BY <1>1, <1>5, <3>1, PendingSeq
  <2>6. PICK room : room = sock[f].room
    OBVIOUS
  <2>7. room \in 0 .. TxCap /\ TxCap \in Nat /\ SockOK(sock[f])
    <3>1. SockOK(sock[f])
      BY <1>4, <2>3 DEF Types, SockTyped
    <3> QED
      BY <2>6, <3>1, SocketsAssumption DEF SockOK, SockType
  <2>8. room - (n - pos) \in 0 .. TxCap
    <3>1. ~(room + pos < n)
      BY <1>3, <2>6
    <3> QED
      BY <1>5, <2>5, <2>7, <3>1
  <2>9. PICK x, left : left = room - (n - pos) /\ x = [sock[f] EXCEPT !.room = left]
    OBVIOUS
  <2>10. /\ SockOK(x) /\ x.st = sock[f].st /\ x.peer = sock[f].peer
         /\ x.rx = sock[f].rx /\ x.hello = sock[f].hello
    BY <2>7, <2>8, <2>9, RoomSet
  <2>11. sock' = [sock EXCEPT ![f] = x]
    BY <2>1, <2>6, <2>9
  <2>12. /\ SockTyped(sock') /\ \A g \in FdSet : g # f => sock'[g] = sock[g]
         /\ \A g \in FdSet : sock'[g].peer = sock[g].peer /\ sock'[g].st = sock[g].st
         /\ sock'[f] = x
    BY <1>4, <2>3, <2>10, <2>11, SockSet
  <2>13. /\ \A h \in FdSet \ FdsOf(c) : sock'[h] = sock[h]
         /\ \A h \in FdsOf(c) : sock'[h].peer = sock[h].peer /\ sock'[h].st = sock[h].st
    BY <1>4, <2>3, <2>12, LiveConn
  <2>14. PICK k0, k, b : k0 = conns[c] /\ b = EmptyBuf /\ k = SentConn(k0, side, b, 0)
    OBVIOUS
  <2>15. b \in BufType /\ 0 \in 0 .. NN_MAX_MESSAGE_LEN - 1 /\ k0 \in ConnType
    BY <1>5, <2>14, ConstTypes, SocketsAssumption DEF EmptyBuf, BufType
  <2>16. /\ k \in ConnType /\ k.st = "live" /\ k.fd = conns[c].fd /\ k.ref = conns[c].ref
         /\ k.buf[side] = EmptyBuf /\ k.buf[o] = conns[c].buf[o]
         /\ k.netnacl[side].send_buf_pos = 0
         /\ k.netnacl[side].recv_pt = conns[c].netnacl[side].recv_pt
         /\ k.netnacl[side].key = conns[c].netnacl[side].key
         /\ k.netnacl[o] = conns[c].netnacl[o]
    <3>1. /\ k \in ConnType /\ k.st = k0.st /\ k.fd = k0.fd /\ k.ref = k0.ref
          /\ k.buf[side] = b /\ k.buf[Other(side)] = k0.buf[Other(side)]
          /\ k.netnacl[side].send_buf_pos = 0
          /\ k.netnacl[side].recv_pt = k0.netnacl[side].recv_pt
          /\ k.netnacl[side].key = k0.netnacl[side].key
          /\ k.netnacl[Other(side)] = k0.netnacl[Other(side)]
      BY <1>4, <2>14, <2>15, ConnSetSent, SMTT(40)
    <3> QED
      BY <1>1, <1>5, <2>14, <3>1
  <2>17. conns' = [conns EXCEPT ![c] = k]
    <3>1. conns' = SentConns(conns, c, side, b, 0) /\ conns \in [ConnIds -> ConnType]
      BY <1>4, <2>1, <2>14 DEF SentConns, Types
    <3>2. k = SentConn(conns[c], side, b, 0)
      BY <2>14
    <3>3. SentConns(conns, c, side, b, 0) = [conns EXCEPT ![c] = k]
      BY <1>4, <3>1, <3>2, ConnsSent
    <3> QED
      BY <3>1, <3>3
  <2>18. /\ Sound(mgr') /\ KeepsSlots(mgr, mgr', f) /\ Watched(mgr') = Watched(mgr)
         /\ r.err = PROXY_SUCCESS /\ MaskAt(mgr', f) = {"POLLIN"}
         /\ HandlerAt(mgr', f) = HandlerAt(mgr, f) /\ DataAt(mgr', f) = DataAt(mgr, f)
         /\ \A h \in Nat : h # f => Same(mgr, mgr', h)
    <3>0. PICK mask : mask = {"POLLIN"}
      OBVIOUS
    <3>1. mask \in PollMasks /\ mask # {} /\ r = event_modify(mgr, f, mask)
      BY <1>1, <3>0 DEF PollMasks
    <3>2. /\ Sound(r.mgr) /\ KeepsSlots(mgr, r.mgr, f) /\ Watched(r.mgr) = Watched(mgr)
          /\ r.err = PROXY_SUCCESS /\ MaskAt(r.mgr, f) = mask
          /\ HandlerAt(r.mgr, f) = HandlerAt(mgr, f) /\ DataAt(r.mgr, f) = DataAt(mgr, f)
          /\ \A h \in Nat : h # f => Same(mgr, r.mgr, h)
      BY <1>5, <2>3, <3>1, ModifyView
    <3> QED
      BY <2>1, <3>0, <3>2
  <2>19. Outside(mgr, mgr', FdsOf(c))
    BY <2>3, <2>18, OutsideOne
  <2>20. Serving(mgr', c, k)
    <3>1. Serving(mgr', c, conns[c])
      BY <1>4, <1>5, <2>3, <2>18, ServingFrame
    <3> QED
      BY <2>16, <3>1 DEF Serving
  <2>21. Pending(EmptyBuf) = << >>
    BY DEF EmptyBuf, Pending
  <2>22. \A d \in Sides : BufOK(k.buf[d], k.netnacl[d])
    <3>1. BufOK(k.buf[o], k.netnacl[o])
      BY <1>5, <2>4, <2>16
    <3>2. BufOK(k.buf[side], k.netnacl[side])
      <4>1. /\ k.buf[side].data = << >> /\ k.buf[side].read_pos = 0 /\ Len(<< >>) = 0
            /\ BUF_SIZ \in Nat
        BY <2>16, ConstTypes, ProxyAssumption
      <4> QED
        BY <2>16, <2>21, <4>1 DEF BufOK
    <3> QED
      BY <1>5, <3>1, <3>2
  <2>23. MasksFit(mgr', k)
    <3> SUFFICES ASSUME NEW d \in Sides, k.fd[d] # NoFd, k.fd[d] \in Watched(mgr'),
                        HandlerAt(mgr', k.fd[d]) = "conn_callback"
                 PROVE  "POLLOUT" \in MaskAt(mgr', k.fd[d]) <=> Pending(k.buf[d]) # << >>
      BY DEF MasksFit
    <3>1. CASE d = side
      <4>1. k.fd[d] = f /\ MaskAt(mgr', f) = {"POLLIN"}
        BY <1>1, <2>16, <2>18, <3>1
      <4>2. Pending(k.buf[d]) = << >>
        BY <2>16, <2>21, <3>1
      <4> QED
        BY <4>1, <4>2
    <3>2. CASE d = o
      <4>1. Same(mgr, mgr', conns[c].fd[o]) /\ k.fd[d] = conns[c].fd[o]
        BY <2>3, <2>16, <2>18, <3>2
      <4>2. MasksFit(mgr, conns[c])
        BY <1>5 DEF ConnInv
      <4> QED
        BY <1>5, <2>2, <2>16, <3>2, <4>1, <4>2 DEF MasksFit, Same
    <3> QED
      BY <1>5, <3>1, <3>2
  <2>24. HasWork(k)
    BY <1>1, <1>3, <1>5, <2>2, <2>16 DEF HasWork
  <2>25. KeepsConn(c)
    BY <1>4, <2>12, <2>13, <2>16, <2>17, <2>18, <2>19, <2>20, <2>22, <2>23, <2>24, ServesStep
  <2>26. Moves /\ pc' # "send"
    BY <2>1, <2>18, CodesTyped, NextSlotMoves
  <2>27. UNCHANGED <<listen_fd, arrived, accepted, sent, mainVars, run_flag>>
    BY <1>0, <1>2
  <2>28. IInv' /\ Touches(c, FdsOf(c))
    BY <1>0, <1>4, <2>25, <2>26, <2>27, KeepsConnInv
  <2>29. SentOn(c, side, n, EmptyBuf)
    <3>1. conns'[c] = k
      BY <1>4, <2>16, <2>17, ConnsSet
    <3>2. n \in 0 .. Len(Pending(conns[c].buf[side]))
      BY <1>1, <2>5
    <3>3. \A d \in Sides : /\ k.netnacl[d].key = conns[c].netnacl[d].key
                           /\ k.netnacl[d].recv_pt = conns[c].netnacl[d].recv_pt
      BY <1>5, <2>16
    <3>4. \A h \in FdSet : sock'[h].rx = sock[h].rx /\ sock'[h].hello = sock[h].hello
      BY <2>10, <2>12
    <3>5. \A h \in FdSet : h \in Watched(mgr') =>
            h \in Watched(mgr) /\ HandlerAt(mgr', h) = HandlerAt(mgr, h)
      BY <2>18 DEF Same
    <3> QED
      BY <1>1, <1>2, <1>4, <2>16, <2>28, <3>1, <3>2, <3>3, <3>4, <3>5 DEF SentOn
  <2> QED
    BY <1>1, <2>28, <2>29
<1> QED
  BY <1>1, <1>6, <1>7

-----------------------------------------------------------------------------
(* Teardown: the elements that still hold a context when event_teardown    *)
(* frees the table are never more than its references.                     *)

Holding(m, c) == {i \in Scanned(m) : m.events[i].data = c}

\* The elements of a connection are found through its descriptors.
LEMMA HoldingIs ==
    ASSUME Types, Structure, NEW c \in ConnIds, Live(c), NEW m, Sound(m),
           NEW l \in Nat \cup {NoFd}, Watched(m) = Watched(mgr) \ {l},
           \A g \in Nat : g # l => Same(mgr, m, g)
    PROVE  \A i \in Holding(m, c) : \E side \in Sides :
             /\ conns[c].fd[side] \in Watched(mgr)
             /\ i = get_idx_from_fd(m, conns[c].fd[side])
<1> SUFFICES ASSUME NEW i \in Holding(m, c)
             PROVE  \E side \in Sides : /\ conns[c].fd[side] \in Watched(mgr)
                                        /\ i = get_idx_from_fd(m, conns[c].fd[side])
  OBVIOUS
<1>1. i \in Scanned(m) /\ m.events[i].data = c /\ c # NULL
  BY SideFacts DEF Holding
<1>2. i \in Used(m)
  BY <1>1 DEF Sound
<1>3. PICK f : f = m.pfds[i].fd
  OBVIOUS
<1>4. f \in Nat /\ f \in Watched(m) /\ get_idx_from_fd(m, f) = i
  BY <1>2, <1>3, SlotIs
<1>5. f \in Watched(mgr) /\ f # l /\ DataAt(m, f) = c
  BY <1>1, <1>4 DEF DataAt
<1>6. DataAt(mgr, f) = c
  BY <1>4, <1>5 DEF Same
<1>7. \E side \in Sides : f = conns[c].fd[side]
  BY <1>5, <1>6, LiveConn
<1> QED
  BY <1>4, <1>5, <1>7

LEMMA TwoAtMost ==
    ASSUME NEW S, NEW a, NEW b, S \subseteq {a, b}
    PROVE  Cardinality(S) \in 0 .. 2 /\ (S \subseteq {b} => Cardinality(S) \in 0 .. 1)
<1>1. IsFiniteSet({b}) /\ Cardinality({b}) = 1
  BY FS_Singleton
<1>2. IsFiniteSet({b} \cup {a}) /\ Cardinality({b} \cup {a}) \in {1, 2}
  BY <1>1, FS_AddElement
<1>3. IsFiniteSet(S) /\ Cardinality(S) <= Cardinality({b} \cup {a})
  <2>1. S \in SUBSET ({b} \cup {a})
    OBVIOUS
  <2> QED
    BY <1>2, <2>1, FS_Subset
<1>4. Cardinality(S) \in Nat
  BY <1>3, FS_CardinalityType
<1>5. S \subseteq {b} => Cardinality(S) <= 1
  BY <1>1, FS_Subset
<1> QED
  BY <1>2, <1>3, <1>4, <1>5

LEMMA HoldingBound ==
    ASSUME Types, Structure, NEW c \in ConnIds, Live(c), NEW m, Sound(m),
           NEW l \in Nat \cup {NoFd}, Watched(m) = Watched(mgr) \ {l},
           \A g \in Nat : g # l => Same(mgr, m, g)
    PROVE  /\ Cardinality(Holding(m, c)) \in 0 .. 2
           /\ \/ conns[c].ref = 2
              \/ conns[c].ref = 0 /\ Cardinality(Holding(m, c)) \in 0 .. 1
<1>1. PICK a, b : /\ a = get_idx_from_fd(m, conns[c].fd["client"])
                  /\ b = get_idx_from_fd(m, conns[c].fd["server"])
  OBVIOUS
<1>2. \A i \in Holding(m, c) : \E side \in Sides :
             /\ conns[c].fd[side] \in Watched(mgr)
             /\ i = get_idx_from_fd(m, conns[c].fd[side])
  BY HoldingIs
<1>3. Holding(m, c) \subseteq {a, b}
  BY <1>1, <1>2, SideFacts
<1>4. Opening(mgr, c, conns[c]) \/ Serving(mgr, c, conns[c])
  BY LiveConn DEF ConnInv
<1>5. CASE Opening(mgr, c, conns[c])
  <2>1. conns[c].fd["client"] \notin Watched(mgr) /\ conns[c].ref = 0
    BY <1>5 DEF Opening
  <2>2. Holding(m, c) \subseteq {b}
    BY <1>1, <1>2, <2>1, SideFacts
  <2> QED
    BY <1>3, <2>1, <2>2, TwoAtMost
<1>6. CASE Serving(mgr, c, conns[c])
  BY <1>3, <1>6, TwoAtMost DEF Serving
<1> QED
  BY <1>4, <1>5, <1>6

\* free_connection called no more often than there are references.
LEMMA FreesTyped ==
    ASSUME NEW k \in ConnType, k.st = "live", NEW calls \in 0 .. 2,
           k.ref = 2 \/ (k.ref = 0 /\ calls \in 0 .. 1), NEW n, n = AfterFrees(k, calls)
    PROVE  /\ n \in ConnType /\ n.st # "double free"
           /\ n = FreedConn \/ n.buf = k.buf
<1>1. PICK needed : needed = IF k.ref <= 1 THEN 1 ELSE k.ref
  OBVIOUS
<1>2. needed \in {1, 2} /\ ~(calls > needed) /\ (calls # needed => k.ref - calls \in 0 .. 2)
  BY <1>1
<1>3. n = IF calls = needed THEN FreedConn ELSE [k EXCEPT !.ref = k.ref - calls]
  BY <1>1, <1>2 DEF AfterFrees
<1>4. CASE calls = needed
  BY <1>3, <1>4, ConstTypes
<1>5. CASE calls # needed
  <2>1. PICK ref : ref = k.ref - calls
    OBVIOUS
  <2>2. ref \in 0 .. 2 /\ n = [k EXCEPT !.ref = ref]
    BY <1>2, <1>3, <1>5, <2>1
  <2>3. n \in ConnType /\ n.st = k.st /\ n.buf = k.buf
    BY <2>2, ConnSetRef
  <2> QED
    BY <2>3
<1> QED
  BY <1>4, <1>5

LEMMA TeardownInv == ASSUME IInv, Teardown PROVE IInv'
<1>0. Types /\ Structure /\ NoDoubleFree /\ pc = "returned"
  BY DEF IInv, Teardown
<1>1. PICK m : m = event_remove(mgr, listen_fd).mgr
  OBVIOUS
<1>2. /\ mgr' = ClearTable(m)
      /\ sock' = CloseFds(sock, {listen_fd} \cup
                   {m.events[i].fd : i \in {i \in Scanned(m) : m.events[i].fd > NoFd}})
      /\ conns' = [c \in ConnIds |->
           IF Live(c) THEN AfterFrees(conns[c], Cardinality(Holding(m, c))) ELSE conns[c]]
      /\ listen_fd' = NoFd /\ pc' = "done" /\ status' = ExitStatus(ret)
      /\ UNCHANGED <<config, idx, run_flag, ret, call, peerVars>>
  BY <1>1 DEF Teardown, Holding
<1>3. listen_fd \in Nat \cup {NoFd}
  BY <1>0, SideFacts DEF Types
<1>4. /\ Sound(m) /\ Watched(m) = Watched(mgr) \ {listen_fd}
      /\ \A g \in Nat : g # listen_fd => Same(mgr, m, g)
  BY <1>0, <1>1, <1>3, RemoveView DEF Structure
<1>5. mgr'.max_idx \in 0 .. MAX_EVENTS /\ mgr'.num_events \in 0 .. MAX_EVENTS
  <2>1. m.max_idx \in 0 .. MAX_EVENTS /\ m.num_events \in 0 .. MAX_EVENTS
    BY <1>4, SoundBounds
  <2>2. mgr'.max_idx = m.max_idx /\ mgr'.num_events = m.num_events
    BY <1>2, <1>4 DEF ClearTable, Sound, TableType
  <2> QED
    BY <2>1, <2>2
<1>6. SockTyped(sock')
  BY <1>0, <1>2, CloseFdsTyped
<1>7. ASSUME NEW c \in ConnIds
      PROVE  /\ conns'[c] \in ConnType /\ conns'[c].st # "double free"
             /\ conns'[c] = FreedConn \/ conns'[c].buf = conns[c].buf
  <2>1. CASE ~Live(c)
    BY <1>0, <1>2, <2>1 DEF Types, NoDoubleFree
  <2>2. CASE Live(c)
    <3>1. PICK k, calls, n : /\ k = conns[c] /\ calls = Cardinality(Holding(m, c))
                             /\ n = AfterFrees(k, calls)
      OBVIOUS
    <3>2. conns'[c] = n
      BY <1>2, <2>2, <3>1
    <3>3. /\ calls \in 0 .. 2
          /\ k.ref = 2 \/ (k.ref = 0 /\ calls \in 0 .. 1)
      BY <1>0, <1>3, <1>4, <2>2, <3>1, HoldingBound
    <3>4. k \in ConnType /\ k.st = "live"
      BY <1>0, <2>2, <3>1 DEF Types, Live
    <3>5. /\ n \in ConnType /\ n.st # "double free"
          /\ n = FreedConn \/ n.buf = k.buf
      BY <3>1, <3>3, <3>4, FreesTyped
    <3> QED
      BY <3>1, <3>2, <3>5
  <2> QED
    BY <2>1, <2>2
<1>8. conns' \in [ConnIds -> ConnType]
  <2>1. conns' = [c \in ConnIds |-> conns'[c]]
    BY <1>2
  <2> QED
    BY <1>7, <2>1
<1>9. \A c \in ConnIds, side \in Sides :
        /\ conns'[c].buf[side].read_pos <= Len(conns'[c].buf[side].data)
        /\ Len(conns'[c].buf[side].data) <= BUF_SIZ
  <2> SUFFICES ASSUME NEW c \in ConnIds, NEW side \in Sides
               PROVE  /\ conns'[c].buf[side].read_pos <= Len(conns'[c].buf[side].data)
                      /\ Len(conns'[c].buf[side].data) <= BUF_SIZ
    OBVIOUS
  <2>1. CASE conns'[c] = FreedConn
    <3>1. conns'[c].buf[side].data = << >> /\ conns'[c].buf[side].read_pos = 0
      BY <2>1, ConstTypes
    <3>2. Len(<< >>) = 0 /\ BUF_SIZ \in Nat
      BY ProxyAssumption
    <3> QED
      BY <3>1, <3>2
  <2>2. CASE conns'[c].buf = conns[c].buf
    <3>1. conns'[c].buf[side] = conns[c].buf[side]
      BY <2>2
    <3>2. /\ conns[c].buf[side].read_pos <= Len(conns[c].buf[side].data)
          /\ Len(conns[c].buf[side].data) <= BUF_SIZ
      BY DEF IInv
    <3> QED
      BY <3>1, <3>2
  <2> QED
    BY <1>7, <2>1, <2>2
<1>10. Types'
  <2>1. /\ UNCHANGED <<config, idx, run_flag, ret, call, arrived, accepted, sent>>
        /\ status' \in {EXIT_SUCCESS, EXIT_FAILURE}
    BY <1>2 DEF peerVars, ExitStatus
  <2> QED
    BY <1>0, <1>2, <1>6, <1>8, <2>1 DEF Types
<1>11. NoDoubleFree'
  BY <1>7 DEF NoDoubleFree
<1> QED
  BY <1>2, <1>5, <1>9, <1>10, <1>11 DEF IInv

-----------------------------------------------------------------------------
(* Every step keeps the invariant.                                         *)

LEMMA CallbackKeeps == ASSUME IInv, UNCHANGED mainVars, Callback PROVE IInv'
<1>1. CASE AcceptAborted \/ AcceptFails \/ AcceptSetupFails \/ AcceptThenConnectFails
  BY <1>1, AcceptErrors
<1>2. CASE AcceptThenConnect
  BY <1>2, AcceptOpens
<1>3. CASE PendingConnectFails
  BY <1>3, PendingFailsInv
<1>4. CASE PendingConnectSucceeds
  BY <1>4, PendingSucceedsInv
<1>5. CASE HandshakeHup
  BY <1>5, HandshakeHupInv
<1>6. CASE Handshake
  BY <1>6, HandshakeInv
<1>7. CASE ConnHup
  BY <1>7, ConnHupInv
<1>8. CASE RecvHeld \/ handle_recv
  BY <1>8, HandleRecvInv
<1>9. CASE SendSome
  BY <1>9, SendSomeInv
<1>10. CASE SendAll
  BY <1>10, SendAllInv
<1>11. CASE SendFails
  BY <1>11, SendFailsInv
<1> QED
  BY <1>1, <1>2, <1>3, <1>4, <1>5, <1>6, <1>7, <1>8, <1>9, <1>10, <1>11 DEF Callback

LEMMA LoopStepKeeps ==
    ASSUME IInv, UNCHANGED mainVars, LoopStep \/ SignalArrives
    PROVE  IInv'
<1>0. UNCHANGED <<sockVars, proxyVars, mainVars>>
  BY DEF LoopStep, SignalArrives
<1>1. CASE LoopStep
  <2>1. CASE CheckFlag \/ SkipSlot \/ EndRound \/ PollFails
    BY <1>0, <2>1, LoopInv
  <2>2. CASE PollReturns(PollReport)
    BY <1>0, <2>2, PollInv
  <2> QED
    BY <1>1, <2>1, <2>2 DEF LoopStep
<1>2. CASE SignalArrives
  BY <1>0, <1>2, LoopInv DEF SignalArrives
<1> QED
  BY <1>1, <1>2

LEMMA StutterKeeps == ASSUME IInv, UNCHANGED vars PROVE IInv'
<1>1. /\ UNCHANGED <<mgr, sock, conns, listen_fd, arrived, accepted, sent, call>>
      /\ UNCHANGED <<pc, idx, ret, run_flag, config, status>>
  BY DEF vars, mainVars, loopVars, sockVars, peerVars, proxyVars
<1> QED
  BY <1>1, QuietInv DEF IInv, Types

LEMMA NextKeeps == ASSUME IInv, [Next]_vars PROVE IInv'
<1>1. CASE main
  BY <1>1, MainInv
<1>2. CASE Teardown
  BY <1>2, TeardownInv
<1>3. CASE proxy_run /\ UNCHANGED mainVars
  BY <1>3, ProxyRunInv
<1>4. CASE (LoopStep \/ SignalArrives) /\ UNCHANGED mainVars
  BY <1>4, LoopStepKeeps
<1>5. CASE Callback /\ UNCHANGED mainVars
  BY <1>5, CallbackKeeps
<1>6. CASE ListenerFails /\ UNCHANGED mainVars
  BY <1>6, ListenerFailsInv
<1>7. ASSUME NEW f \in FdSet, Peer(f) PROVE IInv'
  BY <1>7, PeerInv
<1>8. CASE UNCHANGED vars
  BY <1>8, StutterKeeps
<1> QED
  BY <1>1, <1>2, <1>3, <1>4, <1>5, <1>6, <1>7, <1>8 DEF Next, System, Environment

\* The invariant of the proxy: every live connection owns its sockets, which
\* name it back; while its connect() is pending exactly the server's is watched
\* and no reference is counted, afterwards each of them is and there are two;
\* its buffers are reset when empty, POLLOUT is asked for exactly where data
\* waits, and a side that is gone left data for the other; and every watched
\* descriptor is the listener or belongs to such a connection.
THEOREM Inductive == Spec => []IInv
<1>1. Init => IInv
  BY InitInv
<1>2. IInv /\ [Next]_vars => IInv'
  BY NextKeeps
<1> QED
  BY <1>1, <1>2, PTL DEF Spec

\* The state of the proxy is well typed, the table never counts beyond its
\* arrays and no buf_t is read behind its data or filled behind BUF_SIZ
\* (src/buf.c), for every size of table, buffer and message.
THEOREM TypeCorrect == Spec => []TypeOK
<1>1. IInv => TypeOK
  BY DEF IInv, Types, SockTyped, TypeOK
<1> QED
  BY <1>1, Inductive, PTL

\* close_connection in the middle of the loop over the table never leaves an
\* element with a freed context or a descriptor that is not the connection's,
\* and handle_send is never entered with a connection handle_recv has freed.
THEOREM Dangling == Spec => []NoDangling
<1> USE SideFacts
<1>1. ASSUME IInv PROVE NoDangling
  <2> SUFFICES ASSUME pc # "done"
               PROVE  /\ \A i \in Events : mgr.events[i].callback # "accept_callback" =>
                           /\ Live(mgr.events[i].data)
                           /\ mgr.pfds[i].fd \in FdsOf(mgr.events[i].data)
                      /\ \A c \in ConnIds, side \in Sides :
                           Live(c) /\ FdOf(c, side) # NoFd =>
                             sock[FdOf(c, side)].peer = [conn |-> c, side |-> side]
                      /\ pc = "send" => Live(call.conn)
    BY DEF NoDangling
  <2>0. Types /\ Structure /\ Sound(mgr)
    BY <1>1 DEF IInv, Structure
  <2>1. ASSUME NEW i \in Events, mgr.events[i].callback # "accept_callback"
        PROVE  /\ Live(mgr.events[i].data)
               /\ mgr.pfds[i].fd \in FdsOf(mgr.events[i].data)
    <3>1. i \in Used(mgr)
      BY DEF Events, Used
    <3>2. PICK f, c : f = mgr.pfds[i].fd /\ c = mgr.events[i].data
      OBVIOUS
    <3>3. f \in Watched(mgr) /\ DataAt(mgr, f) = c /\ HandlerAt(mgr, f) # "accept_callback"
      BY <2>0, <2>1, <3>1, <3>2, SlotIs DEF DataAt, HandlerAt
    <3>4. c \in ConnIds /\ Live(c)
      BY <2>0, <3>3 DEF Structure, Owners, Live
    <3>5. f \in FdsOf(c)
      BY <2>0, <3>3, <3>4, LiveConn
    <3> QED
      BY <3>2, <3>4, <3>5
  <2>2. ASSUME NEW c \in ConnIds, NEW side \in Sides, Live(c), FdOf(c, side) # NoFd
        PROVE  sock[FdOf(c, side)].peer = [conn |-> c, side |-> side]
    <3>1. Owned(sock, c, conns[c])
      BY <2>0, <2>2, LiveConn DEF ConnInv
    <3> QED
      BY <2>2, <3>1 DEF Owned, FdOf
  <2>3. pc = "send" => Live(call.conn)
    BY <2>0 DEF Structure, CallOK
  <2> QED
    BY <2>1, <2>2, <2>3
<1> QED
  BY <1>1, Inductive, PTL

\* event_teardown never calls free_connection for a context more often than
\* references to it were counted, wherever the loop ended.
THEOREM FreedOnce == Spec => []NoDoubleFree
<1>1. IInv => NoDoubleFree
  BY DEF IInv
<1> QED
  BY <1>1, Inductive, PTL

\* The elements of a connection, through their descriptors.
LEMMA EventsAre ==
    ASSUME Types, Structure, NEW c \in ConnIds
    PROVE  /\ IsFiniteSet(EventsOf(c))
           /\ Cardinality({mgr.pfds[i].fd : i \in EventsOf(c)}) = Cardinality(EventsOf(c))
           /\ {mgr.pfds[i].fd : i \in EventsOf(c)} = {f \in Watched(mgr) : DataAt(mgr, f) = c}
           /\ \A i \in EventsOf(c) : /\ mgr.pfds[i].fd \in Watched(mgr)
                                     /\ mgr.events[i].callback = HandlerAt(mgr, mgr.pfds[i].fd)
                                     /\ DataAt(mgr, mgr.pfds[i].fd) = c
<1>0. Sound(mgr)
  BY DEF Structure
<1>1. PICK S, T : S = EventsOf(c) /\ T = {mgr.pfds[i].fd : i \in S}
  OBVIOUS
<1>2. S \subseteq Used(mgr) /\ \A i \in S : mgr.events[i].data = c
  BY <1>1 DEF EventsOf, Events, Used
<1>3. IsFiniteSet(S)
  <2>1. IsFiniteSet(Used(mgr))
    BY <1>0, UsedFinite
  <2> QED
    BY <1>2, <2>1, FS_Subset
<1>4. \A i, j \in S : mgr.pfds[i].fd = mgr.pfds[j].fd => i = j
  BY <1>0, <1>2 DEF Sound
<1>5. ExistsBijection(S, T)
  <2>1. PICK b : b = [i \in S |-> mgr.pfds[i].fd]
    OBVIOUS
  <2>2. b \in [S -> T] /\ \A i \in S : b[i] = mgr.pfds[i].fd
    BY <1>1, <2>1
  <2>3. \A i, j \in S : b[i] = b[j] => i = j
    BY <1>4, <2>2
  <2>4. \A t \in T : \E i \in S : b[i] = t
    BY <1>1, <2>2
  <2>5. b \in Bijection(S, T)
    BY <2>2, <2>3, <2>4 DEF Bijection, Injection, IsInjective, Surjection
  <2> QED
    BY <2>5 DEF ExistsBijection
<1>6. Cardinality(T) = Cardinality(S)
  BY <1>3, <1>5, FS_Bijection
<1>7. \A i \in S : /\ mgr.pfds[i].fd \in Watched(mgr)
                   /\ mgr.events[i].callback = HandlerAt(mgr, mgr.pfds[i].fd)
                   /\ DataAt(mgr, mgr.pfds[i].fd) = c
  BY <1>0, <1>2, SlotIs DEF HandlerAt, DataAt
<1>8. ASSUME NEW f \in Watched(mgr), DataAt(mgr, f) = c PROVE f \in T
  <2>1. PICK i \in Used(mgr) : f = mgr.pfds[i].fd
    BY DEF Watched
  <2>2. mgr.events[i].data = c
    BY <1>0, <1>8, <2>1, SlotIs DEF DataAt
  <2>3. i \in S
    BY <1>1, <2>1, <2>2 DEF EventsOf, Events, Used
  <2> QED
    BY <1>1, <2>1, <2>3
<1>9. T = {f \in Watched(mgr) : DataAt(mgr, f) = c}
  BY <1>1, <1>7, <1>8
<1> QED
  BY <1>1, <1>3, <1>6, <1>7, <1>9

\* No side of a live connection is forgotten: each open socket has exactly one
\* element in the table, except the client's while connect() is pending.
THEOREM SidesWatched == Spec => []EverySideWatched
<1> USE SideFacts
<1>1. ASSUME IInv PROVE EverySideWatched
  <2> SUFFICES ASSUME Running, NEW c \in ConnIds, Live(c), NEW watched,
                      watched = {mgr.pfds[i].fd : i \in EventsOf(c)}
               PROVE  /\ Cardinality(EventsOf(c)) = Cardinality(watched)
                      /\ \/ watched = FdsOf(c)
                         \/ /\ watched = {FdOf(c, "server")}
                            /\ \A i \in EventsOf(c) :
                                 mgr.events[i].callback = "pending_connect_callback"
    BY DEF EverySideWatched, Running
  <2>0. Types /\ Structure
    BY <1>1 DEF IInv, Running
  <2>1. /\ Cardinality(EventsOf(c)) = Cardinality(watched)
        /\ watched = {f \in Watched(mgr) : DataAt(mgr, f) = c}
        /\ \A i \in EventsOf(c) : /\ mgr.pfds[i].fd \in watched
                                  /\ mgr.events[i].callback = HandlerAt(mgr, mgr.pfds[i].fd)
    BY <2>0, EventsAre
  <2>2. \A f \in Watched(mgr) : DataAt(mgr, f) = c => f \in FdsOf(c)
    BY <2>0, LiveConn
  <2>3. Opening(mgr, c, conns[c]) \/ Serving(mgr, c, conns[c])
    BY <2>0, LiveConn DEF ConnInv
  <2>4. CASE Opening(mgr, c, conns[c])
    <3>1. \A f \in FdsOf(c) : f = conns[c].fd["client"] \/ f = conns[c].fd["server"]
      BY DEF FdsOf
    <3>2. watched = {conns[c].fd["server"]}
      BY <2>1, <2>2, <2>4, <3>1 DEF Opening
    <3>3. \A f \in watched : HandlerAt(mgr, f) = "pending_connect_callback"
      BY <2>4, <3>2 DEF Opening
    <3> QED
      BY <2>1, <3>2, <3>3 DEF FdOf
  <2>5. CASE Serving(mgr, c, conns[c])
    <3>1. ASSUME NEW f \in FdsOf(c) PROVE f \in watched
      <4>1. PICK side \in Sides : f = conns[c].fd[side] /\ f # NoFd
        BY DEF FdsOf
      <4> QED
        BY <2>1, <2>5, <4>1 DEF Serving
    <3>2. watched = FdsOf(c)
      BY <2>1, <2>2, <3>1
    <3> QED
      BY <2>1, <3>2
  <2> QED
    BY <2>3, <2>4, <2>5
<1> QED
  BY <1>1, Inductive, PTL

\* POLLOUT is asked for on a connected side exactly while its buffer holds
\* unsent bytes, and a buffer that holds none was reset: the assertions at the
\* head of buf_recv and buf_send hold, and no data waits unasked for.
THEOREM PollOutFits == Spec => []PollOutIffPending
<1> USE SideFacts
<1>1. ASSUME IInv PROVE PollOutIffPending
  <2> SUFFICES ASSUME NEW i \in Events, mgr.events[i].callback = "conn_callback", pc # "done",
                      NEW c, c = mgr.events[i].data, NEW f, f = mgr.pfds[i].fd,
                      NEW b, b = conns[c].buf[SideOf(c, f)]
               PROVE  /\ "POLLOUT" \in mgr.pfds[i].events <=> Pending(b) # << >>
                      /\ Pending(b) = << >> => b = EmptyBuf
    BY DEF PollOutIffPending
  <2>0. Types /\ Structure /\ Sound(mgr)
    BY <1>1 DEF IInv, Structure
  <2>1. i \in Used(mgr)
    BY DEF Events, Used
  <2>2. /\ f \in Watched(mgr) /\ DataAt(mgr, f) = c /\ HandlerAt(mgr, f) = "conn_callback"
        /\ MaskAt(mgr, f) = mgr.pfds[i].events /\ f # NoFd /\ f \in Nat
    BY <2>0, <2>1, SlotIs DEF DataAt, HandlerAt, MaskAt, NoFd
  <2>3. /\ c \in ConnIds /\ Live(c) /\ \E side \in Sides : f = conns[c].fd[side]
    BY <2>0, <2>2 DEF Structure, Owners, Live
  <2>4. PICK side : side = SideOf(c, f)
    OBVIOUS
  <2>5. side \in Sides /\ conns[c].fd[side] = f
    BY <2>3, <2>4 DEF SideOf
  <2>6. MasksFit(mgr, conns[c]) /\ BufOK(conns[c].buf[side], conns[c].netnacl[side])
    BY <2>0, <2>3, <2>5, LiveConn DEF ConnInv
  <2>7. b = conns[c].buf[side]
    BY <2>4
  <2>8. "POLLOUT" \in MaskAt(mgr, f) <=> Pending(b) # << >>
    BY <2>2, <2>5, <2>6, <2>7 DEF MasksFit
  <2>9. Pending(b) = << >> => b = EmptyBuf
    BY <2>6, <2>7 DEF BufOK
  <2> QED
    BY <2>2, <2>8, <2>9
<1> QED
  BY <1>1, Inductive, PTL

\* A connection that has lost one side has the other and data for it: there is
\* no connection that nothing will ever close.
THEOREM HalfClosed == Spec => []HalfClosedHasWork
<1>1. ASSUME IInv PROVE HalfClosedHasWork
  <2> SUFFICES ASSUME NEW c \in ConnIds, NEW side \in Sides, Live(c), pc # "done",
                      conns[c].fd[side] = NoFd
               PROVE  /\ conns[c].fd[Other(side)] # NoFd
                      /\ Pending(conns[c].buf[Other(side)]) # << >>
    BY DEF HalfClosedHasWork, FdOf
  <2>1. HasWork(conns[c])
    BY <1>1 DEF IInv, Structure, ConnInv
  <2> QED
    BY <2>1 DEF HasWork
<1> QED
  BY <1>1, Inductive, PTL

-----------------------------------------------------------------------------
(* A connection that is given up.                                          *)

\* Only close_connection frees a live context while the loop runs.
LEMMA CloseFrees ==
    ASSUME Types, NEW c \in ConnIds, Live(c), NEW d \in ConnIds, NEW m, close_connection(m, d),
           conns'[c].st # "live"
    PROVE  sock' = CloseFds(sock, FdsOf(c))
<1>1. conns' = [conns EXCEPT ![d] = FreedConn] /\ sock' = CloseFds(sock, FdsOf(d))
  BY DEF close_connection
<1>2. c = d
  BY <1>1 DEF Types, Live
<1> QED
  BY <1>1, <1>2

LEMMA KeptLive ==
    ASSUME Types, NEW c \in ConnIds, Live(c), NEW d, NEW k, conns' = [conns EXCEPT ![d] = k],
           d \in ConnIds => k.st = conns[d].st
    PROVE  conns'[c].st = "live"
BY DEF Types, Live

LEMMA AcceptFreesNone ==
    ASSUME IInv, NEW c \in ConnIds, Live(c),
           AcceptAborted \/ AcceptFails \/ AcceptSetupFails \/ AcceptThenConnectFails
             \/ AcceptThenConnect
    PROVE  conns'[c].st = "live"
<1>0. Types /\ Structure
  BY DEF IInv, AcceptAborted, AcceptFails, AcceptSetupFails, AcceptThenConnectFails,
         AcceptThenConnect, Accepting, At, Dispatching
<1>1. c \in Nat /\ c <= accepted /\ accepted \in Nat
  BY <1>0, LiveConn DEF Types
<1>2. c # accepted + 1
  BY <1>1
<1>3. conns' = conns \/ \E k : conns' = [conns EXCEPT ![accepted + 1] = k]
  <2>1. CASE AcceptAborted \/ AcceptFails
    BY <2>1 DEF AcceptAborted, AcceptFails, proxyVars
  <2>2. CASE AcceptSetupFails \/ AcceptThenConnectFails
    BY <2>2 DEF AcceptSetupFails, AcceptThenConnectFails
  <2>3. CASE AcceptThenConnect
    BY <2>3, Zenon DEF AcceptThenConnect
  <2> QED
    BY <2>1, <2>2, <2>3
<1>4. conns \in [ConnIds -> ConnType]
  BY <1>0 DEF Types
<1>5. PICK n : n = accepted + 1
  OBVIOUS
<1>6. c # n /\ (conns' = conns \/ \E k : conns' = [conns EXCEPT ![n] = k])
  BY <1>2, <1>3, <1>5
<1>7. conns'[c] = conns[c]
  BY <1>4, <1>6
<1> QED
  BY <1>7 DEF Live

LEMMA RecvFrees ==
    ASSUME IInv, NEW c \in ConnIds, Live(c), RecvHeld \/ handle_recv, conns'[c].st # "live"
    PROVE  sock' = CloseFds(sock, FdsOf(c))
<1>0. Types /\ Structure /\ At("conn_callback")
  BY DEF IInv, RecvHeld, handle_recv, Receiving, AtConn, At, Dispatching
<1>1. Conn \in ConnIds /\ Live(Conn)
  BY <1>0, AtServing
<1>2. conns' # conns
  BY DEF Live
<1>3. PICK r : RecvData(r) \/ RecvCloses(r)
  BY <1>2 DEF RecvHeld, handle_recv, RecvNothing
<1>4. CASE RecvData(r)
  <2>1. PICK d, side, fin, full :
          /\ d = Conn /\ side = SideOf(Conn, Fd) /\ fin = (r.err = PROXY_DISCONNECT)
          /\ full = RecvConn(conns[d], side, r.data, r.recv_pt)
    OBVIOUS
  <2>2. conns' = [conns EXCEPT ![d] = IF fin THEN FinConn(full, side) ELSE full]
    BY <1>4, <2>1, Zenon DEF RecvData, RecvConn, FinConn
  <2>3. PICK k : k = IF fin THEN FinConn(full, side) ELSE full
    OBVIOUS
  <2>4. k.st = conns[d].st
    <3>1. conns[d] \in ConnType
      BY <1>0, <1>1, <2>1 DEF Types
    <3>2. full.st = conns[d].st /\ DOMAIN full = DOMAIN conns[d]
      BY <2>1, <3>1 DEF RecvConn, ConnType
    <3>3. FinConn(full, side).st = full.st
      BY <3>1, <3>2 DEF FinConn, ConnType
    <3> QED
      BY <2>3, <3>2, <3>3
  <2>5. conns' = [conns EXCEPT ![d] = k]
    BY <2>2, <2>3
  <2>6. conns'[c].st = "live"
    BY <1>0, <2>4, <2>5, KeptLive
  <2> QED
    BY <2>6
<1>5. CASE RecvCloses(r)
  BY <1>0, <1>1, <1>5, CloseFrees DEF RecvCloses
<1> QED
  BY <1>3, <1>4, <1>5

LEMMA SendFrees ==
    ASSUME IInv, NEW c \in ConnIds, Live(c), SendSome \/ SendAll \/ SendFails,
           conns'[c].st # "live"
    PROVE  sock' = CloseFds(sock, FdsOf(c))
<1>1. Sending
  BY DEF SendSome, SendAll, SendFails
<1>2. PICK d, side : d = SendTo.conn /\ side = SendTo.side
  OBVIOUS
<1>3. Types /\ d \in ConnIds /\ Live(d) /\ side \in Sides
  BY <1>1, <1>2, AtSending
<1>4. \/ \E m : close_connection(m, d)
      \/ \E b, pos : conns' = SentConns(conns, d, side, b, pos)
  <2>1. CASE SendFails
    BY <1>2, <2>1 DEF SendFails
  <2>2. CASE SendAll
    <3>1. \/ close_connection(mgr, d)
          \/ conns' = [conns EXCEPT ![d].buf[side] = EmptyBuf, ![d].netnacl[side].send_buf_pos = 0]
      BY <1>2, <2>2 DEF SendAll
    <3>2. SentConns(conns, d, side, EmptyBuf, 0) =
            [conns EXCEPT ![d].buf[side] = EmptyBuf, ![d].netnacl[side].send_buf_pos = 0]
      BY Zenon DEF SentConns
    <3> QED
      BY <3>1, <3>2
  <2>3. CASE SendSome
    <3>1. PICK n, pos : conns' = [conns EXCEPT ![d].buf[side] = Advance(@, n),
                                               ![d].netnacl[side].send_buf_pos = pos]
      BY <1>2, <2>3, Zenon DEF SendSome
    <3>2. PICK b : b = Advance(conns[d].buf[side], n)
      OBVIOUS
    <3>3. conns \in [ConnIds -> ConnType]
      BY <1>3 DEF Types
    <3>4. conns' = SentConns(conns, d, side, b, pos)
      BY <1>3, <3>1, <3>2, <3>3 DEF SentConns, ConnType
    <3> QED
      BY <3>4
  <2> QED
    BY <2>1, <2>2, <2>3
<1>5. CASE \E m : close_connection(m, d)
  BY <1>3, <1>5, CloseFrees
<1>6. CASE \E b, pos : conns' = SentConns(conns, d, side, b, pos)
  <2>1. PICK b, pos : conns' = SentConns(conns, d, side, b, pos)
    BY <1>6
  <2>2. PICK k : k = SentConn(conns[d], side, b, pos)
    OBVIOUS
  <2>3. conns \in [ConnIds -> ConnType] /\ conns[d] \in ConnType
    BY <1>3 DEF Types
  <2>4. conns' = [conns EXCEPT ![d] = k]
    BY <1>3, <2>1, <2>2, <2>3, ConnsSent
  <2>5. k.st = conns[d].st
    BY <2>2, <2>3 DEF SentConn, ConnType
  <2> QED
    BY <1>3, <2>4, <2>5, KeptLive
<1> QED
  BY <1>4, <1>5, <1>6

LEMMA OpenFrees ==
    ASSUME IInv, NEW c \in ConnIds, Live(c), conns'[c].st # "live",
           PendingConnectFails \/ PendingConnectSucceeds \/ HandshakeHup \/ Handshake \/ ConnHup
    PROVE  sock' = CloseFds(sock, FdsOf(c))
<1>1. CASE PendingConnectFails \/ PendingConnectSucceeds
  <2>0. Types /\ Structure /\ At("pending_connect_callback")
    BY <1>1 DEF IInv, PendingConnectFails, PendingConnectSucceeds, At, Dispatching
  <2>1. PICK d : d = Conn
    OBVIOUS
  <2>2. d \in ConnIds /\ conns[d] \in ConnType
    BY <2>0, <2>1, AtConnection DEF Handlers, Types
  <2>3. \/ \E m : close_connection(m, d)
        \/ \E ref : conns' = [conns EXCEPT ![d].ref = ref]
    BY <1>1, <2>1, Zenon DEF PendingConnectFails, PendingConnectSucceeds
  <2>4. ASSUME NEW ref, conns' = [conns EXCEPT ![d].ref = ref] PROVE FALSE
    <3>1. PICK k : k = [conns[d] EXCEPT !.ref = ref]
      OBVIOUS
    <3>2. k.st = conns[d].st /\ conns' = [conns EXCEPT ![d] = k]
      BY <2>2, <2>4, <3>1 DEF ConnType
    <3> QED
      BY <2>0, <3>2, KeptLive
  <2> QED
    BY <2>0, <2>2, <2>3, <2>4, CloseFrees
<1>2. CASE HandshakeHup \/ Handshake
  <2>0. Types /\ Structure /\ At("handshake_callback")
    BY <1>2 DEF IInv, HandshakeHup, Handshake, At, Dispatching
  <2>1. PICK d, side : d = Conn /\ side = SideOf(Conn, Fd)
    OBVIOUS
  <2>2. d \in ConnIds /\ conns[d] \in ConnType
    BY <2>0, <2>1, AtServing DEF Types
  <2>3. \/ \E m : close_connection(m, d)
        \/ \E nn : conns' = [conns EXCEPT ![d].netnacl[side] = nn]
    BY <1>2, <2>1, Zenon DEF HandshakeHup, Handshake
  <2>4. ASSUME NEW nn, conns' = [conns EXCEPT ![d].netnacl[side] = nn] PROVE FALSE
    <3>1. PICK k : k = [conns[d] EXCEPT !.netnacl[side] = nn]
      OBVIOUS
    <3>2. k.st = conns[d].st /\ conns' = [conns EXCEPT ![d] = k]
      BY <2>2, <2>4, <3>1 DEF ConnType
    <3> QED
      BY <2>0, <3>2, KeptLive
  <2> QED
    BY <2>0, <2>2, <2>3, <2>4, CloseFrees
<1>3. CASE ConnHup
  <2>0. Types /\ Structure /\ At("conn_callback")
    BY <1>3 DEF IInv, ConnHup, At, Dispatching
  <2>1. Conn \in ConnIds
    BY <2>0, AtServing
  <2>2. close_connection(mgr, Conn)
    BY <1>3 DEF ConnHup, Live
  <2> QED
    BY <2>0, <2>1, <2>2, CloseFrees
<1> QED
  BY <1>1, <1>2, <1>3

LEMMA FreesSockets ==
    ASSUME IInv, [Next]_vars, NEW c \in ConnIds, Live(c), conns'[c].st # "live", pc' # "done"
    PROVE  sock' = CloseFds(sock, FdsOf(c))
<1>1. conns' # conns
  BY DEF Live
<1>2. Callback
  BY <1>1 DEF Next, System, Environment, main, Teardown, proxy_run, LoopStep, SignalArrives,
              ListenerFails, Peer, vars, proxyVars
<1> QED
  BY <1>2, AcceptFreesNone, OpenFrees, RecvFrees, SendFrees DEF Callback

\* Whatever path gives a connection up while the loop runs, its sockets are
\* closed and none of its elements stays in the table.
THEOREM GivenUp == Spec => GivenUpIsClosed
<1> USE SideFacts
<1>1. ASSUME IInv, IInv', [Next]_vars, NEW c \in ConnIds, Live(c), conns'[c].st = "freed",
             pc' # "done"
      PROVE  /\ \A f \in FdSet : sock'[f].peer.conn # c
             /\ \A i \in Scanned(mgr') : mgr'.events[i].data # c
  <2>0. sock' = CloseFds(sock, FdsOf(c))
    BY <1>1, FreesSockets
  <2>1. Types /\ Structure /\ Structure'
    <3>1. pc # "done"
      <4>1. pc = "done" => conns' = conns \/ pc' = "done"
        BY <1>1 DEF Next, System, Environment, main, Teardown, proxy_run, LoopStep,
                    SignalArrives, ListenerFails, Peer, vars, proxyVars, Callback,
                    AcceptAborted, AcceptFails, AcceptSetupFails, AcceptThenConnectFails,
                    AcceptThenConnect, PendingConnectFails, PendingConnectSucceeds,
                    HandshakeHup, Handshake, ConnHup, RecvHeld, handle_recv, SendSome, SendAll,
                    SendFails, Accepting, Receiving, AtConn, Sending, At, Dispatching
      <4> QED
        BY <1>1, <4>1 DEF Live
    <3> QED
      BY <1>1, <3>1 DEF IInv
  <2>2. ASSUME NEW f \in FdSet, sock'[f].peer.conn = c PROVE FALSE
    <3>1. sock'[f] = Closed \/ (f \notin FdsOf(c) /\ sock'[f] = sock[f])
      BY <2>0 DEF CloseFds
    <3>2. sock[f].peer.conn = c => f \in FdsOf(c)
      BY <1>1, <2>1, LiveConn
    <3> QED
      BY <2>2, <3>1, <3>2, ConstTypes
  <2>3. ASSUME NEW i \in Scanned(mgr'), mgr'.events[i].data = c PROVE FALSE
    <3>1. Sound(mgr') /\ c # NULL
      BY <2>1 DEF Structure
    <3>2. i \in Used(mgr')
      BY <2>3, <3>1 DEF Sound
    <3>3. PICK f : f = mgr'.pfds[i].fd
      OBVIOUS
    <3>4. f \in Watched(mgr') /\ DataAt(mgr', f) = c
      BY <2>3, <3>1, <3>2, <3>3, SlotIs DEF DataAt
    <3>5. Owners(mgr', conns', listen_fd')
      BY <2>1 DEF Structure
    <3>6. conns'[c].st = "live"
      BY <3>1, <3>4, <3>5 DEF Owners
    <3> QED
      BY <1>1, <3>6
  <2> QED
    BY <2>2, <2>3
<1>2. IInv /\ IInv' /\ [Next]_vars =>
        [\A c \in ConnIds : Live(c) /\ conns'[c].st = "freed" /\ pc' # "done" =>
           /\ \A f \in FdSet : sock'[f].peer.conn # c
           /\ \A i \in Scanned(mgr') : mgr'.events[i].data # c]_vars
  BY <1>1
<1> QED
  BY <1>2, Inductive, PTL DEF Spec, GivenUpIsClosed

-----------------------------------------------------------------------------
(* How the process ends.                                                   *)

\* The codes with which a callback may end the loop.
LoopCodes == {PROXY_SUCCESS, PROXY_ERR, PROXY_MAX_EVENTS}

\* Once the loop has ended with another code than these two the flag was
\* cleared, and main has reported success only behind the end of the loop.
EndInv ==
    /\ pc \in {"returned", "done"} => ret \in {PROXY_ERR, PROXY_MAX_EVENTS} \/ ~run_flag
    /\ status = EXIT_SUCCESS => pc = "done" /\ ret # PROXY_ERR

LEMMA TableCodes ==
    ASSUME NEW m, NEW f, NEW mask, NEW data, NEW callback
    PROVE  /\ event_add(m, f, mask, data, callback).err \in LoopCodes
           /\ event_modify(m, f, mask).err \in LoopCodes
BY DEF event_add, event_modify, LoopCodes

LEMMA AddEventsCodes ==
    ASSUME NEW m, NEW c, NEW fd PROVE add_connection_events(m, c, fd).err \in LoopCodes
<1>1. \A n, side, f : AddSide(n, c, side, f).err \in LoopCodes
  BY TableCodes DEF AddSide
<1>2. PICK one : one = AddSide(m, c, "client", fd["client"])
  OBVIOUS
<1>3. PICK two : two = AddSide(one.mgr, c, "server", fd["server"])
  OBVIOUS
<1>4. /\ add_connection_events(m, c, fd).err \in {one.err, two.err, PROXY_SUCCESS}
  BY <1>2, <1>3 DEF add_connection_events
<1>5. one.err \in LoopCodes /\ two.err \in LoopCodes /\ PROXY_SUCCESS \in LoopCodes
  BY <1>1, <1>2, <1>3 DEF LoopCodes
<1> QED
  BY <1>4, <1>5

LEMMA WrapCodes ==
    ASSUME NEW c, NEW side, NEW f, NEW nn, NEW s, NEW w \in DoWrap(nn, s), NEW r,
           r = AfterWrap(w.err, c, side, f)
    PROVE  r.err \in LoopCodes
<1>0. NN_SUCCESS = 0 /\ NN_ERR = -1 /\ NN_WANT_READ = -3 /\ NN_WANT_WRITE = -2 /\ PROXY_ERR = -1
  BY DEF NN_SUCCESS, NN_ERR, NN_WANT_READ, NN_WANT_WRITE, PROXY_ERR
<1>1. \A x, y : RecvKey(x, y).err \in {NN_SUCCESS, NN_ERR, NN_WANT_READ}
  BY DEF RecvKey
<1>2. SendKey(nn, s).err \in {NN_SUCCESS, NN_ERR, NN_WANT_WRITE}
  BY DEF SendKey
<1>3. netnacl_wrap(nn, s).err \in {NN_SUCCESS, NN_ERR, NN_WANT_READ, NN_WANT_WRITE}
  BY <1>1, <1>2 DEF netnacl_wrap
<1>4. w.err \in {NN_SUCCESS, NN_ERR, NN_WANT_READ, NN_WANT_WRITE}
  <2>1. w = netnacl_wrap(nn, s) \/ w = [err |-> PROXY_ERR, nn |-> nn, s |-> s]
    BY DEF DoWrap
  <2> QED
    BY <1>0, <1>3, <2>1
<1>5. PICK err : err = w.err
  OBVIOUS
<1>6. CASE err = NN_SUCCESS
  BY <1>5, <1>6, TableCodes DEF AfterWrap
<1>7. CASE err \in {NN_WANT_READ, NN_WANT_WRITE}
  BY <1>0, <1>5, <1>7, TableCodes DEF AfterWrap
<1>8. CASE err = NN_ERR
  <2>1. r = [mgr |-> mgr, err |-> err]
    BY <1>0, <1>5, <1>8 DEF AfterWrap
  <2> QED
    BY <1>0, <1>8, <2>1 DEF LoopCodes
<1> QED
  BY <1>4, <1>5, <1>6, <1>7, <1>8

\* A callback goes on to handle_send or ends with one of these codes.
LEMMA CallbackCodes ==
    ASSUME Callback
    PROVE  /\ pc \in {"dispatch", "send"} /\ run_flag' = run_flag
           /\ pc' = "send" \/ \E err \in LoopCodes : NextSlot(err)
<1> USE CodesTyped
<1>a. PROXY_SUCCESS \in LoopCodes /\ PROXY_ERR \in LoopCodes
  BY DEF LoopCodes
<1>0. ASSUME NEW err \in LoopCodes PROVE AcceptCode(err) \in LoopCodes
  BY DEF AcceptCode, LoopCodes
<1>1. CASE AcceptAborted \/ AcceptSetupFails \/ AcceptThenConnectFails
  BY <1>a, <1>0, <1>1 DEF AcceptAborted, AcceptSetupFails, AcceptThenConnectFails, AcceptCode,
                          Accepting, At, Dispatching
<1>2. CASE AcceptFails
  <2>1. \A errno : AcceptErr(errno) \in {PROXY_INCOMPLETE_ACCEPT, PROXY_ERR}
    BY DEF AcceptErr
  <2>2. \A errno : AcceptCode(AcceptErr(errno)) \in LoopCodes
    BY <2>1 DEF AcceptCode, LoopCodes
  <2>3. PICK errno : NextSlot(AcceptCode(AcceptErr(errno)))
    BY <1>2 DEF AcceptFails
  <2> QED
    BY <1>2, <2>2, <2>3 DEF AcceptFails, Accepting, At, Dispatching
<1>3. CASE AcceptThenConnect
  <2>1. PICK err : err \in LoopCodes /\ NextSlot(AcceptCode(err))
    <3>1. \E result, c, cf, sf, r :
            /\ r = IF result = "pending"
                     THEN event_add(mgr, sf, {"POLLOUT"}, c, "pending_connect_callback")
                     ELSE add_connection_events(mgr, c, [client |-> cf, server |-> sf])
            /\ NextSlot(AcceptCode(r.err))
      BY <1>3, Zenon DEF AcceptThenConnect
    <3> QED
      BY <3>1, TableCodes, AddEventsCodes
  <2> QED
    BY <1>0, <1>3, <2>1 DEF AcceptThenConnect, Accepting, At, Dispatching
<1>4. CASE PendingConnectFails \/ HandshakeHup \/ ConnHup
  BY <1>a, <1>4 DEF PendingConnectFails, HandshakeHup, ConnHup, At, Dispatching
<1>5. CASE PendingConnectSucceeds
  <2>1. PICK r, m, c, fd : r = add_connection_events(m, c, fd) /\ NextSlot(r.err)
    BY <1>5 DEF PendingConnectSucceeds
  <2> QED
    BY <1>5, <2>1, AddEventsCodes DEF PendingConnectSucceeds, At, Dispatching
<1>6. CASE Handshake
  <2>1. PICK nn, s, c, side, f, w, r :
          /\ w \in DoWrap(nn, s) /\ r = AfterWrap(w.err, c, side, f)
          /\ NextSlot(IF r.err = NN_ERR THEN PROXY_SUCCESS ELSE r.err)
    BY <1>6, Zenon DEF Handshake
  <2>2. r.err \in LoopCodes
    BY <2>1, WrapCodes
  <2>3. PICK err : err = IF r.err = NN_ERR THEN PROXY_SUCCESS ELSE r.err
    OBVIOUS
  <2>4. err \in LoopCodes /\ NextSlot(err)
    BY <1>a, <2>1, <2>2, <2>3
  <2> QED
    BY <1>6, <2>4 DEF Handshake, At, Dispatching
<1>7. ASSUME NEW err \in LoopCodes \cup {PROXY_DISCONNECT}, AfterRecv(err)
      PROVE  pc' = "send" \/ \E e \in LoopCodes : NextSlot(e)
  BY <1>a, <1>7 DEF AfterRecv
<1>8. CASE RecvHeld
  BY <1>a, <1>7, <1>8 DEF RecvHeld, Receiving, AtConn, At, Dispatching
<1>9. CASE handle_recv
  <2>0. pc = "dispatch" /\ run_flag' = run_flag
    BY <1>9 DEF handle_recv, Receiving, AtConn, At, Dispatching
  <2>1. PICK nn, s, r : /\ r \in buf_recv(nn, s)
                        /\ RecvNothing(r) \/ RecvData(r) \/ RecvCloses(r)
    BY <1>9, Zenon DEF handle_recv
  <2>2. CASE RecvNothing(r)
    BY <1>a, <1>7, <2>0, <2>2 DEF RecvNothing
  <2>3. CASE RecvData(r)
    <3>1. PICK mod, m, f, mask : mod = event_modify(m, f, mask) /\ AfterRecv(mod.err)
      BY <2>3, Zenon DEF RecvData
    <3> QED
      BY <1>7, <2>0, <3>1, TableCodes
  <2>4. CASE RecvCloses(r)
    <3>1. r.err \in {PROXY_SUCCESS, PROXY_ERR, PROXY_DISCONNECT, PROXY_WOULD_BLOCK}
      <4>1. PICK k : r = Received(Read(nn, s, k), s, k)
        BY <2>1 DEF buf_recv
      <4>2. PICK n : r.err = RecvCode(s, n)
        BY <4>1 DEF Received
      <4> QED
        BY <4>2 DEF RecvCode
    <3>2. PICK err : err = (IF GotData(r) THEN PROXY_DISCONNECT ELSE r.err) /\ AfterRecv(err)
      BY <2>4 DEF RecvCloses
    <3>3. err \in LoopCodes \cup {PROXY_DISCONNECT}
      BY <2>4, <3>1, <3>2 DEF RecvCloses, GotData, LoopCodes
    <3> QED
      BY <1>7, <2>0, <3>2, <3>3
  <2> QED
    BY <2>1, <2>2, <2>3, <2>4
<1>10. CASE SendSome \/ SendAll \/ SendFails
  <2>1. pc \in {"dispatch", "send"} /\ run_flag' = run_flag
    BY <1>10 DEF SendSome, SendAll, SendFails, Sending, AtConn, At, Dispatching
  <2>2. CASE SendSome
    BY <1>a, <2>1, <2>2 DEF SendSome
  <2>3. CASE SendAll
    <3>1. NextSlot(PROXY_SUCCESS) \/ \E r, m, f, mask : r = event_modify(m, f, mask) /\ NextSlot(r.err)
      BY <2>3, Zenon DEF SendAll
    <3> QED
      BY <1>a, <2>1, <3>1, TableCodes
  <2>4. CASE SendFails
    <3>1. PICK err : /\ err \in {PROXY_DISCONNECT, PROXY_ERR}
                     /\ NextSlot(IF err = PROXY_DISCONNECT THEN PROXY_SUCCESS ELSE err)
      BY <2>4 DEF SendFails
    <3> QED
      BY <1>a, <2>1, <3>1
  <2> QED
    BY <1>10, <2>2, <2>3, <2>4
<1> QED
  BY <1>1, <1>2, <1>3, <1>4, <1>5, <1>6, <1>8, <1>9, <1>10 DEF Callback

LEMMA EndKeeps == ASSUME EndInv, [Next]_vars PROVE EndInv'
<1> USE CodesTyped
<1>1. CASE main
  BY <1>1 DEF main, ReadCommandLine, loopVars, EndInv, EXIT_SUCCESS, EXIT_FAILURE
<1>2. CASE Teardown
  BY <1>2 DEF Teardown, EndInv, ExitStatus, EXIT_SUCCESS, EXIT_FAILURE
<1>3. CASE proxy_run /\ UNCHANGED mainVars
  BY <1>3 DEF proxy_run, mainVars, EndInv, EXIT_SUCCESS
<1>4. CASE (LoopStep \/ SignalArrives) /\ UNCHANGED mainVars
  BY <1>4 DEF LoopStep, SignalArrives, CheckFlag, SkipSlot, EndRound, PollReturns, PollFails,
              Signal, PollInterrupted, NextSlot, mainVars, EndInv
<1>5. CASE Callback /\ UNCHANGED mainVars
  BY <1>5, CallbackCodes DEF NextSlot, LoopCodes, mainVars, EndInv
<1>6. CASE UNCHANGED <<loopVars, mainVars>>
  BY <1>6 DEF loopVars, mainVars, EndInv
<1> QED
  BY <1>1, <1>2, <1>3, <1>4, <1>5, <1>6
     DEF Next, System, Environment, Peer, ListenerFails, vars

\* Of all the codes that end the loop without a signal, PROXY_MAX_EVENTS of a
\* pending connect that completes on a full table is the only one that main
\* reports as success, because it tests for PROXY_ERR alone (the run exit_status
\* reaches it); a refused connect, a failed handshake, a lost listener, a failed
\* poll() or a lack of memory is never reported as success.
THEOREM Success ==
    Spec => [](status = EXIT_SUCCESS => ~run_flag \/ ret = PROXY_MAX_EVENTS)
<1>1. Init => EndInv
  BY DEF Init, CommandLineInit, LoopInit, EndInv, EXIT_SUCCESS
<1>2. EndInv /\ [Next]_vars => EndInv'
  BY EndKeeps
<1>3. EndInv => (status = EXIT_SUCCESS => ~run_flag \/ ret = PROXY_MAX_EVENTS)
  BY DEF EndInv
<1> QED
  BY <1>1, <1>2, <1>3, PTL DEF Spec
=============================================================================
