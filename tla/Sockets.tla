------------------------------- MODULE Sockets -------------------------------
(***************************************************************************)
(* External: the TCP sockets of the proxy and the peers behind them, as    *)
(* src/proxy.c, src/buf.c and src/network.c use them.                      *)
(*                                                                         *)
(* A socket is known by its descriptor.  It holds what has arrived and not *)
(* been read (rx), whether a FIN follows it, the error that ended the      *)
(* connection, and the room left in its send buffer.  The bytes a peer     *)
(* sends are numbered 1, 2, ...; the peer of an encrypted side speaks      *)
(* netnacl and sends its public key first, as byte 0.  ends are the        *)
(* positions in rx where a read may stop: behind any byte of a plain       *)
(* connection, behind a message of an encrypted one.  Messages are shown   *)
(* as their plaintext, and arrive whole, as MessageChannel allows (NetNaCl *)
(* implements it).                                                         *)
(***************************************************************************)
EXTENDS CommandLine, Integers, Sequences

CONSTANTS MaxClients,   \* bound: clients that ever connect
          MaxFd,        \* largest descriptor (RLIMIT_NOFILE)
          NN_MAX_MESSAGE_LEN,  \* bytes in a netnacl message (4096 in netnacl.h)
          TxCap,        \* capacity of a kernel send buffer
          Bytes,        \* bound: bytes each peer sends, per side
          PeerFaults    \* what ends a connection: "eof", "reset", "timeout"

Sides == {"client", "server"}

ASSUME SocketsAssumption ==
    /\ MaxClients \in Nat /\ MaxFd \in Nat /\ TxCap \in Nat \ {0}
    /\ NN_MAX_MESSAGE_LEN \in Nat \ {0}
    /\ Bytes \in [Sides -> Nat]
    /\ PeerFaults \subseteq {"eof", "reset", "timeout"}

VARIABLES sock,      \* the sockets, by descriptor
          arrived,   \* clients that have connected to the listener
          accepted,  \* clients accept() has returned
          sent,      \* bytes each peer has sent, keys not counted
          got        \* bytes handed to the kernel for each peer

peerVars == <<arrived, accepted, sent, got>>
sockVars == <<sock, peerVars>>

ConnIds == 1 .. MaxClients
FdSet == 0 .. MaxFd
Key == 0
Other(side) == IF side = "client" THEN "server" ELSE "client"

NoPeer == [conn |-> 0, side |-> "none"]
Closed == [st |-> "closed", rx |-> << >>, ends |-> {}, eof |-> FALSE, err |-> "none",
           room |-> 0, keyed |-> FALSE, hello |-> FALSE, peer |-> NoPeer]
NewSock(st, c, side) ==
    [Closed EXCEPT !.st = st, !.room = TxCap, !.peer = [conn |-> c, side |-> side]]

SockType ==
    [st : {"closed", "stdin", "listen", "connecting", "failed", "open"},
     rx : Seq(Nat), ends : SUBSET Nat, eof : BOOLEAN, err : {"none", "reset", "timeout"},
     room : 0 .. TxCap, keyed : BOOLEAN, hello : BOOLEAN,
     peer : [conn : ConnIds, side : Sides] \cup {NoPeer}]

\* Descriptors that are free; POSIX hands out the lowest.
FreeFds(s) == {f \in FdSet : s[f].st = "closed"}
CloseFds(s, F) == [f \in FdSet |-> IF f \in F THEN Closed ELSE s[f]]

SocketsInit ==
    /\ sock = [f \in FdSet |-> IF f = 0 THEN [Closed EXCEPT !.st = "stdin"] ELSE Closed]
    /\ arrived = 0
    /\ accepted = 0
    /\ sent = [c \in ConnIds |-> [side \in Sides |-> 0]]
    /\ got = [c \in ConnIds |-> [side \in Sides |-> << >>]]

\* Bytes arrive, as one message or byte; the first n bytes are read.
Arrive(s, bytes) ==
    [s EXCEPT !.rx = @ \o bytes, !.ends = @ \cup {Len(s.rx) + Len(bytes)}]
Consume(s, n) ==
    [s EXCEPT !.rx = SubSeq(@, n + 1, Len(@)), !.ends = {e - n : e \in {e \in @ : e > n}}]

-----------------------------------------------------------------------------
(* What the peers and the network do.                                      *)

Healthy(f) == sock[f].st = "open" /\ sock[f].err = "none"
UpdateSock(f, s) == sock' = [sock EXCEPT ![f] = s]

ClientConnects(f) ==
    /\ sock[f].st = "listen"
    /\ arrived < MaxClients
    /\ arrived' = arrived + 1
    /\ UNCHANGED <<sock, accepted, sent, got>>

\* The key of a peer that speaks netnacl.
PeerSendsKey(f) ==
    /\ Healthy(f) /\ ~sock[f].eof /\ ~sock[f].hello
    /\ Encrypted(sock[f].peer.side)
    /\ UpdateSock(f, [Arrive(sock[f], <<Key>>) EXCEPT !.hello = TRUE])
    /\ UNCHANGED peerVars

\* A byte; or, from a peer that has exchanged keys, a message.
PeerSends(f) ==
    /\ Healthy(f) /\ ~sock[f].eof
    /\ LET c == sock[f].peer.conn
           side == sock[f].peer.side
       IN  /\ Encrypted(side) => sock[f].hello /\ sock[f].keyed
           /\ \E n \in 1 .. (IF Encrypted(side) THEN NN_MAX_MESSAGE_LEN ELSE 1) :
                /\ sent[c][side] + n <= Bytes[side]
                /\ sent' = [sent EXCEPT ![c][side] = @ + n]
                /\ UpdateSock(f, Arrive(sock[f], [i \in 1 .. n |-> sent[c][side] + i]))
    /\ UNCHANGED <<arrived, accepted, got>>

\* FIN: the peer shut down its sending direction, or closed.
PeerCloses(f) ==
    /\ "eof" \in PeerFaults
    /\ Healthy(f) /\ ~sock[f].eof
    /\ UpdateSock(f, [sock[f] EXCEPT !.eof = TRUE])
    /\ UNCHANGED peerVars

\* RST or a transmission timeout ends the connection in both directions.
PeerFails(f) ==
    /\ Healthy(f)
    /\ \E e \in PeerFaults \ {"eof"} : UpdateSock(f, [sock[f] EXCEPT !.err = e])
    /\ UNCHANGED peerVars

\* The peer reads, so the send buffer drains.
PeerReads(f) ==
    /\ Healthy(f) /\ sock[f].room < TxCap
    /\ UpdateSock(f, [sock[f] EXCEPT !.room = TxCap])
    /\ UNCHANGED peerVars

\* A connect() in progress completes, one way or the other.
ConnectSettles(f) ==
    /\ sock[f].st = "connecting"
    /\ \E st \in {"open", "failed"} : UpdateSock(f, [sock[f] EXCEPT !.st = st])
    /\ UNCHANGED peerVars

PeerStep(f) ==
    \/ ClientConnects(f) \/ PeerSendsKey(f) \/ PeerSends(f) \/ PeerCloses(f)
    \/ PeerFails(f) \/ PeerReads(f) \/ ConnectSettles(f)

-----------------------------------------------------------------------------
(* What poll() sees on a descriptor.                                       *)

ErrorReport(s) == IF s.err # "none" THEN {"POLLERR", "POLLHUP"} ELSE {}

Condition(f) ==
    LET s == sock[f]
        in == s.rx # << >> \/ s.eof \/ s.err # "none"
        out == s.room > 0 \/ s.err # "none"
    IN  CASE s.st = "listen" -> (IF accepted < arrived THEN {"POLLIN"} ELSE {}) \cup ErrorReport(s)
          [] s.st = "open"   -> (IF in THEN {"POLLIN"} ELSE {})
                                \cup (IF out THEN {"POLLOUT"} ELSE {}) \cup ErrorReport(s)
          [] s.st = "failed" -> {"POLLOUT", "POLLERR", "POLLHUP"}
          [] s.st = "closed" -> {"POLLNVAL"}
          [] OTHER -> {}
=============================================================================
