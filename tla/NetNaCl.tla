------------------------------ MODULE NetNaCl ------------------------------
(***************************************************************************)
(* src/netnacl/src/netnacl.c: two ends that exchange public keys and then  *)
(* framed, encrypted messages over one TCP connection, each called by its  *)
(* process the way do_handshake, buf_send and buf_recv call it.            *)
(*                                                                         *)
(* A call of netnacl_wrap, netnacl_send or netnacl_recv is one action.     *)
(* The kernel takes a part of what is sent and shows a part of what is     *)
(* under way, so every loop of the code ends early at every place.         *)
(*                                                                         *)
(* A byte on the wire is the message it belongs to and its position there. *)
(* A message is its plaintext (byte numbers of its sender), its nonce and  *)
(* the key it is boxed with; a public key is a message without plaintext.  *)
(***************************************************************************)
EXTENDS Errors, FiniteSets, Sequences

CONSTANTS crypto_box_PUBLICKEYBYTES,  \* 32
          crypto_box_ZEROBYTES,       \* 32
          sizeof_hdr,                 \* sizeof(hdr_t): 26
          sizeof_len,                 \* of its length field: 2
          NN_MAX_MESSAGE_LEN,         \* 4096
          BUF_SIZ,                    \* the caller's buffers: 16348
          Window,    \* bytes the kernel holds for each direction
          Bytes,     \* bound: plaintext bytes each end sends
          MaxKeys,   \* bound: key pairs an end generates
          DamagedLens,  \* bound: what a damaged length field may say
          Faults     \* "close", "urandom", "corrupt"

UINT16_MAX == 65535
Ends == {"A", "B"}
Peer(e) == IF e = "A" THEN "B" ELSE "A"

\* Both ends send a whole key before they read, so a direction must hold one;
\* a whole message must be countable in the 16 bits of send_buf_len.
ASSUME NetNaClAssumption ==
    /\ crypto_box_PUBLICKEYBYTES \in Nat \ {0} /\ crypto_box_ZEROBYTES \in Nat
    /\ sizeof_hdr \in Nat \ {0} /\ NN_MAX_MESSAGE_LEN \in Nat \ {0}
    /\ sizeof_len \in 1 .. sizeof_hdr
    /\ DamagedLens \subseteq 0 .. UINT16_MAX /\ DamagedLens # {}
    /\ sizeof_hdr + crypto_box_ZEROBYTES + NN_MAX_MESSAGE_LEN <= UINT16_MAX
    /\ BUF_SIZ \in Nat \ {0} /\ MaxKeys \in Nat \ {0}
    /\ Window \in Nat /\ Window >= crypto_box_PUBLICKEYBYTES
    /\ Bytes \in [Ends -> Nat]
    /\ Faults \subseteq {"close", "urandom", "corrupt"}

VARIABLES nn,       \* the netnacl_t of each end
          wire,     \* bytes an end has sent and the other has not read
          st,       \* "wrap", "data", and how it ended: "eof", "closed", "exited",
                    \* or "overrun": recv_ct was left, what follows is undefined
          sent,     \* plaintext bytes netnacl_send has reported as sent
          size,     \* end of the buffer buf_send is sending (sent = size: none)
          space,    \* room left in the buffer buf_recv is filling (0: no call)
          got,      \* plaintext netnacl_recv has returned
          eagain    \* errno is EAGAIN, left by the last call that would block

vars == <<nn, wire, st, sent, size, space, got, eagain>>
callerVars == <<sent, size, space, got>>

MIN(a, b) == IF a < b THEN a ELSE b

FrameLen(m) ==
    IF m.pt = << >> THEN crypto_box_PUBLICKEYBYTES
    ELSE sizeof_hdr + crypto_box_ZEROBYTES + Len(m.pt)
Frame(m) == [i \in 1 .. FrameLen(m) |-> [msg |-> m, pos |-> i, ok |-> TRUE]]

\* The public key an end generated in its g-th crypto_box_keypair.
KeyMessage(e, g) == [pt |-> << >>, nonce |-> 0, keys |-> {<<e, g>>}]

\* calloc() in netnacl_create.  The counters of received bytes are the lengths
\* of what was received; len is recv_hdr.len in host order; send_buf_len is the
\* length of send_buf; nonces numbers the nonces drawn, no two of which are the
\* same.
netnacl_create ==
    [pk |-> 0, key_bytes_sent |-> 0, peer_pk |-> << >>, sym_key |-> {},
     recv_hdr |-> << >>, len |-> 0, recv_ct |-> << >>, recv_pt |-> << >>, recv_pt_pos |-> 0,
     send_buf |-> << >>, send_buf_pos |-> 0, nonces |-> 0]

Init ==
    /\ nn = [e \in Ends |-> netnacl_create]
    /\ wire = [e \in Ends |-> << >>]
    /\ st = [e \in Ends |-> "wrap"]
    /\ sent = [e \in Ends |-> 0]
    /\ size = [e \in Ends |-> 0]
    /\ space = [e \in Ends |-> 0]
    /\ got = [e \in Ends |-> << >>]
    /\ eagain = [e \in Ends |-> FALSE]

-----------------------------------------------------------------------------
(* The connection, as send(), recv() and poll() show it.                   *)

Gone(e) == st[e] \notin {"wrap", "data"}
Incoming(e) == wire[Peer(e)]
Room(e) == Window - Len(wire[e])
Readable(e) == Incoming(e) # << >> \/ Gone(Peer(e))

\* How much a loop of send() gets rid of; how much of what is under way has
\* arrived when a loop of recv() looks, least bytes at least.
Taken(e, want) == IF Room(e) = 0 THEN {0} ELSE 1 .. MIN(Room(e), want)
Arrived(e, least) == MIN(least, Len(Incoming(e))) .. Len(Incoming(e))

\* recv() returns 0: the peer has closed, and all it sent has been read.
AtEnd(e, arrived) == Gone(Peer(e)) /\ arrived = Len(Incoming(e))

\* End e sends and reads: out follows on its wire, in goes from its peer's.
Transfer(e, out, in) ==
    wire' = [wire EXCEPT ![e] = @ \o out,
                         ![Peer(e)] = SubSeq(@, in + 1, Len(@))]

-----------------------------------------------------------------------------
(* Key exchange.                                                           *)

\* Mutant of crypto_box_keypair: a new pair in every call.
crypto_box_keypair_EachCall(n) == [n EXCEPT !.pk = @ + 1]

\* A key pair, as long as nothing of the last one was sent.
crypto_box_keypair(n) == IF n.key_bytes_sent = 0 THEN [n EXCEPT !.pk = @ + 1] ELSE n

\* The key both ends compute from the one's secret and the other's public key.
crypto_box_beforenm(e, n) ==
    {<<e, n.pk>>} \cup UNION {n.peer_pk[i].msg.keys : i \in DOMAIN n.peer_pk}

\* What remains of the public key goes out; the first send() of a new pair may
\* take nothing, which leads to another pair.
KeyTaken(e, n) ==
    Taken(e, crypto_box_PUBLICKEYBYTES - n.key_bytes_sent)
      \cup (IF n.key_bytes_sent = 0 /\ n.pk < MaxKeys THEN {0} ELSE {})

\* Mutant of KeyReceived: a part received by an earlier call is forgotten.
KeyReceived_Forgets(n, bytes) == bytes
KeyReceived(n, bytes) == n.peer_pk \o bytes

\* netnacl_wrap and what do_handshake makes of it: our key, and once it is out
\* the peer's, each as far as it goes without blocking.
netnacl_wrap(e) ==
    /\ st[e] = "wrap"
    /\ nn[e].key_bytes_sent = crypto_box_PUBLICKEYBYTES => Readable(e)
    /\ LET pair == crypto_box_keypair(nn[e])
           full == crypto_box_PUBLICKEYBYTES
       IN  \E k \in IF pair.key_bytes_sent = full THEN {0} ELSE KeyTaken(e, pair) :
             LET out == [pair EXCEPT !.key_bytes_sent = @ + k]
                 bytes == SubSeq(Frame(KeyMessage(e, pair.pk)),
                                 pair.key_bytes_sent + 1, out.key_bytes_sent)
             IN  \/ /\ out.key_bytes_sent < full
                    /\ nn' = [nn EXCEPT ![e] = out]
                    /\ Transfer(e, bytes, 0)
                    /\ eagain' = [eagain EXCEPT ![e] = TRUE]
                    /\ UNCHANGED st
                 \/ /\ out.key_bytes_sent = full
                    /\ \E a \in Arrived(e, IF k = 0 THEN 1 ELSE 0) :
                         LET in  == MIN(full - Len(out.peer_pk), a)
                             key == KeyReceived(out, SubSeq(Incoming(e), 1, in))
                             keyed == [out EXCEPT !.peer_pk = key]
                             done == Len(key) = full
                         IN  /\ nn' = [nn EXCEPT ![e] =
                                  IF done THEN [keyed EXCEPT !.sym_key = crypto_box_beforenm(e, keyed)]
                                          ELSE keyed]
                             /\ Transfer(e, bytes, in)
                             /\ st' = [st EXCEPT ![e] =
                                  IF done THEN "data" ELSE IF AtEnd(e, a) THEN "closed" ELSE @]
                             /\ eagain' = [eagain EXCEPT ![e] = @ \/ ~(done \/ AtEnd(e, a))]
    /\ UNCHANGED callerVars

-----------------------------------------------------------------------------
(* Sending.                                                                *)

\* A new buffer for buf_send.
NewBuffer(e) ==
    /\ st[e] = "data" /\ sent[e] = size[e]
    /\ \E n \in 1 .. MIN(BUF_SIZ, Bytes[e] - sent[e]) : size' = [size EXCEPT ![e] = @ + n]
    /\ UNCHANGED <<nn, wire, st, sent, space, got, eagain>>

\* Mutant of pt_len: the limit is forgotten.
pt_len_Unlimited(len) == len
pt_len(len) == MIN(len, NN_MAX_MESSAGE_LEN)

\* encrypt_plaintext: the plaintext that follows byte number pos.
encrypt_plaintext(n, pos, len) ==
    [n EXCEPT !.nonces = @ + 1,
              !.send_buf = Frame([pt |-> [i \in 1 .. pt_len(len) |-> pos + i],
                                  nonce |-> n.nonces + 1, keys |-> n.sym_key])]

\* Mutant of Prepared: every call encrypts anew.
Prepared_EachCall(n, pos, len) == encrypt_plaintext(n, pos, len)

\* The message being sent; a call that finds none encrypts one.
Prepared(n, pos, len) == IF n.send_buf = << >> THEN encrypt_plaintext(n, pos, len) ELSE n

\* The context after k more bytes of the message were sent.
send_ciphertext(n, k) ==
    IF n.send_buf_pos + k = Len(n.send_buf)
      THEN [n EXCEPT !.send_buf = << >>, !.send_buf_pos = 0]
      ELSE [n EXCEPT !.send_buf_pos = @ + k]

\* netnacl_send, once per iteration of buf_send and again when the socket has
\* room: the message is reported when all of it is sent.
netnacl_send(e) ==
    /\ st[e] = "data" /\ sent[e] < size[e]
    /\ nn[e].send_buf # << >> => Room(e) > 0
    /\ LET len == size[e] - sent[e]
           n == Prepared(nn[e], sent[e], len)
       IN  \E k \in Taken(e, Len(n.send_buf) - n.send_buf_pos) :
             LET whole == n.send_buf_pos + k = Len(n.send_buf)
             IN  /\ Transfer(e, SubSeq(n.send_buf, n.send_buf_pos + 1, n.send_buf_pos + k), 0)
                 /\ nn' = [nn EXCEPT ![e] = send_ciphertext(n, k)]
                 /\ sent' = [sent EXCEPT ![e] = IF whole THEN @ + pt_len(len) ELSE @]
                 /\ eagain' = [eagain EXCEPT ![e] = @ \/ ~whole]
    /\ UNCHANGED <<st, size, space, got>>

-----------------------------------------------------------------------------
(* Receiving.                                                              *)

\* ntohs(recv_hdr.len): what encrypt_plaintext put in the header this one
\* begins with, or any 16 bits if they were damaged on the way.
SentLen(hdr) == crypto_box_ZEROBYTES + Len(hdr[1].msg.pt)
LenIntact(hdr) == \A i \in 1 .. sizeof_len : hdr[i].ok
ntohs(hdr) == IF LenIntact(hdr) THEN {SentLen(hdr)} ELSE DamagedLens

\* recv_hdr, then recv_ciphertext: how many bytes of each the call reads of
\* those that have arrived.
HdrIn(n, arrived) == MIN(sizeof_hdr - Len(n.recv_hdr), arrived)
Header(n, bytes) == n.recv_hdr \o SubSeq(bytes, 1, HdrIn(n, Len(bytes)))
\* (The length is converted by the call that completes the header.)
Lengths(n, hdr) ==
    IF Len(n.recv_hdr) < sizeof_hdr /\ Len(hdr) = sizeof_hdr THEN ntohs(hdr) ELSE {n.len}
CtIn(n, hdr, len, arrived) ==
    IF Len(hdr) < sizeof_hdr THEN 0
    ELSE MIN(len - Len(n.recv_ct), arrived - HdrIn(n, arrived))
Gather(n, bytes, len) ==
    LET hdr == Header(n, bytes)
        h == HdrIn(n, Len(bytes))
    IN  [n EXCEPT !.recv_hdr = hdr, !.len = len,
                  !.recv_ct = @ \o SubSeq(bytes, h + 1, h + CtIn(n, hdr, len, Len(bytes)))]

Whole(n) == Len(n.recv_hdr) = sizeof_hdr /\ Len(n.recv_ct) = n.len

\* recv_ct holds a message of the largest size; the length is not compared with
\* that before or while it is filled.
recv_ct_size == crypto_box_ZEROBYTES + NN_MAX_MESSAGE_LEN
Overrun(n) == Len(n.recv_ct) > recv_ct_size

\* External: the box opens if it is one message, undamaged, under our key.
crypto_box_open_afternm(n) ==
    /\ n.recv_hdr \o n.recv_ct = Frame(n.recv_hdr[1].msg)
    /\ n.recv_hdr[1].msg.keys = n.sym_key

decrypt_ciphertext(n) ==
    IF Whole(n) /\ n.recv_pt = << >> /\ crypto_box_open_afternm(n)
      THEN [n EXCEPT !.recv_pt = n.recv_hdr[1].msg.pt] ELSE n

\* copy_plaintext_to_buffer: what is copied, and the context after it.  (Mutant:
\* the state is reset although not all was copied.)
ReadSize(n, len) == MIN(Len(n.recv_pt) - n.recv_pt_pos, len)
Reset(n) ==
    [n EXCEPT !.recv_hdr = << >>, !.len = 0, !.recv_ct = << >>,
              !.recv_pt = << >>, !.recv_pt_pos = 0]
AfterCopy_DropsRest(n, len) == Reset(n)
AfterCopy(n, len) ==
    IF n.recv_pt_pos + ReadSize(n, len) = Len(n.recv_pt)
      THEN Reset(n) ELSE [n EXCEPT !.recv_pt_pos = @ + ReadSize(n, len)]

\* netnacl_recv's code, when it is not a number of bytes.
RecvCode(e, n, arrived) ==
    IF Whole(n) THEN NN_CRYPTO_ERR
    ELSE IF AtEnd(e, arrived) THEN NN_DISCONNECT ELSE NN_WANT_READ

\* buf_recv leaves the loop on a code: it looks at errno, and it may be old.
GivenUp(e, code) ==
    CASE code = NN_DISCONNECT -> "eof"
      [] code = NN_CRYPTO_ERR /\ ~eagain[e] -> "closed"
      [] OTHER -> "data"

\* netnacl_recv, called by buf_recv when poll() reports data and then until
\* the buffer is full or a call returns no bytes.  A call that leaves recv_ct
\* is not followed any further.
netnacl_recv(e) ==
    /\ st[e] = "data"
    /\ space[e] > 0 \/ Readable(e)
    /\ LET len == IF space[e] > 0 THEN space[e] ELSE BUF_SIZ
       IN  \E a \in Arrived(e, IF space[e] > 0 THEN 0 ELSE 1) :
           LET bytes == SubSeq(Incoming(e), 1, a)
               hdr == Header(nn[e], bytes)
           IN  \E hlen \in Lengths(nn[e], hdr) :
             LET in == HdrIn(nn[e], a) + CtIn(nn[e], hdr, hlen, a)
                 g == Gather(nn[e], bytes, hlen)
                 n == decrypt_ciphertext(g)
                 code == RecvCode(e, n, a)
             IN  /\ Transfer(e, << >>, in)
                 /\ \/ /\ Overrun(g)
                       /\ nn' = [nn EXCEPT ![e] = g]
                       /\ st' = [st EXCEPT ![e] = "overrun"]
                       /\ UNCHANGED <<space, got, eagain>>
                    \/ /\ ~Overrun(g) /\ n.recv_pt # << >>
                       /\ nn' = [nn EXCEPT ![e] = AfterCopy(n, len)]
                       /\ got' = [got EXCEPT ![e] =
                            @ \o SubSeq(n.recv_pt, n.recv_pt_pos + 1, n.recv_pt_pos + ReadSize(n, len))]
                       /\ space' = [space EXCEPT ![e] = len - ReadSize(n, len)]
                       /\ UNCHANGED <<st, eagain>>
                    \/ /\ ~Overrun(g) /\ n.recv_pt = << >>
                       /\ nn' = [nn EXCEPT ![e] = n]
                       /\ st' = [st EXCEPT ![e] = GivenUp(e, code)]
                       /\ space' = [space EXCEPT ![e] = 0]
                       /\ eagain' = [eagain EXCEPT ![e] = @ \/ code = NN_WANT_READ]
                       /\ UNCHANGED got
    /\ UNCHANGED <<sent, size>>

-----------------------------------------------------------------------------
(* Faults.                                                                 *)

\* randombytes goes on to /dev/urandom although getrandom() has filled the
\* buffer, and ends the process when that cannot be opened or read: for a key
\* pair or for a nonce.
randombytes(e) ==
    /\ "urandom" \in Faults
    /\ \/ st[e] = "wrap" /\ nn[e].key_bytes_sent = 0
       \/ st[e] = "data" /\ sent[e] < size[e] /\ nn[e].send_buf = << >>
    /\ st' = [st EXCEPT ![e] = "exited"]
    /\ UNCHANGED <<nn, wire, callerVars, eagain>>

\* An end gives the connection up: send() or recv() fails because the other
\* end is gone, or the proxy closes it for a reason of its own.  What the
\* kernel has taken still arrives, then a FIN.
Close(e) ==
    /\ ~Gone(e)
    /\ Gone(Peer(e)) \/ "close" \in Faults
    /\ st' = [st EXCEPT ![e] = "closed"]
    /\ UNCHANGED <<nn, wire, callerVars, eagain>>

\* A byte of a message, of its header or of its box, is damaged on the way.
\* (Keys are not: netnacl_wrap takes any bytes for a public key, and of what
\* follows nothing can then be said.)
Corrupt(e) ==
    /\ "corrupt" \in Faults
    /\ \E i \in DOMAIN wire[e] :
         /\ wire[e][i].msg.pt # << >> /\ wire[e][i].ok
         /\ wire' = [wire EXCEPT ![e][i].ok = FALSE]
    /\ UNCHANGED <<nn, st, callerVars, eagain>>

Call(e) == netnacl_wrap(e) \/ NewBuffer(e) \/ netnacl_send(e) \/ netnacl_recv(e)

Next == \E e \in Ends : Call(e) \/ randombytes(e) \/ Close(e) \/ Corrupt(e)

Spec == Init /\ [][Next]_vars

\* Both processes run, and their poll loops call do_handshake when they can.
Fairness == \A e \in Ends : WF_vars(netnacl_wrap(e))

FairSpec == Spec /\ Fairness

-----------------------------------------------------------------------------
(* Properties.                                                             *)

States == {"wrap", "data", "eof", "closed", "exited", "overrun"}
Keys == SUBSET (Ends \X Nat)
Message == [pt : Seq(Nat), nonce : Nat, keys : Keys]
Byte == [msg : Message, pos : Nat, ok : BOOLEAN]
Context ==
    [pk : Nat, key_bytes_sent : 0 .. crypto_box_PUBLICKEYBYTES,
     peer_pk : Seq(Byte), sym_key : Keys,
     recv_hdr : Seq(Byte), len : 0 .. UINT16_MAX, recv_ct : Seq(Byte),
     recv_pt : Seq(Nat), recv_pt_pos : 0 .. UINT16_MAX,
     send_buf : Seq(Byte), send_buf_pos : 0 .. UINT16_MAX, nonces : Nat]

\* Bytes that arrive as they were sent.
Intact(bytes) == \A i \in DOMAIN bytes : bytes[i].ok

\* Bytes of messages that are no longer than they may be.
Sound(bytes) == \A i \in DOMAIN bytes : Len(bytes[i].msg.pt) <= NN_MAX_MESSAGE_LEN

\* No more is read than recv_hdr.len says, and that is what the sender put
\* there unless it was damaged.
HeaderFits(n) ==
    /\ Len(n.recv_hdr) <= sizeof_hdr
    /\ n.recv_ct # << >> => Len(n.recv_hdr) = sizeof_hdr
    /\ Len(n.recv_hdr) = sizeof_hdr => Len(n.recv_ct) <= n.len
    /\ Len(n.recv_hdr) = sizeof_hdr /\ LenIntact(n.recv_hdr) => n.len = SentLen(n.recv_hdr)

\* What a netnacl_t holds fits the arrays it declares, recv_ct left aside.
Fits(n) ==
    /\ Len(n.peer_pk) <= crypto_box_PUBLICKEYBYTES
    /\ HeaderFits(n) /\ Sound(n.recv_hdr)
    /\ Len(n.recv_pt) <= NN_MAX_MESSAGE_LEN
    /\ n.recv_pt_pos <= Len(n.recv_pt)
    /\ Len(n.send_buf) <= sizeof_hdr + crypto_box_ZEROBYTES + NN_MAX_MESSAGE_LEN
    /\ n.send_buf_pos <= Len(n.send_buf) /\ Sound(n.send_buf)

\* The 16-bit lengths and positions do not wrap and the asserts of netnacl_recv,
\* copy_plaintext_to_buffer and send_ciphertext hold, whatever a damaged header
\* says: key, header, plaintext and the message being sent stay in the arrays of
\* struct netnacl_t, and so does the ciphertext of an end that is not "overrun".
TypeOK ==
    /\ st \in [Ends -> States]
    /\ sent \in [Ends -> Nat] /\ size \in [Ends -> Nat] /\ space \in [Ends -> 0 .. BUF_SIZ]
    /\ got \in [Ends -> Seq(Nat)] /\ eagain \in [Ends -> BOOLEAN]
    /\ wire \in [Ends -> Seq(Byte)] /\ nn \in [Ends -> Context]
    /\ \A e \in Ends : Len(wire[e]) <= Window /\ Sound(wire[e]) /\ Fits(nn[e])
    /\ \A e \in Ends : st[e] = "overrun" <=> Overrun(nn[e])

\* recv_ciphertext leaves recv_ct only when the length field of a header was
\* damaged on the way: between two ends that run netnacl_send over a connection
\* that delivers what was sent, no way the kernel cuts up keys, headers and boxes,
\* and no call that resumes one, does it.  (Nothing in the code compares the
\* length with the array, so a damaged one does.)
OverrunOnlyByDamage ==
    \A e \in Ends : st[e] = "overrun" => ~LenIntact(nn[e].recv_hdr)

\* Two ends that have finished netnacl_wrap hold the same key, however their
\* keys were cut up on the way and however often one was generated anew
\* (netnacl_wrap generates a pair in every call until a byte of it is sent).
KeysAgree ==
    nn["A"].sym_key # {} /\ nn["B"].sym_key # {} => nn["A"].sym_key = nn["B"].sym_key

\* A complete message fails to decrypt only if it was damaged on the way: the
\* parts of header and ciphertext kept between calls on either side, and a
\* message continued after NN_WANT_WRITE, always make up one box
\* (netnacl_send encrypts only when send_buf is empty, netnacl_recv resets its
\* counts only when all was copied).
OnlyDamageFails ==
    \A e \in Ends : Whole(nn[e]) /\ nn[e].recv_pt = << >> =>
      ~Intact(nn[e].recv_hdr) \/ ~Intact(nn[e].recv_ct)

\* netnacl_wrap ends, one way or the other: two ends never wait for each
\* other's keys (both send before they receive).
KeyExchangeEnds == \A e \in Ends : st[e] = "wrap" ~> st[e] # "wrap"

\* netnacl gives its callers the channel of MessageChannel.  A message is in
\* the queue from the moment its last byte is sent until it is decrypted, if it
\* and all before it are intact.
Underway(e) ==
    LET n == nn[Peer(e)]
    IN  (IF n.recv_pt = << >> THEN n.recv_hdr \o n.recv_ct ELSE << >>) \o wire[e]
Unopened(e) ==
    LET stream == Underway(e)
        good == {i \in DOMAIN stream : \A j \in 1 .. i : stream[j].ok}
        last == SelectSeq(SubSeq(stream, 1, Cardinality(good)),
                          LAMBDA b : b.msg.pt # << >> /\ b.pos = FrameLen(b.msg))
    IN  [i \in DOMAIN last |-> last[i].msg.pt]

ChannelState ==
    [wrap |-> "new", data |-> "up", eof |-> "eof",
     closed |-> "down", exited |-> "down", overrun |-> "down"]

Channel == INSTANCE MessageChannel WITH
    MaxMessage <- NN_MAX_MESSAGE_LEN,
    state <- [e \in Ends |-> ChannelState[st[e]]],
    queue <- [e \in Ends |-> Unopened(e)],
    spoiled <- [e \in Ends |-> ~Intact(Underway(e))],
    rest <- [e \in Ends |-> SubSeq(nn[e].recv_pt, nn[e].recv_pt_pos + 1, Len(nn[e].recv_pt))]

\* What the two ends do, in all the parts the kernel makes of it, is what
\* MessageChannel allows: messages arrive whole, once, in order and before the
\* end of the connection is reported; a damaged one is never delivered, and
\* nothing behind it is.
ImplementsChannel == Channel!Spec

\* src/buf.c:83, of buf_recv: "PROXY_ERR on error", where netnacl.h:67 has
\* "NN_ERR or NN_CRYPTO_ERR on error".  An end that has met a message that
\* does not decrypt gives the connection up.
BadMessageEnds == \A e \in Ends : Whole(nn[e]) /\ nn[e].recv_pt = << >> => Gone(e)
=============================================================================
