------------------------- MODULE NetNaClStreamProofs -------------------------
(***************************************************************************)
(* The two ends of a netnacl connection compute the same key, and a        *)
(* message that does not decrypt was damaged on the way, however the       *)
(* kernel cuts up what is sent.                                            *)
(*                                                                         *)
(* The argument is about the stream of one direction: what the receiver    *)
(* holds of it, what is under way, and what the sender still has to send   *)
(* of the key or of the message it has begun.  Every send() and every      *)
(* recv() moves a boundary inside the stream and leaves the stream itself  *)
(* alone; encrypting appends one whole frame; a key or a message that is   *)
(* complete drops one whole frame.  So the stream is a sequence of whole   *)
(* frames at all times, the key first.                                     *)
(***************************************************************************)
EXTENDS NetNaClProofs

\* What the receiver with context r holds of a frame it has not completed.
HeadOf(r) ==
    IF Len(r.peer_pk) < crypto_box_PUBLICKEYBYTES THEN r.peer_pk
    ELSE IF r.recv_pt = << >> THEN r.recv_hdr \o r.recv_ct ELSE << >>

\* What the sender s with context c has not sent yet.
TailOf(s, c) ==
    IF c.key_bytes_sent < crypto_box_PUBLICKEYBYTES
      THEN SubSeq(Frame(KeyMessage(s, c.pk)), c.key_bytes_sent + 1,
                  crypto_box_PUBLICKEYBYTES)
      ELSE SubSeq(c.send_buf, c.send_buf_pos + 1, Len(c.send_buf))

StreamOf(s, c, w, r) == (HeadOf(r) \o w) \o TailOf(s, c)

\* T consists of whole frames.
Framed(T) ==
    /\ Len(T) > 0 => T[1].pos = 1
    /\ \A i \in 1 .. Len(T) : T[i].pos = 1 =>
         /\ i + FrameLen(T[i].msg) - 1 <= Len(T)
         /\ \A k \in 1 .. FrameLen(T[i].msg) :
              T[i + k - 1].msg = T[i].msg /\ T[i + k - 1].pos = k
         /\ i + FrameLen(T[i].msg) <= Len(T) => T[i + FrameLen(T[i].msg)].pos = 1

\* A byte is as it was sent unless it belongs to a message, and the messages
\* are boxed with the sender's key.
ByteInv(b, key) ==
    /\ b.ok \/ b.msg.pt # << >>
    /\ b.msg.pt # << >> => b.msg.keys = key /\ key # {}

\* The stream T of a sender with symmetric key sym and public key (as a message)
\* pub, of which the receiver has got pk.
StreamOK(T, sym, pub, pk) ==
    /\ Framed(T)
    /\ \A i \in 1 .. Len(T) : ByteInv(T[i], sym)
    /\ Len(pk) < crypto_box_PUBLICKEYBYTES =>
         /\ Len(T) > 0 /\ T[1].msg = pub
         /\ \A i \in 1 .. Len(T) : i > crypto_box_PUBLICKEYBYTES => T[i].msg.pt # << >>
    /\ Len(pk) = crypto_box_PUBLICKEYBYTES =>
         /\ pk = Frame(pub)
         /\ \A i \in 1 .. Len(T) : T[i].msg.pt # << >>

\* One direction of the connection.
Link(s, c, w, r) ==
    /\ StreamOK(StreamOf(s, c, w, r), c.sym_key, KeyMessage(s, c.pk), r.peer_pk)
    /\ c.key_bytes_sent < crypto_box_PUBLICKEYBYTES =>
         Len(r.peer_pk) + Len(w) = c.key_bytes_sent

\* The symmetric key is there exactly when the peer's key is complete, which is
\* when messages may be exchanged.
KeyedWell(c) ==
    /\ c.sym_key = {} <=> Len(c.peer_pk) < crypto_box_PUBLICKEYBYTES
    /\ c.sym_key = {} => /\ c.recv_hdr = << >> /\ c.recv_ct = << >>
                         /\ c.recv_pt = << >> /\ c.send_buf = << >>
    /\ c.sym_key # {} => c.key_bytes_sent = crypto_box_PUBLICKEYBYTES
    /\ c.recv_pt # << >> => Whole(c)

-----------------------------------------------------------------------------
(* Sequences of frames.                                                    *)

\* The length of a frame is a number, and no frame is empty.
LEMMA FrameLenPos ==
    ASSUME NEW b \in Byte
    PROVE  FrameLen(b.msg) \in Nat /\ FrameLen(b.msg) > 0 /\ b.pos \in Nat
<1>1. b.msg.pt \in Seq(Nat) /\ b.pos \in Nat
  BY DEF Byte, Message
<1>2. Len(b.msg.pt) \in Nat
  BY <1>1, LenProperties
<1> DEFINE l == Len(b.msg.pt)
<1>3. FrameLen(b.msg) = IF b.msg.pt = << >> THEN crypto_box_PUBLICKEYBYTES
                        ELSE sizeof_hdr + crypto_box_ZEROBYTES + l
  BY DEF FrameLen
<1>4. \A x \in Nat : /\ sizeof_hdr + crypto_box_ZEROBYTES + x \in Nat
                     /\ sizeof_hdr + crypto_box_ZEROBYTES + x > 0
  BY Sizes
<1>5. crypto_box_PUBLICKEYBYTES \in Nat /\ crypto_box_PUBLICKEYBYTES > 0
  BY NetNaClAssumption
<1>6. l \in Nat
  BY <1>2
<1> HIDE DEF l
<1> QED
  BY <1>1, <1>3, <1>4, <1>5, <1>6

\* The bytes of a frame, whose message is typed.
LEMMA FrameAt ==
    ASSUME NEW m \in Message
    PROVE  /\ FrameLen(m) \in Nat /\ FrameLen(m) > 0
           /\ Frame(m) \in Seq(Byte) /\ Len(Frame(m)) = FrameLen(m)
           /\ \A i \in 1 .. FrameLen(m) : Frame(m)[i] = [msg |-> m, pos |-> i, ok |-> TRUE]
<1> DEFINE b == [msg |-> m, pos |-> 1, ok |-> TRUE]
           l == FrameLen(m)
<1>1. b \in Byte /\ b.msg = m
  BY DEF Byte
<1>2. l \in Nat /\ l > 0
  BY <1>1, FrameLenPos
<1>3. Frame(m) = [i \in 1 .. l |-> [msg |-> m, pos |-> i, ok |-> TRUE]]
  BY DEF Frame
<1> HIDE DEF l
<1>4. \A i \in 1 .. l : [msg |-> m, pos |-> i, ok |-> TRUE] \in Byte
  BY <1>2 DEF Byte
<1>5. Frame(m) \in Seq(Byte) /\ Len(Frame(m)) = l
  BY <1>2, <1>3, <1>4
<1> QED
  BY <1>2, <1>3, <1>5 DEF l

\* A key frame.
LEMMA KeyFrame ==
    ASSUME NEW s \in Ends, NEW g \in Nat
    PROVE  LET k == KeyMessage(s, g)
           IN  /\ k \in Message /\ k.pt = << >> /\ k.keys = {<<s, g>>}
               /\ FrameLen(k) = crypto_box_PUBLICKEYBYTES
               /\ Frame(k) \in Seq(Byte) /\ Len(Frame(k)) = crypto_box_PUBLICKEYBYTES
<1> DEFINE k == KeyMessage(s, g)
<1>1. k \in Message /\ k.pt = << >> /\ k.keys = {<<s, g>>}
  BY DEF KeyMessage, Message, Keys
<1>2. FrameLen(k) = crypto_box_PUBLICKEYBYTES
  BY <1>1 DEF FrameLen
<1> HIDE DEF k
<1>3. Frame(k) \in Seq(Byte) /\ Len(Frame(k)) = crypto_box_PUBLICKEYBYTES
  BY <1>1, <1>2, FrameAt
<1> QED
  BY <1>1, <1>2, <1>3 DEF k

\* A concatenation, byte by byte.
LEMMA ConcatAt ==
    ASSUME NEW s \in Seq(Byte), NEW t \in Seq(Byte)
    PROVE  /\ s \o t \in Seq(Byte)
           /\ Len(s) \in Nat /\ Len(t) \in Nat /\ Len(s \o t) = Len(s) + Len(t)
           /\ \A i \in 1 .. Len(s) : (s \o t)[i] = s[i] /\ s[i] \in Byte
           /\ \A i \in 1 .. Len(t) : (s \o t)[Len(s) + i] = t[i] /\ t[i] \in Byte
<1>1. /\ s \o t \in Seq(Byte)
      /\ Len(s \o t) = Len(s) + Len(t)
      /\ \A i \in 1 .. Len(s) + Len(t) : (s \o t)[i] = IF i <= Len(s) THEN s[i] ELSE t[i - Len(s)]
  BY ConcatProperties
<1>2. /\ Len(s) \in Nat /\ Len(t) \in Nat
      /\ \A i \in 1 .. Len(s) : s[i] \in Byte
      /\ \A i \in 1 .. Len(t) : t[i] \in Byte
  BY LenProperties
<1> DEFINE n == Len(s)
           m == Len(t)
           u == s \o t
<1>3. /\ n \in Nat /\ m \in Nat
      /\ \A i \in 1 .. n + m : u[i] = IF i <= n THEN s[i] ELSE t[i - n]
  BY <1>1, <1>2
<1> HIDE DEF n, m, u
<1>4. \A i \in 1 .. n : u[i] = s[i]
  BY <1>3
<1>5. \A i \in 1 .. m : u[n + i] = t[i]
  <2> SUFFICES ASSUME NEW i \in 1 .. m PROVE u[n + i] = t[i]
    OBVIOUS
  <2>1. n + i \in 1 .. n + m /\ ~(n + i <= n) /\ (n + i) - n = i
    BY <1>3
  <2>2. u[n + i] = IF n + i <= n THEN s[n + i] ELSE t[(n + i) - n]
    BY <1>3, <2>1
  <2> QED
    BY <2>1, <2>2
<1> QED
  BY <1>1, <1>2, <1>4, <1>5 DEF n, m, u

\* Encrypting: a whole frame behind whole frames.
LEMMA FramedAppend ==
    ASSUME NEW T \in Seq(Byte), Framed(T), NEW m \in Message
    PROVE  Framed(T \o Frame(m))
<1> DEFINE F == Frame(m)
           U == T \o F
           l == FrameLen(m)
<1>a. /\ l \in Nat /\ l > 0 /\ F \in Seq(Byte) /\ Len(F) = l
      /\ \A i \in 1 .. l : F[i] = [msg |-> m, pos |-> i, ok |-> TRUE]
  BY FrameAt
<1> HIDE DEF F, l
<1>1. /\ l \in Nat /\ l > 0 /\ F \in Seq(Byte) /\ Len(F) = l
      /\ \A i \in 1 .. l : F[i].msg = m /\ F[i].pos = i
  BY <1>a
<1>2. Len(T) \in Nat /\ \A i \in 1 .. Len(T) : T[i] \in Byte
  BY LenProperties
<1>3. /\ Len(U) = Len(T) + l
      /\ \A i \in 1 .. Len(T) : U[i] = T[i]
      /\ \A i \in 1 .. l : U[Len(T) + i] = F[i]
  BY <1>1, ConcatAt
<1> DEFINE n == Len(T)
<1>4. n \in Nat /\ n = Len(T)
  BY <1>2
<1>5. \A i \in 1 .. n : FrameLen(T[i].msg) \in Nat /\ FrameLen(T[i].msg) > 0
  BY <1>2, FrameLenPos
<1> HIDE DEF U, n
<1>6. Len(U) > 0 => U[1].pos = 1
  <2>1. CASE n = 0
    BY <1>1, <1>3, <1>4, <2>1
  <2>2. CASE n > 0
    BY <1>3, <1>4, <2>2 DEF Framed
  <2> QED
    BY <1>4, <2>1, <2>2
<1>7. ASSUME NEW i \in 1 .. Len(U), U[i].pos = 1
      PROVE  /\ i + FrameLen(U[i].msg) - 1 <= Len(U)
             /\ \A k \in 1 .. FrameLen(U[i].msg) :
                  U[i + k - 1].msg = U[i].msg /\ U[i + k - 1].pos = k
             /\ i + FrameLen(U[i].msg) <= Len(U) => U[i + FrameLen(U[i].msg)].pos = 1
  <2>1. CASE i <= n
    <3> DEFINE f == FrameLen(T[i].msg)
    <3>1. i \in 1 .. n /\ U[i] = T[i]
      BY <1>3, <1>4, <2>1
    <3>2. f \in Nat /\ f > 0
      BY <1>5, <3>1
    <3>3. /\ i + f - 1 <= n
          /\ \A k \in 1 .. f : T[i + k - 1].msg = T[i].msg /\ T[i + k - 1].pos = k
          /\ i + f <= n => T[i + f].pos = 1
      BY <1>4, <1>7, <3>1 DEF Framed
    <3> HIDE DEF f
    <3>4. \A k \in 1 .. f : U[i + k - 1] = T[i + k - 1]
      BY <1>3, <1>4, <3>1, <3>2, <3>3
    <3>5. i + f <= Len(U) => U[i + f].pos = 1
      <4>1. CASE i + f <= n
        BY <1>3, <1>4, <3>1, <3>2, <3>3, <4>1
      <4>2. CASE i + f = n + 1
        BY <1>1, <1>3, <1>4, <3>1, <3>2, <4>2
      <4> QED
        BY <1>4, <3>1, <3>2, <3>3, <4>1, <4>2
    <3>6. i + f - 1 <= Len(U)
      BY <1>1, <1>3, <1>4, <3>1, <3>2, <3>3
    <3> QED
      BY <3>1, <3>3, <3>4, <3>5, <3>6 DEF f
  <2>2. CASE i > n
    <3>1. i = n + 1
      <4>1. i - n \in 1 .. l /\ i = n + (i - n)
        BY <1>1, <1>3, <1>4, <2>2
      <4>2. U[i] = F[i - n]
        BY <1>3, <1>4, <4>1
      <4>3. i - n = 1
        BY <1>1, <1>7, <4>1, <4>2
      <4> QED
        BY <1>4, <4>3
    <3>2. U[i].msg = m
      BY <1>1, <1>3, <1>4, <3>1
    <3>3. \A k \in 1 .. l : U[i + k - 1] = F[k]
      BY <1>1, <1>3, <1>4, <3>1
    <3>4. FrameLen(U[i].msg) = l
      BY <3>2 DEF l
    <3>5. i + l - 1 = Len(U) /\ ~(i + l <= Len(U))
      BY <1>1, <1>3, <1>4, <3>1
    <3> QED
      BY <1>1, <3>2, <3>3, <3>4, <3>5
  <2> QED
    BY <1>4, <2>1, <2>2
<1> QED
  BY <1>6, <1>7 DEF Framed, U, F

\* Completing a key or a message: the first frame goes as a whole.
LEMMA FramedDrop ==
    ASSUME NEW A \in Seq(Byte), NEW B \in Seq(Byte), Framed(A \o B),
           Len(A) > 0, Len(A) = FrameLen((A \o B)[1].msg)
    PROVE  Framed(B)
<1> DEFINE T == A \o B
           n == Len(A)
<1>1. /\ n \in Nat /\ n > 0 /\ Len(B) \in Nat /\ Len(T) = n + Len(B)
      /\ n = FrameLen(T[1].msg)
      /\ \A i \in 1 .. Len(B) : T[n + i] = B[i] /\ B[i] \in Byte
  BY ConcatAt
<1>2. Framed(T)
  OBVIOUS
<1> HIDE DEF T, n
<1>3. \A i \in 1 .. Len(B) : FrameLen(B[i].msg) \in Nat /\ FrameLen(B[i].msg) > 0
  BY <1>1, FrameLenPos
<1>4. Len(B) > 0 => B[1].pos = 1
  <2> SUFFICES ASSUME Len(B) > 0 PROVE B[1].pos = 1
    OBVIOUS
  <2>1. 1 \in 1 .. Len(T) /\ 1 \in 1 .. Len(B) /\ Len(T) > 0 /\ 1 + n <= Len(T)
    BY <1>1
  <2>2. T[1].pos = 1
    BY <1>2, <2>1 DEF Framed
  <2>3. T[1 + n].pos = 1
    BY <1>1, <1>2, <2>1, <2>2 DEF Framed
  <2>4. T[1 + n] = B[1]
    BY <1>1, <2>1
  <2> QED
    BY <2>3, <2>4
<1>5. ASSUME NEW i \in 1 .. Len(B), B[i].pos = 1
      PROVE  /\ i + FrameLen(B[i].msg) - 1 <= Len(B)
             /\ \A k \in 1 .. FrameLen(B[i].msg) :
                  B[i + k - 1].msg = B[i].msg /\ B[i + k - 1].pos = k
             /\ i + FrameLen(B[i].msg) <= Len(B) => B[i + FrameLen(B[i].msg)].pos = 1
  <2> DEFINE f == FrameLen(B[i].msg)
             j == n + i
  <2>1. f \in Nat /\ f > 0 /\ j \in 1 .. Len(T) /\ T[j] = B[i]
    BY <1>1, <1>3
  <2>2. /\ j + f - 1 <= Len(T)
        /\ \A k \in 1 .. f : T[j + k - 1].msg = T[j].msg /\ T[j + k - 1].pos = k
        /\ j + f <= Len(T) => T[j + f].pos = 1
    BY <1>2, <1>5, <2>1 DEF Framed
  <2> HIDE DEF f
  <2>3. i + f - 1 <= Len(B)
    BY <1>1, <2>1, <2>2
  <2>4. \A k \in 1 .. f : i + k - 1 \in 1 .. Len(B) /\ j + k - 1 = n + (i + k - 1)
    <3>1. i \in Nat /\ i > 0 /\ n \in Nat /\ Len(B) \in Nat
      BY <1>1
    <3> QED
      BY <2>1, <2>3, <3>1
  <2>5. \A k \in 1 .. f : B[i + k - 1] = T[j + k - 1]
    BY <1>1, <2>4
  <2>6. i + f <= Len(B) => B[i + f].pos = 1
    <3> SUFFICES ASSUME i + f <= Len(B) PROVE B[i + f].pos = 1
      OBVIOUS
    <3>1. i + f \in 1 .. Len(B) /\ j + f = n + (i + f) /\ j + f <= Len(T)
      BY <1>1, <2>1, SMTT(40)
    <3> QED
      BY <1>1, <2>2, <3>1
  <2> QED
    BY <2>1, <2>2, <2>3, <2>5, <2>6 DEF f
<1> QED
  BY <1>4, <1>5 DEF Framed

-----------------------------------------------------------------------------
(* What may happen to a stream.                                            *)

\* The sizes the keys have.
LEMMA KeySize == crypto_box_PUBLICKEYBYTES \in Nat /\ crypto_box_PUBLICKEYBYTES > 0
BY NetNaClAssumption

\* A sender that has a key appends a message boxed with it.
LEMMA StreamAppend ==
    ASSUME NEW T \in Seq(Byte), NEW sym, NEW pub, NEW pk, StreamOK(T, sym, pub, pk),
           sym # {}, NEW m \in Message, m.pt # << >>, m.keys = sym
    PROVE  StreamOK(T \o Frame(m), sym, pub, pk)
<1> DEFINE F == Frame(m)
           U == T \o F
<1>1. /\ Len(F) > 0 /\ F \in Seq(Byte)
      /\ \A i \in 1 .. Len(F) : F[i] = [msg |-> m, pos |-> i, ok |-> TRUE]
  BY FrameAt
<1>2. Framed(U)
  BY FramedAppend DEF StreamOK
<1> HIDE DEF F
<1>3. /\ Len(T) \in Nat /\ Len(F) \in Nat /\ Len(U) = Len(T) + Len(F)
      /\ \A i \in 1 .. Len(T) : U[i] = T[i]
      /\ \A i \in 1 .. Len(F) : U[Len(T) + i] = F[i]
  BY <1>1, ConcatAt
<1> HIDE DEF U
<1>5. \A i \in 1 .. Len(U) : i > Len(T) => U[i].msg = m /\ U[i].ok
  <2> SUFFICES ASSUME NEW i \in 1 .. Len(U), i > Len(T) PROVE U[i].msg = m /\ U[i].ok
    OBVIOUS
  <2> DEFINE k == i - Len(T)
  <2>1. k \in 1 .. Len(F) /\ i = Len(T) + k
    BY <1>3
  <2> HIDE DEF k
  <2>2. U[i] = F[k]
    BY <1>3, <2>1
  <2>3. F[k] = [msg |-> m, pos |-> k, ok |-> TRUE]
    BY <1>1, <2>1
  <2> QED
    BY <2>2, <2>3
<1>6. \A i \in 1 .. Len(U) : ByteInv(U[i], sym)
  <2> SUFFICES ASSUME NEW i \in 1 .. Len(U) PROVE ByteInv(U[i], sym)
    OBVIOUS
  <2>1. CASE i \in 1 .. Len(T)
    BY <1>3, <2>1 DEF StreamOK
  <2>2. CASE i > Len(T)
    BY <1>5, <2>2 DEF ByteInv
  <2> QED
    BY <1>3, <2>1, <2>2
<1>7. Len(pk) < crypto_box_PUBLICKEYBYTES =>
         /\ Len(U) > 0 /\ U[1].msg = pub
         /\ \A i \in 1 .. Len(U) : i > crypto_box_PUBLICKEYBYTES => U[i].msg.pt # << >>
  <2> SUFFICES ASSUME Len(pk) < crypto_box_PUBLICKEYBYTES
               PROVE  /\ Len(U) > 0 /\ U[1].msg = pub
                      /\ \A i \in 1 .. Len(U) : i > crypto_box_PUBLICKEYBYTES =>
                            U[i].msg.pt # << >>
    OBVIOUS
  <2>1. /\ Len(T) > 0 /\ T[1].msg = pub
        /\ \A i \in 1 .. Len(T) : i > crypto_box_PUBLICKEYBYTES => T[i].msg.pt # << >>
    BY DEF StreamOK
  <2>2. Len(U) > 0 /\ U[1].msg = pub
    BY <1>3, <2>1
  <2>3. \A i \in 1 .. Len(U) : i > crypto_box_PUBLICKEYBYTES => U[i].msg.pt # << >>
    BY <1>3, <1>5, <2>1
  <2> QED
    BY <2>2, <2>3
<1>8. Len(pk) = crypto_box_PUBLICKEYBYTES =>
         pk = Frame(pub) /\ \A i \in 1 .. Len(U) : U[i].msg.pt # << >>
  BY <1>3, <1>5 DEF StreamOK
<1> QED
  BY <1>2, <1>6, <1>7, <1>8 DEF StreamOK, U, F

\* The receiver has completed a message.
LEMMA StreamDropMessage ==
    ASSUME NEW A \in Seq(Byte), NEW B \in Seq(Byte), NEW sym, NEW pub, NEW pk,
           StreamOK(A \o B, sym, pub, pk), Len(pk) = crypto_box_PUBLICKEYBYTES,
           Len(A) > 0, Len(A) = FrameLen((A \o B)[1].msg)
    PROVE  StreamOK(B, sym, pub, pk)
<1>1. Framed(B)
  BY FramedDrop DEF StreamOK
<1> DEFINE T == A \o B
<1>2. /\ Len(A) \in Nat /\ Len(B) \in Nat /\ Len(T) = Len(A) + Len(B)
      /\ \A i \in 1 .. Len(B) : T[Len(A) + i] = B[i]
  BY ConcatAt
<1>3. StreamOK(T, sym, pub, pk)
  OBVIOUS
<1> HIDE DEF T
<1>4. \A i \in 1 .. Len(B) : Len(A) + i \in 1 .. Len(T)
  BY <1>2
<1>5. \A i \in 1 .. Len(B) : ByteInv(B[i], sym) /\ B[i].msg.pt # << >>
  BY <1>2, <1>3, <1>4 DEF StreamOK
<1> QED
  BY <1>1, <1>3, <1>5, KeySize DEF StreamOK

\* The first frame of a stream.
LEMMA FirstFrame ==
    ASSUME NEW A \in Seq(Byte), NEW B \in Seq(Byte), Framed(A \o B), Len(A) > 0,
           Len(A) <= FrameLen((A \o B)[1].msg)
    PROVE  /\ (A \o B)[1] = A[1]
           /\ \A i \in 1 .. Len(A) : A[i].msg = A[1].msg /\ A[i].pos = i
<1> DEFINE T == A \o B
<1>1. /\ Len(A) \in Nat /\ Len(B) \in Nat /\ Len(T) = Len(A) + Len(B)
      /\ \A i \in 1 .. Len(A) : T[i] = A[i] /\ A[i] \in Byte
  BY ConcatAt
<1>2. Framed(T) /\ Len(A) <= FrameLen(T[1].msg)
  OBVIOUS
<1> HIDE DEF T
<1>3. 1 \in 1 .. Len(A) /\ 1 \in 1 .. Len(T) /\ Len(T) > 0
  BY <1>1
<1>4. T[1] = A[1]
  BY <1>1, <1>3
<1>5. FrameLen(T[1].msg) \in Nat
  BY <1>1, <1>3, <1>4, FrameLenPos
<1>6. T[1].pos = 1
  BY <1>2, <1>3 DEF Framed
<1>7. \A k \in 1 .. FrameLen(T[1].msg) : T[1 + k - 1].msg = T[1].msg /\ T[1 + k - 1].pos = k
  BY <1>2, <1>3, <1>6 DEF Framed
<1>8. \A k \in 1 .. Len(A) : k \in 1 .. FrameLen(T[1].msg) /\ 1 + k - 1 = k
  BY <1>1, <1>2, <1>5
<1>9. \A k \in 1 .. Len(A) : T[k].msg = T[1].msg /\ T[k].pos = k
  BY <1>7, <1>8
<1> QED
  BY <1>1, <1>4, <1>9 DEF T

\* The receiver has completed the key: it is the key that was sent.
LEMMA StreamDropKey ==
    ASSUME NEW A \in Seq(Byte), NEW B \in Seq(Byte), NEW sym, NEW pk,
           NEW s \in Ends, NEW g \in Nat,
           StreamOK(A \o B, sym, KeyMessage(s, g), pk),
           Len(pk) < crypto_box_PUBLICKEYBYTES, Len(A) = crypto_box_PUBLICKEYBYTES
    PROVE  A = Frame(KeyMessage(s, g)) /\ StreamOK(B, sym, KeyMessage(s, g), A)
<1> DEFINE T == A \o B
           pub == KeyMessage(s, g)
           F == Frame(pub)
<1>1. /\ Len(A) \in Nat /\ Len(B) \in Nat /\ Len(T) = Len(A) + Len(B)
      /\ \A i \in 1 .. Len(A) : T[i] = A[i] /\ A[i] \in Byte
      /\ \A i \in 1 .. Len(B) : T[Len(A) + i] = B[i]
  BY ConcatAt
<1>2. /\ pub \in Message /\ pub.pt = << >> /\ FrameLen(pub) = crypto_box_PUBLICKEYBYTES
      /\ F \in Seq(Byte) /\ Len(F) = crypto_box_PUBLICKEYBYTES
  BY KeyFrame
<1>3. \A i \in 1 .. crypto_box_PUBLICKEYBYTES : F[i] = [msg |-> pub, pos |-> i, ok |-> TRUE]
  BY <1>2, FrameAt
<1>4. /\ Framed(T) /\ Len(T) > 0 /\ T[1].msg = pub
      /\ \A i \in 1 .. Len(T) : ByteInv(T[i], sym)
      /\ \A i \in 1 .. Len(T) : i > crypto_box_PUBLICKEYBYTES => T[i].msg.pt # << >>
  BY DEF StreamOK
<1>5. T[1] = A[1] /\ \A i \in 1 .. Len(A) : A[i].msg = pub /\ A[i].pos = i
  <2>1. Len(A) > 0 /\ Len(A) <= FrameLen(T[1].msg)
    BY <1>2, <1>4, KeySize
  <2>2. T[1] = A[1] /\ \A i \in 1 .. Len(A) : A[i].msg = A[1].msg /\ A[i].pos = i
    BY <1>4, <2>1, FirstFrame
  <2> QED
    BY <1>4, <2>2
<1>6. Framed(B)
  BY <1>2, <1>4, FramedDrop, KeySize
<1> HIDE DEF T, pub, F
<1>7. \A i \in 1 .. Len(A) : A[i].ok
  <2> SUFFICES ASSUME NEW i \in 1 .. Len(A) PROVE A[i].ok
    OBVIOUS
  <2>1. i \in 1 .. Len(T) /\ T[i] = A[i]
    BY <1>1
  <2> QED
    BY <1>2, <1>4, <1>5, <2>1 DEF ByteInv
<1>8. \A i \in 1 .. Len(A) : A[i] = F[i]
  <2> SUFFICES ASSUME NEW i \in 1 .. Len(A) PROVE A[i] = F[i]
    OBVIOUS
  <2>1. /\ A[i] \in Byte /\ A[i].msg = pub /\ A[i].pos = i /\ A[i].ok
        /\ F[i] = [msg |-> pub, pos |-> i, ok |-> TRUE]
    BY <1>1, <1>3, <1>5, <1>7
  <2>2. A[i] \in [msg : Message, pos : Nat, ok : BOOLEAN]
    BY <2>1 DEF Byte
  <2>3. A[i] = [msg |-> A[i].msg, pos |-> A[i].pos, ok |-> A[i].ok]
    BY <2>2
  <2>4. A[i].ok = TRUE
    BY <2>1, <2>2
  <2> QED
    BY <2>1, <2>3, <2>4
<1>9. A = F
  BY <1>2, <1>8, SeqEqual
<1>10. \A i \in 1 .. Len(B) : ByteInv(B[i], sym) /\ B[i].msg.pt # << >>
  <2>1. \A i \in 1 .. Len(B) : /\ Len(A) + i \in 1 .. Len(T)
                               /\ Len(A) + i > crypto_box_PUBLICKEYBYTES
    BY <1>1
  <2> QED
    BY <1>1, <1>4, <2>1
<1> QED
  BY <1>6, <1>9, <1>10, KeySize DEF StreamOK, pub, F

\* Damage to messages changes neither frames nor keys.
LEMMA StreamDamage ==
    ASSUME NEW T \in Seq(Byte), NEW U \in Seq(Byte), NEW sym, NEW pub, NEW pk,
           StreamOK(T, sym, pub, pk), Len(U) = Len(T),
           \A i \in 1 .. Len(T) :
             /\ U[i].msg = T[i].msg /\ U[i].pos = T[i].pos
             /\ U[i].ok \/ U[i].ok = T[i].ok \/ T[i].msg.pt # << >>
    PROVE  StreamOK(U, sym, pub, pk)
<1>1. Len(T) \in Nat /\ \A i \in 1 .. Len(T) : T[i] \in Byte
  BY LenProperties
<1>2. \A i \in 1 .. Len(T) : FrameLen(T[i].msg) \in Nat /\ FrameLen(T[i].msg) > 0
  BY <1>1, FrameLenPos
<1>3. Framed(U)
  <2>1. Len(U) > 0 => U[1].pos = 1
    BY <1>1 DEF StreamOK, Framed
  <2>2. ASSUME NEW i \in 1 .. Len(U), U[i].pos = 1
        PROVE  /\ i + FrameLen(U[i].msg) - 1 <= Len(U)
               /\ \A k \in 1 .. FrameLen(U[i].msg) :
                    U[i + k - 1].msg = U[i].msg /\ U[i + k - 1].pos = k
               /\ i + FrameLen(U[i].msg) <= Len(U) => U[i + FrameLen(U[i].msg)].pos = 1
    <3> DEFINE f == FrameLen(T[i].msg)
    <3>1. i \in 1 .. Len(T) /\ U[i].msg = T[i].msg /\ T[i].pos = 1
      BY <2>2
    <3>2. /\ i + f - 1 <= Len(T)
          /\ \A k \in 1 .. f : T[i + k - 1].msg = T[i].msg /\ T[i + k - 1].pos = k
          /\ i + f <= Len(T) => T[i + f].pos = 1
      BY <3>1 DEF StreamOK, Framed
    <3>3. f \in Nat /\ f > 0 /\ FrameLen(U[i].msg) = f
      BY <1>2, <3>1
    <3> HIDE DEF f
    <3>4. /\ \A k \in 1 .. f : i + k - 1 \in 1 .. Len(T)
          /\ i + f <= Len(T) => i + f \in 1 .. Len(T)
      <4>1. i \in Nat /\ i > 0 /\ i + f - 1 <= Len(T)
        BY <1>1, <3>1, <3>2
      <4> QED
        BY <1>1, <3>3, <4>1
    <3> QED
      BY <3>1, <3>2, <3>3, <3>4
  <2> QED
    BY <2>1, <2>2 DEF Framed
<1>4. \A i \in 1 .. Len(U) : ByteInv(U[i], sym)
  BY DEF StreamOK, ByteInv
<1>5. Len(U) > 0 => U[1].msg = T[1].msg
  BY <1>1
<1> QED
  BY <1>3, <1>4, <1>5 DEF StreamOK

\* The stream of a sender that has sent nothing.
LEMMA KeyStream ==
    ASSUME NEW s \in Ends, NEW g \in Nat, NEW sym
    PROVE  StreamOK(Frame(KeyMessage(s, g)), sym, KeyMessage(s, g), << >>)
<1> DEFINE pub == KeyMessage(s, g)
           F == Frame(pub)
           none == << >>
<1>1. /\ pub \in Message /\ pub.pt = << >> /\ FrameLen(pub) = crypto_box_PUBLICKEYBYTES
      /\ F \in Seq(Byte) /\ Len(F) = crypto_box_PUBLICKEYBYTES
  BY KeyFrame
<1>2. \A i \in 1 .. crypto_box_PUBLICKEYBYTES : F[i] = [msg |-> pub, pos |-> i, ok |-> TRUE]
  BY <1>1, FrameAt
<1>3. none \in Seq(Byte) /\ Len(none) = 0
  BY EmptySeq
<1>4. Framed(none)
  BY <1>3 DEF Framed
<1>5. none \o F = F
  BY <1>1, ConcatEmptySeq
<1>6. Framed(F)
  BY <1>1, <1>3, <1>4, <1>5, FramedAppend
<1> HIDE DEF pub, F, none
<1>7. \A i \in 1 .. Len(F) : F[i].msg = pub /\ F[i].ok
  BY <1>1, <1>2
<1>8. \A i \in 1 .. Len(F) : ByteInv(F[i], sym)
  BY <1>1, <1>7 DEF ByteInv
<1>9. Len(F) > 0 /\ F[1].msg = pub /\ Len(none) < crypto_box_PUBLICKEYBYTES
  BY <1>1, <1>3, <1>7, KeySize
<1>10. \A i \in 1 .. Len(F) : ~(i > crypto_box_PUBLICKEYBYTES)
  BY <1>1, KeySize
<1>11. StreamOK(F, sym, pub, none)
  BY <1>3, <1>6, <1>8, <1>9, <1>10, KeySize DEF StreamOK
<1> QED
  BY <1>11 DEF pub, F, none

-----------------------------------------------------------------------------
(* What a call does to one direction.                                      *)

\* The parts of a stream are sequences of bytes.
LEMMA StreamType ==
    ASSUME NEW s \in Ends, NEW c, NEW r, GoodContext(c), GoodContext(r), NEW w \in Seq(Byte)
    PROVE  /\ HeadOf(r) \in Seq(Byte) /\ TailOf(s, c) \in Seq(Byte)
           /\ HeadOf(r) \o w \in Seq(Byte) /\ StreamOf(s, c, w, r) \in Seq(Byte)
<1>1. HeadOf(r) \in Seq(Byte)
  <2>1. r.peer_pk \in Seq(Byte) /\ r.recv_hdr \in Seq(Byte) /\ r.recv_ct \in Seq(Byte)
    BY ContextFields DEF Good
  <2>2. r.recv_hdr \o r.recv_ct \in Seq(Byte) /\ << >> \in Seq(Byte)
    BY <2>1, ConcatProperties, EmptySeq
  <2> QED
    BY <2>1, <2>2 DEF HeadOf
<1>2. TailOf(s, c) \in Seq(Byte)
  <2>1. CASE c.key_bytes_sent < crypto_box_PUBLICKEYBYTES
    <3> DEFINE F == Frame(KeyMessage(s, c.pk))
               k == c.key_bytes_sent
    <3>1. c.pk \in Nat /\ k \in Nat
      BY ContextFields, KeySize
    <3>2. F \in Seq(Byte) /\ Len(F) = crypto_box_PUBLICKEYBYTES
      BY <3>1, KeyFrame
    <3>3. TailOf(s, c) = SubSeq(F, k + 1, crypto_box_PUBLICKEYBYTES)
      BY <2>1 DEF TailOf
    <3> HIDE DEF F, k
    <3>4. \A i \in k + 1 .. crypto_box_PUBLICKEYBYTES : F[i] \in Byte
      BY <3>1, <3>2, LenProperties, KeySize
    <3> QED
      BY <3>1, <3>3, <3>4, SubSeqProperties, KeySize
  <2>2. CASE ~(c.key_bytes_sent < crypto_box_PUBLICKEYBYTES)
    <3> DEFINE F == c.send_buf
               k == c.send_buf_pos
    <3>1. F \in Seq(Byte) /\ Len(F) \in Nat /\ k \in Nat
      BY ContextFields, ContextLengths DEF Good
    <3>3. TailOf(s, c) = SubSeq(F, k + 1, Len(F))
      BY <2>2 DEF TailOf
    <3> HIDE DEF F, k
    <3>4. \A i \in k + 1 .. Len(F) : F[i] \in Byte
      BY <3>1, LenProperties
    <3> QED
      BY <3>1, <3>3, <3>4, SubSeqProperties
  <2> QED
    BY <2>1, <2>2
<1>3. HeadOf(r) \o w \in Seq(Byte)
  BY <1>1, ConcatProperties
<1>4. StreamOf(s, c, w, r) \in Seq(Byte)
  BY <1>2, <1>3, ConcatProperties DEF StreamOf
<1> QED
  BY <1>1, <1>2, <1>3, <1>4

\* A direction sees only this of the two contexts.
LEMMA SameLink ==
    ASSUME NEW s, NEW c, NEW d, NEW w, NEW r, NEW q, Link(s, c, w, r),
           d.pk = c.pk, d.key_bytes_sent = c.key_bytes_sent, d.sym_key = c.sym_key,
           d.send_buf = c.send_buf, d.send_buf_pos = c.send_buf_pos,
           q.peer_pk = r.peer_pk, q.recv_hdr = r.recv_hdr, q.recv_ct = r.recv_ct,
           q.recv_pt = r.recv_pt
    PROVE  Link(s, d, w, q)
<1>1. TailOf(s, d) = TailOf(s, c) /\ HeadOf(q) = HeadOf(r)
  BY DEF TailOf, HeadOf
<1>2. StreamOf(s, d, w, q) = StreamOf(s, c, w, r)
  BY <1>1 DEF StreamOf
<1> QED
  BY <1>2 DEF Link

\* As long as not all of a key is sent, not all of it has been received.
LEMMA LinkCount ==
    ASSUME NEW s, NEW c, NEW r, GoodContext(c), GoodContext(r),
           NEW in \in Seq(Byte), NEW v \in Seq(Byte), Link(s, c, in \o v, r)
    PROVE  /\ c.key_bytes_sent < crypto_box_PUBLICKEYBYTES =>
                /\ Len(r.peer_pk) < crypto_box_PUBLICKEYBYTES
                /\ Len(r.peer_pk) + Len(in) < crypto_box_PUBLICKEYBYTES
                /\ (Len(r.peer_pk) + Len(in)) + Len(v) = c.key_bytes_sent
           /\ ~(c.key_bytes_sent < crypto_box_PUBLICKEYBYTES) =>
                c.key_bytes_sent = crypto_box_PUBLICKEYBYTES
<1> DEFINE x == Len(r.peer_pk)
           y == Len(in)
           z == Len(v)
           n == Len(in \o v)
           k == c.key_bytes_sent
<1>1. /\ x \in Nat /\ y \in Nat /\ z \in Nat /\ n = y + z
  BY ContextLengths, ConcatAt
<1>2. k \in 0 .. crypto_box_PUBLICKEYBYTES
  BY ContextFields
<1>3. k < crypto_box_PUBLICKEYBYTES => x + n = k
  BY DEF Link
<1>4. n \in Nat
  BY ConcatProperties, LenProperties
<1> HIDE DEF x, y, z, n, k
<1>5. CASE k < crypto_box_PUBLICKEYBYTES
  <2>1. x + n = k
    BY <1>3, <1>5
  <2>2. x + y + z = k
    BY <1>1, <1>4, <2>1
  <2>3. x < crypto_box_PUBLICKEYBYTES /\ x + y < crypto_box_PUBLICKEYBYTES
    BY <1>1, <1>2, <1>5, <2>2, KeySize
  <2> QED
    BY <1>5, <2>2, <2>3 DEF x, y, z, k
<1>6. CASE ~(k < crypto_box_PUBLICKEYBYTES)
  <2>1. k = crypto_box_PUBLICKEYBYTES
    BY <1>2, <1>6, KeySize
  <2> QED
    BY <1>6, <2>1 DEF k
<1> QED
  BY <1>5, <1>6

\* Bytes change hands between the sender and the wire.
LEMMA SendStream ==
    ASSUME NEW s \in Ends, NEW d, NEW r, GoodContext(d), GoodContext(r),
           NEW w \in Seq(Byte), NEW out \in Seq(Byte)
    PROVE  StreamOf(s, d, w \o out, r) = (HeadOf(r) \o w) \o (out \o TailOf(s, d))
<1> DEFINE H == HeadOf(r)
           t == TailOf(s, d)
<1>1. H \in Seq(Byte) /\ t \in Seq(Byte) /\ H \o w \in Seq(Byte)
  BY StreamType
<1>2. StreamOf(s, d, w \o out, r) = (H \o (w \o out)) \o t
  BY DEF StreamOf
<1> HIDE DEF H, t
<1>3. H \o (w \o out) = (H \o w) \o out
  BY <1>1, ConcatAssociative, SMTT(40)
<1>4. ((H \o w) \o out) \o t = (H \o w) \o (out \o t)
  BY <1>1, ConcatAssociative, SMTT(40)
<1> QED
  BY <1>2, <1>3, <1>4 DEF H, t

\* send(): what the sender had still to send is now under way.
LEMMA SendMove ==
    ASSUME NEW s \in Ends, NEW c, NEW d, NEW r, GoodContext(c), GoodContext(d),
           GoodContext(r), NEW w \in Seq(Byte), NEW out \in Seq(Byte), Link(s, c, w, r),
           d.pk = c.pk, d.sym_key = c.sym_key, TailOf(s, c) = out \o TailOf(s, d),
           d.key_bytes_sent < crypto_box_PUBLICKEYBYTES =>
             /\ c.key_bytes_sent < crypto_box_PUBLICKEYBYTES
             /\ d.key_bytes_sent = c.key_bytes_sent + Len(out)
    PROVE  Link(s, d, w \o out, r)
<1>2. StreamOf(s, c, w, r) = (HeadOf(r) \o w) \o (out \o TailOf(s, d))
  BY DEF StreamOf
<1>3. StreamOf(s, d, w \o out, r) = (HeadOf(r) \o w) \o (out \o TailOf(s, d))
  BY SendStream
<1>4. StreamOf(s, d, w \o out, r) = StreamOf(s, c, w, r)
  BY <1>2, <1>3, Zenon
<1>5. Len(w \o out) = Len(w) + Len(out) /\ Len(w) \in Nat /\ Len(out) \in Nat
  BY ConcatAt
<1>6. d.key_bytes_sent < crypto_box_PUBLICKEYBYTES =>
        Len(r.peer_pk) + Len(w \o out) = d.key_bytes_sent
  <2> DEFINE x == Len(r.peer_pk)
             y == Len(w \o out)
  <2>1. x \in Nat /\ y = Len(w) + Len(out)
    BY <1>5, ContextLengths
  <2>2. c.key_bytes_sent < crypto_box_PUBLICKEYBYTES => x + Len(w) = c.key_bytes_sent
    BY DEF Link
  <2> HIDE DEF x, y
  <2>3. d.key_bytes_sent < crypto_box_PUBLICKEYBYTES => x + y = d.key_bytes_sent
    BY <1>5, <2>1, <2>2
  <2> QED
    BY <2>3 DEF x, y
<1> QED
  BY <1>4, <1>6 DEF Link

\* recv(): what was under way is now part of what the receiver holds.
LEMMA RecvStream ==
    ASSUME NEW s \in Ends, NEW c, NEW r, GoodContext(c), GoodContext(r),
           NEW in \in Seq(Byte), NEW v \in Seq(Byte)
    PROVE  StreamOf(s, c, in \o v, r) = (HeadOf(r) \o in) \o (v \o TailOf(s, c))
<1> DEFINE H == HeadOf(r)
           t == TailOf(s, c)
<1>1. H \in Seq(Byte) /\ t \in Seq(Byte)
  BY StreamType
<1>2. StreamOf(s, c, in \o v, r) = (H \o (in \o v)) \o t
  BY DEF StreamOf
<1> HIDE DEF H, t
<1>3. H \o in \in Seq(Byte) /\ in \o v \in Seq(Byte)
  BY <1>1, ConcatProperties
<1>4. H \o (in \o v) = (H \o in) \o v
  BY <1>1, ConcatAssociative, SMTT(40)
<1>5. ((H \o in) \o v) \o t = (H \o in) \o (v \o t)
  BY <1>1, <1>3, ConcatAssociative, SMTT(40)
<1> QED
  BY <1>2, <1>4, <1>5 DEF H, t

\* The stream, with what is about to be read apart.
LEMMA LinkStream ==
    ASSUME NEW s \in Ends, NEW c, NEW r, GoodContext(c), GoodContext(r),
           NEW in \in Seq(Byte), NEW v \in Seq(Byte), Link(s, c, in \o v, r)
    PROVE  StreamOK((HeadOf(r) \o in) \o (v \o TailOf(s, c)), c.sym_key, KeyMessage(s, c.pk), r.peer_pk)
BY RecvStream DEF Link

\* recv() of a part of a key or of a message that is not complete after it.
LEMMA RecvMove ==
    ASSUME NEW s \in Ends, NEW c, NEW r, NEW q, GoodContext(c), GoodContext(r),
           GoodContext(q), NEW in \in Seq(Byte), NEW v \in Seq(Byte),
           Link(s, c, in \o v, r), HeadOf(q) = HeadOf(r) \o in,
           \/ /\ Len(r.peer_pk) < crypto_box_PUBLICKEYBYTES
              /\ Len(q.peer_pk) < crypto_box_PUBLICKEYBYTES
           \/ /\ Len(r.peer_pk) = crypto_box_PUBLICKEYBYTES /\ q.peer_pk = r.peer_pk
    PROVE  Link(s, c, v, q)
<1> DEFINE T == StreamOf(s, c, in \o v, r)
<1>1. T = StreamOf(s, c, v, q)
  <2>1. /\ HeadOf(q) \in Seq(Byte) /\ TailOf(s, c) \in Seq(Byte)
    BY StreamType
  <2>2. StreamOf(s, c, v, q) = HeadOf(q) \o (v \o TailOf(s, c))
    BY <2>1, ConcatAssociative, SMTT(40) DEF StreamOf
  <2>3. T = (HeadOf(r) \o in) \o (v \o TailOf(s, c))
    BY RecvStream, Zenon
  <2> HIDE DEF T
  <2> QED
    BY <2>2, <2>3, Zenon
<1>2. StreamOK(T, c.sym_key, KeyMessage(s, c.pk), r.peer_pk)
  BY DEF Link
<1> HIDE DEF T
<1>3. StreamOK(T, c.sym_key, KeyMessage(s, c.pk), q.peer_pk)
  BY <1>2, KeySize, ContextLengths DEF StreamOK
<1>4. /\ Len(in \o v) = Len(in) + Len(v) /\ Len(in) \in Nat /\ Len(v) \in Nat
      /\ Len(r.peer_pk) \in Nat /\ Len(q.peer_pk) \in Nat /\ r.peer_pk \in Seq(Byte)
  BY ConcatAt, ContextLengths, ContextFields
<1>5. c.key_bytes_sent < crypto_box_PUBLICKEYBYTES => Len(q.peer_pk) + Len(v) = c.key_bytes_sent
  <2> SUFFICES ASSUME c.key_bytes_sent < crypto_box_PUBLICKEYBYTES
               PROVE  Len(q.peer_pk) + Len(v) = c.key_bytes_sent
    OBVIOUS
  <2>2. /\ Len(r.peer_pk) < crypto_box_PUBLICKEYBYTES
        /\ (Len(r.peer_pk) + Len(in)) + Len(v) = c.key_bytes_sent
    BY LinkCount
  <2>3. q.peer_pk = r.peer_pk \o in
    BY <2>2 DEF HeadOf
  <2>4. Len(q.peer_pk) = Len(r.peer_pk) + Len(in)
    BY <1>4, <2>3, ConcatProperties
  <2> QED
    BY <2>2, <2>4, Zenon
<1> QED
  BY <1>1, <1>3, <1>5 DEF Link

\* recv() of the rest of the key.
LEMMA RecvKey ==
    ASSUME NEW s \in Ends, NEW c, NEW r, NEW q, GoodContext(c), GoodContext(r),
           NEW in \in Seq(Byte), NEW v \in Seq(Byte), Link(s, c, in \o v, r),
           Len(r.peer_pk) < crypto_box_PUBLICKEYBYTES, q.peer_pk = r.peer_pk \o in,
           Len(q.peer_pk) = crypto_box_PUBLICKEYBYTES, HeadOf(q) = << >>
    PROVE  /\ Link(s, c, v, q)
           /\ c.key_bytes_sent = crypto_box_PUBLICKEYBYTES
           /\ q.peer_pk = Frame(KeyMessage(s, c.pk))
<1> DEFINE A == r.peer_pk \o in
           B == v \o TailOf(s, c)
<1>1. TailOf(s, c) \in Seq(Byte) /\ r.peer_pk \in Seq(Byte) /\ c.pk \in Nat
  BY StreamType, ContextFields
<1>2. A \in Seq(Byte) /\ B \in Seq(Byte) /\ Len(A) = crypto_box_PUBLICKEYBYTES
  BY <1>1, ConcatProperties
<1>3. HeadOf(r) = r.peer_pk
  BY DEF HeadOf
<1>4. StreamOK(A \o B, c.sym_key, KeyMessage(s, c.pk), r.peer_pk)
  <2>1. StreamOf(s, c, in \o v, r) = (HeadOf(r) \o in) \o (v \o TailOf(s, c))
    BY RecvStream
  <2> QED
    BY <1>3, <2>1, Zenon DEF Link
<1>5. A = Frame(KeyMessage(s, c.pk)) /\ StreamOK(B, c.sym_key, KeyMessage(s, c.pk), A)
  BY <1>1, <1>2, <1>4, StreamDropKey
<1>6. StreamOf(s, c, v, q) = B
  <2>1. << >> \o v = v
    BY ConcatEmptySeq
  <2> QED
    BY <2>1 DEF StreamOf
<1>7. c.key_bytes_sent = crypto_box_PUBLICKEYBYTES
  <2>1. Len(r.peer_pk) + Len(in) = crypto_box_PUBLICKEYBYTES
    BY <1>1, <1>2, ConcatProperties
  <2>2. ~(Len(r.peer_pk) + Len(in) < crypto_box_PUBLICKEYBYTES)
    BY <2>1, KeySize
  <2> QED
    BY <2>2, LinkCount
<1> HIDE DEF A, B
<1>8. q.peer_pk = A
  BY DEF A
<1> QED
  BY <1>5, <1>6, <1>7, <1>8, KeySize DEF Link

\* recv() of the rest of a message that decrypts.
LEMMA RecvMessage ==
    ASSUME NEW s \in Ends, NEW c, NEW r, NEW q, GoodContext(c), GoodContext(r),
           NEW in \in Seq(Byte), NEW v \in Seq(Byte), Link(s, c, in \o v, r),
           Len(r.peer_pk) = crypto_box_PUBLICKEYBYTES, q.peer_pk = r.peer_pk,
           HeadOf(q) = << >>, Len(HeadOf(r) \o in) > 0,
           Len(HeadOf(r) \o in) = FrameLen((HeadOf(r) \o in)[1].msg)
    PROVE  Link(s, c, v, q)
<1> DEFINE A == HeadOf(r) \o in
           B == v \o TailOf(s, c)
<1>1. TailOf(s, c) \in Seq(Byte) /\ HeadOf(r) \in Seq(Byte)
  BY StreamType
<1>2. A \in Seq(Byte) /\ B \in Seq(Byte)
  BY <1>1, ConcatProperties
<1>3. StreamOK(A \o B, c.sym_key, KeyMessage(s, c.pk), r.peer_pk)
  BY RecvStream, ZenonT(40) DEF Link
<1>4. StreamOf(s, c, v, q) = B
  <2>1. << >> \o v = v
    BY ConcatEmptySeq
  <2> QED
    BY <2>1 DEF StreamOf
<1>5. Len(A) > 0 /\ Len(A) = FrameLen(A[1].msg)
  OBVIOUS
<1> HIDE DEF A, B
<1>6. (A \o B)[1] = A[1]
  <2>1. 1 \in 1 .. Len(A)
    BY <1>2, <1>5, LenProperties
  <2> QED
    BY <1>2, <2>1, ConcatAt
<1>7. StreamOK(B, c.sym_key, KeyMessage(s, c.pk), r.peer_pk)
  BY <1>2, <1>3, <1>5, <1>6, StreamDropMessage
<1>8. ~(c.key_bytes_sent < crypto_box_PUBLICKEYBYTES)
  BY LinkCount, KeySize
<1> QED
  BY <1>4, <1>7, <1>8 DEF Link

-----------------------------------------------------------------------------
(* The invariant.                                                          *)

\* The key two ends share: the public keys of both.
Shared(e, c, d) == {<<e, c.pk>>, <<Peer(e), d.pk>>}

\* Ends e and Peer(e) with contexts c and d; w and v are under way from them.
Joint(e, c, d, w, v) ==
    /\ KeyedWell(c) /\ KeyedWell(d)
    /\ Link(e, c, w, d) /\ Link(Peer(e), d, v, c)
    /\ c.sym_key # {} => c.sym_key = Shared(e, c, d)
    /\ d.sym_key # {} => d.sym_key = Shared(e, c, d)

\* An end exchanges messages only with a key.
Phase(e) ==
    /\ st[e] = "wrap" => nn[e].sym_key = {}
    /\ st[e] = "data" => nn[e].sym_key # {}

StreamInv ==
    /\ TypeOK
    /\ \A e \in Ends : Joint(e, nn[e], nn[Peer(e)], wire[e], wire[Peer(e)]) /\ Phase(e)
    /\ OnlyDamageFails

\* The same connection seen from the other end.
LEMMA JointSymmetric ==
    ASSUME NEW e \in Ends, NEW c, NEW d, NEW w, NEW v, Joint(e, c, d, w, v)
    PROVE  Joint(Peer(e), d, c, v, w)
<1>1. Peer(Peer(e)) = e
  BY PeerEnd
<1>2. Shared(Peer(e), d, c) = Shared(e, c, d)
  BY <1>1 DEF Shared
<1> QED
  BY <1>1, <1>2 DEF Joint

\* What sending leaves alone, and what decides whether a message is damaged.
SameKeys(c, d) == d.pk = c.pk /\ d.key_bytes_sent = c.key_bytes_sent /\ d.sym_key = c.sym_key
SameReceived(c, d) ==
    /\ d.peer_pk = c.peer_pk /\ d.recv_hdr = c.recv_hdr
    /\ d.len = c.len /\ d.recv_ct = c.recv_ct /\ d.recv_pt = c.recv_pt

\* A message that is complete and was not opened holds a damaged byte.
Damaged(n) ==
    Whole(n) /\ n.recv_pt = << >> => ~Intact(n.recv_hdr) \/ ~Intact(n.recv_ct)

\* A step of end e leaves the invariant if it does so for e.
LEMMA JointStep ==
    ASSUME StreamInv, TypeOK', NEW e \in Ends, NEW n, nn' = [nn EXCEPT ![e] = n],
           Joint(e, n, nn[Peer(e)], wire'[e], wire'[Peer(e)]), Damaged(n),
           st'[e] = "wrap" => n.sym_key = {}, st'[e] = "data" => n.sym_key # {},
           st'[Peer(e)] = st[Peer(e)]
    PROVE  StreamInv'
<1> DEFINE p == Peer(e)
<1>1. p \in Ends /\ p # e /\ Peer(p) = e /\ \A f \in Ends : f = e \/ f = p
  BY DEF Ends, Peer
<1>2. nn'[e] = n /\ nn'[p] = nn[p]
  BY <1>1 DEF StreamInv, TypeOK
<1> HIDE DEF p
<1>3. Joint(e, nn'[e], nn'[p], wire'[e], wire'[p])
  BY <1>2 DEF p
<1>4. Joint(p, nn'[p], nn'[e], wire'[p], wire'[e])
  BY <1>3, JointSymmetric DEF p
<1>5. \A f \in Ends : Joint(f, nn'[f], nn'[Peer(f)], wire'[f], wire'[Peer(f)])
  BY <1>1, <1>3, <1>4 DEF p
<1>6. \A f \in Ends : Phase(f)'
  <2>1. Phase(e)'
    BY <1>2 DEF Phase
  <2>2. Phase(p)
    BY <1>1 DEF StreamInv
  <2>3. Phase(p)'
    BY <1>2, <2>2 DEF Phase, p
  <2> QED
    BY <1>1, <2>1, <2>3
<1>7. OnlyDamageFails'
  <2>1. Damaged(nn[p])
    BY <1>1 DEF StreamInv, OnlyDamageFails, Damaged
  <2>2. Damaged(nn'[e]) /\ Damaged(nn'[p])
    BY <1>2, <2>1
  <2>3. \A f \in Ends : Damaged(nn'[f])
    BY <1>1, <2>2
  <2> QED
    BY <2>3 DEF OnlyDamageFails, Damaged
<1> QED
  BY <1>5, <1>6, <1>7 DEF StreamInv

\* What the invariant says of one end.
LEMMA EndFacts ==
    ASSUME StreamInv, NEW e \in Ends
    PROVE  /\ TypeOK /\ Joint(e, nn[e], nn[Peer(e)], wire[e], wire[Peer(e)]) /\ Phase(e)
           /\ Damaged(nn[e])
           /\ GoodContext(nn[e]) /\ GoodContext(nn[Peer(e)])
           /\ wire[e] \in Seq(Byte) /\ wire[Peer(e)] \in Seq(Byte)
<1>1. /\ TypeOK /\ Joint(e, nn[e], nn[Peer(e)], wire[e], wire[Peer(e)]) /\ Phase(e)
  BY DEF StreamInv
<1>2. Damaged(nn[e])
  BY DEF StreamInv, OnlyDamageFails, Damaged
<1>3. Peer(e) \in Ends
  BY PeerEnd
<1> QED
  BY <1>1, <1>2, <1>3, TypeParts DEF Good

\* What of a buffer is sent and what is left.
LEMMA SplitTail ==
    ASSUME NEW buf \in Seq(Byte), NEW a \in Nat, NEW k \in Nat, a + k <= Len(buf)
    PROVE  /\ SubSeq(buf, a + 1, a + k) \in Seq(Byte)
           /\ Len(SubSeq(buf, a + 1, a + k)) = k
           /\ SubSeq(buf, a + 1, Len(buf)) =
                SubSeq(buf, a + 1, a + k) \o SubSeq(buf, (a + k) + 1, Len(buf))
<1> DEFINE l == Len(buf)
<1>1. l \in Nat /\ \A i \in 1 .. l : buf[i] \in Byte
  BY LenProperties
<1> DEFINE m == a + 1
           j == a + k
<1>2. m \in 1 .. l + 1 /\ j \in m - 1 .. l /\ l \in j .. l /\ m \in Int /\ j \in Int
  BY <1>1
<1>3. \A i \in m .. j : buf[i] \in Byte
  BY <1>1
<1>4. (m <= j => j - m + 1 = k) /\ (~(m <= j) => k = 0)
  OBVIOUS
<1> HIDE DEF m, j
<1>5. SubSeq(buf, m, j) \in Seq(Byte) /\ Len(SubSeq(buf, m, j)) = k
  BY <1>2, <1>3, <1>4, SubSeqProperties
<1>6. SubSeq(buf, m, j) \o SubSeq(buf, j + 1, l) = SubSeq(buf, m, l)
  BY <1>2, ConcatAdjacentSubSeq
<1> QED
  BY <1>5, <1>6 DEF m, j

\* What a step of end e leaves under way.
LEMMA TransferWires ==
    ASSUME TypeOK, NEW e \in Ends, NEW out \in Seq(Byte), NEW in \in Nat,
           in <= Len(Incoming(e)), Transfer(e, out, in)
    PROVE  LET v == wire'[Peer(e)]
               got1 == SubSeq(wire[Peer(e)], 1, in)
           IN  /\ wire'[e] = wire[e] \o out
               /\ v \in Seq(Byte) /\ got1 \in Seq(Byte) /\ Len(got1) = in
               /\ wire[Peer(e)] = got1 \o v
               /\ in = 0 => v = wire[Peer(e)]
<1> DEFINE p == Peer(e)
           u == wire[p]
           v == SubSeq(u, in + 1, Len(u))
           got1 == SubSeq(u, 1, in)
<1>1. p \in Ends /\ p # e /\ wire \in [Ends -> Seq(Byte)] /\ u \in Seq(Byte)
  BY PeerEnd DEF TypeOK
<1>2. wire'[e] = wire[e] \o out /\ wire'[p] = v
  BY <1>1 DEF Transfer
<1>3. in <= Len(u) /\ Len(u) \in Nat
  BY <1>1, LenProperties DEF Incoming
<1> HIDE DEF p, u
<1>4. /\ got1 \in Seq(Byte) /\ Len(got1) = in /\ SubSeq(u, 1, Len(u)) = got1 \o v
  <2> DEFINE a == 0
  <2>1. a \in Nat /\ a + in <= Len(u) /\ a + 1 = 1 /\ a + in = in
    BY <1>3
  <2> HIDE DEF a
  <2>2. /\ SubSeq(u, a + 1, a + in) \in Seq(Byte)
        /\ Len(SubSeq(u, a + 1, a + in)) = in
        /\ SubSeq(u, a + 1, Len(u)) =
             SubSeq(u, a + 1, a + in) \o SubSeq(u, (a + in) + 1, Len(u))
    BY <1>1, <2>1, SplitTail
  <2> QED
    BY <2>1, <2>2
<1>5. SubSeq(u, 1, Len(u)) = u
  BY <1>1, SubSeqFull
<1>6. in = 0 => v = u
  <2>1. in = 0 => in + 1 = 1
    OBVIOUS
  <2> QED
    BY <1>5, <2>1
<1>7. v \in Seq(Byte)
  <2>1. \A i \in in + 1 .. Len(u) : u[i] \in Byte
    BY <1>1, <1>3, LenProperties
  <2> QED
    BY <1>3, <2>1, SubSeqProperties
<1> QED
  BY <1>2, <1>4, <1>5, <1>6, <1>7 DEF p, u

-----------------------------------------------------------------------------
(* Sending.                                                                *)

\* The rest of no buffer.
LEMMA NoTail ==
    ASSUME NEW s, NEW c, ~(c.key_bytes_sent < crypto_box_PUBLICKEYBYTES),
           c.send_buf = << >>, c.send_buf_pos = 0
    PROVE  TailOf(s, c) = << >>
<1> DEFINE none == << >>
<1>1. TailOf(s, c) = SubSeq(none, 0 + 1, Len(none))
  BY DEF TailOf
<1>2. Len(none) = 0
  BY EmptySeq
<1> HIDE DEF none
<1>3. SubSeq(none, 0 + 1, Len(none)) = << >>
  BY <1>2, SubSeqEmpty
<1> QED
  BY <1>1, <1>3

\* encrypt_plaintext appends a whole message to the stream.
LEMMA PreparedLink ==
    ASSUME NEW e \in Ends, NEW c, NEW d, GoodContext(c), GoodContext(d),
           NEW w \in Seq(Byte), Link(e, c, w, d), KeyedWell(c), c.sym_key # {},
           NEW pos \in Nat, NEW len \in Nat, len > 0
    PROVE  /\ Link(e, Prepared(c, pos, len), w, d)
           /\ GoodContext(Prepared(c, pos, len))
           /\ SameKeys(c, Prepared(c, pos, len)) /\ SameReceived(c, Prepared(c, pos, len))
<1> DEFINE n == Prepared(c, pos, len)
<1>0. /\ c \in Context /\ n \in Context /\ GoodContext(n)
  BY PreparedGood DEF GoodContext
<1>1. CASE c.send_buf # << >>
  <2>1. n = c
    BY <1>1 DEF Prepared
  <2> QED
    BY <2>1, <1>0 DEF SameKeys, SameReceived
<1>2. CASE c.send_buf = << >>
  <2> DEFINE pt == [i \in 1 .. pt_len(len) |-> pos + i]
             m == [pt |-> pt, nonce |-> c.nonces + 1, keys |-> c.sym_key]
             F == Frame(m)
             T == StreamOf(e, c, w, d)
  <2>1. pt_len(len) \in Nat /\ pt_len(len) > 0
    BY NetNaClAssumption DEF pt_len, MIN
  <2>2. pt \in Seq(Nat) /\ Len(pt) = pt_len(len)
    BY <2>1
  <2>3. pt # << >>
    BY <2>1, <2>2
  <2>4. m \in Message /\ m.pt # << >> /\ m.keys = c.sym_key
    <3>1. c.nonces + 1 \in Nat /\ c.sym_key \in Keys
      BY ContextFields
    <3> HIDE DEF pt
    <3> QED
      BY <2>2, <2>3, <3>1 DEF Message
  <2>5. n = [c EXCEPT !.nonces = c.nonces + 1, !.send_buf = F]
    BY <1>2 DEF Prepared, encrypt_plaintext
  <2>6. F \in Seq(Byte) /\ Len(F) \in Nat
    BY <2>4, FrameAt
  <2> HIDE DEF pt, m
  <2>7. n.nonces = c.nonces + 1 /\ n.send_buf = F /\ n.send_buf_pos = c.send_buf_pos
        /\ n.pk = c.pk /\ n.sym_key = c.sym_key /\ n.key_bytes_sent = c.key_bytes_sent
    BY <1>0, <2>5 DEF Context
  <2>8. c.send_buf_pos = 0
    <3>1. Len(c.send_buf) = 0 /\ c.send_buf_pos \in Nat /\ c.send_buf_pos <= Len(c.send_buf)
      BY <1>2, ContextFields, EmptySeq
    <3> QED
      BY <3>1
  <2>9. ~(c.key_bytes_sent < crypto_box_PUBLICKEYBYTES)
    BY KeySize DEF KeyedWell
  <2>10. TailOf(e, c) = << >>
    BY <1>2, <2>8, <2>9, NoTail
  <2>11. TailOf(e, n) = F
    <3>1. TailOf(e, n) = SubSeq(F, 0 + 1, Len(F))
      BY <2>7, <2>8, <2>9, Zenon DEF TailOf
    <3>2. SubSeq(F, 1, Len(F)) = F
      BY <2>6, SubSeqFull
    <3>3. 0 + 1 = 1
      OBVIOUS
    <3> QED
      BY <3>1, <3>2, <3>3, Zenon
  <2>12. HeadOf(d) \o w \in Seq(Byte)
    BY StreamType
  <2>13. T = HeadOf(d) \o w
    BY <2>10, <2>12, ConcatEmptySeq DEF StreamOf
  <2>14. StreamOf(e, n, w, d) = T \o F
    BY <2>11, <2>13, Zenon DEF StreamOf
  <2>15. StreamOK(T \o F, c.sym_key, KeyMessage(e, c.pk), d.peer_pk)
    BY <2>4, <2>12, <2>13, StreamAppend DEF Link
  <2> HIDE DEF T, F
  <2>16. Link(e, n, w, d)
    BY <2>7, <2>9, <2>14, <2>15, Zenon DEF Link
  <2>17. SameKeys(c, n) /\ SameReceived(c, n)
    BY <1>0, <2>5 DEF Context, SameKeys, SameReceived
  <2> HIDE DEF n
  <2> QED
    BY <1>0, <2>16, <2>17 DEF n
<1> QED
  BY <1>1, <1>2

\* send_ciphertext moves a part of the message to the wire.
LEMMA SendLink ==
    ASSUME NEW e \in Ends, NEW c, NEW r, GoodContext(c), GoodContext(r),
           NEW w \in Seq(Byte), Link(e, c, w, r), c.key_bytes_sent = crypto_box_PUBLICKEYBYTES,
           NEW k \in Nat, c.send_buf_pos + k <= Len(c.send_buf)
    PROVE  LET d == send_ciphertext(c, k)
               out == SubSeq(c.send_buf, c.send_buf_pos + 1, c.send_buf_pos + k)
           IN  /\ out \in Seq(Byte) /\ GoodContext(d)
               /\ Link(e, d, w \o out, r) /\ SameKeys(c, d) /\ SameReceived(c, d)
<1> DEFINE d == send_ciphertext(c, k)
           buf == c.send_buf
           pos == c.send_buf_pos
           out == SubSeq(buf, pos + 1, pos + k)
<1>1. GoodContext(d) /\ c \in Context
  BY SendGood DEF GoodContext
<1>2. buf \in Seq(Byte) /\ pos \in Nat /\ Len(buf) \in Nat /\ pos + k <= Len(buf)
  BY ContextFields, ContextLengths DEF Good
<1>3. SameKeys(c, d) /\ SameReceived(c, d)
  BY <1>1 DEF send_ciphertext, SameKeys, SameReceived, Context
<1>4. ~(c.key_bytes_sent < crypto_box_PUBLICKEYBYTES) /\ ~(d.key_bytes_sent < crypto_box_PUBLICKEYBYTES)
  BY <1>3, KeySize DEF SameKeys
<1>5. TailOf(e, c) = SubSeq(buf, pos + 1, Len(buf))
  BY <1>4 DEF TailOf
<1>6. /\ out \in Seq(Byte)
      /\ SubSeq(buf, pos + 1, Len(buf)) = out \o SubSeq(buf, (pos + k) + 1, Len(buf))
  <2> HIDE DEF buf, pos
  <2> QED
    BY <1>2, SplitTail
<1>7. TailOf(e, d) = SubSeq(buf, (pos + k) + 1, Len(buf))
  <2>1. CASE pos + k = Len(buf)
    <3>1. d.send_buf = << >> /\ d.send_buf_pos = 0
      BY <1>1, <2>1 DEF send_ciphertext, Context
    <3>2. TailOf(e, d) = << >>
      BY <1>4, <3>1, NoTail
    <3> HIDE DEF buf, pos
    <3>3. SubSeq(buf, (pos + k) + 1, Len(buf)) = << >>
      BY <1>2, <2>1, SubSeqEmpty
    <3> QED
      BY <3>2, <3>3
  <2>2. CASE pos + k # Len(buf)
    <3>1. d.send_buf = buf /\ d.send_buf_pos = pos + k
      BY <1>1, <2>2 DEF send_ciphertext, Context
    <3> HIDE DEF buf, pos, d
    <3> QED
      BY <1>4, <3>1 DEF TailOf
  <2> QED
    BY <2>1, <2>2
<1>8. TailOf(e, c) = out \o TailOf(e, d)
  BY <1>5, <1>6, <1>7
<1> HIDE DEF d, out
<1>9. Link(e, d, w \o out, r)
  BY <1>1, <1>3, <1>4, <1>6, <1>8, SendMove DEF SameKeys
<1> QED
  BY <1>1, <1>3, <1>6, <1>9 DEF d, out, buf, pos

\* Sending touches one direction only.
LEMMA SendJoint ==
    ASSUME NEW e \in Ends, NEW c, NEW d, NEW w, NEW v, NEW n, NEW u, Joint(e, c, d, w, v),
           c.sym_key # {}, SameKeys(c, n), SameReceived(c, n), Link(e, n, u, d)
    PROVE  Joint(e, n, d, u, v) /\ (Damaged(c) => Damaged(n))
<1>1. Link(Peer(e), d, v, n)
  BY SameLink DEF Joint, SameReceived
<1>2. Whole(n) <=> Whole(c)
  BY DEF Whole, SameReceived
<1>3. KeyedWell(n)
  BY <1>2 DEF Joint, KeyedWell, SameReceived, SameKeys
<1>4. Shared(e, n, d) = Shared(e, c, d) /\ n.sym_key = c.sym_key
  BY DEF Shared, SameKeys
<1>5. Damaged(c) => Damaged(n)
  BY <1>2 DEF Damaged, SameReceived
<1> QED
  BY <1>1, <1>3, <1>4, <1>5 DEF Joint

\* netnacl_send keeps the stream whole: a message that was begun is continued
\* where the last call left it, and only then is another encrypted.
LEMMA SendKeeps ==
    ASSUME StreamInv, NEW e \in Ends, netnacl_send(e)
    PROVE  StreamInv'
<1> DEFINE p == Peer(e)
           c == nn[e]
           len == size[e] - sent[e]
           n == Prepared(c, sent[e], len)
<1>1. /\ TypeOK /\ Joint(e, c, nn[p], wire[e], wire[p]) /\ Phase(e) /\ Damaged(c)
      /\ GoodContext(c) /\ GoodContext(nn[p]) /\ wire[e] \in Seq(Byte) /\ wire[p] \in Seq(Byte)
  BY EndFacts
<1>2. sent[e] \in Nat /\ size[e] \in Nat /\ sent[e] < size[e]
  BY <1>1 DEF netnacl_send, TypeOK
<1>3. len \in Nat /\ len > 0
  BY <1>2
<1>4. c.sym_key # {} /\ c.key_bytes_sent = crypto_box_PUBLICKEYBYTES
  BY <1>1 DEF netnacl_send, Phase, Joint, KeyedWell
<1>5. PICK k \in Taken(e, Len(n.send_buf) - n.send_buf_pos) :
        /\ Transfer(e, SubSeq(n.send_buf, n.send_buf_pos + 1, n.send_buf_pos + k), 0)
        /\ nn' = [nn EXCEPT ![e] = send_ciphertext(n, k)]
  BY DEF netnacl_send
<1> HIDE DEF len
<1>6. Link(e, n, wire[e], nn[p]) /\ GoodContext(n) /\ SameKeys(c, n) /\ SameReceived(c, n)
  BY <1>1, <1>2, <1>3, <1>4, PreparedLink DEF Joint
<1> HIDE DEF n
<1>7. k \in Nat /\ n.send_buf_pos + k <= Len(n.send_buf)
  <2>1. n.send_buf_pos \in Nat /\ n.send_buf_pos <= Len(n.send_buf) /\ Len(n.send_buf) \in Nat
    BY <1>6, ContextFields, ContextLengths
  <2>2. Len(n.send_buf) - n.send_buf_pos \in Nat
    BY <2>1
  <2>3. k \in Nat /\ k <= Len(n.send_buf) - n.send_buf_pos
    BY <1>1, <1>5, <2>2, TakenFits
  <2> QED
    BY <2>1, <2>3
<1> DEFINE d == send_ciphertext(n, k)
           out == SubSeq(n.send_buf, n.send_buf_pos + 1, n.send_buf_pos + k)
<1>8. n.key_bytes_sent = crypto_box_PUBLICKEYBYTES
  BY <1>4, <1>6 DEF SameKeys
<1>9. /\ out \in Seq(Byte) /\ GoodContext(d)
      /\ Link(e, d, wire[e] \o out, nn[p]) /\ SameKeys(n, d) /\ SameReceived(n, d)
  BY <1>1, <1>6, <1>7, <1>8, SendLink
<1>10. Transfer(e, out, 0) /\ nn' = [nn EXCEPT ![e] = d]
  BY <1>5
<1> HIDE DEF d, out
<1>11. wire'[e] = wire[e] \o out /\ wire'[p] = wire[p]
  <2>1. 0 \in Nat /\ 0 <= Len(Incoming(e))
    BY <1>1, TypeParts
  <2> QED
    BY <1>1, <1>9, <1>10, <2>1, TransferWires
<1>12. SameKeys(c, d) /\ SameReceived(c, d)
  BY <1>6, <1>9 DEF SameKeys, SameReceived
<1>13. Joint(e, d, nn[p], wire'[e], wire'[p]) /\ Damaged(d)
  BY <1>1, <1>4, <1>9, <1>11, <1>12, SendJoint
<1>14. TypeOK'
  BY <1>1, SendStep
<1>15. st' = st /\ d.sym_key # {} /\ st[e] = "data"
  BY <1>4, <1>12 DEF netnacl_send, SameKeys
<1> QED
  BY <1>10, <1>13, <1>14, <1>15, JointStep

-----------------------------------------------------------------------------
(* Receiving.                                                              *)

\* What of a prefix is a prefix.
LEMMA PrefixOfPrefix ==
    ASSUME NEW u \in Seq(Byte), NEW a \in Nat, NEW b \in Nat, b <= a, a <= Len(u)
    PROVE  SubSeq(SubSeq(u, 1, a), 1, b) = SubSeq(u, 1, b)
<1>1. Len(u) \in Nat
  BY LenProperties
<1>2. CASE b = 0
  BY <1>2, SubSeqEmpty
<1>3. CASE b > 0
  <2>1. /\ 1 \in 1 .. Len(u) /\ a \in 1 .. Len(u) /\ 1 \in 1 .. a - 1 + 1 /\ b \in 1 .. a - 1 + 1
        /\ 1 + 1 - 1 = 1 /\ 1 + b - 1 = b
    BY <1>1, <1>3
  <2>2. SubSeq(SubSeq(u, 1, a), 1, b) = SubSeq(u, 1 + 1 - 1, 1 + b - 1)
    BY <2>1, SubSeqOfSubSeq
  <2> QED
    BY <2>1, <2>2
<1> QED
  BY <1>2, <1>3

\* Concatenation is associative.
LEMMA Associative ==
    \A x, y, z \in Seq(Byte) : (x \o y) \o z = x \o (y \o z)
BY ConcatAssociative

\* Two parts, each appended to its own place, are one part appended to both,
\* when nothing is appended to the first or the second place is empty.
LEMMA TwoParts ==
    \A x, y, a, b \in Seq(Byte) :
      /\ a = << >> => (x \o a) \o (y \o b) = (x \o y) \o (a \o b)
      /\ y = << >> => (x \o a) \o (y \o b) = (x \o y) \o (a \o b)
<1> SUFFICES ASSUME NEW x \in Seq(Byte), NEW y \in Seq(Byte),
                    NEW a \in Seq(Byte), NEW b \in Seq(Byte)
             PROVE  /\ a = << >> => (x \o a) \o (y \o b) = (x \o y) \o (a \o b)
                    /\ y = << >> => (x \o a) \o (y \o b) = (x \o y) \o (a \o b)
  OBVIOUS
<1>1. /\ (x \o y) \o b = x \o (y \o b)
      /\ (x \o a) \o b = x \o (a \o b)
  BY Associative, SMTT(40)
<1>2. a = << >> => x \o a = x /\ a \o b = b
  BY ConcatEmptySeq
<1>3. y = << >> => x \o y = x /\ y \o b = b
  BY ConcatEmptySeq
<1> QED
  BY <1>1, <1>2, <1>3, Zenon

\* What has arrived, in two parts.
LEMMA SplitPrefix ==
    ASSUME NEW u \in Seq(Byte), NEW h \in Nat, NEW k \in Nat, h + k <= Len(u)
    PROVE  /\ SubSeq(u, 1, h) \in Seq(Byte) /\ SubSeq(u, h + 1, h + k) \in Seq(Byte)
           /\ h = 0 => SubSeq(u, 1, h) = << >>
           /\ SubSeq(u, 1, h) \o SubSeq(u, h + 1, h + k) = SubSeq(u, 1, h + k)
<1>1. Len(u) \in Nat /\ \A i \in 1 .. Len(u) : u[i] \in Byte
  BY LenProperties
<1>2. /\ 1 \in 1 .. Len(u) + 1 /\ h \in 1 - 1 .. Len(u) /\ h + k \in h .. Len(u)
      /\ 1 \in Int /\ h \in Int /\ h + 1 \in Int /\ h + k \in Int
  BY <1>1
<1>3. (\A i \in 1 .. h : u[i] \in Byte) /\ (\A i \in h + 1 .. h + k : u[i] \in Byte)
  BY <1>1
<1>4. SubSeq(u, 1, h) \in Seq(Byte) /\ SubSeq(u, h + 1, h + k) \in Seq(Byte)
  BY <1>2, <1>3, SubSeqProperties
<1>5. SubSeq(u, 1, h) \o SubSeq(u, h + 1, h + k) = SubSeq(u, 1, h + k)
  BY <1>2, ConcatAdjacentSubSeq
<1>6. h = 0 => SubSeq(u, 1, h) = << >>
  BY SubSeqEmpty
<1> QED
  BY <1>4, <1>5, <1>6

\* What decrypting and copying leave alone.
SameSent(c, d) ==
    /\ SameKeys(c, d) /\ d.peer_pk = c.peer_pk
    /\ d.send_buf = c.send_buf /\ d.send_buf_pos = c.send_buf_pos

\* How much the call reads of bytes, hl being the length of the message.
ReadIn(c, bytes, hl) == HdrIn(c, Len(bytes)) + CtIn(c, Header(c, bytes), hl, Len(bytes))

\* recv_hdr and recv_ciphertext: what is read extends the message held.
LEMMA GatherHead ==
    ASSUME NEW c, GoodContext(c), NEW bytes, Good(bytes),
           NEW hl \in Lengths(c, Header(c, bytes))
    PROVE  LET g == Gather(c, bytes, hl)
           IN  /\ SameSent(c, g) /\ g.recv_pt = c.recv_pt /\ GoodContext(g)
               /\ ReadIn(c, bytes, hl) \in 0 .. Len(bytes)
               /\ g.recv_hdr \o g.recv_ct =
                    (c.recv_hdr \o c.recv_ct) \o SubSeq(bytes, 1, ReadIn(c, bytes, hl))
<1> DEFINE g == Gather(c, bytes, hl)
           h == HdrIn(c, Len(bytes))
           hdr == Header(c, bytes)
           k == CtIn(c, hdr, hl, Len(bytes))
<1>1. c \in Context /\ GoodContext(g) /\ bytes \in Seq(Byte) /\ Len(bytes) \in Nat
  BY GatherGood, LenProperties DEF GoodContext, Good
<1>2. /\ h \in 0 .. Len(bytes) /\ Len(hdr) = Len(c.recv_hdr) + h /\ Len(hdr) <= sizeof_hdr
      /\ Len(c.recv_hdr) \in Nat
  BY HeaderGood, ContextLengths
<1>3. k \in 0 .. Len(bytes) - h
  BY CtInFits
<1>4. c.recv_hdr \in Seq(Byte) /\ c.recv_ct \in Seq(Byte)
  BY ContextFields DEF Good
<1>5. g = [c EXCEPT !.recv_hdr = hdr, !.len = hl,
                      !.recv_ct = c.recv_ct \o SubSeq(bytes, h + 1, h + k)]
  BY DEF Gather
<1>6. hdr = c.recv_hdr \o SubSeq(bytes, 1, h)
  BY DEF Header
<1>7. ReadIn(c, bytes, hl) = h + k
  BY DEF ReadIn
<1> HIDE DEF h, hdr, k, g
<1>8. h = 0 \/ c.recv_ct = << >>
  <2>1. h # 0 => Len(c.recv_hdr) # sizeof_hdr
    BY <1>1, <1>2, Sizes
  <2> QED
    BY <2>1, ContextFields DEF HeaderFits
<1>9. h \in Nat /\ k \in Nat /\ h + k \in 0 .. Len(bytes) /\ h + k <= Len(bytes)
  BY <1>1, <1>2, <1>3
<1>10. (c.recv_hdr \o SubSeq(bytes, 1, h)) \o (c.recv_ct \o SubSeq(bytes, h + 1, h + k)) =
         (c.recv_hdr \o c.recv_ct) \o SubSeq(bytes, 1, h + k)
  <2> DEFINE x == c.recv_hdr
             y == c.recv_ct
             a == SubSeq(bytes, 1, h)
             b == SubSeq(bytes, h + 1, h + k)
  <2>1. /\ a \in Seq(Byte) /\ b \in Seq(Byte) /\ (h = 0 => a = << >>)
        /\ a \o b = SubSeq(bytes, 1, h + k)
    BY <1>1, <1>9, SplitPrefix
  <2>2. x \in Seq(Byte) /\ y \in Seq(Byte) /\ (h = 0 \/ y = << >>)
    BY <1>4, <1>8
  <2> HIDE DEF x, y, a, b
  <2>3. /\ x \in Seq(Byte) /\ y \in Seq(Byte) /\ a \in Seq(Byte) /\ b \in Seq(Byte)
        /\ a = << >> \/ y = << >>
    BY <2>1, <2>2
  <2>4. (x \o a) \o (y \o b) = (x \o y) \o (a \o b)
    <3>1. CASE a = << >>
      BY <2>3, <3>1, TwoParts
    <3>2. CASE y = << >>
      BY <2>3, <3>2, TwoParts
    <3> QED
      BY <2>3, <3>1, <3>2
  <2> QED
    BY <2>1, <2>4 DEF x, y, a, b
<1>11. SameSent(c, g) /\ g.recv_pt = c.recv_pt
  BY <1>1, <1>5 DEF SameSent, SameKeys, Context
<1>12. g.recv_hdr = hdr /\ g.recv_ct = c.recv_ct \o SubSeq(bytes, h + 1, h + k)
  BY <1>1, <1>5 DEF Context
<1>13. g.recv_hdr \o g.recv_ct = (c.recv_hdr \o c.recv_ct) \o SubSeq(bytes, 1, ReadIn(c, bytes, hl))
  BY <1>6, <1>7, <1>10, <1>12
<1> QED
  BY <1>1, <1>7, <1>9, <1>11, <1>13 DEF g

\* As long as plaintext is left, nothing is read.
LEMMA GatherIdle ==
    ASSUME NEW c, GoodContext(c), NEW bytes, Good(bytes),
           NEW hl \in Lengths(c, Header(c, bytes)), Whole(c)
    PROVE  ReadIn(c, bytes, hl) = 0 /\ SameReceived(c, Gather(c, bytes, hl))
<1> DEFINE h == HdrIn(c, Len(bytes))
           hdr == Header(c, bytes)
           k == CtIn(c, hdr, hl, Len(bytes))
           g == Gather(c, bytes, hl)
<1>1. /\ h \in 0 .. Len(bytes) /\ Len(hdr) = Len(c.recv_hdr) + h /\ Len(hdr) <= sizeof_hdr
      /\ Len(c.recv_hdr) \in Nat /\ Len(bytes) \in Nat /\ Len(c.recv_hdr) = sizeof_hdr
      /\ Len(c.recv_ct) \in Nat /\ Len(c.recv_ct) = c.len
  BY HeaderGood, ContextLengths, LenProperties DEF Whole, Good
<1>2. h = 0 /\ Len(hdr) = sizeof_hdr
  BY <1>1, Sizes
<1>3. c.recv_hdr \in Seq(Byte) /\ c.recv_ct \in Seq(Byte) /\ c \in Context
  BY ContextFields DEF Good, GoodContext
<1>4. hdr = c.recv_hdr
  <2>1. SubSeq(bytes, 1, h) = << >>
    BY <1>2, SubSeqEmpty
  <2> QED
    BY <1>3, <2>1, ConcatEmptySeq DEF Header
<1>4a. hl = c.len
  BY <1>1, <1>2 DEF Lengths
<1>5. k = 0
  <2>1. k \in 0 .. Len(bytes) - h /\ (Len(hdr) = sizeof_hdr => Len(c.recv_ct) + k <= hl)
    BY CtInFits
  <2>2. k \in Nat /\ Len(c.recv_ct) + k <= Len(c.recv_ct)
    BY <1>1, <1>2, <1>4a, <2>1
  <2> QED
    BY <1>1, <2>2
<1>6. SubSeq(bytes, h + 1, h + k) = << >>
  BY <1>2, <1>5, SubSeqEmpty
<1>7. c.recv_ct \o SubSeq(bytes, h + 1, h + k) = c.recv_ct
  BY <1>3, <1>6, ConcatEmptySeq
<1>8. g = [c EXCEPT !.recv_hdr = hdr, !.len = hl,
                      !.recv_ct = c.recv_ct \o SubSeq(bytes, h + 1, h + k)]
  BY DEF Gather
<1>9. ReadIn(c, bytes, hl) = h + k
  BY DEF ReadIn
<1> HIDE DEF h, hdr, k, g
<1>10. ReadIn(c, bytes, hl) = 0
  BY <1>2, <1>5, <1>9
<1>11. SameReceived(c, g)
  BY <1>3, <1>4, <1>4a, <1>7, <1>8 DEF SameReceived, Context
<1> QED
  BY <1>10, <1>11 DEF g

\* A complete message whose length arrived as it was sent is one frame of the
\* stream.
LEMMA WholeIsFrame ==
    ASSUME NEW g, GoodContext(g), Whole(g), LenIntact(g.recv_hdr),
           NEW B \in Seq(Byte), NEW sym, NEW pub,
           StreamOK((g.recv_hdr \o g.recv_ct) \o B, sym, pub, g.peer_pk),
           Len(g.peer_pk) = crypto_box_PUBLICKEYBYTES
    PROVE  LET A == g.recv_hdr \o g.recv_ct
               m == g.recv_hdr[1].msg
           IN  /\ A \in Seq(Byte) /\ Len(A) > 0 /\ m \in Message /\ A[1].msg = m
               /\ Len(A) = FrameLen(m) /\ m.pt # << >> /\ m.keys = sym /\ sym # {}
               /\ \A i \in 1 .. Len(A) :
                    A[i] \in Byte /\ A[i].msg = m /\ A[i].pos = i
<1> DEFINE x == g.recv_hdr
           y == g.recv_ct
           A == x \o y
           m == x[1].msg
           T == A \o B
<1>1. /\ x \in Seq(Byte) /\ y \in Seq(Byte) /\ Good(x) /\ Len(x) = sizeof_hdr
      /\ Len(y) = SentLen(x)
  BY ContextFields DEF Good, Whole, HeaderFits
<1>2. StreamOK(T, sym, pub, g.peer_pk)
  OBVIOUS
<1> HIDE DEF x, y
<1>3. /\ A \in Seq(Byte) /\ Len(A) = Len(x) + Len(y) /\ Len(x) > 0 /\ Len(y) \in Nat
      /\ Len(x) \in Nat /\ \A i \in 1 .. Len(x) : A[i] = x[i] /\ x[i] \in Byte
  BY <1>1, Sizes, ConcatAt
<1>4. A[1] = x[1] /\ x[1] \in Byte /\ Len(A) > 0 /\ Len(A) \in Nat
  <2>1. 1 \in 1 .. Len(x)
    BY <1>3
  <2> QED
    BY <1>3, <2>1
<1> HIDE DEF A
<1>5. /\ Len(T) = Len(A) + Len(B) /\ Len(B) \in Nat
      /\ \A i \in 1 .. Len(A) : T[i] = A[i] /\ A[i] \in Byte
  BY <1>3, ConcatAt
<1> HIDE DEF T
<1>6. \A i \in 1 .. Len(A) : i \in 1 .. Len(T)
  BY <1>4, <1>5
<1>7. \A i \in 1 .. Len(A) : ByteInv(A[i], sym) /\ A[i].msg.pt # << >>
  BY <1>2, <1>5, <1>6 DEF StreamOK
<1>8. 1 \in 1 .. Len(A) /\ T[1] = A[1]
  BY <1>4, <1>5
<1>9. m.pt # << >> /\ m.keys = sym /\ sym # {}
  BY <1>4, <1>7, <1>8 DEF ByteInv
<1>10. Len(A) = FrameLen(m)
  <2>1. SentLen(x) = crypto_box_ZEROBYTES + Len(m.pt) /\ Len(m.pt) \in Nat
    BY <1>1, <1>3, SentLenFits
  <2>2. FrameLen(m) = sizeof_hdr + crypto_box_ZEROBYTES + Len(m.pt)
    BY <1>9 DEF FrameLen
  <2> DEFINE l == Len(m.pt)
  <2>3. Len(A) = sizeof_hdr + (crypto_box_ZEROBYTES + l) /\ l \in Nat
    BY <1>1, <1>3, <2>1
  <2>4. FrameLen(m) = sizeof_hdr + crypto_box_ZEROBYTES + l
    BY <2>2
  <2> HIDE DEF l
  <2> QED
    BY <2>3, <2>4, Sizes
<1>11. m \in Message
  BY <1>4 DEF Byte
<1>12. \A i \in 1 .. Len(A) : A[i].msg = A[1].msg /\ A[i].pos = i
  <2>1. Framed(T) /\ Len(A) <= FrameLen(T[1].msg)
    BY <1>2, <1>4, <1>8, <1>10 DEF StreamOK
  <2> QED
    BY <1>3, <1>4, <2>1, FirstFrame DEF T
<1> HIDE DEF m
<1>14. \A i \in 1 .. Len(A) : A[i].msg = m
  BY <1>4, <1>12 DEF m
<1> QED
  BY <1>3, <1>4, <1>5, <1>9, <1>10, <1>11, <1>12, <1>14 DEF A, m, x, y

\* A complete message under the receiver's key opens if it is as it was sent.
LEMMA OpensUndamaged ==
    ASSUME NEW g, GoodContext(g), Whole(g), Intact(g.recv_hdr), Intact(g.recv_ct),
           NEW B \in Seq(Byte), NEW pub,
           StreamOK((g.recv_hdr \o g.recv_ct) \o B, g.sym_key, pub, g.peer_pk),
           Len(g.peer_pk) = crypto_box_PUBLICKEYBYTES
    PROVE  crypto_box_open_afternm(g)
<1> DEFINE x == g.recv_hdr
           y == g.recv_ct
           A == x \o y
           m == x[1].msg
           F == Frame(m)
<1>0. x \in Seq(Byte) /\ y \in Seq(Byte) /\ Len(x) = sizeof_hdr /\ LenIntact(x)
  <2>1. x \in Seq(Byte) /\ y \in Seq(Byte) /\ Len(x) = sizeof_hdr
    BY ContextFields DEF Good, Whole
  <2>2. \A i \in 1 .. sizeof_len : i \in DOMAIN x
    BY <2>1, LenProperties, Sizes
  <2> QED
    BY <2>1, <2>2 DEF LenIntact, Intact
<1>1. /\ A \in Seq(Byte) /\ Len(A) = FrameLen(m) /\ m.keys = g.sym_key /\ m \in Message
      /\ \A i \in 1 .. Len(A) :
           A[i] \in Byte /\ A[i].msg = m /\ A[i].pos = i
  BY <1>0, WholeIsFrame, ZenonT(40)
<1>2. /\ \A i \in 1 .. Len(x) : x[i].ok
      /\ \A i \in 1 .. Len(y) : y[i].ok
  BY <1>0, LenProperties DEF Intact
<1> HIDE DEF x, y
<1>3. /\ Len(A) = Len(x) + Len(y) /\ Len(x) \in Nat /\ Len(y) \in Nat
      /\ \A i \in 1 .. Len(x) : A[i] = x[i]
      /\ \A i \in 1 .. Len(y) : A[Len(x) + i] = y[i]
  BY <1>0, ConcatAt
<1>4. /\ F \in Seq(Byte) /\ Len(F) = FrameLen(m)
      /\ \A i \in 1 .. FrameLen(m) : F[i] = [msg |-> m, pos |-> i, ok |-> TRUE]
  BY <1>1, FrameAt
<1> HIDE DEF A, m, F
<1>5. \A i \in 1 .. Len(A) : A[i].ok
  <2> SUFFICES ASSUME NEW i \in 1 .. Len(A), ~(i <= Len(x)) PROVE A[i].ok
    BY <1>2, <1>3
  <2> DEFINE j == i - Len(x)
  <2>1. j \in 1 .. Len(y) /\ i = Len(x) + j
    BY <1>3
  <2> HIDE DEF j
  <2>2. A[i] = y[j]
    BY <1>3, <2>1
  <2> QED
    BY <1>2, <2>1, <2>2
<1>6. \A i \in 1 .. Len(A) : A[i] = F[i]
  <2> SUFFICES ASSUME NEW i \in 1 .. Len(A) PROVE A[i] = F[i]
    OBVIOUS
  <2>1. A[i] \in [msg : Message, pos : Nat, ok : BOOLEAN]
    BY <1>1 DEF Byte
  <2>2. A[i] = [msg |-> A[i].msg, pos |-> A[i].pos, ok |-> A[i].ok]
    BY <2>1
  <2>3. A[i].ok = TRUE
    BY <1>5, <2>1
  <2>4. A[i].msg = m /\ A[i].pos = i
    BY <1>1
  <2>5. F[i] = [msg |-> m, pos |-> i, ok |-> TRUE]
    BY <1>1, <1>4
  <2> QED
    BY <2>2, <2>3, <2>4, <2>5
<1>7. A = F
  BY <1>1, <1>4, <1>6, SeqEqual
<1> QED
  BY <1>1, <1>7 DEF crypto_box_open_afternm, A, F, m, x, y

\* A box that opens was not damaged, its length field neither.
LEMMA OpenedIntact ==
    ASSUME NEW g, GoodContext(g), Len(g.recv_hdr) = sizeof_hdr, crypto_box_open_afternm(g)
    PROVE  LenIntact(g.recv_hdr)
<1> DEFINE x == g.recv_hdr
           y == g.recv_ct
           A == x \o y
           m == x[1].msg
<1>1. x \in Seq(Byte) /\ y \in Seq(Byte) /\ Len(x) = sizeof_hdr /\ A = Frame(m)
  BY ContextFields DEF Good, crypto_box_open_afternm
<1> HIDE DEF x, y
<1>2. /\ Len(A) = Len(x) + Len(y) /\ Len(x) \in Nat /\ Len(y) \in Nat
      /\ \A i \in 1 .. Len(x) : A[i] = x[i] /\ x[i] \in Byte
  BY <1>1, ConcatAt, LenProperties
<1>3. m \in Message
  <2>1. 1 \in 1 .. Len(x)
    BY <1>1, Sizes
  <2> QED
    BY <1>2, <2>1 DEF Byte
<1> HIDE DEF A, m
<1>4. Len(A) = FrameLen(m) /\ \A i \in 1 .. FrameLen(m) : A[i] = [msg |-> m, pos |-> i, ok |-> TRUE]
  BY <1>1, <1>3, FrameAt
<1>5. \A i \in 1 .. sizeof_len : i \in 1 .. Len(x) /\ i \in 1 .. Len(A)
  BY <1>1, <1>2, Sizes
<1>6. \A i \in 1 .. sizeof_len : x[i] = [msg |-> m, pos |-> i, ok |-> TRUE]
  BY <1>2, <1>4, <1>5
<1>7. ASSUME NEW i \in 1 .. sizeof_len PROVE x[i].ok
  <2>1. x[i].ok = [msg |-> m, pos |-> i, ok |-> TRUE].ok
    BY <1>6
  <2>2. [msg |-> m, pos |-> i, ok |-> TRUE].ok = TRUE
    BY Zenon
  <2> QED
    BY <2>1, <2>2, Zenon
<1> QED
  BY <1>7, Zenon DEF LenIntact, x

\* Receiving touches the other direction only.
LEMMA RecvJoint ==
    ASSUME NEW e \in Ends, NEW c, NEW d, NEW w, NEW v, NEW q, NEW u, Joint(e, c, d, w, v),
           c.sym_key # {}, SameSent(c, q), q.recv_pt # << >> => Whole(q),
           Link(Peer(e), d, u, q)
    PROVE  Joint(e, q, d, w, u)
<1>1. Link(e, q, w, d)
  BY SameLink DEF Joint, SameSent, SameKeys
<1>2. KeyedWell(q)
  BY DEF Joint, KeyedWell, SameSent, SameKeys
<1>3. Shared(e, q, d) = Shared(e, c, d) /\ q.sym_key = c.sym_key
  BY DEF Shared, SameSent, SameKeys
<1> QED
  BY <1>1, <1>2, <1>3 DEF Joint

\* A copy: nothing, or a message that was decrypted.
LEMMA CopyHead ==
    ASSUME NEW n, GoodContext(n), NEW len \in Nat, Whole(n), n.recv_pt # << >>,
           Len(n.peer_pk) = crypto_box_PUBLICKEYBYTES
    PROVE  LET q == AfterCopy(n, len)
           IN  /\ SameSent(n, q) /\ HeadOf(q) = << >> /\ Damaged(q)
               /\ q.recv_pt # << >> => Whole(q)
<1> DEFINE q == AfterCopy(n, len)
           none == << >>
<1>1. n \in Context
  BY DEF GoodContext
<1>2. SameSent(n, q)
  BY <1>1 DEF AfterCopy, Reset, SameSent, SameKeys, Context
<1>3. ~(Len(q.peer_pk) < crypto_box_PUBLICKEYBYTES)
  BY <1>2, KeySize DEF SameSent
<1>4. CASE n.recv_pt_pos + ReadSize(n, len) = Len(n.recv_pt)
  <2>1. q = [n EXCEPT !.recv_hdr = none, !.len = 0, !.recv_ct = none,
                      !.recv_pt = none, !.recv_pt_pos = 0]
    BY <1>4 DEF AfterCopy, Reset
  <2>2. none \in Seq(Byte) /\ Len(none) = 0 /\ none \o none = none /\ none = << >>
    BY EmptySeq, ConcatEmptySeq
  <2> HIDE DEF none, q
  <2>3. q.recv_hdr = none /\ q.recv_ct = none /\ q.recv_pt = none
    BY <1>1, <2>1 DEF Context
  <2>4. HeadOf(q) = << >>
    BY <1>3, <2>2, <2>3 DEF HeadOf
  <2>5. ~Whole(q)
    BY <2>2, <2>3, Sizes DEF Whole
  <2> QED
    BY <1>2, <2>2, <2>3, <2>4, <2>5 DEF Damaged, q
<1>5. CASE n.recv_pt_pos + ReadSize(n, len) # Len(n.recv_pt)
  <2>1. q = [n EXCEPT !.recv_pt_pos = n.recv_pt_pos + ReadSize(n, len)]
    BY <1>5 DEF AfterCopy
  <2>2. /\ q.recv_hdr = n.recv_hdr /\ q.len = n.len
        /\ q.recv_ct = n.recv_ct /\ q.recv_pt = n.recv_pt
    BY <1>1, <2>1 DEF Context
  <2> HIDE DEF q
  <2>3. HeadOf(q) = << >> /\ Damaged(q) /\ Whole(q)
    BY <1>3, <2>2 DEF HeadOf, Damaged, Whole
  <2> QED
    BY <1>2, <2>3 DEF q
<1> QED
  BY <1>4, <1>5

\* A direction sees only the head of what the receiver holds.
LEMMA SameHead ==
    ASSUME NEW s, NEW c, NEW w, NEW r, NEW q, Link(s, c, w, r), HeadOf(q) = HeadOf(r),
           q.peer_pk = r.peer_pk
    PROVE  Link(s, c, w, q)
<1>1. StreamOf(s, c, w, q) = StreamOf(s, c, w, r)
  BY DEF StreamOf
<1> QED
  BY <1>1 DEF Link

\* The contexts of a call of netnacl_recv: c before it, n once the message held
\* was decrypted if it could be, and the one the call leaves.
Received(c, bytes, hl, len) ==
    LET n == decrypt_ciphertext(Gather(c, bytes, hl))
    IN  IF n.recv_pt # << >> THEN AfterCopy(n, len) ELSE n

\* What the call leaves of the connection.
LEMMA RecvResult ==
    ASSUME NEW e \in Ends, NEW c, NEW d, GoodContext(c), GoodContext(d), NEW w,
           NEW bytes, Good(bytes), NEW hl \in Lengths(c, Header(c, bytes)), NEW v \in Seq(Byte),
           Joint(e, c, d, w, SubSeq(bytes, 1, ReadIn(c, bytes, hl)) \o v),
           c.sym_key # {}, NEW len \in Nat
    PROVE  /\ Joint(e, Received(c, bytes, hl, len), d, w, v)
           /\ Damaged(Received(c, bytes, hl, len)) /\ Received(c, bytes, hl, len).sym_key # {}
<1> DEFINE p == Peer(e)
           in == SubSeq(bytes, 1, ReadIn(c, bytes, hl))
           g == Gather(c, bytes, hl)
           n == decrypt_ciphertext(g)
           q == Received(c, bytes, hl, len)
<1>0. q = (IF n.recv_pt # << >> THEN AfterCopy(n, len) ELSE n) /\ in \in Seq(Byte)
  <2>1. ReadIn(c, bytes, hl) \in 0 .. Len(bytes) /\ Len(bytes) \in Nat
    BY GatherHead, LenProperties DEF Good
  <2>2. /\ 1 \in Nat /\ ReadIn(c, bytes, hl) \in Nat /\ 1 <= 1 /\ 1 <= ReadIn(c, bytes, hl) + 1
        /\ ReadIn(c, bytes, hl) <= Len(bytes)
    BY <2>1
  <2> QED
    BY <2>2, SubSeqGood DEF Received, Good
<1>1. /\ SameSent(c, g) /\ g.recv_pt = c.recv_pt /\ GoodContext(g)
      /\ g.recv_hdr \o g.recv_ct = (c.recv_hdr \o c.recv_ct) \o in
  BY GatherHead
<1>2. p \in Ends /\ Link(p, d, in \o v, c) /\ KeyedWell(c)
  BY PeerEnd DEF Joint
<1>2a. in \in Seq(Byte) /\ (ReadIn(c, bytes, hl) = 0 => in = << >>)
  BY <1>0, SubSeqEmpty
<1> HIDE DEF in
<1>3. Len(c.peer_pk) = crypto_box_PUBLICKEYBYTES
  BY <1>2, ContextFields, ContextLengths, KeySize DEF KeyedWell
<1>4. g.peer_pk = c.peer_pk /\ g.sym_key = c.sym_key /\ g \in Context
  BY <1>1 DEF SameSent, SameKeys, GoodContext
<1>5. ~(Len(c.peer_pk) < crypto_box_PUBLICKEYBYTES)
  BY <1>3, KeySize
<1>6. CASE c.recv_pt # << >>
  <2>1. Whole(c)
    BY <1>2, <1>6 DEF KeyedWell
  <2>2. ReadIn(c, bytes, hl) = 0 /\ SameReceived(c, g)
    BY <2>1, GatherIdle
  <2>3. n = g /\ Whole(n) /\ n.recv_pt # << >>
    BY <1>1, <1>6, <2>1, <2>2 DEF decrypt_ciphertext, Whole, SameReceived
  <2>4. q = AfterCopy(n, len)
    BY <1>0, <2>3
  <2>5. in \o v = v
    <3>1. in = << >>
      BY <2>2, <1>2a
    <3> QED
      BY <3>1, ConcatEmptySeq
  <2>6. /\ SameSent(n, q) /\ HeadOf(q) = << >> /\ Damaged(q)
        /\ q.recv_pt # << >> => Whole(q)
    BY <1>1, <1>3, <1>4, <2>3, <2>4, CopyHead
  <2> HIDE DEF n, q, g
  <2>7. SameSent(c, q) /\ q.peer_pk = c.peer_pk /\ q.sym_key # {}
    BY <1>1, <2>3, <2>6 DEF SameSent, SameKeys
  <2>8. HeadOf(c) = << >>
    BY <1>5, <1>6 DEF HeadOf
  <2>9. Link(p, d, v, q)
    BY <1>2, <2>5, <2>6, <2>7, <2>8, SameHead
  <2>10. Joint(e, q, d, w, v)
    BY <2>6, <2>7, <2>9, RecvJoint
  <2> QED
    BY <2>6, <2>7, <2>10 DEF n, q, g
<1>7. CASE c.recv_pt = << >>
  <2> DEFINE A == g.recv_hdr \o g.recv_ct
             B == v \o TailOf(p, d)
  <2>1. HeadOf(c) = c.recv_hdr \o c.recv_ct /\ HeadOf(g) = A
    BY <1>1, <1>4, <1>5, <1>7 DEF HeadOf
  <2>2. A = HeadOf(c) \o in
    BY <1>1, <2>1
  <2>3. TailOf(p, d) \in Seq(Byte) /\ A \in Seq(Byte) /\ HeadOf(c) \in Seq(Byte)
    BY <1>1, <1>2, <2>1, StreamType
  <2>4. B \in Seq(Byte)
    BY <2>3, ConcatProperties
  <2>5. StreamOK(A \o B, d.sym_key, KeyMessage(p, d.pk), g.peer_pk)
    <3>1. StreamOK((HeadOf(c) \o in) \o B, d.sym_key, KeyMessage(p, d.pk), c.peer_pk)
      <4> HIDE DEF p
      <4> QED
        BY <1>2a, <1>2, LinkStream
    <3> QED
      BY <1>4, <2>2, <3>1, Zenon
  <2> DEFINE Known == Whole(g) /\ LenIntact(g.recv_hdr)
  <2>6. Known => d.sym_key # {} /\ g.recv_hdr[1].msg.pt # << >>
    <3> SUFFICES ASSUME Known PROVE d.sym_key # {} /\ g.recv_hdr[1].msg.pt # << >>
      OBVIOUS
    <3>1. StreamOK((g.recv_hdr \o g.recv_ct) \o B, d.sym_key, KeyMessage(p, d.pk), g.peer_pk)
      BY <2>5
    <3> HIDE DEF B, g
    <3>2. Len(g.peer_pk) = crypto_box_PUBLICKEYBYTES
      BY <1>3, <1>4
    <3> QED
      BY <1>1, <2>4, <3>1, <3>2, WholeIsFrame
  <2>7. Known => d.sym_key = g.sym_key
    BY <1>4, <2>6 DEF Joint
  <2>8. Known => Len(A) > 0 /\ Len(A) = FrameLen(A[1].msg)
    <3> SUFFICES ASSUME Known PROVE Len(A) > 0 /\ Len(A) = FrameLen(A[1].msg)
      OBVIOUS
    <3>1. StreamOK((g.recv_hdr \o g.recv_ct) \o B, d.sym_key, KeyMessage(p, d.pk), g.peer_pk)
      BY <2>5
    <3> HIDE DEF B, g
    <3>2. Len(g.peer_pk) = crypto_box_PUBLICKEYBYTES
      BY <1>3, <1>4
    <3> QED
      BY <1>1, <2>4, <3>1, <3>2, WholeIsFrame
  <2>9. Whole(g) => crypto_box_open_afternm(g) \/ Damaged(g)
    <3> SUFFICES ASSUME Whole(g), Intact(g.recv_hdr), Intact(g.recv_ct)
                 PROVE  crypto_box_open_afternm(g)
      BY DEF Damaged
    <3>0. Known
      <4>1. \A i \in 1 .. sizeof_len : i \in DOMAIN g.recv_hdr
        BY <1>1, ContextFields, LenProperties, Sizes DEF Good, Whole
      <4> QED
        BY <4>1 DEF LenIntact, Intact
    <3>1. StreamOK((g.recv_hdr \o g.recv_ct) \o B, g.sym_key, KeyMessage(p, d.pk), g.peer_pk)
      BY <2>5, <2>7, <3>0
    <3> HIDE DEF B, g
    <3>2. Len(g.peer_pk) = crypto_box_PUBLICKEYBYTES
      BY <1>3, <1>4
    <3> QED
      BY <1>1, <2>4, <3>1, <3>2, OpensUndamaged
  <2>10. CASE Whole(g) /\ crypto_box_open_afternm(g)
    <3>0. Known
      BY <1>1, <2>10, OpenedIntact DEF Whole
    <3>1. n = [g EXCEPT !.recv_pt = g.recv_hdr[1].msg.pt] /\ GoodContext(n)
      BY <1>1, <1>7, <2>10, DecryptGood DEF decrypt_ciphertext
    <3> HIDE DEF g
    <3>2. /\ n.recv_pt # << >> /\ SameSent(g, n)
          /\ n.recv_hdr = g.recv_hdr /\ n.recv_ct = g.recv_ct /\ n.len = g.len
      BY <1>4, <2>6, <3>0, <3>1 DEF SameSent, SameKeys, Context
    <3> HIDE DEF n
    <3>3. Whole(n) /\ Len(n.peer_pk) = crypto_box_PUBLICKEYBYTES
      BY <1>3, <1>4, <2>10, <3>2 DEF Whole, SameSent
    <3>4. q = AfterCopy(n, len)
      BY <1>0, <3>2
    <3>5. /\ SameSent(n, q) /\ HeadOf(q) = << >> /\ Damaged(q)
          /\ q.recv_pt # << >> => Whole(q)
      BY <3>1, <3>2, <3>3, <3>4, CopyHead, ZenonT(60)
    <3> HIDE DEF q
    <3>6. SameSent(c, q) /\ q.peer_pk = c.peer_pk /\ q.sym_key # {}
      BY <1>1, <3>2, <3>5 DEF SameSent, SameKeys
    <3>7. Len(HeadOf(c) \o in) > 0 /\ Len(HeadOf(c) \o in) = FrameLen((HeadOf(c) \o in)[1].msg)
      BY <2>2, <2>8, <3>0
    <3>8. Link(p, d, v, q)
      BY <1>2a, <1>2, <1>3, <3>5, <3>6, <3>7, RecvMessage
    <3>9. Joint(e, q, d, w, v)
      BY <3>5, <3>6, <3>8, RecvJoint
    <3> QED
      BY <3>5, <3>6, <3>9 DEF q, n, g
  <2>11. CASE ~(Whole(g) /\ crypto_box_open_afternm(g))
    <3>1. n = g /\ n.recv_pt = << >> /\ q = g
      BY <1>0, <1>1, <1>7, <2>11 DEF decrypt_ciphertext
    <3>2. Damaged(g)
      BY <2>9, <2>11 DEF Damaged
    <3> HIDE DEF g, n, q
    <3>3. Link(p, d, v, g)
      BY <1>1, <1>2, <1>3, <1>4, <1>2a, <2>1, <2>2, RecvMove
    <3>4. g.recv_pt # << >> => Whole(g)
      BY <3>1
    <3>5. Joint(e, g, d, w, v) /\ g.sym_key # {}
      BY <1>1, <1>4, <3>3, <3>4, RecvJoint
    <3> QED
      BY <3>1, <3>2, <3>5 DEF g, n, q
  <2> QED
    BY <2>10, <2>11
<1> QED
  BY <1>6, <1>7

\* A call that leaves recv_ct opens nothing: it has read a damaged header.
LEMMA OverrunStays ==
    ASSUME NEW c, GoodContext(c), ~Overrun(c), c.recv_pt # << >> => Whole(c),
           NEW bytes, Good(bytes), NEW hl \in Lengths(c, Header(c, bytes)),
           NEW g, g = Gather(c, bytes, hl), Overrun(g)
    PROVE  decrypt_ciphertext(g) = g /\ g.recv_pt = << >>
<1>1. GoodContext(g) /\ g.recv_pt = c.recv_pt
  BY GatherHead
<1>2. g.recv_pt = << >>
  <2> SUFFICES ASSUME c.recv_pt # << >> PROVE FALSE
    BY <1>1
  <2>1. SameReceived(c, g)
    BY GatherIdle
  <2> QED
    BY <2>1 DEF SameReceived, Overrun
<1>3. ~LenIntact(g.recv_hdr)
  BY <1>1, OverrunDamaged
<1>4. ~(Whole(g) /\ crypto_box_open_afternm(g))
  BY <1>1, <1>3, OpenedIntact DEF Whole
<1> QED
  BY <1>2, <1>4 DEF decrypt_ciphertext

\* netnacl_recv keeps the stream whole: what is read extends the message held,
\* and a message is dropped when all of it was decrypted and copied.
LEMMA RecvKeeps ==
    ASSUME StreamInv, NEW e \in Ends, netnacl_recv(e)
    PROVE  StreamInv'
<1> DEFINE p == Peer(e)
           c == nn[e]
<1>1. /\ TypeOK /\ Joint(e, c, nn[p], wire[e], wire[p]) /\ Phase(e) /\ Damaged(c)
      /\ GoodContext(c) /\ GoodContext(nn[p]) /\ wire[e] \in Seq(Byte) /\ wire[p] \in Seq(Byte)
  BY EndFacts
<1>2. c.sym_key # {} /\ ~Overrun(c) /\ (c.recv_pt # << >> => Whole(c)) /\ st[e] = "data"
  BY <1>1 DEF TypeOK, netnacl_recv, Phase, Joint, KeyedWell
<1>3. \E a \in Nat : \E hl, in, g, n : \E len \in 0 .. BUF_SIZ :
        a <= Len(Incoming(e)) /\ RecvDone(e, a, hl, in, g, n, len)
  BY <1>1, RecvIs
<1>4. PICK a \in Nat : \E hl, in, g, n : \E len \in 0 .. BUF_SIZ :
        a <= Len(Incoming(e)) /\ RecvDone(e, a, hl, in, g, n, len)
  BY <1>3
<1>5. PICK hl, in, g, n : \E len \in 0 .. BUF_SIZ :
        a <= Len(Incoming(e)) /\ RecvDone(e, a, hl, in, g, n, len)
  BY <1>4
<1>6. PICK len \in 0 .. BUF_SIZ : a <= Len(Incoming(e)) /\ RecvDone(e, a, hl, in, g, n, len)
  BY <1>5
<1> DEFINE bytes == SubSeq(wire[p], 1, a)
           q == Received(c, bytes, hl, len)
<1>7. /\ Good(bytes) /\ Len(bytes) = a /\ in \in Nat /\ in <= a /\ in <= Len(Incoming(e))
      /\ a <= Len(wire[p]) /\ len \in Nat
  BY <1>1, <1>6, RecvParts, Sizes DEF Incoming
<1>8. /\ hl \in Lengths(c, Header(c, bytes)) /\ g = Gather(c, bytes, hl)
      /\ n = decrypt_ciphertext(g) /\ Transfer(e, << >>, in) /\ in = ReadIn(c, bytes, hl)
  BY <1>6, <1>7 DEF RecvDone, Incoming, ReadIn
<1> HIDE DEF bytes
<1>9. nn' = [nn EXCEPT ![e] = q]
  <2>1. CASE Overrun(g)
    <3>1. n = g /\ n.recv_pt = << >>
      BY <1>1, <1>2, <1>7, <1>8, <2>1, OverrunStays
    <3>2. q = g
      BY <1>8, <3>1 DEF Received
    <3> QED
      BY <1>6, <2>1, <3>2 DEF RecvDone
  <2>2. CASE ~Overrun(g) /\ n.recv_pt # << >>
    BY <1>6, <1>8, <2>2 DEF RecvDone, Received
  <2>3. CASE ~Overrun(g) /\ n.recv_pt = << >>
    BY <1>6, <1>8, <2>3 DEF RecvDone, Received
  <2> QED
    BY <2>1, <2>2, <2>3
<1>10. st'[e] # "wrap" /\ st'[p] = st[p]
  <2>1. GivenUp(e, RecvCode(e, n, a)) # "wrap" /\ p # e /\ p \in Ends
    BY PeerEnd DEF GivenUp
  <2>2. st \in [Ends -> States]
    BY <1>1 DEF TypeOK
  <2> QED
    BY <1>2, <1>6, <2>1, <2>2 DEF RecvDone
<1> HIDE DEF q
<1> DEFINE inb == SubSeq(wire[p], 1, in)
           v == wire'[p]
           none == << >>
<1>11. /\ wire'[e] = wire[e] \o none
       /\ v \in Seq(Byte) /\ inb \in Seq(Byte) /\ wire[p] = inb \o v
  <2>1. none \in Seq(Byte) /\ Transfer(e, none, in)
    BY <1>8, EmptySeq
  <2> HIDE DEF none
  <2> QED
    BY <1>1, <1>7, <2>1, TransferWires
<1>12. wire'[e] = wire[e]
  BY <1>1, <1>11, ConcatEmptySeq
<1>13. inb = SubSeq(bytes, 1, ReadIn(c, bytes, hl))
  BY <1>1, <1>7, <1>8, PrefixOfPrefix DEF bytes
<1>14. Joint(e, c, nn[p], wire[e], inb \o v)
  BY <1>1, <1>11
<1> HIDE DEF inb, v
<1>15. Joint(e, q, nn[p], wire[e], v) /\ Damaged(q) /\ q.sym_key # {}
  <2>1. Joint(e, c, nn[p], wire[e], SubSeq(bytes, 1, ReadIn(c, bytes, hl)) \o v)
    BY <1>13, <1>14
  <2> QED
    BY <1>1, <1>2, <1>7, <1>8, <1>11, <2>1, RecvResult DEF q
<1>16. TypeOK'
  BY <1>1, RecvStep
<1>17. Joint(e, q, nn[p], wire'[e], wire'[p])
  BY <1>12, <1>15 DEF v
<1> QED
  BY <1>9, <1>10, <1>15, <1>16, <1>17, JointStep

-----------------------------------------------------------------------------
(* The key exchange.                                                       *)

\* An end without a key has no message in its buffers.
LEMMA Unkeyed ==
    ASSUME NEW c, GoodContext(c), KeyedWell(c), c.sym_key = {}
    PROVE  /\ Len(c.peer_pk) < crypto_box_PUBLICKEYBYTES
           /\ c.recv_hdr = << >> /\ c.recv_ct = << >> /\ c.recv_pt = << >>
           /\ c.send_buf = << >> /\ c.send_buf_pos = 0 /\ ~Whole(c) /\ Damaged(c)
<1>1. /\ Len(c.peer_pk) < crypto_box_PUBLICKEYBYTES
      /\ c.recv_hdr = << >> /\ c.recv_ct = << >> /\ c.recv_pt = << >> /\ c.send_buf = << >>
  BY DEF KeyedWell
<1>2. c.send_buf_pos = 0
  <2>1. Len(c.send_buf) = 0 /\ c.send_buf_pos \in Nat /\ c.send_buf_pos <= Len(c.send_buf)
    BY <1>1, ContextFields, EmptySeq
  <2> QED
    BY <2>1
<1>3. ~Whole(c)
  <2>1. Len(c.recv_hdr) = 0
    BY <1>1, EmptySeq
  <2> QED
    BY <2>1, Sizes DEF Whole
<1> QED
  BY <1>1, <1>2, <1>3 DEF Damaged

\* What such an end has still to send is a part of its key.
LEMMA KeyTail ==
    ASSUME NEW e \in Ends, NEW c, GoodContext(c), c.send_buf = << >>, c.send_buf_pos = 0
    PROVE  TailOf(e, c) =
             SubSeq(Frame(KeyMessage(e, c.pk)), c.key_bytes_sent + 1, crypto_box_PUBLICKEYBYTES)
<1>1. c.key_bytes_sent \in 0 .. crypto_box_PUBLICKEYBYTES
  BY ContextFields
<1>2. CASE c.key_bytes_sent < crypto_box_PUBLICKEYBYTES
  BY <1>2 DEF TailOf
<1>3. CASE ~(c.key_bytes_sent < crypto_box_PUBLICKEYBYTES)
  <2>1. TailOf(e, c) = << >>
    BY <1>3, NoTail
  <2>2. c.key_bytes_sent + 1 \in Int /\ crypto_box_PUBLICKEYBYTES < c.key_bytes_sent + 1
        /\ crypto_box_PUBLICKEYBYTES \in Int
    BY <1>1, <1>3, KeySize
  <2>3. SubSeq(Frame(KeyMessage(e, c.pk)), c.key_bytes_sent + 1, crypto_box_PUBLICKEYBYTES) = << >>
    BY <2>2, SubSeqEmpty
  <2> QED
    BY <2>1, <2>3
<1> QED
  BY <1>2, <1>3

\* A new pair of keys takes the place of one nothing was sent of.
LEMMA PairLink ==
    ASSUME NEW e \in Ends, NEW c, NEW d, GoodContext(c), GoodContext(d), KeyedWell(c),
           c.sym_key = {}, NEW w \in Seq(Byte), Link(e, c, w, d), c.key_bytes_sent = 0
    PROVE  Link(e, crypto_box_keypair(c), w, d) /\ Len(d.peer_pk) < crypto_box_PUBLICKEYBYTES
<1> DEFINE n == crypto_box_keypair(c)
           pub == KeyMessage(e, n.pk)
           F == Frame(pub)
           full == crypto_box_PUBLICKEYBYTES
<1>1. GoodContext(n) /\ n.pk \in Nat
  BY PairGood, ContextFields
<1>2. n = [c EXCEPT !.pk = c.pk + 1] /\ c \in Context
  BY DEF crypto_box_keypair, GoodContext
<1>3. /\ n.key_bytes_sent = 0 /\ n.sym_key = {} /\ n.send_buf = << >> /\ n.send_buf_pos = 0
  BY <1>2, Unkeyed DEF Context
<1>4. Len(d.peer_pk) = 0 /\ Len(w) = 0
  <2>1. Len(d.peer_pk) + Len(w) = 0
    BY KeySize DEF Link
  <2>2. Len(d.peer_pk) \in Nat /\ Len(w) \in Nat
    BY ContextLengths, LenProperties
  <2> QED
    BY <2>1, <2>2
<1>5. d.peer_pk = << >> /\ w = << >>
  BY <1>4, EmptySeq, ContextFields
<1>6. HeadOf(d) = << >>
  BY <1>4, <1>5, KeySize DEF HeadOf
<1>7. F \in Seq(Byte) /\ Len(F) = full
  BY <1>1, KeyFrame
<1>8. TailOf(e, n) = F
  <2>1. TailOf(e, n) = SubSeq(F, n.key_bytes_sent + 1, full)
    BY <1>1, <1>3, KeyTail
  <2>2. n.key_bytes_sent + 1 = 1
    BY <1>3
  <2> HIDE DEF F, n
  <2>3. SubSeq(F, 1, full) = F
    BY <1>7, SubSeqFull
  <2> QED
    BY <2>1, <2>2, <2>3
<1> HIDE DEF n, F
<1>9. StreamOf(e, n, w, d) = F
  <2>1. (<< >> \o << >>) \o F = F
    BY <1>7, ConcatEmptySeq
  <2> QED
    BY <1>5, <1>6, <1>8, <2>1 DEF StreamOf
<1>10. StreamOK(F, n.sym_key, pub, d.peer_pk)
  BY <1>1, <1>5, KeyStream DEF F
<1>11. n.key_bytes_sent < full => Len(d.peer_pk) + Len(w) = n.key_bytes_sent
  BY <1>3, <1>4
<1>12. Link(e, n, w, d)
  BY <1>9, <1>10, <1>11 DEF Link
<1> QED
  BY <1>4, <1>12, KeySize DEF n

\* crypto_box_keypair: no key depends on the pair that goes.
LEMMA PairJoint ==
    ASSUME NEW e \in Ends, NEW c, NEW d, GoodContext(c), GoodContext(d),
           NEW w \in Seq(Byte), NEW v, Joint(e, c, d, w, v), c.sym_key = {}
    PROVE  LET n == crypto_box_keypair(c)
           IN  /\ Joint(e, n, d, w, v) /\ n.sym_key = {} /\ GoodContext(n)
<1> DEFINE n == crypto_box_keypair(c)
<1>1. CASE c.key_bytes_sent # 0
  BY <1>1 DEF crypto_box_keypair
<1>2. CASE c.key_bytes_sent = 0
  <2>1. GoodContext(n) /\ c \in Context /\ n = [c EXCEPT !.pk = c.pk + 1]
    BY <1>2, PairGood DEF crypto_box_keypair, GoodContext
  <2>2. KeyedWell(c) /\ KeyedWell(d) /\ Link(e, c, w, d) /\ Link(Peer(e), d, v, c)
    BY DEF Joint
  <2>3. Link(e, n, w, d) /\ Len(d.peer_pk) < crypto_box_PUBLICKEYBYTES
    BY <1>2, <2>2, PairLink
  <2>4. d.sym_key = {}
    BY <2>2, <2>3 DEF KeyedWell
  <2>5. /\ SameReceived(c, n) /\ n.sym_key = c.sym_key /\ n.send_buf = c.send_buf
        /\ n.key_bytes_sent = c.key_bytes_sent
    BY <2>1 DEF Context, SameReceived
  <2> HIDE DEF n
  <2>6. Link(Peer(e), d, v, n)
    BY <2>2, <2>5, SameLink DEF SameReceived
  <2>7. KeyedWell(n)
    BY <2>2, <2>5 DEF KeyedWell, SameReceived
  <2> QED
    BY <2>1, <2>2, <2>3, <2>4, <2>5, <2>6, <2>7 DEF Joint, n
<1> QED
  BY <1>1, <1>2

\* More of the public key is sent.
LEMMA KeyOut ==
    ASSUME NEW e \in Ends, NEW c, NEW d, GoodContext(c), GoodContext(d),
           NEW w \in Seq(Byte), NEW v, Joint(e, c, d, w, v), c.sym_key = {},
           NEW k \in Nat, c.key_bytes_sent + k <= crypto_box_PUBLICKEYBYTES
    PROVE  LET n == [c EXCEPT !.key_bytes_sent = c.key_bytes_sent + k]
               out == SubSeq(Frame(KeyMessage(e, c.pk)),
                             c.key_bytes_sent + 1, c.key_bytes_sent + k)
           IN  /\ out \in Seq(Byte) /\ GoodContext(n) /\ n.sym_key = {}
               /\ Joint(e, n, d, w \o out, v)
<1> DEFINE n == [c EXCEPT !.key_bytes_sent = c.key_bytes_sent + k]
           F == Frame(KeyMessage(e, c.pk))
           a == c.key_bytes_sent
           full == crypto_box_PUBLICKEYBYTES
           out == SubSeq(F, a + 1, a + k)
<1>1. GoodContext(n) /\ c \in Context /\ c.pk \in Nat /\ a \in 0 .. full
  BY PairGood, ContextFields DEF GoodContext
<1>2. /\ n.pk = c.pk /\ n.sym_key = c.sym_key /\ n.key_bytes_sent = a + k
      /\ n.send_buf = c.send_buf /\ n.send_buf_pos = c.send_buf_pos /\ SameReceived(c, n)
  BY <1>1 DEF Context, SameReceived
<1>3. KeyedWell(c) /\ KeyedWell(d) /\ Link(e, c, w, d) /\ Link(Peer(e), d, v, c)
  BY DEF Joint
<1>4. F \in Seq(Byte) /\ Len(F) = full
  BY <1>1, KeyFrame
<1>5. c.send_buf = << >> /\ c.send_buf_pos = 0
  BY <1>3, Unkeyed
<1>6. TailOf(e, c) = SubSeq(F, a + 1, full) /\ TailOf(e, n) = SubSeq(F, (a + k) + 1, full)
  <2>1. TailOf(e, c) = SubSeq(F, a + 1, full)
    BY <1>5, KeyTail
  <2>2. TailOf(e, n) = SubSeq(Frame(KeyMessage(e, n.pk)), n.key_bytes_sent + 1, full)
    <3>1. n.send_buf = << >> /\ n.send_buf_pos = 0
      BY <1>2, <1>5
    <3> HIDE DEF n
    <3> QED
      BY <1>1, <3>1, KeyTail
  <2> HIDE DEF n
  <2> QED
    BY <1>2, <2>1, <2>2
<1>7. a \in Nat /\ a + k <= Len(F) /\ a + k \in Nat
  BY <1>1, <1>4, KeySize
<1> HIDE DEF F, a
<1>8. /\ out \in Seq(Byte) /\ Len(out) = k
      /\ SubSeq(F, a + 1, Len(F)) = out \o SubSeq(F, (a + k) + 1, Len(F))
  BY <1>4, <1>7, SplitTail
<1>9. TailOf(e, c) = out \o TailOf(e, n)
  BY <1>4, <1>6, <1>8
<1> HIDE DEF out, n
<1>10. n.key_bytes_sent < full => c.key_bytes_sent < full /\ n.key_bytes_sent = c.key_bytes_sent + Len(out)
  BY <1>2, <1>7, <1>8, KeySize DEF a
<1>11. Link(e, n, w \o out, d)
  BY <1>1, <1>2, <1>3, <1>8, <1>9, <1>10, SendMove
<1>12. Link(Peer(e), d, v, n)
  BY <1>2, <1>3, SameLink DEF SameReceived
<1>13. KeyedWell(n)
  BY <1>2, <1>3 DEF KeyedWell, SameReceived
<1>14. Shared(e, n, d) = Shared(e, c, d)
  BY <1>2 DEF Shared
<1>15. Joint(e, n, d, w \o out, v)
  BY <1>2, <1>3, <1>11, <1>12, <1>13, <1>14 DEF Joint
<1> QED
  BY <1>1, <1>2, <1>8, <1>15 DEF n, out, F, a

\* A part of the peer's key that leaves it incomplete.
LEMMA KeyPart ==
    ASSUME NEW e \in Ends, NEW c, NEW d, GoodContext(c), GoodContext(d), NEW w,
           NEW in \in Seq(Byte), NEW v \in Seq(Byte), Joint(e, c, d, w, in \o v),
           c.sym_key = {}, NEW q, GoodContext(q),
           q = [c EXCEPT !.peer_pk = c.peer_pk \o in],
           Len(c.peer_pk \o in) < crypto_box_PUBLICKEYBYTES
    PROVE  Joint(e, q, d, w, v) /\ q.sym_key = {} /\ Damaged(q)
<1>1. /\ KeyedWell(c) /\ KeyedWell(d) /\ Link(e, c, w, d) /\ Link(Peer(e), d, in \o v, c)
      /\ Peer(e) \in Ends /\ c \in Context
  BY PeerEnd DEF Joint, GoodContext
<1>2. /\ q.peer_pk = c.peer_pk \o in /\ SameKeys(c, q)
      /\ q.send_buf = c.send_buf /\ q.send_buf_pos = c.send_buf_pos
      /\ q.recv_hdr = c.recv_hdr /\ q.recv_ct = c.recv_ct /\ q.recv_pt = c.recv_pt
  BY <1>1 DEF Context, SameKeys
<1>3. Link(e, q, w, d)
  BY <1>1, <1>2, SameLink DEF SameKeys
<1>4. Len(c.peer_pk) < crypto_box_PUBLICKEYBYTES /\ Len(q.peer_pk) < crypto_box_PUBLICKEYBYTES
  BY <1>1, <1>2, Unkeyed
<1>5. HeadOf(q) = HeadOf(c) \o in
  BY <1>2, <1>4 DEF HeadOf
<1>6. Link(Peer(e), d, v, q)
  BY <1>1, <1>4, <1>5, RecvMove
<1>7. KeyedWell(q)
  BY <1>1, <1>2, <1>4, Unkeyed DEF KeyedWell, SameKeys
<1>8. Shared(e, q, d) = Shared(e, c, d) /\ q.sym_key = {}
  BY <1>2 DEF Shared, SameKeys
<1>9. Damaged(q)
  BY <1>7, <1>8, Unkeyed
<1> QED
  BY <1>1, <1>3, <1>6, <1>7, <1>8, <1>9 DEF Joint

\* A sender without a key has sent no message yet: any key will do for those
\* it has sent.
LEMMA KeyLink ==
    ASSUME NEW e, NEW c, NEW w, NEW r, NEW d, Link(e, c, w, r), c.sym_key = {},
           d.pk = c.pk, d.key_bytes_sent = c.key_bytes_sent,
           d.send_buf = c.send_buf, d.send_buf_pos = c.send_buf_pos
    PROVE  Link(e, d, w, r)
<1>1. TailOf(e, d) = TailOf(e, c)
  BY DEF TailOf
<1> DEFINE T == StreamOf(e, c, w, r)
<1>2. StreamOf(e, d, w, r) = T
  BY <1>1 DEF StreamOf
<1>3. StreamOK(T, c.sym_key, KeyMessage(e, c.pk), r.peer_pk)
  BY DEF Link
<1> HIDE DEF T
<1>4. \A i \in 1 .. Len(T) : ByteInv(T[i], d.sym_key)
  BY <1>3 DEF StreamOK, ByteInv
<1>5. StreamOK(T, d.sym_key, KeyMessage(e, d.pk), r.peer_pk)
  BY <1>3, <1>4 DEF StreamOK
<1> QED
  BY <1>2, <1>5 DEF Link

\* crypto_box_beforenm: the secret key of the one, the public key of the other.
LEMMA SharedKey ==
    ASSUME NEW e \in Ends, NEW q, NEW d, d.pk \in Nat, q.peer_pk = Frame(KeyMessage(Peer(e), d.pk))
    PROVE  crypto_box_beforenm(e, q) = Shared(e, q, d)
<1> DEFINE m == KeyMessage(Peer(e), d.pk)
           F == Frame(m)
           full == crypto_box_PUBLICKEYBYTES
<1>1. Peer(e) \in Ends
  BY PeerEnd
<1>2. /\ m \in Message /\ m.keys = {<<Peer(e), d.pk>>} /\ FrameLen(m) = full
      /\ F \in Seq(Byte) /\ Len(F) = full
  BY <1>1, KeyFrame
<1>3. \A i \in 1 .. full : F[i] = [msg |-> m, pos |-> i, ok |-> TRUE]
  BY <1>2, FrameAt
<1>4. DOMAIN F = 1 .. full
  BY <1>2, LenProperties
<1> HIDE DEF m, F
<1>5. \A i \in DOMAIN F : F[i].msg.keys = {<<Peer(e), d.pk>>}
  BY <1>2, <1>3, <1>4
<1>6. 1 \in DOMAIN F
  BY <1>4, KeySize
<1>7. UNION {F[i].msg.keys : i \in DOMAIN F} = {<<Peer(e), d.pk>>}
  BY <1>5, <1>6
<1>8. q.peer_pk = F
  BY DEF F, m
<1> QED
  BY <1>7, <1>8 DEF crypto_box_beforenm, Shared

\* The rest of the peer's key: both ends compute one key.
LEMMA KeyDone ==
    ASSUME NEW e \in Ends, NEW c, NEW d, GoodContext(c), GoodContext(d), NEW w,
           NEW in \in Seq(Byte), NEW v \in Seq(Byte), Joint(e, c, d, w, in \o v),
           c.sym_key = {}, c.key_bytes_sent = crypto_box_PUBLICKEYBYTES, NEW r,
           r.peer_pk = c.peer_pk \o in, Len(r.peer_pk) = crypto_box_PUBLICKEYBYTES,
           r.sym_key = crypto_box_beforenm(e, r),
           r.pk = c.pk, r.key_bytes_sent = c.key_bytes_sent,
           r.send_buf = c.send_buf, r.send_buf_pos = c.send_buf_pos,
           r.recv_hdr = c.recv_hdr, r.recv_ct = c.recv_ct, r.recv_pt = c.recv_pt
    PROVE  Joint(e, r, d, w, v) /\ r.sym_key # {} /\ Damaged(r)
<1> DEFINE p == Peer(e)
<1>1. /\ KeyedWell(c) /\ KeyedWell(d) /\ Link(e, c, w, d) /\ Link(p, d, in \o v, c)
      /\ p \in Ends /\ d.pk \in Nat
  BY PeerEnd, ContextFields DEF Joint
<1>2. /\ Len(c.peer_pk) < crypto_box_PUBLICKEYBYTES
      /\ c.recv_hdr = << >> /\ c.recv_ct = << >> /\ c.recv_pt = << >>
  BY <1>1, Unkeyed
<1>3. r.recv_hdr = << >> /\ r.recv_ct = << >> /\ r.recv_pt = << >>
  BY <1>2
<1>4. HeadOf(r) = << >> /\ ~(Len(r.peer_pk) < crypto_box_PUBLICKEYBYTES)
  <2>1. ~(Len(r.peer_pk) < crypto_box_PUBLICKEYBYTES)
    BY KeySize
  <2>2. << >> \o << >> = << >>
    BY ConcatEmptySeq, EmptySeq
  <2> QED
    BY <1>3, <2>1, <2>2 DEF HeadOf
<1>5. Link(p, d, v, r) /\ r.peer_pk = Frame(KeyMessage(p, d.pk))
  <2> HIDE DEF p
  <2> QED
    BY <1>1, <1>2, <1>4, RecvKey, SMTT(40)
<1>6. r.sym_key = Shared(e, r, d)
  BY <1>1, <1>5, SharedKey
<1>7. Shared(e, c, d) = Shared(e, r, d) /\ r.sym_key # {}
  BY <1>6 DEF Shared
<1>8. Link(e, r, w, d)
  BY <1>1, KeyLink
<1>9. ~Whole(r)
  <2>1. Len(r.recv_hdr) = 0
    BY <1>3, EmptySeq
  <2> QED
    BY <2>1, Sizes DEF Whole
<1>10. KeyedWell(r)
  <2>1. r.key_bytes_sent = crypto_box_PUBLICKEYBYTES
    OBVIOUS
  <2> QED
    BY <1>3, <1>4, <1>7, <2>1, Zenon DEF KeyedWell
<1>11. Damaged(r)
  BY <1>9 DEF Damaged
<1>12. d.sym_key # {} => d.sym_key = Shared(e, r, d)
  BY <1>7 DEF Joint
<1> QED
  BY <1>1, <1>5, <1>6, <1>7, <1>8, <1>10, <1>11, <1>12, Zenon DEF Joint

\* netnacl_wrap keeps the stream whole: the key goes out once, its parts in
\* order, and what has come of the peer's stays.
LEMMA WrapKeeps ==
    ASSUME StreamInv, NEW e \in Ends, netnacl_wrap(e)
    PROVE  StreamInv'
<1> DEFINE p == Peer(e)
           d == nn[p]
           w == wire[e]
           pair == crypto_box_keypair(nn[e])
           full == crypto_box_PUBLICKEYBYTES
           out(k) == [pair EXCEPT !.key_bytes_sent = @ + k]
           bytes(k) == SubSeq(Frame(KeyMessage(e, pair.pk)),
                              pair.key_bytes_sent + 1, out(k).key_bytes_sent)
           in(k, a) == MIN(full - Len(out(k).peer_pk), a)
           arrived(k, a) == SubSeq(Incoming(e), 1, in(k, a))
           key(k, a) == KeyReceived(out(k), arrived(k, a))
           keyed(k, a) == [out(k) EXCEPT !.peer_pk = key(k, a)]
           done(k, a) == Len(key(k, a)) = full
           least(k) == IF k = 0 THEN 1 ELSE 0
<1>1. /\ TypeOK /\ Joint(e, nn[e], d, w, wire[p]) /\ Phase(e)
      /\ GoodContext(nn[e]) /\ GoodContext(d) /\ w \in Seq(Byte) /\ wire[p] \in Seq(Byte)
  BY EndFacts
<1>2. PICK k \in IF pair.key_bytes_sent = full THEN {0} ELSE KeyTaken(e, pair) :
        \/ /\ nn' = [nn EXCEPT ![e] = out(k)]
           /\ Transfer(e, bytes(k), 0)
           /\ UNCHANGED st
        \/ /\ out(k).key_bytes_sent = full
           /\ \E a \in Arrived(e, least(k)) :
                /\ nn' = [nn EXCEPT ![e] =
                     IF done(k, a)
                       THEN [keyed(k, a) EXCEPT !.sym_key = crypto_box_beforenm(e, keyed(k, a))]
                       ELSE keyed(k, a)]
                /\ Transfer(e, bytes(k), in(k, a))
                /\ st' = [st EXCEPT ![e] =
                     IF done(k, a) THEN "data" ELSE IF AtEnd(e, a) THEN "closed" ELSE @]
  BY ZenonT(40) DEF netnacl_wrap
<1>3. /\ st[e] = "wrap" /\ nn[e].sym_key = {} /\ p \in Ends /\ p # e
      /\ st \in [Ends -> States]
  <2>1. st[e] = "wrap" /\ p \in Ends /\ p # e
    BY PeerEnd DEF netnacl_wrap
  <2> QED
    BY <1>1, <2>1 DEF Phase, TypeOK
<1>4. Joint(e, pair, d, w, wire[p]) /\ pair.sym_key = {} /\ GoodContext(pair)
  BY <1>1, <1>3, PairJoint
<1>5. TypeOK'
  BY <1>1, WrapStep
<1> HIDE DEF pair
<1>6. k \in Nat /\ pair.key_bytes_sent + k <= full /\ pair \in Context
  <2>1. pair.key_bytes_sent \in 0 .. full /\ pair \in Context
    BY <1>4, ContextFields DEF GoodContext
  <2>2. full - pair.key_bytes_sent \in Nat
    BY <2>1, KeySize
  <2>3. CASE k = 0
    BY <2>1, <2>3, KeySize
  <2>4. CASE k \in Taken(e, full - pair.key_bytes_sent)
    <3>1. k \in Nat /\ k <= full - pair.key_bytes_sent
      BY <1>1, <2>2, <2>4, TakenFits
    <3> QED
      BY <2>1, <3>1, KeySize
  <2> QED
    BY <1>2, <2>3, <2>4 DEF KeyTaken
<1>7. /\ out(k).key_bytes_sent = pair.key_bytes_sent + k
      /\ bytes(k) \in Seq(Byte) /\ GoodContext(out(k)) /\ out(k).sym_key = {}
      /\ Joint(e, out(k), d, w \o bytes(k), wire[p])
  <2>1. out(k).key_bytes_sent = pair.key_bytes_sent + k
    BY <1>6 DEF Context
  <2> QED
    BY <1>1, <1>4, <1>6, <2>1, KeyOut
<1> HIDE DEF out, bytes
<1>8. CASE /\ nn' = [nn EXCEPT ![e] = out(k)]
           /\ Transfer(e, bytes(k), 0)
           /\ UNCHANGED st
  <2>1. wire'[e] = w \o bytes(k) /\ wire'[p] = wire[p]
    <3>1. 0 \in Nat /\ 0 <= Len(Incoming(e))
      BY <1>1, TypeParts
    <3> QED
      BY <1>1, <1>7, <1>8, <3>1, TransferWires
  <2>2. Joint(e, out(k), nn[p], wire'[e], wire'[p]) /\ Damaged(out(k))
    BY <1>7, <2>1, Unkeyed DEF Joint
  <2> QED
    BY <1>3, <1>5, <1>7, <1>8, <2>2, JointStep
<1>9. ASSUME out(k).key_bytes_sent = full, NEW a \in Arrived(e, least(k)),
             nn' = [nn EXCEPT ![e] =
               IF done(k, a)
                 THEN [keyed(k, a) EXCEPT !.sym_key = crypto_box_beforenm(e, keyed(k, a))]
                 ELSE keyed(k, a)],
             Transfer(e, bytes(k), in(k, a)),
             st' = [st EXCEPT ![e] =
               IF done(k, a) THEN "data" ELSE IF AtEnd(e, a) THEN "closed" ELSE @]
      PROVE  StreamInv'
  <2> DEFINE c == out(k)
             n == IF done(k, a)
                    THEN [keyed(k, a) EXCEPT !.sym_key = crypto_box_beforenm(e, keyed(k, a))]
                    ELSE keyed(k, a)
             inb == SubSeq(wire[p], 1, in(k, a))
             v == wire'[p]
  <2>1. a \in Nat /\ a <= Len(Incoming(e)) /\ Good(Incoming(e)) /\ Len(Incoming(e)) \in Nat
    <3>1. least(k) \in Nat
      OBVIOUS
    <3> QED
      BY <1>1, <3>1, ArrivedFits, TypeParts
  <2>2. in(k, a) \in Nat /\ in(k, a) <= a /\ Len(c.peer_pk) + in(k, a) <= full
    <3>1. \A l \in Nat : l <= full =>
            /\ MIN(full - l, a) \in Nat /\ MIN(full - l, a) <= a
            /\ l + MIN(full - l, a) <= full
      BY <2>1, KeySize DEF MIN
    <3>2. Len(c.peer_pk) \in Nat /\ Len(c.peer_pk) <= full
      BY <1>7, ContextFields, ContextLengths
    <3> QED
      BY <3>1, <3>2, Zenon
  <2> HIDE DEF in
  <2>3. in(k, a) <= Len(Incoming(e))
    BY <2>1, <2>2
  <2>4. /\ wire'[e] = w \o bytes(k)
        /\ v \in Seq(Byte) /\ inb \in Seq(Byte) /\ Len(inb) = in(k, a) /\ wire[p] = inb \o v
    BY <1>1, <1>7, <1>9, <2>2, <2>3, TransferWires
  <2>5. arrived(k, a) = inb
    BY DEF Incoming
  <2> HIDE DEF arrived, inb, v, c
  <2>6. key(k, a) = c.peer_pk \o inb
    BY <2>5 DEF KeyReceived, c
  <2>7. Joint(e, c, d, wire'[e], inb \o v) /\ GoodContext(c) /\ c.sym_key = {} /\ c \in Context
        /\ c.key_bytes_sent = full
    BY <1>7, <1>9, <2>4 DEF c, GoodContext
  <2>8. Good(inb) /\ Len(c.peer_pk) + Len(inb) <= full
    <3>1. 1 \in Nat /\ 1 <= 1 /\ 1 <= in(k, a) + 1
      BY <2>2
    <3> QED
      BY <2>1, <2>2, <2>3, <2>4, <3>1, SubSeqGood DEF inb, Incoming
  <2>9. keyed(k, a) = [c EXCEPT !.peer_pk = KeyReceived(c, inb)]
    BY <2>5 DEF c
  <2>10. GoodContext(keyed(k, a))
    BY <2>7, <2>8, <2>9, KeyedGood
  <2> DEFINE q == keyed(k, a)
  <2> HIDE DEF key
  <2>11. /\ q = [c EXCEPT !.peer_pk = c.peer_pk \o inb] /\ q \in Context
    BY <2>6, <2>10 DEF c, GoodContext
  <2> HIDE DEF keyed
  <2>12. CASE done(k, a)
    <3>1. n = [q EXCEPT !.sym_key = crypto_box_beforenm(e, q)]
      BY <2>12
    <3> HIDE DEF q
    <3>2. /\ q.peer_pk = c.peer_pk \o inb
          /\ q.pk = c.pk /\ q.key_bytes_sent = c.key_bytes_sent
          /\ q.send_buf = c.send_buf /\ q.send_buf_pos = c.send_buf_pos
          /\ q.recv_hdr = c.recv_hdr /\ q.recv_ct = c.recv_ct /\ q.recv_pt = c.recv_pt
      BY <2>7, <2>11 DEF Context
    <3> DEFINE sym == crypto_box_beforenm(e, q)
    <3> HIDE DEF n, sym
    <3>3. /\ n.peer_pk = q.peer_pk /\ n.sym_key = sym
          /\ n.pk = q.pk /\ n.key_bytes_sent = q.key_bytes_sent
          /\ n.send_buf = q.send_buf /\ n.send_buf_pos = q.send_buf_pos
          /\ n.recv_hdr = q.recv_hdr /\ n.recv_ct = q.recv_ct /\ n.recv_pt = q.recv_pt
      BY <2>11, <3>1 DEF Context, sym
    <3>4. n.sym_key = crypto_box_beforenm(e, n)
      BY <3>3 DEF crypto_box_beforenm, sym
    <3>5. Len(c.peer_pk \o inb) = full
      BY <2>6, <2>12
    <3>6. Joint(e, n, d, wire'[e], v) /\ n.sym_key # {} /\ Damaged(n)
      BY <1>1, <2>4, <2>7, <3>2, <3>3, <3>4, <3>5, KeyDone, ZenonT(40)
    <3>7. st'[e] = "data" /\ st'[p] = st[p]
      BY <1>3, <1>9, <2>12
    <3>8. nn' = [nn EXCEPT ![e] = n] /\ Joint(e, n, nn[p], wire'[e], wire'[p])
      BY <1>9, <3>6 DEF n, v, keyed, q
    <3> QED
      BY <1>5, <3>6, <3>7, <3>8, JointStep
  <2>13. CASE ~done(k, a)
    <3>1. n = q
      BY <2>13
    <3>2. Len(c.peer_pk \o inb) < full
      <4>1. Len(c.peer_pk \o inb) = Len(c.peer_pk) + Len(inb) /\ Len(c.peer_pk) \in Nat /\ Len(inb) \in Nat
        <5>1. c.peer_pk \in Seq(Byte)
          BY <2>7, ContextFields
        <5> QED
          BY <2>4, <5>1, ConcatAt
      <4>2. Len(c.peer_pk \o inb) # full
        BY <2>6, <2>13
      <4> QED
        BY <2>8, <4>1, <4>2, KeySize
    <3> HIDE DEF q, n
    <3>3. Joint(e, q, d, wire'[e], v) /\ q.sym_key = {} /\ Damaged(q)
      BY <1>1, <2>4, <2>7, <2>10, <2>11, <3>2, KeyPart DEF q
    <3>4. st'[e] # "data" /\ st'[p] = st[p]
      BY <1>3, <1>9, <2>13
    <3>5. nn' = [nn EXCEPT ![e] = q] /\ Joint(e, q, nn[p], wire'[e], wire'[p])
      BY <1>9, <3>1, <3>3 DEF n, v, q
    <3> QED
      BY <1>5, <3>3, <3>4, <3>5, JointStep
  <2> QED
    BY <2>12, <2>13
<1> QED
  BY <1>2, <1>8, <1>9

-----------------------------------------------------------------------------
(* Faults, and the steps that touch no stream.                             *)

\* The bytes t are the bytes s, some of those of messages damaged.
Worn(s, t) ==
    /\ Len(t) = Len(s)
    /\ \A i \in 1 .. Len(s) :
         /\ t[i].msg = s[i].msg /\ t[i].pos = s[i].pos
         /\ t[i].ok \/ t[i].ok = s[i].ok \/ s[i].msg.pt # << >>

\* Damage to parts is damage to the whole.
LEMMA WornConcat ==
    ASSUME NEW s \in Seq(Byte), NEW t \in Seq(Byte), NEW a \in Seq(Byte), NEW b \in Seq(Byte),
           Worn(s, t), Worn(a, b)
    PROVE  Worn(s \o a, t \o b)
<1> DEFINE x == s \o a
           y == t \o b
           n == Len(s)
           m == Len(a)
<1>1. /\ n \in Nat /\ m \in Nat /\ Len(x) = n + m
      /\ \A i \in 1 .. n : x[i] = s[i]
      /\ \A i \in 1 .. m : x[n + i] = a[i]
  BY ConcatAt
<1>2. Len(t) = n /\ Len(b) = m
  BY DEF Worn
<1>3. /\ Len(y) = n + m
      /\ \A i \in 1 .. n : y[i] = t[i]
      /\ \A i \in 1 .. m : y[n + i] = b[i]
  <2>1. /\ Len(y) = Len(t) + Len(b)
        /\ \A i \in 1 .. Len(t) : y[i] = t[i]
        /\ \A i \in 1 .. Len(b) : y[Len(t) + i] = b[i]
    BY ConcatAt
  <2> HIDE DEF n, m, y
  <2> QED
    BY <1>2, <2>1
<1> HIDE DEF x, y
<1> DEFINE R(u, v) == /\ v.msg = u.msg /\ v.pos = u.pos
                      /\ v.ok \/ v.ok = u.ok \/ u.msg.pt # << >>
<1>4. (\A i \in 1 .. n : R(s[i], t[i])) /\ (\A i \in 1 .. m : R(a[i], b[i]))
  BY DEF Worn
<1> HIDE DEF R, n, m
<1>5. ASSUME NEW i \in 1 .. n + m PROVE R(x[i], y[i])
  <2>1. CASE i <= n
    BY <1>1, <1>3, <1>4, <2>1
  <2>2. CASE i > n
    <3> DEFINE j == i - n
    <3>1. j \in 1 .. m /\ i = n + j
      BY <1>1, <2>2
    <3> HIDE DEF j
    <3> QED
      BY <1>1, <1>3, <1>4, <3>1
  <2> QED
    BY <1>1, <2>1, <2>2
<1>6. Worn(x, y)
  BY <1>1, <1>3, <1>5 DEF Worn, R
<1> QED
  BY <1>6 DEF x, y

\* Damage on the way changes no frame.
LEMMA DamageLink ==
    ASSUME NEW e \in Ends, NEW c, NEW d, GoodContext(c), GoodContext(d),
           NEW w \in Seq(Byte), NEW u \in Seq(Byte), Worn(w, u), Link(e, c, w, d)
    PROVE  Link(e, c, u, d)
<1> DEFINE H == HeadOf(d)
           t == TailOf(e, c)
<1>1. /\ H \in Seq(Byte) /\ t \in Seq(Byte) /\ H \o w \in Seq(Byte) /\ H \o u \in Seq(Byte)
      /\ StreamOf(e, c, w, d) \in Seq(Byte) /\ StreamOf(e, c, u, d) \in Seq(Byte)
  BY StreamType
<1>2. Worn(H, H) /\ Worn(t, t)
  BY DEF Worn
<1> HIDE DEF H, t
<1>3. Worn(H \o w, H \o u)
  BY <1>1, <1>2, WornConcat
<1>4. Worn((H \o w) \o t, (H \o u) \o t)
  BY <1>1, <1>2, <1>3, WornConcat
<1> DEFINE T == StreamOf(e, c, w, d)
           U == StreamOf(e, c, u, d)
<1>5. Worn(T, U)
  BY <1>4 DEF StreamOf, H, t
<1>6. StreamOK(T, c.sym_key, KeyMessage(e, c.pk), d.peer_pk)
  BY DEF Link
<1>7. T \in Seq(Byte) /\ U \in Seq(Byte)
  BY <1>1
<1> HIDE DEF T, U
<1>8. StreamOK(U, c.sym_key, KeyMessage(e, c.pk), d.peer_pk)
  BY <1>5, <1>6, <1>7, StreamDamage DEF Worn
<1>9. Len(u) = Len(w)
  BY DEF Worn
<1> QED
  BY <1>8, <1>9 DEF Link, U

\* A byte is damaged on the way.
LEMMA CorruptKeeps ==
    ASSUME StreamInv, NEW e \in Ends, Corrupt(e)
    PROVE  StreamInv'
<1> DEFINE p == Peer(e)
           w == wire[e]
<1>1. /\ TypeOK /\ Joint(e, nn[e], nn[p], w, wire[p]) /\ Phase(e) /\ Damaged(nn[e])
      /\ GoodContext(nn[e]) /\ GoodContext(nn[p]) /\ w \in Seq(Byte)
  BY EndFacts
<1>2. PICK i \in DOMAIN w : /\ w[i].msg.pt # << >>
                            /\ wire' = [wire EXCEPT ![e][i].ok = FALSE]
  BY DEF Corrupt
<1> DEFINE b == [w[i] EXCEPT !.ok = FALSE]
           u == [w EXCEPT ![i] = b]
<1>3. w[i] \in Byte /\ DOMAIN w = 1 .. Len(w)
  BY <1>1, <1>2, LenProperties
<1>4. b \in Byte /\ b.msg = w[i].msg /\ b.pos = w[i].pos
  BY <1>3 DEF Byte
<1>5. u \in Seq(Byte) /\ Len(u) = Len(w)
  <2> HIDE DEF b
  <2> QED
    BY <1>1, <1>2, <1>4, ExceptSeq, LenProperties
<1>6. \A j \in 1 .. Len(w) : u[j] = IF j = i THEN b ELSE w[j]
  BY <1>3
<1>7. wire'[e] = u /\ wire'[p] = wire[p]
  BY <1>1, <1>2, PeerEnd DEF TypeOK
<1> HIDE DEF b, u, w
<1>8. Worn(w, u)
  BY <1>2, <1>4, <1>5, <1>6 DEF Worn
<1>9. Link(e, nn[e], u, nn[p])
  BY <1>1, <1>5, <1>8, DamageLink DEF Joint
<1>10. Joint(e, nn[e], nn[p], wire'[e], wire'[p])
  BY <1>1, <1>7, <1>9 DEF Joint
<1>11. TypeOK'
  BY <1>1, CorruptStep
<1>12. nn' = [nn EXCEPT ![e] = nn[e]] /\ st' = st
  BY <1>1 DEF Corrupt, TypeOK
<1> QED
  BY <1>1, <1>10, <1>11, <1>12, JointStep DEF Phase

\* A step that touches no context and no byte under way, and at most ends an end.
LEMMA QuietKeeps ==
    ASSUME StreamInv, TypeOK', nn' = nn, wire' = wire,
           \A f \in Ends : st'[f] = st[f] \/ st'[f] \notin {"wrap", "data"}
    PROVE  StreamInv'
<1>1. \A f \in Ends : Phase(f)'
  BY DEF StreamInv, Phase
<1>2. OnlyDamageFails'
  BY DEF StreamInv, OnlyDamageFails, Whole
<1> QED
  BY <1>1, <1>2 DEF StreamInv

\* Two ends that have sent nothing.
LEMMA InitStream == Init => StreamInv
<1> SUFFICES ASSUME Init PROVE StreamInv
  OBVIOUS
<1> DEFINE c == netnacl_create
           none == << >>
<1>1. TypeOK
  BY InitType
<1>2. /\ c.pk = 0 /\ c.key_bytes_sent = 0 /\ c.peer_pk = none /\ c.sym_key = {}
      /\ c.recv_hdr = none /\ c.recv_ct = none /\ c.recv_pt = none
      /\ c.send_buf = none /\ c.send_buf_pos = 0
  BY DEF netnacl_create
<1>3. \A e \in Ends : nn[e] = c /\ wire[e] = none /\ st[e] = "wrap" /\ Peer(e) \in Ends
  BY PeerEnd DEF Init
<1>4. GoodContext(c) /\ none \in Seq(Byte) /\ Len(none) = 0 /\ none = << >>
  BY CreateGood, EmptySeq
<1> HIDE DEF c, none
<1>5. KeyedWell(c)
  BY <1>2, <1>4, KeySize DEF KeyedWell
<1>6. Damaged(c)
  BY <1>2, <1>4, <1>5, Unkeyed
<1>7. \A e \in Ends : Link(e, c, none, c)
  <2> SUFFICES ASSUME NEW e \in Ends PROVE Link(e, c, none, c)
    OBVIOUS
  <2> DEFINE F == Frame(KeyMessage(e, 0))
             full == crypto_box_PUBLICKEYBYTES
  <2>1. F \in Seq(Byte) /\ Len(F) = full
    BY KeyFrame
  <2>2. HeadOf(c) = none
    BY <1>2, <1>4, KeySize DEF HeadOf
  <2>3. TailOf(e, c) = SubSeq(F, 0 + 1, full)
    BY <1>2, KeySize DEF TailOf
  <2> HIDE DEF F
  <2>4. SubSeq(F, 0 + 1, full) = F
    BY <2>1, SubSeqFull
  <2>5. (none \o none) \o F = F
    BY <1>4, <2>1, ConcatEmptySeq
  <2>6. StreamOf(e, c, none, c) = F
    BY <2>2, <2>3, <2>4, <2>5, Zenon DEF StreamOf
  <2>7. StreamOK(F, c.sym_key, KeyMessage(e, c.pk), c.peer_pk)
    BY <1>2, <1>4, KeyStream DEF F
  <2>8. Len(c.peer_pk) + Len(none) = c.key_bytes_sent
    BY <1>2, <1>4
  <2> QED
    BY <2>6, <2>7, <2>8 DEF Link
<1>8. \A e \in Ends : Joint(e, nn[e], nn[Peer(e)], wire[e], wire[Peer(e)]) /\ Phase(e)
  BY <1>2, <1>3, <1>5, <1>7 DEF Joint, Phase
<1>9. OnlyDamageFails
  BY <1>3, <1>6 DEF OnlyDamageFails, Damaged
<1> QED
  BY <1>1, <1>8, <1>9 DEF StreamInv

\* Every step, and a step that changes nothing.
LEMMA NextStream == StreamInv /\ [Next]_vars => StreamInv'
<1> SUFFICES ASSUME StreamInv, [Next]_vars PROVE StreamInv'
  OBVIOUS
<1>1. TypeOK /\ TypeOK'
  BY NextType DEF StreamInv
<1>2. CASE UNCHANGED vars
  BY <1>1, <1>2, QuietKeeps DEF vars
<1>3. ASSUME NEW e \in Ends, Call(e) PROVE StreamInv'
  <2>1. CASE NewBuffer(e)
    BY <1>1, <2>1, QuietKeeps DEF NewBuffer
  <2> QED
    BY <1>3, <2>1, WrapKeeps, SendKeeps, RecvKeeps DEF Call
<1>4. ASSUME NEW e \in Ends, randombytes(e) \/ Close(e) PROVE StreamInv'
  <2>1. nn' = nn /\ wire' = wire
    BY <1>4 DEF randombytes, Close
  <2>2. \A f \in Ends : st'[f] = st[f] \/ st'[f] \notin {"wrap", "data"}
    BY <1>1, <1>4 DEF randombytes, Close, TypeOK
  <2> QED
    BY <1>1, <2>1, <2>2, QuietKeeps
<1> QED
  BY <1>2, <1>3, <1>4, CorruptKeeps DEF Next

-----------------------------------------------------------------------------
\* In every reachable state each direction carries whole frames, the key first,
\* however the kernel cut up what netnacl_wrap and netnacl_send sent.
THEOREM StreamsAreFrames == Spec => []StreamInv
<1>1. Init => StreamInv
  BY InitStream
<1>2. StreamInv /\ [Next]_vars => StreamInv'
  BY NextStream
<1> QED
  BY <1>1, <1>2, PTL DEF Spec

\* Two ends that have finished netnacl_wrap hold the same key, for any length
\* of key and any number of pairs crypto_box_keypair was called for.
THEOREM KeyAgreement == Spec => []KeysAgree
<1>1. StreamInv => KeysAgree
  <2> SUFFICES ASSUME StreamInv PROVE KeysAgree
    OBVIOUS
  <2>1. "A" \in Ends /\ Peer("A") = "B"
    BY DEF Ends, Peer
  <2>2. Joint("A", nn["A"], nn["B"], wire["A"], wire["B"])
    BY <2>1 DEF StreamInv
  <2> QED
    BY <2>2 DEF Joint, KeysAgree
<1> QED
  BY <1>1, StreamsAreFrames, PTL

\* A message that netnacl_recv has completed and could not decrypt holds a byte
\* that was damaged on the way: whatever was kept between calls on either side
\* makes up the box that netnacl_send encrypted.
THEOREM DamageOnly == Spec => []OnlyDamageFails
<1>1. StreamInv => OnlyDamageFails
  BY DEF StreamInv
<1> QED
  BY <1>1, StreamsAreFrames, PTL
=============================================================================
