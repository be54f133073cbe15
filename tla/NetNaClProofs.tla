---------------------------- MODULE NetNaClProofs ----------------------------
(***************************************************************************)
(* Which arrays of a netnacl_t no call leaves, and what it takes to leave  *)
(* recv_ct, for every size of keys, headers, padding and messages that 16  *)
(* bits can count, every way the kernel cuts up what is sent, and every    *)
(* length a damaged header may show.                                       *)
(***************************************************************************)
EXTENDS NetNaCl, SequenceTheorems, TLAPS

\* A sequence of bytes of messages that are not too long.
Good(s) == s \in Seq(Byte) /\ Sound(s)

\* A context of the right type that fits its arrays.
GoodContext(n) == n \in Context /\ Fits(n)

\* The sizes, without the rest of the assumption.
LEMMA Sizes ==
    /\ crypto_box_PUBLICKEYBYTES \in Nat /\ crypto_box_ZEROBYTES \in Nat
    /\ sizeof_hdr \in Nat /\ sizeof_hdr > 0 /\ NN_MAX_MESSAGE_LEN \in Nat
    /\ UINT16_MAX \in Nat
    /\ sizeof_hdr + crypto_box_ZEROBYTES + NN_MAX_MESSAGE_LEN <= UINT16_MAX
    /\ BUF_SIZ \in Nat /\ Window \in Nat
    /\ sizeof_len \in Nat /\ 1 <= sizeof_len /\ sizeof_len <= sizeof_hdr
    /\ \A l \in DamagedLens : l \in 0 .. UINT16_MAX
<1>1. \A l \in DamagedLens : l \in 0 .. UINT16_MAX
  BY NetNaClAssumption, Zenon
<1>2. /\ sizeof_len \in 1 .. sizeof_hdr /\ sizeof_hdr \in Nat \ {0}
      /\ crypto_box_PUBLICKEYBYTES \in Nat \ {0} /\ crypto_box_ZEROBYTES \in Nat
      /\ NN_MAX_MESSAGE_LEN \in Nat \ {0} /\ BUF_SIZ \in Nat \ {0} /\ Window \in Nat
      /\ sizeof_hdr + crypto_box_ZEROBYTES + NN_MAX_MESSAGE_LEN <= UINT16_MAX
  BY NetNaClAssumption, Zenon
<1>3. sizeof_len \in Nat /\ 1 <= sizeof_len /\ sizeof_len <= sizeof_hdr
  BY <1>2
<1>4. /\ crypto_box_PUBLICKEYBYTES \in Nat /\ crypto_box_ZEROBYTES \in Nat
      /\ sizeof_hdr \in Nat /\ sizeof_hdr > 0 /\ NN_MAX_MESSAGE_LEN \in Nat
      /\ UINT16_MAX \in Nat
      /\ sizeof_hdr + crypto_box_ZEROBYTES + NN_MAX_MESSAGE_LEN <= UINT16_MAX
      /\ BUF_SIZ \in Nat /\ Window \in Nat
  BY <1>2 DEF UINT16_MAX
<1> QED
  BY <1>1, <1>3, <1>4, Zenon

\* No bytes at all.
LEMMA EmptyGood == Good(<< >>)
BY DEF Good, Sound

\* A part of what was received or is to be sent.
LEMMA SubSeqGood ==
    ASSUME NEW s, Good(s), NEW a \in Nat, NEW b \in Nat, 1 <= a, a <= b + 1, b <= Len(s)
    PROVE  Good(SubSeq(s, a, b)) /\ Len(SubSeq(s, a, b)) = b - a + 1
<1>1. \A i \in a .. b : s[i] \in Byte /\ Len(s[i].msg.pt) <= NN_MAX_MESSAGE_LEN
  BY LenProperties DEF Good, Sound
<1>2. /\ SubSeq(s, a, b) \in Seq(Byte)
      /\ Len(SubSeq(s, a, b)) = b - a + 1
      /\ \A i \in 1 .. b - a + 1 : SubSeq(s, a, b)[i] = s[a + i - 1]
  BY <1>1, SubSeqProperties
<1>3. Sound(SubSeq(s, a, b))
  BY <1>1, <1>2, LenProperties DEF Sound
<1> QED
  BY <1>2, <1>3 DEF Good

\* What a call adds to what an earlier call left.
LEMMA ConcatGood ==
    ASSUME NEW s, NEW t, Good(s), Good(t)
    PROVE  Good(s \o t) /\ Len(s \o t) = Len(s) + Len(t)
<1>1. /\ s \o t \in Seq(Byte)
      /\ Len(s \o t) = Len(s) + Len(t)
      /\ \A i \in 1 .. Len(s) + Len(t) : (s \o t)[i] = IF i <= Len(s) THEN s[i] ELSE t[i - Len(s)]
  BY ConcatProperties DEF Good
<1>2. /\ Len(s) \in Nat /\ Len(t) \in Nat
      /\ DOMAIN s = 1 .. Len(s) /\ DOMAIN t = 1 .. Len(t) /\ DOMAIN (s \o t) = 1 .. Len(s \o t)
  BY <1>1, LenProperties DEF Good
<1>3. Sound(s \o t)
  <2> SUFFICES ASSUME NEW i \in 1 .. Len(s) + Len(t)
               PROVE  Len((s \o t)[i].msg.pt) <= NN_MAX_MESSAGE_LEN
    BY <1>1, <1>2 DEF Sound
  <2>1. CASE i <= Len(s)
    BY <2>1, <1>1, <1>2 DEF Good, Sound
  <2>2. CASE i > Len(s)
    BY <2>2, <1>1, <1>2 DEF Good, Sound
  <2> QED
    BY <2>1, <2>2, <1>2
<1> QED
  BY <1>1, <1>3 DEF Good

\* The bytes of a key or of a message.
LEMMA FrameGood ==
    ASSUME NEW m \in Message, Len(m.pt) <= NN_MAX_MESSAGE_LEN
    PROVE  /\ Good(Frame(m)) /\ Len(Frame(m)) = FrameLen(m)
           /\ FrameLen(m) = IF m.pt = << >> THEN crypto_box_PUBLICKEYBYTES
                            ELSE sizeof_hdr + crypto_box_ZEROBYTES + Len(m.pt)
<1>1. Len(m.pt) \in Nat
  BY LenProperties DEF Message
<1>2. FrameLen(m) \in Nat
  <2>1. CASE m.pt = << >>
    BY <2>1, Sizes DEF FrameLen
  <2>2. CASE m.pt # << >>
    <3>1. FrameLen(m) = sizeof_hdr + crypto_box_ZEROBYTES + Len(m.pt)
      BY <2>2, Zenon DEF FrameLen
    <3>2. \A l \in Nat : sizeof_hdr + crypto_box_ZEROBYTES + l \in Nat
      BY Sizes
    <3> QED
      BY <3>1, <3>2, <1>1
  <2> QED
    BY <2>1, <2>2
<1>3. \A i \in 1 .. FrameLen(m) : [msg |-> m, pos |-> i, ok |-> TRUE] \in Byte
  BY <1>2 DEF Byte
<1>4. Frame(m) \in Seq(Byte) /\ Len(Frame(m)) = FrameLen(m)
  BY <1>2, <1>3 DEF Frame
<1>5. Sound(Frame(m))
  BY <1>4, <1>2 DEF Sound, Frame
<1> QED
  BY <1>4, <1>5 DEF Good, FrameLen

-----------------------------------------------------------------------------
(* One context.                                                            *)

\* What a netnacl_t that fits its arrays holds.
LEMMA ContextFields ==
    ASSUME NEW n, GoodContext(n)
    PROVE  /\ n.pk \in Nat /\ n.key_bytes_sent \in 0 .. crypto_box_PUBLICKEYBYTES
           /\ n.sym_key \in Keys /\ n.nonces \in Nat
           /\ n.peer_pk \in Seq(Byte) /\ Len(n.peer_pk) <= crypto_box_PUBLICKEYBYTES
           /\ Good(n.recv_hdr) /\ n.recv_ct \in Seq(Byte) /\ HeaderFits(n)
           /\ n.len \in Nat /\ n.len \in 0 .. UINT16_MAX
           /\ n.recv_pt \in Seq(Nat) /\ Len(n.recv_pt) <= NN_MAX_MESSAGE_LEN
           /\ n.recv_pt_pos \in Nat /\ n.recv_pt_pos <= Len(n.recv_pt)
           /\ Good(n.send_buf) /\ n.send_buf_pos \in Nat /\ n.send_buf_pos <= Len(n.send_buf)
           /\ Len(n.send_buf) <= sizeof_hdr + crypto_box_ZEROBYTES + NN_MAX_MESSAGE_LEN
<1>1. n \in Context /\ Fits(n)
  BY DEF GoodContext
<1>2. /\ n.pk \in Nat /\ n.key_bytes_sent \in 0 .. crypto_box_PUBLICKEYBYTES
      /\ n.sym_key \in Keys /\ n.nonces \in Nat /\ n.peer_pk \in Seq(Byte)
      /\ n.recv_hdr \in Seq(Byte) /\ n.recv_ct \in Seq(Byte) /\ n.send_buf \in Seq(Byte)
      /\ n.recv_pt \in Seq(Nat)
      /\ n.recv_pt_pos \in 0 .. UINT16_MAX /\ n.send_buf_pos \in 0 .. UINT16_MAX
      /\ n.len \in 0 .. UINT16_MAX
  BY <1>1 DEF Context
<1> QED
  BY <1>1, <1>2, Sizes DEF Fits, Good

\* Lengths are numbers.
LEMMA ContextLengths ==
    ASSUME NEW n, GoodContext(n)
    PROVE  /\ Len(n.peer_pk) \in Nat /\ Len(n.recv_hdr) \in Nat /\ Len(n.recv_ct) \in Nat
           /\ Len(n.recv_pt) \in Nat /\ Len(n.send_buf) \in Nat
BY ContextFields, LenProperties DEF Good

\* The netnacl_t that netnacl_create returns.
LEMMA CreateGood == GoodContext(netnacl_create)
<1>1. netnacl_create \in Context
  BY Sizes DEF netnacl_create, Context, Keys
<1>2. Fits(netnacl_create)
  BY Sizes DEF netnacl_create, Fits, HeaderFits, Sound
<1> QED
  BY <1>1, <1>2 DEF GoodContext

\* The length field of a complete header, and the plaintext it announces.
LEMMA SentLenFits ==
    ASSUME NEW h, Good(h), Len(h) > 0
    PROVE  /\ h[1].msg.pt \in Seq(Nat) /\ Len(h[1].msg.pt) \in Nat
           /\ Len(h[1].msg.pt) <= NN_MAX_MESSAGE_LEN
           /\ SentLen(h) \in Nat /\ SentLen(h) = crypto_box_ZEROBYTES + Len(h[1].msg.pt)
           /\ SentLen(h) <= recv_ct_size /\ SentLen(h) <= UINT16_MAX
<1>1. h[1] \in Byte /\ Len(h[1].msg.pt) <= NN_MAX_MESSAGE_LEN
  BY LenProperties DEF Good, Sound
<1>2. h[1].msg.pt \in Seq(Nat)
  BY <1>1 DEF Byte, Message
<1>3. Len(h[1].msg.pt) \in Nat
  BY <1>2, LenProperties
<1>4. SentLen(h) = crypto_box_ZEROBYTES + Len(h[1].msg.pt)
  BY Zenon DEF SentLen
<1>5. \A l \in Nat : l <= NN_MAX_MESSAGE_LEN =>
        /\ crypto_box_ZEROBYTES + l \in Nat /\ crypto_box_ZEROBYTES + l <= recv_ct_size
        /\ crypto_box_ZEROBYTES + l <= UINT16_MAX
  BY Sizes DEF recv_ct_size
<1> QED
  BY <1>1, <1>2, <1>3, <1>4, <1>5

\* recv_hdr: the header grows by what is read, and is never too long.
LEMMA HeaderGood ==
    ASSUME NEW n, GoodContext(n), NEW bytes, Good(bytes)
    PROVE  /\ HdrIn(n, Len(bytes)) \in 0 .. Len(bytes)
           /\ Good(Header(n, bytes))
           /\ Len(Header(n, bytes)) = Len(n.recv_hdr) + HdrIn(n, Len(bytes))
           /\ Len(Header(n, bytes)) <= sizeof_hdr
<1>1. Len(n.recv_hdr) \in Nat /\ Len(n.recv_hdr) <= sizeof_hdr /\ Len(bytes) \in Nat
  BY ContextFields, ContextLengths, LenProperties DEF HeaderFits, Good
<1>2. HdrIn(n, Len(bytes)) \in 0 .. Len(bytes)
      /\ Len(n.recv_hdr) + HdrIn(n, Len(bytes)) <= sizeof_hdr
  <2>1. \A a, b \in Nat : a <= sizeof_hdr =>
          MIN(sizeof_hdr - a, b) \in 0 .. b /\ a + MIN(sizeof_hdr - a, b) <= sizeof_hdr
    BY Sizes DEF MIN
  <2> QED
    BY <1>1, <2>1, Zenon DEF HdrIn
<1>3. Good(SubSeq(bytes, 1, HdrIn(n, Len(bytes))))
      /\ Len(SubSeq(bytes, 1, HdrIn(n, Len(bytes)))) = HdrIn(n, Len(bytes))
  BY <1>1, <1>2, SubSeqGood
<1>4. Good(n.recv_hdr)
  BY ContextFields
<1>5. Good(Header(n, bytes))
      /\ Len(Header(n, bytes)) = Len(n.recv_hdr) + HdrIn(n, Len(bytes))
  BY <1>3, <1>4, ConcatGood DEF Header
<1> QED
  BY <1>2, <1>5

\* A complete header stays what it is.
LEMMA HeaderStays ==
    ASSUME NEW n, GoodContext(n), NEW bytes, Good(bytes), Len(n.recv_hdr) = sizeof_hdr
    PROVE  HdrIn(n, Len(bytes)) = 0 /\ Header(n, bytes) = n.recv_hdr
<1>1. HdrIn(n, Len(bytes)) = 0
  <2>1. /\ HdrIn(n, Len(bytes)) \in 0 .. Len(bytes) /\ Len(Header(n, bytes)) <= sizeof_hdr
        /\ Len(Header(n, bytes)) = Len(n.recv_hdr) + HdrIn(n, Len(bytes))
    BY HeaderGood
  <2> QED
    BY <2>1, Sizes
<1>2. SubSeq(bytes, 1, HdrIn(n, Len(bytes))) = << >>
  BY <1>1, SubSeqEmpty
<1>3. n.recv_hdr \in Seq(Byte)
  BY ContextFields DEF Good
<1> QED
  BY <1>1, <1>2, <1>3, ConcatEmptySeq DEF Header

\* The length after the call: 16 bits that leave room for what was received,
\* and the sender's unless they were damaged.
LEMMA LengthsGood ==
    ASSUME NEW n, GoodContext(n), NEW bytes, Good(bytes), NEW len \in Lengths(n, Header(n, bytes))
    PROVE  LET hdr == Header(n, bytes)
           IN  /\ len \in Nat /\ len \in 0 .. UINT16_MAX
               /\ Len(hdr) = sizeof_hdr => Len(n.recv_ct) <= len
               /\ Len(hdr) = sizeof_hdr /\ LenIntact(hdr) => len = SentLen(hdr)
<1>0. PICK hdr : hdr = Header(n, bytes)
  OBVIOUS
<1>1. Good(hdr) /\ HeaderFits(n) /\ n.len \in 0 .. UINT16_MAX /\ UINT16_MAX \in Nat
  BY <1>0, HeaderGood, ContextFields, Sizes
<1>2. Len(n.recv_hdr) \in Nat /\ Len(hdr) \in Nat /\ Len(n.recv_hdr) <= sizeof_hdr
  BY <1>1, ContextLengths, LenProperties DEF Good, HeaderFits
<1>3. CASE Len(n.recv_hdr) < sizeof_hdr /\ Len(hdr) = sizeof_hdr
  <2>1. len \in ntohs(hdr)
    BY <1>0, <1>3 DEF Lengths
  <2>2. SentLen(hdr) \in Nat /\ SentLen(hdr) <= UINT16_MAX
    BY <1>1, <1>3, Sizes, SentLenFits
  <2>3. len \in 0 .. UINT16_MAX /\ (LenIntact(hdr) => len = SentLen(hdr))
    <3>1. CASE LenIntact(hdr)
      BY <1>1, <2>1, <2>2, <3>1 DEF ntohs
    <3>2. CASE ~LenIntact(hdr)
      BY <2>1, <3>2, Sizes DEF ntohs
    <3> QED
      BY <3>1, <3>2
  <2>4. Len(n.recv_ct) = 0
    BY <1>1, <1>2, <1>3, Sizes DEF HeaderFits
  <2> QED
    BY <1>0, <1>1, <2>3, <2>4
<1>4. CASE ~(Len(n.recv_hdr) < sizeof_hdr /\ Len(hdr) = sizeof_hdr)
  <2>1. len = n.len
    BY <1>0, <1>4 DEF Lengths
  <2>2. ASSUME Len(hdr) = sizeof_hdr
        PROVE  Len(n.recv_ct) <= n.len /\ (LenIntact(hdr) => n.len = SentLen(hdr))
    <3>1. Len(n.recv_hdr) = sizeof_hdr
      BY <1>2, <1>4, <2>2, Sizes
    <3>2. hdr = n.recv_hdr
      BY <1>0, <3>1, HeaderStays
    <3> QED
      BY <1>1, <3>1, <3>2 DEF HeaderFits
  <2> QED
    BY <1>0, <1>1, <2>1, <2>2
<1> QED
  BY <1>3, <1>4

\* recv_ciphertext reads no more than the header says, and only behind a
\* complete header.
LEMMA CtInFits ==
    ASSUME NEW n, GoodContext(n), NEW bytes, Good(bytes), NEW len \in Lengths(n, Header(n, bytes))
    PROVE  LET h == HdrIn(n, Len(bytes))
               hdr == Header(n, bytes)
               c == CtIn(n, hdr, len, Len(bytes))
           IN  /\ c \in 0 .. Len(bytes) - h
               /\ Len(hdr) < sizeof_hdr => c = 0
               /\ Len(hdr) = sizeof_hdr => Len(n.recv_ct) + c <= len
<1> DEFINE h == HdrIn(n, Len(bytes))
           hdr == Header(n, bytes)
           c == CtIn(n, hdr, len, Len(bytes))
<1> SUFFICES /\ c \in 0 .. Len(bytes) - h
             /\ Len(hdr) < sizeof_hdr => c = 0
             /\ Len(hdr) = sizeof_hdr => Len(n.recv_ct) + c <= len
  OBVIOUS
<1>1. /\ h \in 0 .. Len(bytes) /\ Good(hdr) /\ Len(hdr) <= sizeof_hdr
      /\ Len(hdr) = Len(n.recv_hdr) + h
  BY HeaderGood
<1>2. Len(bytes) \in Nat /\ Len(hdr) \in Nat /\ Len(n.recv_ct) \in Nat /\ Len(n.recv_hdr) \in Nat
  BY <1>1, ContextLengths, LenProperties DEF Good
<1>3. CASE Len(hdr) < sizeof_hdr
  <2>1. c = 0
    BY <1>3 DEF CtIn
  <2> QED
    BY <2>1, <1>1, <1>2, <1>3, Sizes
<1>4. CASE Len(hdr) = sizeof_hdr
  <2>1. len \in Nat /\ Len(n.recv_ct) <= len
    BY <1>4, LengthsGood
  <2>3. c = MIN(len - Len(n.recv_ct), Len(bytes) - h)
    BY <1>4, Sizes DEF CtIn
  <2> HIDE DEF c, h, hdr
  <2>4. \A w \in Nat, l \in Nat : l <= w =>
          MIN(w - l, Len(bytes) - h) \in 0 .. Len(bytes) - h
          /\ l + MIN(w - l, Len(bytes) - h) <= w
    BY <1>1, <1>2 DEF MIN
  <2>5. c \in 0 .. Len(bytes) - h /\ Len(n.recv_ct) + c <= len
    BY <1>2, <2>1, <2>3, <2>4, Zenon
  <2>6. ~(Len(hdr) < sizeof_hdr)
    BY <1>2, <1>4, Sizes
  <2> QED
    BY <2>5, <2>6, Zenon
<1> HIDE DEF c, h, hdr
<1>5. Len(hdr) < sizeof_hdr \/ Len(hdr) = sizeof_hdr
  BY <1>1, <1>2, Sizes
<1> QED
  BY <1>3, <1>4, <1>5

\* What the call has read is part of a context again.
LEMMA GatherGood ==
    ASSUME NEW n, GoodContext(n), NEW bytes, Good(bytes), NEW len \in Lengths(n, Header(n, bytes))
    PROVE  GoodContext(Gather(n, bytes, len))
<1> DEFINE h == HdrIn(n, Len(bytes))
           hdr == Header(n, bytes)
           c == CtIn(n, hdr, len, Len(bytes))
           ct == n.recv_ct \o SubSeq(bytes, h + 1, h + c)
<1>1. /\ h \in 0 .. Len(bytes) /\ Good(hdr) /\ Len(hdr) <= sizeof_hdr
  BY HeaderGood
<1>2. /\ c \in 0 .. Len(bytes) - h
      /\ Len(hdr) < sizeof_hdr => c = 0
      /\ Len(hdr) = sizeof_hdr => Len(n.recv_ct) + c <= len
  BY CtInFits
<1>2a. len \in 0 .. UINT16_MAX /\ (Len(hdr) = sizeof_hdr /\ LenIntact(hdr) => len = SentLen(hdr))
  BY LengthsGood
<1>3. Len(bytes) \in Nat /\ n.recv_ct \in Seq(Byte) /\ Len(n.recv_ct) \in Nat
  BY ContextFields, ContextLengths, LenProperties DEF Good
<1> HIDE DEF h, hdr, c
<1>4. SubSeq(bytes, h + 1, h + c) \in Seq(Byte) /\ Len(SubSeq(bytes, h + 1, h + c)) = c
  <2>1. /\ h + 1 \in Nat /\ h + c \in Nat /\ 1 <= h + 1 /\ h + 1 <= (h + c) + 1
        /\ h + c <= Len(bytes) /\ (h + c) - (h + 1) + 1 = c
    BY <1>1, <1>2, <1>3
  <2> QED
    BY <2>1, SubSeqGood DEF Good
<1>5. ct \in Seq(Byte) /\ Len(ct) = Len(n.recv_ct) + c
  BY <1>3, <1>4, ConcatProperties
<1>6. ct # << >> => Len(hdr) = sizeof_hdr
  <2> SUFFICES ASSUME Len(hdr) # sizeof_hdr PROVE ct = << >>
    OBVIOUS
  <2>1. Len(n.recv_hdr) # sizeof_hdr
    BY <1>1, HeaderGood, ContextLengths, Sizes DEF h, hdr
  <2>2. n.recv_ct = << >>
    BY <2>1, ContextFields DEF HeaderFits
  <2>3. Len(hdr) \in Nat
    BY <1>1, LenProperties DEF Good
  <2>4. c = 0
    BY <1>1, <1>2, <2>3, Sizes
  <2>5. Len(ct) = 0
    BY <1>5, <2>2, <2>4
  <2> QED
    BY <1>5, <2>5, EmptySeq
<1> HIDE DEF ct
<1>7. Gather(n, bytes, len) = [n EXCEPT !.recv_hdr = hdr, !.len = len, !.recv_ct = ct]
  BY DEF Gather, h, hdr, c, ct
<1>8. Gather(n, bytes, len) \in Context
  BY <1>1, <1>2a, <1>5, <1>7 DEF Good, GoodContext, Context
<1>9. Fits(Gather(n, bytes, len))
  BY <1>1, <1>2, <1>2a, <1>5, <1>6, <1>7 DEF Good, GoodContext, Context, Fits, HeaderFits
<1> QED
  BY <1>8, <1>9 DEF GoodContext

\* The plaintext is no longer than the header of its message allows.
LEMMA DecryptGood ==
    ASSUME NEW n, GoodContext(n)
    PROVE  GoodContext(decrypt_ciphertext(n))
<1>1. CASE Whole(n) /\ n.recv_pt = << >> /\ crypto_box_open_afternm(n)
  <2>1. Good(n.recv_hdr) /\ Len(n.recv_hdr) > 0
    BY <1>1, ContextFields, Sizes DEF Whole
  <2> DEFINE pt == n.recv_hdr[1].msg.pt
  <2>2. pt \in Seq(Nat) /\ Len(pt) \in Nat /\ Len(pt) <= NN_MAX_MESSAGE_LEN
    BY <2>1, SentLenFits
  <2>3. n.recv_pt_pos = 0
    <3>1. Len(n.recv_pt) = 0
      BY <1>1
    <3> QED
      BY <3>1, ContextFields
  <2>4. decrypt_ciphertext(n) = [n EXCEPT !.recv_pt = pt]
    BY <1>1 DEF decrypt_ciphertext
  <2> HIDE DEF pt
  <2> QED
    <3>1. decrypt_ciphertext(n) \in Context
      BY <2>2, <2>4 DEF GoodContext, Context
    <3>2. Fits(decrypt_ciphertext(n))
      BY <2>2, <2>3, <2>4 DEF GoodContext, Context, Fits, HeaderFits
    <3> QED
      BY <3>1, <3>2 DEF GoodContext
<1>2. CASE ~(Whole(n) /\ n.recv_pt = << >> /\ crypto_box_open_afternm(n))
  BY <1>2 DEF decrypt_ciphertext
<1> QED
  BY <1>1, <1>2

\* A copy takes no more than there is and no more than the caller has room for.
LEMMA CopyGood ==
    ASSUME NEW n, GoodContext(n), NEW len \in Nat
    PROVE  /\ ReadSize(n, len) \in 0 .. len
           /\ n.recv_pt_pos + ReadSize(n, len) \in 0 .. Len(n.recv_pt)
           /\ GoodContext(AfterCopy(n, len))
<1>1. /\ Len(n.recv_pt) \in Nat /\ n.recv_pt_pos \in Nat /\ n.recv_pt_pos <= Len(n.recv_pt)
      /\ Len(n.recv_pt) <= NN_MAX_MESSAGE_LEN
  BY ContextFields, ContextLengths
<1>2. /\ ReadSize(n, len) \in 0 .. len
      /\ n.recv_pt_pos + ReadSize(n, len) \in 0 .. Len(n.recv_pt)
  BY <1>1 DEF ReadSize, MIN
<1> SUFFICES GoodContext(AfterCopy(n, len))
  BY <1>2
<1>3. CASE n.recv_pt_pos + ReadSize(n, len) = Len(n.recv_pt)
  <2> DEFINE none == << >>
  <2>1. AfterCopy(n, len) = [n EXCEPT !.recv_hdr = none, !.len = 0, !.recv_ct = none,
                                      !.recv_pt = none, !.recv_pt_pos = 0]
    BY <1>3 DEF AfterCopy, Reset
  <2>2. none \in Seq(Byte) /\ none \in Seq(Nat) /\ Len(none) = 0 /\ Sound(none) /\ none = << >>
    BY EmptyGood DEF Good
  <2>3. 0 \in 0 .. UINT16_MAX
    BY Sizes
  <2> HIDE DEF none
  <2>4. AfterCopy(n, len) \in Context
    BY <2>1, <2>2, <2>3 DEF GoodContext, Context
  <2>5. Fits(AfterCopy(n, len))
    BY <2>1, <2>2, Sizes DEF GoodContext, Context, Fits, HeaderFits
  <2> QED
    BY <2>4, <2>5 DEF GoodContext
<1>4. CASE n.recv_pt_pos + ReadSize(n, len) # Len(n.recv_pt)
  <2> DEFINE pos == n.recv_pt_pos + ReadSize(n, len)
  <2>1. AfterCopy(n, len) = [n EXCEPT !.recv_pt_pos = pos]
    BY <1>4 DEF AfterCopy
  <2>2. pos \in 0 .. UINT16_MAX /\ pos <= Len(n.recv_pt)
    BY <1>1, <1>2, Sizes
  <2> HIDE DEF pos
  <2> QED
    BY <1>2, <2>1, <2>2 DEF GoodContext, Context, Fits, HeaderFits
<1> QED
  BY <1>3, <1>4

\* encrypt_plaintext: a new message fits send_buf.
LEMMA PreparedGood ==
    ASSUME NEW n, GoodContext(n), NEW pos \in Nat, NEW len \in Nat, len > 0
    PROVE  /\ GoodContext(Prepared(n, pos, len)) /\ pt_len(len) \in Nat
           /\ Prepared(n, pos, len).send_buf_pos \in 0 .. Len(Prepared(n, pos, len).send_buf)
<1>1. pt_len(len) \in Nat /\ pt_len(len) > 0 /\ pt_len(len) <= NN_MAX_MESSAGE_LEN
  BY NetNaClAssumption DEF pt_len, MIN
<1>2. GoodContext(Prepared(n, pos, len))
  <2>1. CASE n.send_buf # << >>
    BY <2>1 DEF Prepared
  <2>2. CASE n.send_buf = << >>
    <3> DEFINE pt == [i \in 1 .. pt_len(len) |-> pos + i]
               m == [pt |-> pt, nonce |-> n.nonces + 1, keys |-> n.sym_key]
    <3>1. pt \in Seq(Nat) /\ Len(pt) = pt_len(len)
      BY <1>1
    <3>2. n.nonces + 1 \in Nat /\ n.sym_key \in Keys
      BY ContextFields
    <3>3. pt # << >>
      BY <3>1, <1>1
    <3> HIDE DEF pt
    <3>4. m \in Message /\ m.pt = pt
      BY <3>1, <3>2 DEF Message
    <3> HIDE DEF m
    <3>5. Good(Frame(m)) /\ Len(Frame(m)) = sizeof_hdr + crypto_box_ZEROBYTES + pt_len(len)
      BY <1>1, <3>1, <3>3, <3>4, FrameGood, Zenon
    <3>6. Len(Frame(m)) <= sizeof_hdr + crypto_box_ZEROBYTES + NN_MAX_MESSAGE_LEN
          /\ Len(Frame(m)) \in Nat
      BY <1>1, <3>5, Sizes
    <3>7. n.send_buf_pos = 0
      <4>1. Len(n.send_buf) = 0
        BY <2>2
      <4> QED
        BY <4>1, ContextFields
    <3>8. Prepared(n, pos, len) = [n EXCEPT !.nonces = n.nonces + 1, !.send_buf = Frame(m)]
      BY <2>2 DEF Prepared, encrypt_plaintext, m, pt
    <3> DEFINE f == Frame(m)
    <3> HIDE DEF f
    <3>9. /\ Good(f) /\ Len(f) \in Nat
          /\ Len(f) <= sizeof_hdr + crypto_box_ZEROBYTES + NN_MAX_MESSAGE_LEN
          /\ Prepared(n, pos, len) = [n EXCEPT !.nonces = n.nonces + 1, !.send_buf = f]
      BY <3>5, <3>6, <3>8 DEF f
    <3> QED
      <4>1. Prepared(n, pos, len) \in Context
        BY <3>2, <3>9 DEF Good, GoodContext, Context
      <4>2. Fits(Prepared(n, pos, len))
        BY <3>7, <3>9 DEF Good, GoodContext, Context, Fits, HeaderFits
      <4> QED
        BY <4>1, <4>2 DEF GoodContext
  <2> QED
    BY <2>1, <2>2
<1>3. Prepared(n, pos, len).send_buf_pos \in 0 .. Len(Prepared(n, pos, len).send_buf)
  BY <1>2, ContextFields, ContextLengths
<1> QED
  BY <1>1, <1>2, <1>3

\* send_ciphertext moves within send_buf.
LEMMA SendGood ==
    ASSUME NEW n, GoodContext(n), NEW k \in Nat, n.send_buf_pos + k <= Len(n.send_buf)
    PROVE  GoodContext(send_ciphertext(n, k))
<1>1. /\ n.send_buf_pos \in Nat /\ Len(n.send_buf) \in Nat
      /\ Len(n.send_buf) <= sizeof_hdr + crypto_box_ZEROBYTES + NN_MAX_MESSAGE_LEN
  BY ContextFields, ContextLengths
<1> DEFINE pos == n.send_buf_pos + k
<1>2. pos \in 0 .. UINT16_MAX /\ pos <= Len(n.send_buf)
  BY <1>1, Sizes
<1>3. CASE pos = Len(n.send_buf)
  <2> DEFINE none == << >>
  <2>1. send_ciphertext(n, k) = [n EXCEPT !.send_buf = none, !.send_buf_pos = 0]
    BY <1>3 DEF send_ciphertext
  <2>2. none \in Seq(Byte) /\ Len(none) = 0 /\ Sound(none)
    BY EmptyGood DEF Good
  <2>3. 0 \in 0 .. UINT16_MAX
    BY Sizes
  <2> HIDE DEF none
  <2>4. send_ciphertext(n, k) \in Context
    BY <2>1, <2>2, <2>3 DEF GoodContext, Context
  <2>5. 0 <= sizeof_hdr + crypto_box_ZEROBYTES + NN_MAX_MESSAGE_LEN
    BY Sizes
  <2>6. HeaderFits(send_ciphertext(n, k))
    BY <2>1 DEF GoodContext, Context, Fits, HeaderFits
  <2>7. Fits(send_ciphertext(n, k))
    BY <2>1, <2>2, <2>5, <2>6 DEF GoodContext, Context, Fits
  <2> QED
    BY <2>4, <2>7 DEF GoodContext
<1>4. CASE pos # Len(n.send_buf)
  <2>1. send_ciphertext(n, k) = [n EXCEPT !.send_buf_pos = pos]
    BY <1>4 DEF send_ciphertext
  <2> HIDE DEF pos
  <2> QED
    BY <1>2, <2>1 DEF GoodContext, Context, Fits, HeaderFits
<1> QED
  BY <1>3, <1>4

-----------------------------------------------------------------------------
(* Steps.                                                                  *)

WireOK == /\ wire \in [Ends -> Seq(Byte)]
          /\ \A e \in Ends : Len(wire[e]) <= Window /\ Sound(wire[e])

\* The connection has two ends.
LEMMA PeerEnd == \A e \in Ends : Peer(e) \in Ends /\ Peer(e) # e /\ Peer(Peer(e)) = e
BY DEF Ends, Peer

\* What the invariant says of one end and of what it may read.
LEMMA TypeParts ==
    ASSUME TypeOK, NEW e \in Ends
    PROVE  /\ GoodContext(nn[e]) /\ Good(wire[e]) /\ Good(Incoming(e))
           /\ Len(wire[e]) \in Nat /\ Len(Incoming(e)) \in Nat /\ Room(e) \in Nat
<1>1. /\ GoodContext(nn[e]) /\ Good(wire[e]) /\ Good(wire[Peer(e)])
      /\ Len(wire[e]) <= Window
  BY PeerEnd DEF TypeOK, GoodContext, Good
<1>2. Len(wire[e]) \in Nat /\ Len(wire[Peer(e)]) \in Nat
  BY <1>1, LenProperties DEF Good
<1>3. Room(e) \in Nat
  BY <1>1, <1>2, Sizes DEF Room
<1> QED
  BY <1>1, <1>2, <1>3 DEF Incoming

\* What is sent fits the window, what is read was there.
LEMMA TransferGood ==
    ASSUME TypeOK, NEW e \in Ends, NEW out, Good(out), Len(out) <= Room(e),
           NEW in \in Nat, in <= Len(Incoming(e)), Transfer(e, out, in)
    PROVE  WireOK'
<1> DEFINE w == wire[e] \o out
           v == SubSeq(wire[Peer(e)], in + 1, Len(wire[Peer(e)]))
<1>1. Good(wire[e]) /\ Good(wire[Peer(e)]) /\ Len(wire[e]) \in Nat /\ Len(wire[Peer(e)]) \in Nat
      /\ Len(wire[Peer(e)]) <= Window
  BY TypeParts, PeerEnd DEF Incoming, TypeOK
<1>2. Good(w) /\ Len(w) = Len(wire[e]) + Len(out)
  BY <1>1, ConcatGood
<1>3. Len(out) \in Nat
  BY LenProperties DEF Good
<1>4. Len(w) <= Window
  BY <1>1, <1>2, <1>3, Sizes DEF Room
<1>5. Good(v) /\ Len(v) <= Window
  <2>1. in + 1 \in Nat /\ 1 <= in + 1 /\ in + 1 <= Len(wire[Peer(e)]) + 1
    BY <1>1 DEF Incoming
  <2>2. Good(v) /\ Len(v) = Len(wire[Peer(e)]) - (in + 1) + 1
    BY <1>1, <2>1, SubSeqGood
  <2> QED
    BY <1>1, <2>2, Sizes
<1>6. wire' = [wire EXCEPT ![e] = w, ![Peer(e)] = v]
  BY PeerEnd DEF Transfer, TypeOK
<1> HIDE DEF w, v
<1>7. wire' \in [Ends -> Seq(Byte)] /\ wire'[e] = w /\ wire'[Peer(e)] = v
  BY <1>2, <1>5, <1>6, PeerEnd DEF TypeOK, Good
<1>8. \A f \in Ends : f = e \/ f = Peer(e)
  BY DEF Ends, Peer
<1> QED
  BY <1>2, <1>4, <1>5, <1>7, <1>8 DEF WireOK, Good

\* What a call leaves behind.
LEMMA TypeAfter ==
    ASSUME TypeOK, NEW e \in Ends, NEW n, GoodContext(n), nn' = [nn EXCEPT ![e] = n], WireOK',
           st' \in [Ends -> States],
           sent' \in [Ends -> Nat], size' \in [Ends -> Nat], space' \in [Ends -> 0 .. BUF_SIZ],
           got' \in [Ends -> Seq(Nat)], eagain' \in [Ends -> BOOLEAN],
           st'[e] = "overrun" <=> Overrun(n), \A f \in Ends : f # e => st'[f] = st[f]
    PROVE  TypeOK'
<1>1. nn' \in [Ends -> Context] /\ \A f \in Ends : Fits(nn'[f])
  BY DEF TypeOK, GoodContext
<1>2. nn'[e] = n /\ \A f \in Ends : f # e => nn'[f] = nn[f]
  BY DEF TypeOK
<1>3. \A f \in Ends : st'[f] = "overrun" <=> Overrun(nn'[f])
  <2>1. \A f \in Ends : st[f] = "overrun" <=> Overrun(nn[f])
    BY DEF TypeOK
  <2> QED
    BY <1>2, <2>1
<1> QED
  BY <1>1, <1>3, Zenon DEF TypeOK, WireOK

\* send() never takes more than is offered or than there is room for.
LEMMA TakenFits ==
    ASSUME TypeOK, NEW e \in Ends, NEW want \in Nat, NEW k \in Taken(e, want)
    PROVE  k \in Nat /\ k <= want /\ k <= Room(e)
BY TypeParts DEF Taken, MIN

\* recv() returns no more than is under way.
LEMMA ArrivedFits ==
    ASSUME TypeOK, NEW e \in Ends, NEW least \in Nat, NEW a \in Arrived(e, least)
    PROVE  a \in Nat /\ a <= Len(Incoming(e))
BY TypeParts DEF Arrived, MIN

\* Two new contexts, before the first call.
LEMMA InitType == Init => TypeOK
<1> SUFFICES ASSUME Init PROVE TypeOK
  OBVIOUS
<1>1. nn \in [Ends -> Context] /\ \A e \in Ends : Fits(nn[e])
  BY CreateGood DEF Init, GoodContext
<1>1a. \A e \in Ends : ~Overrun(nn[e])
  <2>1. ~Overrun(netnacl_create)
    BY Sizes DEF Overrun, recv_ct_size, netnacl_create
  <2> QED
    BY <2>1 DEF Init
<1>1b. \A e \in Ends : st[e] # "overrun"
  BY DEF Init
<1>2. wire \in [Ends -> Seq(Byte)] /\ \A e \in Ends : Len(wire[e]) <= Window /\ Sound(wire[e])
  BY Sizes DEF Init, Sound
<1>3. got \in [Ends -> Seq(Nat)] /\ eagain \in [Ends -> BOOLEAN]
  BY DEF Init
<1>4. /\ st \in [Ends -> States]
      /\ sent \in [Ends -> Nat] /\ size \in [Ends -> Nat] /\ space \in [Ends -> 0 .. BUF_SIZ]
  BY Sizes DEF Init, States
<1> QED
  BY <1>1, <1>1a, <1>1b, <1>2, <1>3, <1>4 DEF TypeOK

\* netnacl_send: the bytes that go out are bytes of send_buf.
LEMMA SendStep ==
    ASSUME TypeOK, NEW e \in Ends, netnacl_send(e)
    PROVE  TypeOK'
<1> DEFINE len == size[e] - sent[e]
           n == Prepared(nn[e], sent[e], len)
<1>1. sent[e] \in Nat /\ size[e] \in Nat /\ sent[e] < size[e]
  BY DEF netnacl_send, TypeOK
<1>2. len \in Nat /\ len > 0
  BY <1>1
<1>3. PICK k \in Taken(e, Len(n.send_buf) - n.send_buf_pos) :
        LET whole == n.send_buf_pos + k = Len(n.send_buf)
        IN  /\ Transfer(e, SubSeq(n.send_buf, n.send_buf_pos + 1, n.send_buf_pos + k), 0)
            /\ nn' = [nn EXCEPT ![e] = send_ciphertext(n, k)]
            /\ sent' = [sent EXCEPT ![e] = IF whole THEN @ + pt_len(len) ELSE @]
            /\ eagain' = [eagain EXCEPT ![e] = @ \/ ~whole]
  BY DEF netnacl_send
<1> HIDE DEF len
<1>4. GoodContext(n) /\ pt_len(len) \in Nat /\ n.send_buf_pos \in 0 .. Len(n.send_buf)
  BY <1>1, <1>2, TypeParts, PreparedGood
<1>5. Good(n.send_buf) /\ Len(n.send_buf) \in Nat
  BY <1>4, ContextFields, ContextLengths
<1> HIDE DEF n
<1>6. Len(n.send_buf) - n.send_buf_pos \in Nat
  BY <1>4, <1>5
<1>7. k \in Nat /\ k <= Len(n.send_buf) - n.send_buf_pos /\ k <= Room(e)
  BY <1>3, <1>6, TakenFits
<1>8. GoodContext(send_ciphertext(n, k))
  <2>1. n.send_buf_pos + k <= Len(n.send_buf)
    BY <1>4, <1>5, <1>7
  <2> QED
    BY <1>4, <1>7, <2>1, SendGood
<1>9. WireOK'
  <2> DEFINE out == SubSeq(n.send_buf, n.send_buf_pos + 1, n.send_buf_pos + k)
  <2>1. /\ n.send_buf_pos + 1 \in Nat /\ n.send_buf_pos + k \in Nat
        /\ 1 <= n.send_buf_pos + 1 /\ n.send_buf_pos + 1 <= (n.send_buf_pos + k) + 1
        /\ n.send_buf_pos + k <= Len(n.send_buf)
        /\ (n.send_buf_pos + k) - (n.send_buf_pos + 1) + 1 = k
    <3>1. \A p, l \in Nat : p <= l /\ k <= l - p =>
            /\ p + 1 \in Nat /\ p + k \in Nat /\ 1 <= p + 1 /\ p + 1 <= (p + k) + 1
            /\ p + k <= l /\ (p + k) - (p + 1) + 1 = k
      BY <1>7
    <3>2. n.send_buf_pos \in Nat /\ n.send_buf_pos <= Len(n.send_buf)
      BY <1>4, <1>5, ContextFields
    <3> QED
      BY <1>5, <1>7, <3>1, <3>2, Zenon
  <2>2. Good(out) /\ Len(out) = k
    BY <1>5, <2>1, SubSeqGood
  <2>3. Transfer(e, out, 0)
    BY <1>3
  <2>4. 0 \in Nat /\ 0 <= Len(Incoming(e))
    BY TypeParts
  <2> HIDE DEF out
  <2> QED
    BY <1>7, <2>2, <2>3, <2>4, TransferGood
<1>10. sent' \in [Ends -> Nat]
  BY <1>1, <1>3, <1>4 DEF TypeOK
<1>11. eagain' \in [Ends -> BOOLEAN]
  BY <1>3 DEF TypeOK
<1>12. nn' = [nn EXCEPT ![e] = send_ciphertext(n, k)]
  BY <1>3
<1>13. /\ st' \in [Ends -> States] /\ st' = st /\ st[e] # "overrun"
       /\ size' \in [Ends -> Nat] /\ space' \in [Ends -> 0 .. BUF_SIZ] /\ got' \in [Ends -> Seq(Nat)]
  BY DEF netnacl_send, TypeOK
<1>14. ~Overrun(send_ciphertext(n, k))
  <2>1. nn[e] \in Context /\ n \in Context
    BY <1>4 DEF TypeOK, GoodContext
  <2>2. n.recv_ct = nn[e].recv_ct
    BY <2>1 DEF n, Prepared, encrypt_plaintext, Context
  <2>3. send_ciphertext(n, k).recv_ct = n.recv_ct
    BY <2>1 DEF send_ciphertext, Context
  <2>4. ~Overrun(nn[e])
    BY DEF netnacl_send, TypeOK
  <2> QED
    BY <2>2, <2>3, <2>4 DEF Overrun
<1> QED
  BY <1>8, <1>9, <1>10, <1>11, <1>12, <1>13, <1>14, TypeAfter

\* A call of netnacl_recv: a bytes have arrived, hl is the length of the
\* message, in bytes are read, g is the context after them and n after the box
\* was tried, len is the room the caller has.
RecvDone(e, a, hl, in, g, n, len) ==
    /\ hl \in Lengths(nn[e], Header(nn[e], SubSeq(Incoming(e), 1, a)))
    /\ in = HdrIn(nn[e], a) + CtIn(nn[e], Header(nn[e], SubSeq(Incoming(e), 1, a)), hl, a)
    /\ g = Gather(nn[e], SubSeq(Incoming(e), 1, a), hl)
    /\ n = decrypt_ciphertext(g)
    /\ Transfer(e, << >>, in)
    /\ sent' = sent /\ size' = size
    /\ \/ /\ Overrun(g)
          /\ nn' = [nn EXCEPT ![e] = g]
          /\ st' = [st EXCEPT ![e] = "overrun"]
          /\ UNCHANGED <<space, got, eagain>>
       \/ /\ ~Overrun(g) /\ n.recv_pt # << >>
          /\ nn' = [nn EXCEPT ![e] = AfterCopy(n, len)]
          /\ got' = [got EXCEPT ![e] =
               @ \o SubSeq(n.recv_pt, n.recv_pt_pos + 1, n.recv_pt_pos + ReadSize(n, len))]
          /\ space' = [space EXCEPT ![e] = len - ReadSize(n, len)]
          /\ UNCHANGED <<st, eagain>>
       \/ /\ ~Overrun(g) /\ n.recv_pt = << >>
          /\ nn' = [nn EXCEPT ![e] = n]
          /\ st' = [st EXCEPT ![e] = GivenUp(e, RecvCode(e, n, a))]
          /\ space' = [space EXCEPT ![e] = 0]
          /\ eagain' = [eagain EXCEPT ![e] = @ \/ RecvCode(e, n, a) = NN_WANT_READ]
          /\ UNCHANGED got

\* Every call is one of those.
LEMMA RecvIs ==
    ASSUME TypeOK, NEW e \in Ends, netnacl_recv(e)
    PROVE  \E a \in Nat : \E hl, in, g, n : \E len \in 0 .. BUF_SIZ :
             a <= Len(Incoming(e)) /\ RecvDone(e, a, hl, in, g, n, len)
<1> DEFINE len == IF space[e] > 0 THEN space[e] ELSE BUF_SIZ
           least == IF space[e] > 0 THEN 0 ELSE 1
           hdr(a) == Header(nn[e], SubSeq(Incoming(e), 1, a))
           in(a, hl) == HdrIn(nn[e], a) + CtIn(nn[e], hdr(a), hl, a)
           g(a, hl) == Gather(nn[e], SubSeq(Incoming(e), 1, a), hl)
           n(a, hl) == decrypt_ciphertext(g(a, hl))
<1>1. len \in 0 .. BUF_SIZ /\ least \in Nat
  BY Sizes DEF TypeOK
<1>2. \E a \in Arrived(e, least) : \E hl \in Lengths(nn[e], hdr(a)) :
        RecvDone(e, a, hl, in(a, hl), g(a, hl), n(a, hl), len)
  BY ZenonT(60) DEF netnacl_recv, RecvDone
<1>3. PICK a \in Arrived(e, least) : \E hl \in Lengths(nn[e], hdr(a)) :
        RecvDone(e, a, hl, in(a, hl), g(a, hl), n(a, hl), len)
  BY <1>2
<1> HIDE DEF len, least, hdr, in, g, n
<1>4. PICK hl \in Lengths(nn[e], hdr(a)) :
        RecvDone(e, a, hl, in(a, hl), g(a, hl), n(a, hl), len)
  BY <1>3
<1>5. a \in Nat /\ a <= Len(Incoming(e))
  BY <1>1, ArrivedFits
<1> QED
  BY <1>1, <1>4, <1>5

\* What such a call reads, and the contexts it goes through.
LEMMA RecvParts ==
    ASSUME TypeOK, NEW e \in Ends, NEW a \in Nat, a <= Len(Incoming(e)),
           NEW hl, NEW in, NEW g, NEW n, NEW len, RecvDone(e, a, hl, in, g, n, len)
    PROVE  /\ Good(SubSeq(Incoming(e), 1, a)) /\ Len(SubSeq(Incoming(e), 1, a)) = a
           /\ in \in Nat /\ in <= a /\ in <= Len(Incoming(e))
           /\ GoodContext(g) /\ GoodContext(n) /\ WireOK'
<1> DEFINE bytes == SubSeq(Incoming(e), 1, a)
<1>1. Good(bytes) /\ Len(bytes) = a
  <2>1. 1 \in Nat /\ 1 <= 1 /\ 1 <= a + 1 /\ a - 1 + 1 = a
    OBVIOUS
  <2>2. Good(Incoming(e))
    BY TypeParts
  <2> QED
    BY <2>1, <2>2, SubSeqGood
<1>2. /\ hl \in Lengths(nn[e], Header(nn[e], bytes))
      /\ in = HdrIn(nn[e], a) + CtIn(nn[e], Header(nn[e], bytes), hl, a)
      /\ g = Gather(nn[e], bytes, hl) /\ n = decrypt_ciphertext(g) /\ Transfer(e, << >>, in)
  BY DEF RecvDone
<1> HIDE DEF bytes
<1>3. GoodContext(nn[e]) /\ Len(Incoming(e)) \in Nat
  BY TypeParts
<1>4. in \in Nat /\ in <= a /\ in <= Len(Incoming(e))
  <2>1. HdrIn(nn[e], a) \in 0 .. a
    BY <1>1, <1>3, HeaderGood
  <2>2. CtIn(nn[e], Header(nn[e], bytes), hl, a) \in 0 .. a - HdrIn(nn[e], a)
    BY <1>1, <1>2, <1>3, CtInFits
  <2> QED
    BY <1>2, <1>3, <2>1, <2>2
<1>5. GoodContext(g)
  BY <1>1, <1>2, <1>3, GatherGood
<1>6. GoodContext(n)
  BY <1>2, <1>5, DecryptGood
<1>7. WireOK'
  <2>1. Good(<< >>) /\ Len(<< >>) <= Room(e)
    BY EmptyGood, TypeParts
  <2> QED
    BY <1>2, <1>4, <2>1, TransferGood
<1> QED
  BY <1>1, <1>4, <1>5, <1>6, <1>7 DEF bytes

\* Opening a box and copying its plaintext leave recv_ct or empty it.
LEMMA CtKept ==
    ASSUME NEW g, GoodContext(g), ~Overrun(g), NEW n, n = decrypt_ciphertext(g),
           GoodContext(n), NEW len
    PROVE  ~Overrun(n) /\ ~Overrun(AfterCopy(n, len))
<1>1. n.recv_ct = g.recv_ct
  <2>1. g \in Context
    BY DEF GoodContext
  <2> QED
    BY <2>1 DEF decrypt_ciphertext, Context
<1>2. AfterCopy(n, len).recv_ct = n.recv_ct \/ AfterCopy(n, len).recv_ct = << >>
  <2>1. n \in Context
    BY DEF GoodContext
  <2> QED
    BY <2>1 DEF AfterCopy, Reset, Context
<1>3. ~(Len(<< >>) > recv_ct_size)
  BY Sizes DEF recv_ct_size
<1> QED
  BY <1>1, <1>2, <1>3 DEF Overrun

\* netnacl_recv: what is read is kept in the context or copied to the caller,
\* unless recv_ct is left.
LEMMA RecvStep ==
    ASSUME TypeOK, NEW e \in Ends, netnacl_recv(e)
    PROVE  TypeOK'
<1>1. PICK a \in Nat : \E hl, in, g, n : \E len \in 0 .. BUF_SIZ :
        a <= Len(Incoming(e)) /\ RecvDone(e, a, hl, in, g, n, len)
  BY RecvIs
<1>2. PICK hl, in, g, n : \E len \in 0 .. BUF_SIZ :
        a <= Len(Incoming(e)) /\ RecvDone(e, a, hl, in, g, n, len)
  BY <1>1
<1>3. PICK len \in 0 .. BUF_SIZ :
        a <= Len(Incoming(e)) /\ RecvDone(e, a, hl, in, g, n, len)
  BY <1>2
<1>4. GoodContext(g) /\ GoodContext(n) /\ WireOK'
  BY <1>3, RecvParts
<1>5. /\ sent' \in [Ends -> Nat] /\ size' \in [Ends -> Nat] /\ n = decrypt_ciphertext(g)
      /\ st \in [Ends -> States] /\ len \in Nat
  BY <1>3, Sizes DEF RecvDone, TypeOK
<1>6. CASE /\ Overrun(g)
           /\ nn' = [nn EXCEPT ![e] = g]
           /\ st' = [st EXCEPT ![e] = "overrun"]
           /\ UNCHANGED <<space, got, eagain>>
  <2>1. st' \in [Ends -> States] /\ st'[e] = "overrun" /\ \A f \in Ends : f # e => st'[f] = st[f]
    BY <1>5, <1>6 DEF States
  <2>2. space' \in [Ends -> 0 .. BUF_SIZ] /\ eagain' \in [Ends -> BOOLEAN] /\ got' \in [Ends -> Seq(Nat)]
    BY <1>6 DEF TypeOK
  <2> QED
    BY <1>4, <1>5, <1>6, <2>1, <2>2, TypeAfter
<1>5a. st[e] # "overrun"
  BY DEF netnacl_recv
<1>7. CASE /\ ~Overrun(g)
           /\ nn' = [nn EXCEPT ![e] = AfterCopy(n, len)]
           /\ got' = [got EXCEPT ![e] =
                @ \o SubSeq(n.recv_pt, n.recv_pt_pos + 1, n.recv_pt_pos + ReadSize(n, len))]
           /\ space' = [space EXCEPT ![e] = len - ReadSize(n, len)]
           /\ UNCHANGED <<st, eagain>>
  <2>1. /\ ReadSize(n, len) \in 0 .. len /\ GoodContext(AfterCopy(n, len))
        /\ n.recv_pt_pos + ReadSize(n, len) \in 0 .. Len(n.recv_pt)
    BY <1>4, <1>5, CopyGood
  <2> DEFINE from == n.recv_pt_pos + 1
             to == n.recv_pt_pos + ReadSize(n, len)
             copied == SubSeq(n.recv_pt, from, to)
  <2>2. n.recv_pt \in Seq(Nat) /\ n.recv_pt_pos \in Nat /\ Len(n.recv_pt) \in Nat
    BY <1>4, ContextFields, ContextLengths
  <2>3. copied \in Seq(Nat)
    <3>1. from \in Int /\ to \in Int /\ \A i \in from .. to : i \in 1 .. Len(n.recv_pt)
      BY <2>1, <2>2
    <3>2. \A i \in from .. to : n.recv_pt[i] \in Nat
      BY <2>2, <3>1, LenProperties
    <3> HIDE DEF from, to
    <3> QED
      BY <3>1, <3>2, SubSeqProperties
  <2>4. got' = [got EXCEPT ![e] = got[e] \o copied]
    BY <1>7
  <2> HIDE DEF copied
  <2>5. got[e] \in Seq(Nat)
    BY DEF TypeOK
  <2>6. got[e] \o copied \in Seq(Nat)
    BY <2>3, <2>5, ConcatProperties
  <2>7. got' \in [Ends -> Seq(Nat)]
    BY <2>4, <2>6 DEF TypeOK
  <2>8. space' \in [Ends -> 0 .. BUF_SIZ]
    <3>1. len - ReadSize(n, len) \in 0 .. BUF_SIZ
      BY <2>1, Sizes
    <3> QED
      BY <1>7, <3>1 DEF TypeOK
  <2>9. st' \in [Ends -> States] /\ eagain' \in [Ends -> BOOLEAN] /\ st' = st
    BY <1>7 DEF TypeOK
  <2>10. ~Overrun(AfterCopy(n, len))
    BY <1>4, <1>5, <1>7, CtKept
  <2> QED
    BY <1>4, <1>5, <1>5a, <1>7, <2>1, <2>7, <2>8, <2>9, <2>10, TypeAfter
<1>8. CASE /\ ~Overrun(g)
           /\ nn' = [nn EXCEPT ![e] = n]
           /\ st' = [st EXCEPT ![e] = GivenUp(e, RecvCode(e, n, a))]
           /\ space' = [space EXCEPT ![e] = 0]
           /\ eagain' = [eagain EXCEPT ![e] = @ \/ RecvCode(e, n, a) = NN_WANT_READ]
           /\ UNCHANGED got
  <2>1. GivenUp(e, RecvCode(e, n, a)) \in States /\ GivenUp(e, RecvCode(e, n, a)) # "overrun"
    BY DEF GivenUp, States
  <2>2. st' \in [Ends -> States] /\ st'[e] # "overrun" /\ \A f \in Ends : f # e => st'[f] = st[f]
    BY <1>5, <1>8, <2>1
  <2>3. space' \in [Ends -> 0 .. BUF_SIZ] /\ eagain' \in [Ends -> BOOLEAN]
    BY <1>8, Sizes DEF TypeOK
  <2>4. got' \in [Ends -> Seq(Nat)]
    BY <1>8 DEF TypeOK
  <2>5. ~Overrun(n)
    BY <1>4, <1>5, <1>8, CtKept
  <2> QED
    BY <1>4, <1>5, <1>8, <2>2, <2>3, <2>4, <2>5, TypeAfter
<1> QED
  BY <1>3, <1>6, <1>7, <1>8 DEF RecvDone

\* A new pair of keys, and more of the public one sent.
LEMMA PairGood ==
    ASSUME NEW n, GoodContext(n)
    PROVE  /\ GoodContext(crypto_box_keypair(n))
           /\ \A k \in Nat : n.key_bytes_sent + k <= crypto_box_PUBLICKEYBYTES =>
                GoodContext([n EXCEPT !.key_bytes_sent = n.key_bytes_sent + k])
<1>1. GoodContext(crypto_box_keypair(n))
  <2>1. CASE n.key_bytes_sent = 0
    <3>1. crypto_box_keypair(n) = [n EXCEPT !.pk = n.pk + 1] /\ n.pk + 1 \in Nat
      BY <2>1, ContextFields DEF crypto_box_keypair
    <3> QED
      BY <3>1 DEF GoodContext, Context, Fits, HeaderFits
  <2>2. CASE n.key_bytes_sent # 0
    BY <2>2 DEF crypto_box_keypair
  <2> QED
    BY <2>1, <2>2
<1>2. ASSUME NEW k \in Nat, n.key_bytes_sent + k <= crypto_box_PUBLICKEYBYTES
      PROVE  GoodContext([n EXCEPT !.key_bytes_sent = n.key_bytes_sent + k])
  <2> DEFINE b == n.key_bytes_sent + k
  <2>1. b \in 0 .. crypto_box_PUBLICKEYBYTES
    BY <1>2, ContextFields, Sizes
  <2> HIDE DEF b
  <2>2. GoodContext([n EXCEPT !.key_bytes_sent = b])
    BY <2>1 DEF GoodContext, Context, Fits, HeaderFits
  <2> QED
    BY <2>2 DEF b
<1> QED
  BY <1>1, <1>2

\* The peer's key grows by what is read; once it is complete, so is the
\* context.
LEMMA KeyedGood ==
    ASSUME NEW n, GoodContext(n), NEW e \in Ends, NEW bytes, Good(bytes),
           Len(n.peer_pk) + Len(bytes) <= crypto_box_PUBLICKEYBYTES
    PROVE  LET keyed == [n EXCEPT !.peer_pk = KeyReceived(n, bytes)]
           IN  /\ GoodContext(keyed)
               /\ GoodContext([keyed EXCEPT !.sym_key = crypto_box_beforenm(e, keyed)])
<1> DEFINE key == KeyReceived(n, bytes)
           keyed == [n EXCEPT !.peer_pk = key]
           sym == crypto_box_beforenm(e, keyed)
<1>1. key \in Seq(Byte) /\ Len(key) <= crypto_box_PUBLICKEYBYTES
  BY ContextFields, ConcatProperties DEF KeyReceived, Good
<1> HIDE DEF key
<1>2. GoodContext(keyed) /\ keyed.peer_pk = key /\ keyed.pk \in Nat
  BY <1>1 DEF GoodContext, Context, Fits, HeaderFits
<1> HIDE DEF keyed
<1>3. sym \in Keys
  <2>1. \A i \in DOMAIN key : key[i] \in Byte
    BY <1>1, LenProperties
  <2>2. \A b \in Byte : b.msg.keys \in Keys
    BY DEF Byte, Message
  <2> QED
    BY <1>2, <2>1, <2>2 DEF crypto_box_beforenm, Keys
<1> HIDE DEF sym
<1>4. GoodContext([keyed EXCEPT !.sym_key = sym])
  BY <1>2, <1>3 DEF GoodContext, Context, Fits, HeaderFits
<1> QED
  BY <1>2, <1>4 DEF keyed, key, sym

\* netnacl_wrap: a key goes out and the peer's comes in, neither past its end.
LEMMA WrapStep ==
    ASSUME TypeOK, NEW e \in Ends, netnacl_wrap(e)
    PROVE  TypeOK'
<1> DEFINE pair == crypto_box_keypair(nn[e])
           full == crypto_box_PUBLICKEYBYTES
           out(k) == [pair EXCEPT !.key_bytes_sent = @ + k]
           frame == Frame(KeyMessage(e, pair.pk))
           bytes(k) == SubSeq(frame, pair.key_bytes_sent + 1, out(k).key_bytes_sent)
           in(k, a) == MIN(full - Len(out(k).peer_pk), a)
           arrived(k, a) == SubSeq(Incoming(e), 1, in(k, a))
           key(k, a) == KeyReceived(out(k), arrived(k, a))
           keyed(k, a) == [out(k) EXCEPT !.peer_pk = key(k, a)]
           done(k, a) == Len(key(k, a)) = full
           least(k) == IF k = 0 THEN 1 ELSE 0
<1>1. PICK k \in IF pair.key_bytes_sent = full THEN {0} ELSE KeyTaken(e, pair) :
        \/ /\ nn' = [nn EXCEPT ![e] = out(k)]
           /\ Transfer(e, bytes(k), 0)
           /\ eagain' = [eagain EXCEPT ![e] = TRUE]
           /\ UNCHANGED st
        \/ \E a \in Arrived(e, least(k)) :
             /\ nn' = [nn EXCEPT ![e] =
                  IF done(k, a)
                    THEN [keyed(k, a) EXCEPT !.sym_key = crypto_box_beforenm(e, keyed(k, a))]
                    ELSE keyed(k, a)]
             /\ Transfer(e, bytes(k), in(k, a))
             /\ st' = [st EXCEPT ![e] =
                  IF done(k, a) THEN "data" ELSE IF AtEnd(e, a) THEN "closed" ELSE @]
             /\ eagain' = [eagain EXCEPT ![e] = @ \/ ~(done(k, a) \/ AtEnd(e, a))]
  BY DEF netnacl_wrap
<1>2. GoodContext(pair) /\ GoodContext(nn[e])
  BY TypeParts, PairGood
<1> HIDE DEF pair
<1>3. pair.key_bytes_sent \in 0 .. full /\ pair.pk \in Nat
  BY <1>2, ContextFields
<1>4. k \in Nat /\ k <= full - pair.key_bytes_sent /\ k <= Room(e)
  <2>1. full - pair.key_bytes_sent \in Nat /\ Room(e) \in Nat
    BY <1>3, Sizes, TypeParts
  <2>2. CASE k = 0
    BY <2>1, <2>2
  <2>3. CASE k \in Taken(e, full - pair.key_bytes_sent)
    BY <2>1, <2>3, TakenFits
  <2> QED
    BY <1>1, <2>2, <2>3 DEF KeyTaken
<1> DEFINE pos == pair.key_bytes_sent
           to == pos + k
<1>5. /\ pos \in Nat /\ to \in Nat /\ pos + 1 \in Nat /\ 1 <= pos + 1 /\ pos + 1 <= to + 1
      /\ to <= full /\ to - (pos + 1) + 1 = k
  BY <1>3, <1>4, Sizes
<1>6. /\ GoodContext(out(k)) /\ out(k).key_bytes_sent = to
  <2>1. out(k) = [pair EXCEPT !.key_bytes_sent = pair.key_bytes_sent + k]
    OBVIOUS
  <2>2. GoodContext(out(k))
    BY <1>2, <1>4, <1>5, <2>1, PairGood
  <2>3. out(k).key_bytes_sent = to
    BY <1>2 DEF GoodContext, Context
  <2> QED
    BY <2>2, <2>3
<1>7. Good(frame) /\ Len(frame) = full
  <2> DEFINE m == KeyMessage(e, pair.pk)
  <2>1. m \in Message /\ m.pt = << >> /\ Len(m.pt) <= NN_MAX_MESSAGE_LEN
    BY <1>3, Sizes DEF KeyMessage, Message, Keys
  <2> HIDE DEF m
  <2>2. Good(Frame(m)) /\ Len(Frame(m)) = full
    BY <2>1, FrameGood, Zenon
  <2> QED
    BY <2>2 DEF m
<1> HIDE DEF frame
<1>8. Good(bytes(k)) /\ Len(bytes(k)) = k
  <2>1. bytes(k) = SubSeq(frame, pos + 1, to)
    BY <1>6
  <2> HIDE DEF pos, to
  <2> QED
    BY <1>5, <1>7, <2>1, SubSeqGood
<1> HIDE DEF pos, to, out, bytes
<1>9. sent' \in [Ends -> Nat] /\ size' \in [Ends -> Nat]
      /\ space' \in [Ends -> 0 .. BUF_SIZ] /\ got' \in [Ends -> Seq(Nat)]
  BY DEF netnacl_wrap, TypeOK, callerVars
<1>9a. ~Overrun(out(k)) /\ out(k) \in Context /\ out(k).recv_ct = nn[e].recv_ct
       /\ st \in [Ends -> States] /\ st[e] # "overrun"
  <2>1. nn[e] \in Context /\ pair \in Context /\ out(k) \in Context
    BY <1>2, <1>6 DEF GoodContext
  <2>2. pair.recv_ct = nn[e].recv_ct
    BY <2>1 DEF pair, crypto_box_keypair, Context
  <2>3. out(k).recv_ct = pair.recv_ct
    BY <2>1 DEF out, Context
  <2>4. ~Overrun(nn[e]) /\ st \in [Ends -> States] /\ st[e] # "overrun"
    BY DEF netnacl_wrap, TypeOK
  <2> QED
    BY <2>1, <2>2, <2>3, <2>4 DEF Overrun
<1>10. CASE /\ nn' = [nn EXCEPT ![e] = out(k)]
            /\ Transfer(e, bytes(k), 0)
            /\ eagain' = [eagain EXCEPT ![e] = TRUE]
            /\ UNCHANGED st
  <2>1. 0 \in Nat /\ 0 <= Len(Incoming(e))
    BY TypeParts
  <2>2. WireOK'
    BY <1>4, <1>8, <1>10, <2>1, TransferGood
  <2>3. /\ st' \in [Ends -> States]
        /\ eagain' \in [Ends -> BOOLEAN]
    BY <1>10 DEF TypeOK
  <2> QED
    BY <1>6, <1>9, <1>9a, <1>10, <2>2, <2>3, TypeAfter
<1>11. ASSUME NEW a \in Arrived(e, least(k)),
              nn' = [nn EXCEPT ![e] =
                IF done(k, a)
                  THEN [keyed(k, a) EXCEPT !.sym_key = crypto_box_beforenm(e, keyed(k, a))]
                  ELSE keyed(k, a)],
              Transfer(e, bytes(k), in(k, a)),
              st' = [st EXCEPT ![e] =
                IF done(k, a) THEN "data" ELSE IF AtEnd(e, a) THEN "closed" ELSE @],
              eagain' = [eagain EXCEPT ![e] = @ \/ ~(done(k, a) \/ AtEnd(e, a))]
       PROVE  TypeOK'
  <2>1. a \in Nat /\ a <= Len(Incoming(e)) /\ Good(Incoming(e)) /\ Len(Incoming(e)) \in Nat
    <3>1. least(k) \in Nat
      OBVIOUS
    <3> QED
      BY <3>1, ArrivedFits, TypeParts
  <2>2. /\ in(k, a) \in Nat /\ in(k, a) <= a
        /\ Len(out(k).peer_pk) + in(k, a) <= full
    <3>1. \A l \in Nat : l <= full =>
            /\ MIN(full - l, a) \in Nat /\ MIN(full - l, a) <= a
            /\ l + MIN(full - l, a) <= full
      BY <2>1, Sizes DEF MIN
    <3>2. Len(out(k).peer_pk) \in Nat /\ Len(out(k).peer_pk) <= full
      BY <1>6, ContextFields, ContextLengths
    <3> QED
      BY <3>1, <3>2, Zenon
  <2> HIDE DEF in
  <2>3. in(k, a) <= Len(Incoming(e))
    BY <2>1, <2>2
  <2>4. WireOK'
    BY <1>4, <1>8, <1>11, <2>2, <2>3, TransferGood
  <2>5. Good(arrived(k, a)) /\ Len(arrived(k, a)) = in(k, a)
    <3>1. 1 \in Nat /\ 1 <= 1 /\ 1 <= in(k, a) + 1 /\ in(k, a) - 1 + 1 = in(k, a)
      BY <2>2
    <3> QED
      BY <2>1, <2>2, <2>3, <3>1, SubSeqGood
  <2> HIDE DEF arrived
  <2>6. /\ GoodContext(keyed(k, a))
        /\ GoodContext([keyed(k, a) EXCEPT !.sym_key = crypto_box_beforenm(e, keyed(k, a))])
    BY <1>6, <2>2, <2>5, KeyedGood, Zenon
  <2>6a. keyed(k, a).recv_ct = out(k).recv_ct /\ keyed(k, a) \in Context
    BY <1>9a, <2>6 DEF GoodContext, Context
  <2> HIDE DEF keyed, done
  <2>7. st' \in [Ends -> States] /\ st'[e] # "overrun" /\ \A f \in Ends : f # e => st'[f] = st[f]
    BY <1>9a, <1>11 DEF States
  <2>8. eagain' \in [Ends -> BOOLEAN]
    BY <1>11 DEF TypeOK
  <2> DEFINE n == IF done(k, a)
                    THEN [keyed(k, a) EXCEPT !.sym_key = crypto_box_beforenm(e, keyed(k, a))]
                    ELSE keyed(k, a)
  <2>9. GoodContext(n) /\ nn' = [nn EXCEPT ![e] = n]
    BY <1>11, <2>6
  <2>10. ~Overrun(n)
    <3>1. n.recv_ct = keyed(k, a).recv_ct
      BY <2>6a DEF Context
    <3> QED
      BY <1>9a, <2>6a, <3>1 DEF Overrun
  <2> HIDE DEF n
  <2> QED
    BY <1>9, <2>4, <2>7, <2>8, <2>9, <2>10, TypeAfter
<1> QED
  BY <1>1, <1>10, <1>11

\* A new buffer of the caller.
LEMMA BufferStep ==
    ASSUME TypeOK, NEW e \in Ends, NewBuffer(e)
    PROVE  TypeOK'
<1>1. PICK k \in 1 .. MIN(BUF_SIZ, Bytes[e] - sent[e]) : size' = [size EXCEPT ![e] = @ + k]
  BY DEF NewBuffer
<1>2. Bytes[e] \in Nat /\ sent[e] \in Nat /\ size[e] \in Nat
  BY NetNaClAssumption DEF TypeOK
<1>3. k \in Nat
  BY <1>1, <1>2, Sizes DEF MIN
<1>4. size' \in [Ends -> Nat]
  BY <1>1, <1>2, <1>3 DEF TypeOK
<1> QED
  BY <1>4 DEF NewBuffer, TypeOK

\* The end of a process or of a connection.
LEMMA EndStep ==
    ASSUME TypeOK, NEW e \in Ends, randombytes(e) \/ Close(e)
    PROVE  TypeOK'
<1>1. st' \in [Ends -> States] /\ \A f \in Ends : st'[f] = "overrun" <=> st[f] = "overrun"
  BY DEF randombytes, Close, Gone, TypeOK, States
<1>2. UNCHANGED <<nn, wire, sent, size, space, got, eagain>>
  BY DEF randombytes, Close, callerVars
<1>3. \A f \in Ends : st'[f] = "overrun" <=> Overrun(nn[f])
  BY <1>1 DEF TypeOK
<1> QED
  BY <1>1, <1>2, <1>3 DEF TypeOK

\* A damaged byte is a byte of the same message.
LEMMA CorruptStep ==
    ASSUME TypeOK, NEW e \in Ends, Corrupt(e)
    PROVE  TypeOK'
<1>1. PICK i \in DOMAIN wire[e] : wire' = [wire EXCEPT ![e][i].ok = FALSE]
  BY DEF Corrupt
<1> DEFINE w == wire[e]
           b == [w[i] EXCEPT !.ok = FALSE]
           v == [w EXCEPT ![i] = b]
<1>2. w \in Seq(Byte) /\ Sound(w) /\ Len(w) <= Window
  BY DEF TypeOK
<1>3. w[i] \in Byte /\ Len(w[i].msg.pt) <= NN_MAX_MESSAGE_LEN
  BY <1>1, <1>2, LenProperties DEF Sound
<1>4. b \in Byte /\ b.msg = w[i].msg
  BY <1>3 DEF Byte
<1> HIDE DEF b
<1>5. v \in Seq(Byte) /\ Len(v) = Len(w) /\ DOMAIN v = DOMAIN w
  BY <1>1, <1>2, <1>4, ExceptSeq, LenProperties
<1>6. \A j \in DOMAIN w : v[j] = IF j = i THEN b ELSE w[j]
  OBVIOUS
<1>7. Sound(v)
  BY <1>2, <1>3, <1>4, <1>5, <1>6 DEF Sound
<1>8. wire' = [wire EXCEPT ![e] = v]
  BY <1>1 DEF b
<1> HIDE DEF v, w
<1>9. wire' \in [Ends -> Seq(Byte)] /\ \A f \in Ends : Len(wire'[f]) <= Window /\ Sound(wire'[f])
  BY <1>2, <1>5, <1>7, <1>8 DEF TypeOK
<1>10. UNCHANGED <<nn, st, sent, size, space, got, eagain>>
  BY DEF Corrupt, callerVars
<1> QED
  BY <1>9, <1>10 DEF TypeOK

\* Every step, and a step that changes nothing.
LEMMA NextType == TypeOK /\ [Next]_vars => TypeOK'
<1> SUFFICES ASSUME TypeOK, [Next]_vars PROVE TypeOK'
  OBVIOUS
<1>1. CASE UNCHANGED vars
  BY <1>1 DEF vars, TypeOK
<1>2. ASSUME NEW e \in Ends, Call(e) PROVE TypeOK'
  BY <1>2, WrapStep, BufferStep, SendStep, RecvStep DEF Call
<1>3. ASSUME NEW e \in Ends, randombytes(e) \/ Close(e) \/ Corrupt(e) PROVE TypeOK'
  BY <1>3, EndStep, CorruptStep
<1> QED
  BY <1>1, <1>2, <1>3 DEF Next

-----------------------------------------------------------------------------
\* For any sizes of key, header, padding and message that 16 bits can count,
\* however the kernel cuts up what is sent and whatever a damaged length field
\* says, no call of netnacl_wrap, netnacl_send or netnacl_recv leaves the arrays
\* of a netnacl_t for key, header, plaintext or the message being sent (the
\* asserts of netnacl_recv, copy_plaintext_to_buffer and send_ciphertext hold);
\* recv_ct is left by an end that is "overrun" and by no other.
THEOREM ArraysHold == Spec => []TypeOK
<1>1. Init => TypeOK
  BY InitType
<1>2. TypeOK /\ [Next]_vars => TypeOK'
  BY NextType
<1> QED
  BY <1>1, <1>2, PTL DEF Spec

\* A context whose ciphertext has left recv_ct: it reads no more than its length
\* says, and every length the sender writes fits the array.
LEMMA OverrunDamaged ==
    ASSUME NEW n, GoodContext(n), Overrun(n)
    PROVE  ~LenIntact(n.recv_hdr)
<1>1. Good(n.recv_hdr) /\ HeaderFits(n) /\ n.len \in Nat
  BY ContextFields
<1>2. Len(n.recv_ct) \in Nat /\ Len(n.recv_ct) > recv_ct_size /\ recv_ct_size \in Nat
  BY ContextLengths, Sizes DEF Overrun, recv_ct_size
<1>3. n.recv_ct # << >>
  BY <1>2
<1>4. Len(n.recv_hdr) = sizeof_hdr /\ Len(n.recv_ct) <= n.len
  BY <1>1, <1>3 DEF HeaderFits
<1>5. SentLen(n.recv_hdr) \in Nat /\ SentLen(n.recv_hdr) <= recv_ct_size
  BY <1>1, <1>4, Sizes, SentLenFits
<1>6. n.len # SentLen(n.recv_hdr)
  BY <1>1, <1>2, <1>4, <1>5
<1> QED
  BY <1>1, <1>4, <1>6 DEF HeaderFits

\* recv_ciphertext, which compares the length it was given with nothing, leaves
\* recv_ct only if that length was damaged on the way: no cut of a header or a
\* box, at any place, and no resumption makes it read a length netnacl_send did
\* not write, and what netnacl_send writes fits.
THEOREM OverrunDamage == Spec => []OverrunOnlyByDamage
<1>1. TypeOK => OverrunOnlyByDamage
  <2> SUFFICES ASSUME TypeOK, NEW e \in Ends, st[e] = "overrun"
               PROVE  ~LenIntact(nn[e].recv_hdr)
    BY DEF OverrunOnlyByDamage
  <2>1. GoodContext(nn[e])
    BY TypeParts
  <2>2. Overrun(nn[e])
    BY DEF TypeOK
  <2> QED
    BY <2>1, <2>2, OverrunDamaged
<1> QED
  BY <1>1, ArraysHold, PTL
=============================================================================
