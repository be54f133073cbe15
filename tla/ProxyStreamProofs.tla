-------------------------- MODULE ProxyStreamProofs --------------------------
(***************************************************************************)
(* Proofs about the bytes that pass through Proxy, and about descriptors   *)
(* that are left behind, on top of the invariant of ProxyProofs.           *)
(***************************************************************************)
EXTENDS ProxyProofs, SequenceTheorems

-----------------------------------------------------------------------------
(* The stream invariant.                                                   *)

\* A socket that holds no key, and one that holds a key before everything else.
NoKey(rx) == \A i \in 1 .. Len(rx) : rx[i] # Key
KeyFirst(rx) == rx # << >> /\ rx[1] = Key /\ \A i \in 2 .. Len(rx) : rx[i] # Key

\* A plain side (e is FALSE) never sees a key; an encrypted one reads the key
\* before anything else, once, and until then has decrypted nothing.
KeyOrder(e, x, nn) ==
    IF ~e \/ nn.key = "ready"
      THEN NoKey(x.rx) /\ (e => x.hello)
      ELSE nn.recv_pt = << >> /\ IF x.hello THEN KeyFirst(x.rx) ELSE x.rx = << >>

\* conn_callback serves a side whose keys are exchanged, handshake_callback one
\* whose are not.
HandlerFits(e, handler, nn) ==
    /\ handler = "conn_callback" => ~e \/ nn.key = "ready"
    /\ handler = "handshake_callback" => e /\ nn.key # "ready"

\* What a side of context k has sent and nothing has taken into a buffer; and
\* the stream to the other: delivered, buffered and unread bytes are all.
RestOf(s, k, side) ==
    IF k.fd[side] = NoFd THEN << >>
    ELSE k.netnacl[side].recv_pt \o DataOf(s[k.fd[side]].rx)
Flow(s, k, g, n, side) ==
    g[side] \o Pending(k.buf[side]) \o RestOf(s, k, Other(side)) = UpTo(n[Other(side)])

\* What holds of a live connection with context k, of which g was delivered and
\* n sent; e says which sides are encrypted.
ConnStream(e, m, s, k, g, n) ==
    /\ \A side \in Sides : Flow(s, k, g, n, side)
    /\ \A side \in Sides : k.fd[side] # NoFd =>
         KeyOrder(e[side], s[k.fd[side]], k.netnacl[side])
    /\ \A side \in Sides : k.fd[side] # NoFd /\ k.fd[side] \in Watched(m) =>
         HandlerFits(e[side], HandlerAt(m, k.fd[side]), k.netnacl[side])
    /\ k.ref # 2 => \A side \in Sides : k.netnacl[side].key # "ready"

Encryption == [side \in Sides |-> Encrypted(side)]
CountsTo(g, n) == Len(g) <= n /\ \A i \in 1 .. Len(g) : g[i] = i

\* A configuration is read before the first connection; a client that has not
\* been accepted has sent nothing; a connection, whatever became of it, delivered
\* a prefix of what was sent.
SInv ==
    /\ got \in [ConnIds -> [Sides -> Seq(Nat)]]
    /\ status = "none" => pc = "setup"
    /\ \A c \in ConnIds, side \in Sides : CountsTo(got[c][side], sent[c][Other(side)])
    /\ pc # "done" => \A c \in ConnIds : c > accepted =>
         \A side \in Sides : sent[c][side] = 0 /\ got[c][side] = << >>
    /\ pc # "done" => \A c \in ConnIds : Live(c) =>
         ConnStream(Encryption, mgr, sock, conns[c], got[c], sent[c])

-----------------------------------------------------------------------------
(* Sequences of bytes.                                                     *)

LEMMA SplitSeq ==
    ASSUME NEW s \in Seq(Nat), NEW n \in 0 .. Len(s)
    PROVE  /\ SubSeq(s, 1, n) \in Seq(Nat) /\ Len(SubSeq(s, 1, n)) = n
           /\ SubSeq(s, n + 1, Len(s)) \in Seq(Nat)
           /\ SubSeq(s, 1, n) \o SubSeq(s, n + 1, Len(s)) = s
<1>1. /\ Len(s) \in Nat /\ 1 \in 1 .. Len(s) + 1 /\ n \in 1 - 1 .. Len(s)
      /\ Len(s) \in n .. Len(s)
  OBVIOUS
<1>2. SubSeq(s, 1, n) \o SubSeq(s, n + 1, Len(s)) = SubSeq(s, 1, Len(s))
  BY <1>1, ConcatAdjacentSubSeq
<1>3. SubSeq(s, 1, Len(s)) = s
  BY SubSeqFull
<1>4. /\ SubSeq(s, 1, n) \in Seq(Nat) /\ Len(SubSeq(s, 1, n)) = n
      /\ SubSeq(s, n + 1, Len(s)) \in Seq(Nat)
  BY <1>1
<1> QED
  BY <1>2, <1>3, <1>4, Zenon

LEMMA ConcatAssoc ==
    ASSUME NEW s \in Seq(Nat), NEW t \in Seq(Nat), NEW u \in Seq(Nat)
    PROVE  s \o t \o u = s \o (t \o u) /\ t \o u \in Seq(Nat) /\ s \o t \in Seq(Nat)
<1>1. t \o u \in Seq(Nat) /\ s \o t \in Seq(Nat)
  BY ConcatProperties
<1>2. (s \o t) \o u = s \o (t \o u)
  BY ConcatAssociative, SMTT(40)
<1> QED
  BY <1>1, <1>2, Zenon

LEMMA ConcatNone ==
    ASSUME NEW s \in Seq(Nat)
    PROVE  s \o << >> = s /\ << >> \o s = s
BY ConcatEmptySeq

LEMMA UpToSeq ==
    ASSUME NEW n \in Nat
    PROVE  UpTo(n) \in Seq(Nat) /\ Len(UpTo(n)) = n /\ \A i \in 1 .. n : UpTo(n)[i] = i
BY DEF UpTo

\* A prefix of the numbered bytes counts them.
LEMMA PrefixCounts ==
    ASSUME NEW g \in Seq(Nat), NEW r \in Seq(Nat), NEW n \in Nat, g \o r = UpTo(n)
    PROVE  CountsTo(g, n)
<1>1. Len(g) \in Nat /\ Len(r) \in Nat /\ Len(g \o r) = Len(g) + Len(r)
  BY ConcatProperties
<1>2. Len(g) + Len(r) = n
  BY <1>1, UpToSeq
<1>3. ASSUME NEW i \in 1 .. Len(g) PROVE g[i] = i
  <2>1. i \in 1 .. Len(g) + Len(r) /\ i <= Len(g) /\ i \in 1 .. n
    BY <1>1, <1>2
  <2>2. (g \o r)[i] = g[i]
    BY <2>1, ConcatProperties
  <2> QED
    BY <2>1, <2>2, UpToSeq
<1> QED
  BY <1>1, <1>2, <1>3 DEF CountsTo

LEMMA CountsMore ==
    ASSUME NEW g \in Seq(Nat), NEW n \in Nat, NEW m \in Nat, n <= m, CountsTo(g, n)
    PROVE  CountsTo(g, m)
<1>1. Len(g) \in Nat
  OBVIOUS
<1> QED
  BY <1>1 DEF CountsTo

\* The next n numbered bytes.
NextBytes(s, n) == [i \in 1 .. n |-> s + i]

LEMMA UpToMore ==
    ASSUME NEW s \in Nat, NEW n \in Nat
    PROVE  /\ NextBytes(s, n) \in Seq(Nat) /\ NoKey(NextBytes(s, n))
           /\ UpTo(s) \o NextBytes(s, n) = UpTo(s + n)
<1> DEFINE t == NextBytes(s, n)
<1>1. t \in Seq(Nat) /\ Len(t) = n /\ \A i \in 1 .. n : t[i] = s + i
  BY DEF NextBytes
<1>2. NoKey(t)
  BY <1>1 DEF NoKey, Key
<1>3. UpTo(s) \in Seq(Nat) /\ Len(UpTo(s)) = s /\ \A i \in 1 .. s : UpTo(s)[i] = i
  BY UpToSeq
<1>4. /\ UpTo(s + n) \in Seq(Nat) /\ Len(UpTo(s + n)) = s + n
      /\ \A i \in 1 .. s + n : UpTo(s + n)[i] = i
  BY UpToSeq
<1> HIDE DEF t
<1>5. PICK a, b : a = UpTo(s) /\ b = UpTo(s + n)
  OBVIOUS
<1>a. /\ a \in Seq(Nat) /\ Len(a) = s /\ (\A i \in 1 .. s : a[i] = i)
      /\ b \in Seq(Nat) /\ Len(b) = s + n /\ (\A i \in 1 .. s + n : b[i] = i)
  BY <1>3, <1>4, <1>5
<1>6. PICK e : /\ e = a \o t /\ e \in Seq(Nat) /\ Len(e) = s + n
               /\ \A i \in 1 .. s + n : e[i] = IF i <= s THEN a[i] ELSE t[i - s]
  <2>1. /\ a \o t \in Seq(Nat) /\ Len(a \o t) = Len(a) + Len(t)
        /\ \A i \in 1 .. Len(a) + Len(t) :
             (a \o t)[i] = IF i <= Len(a) THEN a[i] ELSE t[i - Len(a)]
    <3>1. a \in Seq(Nat) /\ t \in Seq(Nat)
      BY <1>1, <1>a
    <3> QED
      BY <3>1, ConcatProperties
  <2> QED
    BY <1>1, <1>a, <2>1, ZenonT(40)
<1>7. \A i \in 1 .. s + n : e[i] = b[i]
  <2> SUFFICES ASSUME NEW i \in 1 .. s + n PROVE e[i] = b[i]
    OBVIOUS
  <2>1. CASE i <= s
    BY <1>a, <1>6, <2>1
  <2>2. CASE ~(i <= s)
    <3>1. i - s \in 1 .. n /\ s + (i - s) = i
      BY <2>2
    <3>2. t[i - s] = s + (i - s)
      BY <1>1, <3>1
    <3> QED
      BY <1>a, <1>6, <2>2, <3>1, <3>2
  <2> QED
    BY <2>1, <2>2
<1>8. a \o t = b
  BY <1>a, <1>6, <1>7, SeqEqual
<1> QED
  BY <1>1, <1>2, <1>5, <1>8 DEF t

\* What a socket holds besides the key.
LEMMA DataSeq ==
    ASSUME NEW rx \in Seq(Nat)
    PROVE  /\ DataOf(rx) \in Seq(Nat)
           /\ NoKey(rx) => DataOf(rx) = rx
           /\ KeyFirst(rx) => DataOf(rx) = SubSeq(rx, 2, Len(rx)) /\ NoKey(DataOf(rx))
           /\ DataOf(<< >>) = << >> /\ NoKey(<< >>)
<1>1. rx # << >> => /\ Tail(rx) \in Seq(Nat) /\ Head(rx) = rx[1] /\ Len(rx) \in Nat /\ Len(rx) > 0
                    /\ Len(Tail(rx)) = Len(rx) - 1
                    /\ \A i \in 1 .. Len(rx) - 1 : Tail(rx)[i] = rx[i + 1]
                    /\ Tail(rx) = SubSeq(rx, 2, Len(rx))
  <2> SUFFICES ASSUME rx # << >>
               PROVE  /\ Tail(rx) \in Seq(Nat) /\ Head(rx) = rx[1] /\ Len(rx) \in Nat /\ Len(rx) > 0
                      /\ Len(Tail(rx)) = Len(rx) - 1
                      /\ \A i \in 1 .. Len(rx) - 1 : Tail(rx)[i] = rx[i + 1]
                      /\ Tail(rx) = SubSeq(rx, 2, Len(rx))
    OBVIOUS
  <2>1. Len(rx) \in Nat \ {0}
    BY EmptySeq
  <2>2. /\ Tail(rx) \in Seq(Nat) /\ Len(Tail(rx)) = Len(rx) - 1
        /\ \A i \in 1 .. Len(Tail(rx)) : Tail(rx)[i] = rx[i + 1]
    BY HeadTailProperties
  <2>3. Tail(rx) = SubSeq(rx, 2, Len(rx))
    BY TailIsSubSeq
  <2>4. Head(rx) = rx[1]
    OBVIOUS
  <2>5. Len(rx) > 0
    BY <2>1
  <2> QED
    BY <2>1, <2>2, <2>3, <2>4, <2>5, Zenon
<1>2. DataOf(rx) \in Seq(Nat)
  BY <1>1 DEF DataOf
<1>3. NoKey(rx) => DataOf(rx) = rx
  BY <1>1 DEF DataOf, NoKey
<1>4. ASSUME KeyFirst(rx) PROVE DataOf(rx) = SubSeq(rx, 2, Len(rx)) /\ NoKey(DataOf(rx))
  <2>1. rx # << >> /\ rx[1] = Key /\ \A i \in 2 .. Len(rx) : rx[i] # Key
    BY <1>4 DEF KeyFirst
  <2>2. DataOf(rx) = Tail(rx)
    BY <1>1, <2>1 DEF DataOf
  <2>3. NoKey(Tail(rx))
    BY <1>1, <2>1 DEF NoKey
  <2> QED
    BY <1>1, <2>1, <2>2, <2>3
<1>5. DataOf(<< >>) = << >> /\ NoKey(<< >>)
  BY DEF DataOf, NoKey
<1> QED
  BY <1>2, <1>3, <1>4, <1>5

\* Concatenation and the end of a sequence, by their elements.
LEMMA JoinSeq ==
    ASSUME NEW a \in Seq(Nat), NEW t \in Seq(Nat), NEW p, p = Len(a), NEW q, q = Len(t),
           NEW e, e = a \o t
    PROVE  /\ e \in Seq(Nat) /\ p \in Nat /\ q \in Nat /\ Len(e) = p + q
           /\ \A i \in 1 .. p : e[i] = a[i]
           /\ \A i \in 1 .. q : e[p + i] = t[i]
<1>1. p \in Nat /\ q \in Nat
  OBVIOUS
<1>2. e \in Seq(Nat) /\ Len(e) = p + q
  BY ConcatProperties
<1>3. ASSUME NEW i \in 1 .. p PROVE e[i] = a[i]
  <2>1. i \in 1 .. p + q /\ i <= p
    BY <1>1
  <2> QED
    BY <2>1, ConcatProperties
<1>4. ASSUME NEW i \in 1 .. q PROVE e[p + i] = t[i]
  <2>1. p + i \in 1 .. p + q /\ ~(p + i <= p) /\ p + i - p = i
    BY <1>1
  <2> QED
    BY <2>1, ConcatProperties
<1> QED
  BY <1>1, <1>2, <1>3, <1>4

LEMMA CutSeq ==
    ASSUME NEW s \in Seq(Nat), NEW l, l = Len(s), NEW n \in 0 .. l, NEW t,
           t = SubSeq(s, n + 1, l)
    PROVE  /\ t \in Seq(Nat) /\ l \in Nat /\ n \in Nat /\ n <= l /\ Len(t) = l - n
           /\ \A i \in 1 .. l - n : t[i] = s[n + i]
<1>1. l \in Nat /\ n \in Nat /\ n <= l /\ n + 1 \in Int /\ l \in Int
  OBVIOUS
<1>2. \A i \in n + 1 .. l : s[i] \in Nat
  BY <1>1, ElementOfSeq
<1>3. /\ t \in Seq(Nat) /\ Len(t) = (IF n + 1 <= l THEN l - (n + 1) + 1 ELSE 0)
      /\ \A i \in 1 .. l - (n + 1) + 1 : t[i] = s[n + 1 + i - 1]
  BY <1>1, <1>2, SubSeqProperties
<1>4. Len(t) = l - n
  BY <1>1, <1>3
<1>5. ASSUME NEW i \in 1 .. l - n PROVE t[i] = s[n + i]
  <2>1. i \in 1 .. l - (n + 1) + 1 /\ n + 1 + i - 1 = n + i
    BY <1>1
  <2> QED
    BY <1>3, <2>1
<1> QED
  BY <1>1, <1>3, <1>4, <1>5

\* What is left of a sequence of numbers when its first element is taken away (the key of a
\* handshake, which is no data).
LEMMA TailSeq ==
    ASSUME NEW s \in Seq(Nat), Len(s) > 0, NEW t, t = SubSeq(s, 2, Len(s))
    PROVE  t \in Seq(Nat) /\ Len(t) = Len(s) - 1 /\ \A i \in 1 .. Len(s) - 1 : t[i] = s[1 + i]
<1>1. PICK l : l = Len(s)
  OBVIOUS
<1>2. l \in Nat /\ l > 0 /\ 2 \in Int /\ l \in Int
  BY <1>1
<1>3. \A i \in 2 .. l : s[i] \in Nat
  BY <1>1, <1>2, ElementOfSeq
<1>4. /\ t \in Seq(Nat) /\ Len(t) = (IF 2 <= l THEN l - 2 + 1 ELSE 0)
      /\ \A i \in 1 .. l - 2 + 1 : t[i] = s[2 + i - 1]
  BY <1>1, <1>2, <1>3, SubSeqProperties
<1>5. Len(t) = l - 1
  BY <1>2, <1>4
<1>6. ASSUME NEW i \in 1 .. l - 1 PROVE t[i] = s[1 + i]
  <2>1. i \in 1 .. l - 2 + 1 /\ 2 + i - 1 = 1 + i
    BY <1>2
  <2> QED
    BY <1>4, <2>1
<1> QED
  BY <1>1, <1>4, <1>5, <1>6, ZenonT(40)

\* Bytes that arrive go behind the others, the key first of all.
LEMMA ArriveData ==
    ASSUME NEW rx \in Seq(Nat), NEW t \in Seq(Nat), NoKey(t), NEW e, e = rx \o t
    PROVE  /\ NoKey(rx) => NoKey(e) /\ DataOf(e) = DataOf(rx) \o t
           /\ KeyFirst(rx) => KeyFirst(e) /\ DataOf(e) = DataOf(rx) \o t
<1>1. PICK p, q : p = Len(rx) /\ q = Len(t)
  OBVIOUS
<1>2. /\ e \in Seq(Nat) /\ p \in Nat /\ q \in Nat /\ Len(e) = p + q
      /\ \A i \in 1 .. p : e[i] = rx[i]
      /\ \A i \in 1 .. q : e[p + i] = t[i]
  BY <1>1, JoinSeq
<1>3. \A i \in 1 .. q : t[i] # Key
  BY <1>1 DEF NoKey
<1>5. ASSUME NEW i \in 1 .. p + q, ~(i <= p) PROVE e[i] # Key
  <2>1. i - p \in 1 .. q /\ p + (i - p) = i
    BY <1>2, <1>5
  <2> QED
    BY <1>2, <1>3, <2>1
<1>6. ASSUME NoKey(rx) PROVE NoKey(e) /\ DataOf(e) = DataOf(rx) \o t
  <2>1. \A i \in 1 .. p : rx[i] # Key
    BY <1>1, <1>6 DEF NoKey
  <2>2. ASSUME NEW i \in 1 .. p + q PROVE e[i] # Key
    <3>1. CASE i <= p
      <4>1. i \in 1 .. p
        BY <1>2, <3>1
      <4> QED
        BY <1>2, <2>1, <4>1
    <3> QED
      BY <1>5, <3>1
  <2>3. NoKey(e)
    BY <1>2, <2>2 DEF NoKey
  <2> QED
    BY <1>2, <1>6, <2>3, DataSeq
<1>7. ASSUME KeyFirst(rx) PROVE KeyFirst(e) /\ DataOf(e) = DataOf(rx) \o t
  <2>1. p > 0 /\ rx[1] = Key /\ \A i \in 2 .. p : rx[i] # Key
    <3>1. rx # << >> => Len(rx) > 0
      BY EmptySeq
    <3> QED
      BY <1>1, <1>7, <3>1 DEF KeyFirst
  <2>2. e[1] = Key /\ e # << >>
    <3>1. 1 \in 1 .. p /\ Len(e) # 0
      BY <1>2, <2>1
    <3> QED
      BY <1>2, <2>1, <3>1
  <2>3. ASSUME NEW i \in 2 .. p + q PROVE e[i] # Key
    <3>1. CASE i <= p
      <4>1. i \in 1 .. p /\ i \in 2 .. p
        BY <1>2, <3>1
      <4> QED
        BY <1>2, <2>1, <4>1
    <3>2. i \in 1 .. p + q
      BY <1>2
    <3> QED
      BY <1>5, <3>1, <3>2
  <2>4. KeyFirst(e)
    BY <1>2, <2>2, <2>3 DEF KeyFirst
  <2>5. PICK a, b : a = DataOf(e) /\ b = DataOf(rx)
    OBVIOUS
  <2>6. a = SubSeq(e, 2, Len(e)) /\ b = SubSeq(rx, 2, Len(rx))
    BY <1>2, <1>7, <2>4, <2>5, DataSeq
  <2>l. PICK l : l = p + q
    OBVIOUS
  <2>7. a \in Seq(Nat) /\ Len(a) = l - 1 /\ \A i \in 1 .. l - 1 : a[i] = e[1 + i]
    <3>1. e \in Seq(Nat) /\ Len(e) = l /\ Len(e) > 0
      BY <1>2, <2>1, <2>l
    <3>2. a \in Seq(Nat) /\ Len(a) = Len(e) - 1 /\ \A i \in 1 .. Len(e) - 1 : a[i] = e[1 + i]
      BY <2>6, <3>1, TailSeq, ZenonT(40)
    <3> QED
      BY <3>1, <3>2, ZenonT(40)
  <2>8. b \in Seq(Nat) /\ Len(b) = p - 1 /\ \A i \in 1 .. p - 1 : b[i] = rx[1 + i]
    <3>1. rx \in Seq(Nat) /\ Len(rx) = p /\ Len(rx) > 0
      BY <1>1, <1>2, <2>1
    <3>2. b \in Seq(Nat) /\ Len(b) = Len(rx) - 1 /\ \A i \in 1 .. Len(rx) - 1 : b[i] = rx[1 + i]
      BY <2>6, <3>1, TailSeq, ZenonT(40)
    <3> QED
      BY <3>1, <3>2, ZenonT(40)
  <2>9. PICK d, o : d = b \o t /\ o = p - 1
    OBVIOUS
  <2>10. /\ d \in Seq(Nat) /\ o \in Nat /\ Len(d) = o + q
         /\ \A i \in 1 .. o : d[i] = b[i]
         /\ \A i \in 1 .. q : d[o + i] = t[i]
    <3>1. o = Len(b)
      BY <2>8, <2>9
    <3> QED
      <4>1. b \in Seq(Nat) /\ q = Len(t) /\ d = b \o t
        BY <1>1, <2>8, <2>9
      <4> QED
        BY <3>1, <4>1, JoinSeq
  <2>11. ASSUME NEW i \in 1 .. l - 1 PROVE a[i] = d[i]
    <3>1. CASE i <= o
      <4>1. i \in 1 .. o /\ i \in 1 .. p - 1 /\ 1 + i \in 1 .. p
        BY <1>2, <2>9, <2>10, <2>l, <3>1, SMTT(40)
      <4> QED
        BY <1>2, <2>7, <2>8, <2>10, <4>1
    <3>2. CASE ~(i <= o)
      <4>1. PICK j : j = i - o
        OBVIOUS
      <4>2. j \in 1 .. q /\ i = o + j /\ 1 + i = p + j
        BY <1>2, <2>9, <2>10, <2>l, <3>2, <4>1
      <4>3. a[i] = e[1 + i] /\ e[p + j] = t[j] /\ d[o + j] = t[j]
        BY <1>2, <2>7, <2>10, <4>2
      <4> QED
        BY <4>2, <4>3
    <3> QED
      BY <3>1, <3>2
  <2>12. Len(a) = Len(d) /\ \A i \in 1 .. Len(a) : a[i] = d[i]
    <3>1. Len(a) = l - 1 /\ o + q = l - 1
      BY <1>2, <2>7, <2>9, <2>l
    <3> QED
      BY <2>10, <2>11, <3>1
  <2>13. a = d
    BY <2>7, <2>10, <2>12, SeqEqual
  <2> QED
    BY <2>4, <2>5, <2>9, <2>13
<1> QED
  BY <1>6, <1>7

LEMMA KeyArrives == KeyFirst(<< >> \o <<Key>>) /\ DataOf(<< >> \o <<Key>>) = << >>
<1>1. <<Key>> \in Seq(Nat)
  BY DEF Key
<1>2. << >> \o <<Key>> = <<Key>>
  BY <1>1, ConcatNone
<1>3. KeyFirst(<<Key>>)
  BY DEF KeyFirst
<1>4. DataOf(<<Key>>) = SubSeq(<<Key>>, 2, 1)
  BY <1>1, <1>3, DataSeq
<1>5. SubSeq(<<Key>>, 2, 1) = << >>
  BY SubSeqEmpty
<1> QED
  BY <1>2, <1>3, <1>4, <1>5

\* netnacl_wrap takes the key and nothing else.
LEMMA KeyTaken ==
    ASSUME NEW rx \in Seq(Nat), KeyFirst(rx), NEW t, t = SubSeq(rx, 2, Len(rx))
    PROVE  NoKey(t) /\ DataOf(t) = DataOf(rx) /\ t \in Seq(Nat)
<1>1. PICK d : d = DataOf(rx)
  OBVIOUS
<1>2. d = t /\ NoKey(d) /\ d \in Seq(Nat)
  BY <1>1, DataSeq
<1>3. DataOf(d) = d
  BY <1>2, DataSeq
<1> QED
  BY <1>1, <1>2, <1>3

LEMMA RestNoKey ==
    ASSUME NEW rx \in Seq(Nat), NoKey(rx), NEW n \in 0 .. Len(rx), NEW t,
           t = SubSeq(rx, n + 1, Len(rx))
    PROVE  NoKey(t) /\ DataOf(t) = t /\ DataOf(rx) = rx
<1>0. PICK l : l = Len(rx) /\ l \in Nat
  OBVIOUS
<1>1. t \in Seq(Nat) /\ Len(t) = l - n /\ \A i \in 1 .. l - n : t[i] = rx[i + n]
  BY <1>0
<1>2. NoKey(t)
  <2> SUFFICES ASSUME NEW i \in 1 .. Len(t) PROVE t[i] # Key
    BY DEF NoKey
  <2>1. i \in 1 .. l - n /\ i + n \in 1 .. l
    BY <1>0, <1>1
  <2> QED
    BY <1>0, <1>1, <2>1 DEF NoKey
<1> QED
  BY <1>1, <1>2, DataSeq

\* What is left to send after n bytes.
LEMMA PendingAdvance ==
    ASSUME NEW b \in BufType, b.read_pos <= Len(b.data), NEW n \in 0 .. Len(Pending(b))
    PROVE  Pending(Advance(b, n)) = SubSeq(Pending(b), n + 1, Len(Pending(b)))
<1>1. PICK data, l, p : data = b.data /\ p = b.read_pos /\ l = Len(data)
  OBVIOUS
<1>2. data \in Seq(Nat) /\ p \in Nat /\ p <= l /\ l \in Nat
  BY <1>1 DEF BufType
<1>3. Advance(b, n) = [data |-> data, read_pos |-> p + n]
  BY <1>1 DEF Advance, BufType
<1>4. PICK u, s, t, k : /\ u = Pending(Advance(b, n)) /\ s = Pending(b)
                        /\ k = Len(s) /\ t = SubSeq(s, n + 1, k)
  OBVIOUS
<1>5. s = SubSeq(data, p + 1, l) /\ u = SubSeq(data, (p + n) + 1, l)
  <2>1. PICK d : d = Advance(b, n)
    OBVIOUS
  <2>2. d.data = data /\ d.read_pos = p + n
    BY <1>3, <2>1
  <2>3. Pending(d) = SubSeq(data, (p + n) + 1, l)
    BY <1>1, <2>2 DEF Pending
  <2>4. Pending(b) = SubSeq(data, p + 1, l)
    BY <1>1 DEF Pending
  <2> QED
    BY <1>4, <2>1, <2>3, <2>4
<1>6. p \in 0 .. l
  BY <1>2
<1>7. s \in Seq(Nat) /\ k = l - p /\ \A i \in 1 .. l - p : s[i] = data[p + i]
  <2>1. l = Len(data) /\ s = SubSeq(data, p + 1, l)
    BY <1>1, <1>5
  <2>2. s \in Seq(Nat) /\ Len(s) = l - p /\ \A i \in 1 .. l - p : s[i] = data[p + i]
    BY <1>2, <1>6, <2>1, CutSeq, SMTT(40)
  <2> QED
    BY <1>4, <2>2
<1>8. n \in 0 .. k /\ n \in Nat
  BY <1>4
<1>9. t \in Seq(Nat) /\ Len(t) = k - n /\ \A i \in 1 .. k - n : t[i] = s[n + i]
  <2>1. s \in Seq(Nat) /\ k = Len(s) /\ t = SubSeq(s, n + 1, k)
    BY <1>4, <1>7
  <2> QED
    BY <1>8, <2>1, CutSeq, SMTT(40)
<1>10. PICK pn : pn = p + n
  OBVIOUS
<1>11. pn \in 0 .. l /\ u = SubSeq(data, pn + 1, l)
  BY <1>2, <1>5, <1>7, <1>8, <1>10
<1>12. u \in Seq(Nat) /\ Len(u) = l - pn /\ \A i \in 1 .. l - pn : u[i] = data[pn + i]
  BY <1>1, <1>2, <1>11, CutSeq, SMTT(40)
<1>13. l - pn = k - n
  BY <1>2, <1>7, <1>8, <1>10
<1>14. ASSUME NEW i \in 1 .. k - n PROVE t[i] = u[i]
  <2>1. n + i \in 1 .. l - p /\ p + (n + i) = pn + i
    BY <1>2, <1>7, <1>8, <1>10
  <2> QED
    BY <1>7, <1>9, <1>12, <1>13, <2>1
<1>15. t = u
  <2>1. Len(t) = Len(u) /\ \A i \in 1 .. Len(t) : t[i] = u[i]
    BY <1>9, <1>12, <1>13, <1>14
  <2> QED
    BY <1>9, <1>12, <2>1, SeqEqual
<1> QED
  BY <1>4, <1>15

-----------------------------------------------------------------------------
(* The streams of connections that a step does not touch.                  *)

LEMMA FlowTyped ==
    ASSUME NEW m, NEW s, SockTyped(s), NEW c, NEW k \in ConnType, ConnInv(m, s, c, k),
           NEW side \in Sides
    PROVE  /\ Pending(k.buf[side]) \in Seq(Nat) /\ RestOf(s, k, side) \in Seq(Nat)
           /\ k.fd[side] # NoFd => /\ k.fd[side] \in FdSet /\ SockOK(s[k.fd[side]])
                                   /\ s[k.fd[side]].rx \in Seq(Nat)
                                   /\ s[k.fd[side]].peer.conn = c
<1>1. /\ k.buf[side] \in BufType /\ k.netnacl[side].recv_pt \in Seq(Nat)
      /\ BufOK(k.buf[side], k.netnacl[side]) /\ Owned(s, c, k)
  BY ConnFields DEF ConnInv
<1>2. Pending(k.buf[side]) \in Seq(Nat)
  BY <1>1, PendingSeq DEF BufOK
<1>3. ASSUME k.fd[side] # NoFd
      PROVE  /\ k.fd[side] \in FdSet /\ SockOK(s[k.fd[side]]) /\ s[k.fd[side]].rx \in Seq(Nat)
             /\ s[k.fd[side]].peer.conn = c
  <2>1. k.fd[side] \in FdSet /\ s[k.fd[side]].peer = [conn |-> c, side |-> side]
    BY <1>1, <1>3 DEF Owned
  <2>2. SockOK(s[k.fd[side]])
    BY <2>1 DEF SockTyped
  <2>3. s[k.fd[side]].rx \in Seq(Nat)
    BY <2>2 DEF SockOK, SockType
  <2>4. [conn |-> c, side |-> side].conn = c
    OBVIOUS
  <2> QED
    BY <2>1, <2>2, <2>3, <2>4
<1>4. RestOf(s, k, side) \in Seq(Nat)
  <2>1. CASE k.fd[side] = NoFd
    <3>1. << >> \in Seq(Nat)
      OBVIOUS
    <3> QED
      BY <2>1, <3>1 DEF RestOf
  <2>2. CASE k.fd[side] # NoFd
    <3>1. DataOf(s[k.fd[side]].rx) \in Seq(Nat)
      BY <1>3, <2>2, DataSeq
    <3> QED
      BY <1>1, <2>2, <3>1, ConcatProperties DEF RestOf
  <2> QED
    BY <2>1, <2>2
<1> QED
  BY <1>2, <1>3, <1>4

\* What was delivered of a whole stream counts its bytes.
LEMMA StreamCounts ==
    ASSUME NEW m, NEW s, SockTyped(s), NEW c, NEW k \in ConnType, ConnInv(m, s, c, k),
           NEW e, NEW g \in [Sides -> Seq(Nat)], NEW n \in [Sides -> Nat],
           ConnStream(e, m, s, k, g, n)
    PROVE  \A side \in Sides : CountsTo(g[side], n[Other(side)])
<1> SUFFICES ASSUME NEW side \in Sides PROVE CountsTo(g[side], n[Other(side)])
  OBVIOUS
<1>1. PICK o, a, b, r : /\ o = Other(side) /\ a = g[side] /\ b = Pending(k.buf[side])
                        /\ r = RestOf(s, k, o)
  OBVIOUS
<1>2. o \in Sides /\ a \in Seq(Nat) /\ n[o] \in Nat
  BY <1>1, SideFacts
<1>3. b \in Seq(Nat) /\ r \in Seq(Nat)
  BY <1>1, <1>2, FlowTyped
<1>4. a \o b \o r = UpTo(n[o])
  BY <1>1 DEF ConnStream, Flow
<1>5. a \o (b \o r) = UpTo(n[o]) /\ b \o r \in Seq(Nat)
  BY <1>2, <1>3, <1>4, ConcatAssoc
<1>6. CountsTo(a, n[o])
  BY <1>2, <1>5, PrefixCounts
<1> QED
  BY <1>1, <1>6

\* Nothing about a connection's stream changes with what is not its own.
LEMMA StreamFrame ==
    ASSUME NEW m, NEW n, NEW s, NEW t, NEW c, NEW k, ConnInv(m, s, c, k),
           NEW e, NEW g, NEW x, ConnStream(e, m, s, k, g, x),
           \A f \in FdSet : s[f].peer.conn = c =>
             Same(m, n, f) /\ t[f].rx = s[f].rx /\ t[f].hello = s[f].hello
    PROVE  ConnStream(e, n, t, k, g, x)
<1>1. \A side \in Sides : k.fd[side] # NoFd =>
        /\ Same(m, n, k.fd[side])
        /\ t[k.fd[side]].rx = s[k.fd[side]].rx /\ t[k.fd[side]].hello = s[k.fd[side]].hello
  <2> SUFFICES ASSUME NEW side \in Sides, k.fd[side] # NoFd
               PROVE  /\ Same(m, n, k.fd[side])
                      /\ t[k.fd[side]].rx = s[k.fd[side]].rx
                      /\ t[k.fd[side]].hello = s[k.fd[side]].hello
    OBVIOUS
  <2>1. k.fd[side] \in FdSet /\ s[k.fd[side]].peer = [conn |-> c, side |-> side]
    BY DEF ConnInv, Owned
  <2>2. s[k.fd[side]].peer.conn = c
    BY <2>1
  <2> QED
    BY <2>1, <2>2
<1>2. \A side \in Sides : RestOf(t, k, side) = RestOf(s, k, side)
  BY <1>1 DEF RestOf
<1>3. \A side \in Sides : Flow(t, k, g, x, side)
  <2>1. \A side \in Sides : Flow(s, k, g, x, side) /\ Other(side) \in Sides
    BY SideFacts DEF ConnStream
  <2> QED
    BY <1>2, <2>1 DEF Flow
<1>4. \A side \in Sides : k.fd[side] # NoFd =>
        KeyOrder(e[side], t[k.fd[side]], k.netnacl[side])
  <2> SUFFICES ASSUME NEW side \in Sides, k.fd[side] # NoFd
               PROVE  KeyOrder(e[side], t[k.fd[side]], k.netnacl[side])
    OBVIOUS
  <2>1. KeyOrder(e[side], s[k.fd[side]], k.netnacl[side])
    BY DEF ConnStream
  <2> QED
    BY <1>1, <2>1 DEF KeyOrder
<1>5. \A side \in Sides : k.fd[side] # NoFd /\ k.fd[side] \in Watched(n) =>
        HandlerFits(e[side], HandlerAt(n, k.fd[side]), k.netnacl[side])
  BY <1>1 DEF ConnStream, Same
<1> QED
  BY <1>3, <1>4, <1>5 DEF ConnStream

\* A step that touches no connection other than c.
Elsewhere(c) ==
    /\ \A d \in ConnIds : d # c => /\ conns'[d].st = "live" => conns'[d] = conns[d]
                                   /\ got'[d] = got[d] /\ sent'[d] = sent[d]
    /\ \A f \in FdSet : sock[f].peer.conn \notin {0, c} =>
         /\ Same(mgr, mgr', f)
         /\ sock'[f].rx = sock[f].rx /\ sock'[f].hello = sock[f].hello
    /\ got' \in [ConnIds -> [Sides -> Seq(Nat)]]
    /\ accepted' \in Nat /\ accepted <= accepted' /\ (c \in ConnIds => c <= accepted')
    /\ config' = config /\ status' = status /\ (status = "none" => pc' = "setup")

\* What it has to show of c itself.
StreamAfter(c) ==
    /\ \A side \in Sides : CountsTo(got'[c][side], sent'[c][Other(side)])
    /\ conns'[c].st = "live" =>
         ConnStream(Encryption, mgr', sock', conns'[c], got'[c], sent'[c])

LEMMA StreamsKept ==
    ASSUME IInv, SInv, pc # "done", NEW c, Elsewhere(c), c \in ConnIds => StreamAfter(c)
    PROVE  SInv'
<1> USE SideFacts
<1>0. Types /\ Structure
  BY DEF IInv
<1>1. Encryption' = Encryption
  BY DEF Elsewhere, Encryption, Encrypted
<1>2. \A d \in ConnIds, side \in Sides : CountsTo(got'[d][side], sent'[d][Other(side)])
  <2> SUFFICES ASSUME NEW d \in ConnIds, NEW side \in Sides
               PROVE  CountsTo(got'[d][side], sent'[d][Other(side)])
    OBVIOUS
  <2>1. CASE d = c
    BY <2>1 DEF StreamAfter
  <2>2. CASE d # c
    BY <2>2 DEF Elsewhere, SInv
  <2> QED
    BY <2>1, <2>2
<1>3. ASSUME NEW d \in ConnIds, d > accepted', NEW side \in Sides
      PROVE  sent'[d][side] = 0 /\ got'[d][side] = << >>
  <2>1. d # c /\ d > accepted
    <3>1. accepted \in Nat /\ accepted' \in Nat /\ d \in Nat /\ accepted <= accepted'
      BY <1>0 DEF Types, Elsewhere
    <3>2. c \in ConnIds => c <= accepted' /\ c \in Nat
      BY DEF Elsewhere
    <3> QED
      BY <1>3, <3>1, <3>2
  <2> QED
    BY <2>1 DEF Elsewhere, SInv
<1>4. ASSUME NEW d \in ConnIds, conns'[d].st = "live"
      PROVE  ConnStream(Encryption, mgr', sock', conns'[d], got'[d], sent'[d])
  <2>1. CASE d = c
    BY <1>4, <2>1 DEF StreamAfter
  <2>2. CASE d # c
    <3>1. conns'[d] = conns[d] /\ got'[d] = got[d] /\ sent'[d] = sent[d] /\ Live(d)
      BY <1>4, <2>2 DEF Elsewhere, Live
    <3>2. ConnInv(mgr, sock, d, conns[d])
      BY <1>0, <3>1 DEF Structure
    <3>3. ConnStream(Encryption, mgr, sock, conns[d], got[d], sent[d])
      BY <3>1 DEF SInv
    <3>4. \A f \in FdSet : sock[f].peer.conn = d =>
            Same(mgr, mgr', f) /\ sock'[f].rx = sock[f].rx /\ sock'[f].hello = sock[f].hello
      BY <2>2 DEF Elsewhere
    <3>5. ConnStream(Encryption, mgr', sock', conns[d], got[d], sent[d])
      BY <3>2, <3>3, <3>4, StreamFrame
    <3> QED
      BY <3>1, <3>5
  <2> QED
    BY <2>1, <2>2
<1>5. got' \in [ConnIds -> [Sides -> Seq(Nat)]] /\ (status' = "none" => pc' = "setup")
  BY DEF Elsewhere
<1> QED
  BY <1>1, <1>2, <1>3, <1>4, <1>5 DEF SInv, Live

\* A callback's step on connection c.
LEMMA TouchedStream ==
    ASSUME IInv, SInv, pc \in {"dispatch", "send"}, NEW c \in ConnIds, NEW F, Touches(c, F),
           got' \in [ConnIds -> [Sides -> Seq(Nat)]],
           \A d \in ConnIds : d # c => got'[d] = got[d],
           sent' = sent, accepted' \in Nat, accepted <= accepted', c <= accepted',
           UNCHANGED mainVars, StreamAfter(c)
    PROVE  SInv'
<1> USE SideFacts
<1>1. Sound(mgr) /\ Types /\ Sound(mgr') /\ Outside(mgr, mgr', F)
  BY DEF IInv, Structure, Touches
<1>2. \A g \in Nat : g \notin F => Same(mgr, mgr', g)
  BY <1>1, OutsideSame
<1>3. ASSUME NEW f \in FdSet, sock[f].peer.conn \notin {0, c}
      PROVE  /\ Same(mgr, mgr', f)
             /\ sock'[f].rx = sock[f].rx /\ sock'[f].hello = sock[f].hello
  <2>1. f \notin F /\ f \in Nat
    BY <1>3 DEF Touches
  <2>2. sock'[f] = sock[f]
    BY <2>1 DEF Touches
  <2> QED
    BY <1>2, <2>1, <2>2
<1>4. \A d \in ConnIds : d # c => conns'[d] = conns[d]
  BY DEF Touches
<1>5. status # "none" /\ config' = config /\ status' = status
  BY DEF SInv, mainVars
<1>6. Elsewhere(c)
  BY <1>3, <1>4, <1>5 DEF Elsewhere
<1>7. pc # "done"
  OBVIOUS
<1> QED
  BY <1>6, <1>7, StreamsKept

\* A step on no connection.
LEMMA QuietStream ==
    ASSUME IInv, SInv, pc # "done",
           \A d \in ConnIds : conns'[d].st = "live" => conns'[d] = conns[d],
           \A f \in FdSet : sock[f].peer.conn # 0 =>
             sock'[f].rx = sock[f].rx /\ sock'[f].hello = sock[f].hello,
           mgr' = mgr \/ \A f \in FdSet : Same(mgr, mgr', f),
           got' = got, sent' = sent, accepted' \in Nat, accepted <= accepted',
           UNCHANGED mainVars, pc = "setup" => pc' = "setup"
    PROVE  SInv'
<1> USE SideFacts
<1>1. \A f \in FdSet : Same(mgr, mgr', f)
  BY DEF Same
<1>2. Elsewhere(0)
  BY <1>1 DEF Elsewhere, SInv, mainVars
<1> QED
  BY <1>2, StreamsKept

\* After Teardown only the peers go on.
LEMMA DoneStream ==
    ASSUME IInv, SInv, pc' = "done", status' # "none", got' = got,
           sent' \in [ConnIds -> [Sides -> Nat]],
           \A c \in ConnIds, side \in Sides : sent[c][side] <= sent'[c][side]
    PROVE  SInv'
<1> USE SideFacts
<1>1. ASSUME NEW c \in ConnIds, NEW side \in Sides
      PROVE  CountsTo(got'[c][side], sent'[c][Other(side)])
  <2>1. PICK o : o = Other(side) /\ o \in Sides
    OBVIOUS
  <2>2. PICK g, n, m : g = got[c][side] /\ n = sent[c][o] /\ m = sent'[c][o]
    OBVIOUS
  <2>3. g \in Seq(Nat) /\ CountsTo(g, n)
    BY <2>1, <2>2 DEF SInv
  <2>4. n \in Nat /\ m \in Nat /\ n <= m
    BY <2>1, <2>2 DEF IInv, Types
  <2>5. CountsTo(g, m)
    BY <2>3, <2>4, CountsMore
  <2> QED
    BY <2>1, <2>2, <2>5
<1> QED
  BY <1>1 DEF SInv

-----------------------------------------------------------------------------
(* Steps on no connection.                                                 *)

LEMMA LoopStream == ASSUME IInv, SInv, LoopStep, UNCHANGED mainVars PROVE SInv'
<1> USE SideFacts
<1>0. Types /\ accepted \in Nat
  BY DEF IInv, Types
<1>1. UNCHANGED <<sock, conns, got, sent, accepted>>
  BY DEF LoopStep, sockVars, peerVars, proxyVars
<1>2. pc # "done" /\ pc # "setup"
  BY DEF LoopStep, CheckFlag, SkipSlot, EndRound, PollReturns, PollFails
<1>3. mgr' = mgr \/ \A f \in FdSet : Same(mgr, mgr', f)
  <2>1. CASE PollReturns(PollReport)
    BY <2>1, PollInv DEF LoopStep
  <2>2. CASE CheckFlag \/ SkipSlot \/ EndRound \/ PollFails
    BY <2>2 DEF CheckFlag, SkipSlot, EndRound, PollFails
  <2> QED
    BY <2>1, <2>2 DEF LoopStep
<1>4. \A d \in ConnIds : conns'[d].st = "live" => conns'[d] = conns[d]
  BY <1>1
<1>5. \A f \in FdSet : sock[f].peer.conn # 0 =>
        sock'[f].rx = sock[f].rx /\ sock'[f].hello = sock[f].hello
  BY <1>1
<1> QED
  BY <1>0, <1>1, <1>2, <1>3, <1>4, <1>5, QuietStream

LEMMA EnvironmentStream == ASSUME IInv, SInv, Environment PROVE SInv'
<1> USE SideFacts
<1>0. Types /\ accepted \in Nat /\ sent \in [ConnIds -> [Sides -> Nat]]
  BY DEF IInv, Types
<1>1. UNCHANGED <<conns, mgr, got, sent, accepted>> /\ UNCHANGED mainVars
  BY DEF Environment, SignalArrives, ListenerFails, Signal, PollInterrupted, sockVars, peerVars,
         proxyVars, loopVars
<1>2. \A f \in FdSet : sock[f].peer.conn # 0 =>
        sock'[f].rx = sock[f].rx /\ sock'[f].hello = sock[f].hello
  <2>1. CASE ListenerFails
    <3>1. listen_fd \in FdSet /\ sock' = [sock EXCEPT ![listen_fd] =
                                            [sock[listen_fd] EXCEPT !.err = "reset"]]
      BY <1>0, <2>1 DEF ListenerFails, UpdateSock, Types
    <3>2. sock \in [FdSet -> SockType]
      BY <1>0 DEF Types, SockTyped
    <3> QED
      BY <3>1, <3>2 DEF SockType
  <2>2. CASE SignalArrives
    BY <2>2 DEF SignalArrives, sockVars
  <2> QED
    BY <2>1, <2>2 DEF Environment
<1>3. CASE pc = "done"
  <2>1. pc' = "done"
    BY <1>3 DEF Environment, SignalArrives, Signal, PollInterrupted, ListenerFails, loopVars
  <2>2. status' # "none"
    BY <1>1, <1>3 DEF SInv, mainVars
  <2>3. \A c \in ConnIds, side \in Sides : sent[c][side] <= sent'[c][side]
    <3>1. \A c \in ConnIds, side \in Sides : sent[c][side] \in Nat
      BY <1>0
    <3> QED
      BY <1>1, <3>1
  <2> QED
    BY <1>0, <1>1, <2>1, <2>2, <2>3, DoneStream
<1>4. CASE pc # "done"
  <2>1. pc = "setup" => pc' = "setup"
    BY DEF Environment, SignalArrives, Signal, PollInterrupted, ListenerFails, loopVars
  <2>2. \A d \in ConnIds : conns'[d].st = "live" => conns'[d] = conns[d]
    BY <1>1
  <2>3. accepted' \in Nat /\ accepted <= accepted'
    BY <1>0, <1>1
  <2> QED
    BY <1>1, <1>2, <1>4, <2>1, <2>2, <2>3, QuietStream
<1> QED
  BY <1>3, <1>4

\* Before proxy_run there is no connection.
LEMMA NoneLive == ASSUME IInv, pc = "setup", NEW c \in ConnIds PROVE ~Live(c)
<1> USE SideFacts
<1> SUFFICES ASSUME Live(c) PROVE FALSE
  OBVIOUS
<1>1. mgr = EmptyTable /\ ConnInv(mgr, sock, c, conns[c])
  BY DEF IInv, Structure, Listener
<1>2. Watched(mgr) = {}
  BY <1>1, EmptyView
<1>3. ~Opening(mgr, c, conns[c])
  BY <1>2 DEF Opening
<1>4. Serving(mgr, c, conns[c]) /\ HasWork(conns[c])
  BY <1>1, <1>3 DEF ConnInv
<1>5. conns[c].fd["client"] = NoFd /\ conns[c].fd["server"] = NoFd
  BY <1>2, <1>4 DEF Serving
<1> QED
  BY <1>4, <1>5 DEF HasWork

LEMMA SetupStream ==
    ASSUME IInv, SInv, pc = "setup", UNCHANGED <<conns, got, sent, accepted>>,
           status' = "none" => pc' = "setup"
    PROVE  SInv'
<1>1. \A c \in ConnIds : ~Live(c)
  BY NoneLive
<1>2. pc # "done" /\ \A c \in ConnIds : conns'[c].st # "live"
  BY <1>1 DEF Live
<1> QED
  BY <1>2 DEF SInv, Live

LEMMA StartStream ==
    ASSUME IInv, SInv, main \/ (proxy_run /\ UNCHANGED mainVars)
    PROVE  SInv'
<1>1. CASE main
  <2>1. /\ pc = "setup" /\ UNCHANGED <<conns, got, sent, accepted, pc>>
    BY <1>1 DEF main, ReadCommandLine, loopVars, sockVars, peerVars, proxyVars, SInv
  <2> QED
    BY <2>1, SetupStream
<1>2. CASE proxy_run /\ UNCHANGED mainVars
  <2>1. /\ pc = "setup" /\ UNCHANGED <<conns, got, sent, accepted>> /\ status' = "running"
    BY <1>2 DEF proxy_run, mainVars, peerVars
  <2> QED
    BY <2>1, SetupStream
<1> QED
  BY <1>1, <1>2

LEMMA TeardownStream == ASSUME IInv, SInv, Teardown PROVE SInv'
<1>1. /\ pc' = "done" /\ got' = got /\ sent' = sent /\ status' = ExitStatus(ret)
  BY DEF Teardown, peerVars
<1>2. status' # "none"
  BY <1>1 DEF ExitStatus, EXIT_SUCCESS, EXIT_FAILURE
<1>3. sent \in [ConnIds -> [Sides -> Nat]]
  BY DEF IInv, Types
<1>4. \A c \in ConnIds, side \in Sides : sent[c][side] \in Nat
  BY <1>3
<1>5. \A c \in ConnIds, side \in Sides : sent[c][side] <= sent'[c][side]
  BY <1>1, <1>4
<1> QED
  BY <1>1, <1>2, <1>3, <1>5, DoneStream

LEMMA InitStream == ASSUME Init PROVE SInv
<1> USE SideFacts
<1>1. /\ \A c \in ConnIds : conns[c] = NoConn
      /\ sent = [c \in ConnIds |-> [side \in Sides |-> 0]]
      /\ got = [c \in ConnIds |-> [side \in Sides |-> << >>]] /\ pc = "setup"
  BY DEF Init, SocketsInit, LoopInit
<1>2. \A c \in ConnIds : ~Live(c)
  BY <1>1, ConstTypes DEF Live
<1>3. \A c \in ConnIds, side \in Sides : got[c][side] = << >> /\ sent[c][side] = 0
  BY <1>1
<1>4. got \in [ConnIds -> [Sides -> Seq(Nat)]]
  <2>1. << >> \in Seq(Nat)
    OBVIOUS
  <2> QED
    BY <1>1, <2>1
<1>5. CountsTo(<< >>, 0)
  BY DEF CountsTo
<1> QED
  BY <1>1, <1>2, <1>3, <1>4, <1>5 DEF SInv

\* accept_callback without a new connection.
LEMMA AcceptStream ==
    ASSUME IInv, SInv, UNCHANGED mainVars,
           AcceptAborted \/ AcceptFails \/ AcceptSetupFails \/ AcceptThenConnectFails
    PROVE  SInv'
<1> USE SideFacts
<1>0. Types /\ accepted \in Nat
  BY DEF IInv, Types
<1>1. pc = "dispatch"
  BY DEF AcceptAborted, AcceptFails, AcceptSetupFails, AcceptThenConnectFails, Accepting, At,
         Dispatching
<1>2. mgr' = mgr /\ got' = got /\ sent' = sent
  BY DEF AcceptAborted, AcceptFails, AcceptSetupFails, AcceptThenConnectFails, sockVars, peerVars
<1>3. accepted' \in {accepted, accepted + 1}
  BY DEF AcceptAborted, AcceptFails, AcceptSetupFails, AcceptThenConnectFails, sockVars, peerVars
<1>4. sock' = sock \/ sock' = CloseFds(sock, {0})
  BY DEF AcceptAborted, AcceptFails, AcceptSetupFails, AcceptThenConnectFails, sockVars
<1>5. conns' = conns \/ conns' = [conns EXCEPT ![accepted + 1] = FreedConn]
  BY DEF AcceptAborted, AcceptFails, AcceptSetupFails, AcceptThenConnectFails, proxyVars
<1>6. \A d \in ConnIds : conns'[d].st = "live" => conns'[d] = conns[d]
  <2>1. conns \in [ConnIds -> ConnType]
    BY <1>0 DEF Types
  <2> QED
    BY <1>5, <2>1, ConstTypes
<1>7. \A f \in FdSet : sock[f].peer.conn # 0 =>
        sock'[f].rx = sock[f].rx /\ sock'[f].hello = sock[f].hello
  <2>1. sock[0].st = "stdin" /\ SockOK(sock[0])
    BY <1>1 DEF IInv, Structure, Listener, Running, Types, SockTyped
  <2>2. sock[0].peer = NoPeer
    BY <2>1 DEF SockOK, Connected
  <2>3. sock[0].peer.conn = 0
    BY <2>2 DEF NoPeer
  <2> QED
    BY <1>4, <2>3 DEF CloseFds
<1>8. accepted' \in Nat /\ accepted <= accepted'
  BY <1>0, <1>3
<1> QED
  BY <1>1, <1>2, <1>6, <1>7, <1>8, QuietStream

\* A callback that leaves everything to the next call.
LEMMA IdleStream ==
    ASSUME IInv, SInv, pc = "dispatch", UNCHANGED <<mgr, sock, conns, got, sent, accepted, mainVars>>
    PROVE  SInv'
<1>1. accepted' \in Nat /\ accepted <= accepted'
  BY DEF IInv, Types
<1>2. UNCHANGED mainVars /\ pc # "done" /\ pc # "setup"
  OBVIOUS
<1>3. \A d \in ConnIds : conns'[d].st = "live" => conns'[d] = conns[d]
  OBVIOUS
<1>4. \A f \in FdSet : sock[f].peer.conn # 0 =>
        sock'[f].rx = sock[f].rx /\ sock'[f].hello = sock[f].hello
  OBVIOUS
<1> QED
  BY <1>1, <1>2, <1>3, <1>4, QuietStream

\* A callback that closes its connection: what was delivered stays.
LEMMA ClosedStream ==
    ASSUME IInv, SInv, pc \in {"dispatch", "send"}, NEW c \in ConnIds, Live(c), NEW m, Sound(m),
           Outside(mgr, m, FdsOf(c)), close_connection(m, c),
           UNCHANGED <<mainVars, accepted, sent, got>>
    PROVE  SInv'
<1> USE SideFacts
<1>0. Types /\ Structure
  BY DEF IInv
<1>1. Touches(c, FdsOf(c)) /\ conns'[c] = FreedConn
  BY <1>0, CloseTouches
<1>2. StreamAfter(c)
  BY <1>1, ConstTypes DEF StreamAfter, SInv
<1>3. got' \in [ConnIds -> [Sides -> Seq(Nat)]] /\ \A d \in ConnIds : d # c => got'[d] = got[d]
  BY DEF SInv
<1>4. accepted' \in Nat /\ accepted <= accepted' /\ c <= accepted'
  BY <1>0, LiveConn DEF Types
<1>5. UNCHANGED mainVars /\ sent' = sent
  OBVIOUS
<1> QED
  BY <1>1, <1>2, <1>3, <1>4, <1>5, TouchedStream

\* A callback that keeps its connection.
LEMMA ServedStream ==
    ASSUME IInv, SInv, IInv', pc \in {"dispatch", "send"}, NEW c \in ConnIds, Live(c),
           Touches(c, FdsOf(c)), conns'[c].st = "live",
           got' \in [ConnIds -> [Sides -> Seq(Nat)]],
           \A d \in ConnIds : d # c => got'[d] = got[d],
           UNCHANGED <<mainVars, accepted, sent>>,
           ConnStream(Encryption, mgr', sock', conns'[c], got'[c], sent[c])
    PROVE  SInv'
<1> USE SideFacts
<1>0. Types /\ Structure
  BY DEF IInv
<1>1. SockTyped(sock') /\ conns'[c] \in ConnType
  BY DEF IInv, Types
<1>2. ConnInv(mgr', sock', c, conns'[c])
  BY DEF Touches
<1>3. got'[c] \in [Sides -> Seq(Nat)] /\ sent[c] \in [Sides -> Nat]
  BY <1>0 DEF Types
<1>4. PICK e : e = Encryption
  OBVIOUS
<1>5. ConnStream(e, mgr', sock', conns'[c], got'[c], sent[c])
  BY <1>4
<1>6. \A side \in Sides : CountsTo(got'[c][side], sent[c][Other(side)])
  BY <1>1, <1>2, <1>3, <1>5, StreamCounts
<1>7. sent' = sent /\ UNCHANGED mainVars
  OBVIOUS
<1>8. StreamAfter(c)
  BY <1>6, <1>7 DEF StreamAfter
<1>9. accepted' \in Nat /\ accepted <= accepted' /\ c <= accepted'
  BY <1>0, LiveConn DEF Types
<1> QED
  BY <1>7, <1>8, <1>9, TouchedStream

\* The callbacks that only close their connection, and those that do nothing.
LEMMA ClosingStream ==
    ASSUME IInv, SInv, UNCHANGED mainVars, PendingConnectFails \/ HandshakeHup \/ ConnHup
    PROVE  SInv'
<1>0. Types /\ Structure
  BY DEF IInv, PendingConnectFails, HandshakeHup, ConnHup, At, Dispatching
<1>1. PICK c : c = Conn
  OBVIOUS
<1>2. c \in ConnIds /\ Live(c) /\ pc = "dispatch"
  <2>1. CASE PendingConnectFails
    BY <1>0, <1>1, <2>1, AtPending DEF PendingConnectFails
  <2>2. CASE HandshakeHup
    BY <1>0, <1>1, <2>2, AtServing DEF HandshakeHup
  <2>3. CASE ConnHup
    BY <1>0, <1>1, <2>3, AtServing DEF ConnHup
  <2> QED
    BY <2>1, <2>2, <2>3
<1>3. UNCHANGED <<accepted, sent, got>>
  BY DEF PendingConnectFails, HandshakeHup, ConnHup, peerVars
<1>4. Sound(mgr) /\ Outside(mgr, mgr, FdsOf(c))
  BY <1>0, OutsideNone DEF Structure
<1>5. CASE close_connection(mgr, c)
  <2>1. UNCHANGED <<mainVars, accepted, sent, got>>
    BY <1>3
  <2>2. pc \in {"dispatch", "send"}
    BY <1>2
  <2> QED
    BY <1>2, <1>4, <1>5, <2>1, <2>2, ClosedStream
<1>6. CASE UNCHANGED <<mgr, sock, conns>>
  BY <1>2, <1>3, <1>6, IdleStream
<1> QED
  BY <1>1, <1>5, <1>6 DEF PendingConnectFails, HandshakeHup, ConnHup

LEMMA SendFailsStream == ASSUME IInv, SInv, UNCHANGED mainVars, SendFails PROVE SInv'
<1>1. Sending /\ close_connection(mgr, SendTo.conn) /\ UNCHANGED <<mainVars, accepted, sent, got>>
  BY DEF SendFails, peerVars
<1>2. PICK c : c = SendTo.conn
  OBVIOUS
<1>3. Structure /\ pc \in {"dispatch", "send"} /\ c \in ConnIds /\ Live(c)
  BY <1>1, <1>2, AtSending
<1>4. Sound(mgr) /\ Outside(mgr, mgr, FdsOf(c)) /\ close_connection(mgr, c)
  BY <1>1, <1>2, <1>3, OutsideNone DEF Structure
<1> QED
  BY <1>1, <1>3, <1>4, ClosedStream

LEMMA RecvIdleStream ==
    ASSUME IInv, SInv, UNCHANGED mainVars, At("conn_callback"),
           UNCHANGED <<mgr, sock, conns, peerVars>>
    PROVE  SInv'
<1>1. pc = "dispatch" /\ UNCHANGED <<mgr, sock, conns, got, sent, accepted, mainVars>>
  BY DEF At, Dispatching, peerVars
<1> QED
  BY <1>1, IdleStream

LEMMA RecvClosesStream ==
    ASSUME IInv, SInv, UNCHANGED mainVars, At("conn_callback"), close_connection(mgr, Conn),
           UNCHANGED peerVars
    PROVE  SInv'
<1>0. Types /\ Structure
  BY DEF IInv, At, Dispatching
<1>1. PICK c : c = Conn
  OBVIOUS
<1>2. c \in ConnIds /\ Live(c) /\ pc \in {"dispatch", "send"}
  BY <1>0, <1>1, AtServing
<1>3. Sound(mgr) /\ Outside(mgr, mgr, FdsOf(c)) /\ close_connection(mgr, c)
  BY <1>0, <1>1, OutsideNone DEF Structure
<1>4. UNCHANGED <<mainVars, accepted, sent, got>>
  BY DEF peerVars
<1> QED
  BY <1>2, <1>3, <1>4, ClosedStream

-----------------------------------------------------------------------------
(* handle_send.                                                            *)

\* Handlers and keys stay, and with them all that a context says about them.
SameKeys(m, n, s, t, k, q) ==
    /\ q.fd = k.fd /\ q.ref = k.ref
    /\ \A side \in Sides : k.fd[side] # NoFd => k.fd[side] \in FdSet
    /\ \A side \in Sides : /\ q.netnacl[side].key = k.netnacl[side].key
                            /\ q.netnacl[side].recv_pt = k.netnacl[side].recv_pt
    /\ \A f \in FdSet : t[f].rx = s[f].rx /\ t[f].hello = s[f].hello
    /\ \A f \in FdSet : f \in Watched(n) =>
         f \in Watched(m) /\ HandlerAt(n, f) = HandlerAt(m, f)

LEMMA KeysKept ==
    ASSUME NEW e, NEW m, NEW n, NEW s, NEW t, NEW k, NEW q, NEW g, NEW x,
           ConnStream(e, m, s, k, g, x), SameKeys(m, n, s, t, k, q)
    PROVE  /\ \A side \in Sides : RestOf(t, q, side) = RestOf(s, k, side)
           /\ \A side \in Sides : q.fd[side] # NoFd =>
                KeyOrder(e[side], t[q.fd[side]], q.netnacl[side])
           /\ \A side \in Sides : q.fd[side] # NoFd /\ q.fd[side] \in Watched(n) =>
                HandlerFits(e[side], HandlerAt(n, q.fd[side]), q.netnacl[side])
           /\ q.ref # 2 => \A side \in Sides : q.netnacl[side].key # "ready"
<1> USE DEF SameKeys
<1>1. ASSUME NEW side \in Sides PROVE RestOf(t, q, side) = RestOf(s, k, side)
  BY DEF RestOf
<1>2. ASSUME NEW side \in Sides, q.fd[side] # NoFd
      PROVE  KeyOrder(e[side], t[q.fd[side]], q.netnacl[side])
  <2>1. PICK f : f = k.fd[side] /\ f \in FdSet /\ f = q.fd[side] /\ f # NoFd
    BY <1>2
  <2>2. KeyOrder(e[side], s[f], k.netnacl[side])
    BY <2>1 DEF ConnStream
  <2>3. KeyOrder(e[side], t[f], q.netnacl[side])
    BY <2>1, <2>2 DEF KeyOrder
  <2> QED
    BY <2>1, <2>3
<1>3. ASSUME NEW side \in Sides, q.fd[side] # NoFd, q.fd[side] \in Watched(n)
      PROVE  HandlerFits(e[side], HandlerAt(n, q.fd[side]), q.netnacl[side])
  <2>1. PICK f : f = k.fd[side] /\ f \in FdSet /\ f = q.fd[side] /\ f # NoFd
    BY <1>3
  <2>2. f \in Watched(m) /\ HandlerAt(n, f) = HandlerAt(m, f)
    BY <1>3, <2>1
  <2>3. HandlerFits(e[side], HandlerAt(m, f), k.netnacl[side])
    BY <2>1, <2>2 DEF ConnStream
  <2>4. HandlerFits(e[side], HandlerAt(n, f), q.netnacl[side])
    BY <2>2, <2>3 DEF HandlerFits
  <2> QED
    BY <2>1, <2>4
<1>4. q.ref # 2 => \A side \in Sides : q.netnacl[side].key # "ready"
  BY DEF ConnStream
<1> QED
  BY <1>1, <1>2, <1>3, <1>4

\* What is sent of a buffer joins what was delivered.
LEMMA SentStream ==
    ASSUME IInv, SInv, IInv', pc \in {"dispatch", "send"}, NEW c, NEW side, NEW n, NEW b,
           SentOn(c, side, n, b), UNCHANGED <<mainVars, accepted, sent>>,
           Pending(b) = SubSeq(Pending(conns[c].buf[side]), n + 1,
                               Len(Pending(conns[c].buf[side])))
    PROVE  SInv'
<1> USE SideFacts
<1>0. Types /\ Structure /\ c \in ConnIds /\ Live(c) /\ side \in Sides
  BY DEF IInv, SentOn
<1>1. PICK k, q, o, g, h, p, x : /\ k = conns[c] /\ q = conns'[c] /\ o = Other(side)
                                 /\ g = got[c] /\ h = got'[c] /\ p = Pending(k.buf[side])
                                 /\ x = sent[c]
  OBVIOUS
<1>2. PICK u, v : u = SubSeq(p, 1, n) /\ v = SubSeq(p, n + 1, Len(p))
  OBVIOUS
<1>3. o \in Sides /\ o # side /\ Other(o) = side /\ Sides = {side, o}
  BY <1>0, <1>1
<1>4. k \in ConnType /\ ConnInv(mgr, sock, c, k) /\ SockTyped(sock)
  BY <1>0, <1>1, LiveConn DEF Types
<1>5. PICK e : e = Encryption
  OBVIOUS
<1>6. ConnStream(e, mgr, sock, k, g, x)
  BY <1>0, <1>1, <1>5 DEF SInv
<1>7. /\ p \in Seq(Nat) /\ \A d \in Sides : RestOf(sock, k, d) \in Seq(Nat)
      /\ \A d \in Sides : k.fd[d] # NoFd => k.fd[d] \in FdSet
      /\ \A d \in Sides : Pending(k.buf[d]) \in Seq(Nat)
  BY <1>0, <1>1, <1>4, FlowTyped
<1>8. g \in [Sides -> Seq(Nat)] /\ got \in [ConnIds -> [Sides -> Seq(Nat)]]
  BY <1>0, <1>1 DEF SInv
<1>9. u \in Seq(Nat) /\ v \in Seq(Nat) /\ u \o v = p /\ Pending(b) = v
  <2>1. n \in 0 .. Len(p)
    BY <1>1 DEF SentOn
  <2>2. u \in Seq(Nat) /\ v \in Seq(Nat) /\ u \o v = p
    BY <1>2, <1>7, <2>1, SplitSeq
  <2> QED
    BY <1>1, <1>2, <2>2
<1>10. got' = [got EXCEPT ![c][side] = @ \o u]
  BY <1>1, <1>2 DEF SentOn
<1>11. PICK j : j = g[side] \o u
  OBVIOUS
<1>12. j \in Seq(Nat)
  BY <1>0, <1>8, <1>9, <1>11, ConcatProperties
<1>13. h[side] = j /\ h[o] = g[o] /\ h \in [Sides -> Seq(Nat)]
  <2>1. h = [g EXCEPT ![side] = j]
    BY <1>0, <1>1, <1>8, <1>10, <1>11
  <2> QED
    BY <1>0, <1>3, <1>8, <1>12, <2>1
<1>14. /\ got' \in [ConnIds -> [Sides -> Seq(Nat)]]
       /\ \A d \in ConnIds : d # c => got'[d] = got[d]
  <2>1. got' = [got EXCEPT ![c] = h]
    <3>1. got[c] = g /\ h = [g EXCEPT ![side] = g[side] \o u]
      BY <1>0, <1>1, <1>8, <1>10
    <3> QED
      BY <1>10, <3>1
  <2> QED
    BY <1>0, <1>8, <1>13, <2>1
<1>15. /\ q.st = "live" /\ q.fd = k.fd /\ q.ref = k.ref /\ q.buf[side] = b
       /\ q.buf[o] = k.buf[o] /\ Touches(c, FdsOf(c))
       /\ \A d \in Sides : /\ q.netnacl[d].key = k.netnacl[d].key
                            /\ q.netnacl[d].recv_pt = k.netnacl[d].recv_pt
       /\ \A f \in FdSet : sock'[f].rx = sock[f].rx /\ sock'[f].hello = sock[f].hello
       /\ \A f \in FdSet : f \in Watched(mgr') =>
            f \in Watched(mgr) /\ HandlerAt(mgr', f) = HandlerAt(mgr, f)
  BY <1>1 DEF SentOn
<1>16. /\ \A d \in Sides : RestOf(sock', q, d) = RestOf(sock, k, d)
       /\ \A d \in Sides : q.fd[d] # NoFd => KeyOrder(e[d], sock'[q.fd[d]], q.netnacl[d])
       /\ \A d \in Sides : q.fd[d] # NoFd /\ q.fd[d] \in Watched(mgr') =>
            HandlerFits(e[d], HandlerAt(mgr', q.fd[d]), q.netnacl[d])
       /\ q.ref # 2 => \A d \in Sides : q.netnacl[d].key # "ready"
  <2>1. q.fd = k.fd /\ q.ref = k.ref
    BY <1>15
  <2>2. PICK m, s : m = mgr' /\ s = sock'
    OBVIOUS
  <2>3. /\ \A d \in Sides : /\ q.netnacl[d].key = k.netnacl[d].key
                            /\ q.netnacl[d].recv_pt = k.netnacl[d].recv_pt
        /\ \A f \in FdSet : s[f].rx = sock[f].rx /\ s[f].hello = sock[f].hello
        /\ \A f \in FdSet : f \in Watched(m) =>
             f \in Watched(mgr) /\ HandlerAt(m, f) = HandlerAt(mgr, f)
    BY <1>15, <2>2
  <2>4. \A d \in Sides : k.fd[d] # NoFd => k.fd[d] \in FdSet
    BY <1>7
  <2>6. SameKeys(mgr, m, sock, s, k, q)
    BY <2>1, <2>3, <2>4 DEF SameKeys
  <2>5. /\ \A d \in Sides : RestOf(s, q, d) = RestOf(sock, k, d)
        /\ \A d \in Sides : q.fd[d] # NoFd => KeyOrder(e[d], s[q.fd[d]], q.netnacl[d])
        /\ \A d \in Sides : q.fd[d] # NoFd /\ q.fd[d] \in Watched(m) =>
             HandlerFits(e[d], HandlerAt(m, q.fd[d]), q.netnacl[d])
        /\ q.ref # 2 => \A d \in Sides : q.netnacl[d].key # "ready"
    BY <1>6, <2>6, KeysKept
  <2> QED
    BY <2>2, <2>5
<1>17. Flow(sock', q, h, x, side)
  <2>1. PICK r, w : r = RestOf(sock, k, o) /\ w = g[side]
    OBVIOUS
  <2>2. w \in Seq(Nat) /\ r \in Seq(Nat)
    BY <1>0, <1>3, <1>7, <1>8, <2>1
  <2>3. w \o p \o r = UpTo(x[o])
    BY <1>0, <1>1, <1>6, <2>1 DEF ConnStream, Flow
  <2>a. u \in Seq(Nat) /\ v \in Seq(Nat)
    BY <1>9
  <2>4. w \o u \o v = w \o (u \o v)
    BY <2>2, <2>a, ConcatAssoc, SMTT(40)
  <2>5. j \o v = w \o p
    BY <1>9, <1>11, <2>1, <2>4
  <2>6. j \o v \o r = UpTo(x[o])
    BY <2>3, <2>5
  <2> QED
    BY <1>1, <1>3, <1>9, <1>13, <1>15, <1>16, <2>1, <2>6 DEF Flow
<1>18. Flow(sock', q, h, x, o)
  <2>1. Flow(sock, k, g, x, o)
    BY <1>3, <1>6 DEF ConnStream
  <2> QED
    BY <1>0, <1>3, <1>13, <1>15, <1>16, <2>1 DEF Flow
<1>19. ConnStream(e, mgr', sock', q, h, x)
  BY <1>3, <1>16, <1>17, <1>18 DEF ConnStream
<1>20. /\ conns'[c].st = "live" /\ Touches(c, FdsOf(c)) /\ UNCHANGED <<mainVars, accepted, sent>>
       /\ ConnStream(Encryption, mgr', sock', conns'[c], got'[c], sent[c])
  BY <1>1, <1>5, <1>15, <1>19
<1> QED
  BY <1>0, <1>14, <1>20, ServedStream

LEMMA SendSomeStream == ASSUME IInv, SInv, UNCHANGED mainVars, SendSome PROVE SInv'
<1>0. Types /\ Structure /\ pc \in {"dispatch", "send"} /\ UNCHANGED <<mainVars, accepted, sent>>
  BY AtSending DEF SendSome, Transfer
<1>1. IInv'
  BY SendSomeInv
<1>2. PICK c, side, n, b : SentOn(c, side, n, b) /\ b = Advance(conns[c].buf[side], n)
  BY SendSomeInv
<1>3. PICK d : d = conns[c].buf[side]
  OBVIOUS
<1>4. /\ c \in ConnIds /\ Live(c) /\ side \in Sides /\ n \in 0 .. Len(Pending(d))
  BY <1>2, <1>3 DEF SentOn
<1>5. d \in BufType /\ d.read_pos <= Len(d.data)
  BY <1>0, <1>3, <1>4, LiveConn, ConnFields DEF ConnInv, BufOK
<1>6. Pending(b) = SubSeq(Pending(d), n + 1, Len(Pending(d)))
  BY <1>2, <1>3, <1>4, <1>5, PendingAdvance
<1> QED
  BY <1>0, <1>1, <1>2, <1>3, <1>6, SentStream

LEMMA SendAllStream == ASSUME IInv, SInv, UNCHANGED mainVars, SendAll PROVE SInv'
<1> USE SideFacts
<1>0. Types /\ Structure /\ pc \in {"dispatch", "send"} /\ UNCHANGED <<mainVars, accepted, sent>>
  BY AtSending DEF SendAll, Transfer
<1>1. IInv' /\ Touches(SendTo.conn, FdsOf(SendTo.conn))
  BY SendAllInv
<1>2. CASE \E c, side, n, b : /\ SentOn(c, side, n, b) /\ b = EmptyBuf
                              /\ n = Len(Pending(conns[c].buf[side]))
  <2>1. PICK c, side, n, b : /\ SentOn(c, side, n, b) /\ b = EmptyBuf
                             /\ n = Len(Pending(conns[c].buf[side]))
    BY <1>2
  <2>2. c \in ConnIds /\ Live(c) /\ side \in Sides
    BY <2>1 DEF SentOn
  <2>3. PICK p : p = Pending(conns[c].buf[side])
    OBVIOUS
  <2>4. p \in Seq(Nat)
    BY <1>0, <2>2, <2>3, LiveConn, FlowTyped DEF Types
  <2>5. SubSeq(p, n + 1, Len(p)) = << >>
    <3>1. n = Len(p) /\ n \in Nat
      BY <2>1, <2>3, <2>4
    <3> QED
      BY <2>4, <3>1, SubSeqEmpty
  <2>6. Pending(b) = << >>
    BY <2>1 DEF EmptyBuf, Pending
  <2>7. Pending(b) = SubSeq(Pending(conns[c].buf[side]), n + 1, Len(Pending(conns[c].buf[side])))
    BY <2>3, <2>5, <2>6
  <2> QED
    BY <1>0, <1>1, <2>1, <2>7, SentStream
<1>3. CASE PeerGone(SendTo.conn, SendTo.side)
  <2>1. PICK c, side, p : c = SendTo.conn /\ side = SendTo.side /\ p = Pending(conns[c].buf[side])
    OBVIOUS
  <2>2. /\ c \in ConnIds /\ Live(c) /\ side \in Sides /\ Touches(c, FdsOf(c))
    BY <1>1, <2>1, AtSending DEF SendAll
  <2>3. close_connection(mgr, c) /\ got' = [got EXCEPT ![c][side] = @ \o SubSeq(p, 1, Len(p))]
    BY <1>3, <2>1 DEF SendAll, Transfer
  <2>4. conns'[c].st # "live"
    <3>1. Sound(mgr) /\ Outside(mgr, mgr, FdsOf(c))
      BY <1>0, OutsideNone DEF Structure
    <3>2. conns'[c] = FreedConn
      BY <1>0, <2>2, <2>3, <3>1, CloseTouches
    <3> QED
      BY <3>2, ConstTypes
  <2>5. PICK k, o, g, x, r, w : /\ k = conns[c] /\ o = Other(side) /\ g = got[c] /\ x = sent[c]
                                /\ r = RestOf(sock, k, o) /\ w = g[side]
    OBVIOUS
  <2>6. o \in Sides /\ o # side /\ Other(o) = side /\ Sides = {side, o}
    BY <2>2, <2>5
  <2>7. k \in ConnType /\ ConnInv(mgr, sock, c, k) /\ SockTyped(sock)
    BY <1>0, <2>2, <2>5, LiveConn DEF Types
  <2>8. p \in Seq(Nat) /\ r \in Seq(Nat)
    BY <2>1, <2>2, <2>5, <2>6, <2>7, FlowTyped
  <2>9. /\ g \in [Sides -> Seq(Nat)] /\ got \in [ConnIds -> [Sides -> Seq(Nat)]]
        /\ w \in Seq(Nat) /\ x[o] \in Nat
    BY <1>0, <2>2, <2>5, <2>6 DEF SInv, Types
  <2>10. ConnStream(Encryption, mgr, sock, k, g, x)
    BY <1>0, <2>2, <2>5 DEF SInv
  <2>11. w \o p \o r = UpTo(x[o])
    BY <2>1, <2>2, <2>5, <2>10 DEF ConnStream, Flow
  <2>12. PICK j : j = w \o p
    OBVIOUS
  <2>13. j \in Seq(Nat) /\ j \o r = UpTo(x[o])
    BY <2>8, <2>9, <2>11, <2>12, ConcatProperties
  <2>14. CountsTo(j, x[o])
    BY <2>8, <2>9, <2>13, PrefixCounts
  <2>15. SubSeq(p, 1, Len(p)) = p
    BY <2>8, SubSeqFull
  <2>16. PICK h : h = [g EXCEPT ![side] = j]
    OBVIOUS
  <2>17. h[side] = j /\ h[o] = g[o] /\ h \in [Sides -> Seq(Nat)]
    BY <2>2, <2>6, <2>9, <2>13, <2>16
  <2>18. got' = [got EXCEPT ![c] = h]
    <3>1. got[c] = g /\ h = [g EXCEPT ![side] = g[side] \o p]
      BY <2>5, <2>12, <2>16
    <3>2. got' = [got EXCEPT ![c][side] = @ \o p]
      BY <2>3, <2>15
    <3> QED
      BY <3>1, <3>2
  <2>19. /\ got' \in [ConnIds -> [Sides -> Seq(Nat)]] /\ got'[c] = h
         /\ \A d \in ConnIds : d # c => got'[d] = got[d]
    BY <2>2, <2>9, <2>17, <2>18
  <2>20. \A d \in Sides : CountsTo(got'[c][d], sent'[c][Other(d)])
    <3>1. sent' = sent
      BY <1>0
    <3>2. CountsTo(got'[c][side], sent'[c][Other(side)])
      BY <2>5, <2>14, <2>17, <2>19, <3>1
    <3>3. CountsTo(got[c][o], sent[c][Other(o)])
      BY <2>2, <2>6 DEF SInv
    <3>4. CountsTo(got'[c][o], sent'[c][Other(o)])
      BY <2>5, <2>17, <2>19, <3>1, <3>3
    <3> QED
      BY <2>6, <3>2, <3>4
  <2>21. StreamAfter(c)
    BY <2>4, <2>20 DEF StreamAfter
  <2>22. accepted' \in Nat /\ accepted <= accepted' /\ c <= accepted'
    BY <1>0, <2>2, LiveConn DEF Types
  <2>23. sent' = sent /\ UNCHANGED mainVars
    BY <1>0
  <2> QED
    BY <1>0, <2>2, <2>19, <2>21, <2>22, <2>23, TouchedStream
<1> QED
  BY <1>2, <1>3, SendAllInv

-----------------------------------------------------------------------------
(* handle_recv.                                                            *)

\* buf_recv loses nothing: what it hands out, what netnacl keeps and what stays in
\* the socket is what there was; behind a FIN nothing is left.
LosesNothing(nn, s, r) ==
    /\ r.data \o (r.recv_pt \o DataOf(r.s.rx)) = nn.recv_pt \o DataOf(s.rx)
    /\ r.recv_pt \o DataOf(r.s.rx) \in Seq(Nat) /\ r.data \in Seq(Nat)
    /\ NoKey(r.s.rx) /\ r.s.hello = s.hello
    /\ r.err = PROXY_DISCONNECT => r.recv_pt \o DataOf(r.s.rx) = << >>

LEMMA ReadSplit ==
    ASSUME NEW nn \in NNType, NEW s, SockOK(s), NEW r \in buf_recv(nn, s), NoKey(s.rx)
    PROVE  LosesNothing(nn, s, r)
<1>0. s.rx \in Seq(Nat) /\ nn.recv_pt \in Seq(Nat) /\ s.ends \subseteq 1 .. Len(s.rx)
  BY NNFields DEF SockOK, SockType
<1>1. PICK k \in Reads(nn, s) : r = Received(Read(nn, s, k), s, k)
  BY DEF buf_recv
<1>2. PICK rx, pt, l, head, tail, all, n :
        /\ rx = s.rx /\ pt = nn.recv_pt /\ l = Len(rx) /\ head = SubSeq(rx, 1, k)
        /\ tail = SubSeq(rx, k + 1, l) /\ all = Read(nn, s, k) /\ n = RecvSize(all)
  OBVIOUS
<1>3. PICK data, rest, t : /\ data = SubSeq(all, 1, n) /\ rest = SubSeq(all, n + 1, Len(all))
                           /\ t = Consume(s, k)
  OBVIOUS
<1>4. k \in 0 .. l /\ rx \in Seq(Nat) /\ pt \in Seq(Nat) /\ l \in Nat
  <2>1. k \in {0} \cup s.ends /\ Len(s.rx) \in Nat
    BY <1>0 DEF Reads
  <2> QED
    BY <1>0, <1>2, <2>1
<1>5. head \in Seq(Nat) /\ Len(head) = k /\ tail \in Seq(Nat) /\ head \o tail = rx
  BY <1>2, <1>4, SplitSeq
<1>6. all = pt \o head
  BY <1>2 DEF Read
<1>7. all \in Seq(Nat) /\ Len(all) = Len(pt) + k
  BY <1>4, <1>5, <1>6, ConcatProperties
<1>8. n \in 0 .. Len(all) /\ n = IF Len(all) < BUF_SIZ THEN Len(all) ELSE BUF_SIZ
  BY <1>2, <1>7, ProxyAssumption DEF RecvSize
<1>9. data \in Seq(Nat) /\ rest \in Seq(Nat) /\ data \o rest = all
  BY <1>3, <1>7, <1>8, SplitSeq
<1>10. r = [data |-> data, recv_pt |-> rest, s |-> t, err |-> RecvCode(s, n)]
  BY <1>1, <1>2, <1>3 DEF Received, RecvPt
<1>11. r.data = data /\ r.recv_pt = rest /\ r.s = t /\ r.err = RecvCode(s, n)
  BY <1>10
<1>12. t.rx = tail /\ t.hello = s.hello
  <2>1. k \in 0 .. Len(s.rx)
    BY <1>2, <1>4
  <2> QED
    BY <1>2, <1>3, <2>1, ConsumeOK
<1>13. NoKey(tail) /\ DataOf(tail) = tail /\ DataOf(rx) = rx
  <2>1. NoKey(rx) /\ k \in 0 .. Len(rx) /\ tail = SubSeq(rx, k + 1, Len(rx))
    BY <1>2, <1>4
  <2> QED
    BY <1>4, <2>1, RestNoKey
<1>14. all \o tail = pt \o rx
  <2>0. pt \in Seq(Nat) /\ head \in Seq(Nat) /\ tail \in Seq(Nat)
    BY <1>4, <1>5
  <2>1. pt \o head \o tail = pt \o (head \o tail)
    BY <2>0, ConcatAssoc, ZenonT(40)
  <2> QED
    BY <1>5, <1>6, <2>1
<1>15. data \o (rest \o tail) = pt \o rx /\ rest \o tail \in Seq(Nat)
  <2>1. tail \in Seq(Nat) /\ data \in Seq(Nat) /\ rest \in Seq(Nat)
    BY <1>5, <1>9
  <2>2. data \o rest \o tail = data \o (rest \o tail) /\ rest \o tail \in Seq(Nat)
    BY <2>1, ConcatAssoc
  <2> QED
    BY <1>9, <1>14, <2>2
<1>16. ASSUME r.err = PROXY_DISCONNECT PROVE rest \o tail = << >>
  <2>1. RecvCode(s, n) = PROXY_DISCONNECT
    BY <1>11, <1>16
  <2>2. n # BUF_SIZ
    BY <2>1, CodesTyped DEF RecvCode
  <2>3. Len(all) < BUF_SIZ /\ n = Len(all) /\ BUF_SIZ \in Nat /\ Len(pt) \in Nat
    BY <1>4, <1>8, <2>2, ProxyAssumption
  <2>4. k = Len(s.rx) \/ Len(nn.recv_pt) + k >= BUF_SIZ
    BY DEF Reads
  <2>5. k = l
    BY <1>2, <1>4, <1>7, <2>3, <2>4
  <2>6. tail = << >>
    BY <1>2, <1>4, <2>5, SubSeqEmpty
  <2>7. rest = << >>
    <3>1. n \in Nat
      BY <1>7, <2>3
    <3> QED
      BY <1>3, <1>7, <2>3, <3>1, SubSeqEmpty
  <2> QED
    BY <2>6, <2>7
<1>17. /\ NoKey(r.s.rx) /\ r.s.hello = s.hello /\ DataOf(r.s.rx) = tail
       /\ DataOf(s.rx) = rx
  BY <1>2, <1>11, <1>12, <1>13
<1> QED
  BY <1>2, <1>9, <1>11, <1>15, <1>16, <1>17 DEF LosesNothing

\* One side of a context is left alone by a step that replaces the other.
SideKept(m, n, s, t, k, q, side) ==
    /\ q.fd[side] = k.fd[side] /\ q.netnacl[side].key = k.netnacl[side].key
    /\ q.netnacl[side].recv_pt = k.netnacl[side].recv_pt
    /\ k.fd[side] # NoFd => /\ t[k.fd[side]].rx = s[k.fd[side]].rx
                            /\ t[k.fd[side]].hello = s[k.fd[side]].hello
    /\ k.fd[side] # NoFd /\ k.fd[side] \in Watched(n) =>
         k.fd[side] \in Watched(m) /\ HandlerAt(n, k.fd[side]) = HandlerAt(m, k.fd[side])

\* What ConnStream says of one side's keys.
KeysFit(e, m, s, k, side) ==
    k.fd[side] # NoFd =>
      /\ KeyOrder(e[side], s[k.fd[side]], k.netnacl[side])
      /\ k.fd[side] \in Watched(m) =>
           HandlerFits(e[side], HandlerAt(m, k.fd[side]), k.netnacl[side])

LEMMA KeptSide ==
    ASSUME NEW m, NEW n, NEW s, NEW t, NEW k, NEW q, NEW side, SideKept(m, n, s, t, k, q, side),
           NEW e, KeysFit(e, m, s, k, side)
    PROVE  RestOf(t, q, side) = RestOf(s, k, side) /\ KeysFit(e, n, t, q, side)
<1> USE DEF SideKept
<1>1. CASE k.fd[side] = NoFd
  BY <1>1 DEF RestOf, KeysFit
<1>2. CASE k.fd[side] # NoFd
  <2>1. RestOf(t, q, side) = RestOf(s, k, side)
    BY <1>2 DEF RestOf
  <2>2. KeyOrder(e[side], t[k.fd[side]], q.netnacl[side])
    <3>1. KeyOrder(e[side], s[k.fd[side]], k.netnacl[side])
      BY <1>2 DEF KeysFit
    <3> QED
      BY <1>2, <3>1 DEF KeyOrder
  <2>3. k.fd[side] \in Watched(n) =>
          HandlerFits(e[side], HandlerAt(n, k.fd[side]), q.netnacl[side])
    BY <1>2 DEF KeysFit, HandlerFits
  <2> QED
    BY <2>1, <2>2, <2>3 DEF KeysFit
<1> QED
  BY <1>1, <1>2

LEMMA StreamParts ==
    ASSUME NEW e, NEW m, NEW s, NEW k, NEW g, NEW x
    PROVE  ConnStream(e, m, s, k, g, x) <=>
             /\ \A side \in Sides : Flow(s, k, g, x, side) /\ KeysFit(e, m, s, k, side)
             /\ k.ref # 2 => \A side \in Sides : k.netnacl[side].key # "ready"
BY DEF ConnStream, KeysFit

\* The two sides of a live connection have different descriptors.
LEMMA TwoFds ==
    ASSUME NEW m, NEW s, NEW c, NEW k, ConnInv(m, s, c, k), NEW side \in Sides,
           k.fd[side] # NoFd
    PROVE  k.fd[Other(side)] # k.fd[side]
<1>1. PICK o : o = Other(side) /\ o \in Sides /\ o # side
  BY SideFacts
<1>2. SUFFICES ASSUME k.fd[o] = k.fd[side] PROVE FALSE
  BY <1>1
<1>3. s[k.fd[side]].peer = [conn |-> c, side |-> side] /\ s[k.fd[o]].peer = [conn |-> c, side |-> o]
  BY <1>1, <1>2 DEF ConnInv, Owned
<1> QED
  BY <1>1, <1>2, <1>3

\* What is received moves from the socket to the buffer for the other side.
LEMMA ReceivedStream ==
    ASSUME IInv, SInv, IInv', pc = "dispatch", NEW c, NEW side, NEW r, ReceivedOn(c, side, r),
           UNCHANGED <<mainVars, accepted, sent, got>>
    PROVE  SInv'
<1> USE SideFacts
<1>0. /\ Types /\ Structure /\ c \in ConnIds /\ Live(c) /\ side \in Sides
      /\ Touches(c, FdsOf(c)) /\ conns'[c].st = "live"
  BY Zenon DEF IInv, ReceivedOn
<1>1. PICK k, q, o, g, x, f, e, m, t :
        /\ k = conns[c] /\ q = conns'[c] /\ o = Other(side) /\ g = got[c] /\ x = sent[c]
        /\ f = k.fd[side] /\ e = Encryption /\ m = mgr' /\ t = sock'
  OBVIOUS
<1>2. o \in Sides /\ o # side /\ Other(o) = side /\ Sides = {side, o}
  BY <1>0, <1>1
<1>3. /\ f # NoFd /\ f \in Watched(mgr) /\ HandlerAt(mgr, f) = "conn_callback"
      /\ r \in buf_recv(k.netnacl[side], sock[f]) /\ k.ref = 2
      /\ q \in ConnType /\ q.ref = k.ref
      /\ k.buf[o] = EmptyBuf /\ q.buf[o] = [data |-> r.data, read_pos |-> 0]
      /\ q.buf[side] = k.buf[side] /\ q.netnacl[o] = k.netnacl[o] /\ q.fd[o] = k.fd[o]
      /\ IF r.err = PROXY_DISCONNECT
           THEN q.fd[side] = NoFd
           ELSE /\ q.fd[side] = f /\ q.netnacl[side].key = k.netnacl[side].key
                /\ q.netnacl[side].recv_pt = r.recv_pt /\ t[f] = r.s
      /\ \A h \in FdSet : h # f => t[h] = sock[h]
      /\ \A h \in FdSet : h \in Watched(m) =>
           h \in Watched(mgr) /\ HandlerAt(m, h) = HandlerAt(mgr, h)
  BY <1>1, Zenon DEF ReceivedOn, Serving
<1>4. k \in ConnType /\ ConnInv(mgr, sock, c, k) /\ SockTyped(sock)
  BY <1>0, <1>1, LiveConn DEF Types
<1>5. /\ \A d \in Sides : Flow(sock, k, g, x, d) /\ KeysFit(e, mgr, sock, k, d)
  <2>1. ConnStream(e, mgr, sock, k, g, x)
    BY <1>0, <1>1 DEF SInv
  <2> QED
    BY <2>1, StreamParts
<1>6. /\ RestOf(sock, k, side) \in Seq(Nat) /\ RestOf(sock, k, o) \in Seq(Nat)
      /\ f \in FdSet /\ SockOK(sock[f]) /\ (k.fd[o] # NoFd => k.fd[o] \in FdSet)
  BY <1>0, <1>1, <1>2, <1>3, <1>4, FlowTyped
<1>7. k.netnacl[side] \in NNType /\ k.fd[o] # f
  <2>1. k.netnacl[side] \in NNType
    BY <1>0, <1>4, ConnFields
  <2>2. k.fd[side] # NoFd
    BY <1>1, <1>3
  <2>3. k.fd[Other(side)] # k.fd[side]
    BY <1>0, <1>4, <2>2, TwoFds
  <2> QED
    BY <1>1, <2>1, <2>3
<1>8. (~e[side] \/ k.netnacl[side].key = "ready") /\ NoKey(sock[f].rx) /\ (e[side] => sock[f].hello)
  <2>1. /\ KeyOrder(e[side], sock[f], k.netnacl[side])
        /\ HandlerFits(e[side], "conn_callback", k.netnacl[side])
    BY <1>0, <1>1, <1>3, <1>5 DEF KeysFit
  <2> QED
    BY <2>1 DEF KeyOrder, HandlerFits
<1>9. PICK rest : rest = r.recv_pt \o DataOf(r.s.rx)
  OBVIOUS
<1>10. /\ r.data \o rest = k.netnacl[side].recv_pt \o DataOf(sock[f].rx)
       /\ rest \in Seq(Nat) /\ r.data \in Seq(Nat)
       /\ NoKey(r.s.rx) /\ r.s.hello = sock[f].hello
       /\ r.err = PROXY_DISCONNECT => rest = << >>
  <2>1. PICK nn, s : nn = k.netnacl[side] /\ s = sock[f]
    OBVIOUS
  <2>2. nn \in NNType /\ SockOK(s) /\ r \in buf_recv(nn, s) /\ NoKey(s.rx)
    BY <1>3, <1>6, <1>7, <1>8, <2>1
  <2>3. LosesNothing(nn, s, r)
    BY <2>2, ReadSplit
  <2> QED
    BY <1>9, <2>1, <2>3 DEF LosesNothing
<1>11. RestOf(t, q, side) = rest
  BY <1>1, <1>3, <1>9, <1>10, Zenon DEF RestOf
<1>12. RestOf(sock, k, side) = r.data \o rest
  BY <1>1, <1>3, <1>10 DEF RestOf
<1>13. SideKept(mgr, m, sock, t, k, q, o)
  BY <1>3, <1>6, <1>7 DEF SideKept
<1>14. RestOf(t, q, o) = RestOf(sock, k, o) /\ KeysFit(e, m, t, q, o)
  <2>1. KeysFit(e, mgr, sock, k, o)
    BY <1>2, <1>5
  <2> QED
    BY <1>13, <2>1, KeptSide
<1>15. KeysFit(e, m, t, q, side)
  <2>1. CASE r.err = PROXY_DISCONNECT
    BY <1>3, <2>1 DEF KeysFit
  <2>2. CASE r.err # PROXY_DISCONNECT
    <3>1. /\ q.fd[side] = f /\ q.netnacl[side].key = k.netnacl[side].key /\ t[f] = r.s
      BY <1>3, <2>2
    <3>2. KeyOrder(e[side], t[f], q.netnacl[side])
      BY <1>8, <1>10, <3>1 DEF KeyOrder
    <3>3. f \in Watched(m) => HandlerAt(m, f) = "conn_callback"
      BY <1>3, <1>6
    <3>4. f \in Watched(m) => HandlerFits(e[side], HandlerAt(m, f), q.netnacl[side])
      BY <1>8, <3>1, <3>3 DEF HandlerFits
    <3> QED
      BY <3>1, <3>2, <3>4 DEF KeysFit
  <2> QED
    BY <2>1, <2>2
<1>16. Flow(t, q, g, x, side)
  BY <1>0, <1>1, <1>2, <1>3, <1>5, <1>14 DEF Flow
<1>17. Flow(t, q, g, x, o)
  <2>1. PICK w, p : w = g[o] /\ p = r.data
    OBVIOUS
  <2>a. got \in [ConnIds -> [Sides -> Seq(Nat)]]
    BY DEF SInv
  <2>b. w \in Seq(Nat)
    BY <1>0, <1>1, <1>2, <2>1, <2>a
  <2>c. p \in Seq(Nat) /\ rest \in Seq(Nat)
    BY <1>10, <2>1
  <2>2. w \in Seq(Nat) /\ p \in Seq(Nat) /\ rest \in Seq(Nat)
    BY <2>b, <2>c
  <2>3. Pending(k.buf[o]) = << >>
    BY <1>3 DEF EmptyBuf, Pending
  <2>4. w \o << >> \o (p \o rest) = UpTo(x[side])
    <3>1. Flow(sock, k, g, x, o)
      BY <1>2, <1>5
    <3> QED
      BY <1>2, <1>12, <2>1, <2>3, <3>1 DEF Flow
  <2>5. w \o << >> = w
    BY <2>2, ConcatNone
  <2>6. w \o p \o rest = w \o (p \o rest)
    BY <2>b, <2>c, ConcatAssoc, SMTT(30)
  <2>7. w \o p \o rest = UpTo(x[side])
    BY <2>4, <2>5, <2>6
  <2>8. Pending(q.buf[o]) = p
    <3>1. PICK b : b = q.buf[o]
      OBVIOUS
    <3>2. b.data = p /\ b.read_pos = 0
      BY <1>3, <2>1, <3>1
    <3>3. SubSeq(p, 1, Len(p)) = p
      BY <2>2, SubSeqFull
    <3>4. Pending(b) = p
      BY <3>2, <3>3 DEF Pending
    <3> QED
      BY <3>1, <3>4
  <2> QED
    BY <1>2, <1>11, <2>1, <2>7, <2>8 DEF Flow
<1>18. ConnStream(e, m, t, q, g, x)
  BY <1>2, <1>3, <1>14, <1>15, <1>16, <1>17, StreamParts
<1>19. /\ UNCHANGED <<mainVars, accepted, sent>> /\ got' = got
       /\ ConnStream(Encryption, mgr', sock', conns'[c], got'[c], sent[c])
  BY <1>1, <1>18
<1>20. /\ got' \in [ConnIds -> [Sides -> Seq(Nat)]] /\ pc \in {"dispatch", "send"}
       /\ \A d \in ConnIds : d # c => got'[d] = got[d]
  BY <1>19 DEF SInv
<1> QED
  BY <1>0, <1>19, <1>20, ServedStream

LEMMA RecvStream == ASSUME IInv, SInv, UNCHANGED mainVars, RecvHeld \/ handle_recv PROVE SInv'
<1>1. CASE RecvHeld
  <2>1. At("conn_callback") /\ UNCHANGED <<mgr, sock, conns, peerVars>>
    BY <1>1 DEF RecvHeld, Receiving, AtConn
  <2> QED
    BY <2>1, RecvIdleStream
<1>2. CASE handle_recv
  <2>1. /\ At("conn_callback") /\ RecvBuf.data = << >> /\ UNCHANGED peerVars
        /\ UNCHANGED <<run_flag, listen_fd, peerVars>>
    BY <1>2 DEF handle_recv, Receiving, AtConn
  <2>2. PICK r \in buf_recv(conns[Conn].netnacl[SideOf(Conn, Fd)], sock[Fd]) :
          RecvNothing(r) \/ RecvData(r) \/ RecvCloses(r)
    BY <1>2 DEF handle_recv
  <2>3. CASE RecvNothing(r)
    <3>1. UNCHANGED <<mgr, sock, conns, peerVars>>
      BY <2>1, <2>3 DEF RecvNothing
    <3> QED
      BY <2>1, <3>1, RecvIdleStream
  <2>4. CASE RecvData(r)
    <3>1. IInv' /\ ReceivedOn(Conn, SideOf(Conn, Fd), r)
      BY <2>1, <2>4, RecvDataInv
    <3>2. PICK c, side : c = Conn /\ side = SideOf(Conn, Fd)
      OBVIOUS
    <3>3. ReceivedOn(c, side, r) /\ pc = "dispatch" /\ UNCHANGED <<mainVars, accepted, sent, got>>
      BY <2>1, <3>1, <3>2 DEF At, Dispatching, peerVars
    <3> QED
      BY <3>1, <3>3, ReceivedStream
  <2>5. CASE RecvCloses(r)
    <3>1. close_connection(mgr, Conn)
      BY <2>5 DEF RecvCloses
    <3> QED
      BY <2>1, <3>1, RecvClosesStream
  <2> QED
    BY <2>2, <2>3, <2>4, <2>5
<1> QED
  BY <1>1, <1>2

-----------------------------------------------------------------------------
(* Connections that open and exchange keys.                                *)

\* A callback that gives up its connection in another way.
LEMMA GoneStream ==
    ASSUME IInv, SInv, pc \in {"dispatch", "send"}, NEW c \in ConnIds, Live(c),
           Touches(c, FdsOf(c)), conns'[c].st # "live",
           UNCHANGED <<mainVars, accepted, sent, got>>
    PROVE  SInv'
<1> USE SideFacts
<1>0. Types /\ Structure
  BY DEF IInv
<1>1. StreamAfter(c)
  BY DEF StreamAfter, SInv
<1>2. got' \in [ConnIds -> [Sides -> Seq(Nat)]] /\ \A d \in ConnIds : d # c => got'[d] = got[d]
  BY DEF SInv
<1>3. accepted' \in Nat /\ accepted <= accepted' /\ c <= accepted'
  BY <1>0, LiveConn DEF Types
<1>4. UNCHANGED mainVars /\ sent' = sent
  OBVIOUS
<1> QED
  BY <1>1, <1>2, <1>3, <1>4, TouchedStream

\* The side of a context whose keys are not exchanged is registered for the
\* handshake when it is encrypted, for data otherwise.
LEMMA RegisteredFits ==
    ASSUME NEW m, NEW c, NEW side \in Sides, NEW f, Registered(m, c, side, f), NEW nn,
           nn.key # "ready"
    PROVE  HandlerFits(Encryption[side], HandlerAt(m, f), nn)
<1>1. Encryption[side] = Encrypted(side)
  BY DEF Encryption
<1>2. HandlerAt(m, f) = (IF Encrypted(side) THEN "handshake_callback" ELSE "conn_callback")
  BY DEF Registered
<1> QED
  BY <1>1, <1>2 DEF HandlerFits

LEMMA OpenedStream ==
    ASSUME IInv, SInv, IInv', pc = "dispatch", NEW c, OpenedOn(c),
           UNCHANGED <<mainVars, accepted, sent, got>>
    PROVE  SInv'
<1> USE SideFacts
<1>0. /\ c \in ConnIds /\ Live(c) /\ Touches(c, FdsOf(c)) /\ pc \in {"dispatch", "send"}
  BY DEF OpenedOn
<1>1. CASE conns'[c].st # "live"
  BY <1>0, <1>1, GoneStream
<1>2. CASE conns'[c].st = "live"
  <2>1. PICK k, q, g, x, e, m :
          /\ k = conns[c] /\ q = conns'[c] /\ g = got[c] /\ x = sent[c] /\ e = Encryption
          /\ m = mgr'
    OBVIOUS
  <2>2. /\ q.fd = k.fd /\ q.buf = k.buf /\ q.netnacl = k.netnacl /\ k.ref # 2 /\ q.ref = 2
        /\ sock' = sock /\ \A side \in Sides : Registered(m, c, side, k.fd[side])
    BY <1>2, <2>1 DEF OpenedOn
  <2>3. ConnStream(e, mgr, sock, k, g, x)
    BY <1>0, <2>1 DEF SInv
  <2>4. ASSUME NEW side \in Sides
        PROVE  Flow(sock, q, g, x, side)
    <3>1. Flow(sock, k, g, x, side)
      BY <2>3 DEF ConnStream
    <3> QED
      BY <2>2, <3>1 DEF Flow, RestOf
  <2>5. ASSUME NEW side \in Sides
        PROVE  KeysFit(e, m, sock, q, side)
    <3>1. k.fd[side] # NoFd => KeyOrder(e[side], sock[k.fd[side]], k.netnacl[side])
      BY <2>3 DEF ConnStream
    <3>2. k.netnacl[side].key # "ready"
      BY <2>2, <2>3 DEF ConnStream
    <3>3. HandlerFits(Encryption[side], HandlerAt(m, k.fd[side]), k.netnacl[side])
      BY <2>2, <3>2, RegisteredFits
    <3> QED
      BY <2>1, <2>2, <3>1, <3>3 DEF KeysFit
  <2>6. ConnStream(e, m, sock, q, g, x)
    BY <2>2, <2>4, <2>5, StreamParts
  <2>7. ConnStream(Encryption, mgr', sock', conns'[c], got'[c], sent[c])
    BY <2>1, <2>2, <2>6
  <2>8. /\ got' \in [ConnIds -> [Sides -> Seq(Nat)]] /\ UNCHANGED <<mainVars, accepted, sent>>
        /\ \A d \in ConnIds : d # c => got'[d] = got[d]
    BY DEF SInv
  <2> QED
    BY <1>0, <1>2, <2>7, <2>8, ServedStream
<1> QED
  BY <1>1, <1>2

LEMMA PendingSucceedsStream ==
    ASSUME IInv, SInv, UNCHANGED mainVars, PendingConnectSucceeds
    PROVE  SInv'
<1>1. IInv' /\ OpenedOn(Conn)
  BY PendingSucceedsInv
<1>2. PICK c : c = Conn
  OBVIOUS
<1>3. pc = "dispatch" /\ UNCHANGED <<mainVars, accepted, sent, got>>
  BY DEF PendingConnectSucceeds, At, Dispatching, peerVars
<1> QED
  BY <1>1, <1>2, <1>3, OpenedStream

\* netnacl_wrap reads one byte, the key, when it succeeds, and nothing otherwise.
WrapsKey(nn, s, w) ==
    /\ w.nn.recv_pt = nn.recv_pt /\ w.s.hello = s.hello
    /\ IF w.err = NN_SUCCESS
         THEN w.nn.key = "ready" /\ s.rx # << >> /\ w.s.rx = SubSeq(s.rx, 2, Len(s.rx))
         ELSE w.nn.key # "ready" /\ w.s.rx = s.rx

LEMMA WrapKeys ==
    ASSUME NEW nn \in NNType, NEW s, SockOK(s), NEW w \in DoWrap(nn, s), nn.key # "ready"
    PROVE  WrapsKey(nn, s, w)
<1>0. /\ s \in SockType /\ s.rx \in Seq(Nat)
  BY DEF SockOK, SockType
<1>c. /\ NN_ERR # NN_SUCCESS /\ NN_WANT_READ # NN_SUCCESS /\ NN_WANT_WRITE # NN_SUCCESS
      /\ NN_ERR = PROXY_ERR
  BY CodesTyped DEF NN_ERR, NN_SUCCESS, NN_WANT_READ, NN_WANT_WRITE
<1>1. ASSUME NEW p \in NNType, NEW key, NEW q, q = [p EXCEPT !.key = key]
      PROVE  q.key = key /\ q.recv_pt = p.recv_pt
  BY <1>1, NNFields DEF NNType
<1>2. PICK out : out = SendKey(nn, s)
  OBVIOUS
<1>3. /\ out.nn \in NNType /\ out.nn.key # "ready" /\ out.nn.recv_pt = nn.recv_pt
      /\ SockOK(out.s) /\ out.s.rx = s.rx /\ out.s.hello = s.hello
  <2>1. CASE out = [err |-> NN_SUCCESS, nn |-> nn, s |-> s]
             \/ out = [err |-> NN_ERR, nn |-> nn, s |-> s]
    BY <2>1
  <2>2. CASE out = [err |-> NN_WANT_WRITE, nn |-> [nn EXCEPT !.key = "created"], s |-> s]
    <3>1. PICK q : q = [nn EXCEPT !.key = "created"]
      OBVIOUS
    <3>2. q \in NNType
      BY <3>1, NNFields DEF NNType
    <3>3. q.key = "created" /\ q.recv_pt = nn.recv_pt
      BY <1>1, <3>1
    <3>4. out = [err |-> NN_WANT_WRITE, nn |-> q, s |-> s]
      BY <2>2, <3>1
    <3> QED
      BY <3>2, <3>3, <3>4
  <2>3. CASE /\ s.room # 0
             /\ out = [err |-> NN_SUCCESS, nn |-> [nn EXCEPT !.key = "sent"],
                       s |-> [s EXCEPT !.room = @ - 1, !.keyed = TRUE]]
    <3>1. PICK t : t = [s EXCEPT !.room = @ - 1, !.keyed = TRUE]
      OBVIOUS
    <3>2. PICK q : q = [nn EXCEPT !.key = "sent"]
      OBVIOUS
    <3>3. q \in NNType
      BY <3>2, NNFields DEF NNType
    <3>4. q.key = "sent" /\ q.recv_pt = nn.recv_pt
      BY <1>1, <3>2
    <3>5. SockOK(t)
      BY <2>3, <3>1, KeySent
    <3>6. t.rx = s.rx /\ t.hello = s.hello
      BY <1>0, <3>1 DEF SockType
    <3>7. out = [err |-> NN_SUCCESS, nn |-> q, s |-> t]
      BY <2>3, <3>1, <3>2
    <3> QED
      BY <3>3, <3>4, <3>5, <3>6, <3>7
  <2> QED
    BY <1>2, <2>1, <2>2, <2>3 DEF SendKey
<1>4. CASE w = out /\ w.err # NN_SUCCESS
  BY <1>3, <1>4 DEF WrapsKey
<1>5. CASE w = RecvKey(out.nn, out.s)
  <2>0. PICK p, t : p = out.nn /\ t = out.s
    OBVIOUS
  <2>1. /\ p \in NNType /\ p.key # "ready" /\ p.recv_pt = nn.recv_pt /\ SockOK(t)
        /\ t.rx = s.rx /\ t.hello = s.hello
    BY <1>3, <2>0
  <2>2. CASE w = [err |-> NN_ERR, nn |-> p, s |-> t] \/ w = [err |-> NN_WANT_READ, nn |-> p, s |-> t]
    <3>1. w.err # NN_SUCCESS /\ w.nn = p /\ w.s = t
      BY <1>c, <2>2
    <3> QED
      BY <2>1, <3>1 DEF WrapsKey
  <2>3. CASE /\ t.rx # << >>
             /\ w = [err |-> NN_SUCCESS, nn |-> [p EXCEPT !.key = "ready"], s |-> Consume(t, 1)]
    <3>1. 1 \in 0 .. Len(t.rx)
      BY <1>0, <2>1, <2>3
    <3>2. PICK u : u = Consume(t, 1)
      OBVIOUS
    <3>3. u.rx = SubSeq(t.rx, 2, Len(t.rx)) /\ u.hello = t.hello
      <4>1. u.rx = SubSeq(t.rx, 1 + 1, Len(t.rx)) /\ u.hello = t.hello
        BY <2>1, <3>1, <3>2, ConsumeOK
      <4>2. 1 + 1 = 2
        OBVIOUS
      <4> QED
        BY <4>1, <4>2
    <3>4. PICK q : q = [p EXCEPT !.key = "ready"]
      OBVIOUS
    <3>5. q.key = "ready" /\ q.recv_pt = p.recv_pt
      BY <1>1, <2>1, <3>4
    <3>6. w.err = NN_SUCCESS /\ w.nn = q /\ w.s = u
      BY <2>3, <3>2, <3>4
    <3> QED
      BY <2>1, <2>3, <3>3, <3>5, <3>6 DEF WrapsKey
  <2> QED
    BY <1>5, <2>0, <2>2, <2>3 DEF RecvKey
<1>6. CASE w = [err |-> PROXY_ERR, nn |-> nn, s |-> s]
  <2>1. w.err # NN_SUCCESS /\ w.nn = nn /\ w.s = s
    BY <1>c, <1>6
  <2> QED
    BY <2>1 DEF WrapsKey
<1> QED
  BY <1>2, <1>4, <1>5, <1>6 DEF DoWrap, netnacl_wrap

\* A side that does its handshake holds the peer's key before everything else,
\* or nothing; the key is taken, or nothing is.
LEMMA WrappedStream ==
    ASSUME IInv, SInv, IInv', pc = "dispatch", NEW c, NEW side, NEW w, WrappedOn(c, side, w),
           UNCHANGED <<mainVars, accepted, sent, got>>
    PROVE  SInv'
<1> USE SideFacts
<1>0. /\ c \in ConnIds /\ Live(c) /\ Touches(c, FdsOf(c)) /\ pc \in {"dispatch", "send"}
      /\ side \in Sides /\ Types /\ Structure
  BY DEF WrappedOn, IInv
<1>1. CASE conns'[c].st # "live"
  BY <1>0, <1>1, GoneStream
<1>2. CASE conns'[c].st = "live"
  <2>1. PICK k, q, o, g, x, f, e, m, t :
          /\ k = conns[c] /\ q = conns'[c] /\ o = Other(side) /\ g = got[c] /\ x = sent[c]
          /\ f = k.fd[side] /\ e = Encryption /\ m = mgr' /\ t = sock'
    OBVIOUS
  <2>2. o \in Sides /\ o # side /\ Other(o) = side /\ Sides = {side, o}
    BY <1>0, <2>1
  <2>3. /\ f \in FdSet /\ f # NoFd /\ f \in Watched(mgr)
        /\ HandlerAt(mgr, f) = "handshake_callback" /\ k.ref = 2
        /\ w \in DoWrap(k.netnacl[side], sock[f])
        /\ q.fd = k.fd /\ q.buf = k.buf /\ q.ref = k.ref
        /\ q.netnacl[side] = w.nn /\ q.netnacl[o] = k.netnacl[o]
        /\ t[f] = w.s /\ (\A h \in FdSet : h # f => t[h] = sock[h])
        /\ HandlerAt(m, f) \in {"handshake_callback", "conn_callback"}
        /\ HandlerAt(m, f) = "conn_callback" <=> w.err = NN_SUCCESS
        /\ \A h \in Nat : h # f => Same(mgr, m, h)
    BY <1>2, <2>1 DEF WrappedOn, Serving
  <2>4. k \in ConnType /\ ConnInv(mgr, sock, c, k) /\ SockTyped(sock)
    BY <1>0, <2>1, LiveConn DEF Types
  <2>5. \A d \in Sides : Flow(sock, k, g, x, d) /\ KeysFit(e, mgr, sock, k, d)
    <3>1. ConnStream(e, mgr, sock, k, g, x)
      BY <1>0, <2>1 DEF SInv
    <3> QED
      BY <3>1, StreamParts
  <2>6. /\ SockOK(sock[f]) /\ sock[f].rx \in Seq(Nat)
        /\ (k.fd[o] # NoFd => k.fd[o] \in FdSet)
    BY <1>0, <2>1, <2>2, <2>3, <2>4, FlowTyped
  <2>7. k.netnacl[side] \in NNType /\ k.fd[o] # f
    <3>1. k.netnacl[side] \in NNType
      BY <1>0, <2>4, ConnFields
    <3>2. k.fd[side] # NoFd
      BY <2>1, <2>3
    <3>3. k.fd[Other(side)] # k.fd[side]
      BY <1>0, <2>4, <3>2, TwoFds
    <3> QED
      BY <2>1, <3>1, <3>3
  <2>8. /\ e[side] /\ k.netnacl[side].key # "ready" /\ k.netnacl[side].recv_pt = << >>
        /\ IF sock[f].hello THEN KeyFirst(sock[f].rx) ELSE sock[f].rx = << >>
    <3>1. /\ KeyOrder(e[side], sock[f], k.netnacl[side])
          /\ HandlerFits(e[side], "handshake_callback", k.netnacl[side])
      BY <1>0, <2>1, <2>3, <2>5 DEF KeysFit
    <3> QED
      BY <3>1 DEF KeyOrder, HandlerFits
  <2>9. PICK nn, s : nn = k.netnacl[side] /\ s = sock[f]
    OBVIOUS
  <2>10. WrapsKey(nn, s, w)
    <3>1. nn \in NNType /\ SockOK(s) /\ w \in DoWrap(nn, s) /\ nn.key # "ready"
      BY <2>3, <2>6, <2>7, <2>8, <2>9
    <3> QED
      BY <3>1, WrapKeys
  <2>11. /\ KeyOrder(e[side], t[f], q.netnacl[side])
         /\ DataOf(t[f].rx) = DataOf(sock[f].rx)
         /\ q.netnacl[side].recv_pt = k.netnacl[side].recv_pt
         /\ HandlerFits(e[side], HandlerAt(m, f), q.netnacl[side])
    <3>1. w.nn.recv_pt = nn.recv_pt /\ w.s.hello = s.hello
      BY <2>10 DEF WrapsKey
    <3>2. CASE w.err = NN_SUCCESS
      <4>1. w.nn.key = "ready" /\ s.rx # << >> /\ w.s.rx = SubSeq(s.rx, 2, Len(s.rx))
        BY <2>10, <3>2 DEF WrapsKey
      <4>2. s.hello /\ KeyFirst(s.rx) /\ s.rx \in Seq(Nat)
        BY <2>6, <2>8, <2>9, <4>1
      <4>3. NoKey(w.s.rx) /\ DataOf(w.s.rx) = DataOf(s.rx)
        BY <4>1, <4>2, KeyTaken
      <4>4. KeyOrder(e[side], w.s, w.nn)
        BY <3>1, <4>1, <4>2, <4>3 DEF KeyOrder
      <4>5. HandlerFits(e[side], HandlerAt(m, f), w.nn)
        BY <2>3, <3>2, <4>1 DEF HandlerFits
      <4> QED
        BY <2>3, <2>9, <3>1, <4>3, <4>4, <4>5
    <3>3. CASE w.err # NN_SUCCESS
      <4>1. w.nn.key # "ready" /\ w.s.rx = s.rx
        BY <2>10, <3>3 DEF WrapsKey
      <4>2. KeyOrder(e[side], w.s, w.nn)
        BY <2>8, <2>9, <3>1, <4>1 DEF KeyOrder
      <4>3. HandlerFits(e[side], HandlerAt(m, f), w.nn)
        BY <2>3, <2>8, <3>3, <4>1 DEF HandlerFits
      <4> QED
        BY <2>3, <2>9, <3>1, <4>1, <4>2, <4>3
    <3> QED
      BY <3>2, <3>3
  <2>12. RestOf(t, q, side) = RestOf(sock, k, side) /\ KeysFit(e, m, t, q, side)
    <3>1. q.fd[side] = f /\ k.fd[side] = f
      BY <2>1, <2>3
    <3> QED
      BY <2>11, <3>1 DEF RestOf, KeysFit
  <2>13. SideKept(mgr, m, sock, t, k, q, o)
    <3>1. /\ q.fd[o] = k.fd[o] /\ q.netnacl[o] = k.netnacl[o]
      BY <2>3
    <3>2. k.fd[o] # NoFd => t[k.fd[o]] = sock[k.fd[o]] /\ Same(mgr, m, k.fd[o])
      BY <2>3, <2>6, <2>7
    <3> QED
      BY <3>1, <3>2 DEF SideKept, Same
  <2>14. RestOf(t, q, o) = RestOf(sock, k, o) /\ KeysFit(e, m, t, q, o)
    <3>1. KeysFit(e, mgr, sock, k, o)
      BY <2>2, <2>5
    <3> QED
      BY <2>13, <3>1, KeptSide
  <2>15. ASSUME NEW d \in Sides PROVE Flow(t, q, g, x, d)
    <3>1. Flow(sock, k, g, x, d) /\ Other(d) \in Sides
      BY <2>5
    <3>2. RestOf(t, q, Other(d)) = RestOf(sock, k, Other(d))
      BY <2>2, <2>12, <2>14, <3>1
    <3> QED
      BY <2>3, <3>1, <3>2 DEF Flow
  <2>16. ConnStream(e, m, t, q, g, x)
    <3>1. q.ref = 2
      BY <2>3
    <3>2. \A d \in Sides : KeysFit(e, m, t, q, d)
      BY <2>2, <2>12, <2>14
    <3> QED
      BY <2>15, <3>1, <3>2, StreamParts
  <2>17. ConnStream(Encryption, mgr', sock', conns'[c], got'[c], sent[c])
    BY <2>1, <2>16
  <2>18. /\ got' \in [ConnIds -> [Sides -> Seq(Nat)]] /\ UNCHANGED <<mainVars, accepted, sent>>
         /\ \A d \in ConnIds : d # c => got'[d] = got[d]
    BY DEF SInv
  <2> QED
    BY <1>0, <1>2, <2>17, <2>18, ServedStream
<1> QED
  BY <1>1, <1>2

LEMMA HandshakeStream == ASSUME IInv, SInv, UNCHANGED mainVars, Handshake PROVE SInv'
<1>1. IInv' /\ \E c, side, w : WrappedOn(c, side, w)
  BY HandshakeInv
<1>2. pc = "dispatch" /\ UNCHANGED <<mainVars, accepted, sent, got>>
  BY DEF Handshake, At, Dispatching, peerVars
<1> QED
  BY <1>1, <1>2, WrappedStream

\* A new connection: nothing was sent and nothing delivered.
LEMMA NewStream ==
    ASSUME NEW e, e = Encryption, NEW m, NEW s, NEW c, NEW k, NEW g, NEW x,
           \A side \in Sides : /\ k.buf[side] = EmptyBuf /\ k.netnacl[side] = NullNN
                               /\ s[k.fd[side]].rx = << >> /\ ~s[k.fd[side]].hello
                               /\ g[side] = << >> /\ x[side] = 0,
           Opening(m, c, k) \/ \A side \in Sides : Registered(m, c, side, k.fd[side])
    PROVE  ConnStream(e, m, s, k, g, x)
<1> USE SideFacts
<1>0. NullNN.key = "null" /\ NullNN.recv_pt = << >> /\ Pending(EmptyBuf) = << >>
  BY DEF NullNN, Pending, EmptyBuf
<1>1. << >> \o << >> = << >> /\ DataOf(<< >>) = << >> /\ NoKey(<< >>) /\ UpTo(0) = << >>
  <2>1. << >> \in Seq(Nat)
    OBVIOUS
  <2>2. << >> \o << >> = << >>
    BY <2>1, ConcatNone
  <2>3. UpTo(0) = << >>
    BY UpToSeq, EmptySeq
  <2> QED
    BY <2>1, <2>2, <2>3, DataSeq
<1>2. ASSUME NEW side \in Sides PROVE RestOf(s, k, side) = << >>
  BY <1>0, <1>1 DEF RestOf
<1>3. ASSUME NEW side \in Sides PROVE Flow(s, k, g, x, side)
  <2>1. /\ g[side] = << >> /\ Pending(k.buf[side]) = << >>
        /\ RestOf(s, k, Other(side)) = << >> /\ x[Other(side)] = 0
    BY <1>0, <1>2
  <2> QED
    BY <1>1, <2>1 DEF Flow
<1>4. ASSUME NEW side \in Sides PROVE KeysFit(e, m, s, k, side)
  <2>1. k.netnacl[side].key # "ready" /\ k.netnacl[side].recv_pt = << >>
    BY <1>0
  <2>2. KeyOrder(e[side], s[k.fd[side]], k.netnacl[side])
    BY <1>1, <2>1 DEF KeyOrder
  <2>3. CASE Opening(m, c, k)
    <3>1. k.fd[side] \in Watched(m) => HandlerAt(m, k.fd[side]) = "pending_connect_callback"
      BY <2>3 DEF Opening
    <3> QED
      BY <2>2, <3>1 DEF KeysFit, HandlerFits
  <2>4. CASE \A d \in Sides : Registered(m, c, d, k.fd[d])
    <3>1. Registered(m, c, side, k.fd[side])
      BY <2>4
    <3>2. HandlerFits(Encryption[side], HandlerAt(m, k.fd[side]), k.netnacl[side])
      BY <2>1, <3>1, RegisteredFits
    <3> QED
      BY <2>2, <3>2 DEF KeysFit
  <2> QED
    BY <2>3, <2>4
<1>5. \A side \in Sides : k.netnacl[side].key # "ready"
  BY <1>0
<1> QED
  BY <1>3, <1>4, <1>5, StreamParts

LEMMA AcceptConnectStream ==
    ASSUME IInv, SInv, UNCHANGED mainVars, AcceptThenConnect
    PROVE  SInv'
<1> USE SideFacts
<1>0. /\ pc = "dispatch" /\ pc \in {"dispatch", "send"} /\ pc # "done" /\ got' = got /\ sent' = sent
      /\ accepted \in Nat
  BY DEF AcceptThenConnect, Accepting, At, Dispatching, IInv, Types
<1>1. PICK c, cf, sf : c \in ConnIds /\ OpensConn(c, cf, sf) /\ Touches(c, {cf, sf})
  BY AcceptOpens
<1>2. c > accepted /\ accepted' = c /\ c \in Nat
  BY <1>0, <1>1 DEF OpensConn
<1>3. \A side \in Sides : sent[c][side] = 0 /\ got[c][side] = << >>
  BY <1>0, <1>1, <1>2 DEF SInv
<1>4. ASSUME conns'[c].st = "live"
      PROVE  ConnStream(Encryption, mgr', sock', conns'[c], got[c], sent[c])
  <2>1. PICK e, m, s, k, g, x :
          /\ e = Encryption /\ m = mgr' /\ s = sock' /\ k = conns'[c] /\ g = got[c] /\ x = sent[c]
    OBVIOUS
  <2>2. /\ k.fd["client"] = cf /\ k.fd["server"] = sf
        /\ \A side \in Sides : k.buf[side] = EmptyBuf /\ k.netnacl[side] = NullNN
        /\ Opening(m, c, k) \/ \A side \in Sides : Registered(m, c, side, k.fd[side])
    <3>1. k # FreedConn
      BY <1>4, <2>1, ConstTypes
    <3> QED
      BY <1>1, <2>1, <3>1 DEF OpensConn
  <2>3. \A f \in {cf, sf} : s[f].rx = << >> /\ ~s[f].hello
    BY <1>1, <2>1 DEF OpensConn
  <2>4. \A side \in Sides : s[k.fd[side]].rx = << >> /\ ~s[k.fd[side]].hello
    BY <2>2, <2>3
  <2>5. \A side \in Sides : g[side] = << >> /\ x[side] = 0
    BY <1>3, <2>1
  <2>6. ConnStream(e, m, s, k, g, x)
    BY <2>1, <2>2, <2>4, <2>5, NewStream
  <2> QED
    BY <2>1, <2>6
<1>5. StreamAfter(c)
  BY <1>0, <1>1, <1>4 DEF StreamAfter, SInv
<1>6. got' \in [ConnIds -> [Sides -> Seq(Nat)]] /\ \A d \in ConnIds : d # c => got'[d] = got[d]
  BY <1>0 DEF SInv
<1>7. accepted' \in Nat /\ accepted <= accepted' /\ c <= accepted'
  BY <1>0, <1>2
<1>8. PICK F : F = {cf, sf}
  OBVIOUS
<1>9. Touches(c, F)
  BY <1>1, <1>8
<1> QED
  BY <1>0, <1>1, <1>5, <1>6, <1>7, <1>9, TouchedStream

-----------------------------------------------------------------------------
(* The peers.                                                              *)

\* Bytes t arrive on socket f, a side of connection c: y is the socket after.
Arrives(f, c, side, t, y) ==
    /\ f \in FdSet /\ c \in ConnIds /\ side \in Sides /\ t \in Seq(Nat)
    /\ sock[f].peer = [conn |-> c, side |-> side]
    /\ sock' = [sock EXCEPT ![f] = y]
    /\ \A nn : KeyOrder(Encryption[side], sock[f], nn) =>
         KeyOrder(Encryption[side], y, nn) /\ DataOf(y.rx) = DataOf(sock[f].rx) \o t
    /\ sent' \in [ConnIds -> [Sides -> Nat]] /\ sent[c][side] <= sent'[c][side]
    /\ UpTo(sent[c][side]) \o t = UpTo(sent'[c][side])
    /\ sent'[c][Other(side)] = sent[c][Other(side)]
    /\ \A d \in ConnIds : d # c => sent'[d] = sent[d]

\* They join what the connection has not read.
LEMMA ArrivedConn ==
    ASSUME IInv, SInv, pc # "done", NEW f, NEW c, NEW side, NEW t, NEW y,
           Arrives(f, c, side, t, y), Live(c)
    PROVE  ConnStream(Encryption, mgr, sock', conns[c], got[c], sent'[c])
<1> USE SideFacts
<1>0. /\ Types /\ Structure /\ f \in FdSet /\ c \in ConnIds /\ side \in Sides
      /\ t \in Seq(Nat)
  BY DEF IInv, Arrives
<1>1. PICK k, o, g, x, z, e, s :
        /\ k = conns[c] /\ o = Other(side) /\ g = got[c] /\ x = sent[c] /\ z = sent'[c]
        /\ e = Encryption /\ s = sock'
  OBVIOUS
<1>2. o \in Sides /\ o # side /\ Other(o) = side /\ Sides = {side, o}
  BY <1>0, <1>1
<1>3. k \in ConnType /\ ConnInv(mgr, sock, c, k) /\ SockTyped(sock)
  BY <1>0, <1>1, LiveConn DEF Types
<1>4. /\ sock[f].peer = [conn |-> c, side |-> side] /\ s[f] = y
      /\ (\A h \in FdSet : h # f => s[h] = sock[h])
      /\ UpTo(x[side]) \o t = UpTo(z[side]) /\ z[o] = x[o]
      /\ \A nn : KeyOrder(e[side], sock[f], nn) =>
           KeyOrder(e[side], y, nn) /\ DataOf(y.rx) = DataOf(sock[f].rx) \o t
  <2>1. sock \in [FdSet -> SockType]
    BY <1>3 DEF SockTyped
  <2>2. s[f] = y /\ \A h \in FdSet : h # f => s[h] = sock[h]
    BY <1>0, <1>1, <2>1 DEF Arrives
  <2> QED
    BY <1>1, <2>2 DEF Arrives
<1>5. k.fd[side] = f /\ f # NoFd
  <2>1. sock[f].peer.conn = c /\ sock[f].peer.side = side
    BY <1>4
  <2>2. k.fd[sock[f].peer.side] = f
    BY <1>0, <1>3, <2>1 DEF ConnInv, Owned
  <2> QED
    BY <1>0, <2>1, <2>2
<1>6. \A d \in Sides : Flow(sock, k, g, x, d) /\ KeysFit(e, mgr, sock, k, d)
  <2>1. ConnStream(e, mgr, sock, k, g, x)
    BY <1>0, <1>1 DEF SInv
  <2> QED
    BY <2>1, StreamParts
<1>7. k.fd[o] # f /\ (k.fd[o] # NoFd => k.fd[o] \in FdSet) /\ sock[f].rx \in Seq(Nat)
  <2>1. k.fd[side] # NoFd
    BY <1>5
  <2>2. k.fd[Other(side)] # k.fd[side]
    BY <1>0, <1>3, <2>1, TwoFds
  <2>3. (k.fd[o] # NoFd => k.fd[o] \in FdSet) /\ sock[f].rx \in Seq(Nat)
    BY <1>0, <1>2, <1>3, <1>5, FlowTyped
  <2> QED
    BY <1>1, <1>5, <2>2, <2>3
<1>8. KeyOrder(e[side], y, k.netnacl[side]) /\ DataOf(y.rx) = DataOf(sock[f].rx) \o t
  <2>1. KeyOrder(e[side], sock[f], k.netnacl[side])
    BY <1>0, <1>5, <1>6 DEF KeysFit
  <2> QED
    BY <1>4, <2>1
<1>9. KeysFit(e, mgr, s, k, side)
  BY <1>0, <1>4, <1>5, <1>6, <1>8 DEF KeysFit
<1>10. RestOf(s, k, o) = RestOf(sock, k, o) /\ KeysFit(e, mgr, s, k, o)
  <2>1. k.fd[o] # NoFd => s[k.fd[o]] = sock[k.fd[o]]
    BY <1>4, <1>7
  <2>2. SideKept(mgr, mgr, sock, s, k, k, o)
    BY <2>1 DEF SideKept
  <2>3. KeysFit(e, mgr, sock, k, o)
    BY <1>2, <1>6
  <2> QED
    BY <2>2, <2>3, KeptSide
<1>11. PICK r, pt, da : r = RestOf(sock, k, side) /\ pt = k.netnacl[side].recv_pt
                        /\ da = DataOf(sock[f].rx)
  OBVIOUS
<1>12. pt \in Seq(Nat) /\ da \in Seq(Nat)
  <2>1. k.netnacl[side] \in NNType
    BY <1>0, <1>3, ConnFields
  <2>2. pt \in Seq(Nat)
    BY <1>11, <2>1, NNFields
  <2> QED
    BY <1>7, <1>11, <2>2, DataSeq
<1>13. r = pt \o da
  BY <1>5, <1>11 DEF RestOf
<1>14. RestOf(s, k, side) = r \o t
  <2>1. RestOf(s, k, side) = pt \o (da \o t)
    BY <1>4, <1>5, <1>8, <1>11 DEF RestOf
  <2>2. pt \o da \o t = pt \o (da \o t)
    BY <1>0, <1>12, ConcatAssoc, SMTT(40)
  <2> QED
    BY <1>13, <2>1, <2>2
<1>15. Flow(s, k, g, z, side)
  BY <1>0, <1>1, <1>4, <1>6, <1>10 DEF Flow
<1>16. Flow(s, k, g, z, o)
  <2>1. PICK w, p : w = g[o] /\ p = Pending(k.buf[o])
    OBVIOUS
  <2>2. p \in Seq(Nat)
    BY <1>2, <1>3, <2>1, FlowTyped
  <2>3. w \in Seq(Nat)
    <3>1. got \in [ConnIds -> [Sides -> Seq(Nat)]]
      BY DEF SInv
    <3> QED
      BY <1>0, <1>1, <1>2, <2>1, <3>1
  <2>4. r \in Seq(Nat)
    BY <1>0, <1>3, <1>11, FlowTyped
  <2>5. w \o p \o r = UpTo(x[side])
    <3>1. Flow(sock, k, g, x, o)
      BY <1>2, <1>6
    <3> QED
      BY <1>2, <1>11, <2>1, <3>1 DEF Flow
  <2>6. PICK j : j = w \o p
    OBVIOUS
  <2>7. j \in Seq(Nat)
    BY <2>2, <2>3, <2>6, ConcatProperties
  <2>8. j \o r \o t = j \o (r \o t)
    BY <1>0, <2>4, <2>7, ConcatAssoc
  <2>9. j \o (r \o t) = UpTo(z[side])
    BY <1>4, <2>5, <2>6, <2>8
  <2> QED
    BY <1>2, <1>14, <2>1, <2>6, <2>9 DEF Flow
<1>17. ConnStream(e, mgr, s, k, g, z)
  <2>1. k.ref # 2 => \A d \in Sides : k.netnacl[d].key # "ready"
    BY <1>0, <1>1 DEF SInv, ConnStream
  <2>2. \A d \in Sides : Flow(s, k, g, z, d) /\ KeysFit(e, mgr, s, k, d)
    BY <1>2, <1>9, <1>10, <1>15, <1>16
  <2> QED
    BY <2>1, <2>2, StreamParts
<1> QED
  BY <1>1, <1>17

LEMMA ArrivedStream ==
    ASSUME IInv, SInv, NEW f, NEW c, NEW side, NEW t, NEW y, Arrives(f, c, side, t, y),
           UNCHANGED <<mainVars, loopVars, proxyVars, accepted, got>>
    PROVE  SInv'
<1> USE SideFacts
<1>0. /\ Types /\ f \in FdSet /\ c \in ConnIds /\ side \in Sides
      /\ UNCHANGED <<mgr, pc, conns, accepted, got, config, status>>
      /\ sent \in [ConnIds -> [Sides -> Nat]] /\ sent' \in [ConnIds -> [Sides -> Nat]]
  BY DEF IInv, Arrives, mainVars, loopVars, proxyVars, Types
<1>1. ASSUME NEW b \in ConnIds, NEW d \in Sides PROVE sent[b][d] <= sent'[b][d]
  <2>1. sent[b][d] \in Nat
    BY <1>0
  <2>2. CASE b # c
    BY <2>1, <2>2 DEF Arrives
  <2>3. CASE b = c /\ d = side
    BY <2>3 DEF Arrives
  <2>4. CASE b = c /\ d # side
    <3>1. d = Other(side)
      BY <1>0, <2>4
    <3> QED
      BY <2>1, <2>4, <3>1 DEF Arrives
  <2> QED
    BY <2>2, <2>3, <2>4
<1>2. CASE pc = "done"
  <2>1. pc' = "done" /\ status' # "none" /\ got' = got
    BY <1>0, <1>2 DEF SInv
  <2> QED
    BY <1>0, <1>1, <2>1, DoneStream
<1>3. CASE pc # "done"
  <2>1. \A d \in Sides : CountsTo(got'[c][d], sent'[c][Other(d)])
    <3> SUFFICES ASSUME NEW d \in Sides PROVE CountsTo(got'[c][d], sent'[c][Other(d)])
      OBVIOUS
    <3>1. PICK o : o = Other(d) /\ o \in Sides
      OBVIOUS
    <3>2. PICK g, n, m : g = got[c][d] /\ n = sent[c][o] /\ m = sent'[c][o]
      OBVIOUS
    <3>3. g \in Seq(Nat) /\ CountsTo(g, n)
      BY <1>0, <3>1, <3>2 DEF SInv
    <3>4. n \in Nat /\ m \in Nat /\ n <= m
      BY <1>0, <1>1, <3>1, <3>2
    <3>5. CountsTo(g, m)
      BY <3>3, <3>4, CountsMore
    <3> QED
      BY <1>0, <3>1, <3>2, <3>5
  <2>2. Live(c) => ConnStream(Encryption, mgr, sock', conns[c], got[c], sent'[c])
    BY <1>3, ArrivedConn
  <2>3. StreamAfter(c)
    BY <1>0, <2>1, <2>2 DEF StreamAfter, Live
  <2>4. ASSUME NEW h \in FdSet, sock[h].peer.conn \notin {0, c}
        PROVE  /\ Same(mgr, mgr', h)
               /\ sock'[h].rx = sock[h].rx /\ sock'[h].hello = sock[h].hello
    <3>1. sock[f].peer = [conn |-> c, side |-> side] /\ sock \in [FdSet -> SockType]
      BY <1>0 DEF Arrives, Types, SockTyped
    <3>2. sock[f].peer.conn = c
      BY <3>1
    <3>3. sock'[h] = sock[h]
      BY <1>0, <2>4, <3>1, <3>2 DEF Arrives
    <3> QED
      BY <1>0, <3>3 DEF Same
  <2>5. accepted' \in Nat /\ accepted <= accepted' /\ c <= accepted'
    <3>1. sock[f].peer = [conn |-> c, side |-> side]
      BY DEF Arrives
    <3>2. sock[f].peer.conn = c
      BY <3>1
    <3>3. c <= accepted
      BY <1>0, <1>3, <3>2 DEF IInv, Structure, Fresh
    <3> QED
      BY <1>0, <3>3 DEF Types
  <2>6. \A d \in ConnIds : d # c => /\ conns'[d].st = "live" => conns'[d] = conns[d]
                                    /\ got'[d] = got[d] /\ sent'[d] = sent[d]
    BY <1>0 DEF Arrives
  <2>7. /\ got' \in [ConnIds -> [Sides -> Seq(Nat)]] /\ config' = config /\ status' = status
        /\ (status = "none" => pc' = "setup")
    BY <1>0 DEF SInv
  <2>8. Elsewhere(c)
    BY <2>4, <2>5, <2>6, <2>7 DEF Elsewhere
  <2> QED
    BY <1>3, <2>3, <2>8, StreamsKept
<1> QED
  BY <1>2, <1>3

\* A socket with a live peer belongs to a connection.
LEMMA HealthyPeer ==
    ASSUME IInv, NEW f \in FdSet, Healthy(f)
    PROVE  \E c \in ConnIds, side \in Sides :
             /\ sock[f].peer = [conn |-> c, side |-> side]
             /\ c = sock[f].peer.conn /\ side = sock[f].peer.side
<1>1. sock[f].peer # NoPeer
  BY DEF IInv, Types, SockTyped, SockOK, Healthy, Connected
<1>2. sock[f].peer \in [conn : ConnIds, side : Sides]
  BY <1>1, PeerTyped DEF IInv
<1> QED
  BY <1>2

LEMMA PeerSendsStream ==
    ASSUME IInv, SInv, NEW f \in FdSet, PeerSends(f), UNCHANGED <<mainVars, loopVars, proxyVars>>
    PROVE  SInv'
<1> USE SideFacts
<1>0. /\ SockOK(sock[f]) /\ sent \in [ConnIds -> [Sides -> Nat]] /\ Healthy(f)
      /\ sock[f] \in SockType /\ sock[f].rx \in Seq(Nat)
  BY DEF IInv, Types, SockTyped, SockOK, SockType, PeerSends
<1>1. PICK c \in ConnIds, side \in Sides :
        /\ sock[f].peer = [conn |-> c, side |-> side]
        /\ c = sock[f].peer.conn /\ side = sock[f].peer.side
  BY <1>0, HealthyPeer
<1>2. Encrypted(side) => sock[f].hello
  BY <1>1 DEF PeerSends
<1>3. PICK n \in 1 .. (IF Encrypted(side) THEN NN_MAX_MESSAGE_LEN ELSE 1) :
        /\ sent' = [sent EXCEPT ![c][side] = @ + n]
        /\ sock' = [sock EXCEPT ![f] = Arrive(sock[f], [i \in 1 .. n |-> sent[c][side] + i])]
  <2> DEFINE C == sock[f].peer.conn
             S == sock[f].peer.side
  <2>1. \E n \in 1 .. (IF Encrypted(S) THEN NN_MAX_MESSAGE_LEN ELSE 1) :
          /\ sent' = [sent EXCEPT ![C][S] = @ + n]
          /\ sock' = [sock EXCEPT ![f] = Arrive(sock[f], [i \in 1 .. n |-> sent[C][S] + i])]
    BY DEF PeerSends, UpdateSock
  <2>2. C = c /\ S = side
    BY <1>1
  <2> HIDE DEF C, S
  <2>3. PICK n \in 1 .. (IF Encrypted(S) THEN NN_MAX_MESSAGE_LEN ELSE 1) :
          /\ sent' = [sent EXCEPT ![C][S] = @ + n]
          /\ sock' = [sock EXCEPT ![f] = Arrive(sock[f], [i \in 1 .. n |-> sent[C][S] + i])]
    BY <2>1
  <2>4. sent' = [sent EXCEPT ![c][side] = @ + n]
    BY <2>2, <2>3
  <2>5. sock' = [sock EXCEPT ![f] = Arrive(sock[f], [i \in 1 .. n |-> sent[c][side] + i])]
    BY <2>2, <2>3
  <2>6. n \in 1 .. (IF Encrypted(side) THEN NN_MAX_MESSAGE_LEN ELSE 1)
    BY <2>2, <2>3
  <2> QED
    BY <2>4, <2>5, <2>6
<1>4. PICK x, t, s, y : /\ x = sent[c][side] /\ t = NextBytes(x, n) /\ s = sock[f]
                        /\ y = Arrive(s, t)
  OBVIOUS
<1>5. n \in Nat /\ x \in Nat
  BY <1>0, <1>3, <1>4, SocketsAssumption
<1>6. sock' = [sock EXCEPT ![f] = y]
  BY <1>3, <1>4 DEF NextBytes
<1>7. t \in Seq(Nat) /\ NoKey(t) /\ UpTo(x) \o t = UpTo(x + n)
  BY <1>4, <1>5, UpToMore
<1>8. y.rx = s.rx \o t /\ y.hello = s.hello
  BY <1>0, <1>4 DEF Arrive, SockType
<1>9. sent'[c] = [sent[c] EXCEPT ![side] = x + n]
  BY <1>0, <1>3, <1>4
<1>10. /\ sent'[c][side] = x + n /\ sent'[c][Other(side)] = sent[c][Other(side)]
       /\ \A d \in ConnIds : d # c => sent'[d] = sent[d]
  BY <1>0, <1>3, <1>4, <1>9
<1>11. sent' \in [ConnIds -> [Sides -> Nat]] /\ x <= x + n
  BY <1>0, <1>3, <1>4, <1>5
<1>12. Encryption[side] = Encrypted(side)
  BY DEF Encryption
<1>13. ASSUME NEW nn, KeyOrder(Encryption[side], s, nn)
       PROVE  KeyOrder(Encryption[side], y, nn) /\ DataOf(y.rx) = DataOf(s.rx) \o t
  <2>1. PICK rx, e : rx = s.rx /\ e = rx \o t
    OBVIOUS
  <2>2. rx \in Seq(Nat) /\ y.rx = e
    BY <1>0, <1>4, <1>8, <2>1
  <2>3. /\ NoKey(rx) => NoKey(e) /\ DataOf(e) = DataOf(rx) \o t
        /\ KeyFirst(rx) => KeyFirst(e) /\ DataOf(e) = DataOf(rx) \o t
    BY <1>7, <2>1, <2>2, ArriveData
  <2>4. CASE ~Encrypted(side) \/ nn.key = "ready"
    <3>1. NoKey(rx) /\ (Encrypted(side) => s.hello)
      BY <1>12, <1>13, <2>1, <2>4 DEF KeyOrder
    <3>2. NoKey(e) /\ DataOf(e) = DataOf(rx) \o t
      BY <2>3, <3>1
    <3>3. KeyOrder(Encryption[side], y, nn)
      BY <1>8, <1>12, <2>2, <2>4, <3>1, <3>2 DEF KeyOrder
    <3> QED
      BY <2>1, <2>2, <3>2, <3>3
  <2>5. CASE ~(~Encrypted(side) \/ nn.key = "ready")
    <3>1. s.hello /\ nn.recv_pt = << >> /\ KeyFirst(rx)
      BY <1>2, <1>4, <1>12, <1>13, <2>1, <2>5 DEF KeyOrder
    <3>2. KeyFirst(e) /\ DataOf(e) = DataOf(rx) \o t
      BY <2>3, <3>1
    <3>3. KeyOrder(Encryption[side], y, nn)
      BY <1>8, <1>12, <2>2, <2>5, <3>1, <3>2 DEF KeyOrder
    <3> QED
      BY <2>1, <2>2, <3>2, <3>3
  <2> QED
    BY <2>4, <2>5
<1>14. Arrives(f, c, side, t, y)
  BY <1>1, <1>4, <1>6, <1>7, <1>10, <1>11, <1>13 DEF Arrives
<1>15. UNCHANGED <<mainVars, loopVars, proxyVars, accepted, got>>
  BY DEF PeerSends
<1> QED
  BY <1>14, <1>15, ArrivedStream

LEMMA PeerSendsKeyStream ==
    ASSUME IInv, SInv, NEW f \in FdSet, PeerSendsKey(f), UNCHANGED <<mainVars, loopVars, proxyVars>>
    PROVE  SInv'
<1> USE SideFacts
<1>0. /\ SockOK(sock[f]) /\ sent \in [ConnIds -> [Sides -> Nat]] /\ Healthy(f)
      /\ sock[f] \in SockType /\ sock[f].rx \in Seq(Nat)
  BY DEF IInv, Types, SockTyped, SockOK, SockType, PeerSendsKey
<1>1. PICK c \in ConnIds, side \in Sides :
        /\ sock[f].peer = [conn |-> c, side |-> side]
        /\ c = sock[f].peer.conn /\ side = sock[f].peer.side
  BY <1>0, HealthyPeer
<1>2. Encrypted(side) /\ ~sock[f].hello
  BY <1>1 DEF PeerSendsKey
<1>3. PICK s, t, y : /\ s = sock[f] /\ t = << >>
                     /\ y = [Arrive(s, <<Key>>) EXCEPT !.hello = TRUE]
  OBVIOUS
<1>4. sock' = [sock EXCEPT ![f] = y] /\ UNCHANGED <<accepted, sent, got>>
  BY <1>3 DEF PeerSendsKey, UpdateSock, peerVars
<1>5. y.rx = s.rx \o <<Key>> /\ y.hello
  BY <1>0, <1>3 DEF Arrive, SockType
<1>6. Encryption[side]
  BY <1>2 DEF Encryption
<1>7. ASSUME NEW nn, KeyOrder(Encryption[side], s, nn)
      PROVE  KeyOrder(Encryption[side], y, nn) /\ DataOf(y.rx) = DataOf(s.rx) \o t
  <2>1. nn.key # "ready" /\ nn.recv_pt = << >> /\ s.rx = << >>
    BY <1>2, <1>3, <1>6, <1>7 DEF KeyOrder
  <2>2. KeyFirst(y.rx) /\ DataOf(y.rx) = << >>
    BY <1>5, <2>1, KeyArrives
  <2>3. KeyOrder(Encryption[side], y, nn)
    BY <1>5, <1>6, <2>1, <2>2 DEF KeyOrder
  <2>4. DataOf(s.rx) = << >> /\ << >> \o << >> = << >>
    <3>1. << >> \in Seq(Nat)
      OBVIOUS
    <3> QED
      BY <2>1, <3>1, DataSeq, ConcatNone
  <2> QED
    BY <1>3, <2>2, <2>3, <2>4
<1>8. PICK x : x = sent[c][side]
  OBVIOUS
<1>9. x \in Nat /\ t \in Seq(Nat)
  BY <1>0, <1>3, <1>8
<1>10. UpTo(x) \o t = UpTo(x)
  BY <1>3, <1>9, UpToSeq, ConcatNone
<1>11. /\ sent' \in [ConnIds -> [Sides -> Nat]] /\ sent[c][side] <= sent'[c][side]
       /\ UpTo(sent[c][side]) \o t = UpTo(sent'[c][side])
       /\ sent'[c][Other(side)] = sent[c][Other(side)]
       /\ \A d \in ConnIds : d # c => sent'[d] = sent[d]
  BY <1>0, <1>4, <1>8, <1>9, <1>10
<1>12. Arrives(f, c, side, t, y)
  BY <1>1, <1>3, <1>4, <1>7, <1>9, <1>11 DEF Arrives
<1>13. UNCHANGED <<mainVars, loopVars, proxyVars, accepted, got>>
  BY <1>4
<1> QED
  BY <1>12, <1>13, ArrivedStream

LEMMA PeerQuietStream ==
    ASSUME IInv, SInv, NEW f \in FdSet, UNCHANGED <<mainVars, loopVars, proxyVars>>,
           \/ ClientConnects(f) \/ PeerCloses(f) \/ PeerFails(f) \/ PeerReads(f)
           \/ ConnectSettles(f)
    PROVE  SInv'
<1> USE SideFacts
<1>0. /\ Types /\ accepted \in Nat /\ sent \in [ConnIds -> [Sides -> Nat]]
      /\ sock \in [FdSet -> SockType]
  BY DEF IInv, Types, SockTyped
<1>1. UNCHANGED <<conns, mgr, got, sent, accepted, pc, status>> /\ UNCHANGED mainVars
  BY DEF ClientConnects, PeerCloses, PeerFails, PeerReads, ConnectSettles, peerVars, loopVars,
         proxyVars, mainVars
<1>2. \A h \in FdSet : sock'[h].rx = sock[h].rx /\ sock'[h].hello = sock[h].hello
  <2>1. CASE sock' = sock
    BY <2>1
  <2>2. ASSUME NEW x, sock' = [sock EXCEPT ![f] = x], x.rx = sock[f].rx, x.hello = sock[f].hello
        PROVE  \A h \in FdSet : sock'[h].rx = sock[h].rx /\ sock'[h].hello = sock[h].hello
    BY <1>0, <2>2
  <2>3. \/ sock' = sock
        \/ \E x : sock' = [sock EXCEPT ![f] = x] /\ x.rx = sock[f].rx /\ x.hello = sock[f].hello
    <3>1. sock[f] \in SockType
      BY <1>0
    <3>2. CASE ClientConnects(f)
      BY <3>2 DEF ClientConnects
    <3>3. CASE PeerCloses(f)
      <4>1. PICK x : x = [sock[f] EXCEPT !.eof = TRUE]
        OBVIOUS
      <4>2. x.rx = sock[f].rx /\ x.hello = sock[f].hello
        BY <3>1, <4>1 DEF SockType
      <4>3. sock' = [sock EXCEPT ![f] = x]
        BY <3>3, <4>1 DEF PeerCloses, UpdateSock
      <4> QED
        BY <4>2, <4>3
    <3>4. CASE PeerFails(f)
      <4>0. PICK e : sock' = [sock EXCEPT ![f] = [sock[f] EXCEPT !.err = e]]
        BY <3>4 DEF PeerFails, UpdateSock
      <4>1. PICK x : x = [sock[f] EXCEPT !.err = e]
        OBVIOUS
      <4>2. x.rx = sock[f].rx /\ x.hello = sock[f].hello
        BY <3>1, <4>1 DEF SockType
      <4>3. sock' = [sock EXCEPT ![f] = x]
        BY <4>0, <4>1
      <4> QED
        BY <4>2, <4>3
    <3>5. CASE PeerReads(f)
      <4>1. PICK x : x = [sock[f] EXCEPT !.room = TxCap]
        OBVIOUS
      <4>2. x.rx = sock[f].rx /\ x.hello = sock[f].hello
        BY <3>1, <4>1 DEF SockType
      <4>3. sock' = [sock EXCEPT ![f] = x]
        BY <3>5, <4>1 DEF PeerReads, UpdateSock
      <4> QED
        BY <4>2, <4>3
    <3>6. CASE ConnectSettles(f)
      <4>0. PICK st : sock' = [sock EXCEPT ![f] = [sock[f] EXCEPT !.st = st]]
        BY <3>6 DEF ConnectSettles, UpdateSock
      <4>1. PICK x : x = [sock[f] EXCEPT !.st = st]
        OBVIOUS
      <4>2. x.rx = sock[f].rx /\ x.hello = sock[f].hello
        BY <3>1, <4>1 DEF SockType
      <4>3. sock' = [sock EXCEPT ![f] = x]
        BY <4>0, <4>1
      <4> QED
        BY <4>2, <4>3
    <3> QED
      BY <3>2, <3>3, <3>4, <3>5, <3>6
  <2> QED
    BY <2>1, <2>2, <2>3
<1>3. CASE pc = "done"
  <2>1. pc' = "done" /\ status' # "none" /\ got' = got
    BY <1>1, <1>3 DEF SInv
  <2>2. sent' \in [ConnIds -> [Sides -> Nat]]
        /\ \A c \in ConnIds, side \in Sides : sent[c][side] <= sent'[c][side]
    <3>1. \A c \in ConnIds, side \in Sides : sent[c][side] \in Nat
      BY <1>0
    <3> QED
      BY <1>0, <1>1, <3>1
  <2> QED
    BY <2>1, <2>2, DoneStream
<1>4. CASE pc # "done"
  <2>1. pc = "setup" => pc' = "setup"
    BY <1>1
  <2>2. \A d \in ConnIds : conns'[d].st = "live" => conns'[d] = conns[d]
    BY <1>1
  <2>3. accepted' \in Nat /\ accepted <= accepted'
    BY <1>0, <1>1
  <2> QED
    BY <1>1, <1>2, <1>4, <2>1, <2>2, <2>3, QuietStream
<1> QED
  BY <1>3, <1>4

-----------------------------------------------------------------------------
(* The theorem.                                                            *)

LEMMA CallbackStream == ASSUME IInv, SInv, UNCHANGED mainVars, Callback PROVE SInv'
<1>1. CASE AcceptAborted \/ AcceptFails \/ AcceptSetupFails \/ AcceptThenConnectFails
  BY <1>1, AcceptStream
<1>2. CASE AcceptThenConnect
  BY <1>2, AcceptConnectStream
<1>3. CASE PendingConnectFails \/ HandshakeHup \/ ConnHup
  BY <1>3, ClosingStream
<1>4. CASE PendingConnectSucceeds
  BY <1>4, PendingSucceedsStream
<1>5. CASE Handshake
  BY <1>5, HandshakeStream
<1>6. CASE RecvHeld \/ handle_recv
  BY <1>6, RecvStream
<1>7. CASE SendSome
  BY <1>7, SendSomeStream
<1>8. CASE SendAll
  BY <1>8, SendAllStream
<1>9. CASE SendFails
  BY <1>9, SendFailsStream
<1> QED
  BY <1>1, <1>2, <1>3, <1>4, <1>5, <1>6, <1>7, <1>8, <1>9 DEF Callback

LEMMA NextStream == ASSUME IInv, SInv, [Next]_vars PROVE SInv'
<1>1. CASE main
  BY <1>1, StartStream
<1>2. CASE Teardown
  BY <1>2, TeardownStream
<1>3. CASE proxy_run /\ UNCHANGED mainVars
  BY <1>3, StartStream
<1>4. CASE LoopStep /\ UNCHANGED mainVars
  BY <1>4, LoopStream
<1>5. CASE Callback /\ UNCHANGED mainVars
  BY <1>5, CallbackStream
<1>6. CASE Environment
  BY <1>6, EnvironmentStream
<1>7. ASSUME NEW f \in FdSet, Peer(f) PROVE SInv'
  <2>1. PeerStep(f) /\ UNCHANGED <<mainVars, loopVars, proxyVars>>
    BY <1>7 DEF Peer
  <2>2. CASE PeerSends(f)
    BY <2>1, <2>2, PeerSendsStream
  <2>3. CASE PeerSendsKey(f)
    BY <2>1, <2>3, PeerSendsKeyStream
  <2>4. CASE \/ ClientConnects(f) \/ PeerCloses(f) \/ PeerFails(f) \/ PeerReads(f)
             \/ ConnectSettles(f)
    BY <2>1, <2>4, PeerQuietStream
  <2> QED
    BY <2>1, <2>2, <2>3, <2>4 DEF PeerStep
<1>8. CASE UNCHANGED vars
  BY <1>8 DEF SInv, vars, mainVars, loopVars, sockVars, peerVars, proxyVars, Live, Encryption,
              Encrypted
<1> QED
  BY <1>1, <1>2, <1>3, <1>4, <1>5, <1>6, <1>7, <1>8 DEF Next, System

\* A prefix of the numbered bytes, as a sequence.
LEMMA PrefixSeq ==
    ASSUME NEW g \in Seq(Nat), NEW n \in Nat, CountsTo(g, n)
    PROVE  g = SubSeq(UpTo(n), 1, Len(g))
<1>1. PICK l, u, v : l = Len(g) /\ u = UpTo(n) /\ v = SubSeq(u, 1, l)
  OBVIOUS
<1>2. u \in Seq(Nat) /\ Len(u) = n /\ \A i \in 1 .. n : u[i] = i
  BY <1>1, UpToSeq
<1>3. l \in Nat /\ l <= n /\ \A i \in 1 .. l : g[i] = i
  BY <1>1 DEF CountsTo
<1>4. l \in 0 .. Len(u)
  BY <1>2, <1>3
<1>5. v \in Seq(Nat) /\ Len(v) = l /\ \A i \in 1 .. l : v[i] = u[i]
  <2>1. v \in Seq(Nat) /\ Len(v) = l
    BY <1>1, <1>2, <1>4, SplitSeq
  <2> QED
    BY <1>1, <1>2, <1>3, <1>4, <2>1
<1>6. \A i \in 1 .. l : v[i] = g[i]
  <2>1. \A i \in 1 .. l : i \in 1 .. n
    BY <1>3
  <2> QED
    BY <1>2, <1>3, <1>5, <2>1
<1>7. v = g
  BY <1>1, <1>5, <1>6, SeqEqual
<1> QED
  BY <1>1, <1>7

\* src/proxy.c and src/buf.c keep both byte streams of every connection whole and
\* in order: through partial sends, full buffers, handshakes, half-closed
\* connections and messages of netnacl larger than the buffer, for every buffer
\* and message size; and what a connection that is gone had delivered is a prefix
\* of what the other peer sent.
THEOREM StreamsIntact == Spec => []StreamIntact
<1>1. Init => SInv
  BY InitStream
<1>2. IInv /\ SInv /\ [Next]_vars => SInv'
  BY NextStream
<1>3. IInv /\ SInv => StreamIntact
  <2> SUFFICES ASSUME IInv, SInv, NEW c \in ConnIds, NEW side \in Sides
               PROVE  IF Live(c) /\ pc # "done"
                        THEN got[c][side] \o Pending(conns[c].buf[side]) \o Unread(c, Other(side))
                               = UpTo(sent[c][Other(side)])
                        ELSE got[c][side]
                               = SubSeq(UpTo(sent[c][Other(side)]), 1, Len(got[c][side]))
    BY DEF StreamIntact
  <2>1. CASE Live(c) /\ pc # "done"
    <3>1. Flow(sock, conns[c], got[c], sent[c], side)
      BY <2>1 DEF SInv, ConnStream
    <3>2. Unread(c, Other(side)) = RestOf(sock, conns[c], Other(side))
      BY DEF Unread, RestOf, FdOf
    <3> QED
      BY <2>1, <3>1, <3>2 DEF Flow
  <2>2. CASE ~(Live(c) /\ pc # "done")
    <3>1. PICK o, g, n : o = Other(side) /\ g = got[c][side] /\ n = sent[c][o]
      OBVIOUS
    <3>2. o \in Sides
      BY <3>1, SideFacts
    <3>3. g \in Seq(Nat) /\ n \in Nat /\ CountsTo(g, n)
      BY <3>1, <3>2 DEF SInv, IInv, Types
    <3>4. g = SubSeq(UpTo(n), 1, Len(g))
      BY <3>3, PrefixSeq
    <3> QED
      BY <2>2, <3>1, <3>4
  <2> QED
    BY <2>1, <2>2
<1> QED
  BY <1>1, <1>2, <1>3, Inductive, PTL DEF Spec

-----------------------------------------------------------------------------
(* Descriptors that could be left behind.                                  *)

\* event_add of a descriptor that is not watched succeeds while there is room.
LEMMA AddRoom ==
    ASSUME NEW m, Sound(m), NEW f \in Nat, f \notin Watched(m), NEW mask, mask # {}, NEW d, NEW cb,
           m.num_events \in Nat, m.num_events < MAX_EVENTS, NEW r, r = event_add(m, f, mask, d, cb)
    PROVE  r.err = PROXY_SUCCESS /\ r.mgr.num_events = m.num_events + 1
<1>1. get_idx_from_fd(m, f) = -1 /\ ~(f < 0)
  BY SlotOfFd
<1>2. ~AtCapacity(m)
  BY MaxEventsAssumption DEF AtCapacity
<1>3. r = [mgr |-> Insert(m, f, mask, d, cb), err |-> PROXY_SUCCESS]
  BY <1>1, <1>2 DEF event_add
<1> QED
  BY <1>3 DEF Insert

\* So both sides of a new connection are registered.
LEMMA AddBothRoom ==
    ASSUME NEW m, Sound(m), NEW c \in ConnIds, NEW fd,
           fd["client"] \in Nat, fd["server"] \in Nat, fd["client"] # fd["server"],
           fd["client"] \notin Watched(m), fd["server"] \notin Watched(m),
           m.num_events \in Nat, m.num_events + 2 <= MAX_EVENTS
    PROVE  add_connection_events(m, c, fd).err = PROXY_SUCCESS
<1>0. PICK cf, sf, one : cf = fd["client"] /\ sf = fd["server"] /\ one = AddSide(m, c, "client", cf)
  OBVIOUS
<1>1. PICK n, two : n = one.mgr /\ two = AddSide(n, c, "server", sf)
  OBVIOUS
<1>2. MAX_EVENTS \in Nat /\ m.num_events < MAX_EVENTS /\ m.num_events + 1 < MAX_EVENTS
  BY MaxEventsAssumption
<1>3. one.err = PROXY_SUCCESS /\ n.num_events = m.num_events + 1
  <2>1. PICK mask, cb : one = event_add(m, cf, mask, c, cb) /\ mask # {}
    BY <1>0 DEF AddSide
  <2> QED
    BY <1>0, <1>1, <1>2, <2>1, AddRoom
<1>4. Sound(n) /\ Watched(n) = Watched(m) \cup {cf}
  <2>1. SideAdded(m, one, c, "client", cf)
    BY <1>0, AddSideView, SideFacts
  <2> QED
    BY <1>1, <1>3, <2>1 DEF SideAdded
<1>5. two.err = PROXY_SUCCESS
  <2>1. PICK mask, cb : two = event_add(n, sf, mask, c, cb) /\ mask # {}
    BY <1>1 DEF AddSide
  <2>2. sf \in Nat /\ sf \notin Watched(n) /\ n.num_events \in Nat /\ n.num_events < MAX_EVENTS
    BY <1>0, <1>2, <1>3, <1>4
  <2> QED
    BY <1>4, <2>1, <2>2, AddRoom
<1> QED
  BY <1>0, <1>1, <1>3, <1>5 DEF add_connection_events

\* Without room it fails and leaves the table as it was.
LEMMA AddNoRoom ==
    ASSUME NEW m, Sound(m), NEW f \in Nat, f \notin Watched(m), NEW mask, NEW d, NEW cb,
           m.num_events = MAX_EVENTS, NEW r, r = event_add(m, f, mask, d, cb)
    PROVE  r.err # PROXY_SUCCESS
<1>1. get_idx_from_fd(m, f) = -1
  BY SlotOfFd
<1> QED
  BY <1>1, CodesTyped DEF event_add, AtCapacity

LEMMA AddBothNoRoom ==
    ASSUME NEW m, Sound(m), NEW c \in ConnIds, NEW fd,
           fd["client"] \in Nat, fd["server"] \in Nat, fd["client"] # fd["server"],
           fd["client"] \notin Watched(m), fd["server"] \notin Watched(m),
           m.num_events \in Nat, m.num_events <= MAX_EVENTS, m.num_events + 2 > MAX_EVENTS
    PROVE  add_connection_events(m, c, fd).err # PROXY_SUCCESS
<1>0. PICK cf, sf, one : cf = fd["client"] /\ sf = fd["server"] /\ one = AddSide(m, c, "client", cf)
  OBVIOUS
<1>1. PICK n, two : n = one.mgr /\ two = AddSide(n, c, "server", sf)
  OBVIOUS
<1>2. PICK mask, cb : one = event_add(m, cf, mask, c, cb) /\ mask # {}
  BY <1>0 DEF AddSide
<1>3. PICK mask2, cb2 : two = event_add(n, sf, mask2, c, cb2)
  BY <1>1 DEF AddSide
<1>4. CASE m.num_events = MAX_EVENTS
  <2>1. one.err # PROXY_SUCCESS
    BY <1>0, <1>2, <1>4, AddNoRoom
  <2> QED
    BY <1>0, <2>1 DEF add_connection_events
<1>5. CASE m.num_events # MAX_EVENTS
  <2>1. m.num_events < MAX_EVENTS /\ m.num_events + 1 = MAX_EVENTS
    BY <1>5, MaxEventsAssumption
  <2>2. one.err = PROXY_SUCCESS /\ n.num_events = MAX_EVENTS
    BY <1>0, <1>1, <1>2, <2>1, AddRoom
  <2>3. Sound(n) /\ Watched(n) = Watched(m) \cup {cf}
    <3>1. SideAdded(m, one, c, "client", cf)
      BY <1>0, AddSideView, SideFacts
    <3> QED
      BY <1>1, <2>2, <3>1 DEF SideAdded
  <2>4. two.err # PROXY_SUCCESS
    BY <1>0, <1>3, <2>2, <2>3, AddNoRoom
  <2> QED
    BY <1>0, <1>1, <2>2, <2>4 DEF add_connection_events
<1> QED
  BY <1>4, <1>5

\* handle_accept keeps a connection whose connect() did not fail exactly when
\* the table has room for its events.
LEMMA AcceptKeeps ==
    ASSUME IInv, AcceptThenConnect
    PROVE  conns'[accepted + 1].st = "live"
             <=> ~(mgr.num_events + EventsNeeded(sock', accepted + 1) > MAX_EVENTS)
<1> USE SideFacts
<1>0. Accepting /\ Types /\ Structure /\ Sound(mgr)
  BY DEF IInv, AcceptThenConnect, Accepting, At, Dispatching, Structure
<1>1. PICK c, cf : c = accepted + 1 /\ cf = Least(FreeFds(sock))
  OBVIOUS
<1>2. PICK sf : sf = Least(FreeFds(sock) \ {cf})
  OBVIOUS
<1>3. PICK result, r :
        /\ result \in ConnectResults \ {"fail"}
        /\ r = IF result = "pending"
                 THEN event_add(mgr, sf, {"POLLOUT"}, c, "pending_connect_callback")
                 ELSE add_connection_events(mgr, c, [client |-> cf, server |-> sf])
        /\ accepted' = c
        /\ sock' = [sock EXCEPT
             ![cf] = NewSock("open", c, "client"),
             ![sf] = NewSock(IF result = "pending" THEN "connecting" ELSE "open", c, "server")]
        /\ mgr' = r.mgr
        /\ conns' = [conns EXCEPT ![c] =
             IF r.err = PROXY_SUCCESS
               THEN [NewConn(cf, sf) EXCEPT !.ref = IF result = "now" THEN r.ref ELSE 0]
               ELSE FreedConn]
        /\ NextSlot(AcceptCode(r.err))
  BY <1>1, <1>2, Zenon DEF AcceptThenConnect
<1>4. c \in ConnIds /\ \A f \in FdSet : sock[f].peer.conn # c
  BY <1>0, <1>1, AtAccept
<1>5. /\ cf # sf
      /\ \A f \in {cf, sf} : f \in FdSet /\ f \in Nat /\ f # 0 /\ f \notin Watched(mgr)
  BY <1>0, <1>1, <1>2, FreshFds DEF AcceptThenConnect
<1>6. PICK k : k = mgr.num_events
  OBVIOUS
<1>7. k \in Nat /\ k <= MAX_EVENTS /\ MAX_EVENTS \in Nat
  BY <1>0, <1>6, SoundBounds, MaxEventsAssumption
<1>8. EventsNeeded(sock', c) = IF result = "pending" THEN 1 ELSE 2
  <2>0. sock \in [FdSet -> SockType]
    BY <1>0 DEF Types, SockTyped
  <2>1. PICK a, b : /\ a = NewSock("open", c, "client")
                    /\ b = NewSock(IF result = "pending" THEN "connecting" ELSE "open", c, "server")
    OBVIOUS
  <2>2. sock' = [sock EXCEPT ![cf] = a, ![sf] = b]
    BY <1>3, <2>1
  <2>3. /\ a.st = "open" /\ b.st = (IF result = "pending" THEN "connecting" ELSE "open")
        /\ b.peer.conn = c
    BY <2>1 DEF NewSock, Closed
  <2>4. sock'[cf] = a /\ sock'[sf] = b /\ \A f \in FdSet \ {cf, sf} : sock'[f] = sock[f]
    BY <1>5, <2>0, <2>2
  <2>5. (\E f \in FdSet : sock'[f].peer.conn = c /\ sock'[f].st = "connecting")
          <=> result = "pending"
    BY <1>4, <1>5, <2>3, <2>4
  <2> QED
    BY <2>5 DEF EventsNeeded
<1>9. r.err = PROXY_SUCCESS <=> ~(k + EventsNeeded(sock', c) > MAX_EVENTS)
  <2>1. CASE result = "pending"
    <3>1. r = event_add(mgr, sf, {"POLLOUT"}, c, "pending_connect_callback") /\ {"POLLOUT"} # {}
      BY <1>3, <2>1
    <3>2. k < MAX_EVENTS => r.err = PROXY_SUCCESS
      BY <1>0, <1>5, <1>6, <1>7, <3>1, AddRoom
    <3>3. ASSUME k = MAX_EVENTS PROVE r.err # PROXY_SUCCESS
      <4>1. mgr.num_events = MAX_EVENTS /\ sf \in Nat /\ sf \notin Watched(mgr)
        BY <1>5, <1>6, <3>3
      <4> QED
        BY <1>0, <3>1, <4>1, AddNoRoom
    <3> QED
      BY <1>7, <1>8, <2>1, <3>2, <3>3
  <2>2. CASE result # "pending"
    <3>1. PICK fd : fd = [client |-> cf, server |-> sf]
      OBVIOUS
    <3>2. r = add_connection_events(mgr, c, fd) /\ fd["client"] = cf /\ fd["server"] = sf
      BY <1>3, <2>2, <3>1
    <3>3. k + 2 <= MAX_EVENTS => r.err = PROXY_SUCCESS
      BY <1>0, <1>4, <1>5, <1>6, <1>7, <3>2, AddBothRoom
    <3>4. k + 2 > MAX_EVENTS => r.err # PROXY_SUCCESS
      BY <1>0, <1>4, <1>5, <1>6, <1>7, <3>2, AddBothNoRoom
    <3> QED
      BY <1>7, <1>8, <2>2, <3>3, <3>4
  <2> QED
    BY <2>1, <2>2
<1>10. conns'[c].st = "live" <=> r.err = PROXY_SUCCESS
  <2>1. PICK x : /\ conns' = [conns EXCEPT ![c] = x]
                 /\ x = IF r.err = PROXY_SUCCESS
                          THEN [NewConn(cf, sf) EXCEPT !.ref = IF result = "now" THEN r.ref ELSE 0]
                          ELSE FreedConn
    BY <1>3
  <2>2. x.st = "live" <=> r.err = PROXY_SUCCESS
    BY <2>1 DEF NewConn, FreedConn, NoConn
  <2>3. conns'[c] = x
    BY <1>0, <1>4, <2>1 DEF Types
  <2> QED
    BY <2>2, <2>3
<1> QED
  BY <1>1, <1>6, <1>9, <1>10

\* A step that leaves the peers of sockets alone, or closes some sockets.
PeersStay ==
    \/ sock' = sock
    \/ \E F : sock' = CloseFds(sock, F)
    \/ \E g, x : /\ sock' = [sock EXCEPT ![g] = x]
                 /\ g \in FdSet => x.peer \in {sock[g].peer, NoPeer}

LEMMA PeersStayed ==
    ASSUME Types, PeersStay, NEW f \in FdSet
    PROVE  sock'[f].peer \in {sock[f].peer, NoPeer}
<1>0. sock \in [FdSet -> SockType] /\ Closed.peer = NoPeer
  BY DEF Types, SockTyped, Closed
<1>1. ASSUME NEW F, sock' = CloseFds(sock, F) PROVE sock'[f].peer \in {sock[f].peer, NoPeer}
  BY <1>0, <1>1 DEF CloseFds
<1>2. ASSUME NEW g, NEW x, sock' = [sock EXCEPT ![g] = x],
             g \in FdSet => x.peer \in {sock[g].peer, NoPeer}
      PROVE  sock'[f].peer \in {sock[f].peer, NoPeer}
  BY <1>0, <1>2
<1> QED
  BY <1>1, <1>2 DEF PeersStay

\* The peers and the network never change what a socket is connected to.
LEMMA PeerStay == ASSUME Types, NEW f \in FdSet, PeerStep(f) PROVE PeersStay
<1>0. sock[f] \in SockType
  BY DEF Types, SockTyped
<1>1. CASE ClientConnects(f)
  BY <1>1 DEF ClientConnects, PeersStay
<1>2. CASE PeerSendsKey(f) \/ PeerSends(f)
  <2>1. PICK x : /\ sock' = [sock EXCEPT ![f] = x]
                 /\ \/ \E bytes : x = Arrive(sock[f], bytes)
                    \/ \E bytes : x = [Arrive(sock[f], bytes) EXCEPT !.hello = TRUE]
    BY <1>2, Zenon DEF PeerSendsKey, PeerSends, UpdateSock
  <2>2. ASSUME NEW bytes, NEW y, y = Arrive(sock[f], bytes)
        PROVE  y.peer = sock[f].peer /\ [y EXCEPT !.hello = TRUE].peer = y.peer
    BY <1>0, <2>2 DEF Arrive, SockType
  <2>3. x.peer = sock[f].peer
    BY <2>1, <2>2
  <2> QED
    BY <2>1, <2>3 DEF PeersStay
<1>3. CASE PeerCloses(f) \/ PeerFails(f) \/ PeerReads(f) \/ ConnectSettles(f)
  <2>1. PICK x : /\ sock' = [sock EXCEPT ![f] = x]
                 /\ \/ x = [sock[f] EXCEPT !.eof = TRUE]
                    \/ \E e : x = [sock[f] EXCEPT !.err = e]
                    \/ x = [sock[f] EXCEPT !.room = TxCap]
                    \/ \E st : x = [sock[f] EXCEPT !.st = st]
    BY <1>3, Zenon DEF PeerCloses, PeerFails, PeerReads, ConnectSettles, UpdateSock
  <2>2. x.peer = sock[f].peer
    BY <1>0, <2>1 DEF SockType
  <2> QED
    BY <2>1, <2>2 DEF PeersStay
<1> QED
  BY <1>1, <1>2, <1>3 DEF PeerStep

\* netnacl_wrap reads and writes the socket it was given.
LEMMA WrapStays ==
    ASSUME NEW nn, NEW x \in SockType, NEW w \in DoWrap(nn, x)
    PROVE  w.s.peer = x.peer
<1>1. /\ x.peer = [x EXCEPT !.room = @ - 1, !.keyed = TRUE].peer
      /\ \A y : y \in {x, [x EXCEPT !.room = @ - 1, !.keyed = TRUE]} =>
           Consume(y, 1).peer = x.peer
  BY DEF SockType, Consume
<1>2. PICK out : out = SendKey(nn, x)
  OBVIOUS
<1>3. out.s \in {x, [x EXCEPT !.room = @ - 1, !.keyed = TRUE]}
  BY <1>2 DEF SendKey
<1>4. PICK t, q : t = out.s /\ q = RecvKey(out.nn, t)
  OBVIOUS
<1>5. q.s \in {t, Consume(t, 1)}
  BY <1>4 DEF RecvKey
<1>6. w.s = x \/ w.s = out.s \/ w.s = q.s
  BY <1>2, <1>4 DEF DoWrap, netnacl_wrap
<1> QED
  BY <1>1, <1>3, <1>4, <1>5, <1>6

LEMMA CallbackStay == ASSUME IInv, Callback, ~AcceptThenConnect PROVE PeersStay
<1>0. sock \in [FdSet -> SockType]
  BY DEF IInv, Types, SockTyped
<1>c. ASSUME NEW m, NEW d, close_connection(m, d) PROVE PeersStay
  BY <1>c DEF close_connection, PeersStay
<1>1. CASE AcceptAborted \/ AcceptFails \/ AcceptSetupFails \/ AcceptThenConnectFails
  BY <1>1 DEF AcceptAborted, AcceptFails, AcceptSetupFails, AcceptThenConnectFails, sockVars,
              PeersStay
<1>2. CASE PendingConnectFails \/ HandshakeHup \/ ConnHup \/ SendFails
  BY <1>2, <1>c DEF PendingConnectFails, HandshakeHup, ConnHup, SendFails, PeersStay
<1>3. CASE PendingConnectSucceeds
  BY <1>3, <1>c DEF PendingConnectSucceeds, PeersStay
<1>4. CASE Handshake
  <2>1. PICK fd, x : fd = Fd /\ x = sock[fd]
    OBVIOUS
  <2>2. \/ \E m, d : close_connection(m, d)
        \/ \E nn : \E w \in DoWrap(nn, x) : sock' = [sock EXCEPT ![fd] = w.s]
    BY <1>4, <2>1, Zenon DEF Handshake
  <2>3. ASSUME NEW nn, NEW w \in DoWrap(nn, x), sock' = [sock EXCEPT ![fd] = w.s] PROVE PeersStay
    <3>1. PICK y : y = w.s
      OBVIOUS
    <3>2. fd \in FdSet => y.peer = sock[fd].peer
      BY <1>0, <2>1, <3>1, WrapStays
    <3> QED
      BY <2>3, <3>1, <3>2 DEF PeersStay
  <2> QED
    BY <1>c, <2>2, <2>3
<1>5. CASE RecvHeld \/ handle_recv
  <2>1. PICK fd, x : fd = Fd /\ x = sock[fd]
    OBVIOUS
  <2>2. \/ sock' = sock
        \/ \E m, d : close_connection(m, d)
        \/ \E F : sock' = CloseFds(sock, F)
        \/ \E nn : \E r \in buf_recv(nn, x) : sock' = [sock EXCEPT ![fd] = r.s]
    BY <1>5, <2>1, Zenon DEF RecvHeld, handle_recv, RecvNothing, RecvData, RecvCloses
  <2>3. ASSUME NEW nn, NEW r \in buf_recv(nn, x), sock' = [sock EXCEPT ![fd] = r.s] PROVE PeersStay
    <3>1. PICK y, k : y = r.s /\ y = Consume(x, k)
      BY DEF buf_recv, Received
    <3>2. fd \in FdSet => y.peer = sock[fd].peer
      <4>1. fd \in FdSet => x \in SockType
        BY <1>0, <2>1
      <4>2. x \in SockType => y.peer = x.peer
        BY <3>1 DEF Consume, SockType
      <4> QED
        BY <2>1, <4>1, <4>2
    <3> QED
      BY <2>3, <3>1, <3>2 DEF PeersStay
  <2> QED
    BY <1>c, <2>2, <2>3 DEF PeersStay
<1>6. CASE SendSome \/ SendAll
  <2>1. \/ sock' = sock
        \/ \E m, d : close_connection(m, d)
        \/ \E fd, room : sock' = [sock EXCEPT ![fd].room = room]
    BY <1>6, Zenon DEF SendSome, SendAll
  <2>2. ASSUME NEW fd, NEW room, sock' = [sock EXCEPT ![fd].room = room] PROVE PeersStay
    <3>1. PICK y : y = [sock[fd] EXCEPT !.room = room]
      OBVIOUS
    <3>2. sock' = [sock EXCEPT ![fd] = y] /\ (fd \in FdSet => y.peer = sock[fd].peer)
      BY <1>0, <2>2, <3>1 DEF SockType
    <3> QED
      BY <3>2 DEF PeersStay
  <2> QED
    BY <1>c, <2>1, <2>2 DEF PeersStay
<1> QED
  BY <1>1, <1>2, <1>3, <1>4, <1>5, <1>6 DEF Callback

\* Only handle_accept gives a socket a peer.
LEMMA NextStay == ASSUME IInv, [Next]_vars, ~AcceptThenConnect PROVE PeersStay
<1>0. Types /\ sock \in [FdSet -> SockType]
  BY DEF IInv, Types, SockTyped
<1>1. CASE main \/ LoopStep \/ SignalArrives \/ UNCHANGED vars
  BY <1>1 DEF main, LoopStep, SignalArrives, vars, sockVars, PeersStay
<1>2. CASE Teardown
  BY <1>2 DEF Teardown, PeersStay
<1>3. CASE proxy_run
  <2>1. sock' = sock \/ \E g : sock' = [sock EXCEPT ![g] = [Closed EXCEPT !.st = "listen"]]
    BY <1>3, Zenon DEF proxy_run
  <2>2. [Closed EXCEPT !.st = "listen"].peer = NoPeer
    BY DEF Closed
  <2> QED
    BY <2>1, <2>2 DEF PeersStay
<1>4. CASE Callback
  BY <1>4, CallbackStay
<1>5. CASE ListenerFails
  <2>1. PICK x : /\ sock' = [sock EXCEPT ![listen_fd] = x]
                 /\ x = [sock[listen_fd] EXCEPT !.err = "reset"]
    BY <1>5 DEF ListenerFails, UpdateSock
  <2>2. listen_fd \in FdSet => x.peer = sock[listen_fd].peer
    BY <1>0, <2>1 DEF SockType
  <2> QED
    BY <2>1, <2>2 DEF PeersStay
<1>6. ASSUME NEW f \in FdSet, Peer(f) PROVE PeersStay
  BY <1>0, <1>6, PeerStay DEF Peer
<1> QED
  BY <1>1, <1>2, <1>3, <1>4, <1>5, <1>6 DEF Next, System, Environment

\* What has ended stays so.
LEMMA StaysDone == ASSUME [Next]_vars, pc = "done" PROVE pc' = "done"
<1>1. ~Callback
  BY DEF Callback, AcceptAborted, AcceptFails, AcceptSetupFails, AcceptThenConnectFails,
         AcceptThenConnect, PendingConnectFails, PendingConnectSucceeds, HandshakeHup, Handshake,
         ConnHup, RecvHeld, handle_recv, SendSome, SendAll, SendFails, Accepting, Receiving,
         AtConn, Sending, At, Dispatching
<1> QED
  BY <1>1 DEF Next, System, Environment, main, Teardown, proxy_run, LoopStep, CheckFlag, SkipSlot,
              EndRound, PollReturns, PollFails, SignalArrives, Signal, PollInterrupted,
              ListenerFails, Peer, vars, loopVars

\* A socket that is a live connection's stays one, or is closed.
LEMMA HeldStays ==
    ASSUME IInv, [Next]_vars, pc' # "done", NEW f \in FdSet,
           sock[f].peer # NoPeer, sock'[f].peer = sock[f].peer, ~Leaked(f)
    PROVE  conns'[sock[f].peer.conn].st = "live"
<1>0. Types /\ Structure
  BY StaysDone DEF IInv
<1>1. PICK c : c = sock[f].peer.conn
  OBVIOUS
<1>2. c \in ConnIds /\ Live(c)
  <2>1. sock[f].peer \in [conn : ConnIds, side : Sides]
    BY <1>0, PeerTyped
  <2> QED
    BY <1>1, <2>1 DEF Leaked
<1>3. ASSUME conns'[c].st # "live" PROVE FALSE
  <2>1. sock' = CloseFds(sock, FdsOf(c))
    BY <1>2, <1>3, FreesSockets
  <2>2. f \in FdsOf(c)
    BY <1>0, <1>1, <1>2, LiveConn, SideFacts
  <2>3. sock'[f] = Closed
    BY <2>1, <2>2 DEF CloseFds
  <2> QED
    BY <2>3 DEF Closed
<1> QED
  BY <1>1, <1>3

LEMMA LeakStep ==
    ASSUME IInv, [Next]_vars, pc' # "done", NEW f \in FdSet
    PROVE  (~Leaked(f) /\ Leaked(f)') <=>
             /\ sock[f].peer = NoPeer /\ sock'[f].peer # NoPeer
             /\ mgr.num_events + EventsNeeded(sock', sock'[f].peer.conn) > MAX_EVENTS
<1> USE SideFacts
<1>0. Types /\ Structure
  BY StaysDone DEF IInv
<1>l. Leaked(f)' <=> sock'[f].peer # NoPeer /\ conns'[sock'[f].peer.conn].st # "live"
  BY DEF Leaked, Live
<1>1. ASSUME sock'[f].peer \in {sock[f].peer, NoPeer}
      PROVE  ~(~Leaked(f) /\ Leaked(f)') /\ (sock[f].peer = NoPeer => sock'[f].peer = NoPeer)
  BY <1>1, <1>l, HeldStays
<1>2. CASE ~AcceptThenConnect
  <2>1. sock'[f].peer \in {sock[f].peer, NoPeer}
    BY <1>0, <1>2, NextStay, PeersStayed
  <2> QED
    BY <1>1, <2>1
<1>3. CASE AcceptThenConnect
  <2>1. PICK d : d = accepted + 1
    OBVIOUS
  <2>2. UNCHANGED mainVars
    <3>1. accepted' # accepted
      BY <1>0, <1>3 DEF AcceptThenConnect, Types
    <3> QED
      BY <3>1 DEF Next, System, Environment, main, Teardown, SignalArrives, ListenerFails, Peer,
                  PeerStep, ClientConnects, PeerSendsKey, PeerSends, PeerCloses, PeerFails,
                  PeerReads, ConnectSettles, vars, sockVars, peerVars
  <2>3. PICK e, cf, sf : e \in ConnIds /\ OpensConn(e, cf, sf)
    BY <1>3, <2>2, AcceptOpens
  <2>4. CASE f \in {cf, sf}
    <3>1. sock[f].peer.conn = 0 /\ sock'[f].peer.conn = d /\ d \in ConnIds /\ d # 0
      BY <2>1, <2>3, <2>4 DEF OpensConn, ConnIds
    <3>2. sock[f].peer = NoPeer /\ sock'[f].peer # NoPeer
      <4>1. NoPeer.conn = 0
        BY DEF NoPeer
      <4> QED
        BY <1>0, <3>1, <4>1, PeerTyped
    <3>3. conns'[d].st = "live" <=> ~(mgr.num_events + EventsNeeded(sock', d) > MAX_EVENTS)
      BY <1>3, <2>1, AcceptKeeps
    <3>4. ~Leaked(f)
      BY <3>2 DEF Leaked
    <3> QED
      BY <1>l, <3>1, <3>2, <3>3, <3>4
  <2>5. CASE f \notin {cf, sf}
    <3>1. sock'[f] = sock[f]
      BY <2>3, <2>5 DEF OpensConn
    <3> QED
      BY <1>1, <3>1
  <2> QED
    BY <2>4, <2>5
<1> QED
  BY <1>2, <1>3

\* For every capacity of the table and every number of descriptors and clients, a
\* socket is left open behind a connection that was given up exactly when
\* handle_accept opened it and found no room for the connection's events: both
\* directions, so the failed event_add does leak, and no other path of any
\* callback does.
THEOREM LeaksOnlyThere == Spec => LeaksExactlyWhenFull
<1>1. IInv /\ [Next]_vars =>
        [pc' # "done" => \A f \in FdSet :
           (~Leaked(f) /\ Leaked(f)') <=>
              /\ sock[f].peer = NoPeer /\ sock'[f].peer # NoPeer
              /\ mgr.num_events + EventsNeeded(sock', sock'[f].peer.conn) > MAX_EVENTS]_vars
  BY LeakStep
<1> QED
  BY <1>1, Inductive, PTL DEF Spec, LeaksExactlyWhenFull
=============================================================================
