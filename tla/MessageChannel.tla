--------------------------- MODULE MessageChannel ---------------------------
(***************************************************************************)
(* What netnacl promises its callers, without keys, frames or parts: each  *)
(* end sends messages; each message arrives whole, once, in order; what    *)
(* does not fit the reader's buffer is kept for its next read; the end of  *)
(* the connection is seen only after every message that was sent.  One     *)
(* that is damaged on the way is lost with all that follow it.             *)
(* This is the encrypted side that Sockets and Proxy assume.               *)
(***************************************************************************)
EXTENDS Integers, Sequences

CONSTANTS Ends,        \* the two ends
          Peer(_),     \* the other end
          MaxMessage   \* bytes in a message

VARIABLES state,   \* "new", "up", "eof" (has seen the other's end), "down"
          queue,   \* messages an end has sent and the other has not opened
          rest,    \* what an end has not read of the message it opened
          sent,    \* number of bytes an end has sent
          got,     \* bytes an end has read
          spoiled  \* something an end has sent was damaged on the way

vars == <<state, queue, rest, sent, got, spoiled>>

Init ==
    /\ state = [e \in Ends |-> "new"]
    /\ queue = [e \in Ends |-> << >>]
    /\ rest = [e \in Ends |-> << >>]
    /\ sent = [e \in Ends |-> 0]
    /\ got = [e \in Ends |-> << >>]
    /\ spoiled = [e \in Ends |-> FALSE]

Start(e) ==
    /\ state[e] = "new"
    /\ state' = [state EXCEPT ![e] = "up"]
    /\ UNCHANGED <<queue, rest, sent, got, spoiled>>

Send(e) ==
    /\ state[e] = "up"
    /\ \E n \in 1 .. MaxMessage :
         /\ queue' = IF spoiled[e] THEN queue
                     ELSE [queue EXCEPT ![e] = Append(@, [i \in 1 .. n |-> sent[e] + i])]
         /\ sent' = [sent EXCEPT ![e] = @ + n]
    /\ UNCHANGED <<state, rest, got, spoiled>>

\* Some bytes of the opened message, or of the next one.
ReadFrom(e, m) ==
    \E n \in 1 .. Len(m) :
      /\ got' = [got EXCEPT ![e] = @ \o SubSeq(m, 1, n)]
      /\ rest' = [rest EXCEPT ![e] = SubSeq(m, n + 1, Len(m))]

Read(e) ==
    /\ state[e] = "up"
    /\ \/ /\ rest[e] # << >>
          /\ ReadFrom(e, rest[e])
          /\ UNCHANGED queue
       \/ /\ rest[e] = << >> /\ queue[Peer(e)] # << >>
          /\ ReadFrom(e, Head(queue[Peer(e)]))
          /\ queue' = [queue EXCEPT ![Peer(e)] = Tail(@)]
    /\ UNCHANGED <<state, sent, spoiled>>

Eof(e) ==
    /\ state[e] = "up" /\ state[Peer(e)] \in {"eof", "down"}
    /\ rest[e] = << >> /\ queue[Peer(e)] = << >>
    /\ state' = [state EXCEPT ![e] = "eof"]
    /\ UNCHANGED <<queue, rest, sent, got, spoiled>>

GoDown(e) ==
    /\ state[e] \in {"new", "up"}
    /\ state' = [state EXCEPT ![e] = "down"]
    /\ UNCHANGED <<queue, rest, sent, got, spoiled>>

\* A message is damaged on the way: it is lost, and with it all that follows.
Spoil(e) ==
    /\ spoiled' = [spoiled EXCEPT ![e] = TRUE]
    /\ \E n \in 0 .. Len(queue[e]) : queue' = [queue EXCEPT ![e] = SubSeq(@, 1, n)]
    /\ UNCHANGED <<state, rest, sent, got>>

Next == \E e \in Ends : Start(e) \/ Send(e) \/ Read(e) \/ Eof(e) \/ GoDown(e) \/ Spoil(e)

Spec == Init /\ [][Next]_vars
=============================================================================
