----------------------------- MODULE EventRegistry -----------------------------
(***************************************************************************)
(* What src/include/event.h promises of an event manager, without slots,   *)
(* indices or scans: a registry of at most MAX_EVENTS descriptors, and a   *)
(* loop that hands every report of poll() to the callback of the           *)
(* descriptor it was made for, once, unless that registration was changed  *)
(* after the poll.                                                         *)
(***************************************************************************)
EXTENDS Errors, FiniteSets

CONSTANTS MAX_EVENTS, NULL, Fds, Callbacks, Data, Masks, Reports

VARIABLES reg,     \* registered descriptor -> what was asked for it
          ready,   \* reports of the last poll that are still to be handed out
          call,    \* the callback in progress
          res,     \* what the last call returned
          mode     \* "client", "loop", "callback", "stopped" or "done"

regVars == <<reg, ready, call, res, mode>>

Quiet == [fd \in Fds |-> {}]

Init ==
    /\ reg = << >>
    /\ ready = Quiet
    /\ call = NULL
    /\ res = PROXY_SUCCESS
    /\ mode = "client"

ClientRuns == mode \in {"client", "callback", "stopped"}

\* Any change of a registration discards what the last poll said about it.
Update(fd, newReg) ==
    /\ reg' = newReg
    /\ ready' = [ready EXCEPT ![fd] = {}]
    /\ res' = PROXY_SUCCESS

Refuse(err) == res' = err /\ UNCHANGED <<reg, ready>>

Add(fd, events, data, callback) ==
    /\ ClientRuns
    /\ \/ /\ events = {} \/ fd \in DOMAIN reg
          /\ Refuse(PROXY_ERR)
       \/ /\ events # {} /\ fd \notin DOMAIN reg
          /\ Cardinality(DOMAIN reg) = MAX_EVENTS
          /\ Refuse(PROXY_MAX_EVENTS)
       \/ /\ events # {} /\ fd \notin DOMAIN reg
          /\ Cardinality(DOMAIN reg) < MAX_EVENTS
          /\ Update(fd, [f \in DOMAIN reg \cup {fd} |->
                IF f = fd THEN [events |-> events, data |-> data, callback |-> callback]
                ELSE reg[f]])
    /\ UNCHANGED <<call, mode>>

Modify(fd, events) ==
    /\ ClientRuns
    /\ \/ /\ events = {} \/ fd \notin DOMAIN reg
          /\ Refuse(PROXY_ERR)
       \/ /\ events # {} /\ fd \in DOMAIN reg
          /\ Update(fd, [reg EXCEPT ![fd] = [events |-> events, data |-> @.data,
                                             callback |-> @.callback]])
    /\ UNCHANGED <<call, mode>>

Remove(fd) ==
    /\ ClientRuns
    /\ \/ fd \notin DOMAIN reg /\ Refuse(PROXY_ERR)
       \/ /\ fd \in DOMAIN reg
          /\ Update(fd, [f \in DOMAIN reg \ {fd} |-> reg[f]])
    /\ UNCHANGED <<call, mode>>

Start ==
    /\ mode = "client"
    /\ mode' = "loop"
    /\ UNCHANGED <<reg, ready, call, res>>

\* A new poll happens only when every earlier report has been handed out.
Poll ==
    /\ mode = "loop"
    /\ ready = Quiet
    /\ ready' \in [Fds -> Reports]
    /\ \E fd \in Fds : ready'[fd] # {}
    /\ \A fd \in Fds : ready'[fd] # {} => fd \in DOMAIN reg
    /\ UNCHANGED <<reg, call, res, mode>>

Invoke ==
    /\ mode = "loop"
    /\ \E fd \in DOMAIN reg :
         /\ ready[fd] # {}
         /\ call' = [fd |-> fd, revents |-> ready[fd],
                     callback |-> reg[fd].callback, data |-> reg[fd].data]
         /\ ready' = [ready EXCEPT ![fd] = {}]
    /\ mode' = "callback"
    /\ UNCHANGED <<reg, res>>

CallbackReturns ==
    /\ mode = "callback"
    /\ mode' = "loop"
    /\ call' = NULL
    /\ UNCHANGED <<reg, ready, res>>

\* The loop ends: the flag was cleared, poll() failed or a callback failed.
Stop ==
    /\ mode \in {"loop", "callback"}
    /\ mode' = "stopped"
    /\ ready' = Quiet
    /\ call' = NULL
    /\ UNCHANGED <<reg, res>>

Teardown ==
    /\ mode = "stopped"
    /\ mode' = "done"
    /\ reg' = << >>
    /\ UNCHANGED <<ready, call, res>>

Next ==
    \/ \E fd \in Fds :
         \/ \E m \in Masks, d \in Data, c \in Callbacks : Add(fd, m, d, c)
         \/ \E m \in Masks : Modify(fd, m)
         \/ Remove(fd)
    \/ Start
    \/ Poll
    \/ Invoke
    \/ CallbackReturns
    \/ Stop
    \/ Teardown

Spec == Init /\ [][Next]_regVars
=============================================================================
