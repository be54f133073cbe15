------------------------------ MODULE EventLoop ------------------------------
(***************************************************************************)
(* src/event.c: the table of registered descriptors and the poll loop.     *)
(*                                                                         *)
(* The table g_mgr is one record.  event_add, event_modify and             *)
(* event_remove are functions of the table: they return the new table and  *)
(* the code the C function returns, so that a callback that makes several  *)
(* calls is their composition.  The steps of event_run_loop are actions;   *)
(* what a callback does is left to the modules that extend this one.       *)
(***************************************************************************)
EXTENDS Errors, FiniteSets

CONSTANTS MAX_EVENTS,   \* capacity of the table (512 in event.h)
          NULL          \* the null pointer

ASSUME MaxEventsAssumption == MAX_EVENTS \in Nat \ {0}

VARIABLES mgr,        \* g_mgr
          pc,         \* where event_run_loop is
          idx,        \* its loop variable
          run_flag,   \* g_run_flag: TRUE until a signal clears it
          ret         \* the code event_run_loop returned

loopVars == <<mgr, pc, idx, run_flag, ret>>

NoFd == -1
PollMasks == SUBSET {"POLLIN", "POLLOUT"}
PollReports == SUBSET {"POLLIN", "POLLOUT", "POLLERR", "POLLHUP", "POLLNVAL"}

\* Both arrays of g_mgr have MAX_EVENTS + 1 elements.
Slots == 0 .. MAX_EVENTS

\* The elements the code looks at: 0 <= i < max_idx.
Scanned(m) == 0 .. (m.max_idx - 1)

\* g_mgr is zero-initialised: every element names descriptor 0, and only
\* max_idx = 0 keeps those elements from being taken for registrations.
EmptyTable ==
    [pfds   |-> [i \in Slots |-> [fd |-> 0, events |-> {}, revents |-> {}]],
     events |-> [i \in Slots |-> [fd |-> 0, callback |-> NULL, data |-> NULL]],
     max_idx |-> 0, num_events |-> 0]

Holes(m) == {i \in Scanned(m) : m.pfds[i].fd = NoFd}
SlotsOf(m, efd) == {i \in Scanned(m) : m.pfds[i].fd = efd}
Least(S) == CHOOSE i \in S : \A j \in S : i <= j

\* The first element that names efd, NoFd (-1) when there is none or when the
\* assertion that the two arrays agree fails.
get_idx_from_fd(m, efd) ==
    IF SlotsOf(m, efd) = {} THEN -1
    ELSE LET i == Least(SlotsOf(m, efd))
         IN  IF m.events[i].fd = efd THEN i ELSE -1

-----------------------------------------------------------------------------
(* The table's operations.                                                 *)

\* Mutant of InsertIdx: the element behind the last is taken although there
\* are holes, and max_idx does not move.
InsertIdx_IgnoresHoles(m) == m.max_idx

\* First hole below max_idx, else a new element at max_idx.
InsertIdx(m) == IF Holes(m) = {} THEN m.max_idx ELSE Least(Holes(m))

\* revents of the chosen element is not written.
Insert(m, efd, events, data, callback) ==
    LET i == InsertIdx(m)
    IN  [pfds |-> [m.pfds EXCEPT ![i] =
                     [fd |-> efd, events |-> events, revents |-> m.pfds[i].revents]],
         events |-> [m.events EXCEPT ![i] =
                     [fd |-> efd, callback |-> callback, data |-> data]],
         max_idx |-> IF Holes(m) = {} THEN m.max_idx + 1 ELSE m.max_idx,
         num_events |-> m.num_events + 1]

\* Mutant of AtCapacity: off by one.
AtCapacity_OffByOne(m) == m.num_events > MAX_EVENTS

AtCapacity(m) == m.num_events = MAX_EVENTS

event_add(m, efd, events, data, callback) ==
    IF efd < 0 \/ events = {} \/ get_idx_from_fd(m, efd) # -1
      THEN [mgr |-> m, err |-> PROXY_ERR]
    ELSE IF AtCapacity(m)
      THEN [mgr |-> m, err |-> PROXY_MAX_EVENTS]
    ELSE [mgr |-> Insert(m, efd, events, data, callback), err |-> PROXY_SUCCESS]

\* Mutant of ModifiedPfd: the missing reset of revents.
ModifiedPfd_KeepsRevents(p, events) == [p EXCEPT !.events = events]

\* Clears revents, so a pending report is ignored until the next poll().
ModifiedPfd(p, events) == [fd |-> p.fd, events |-> events, revents |-> {}]

event_modify(m, efd, events) ==
    LET i == get_idx_from_fd(m, efd)
    IN  IF efd < 0 \/ events = {} \/ i = -1
          THEN [mgr |-> m, err |-> PROXY_ERR]
        ELSE [mgr |-> [m EXCEPT
                         !.pfds = [m.pfds EXCEPT ![i] =
                            ModifiedPfd(m.pfds[i], events)]],
              err |-> PROXY_SUCCESS]

\* Mutant of RemovedPfd: the missing reset of revents.
RemovedPfd_KeepsRevents(p) == [p EXCEPT !.fd = NoFd, !.events = {}]

RemovedPfd(p) == [fd |-> NoFd, events |-> {}, revents |-> {}]

\* max_idx shrinks only when the last element goes; holes below it remain.
event_remove(m, efd) ==
    LET i == get_idx_from_fd(m, efd)
    IN  IF efd < 0 \/ i = -1
          THEN [mgr |-> m, err |-> PROXY_ERR]
        ELSE [mgr |->
                [pfds |-> [m.pfds EXCEPT ![i] = RemovedPfd(m.pfds[i])],
                 events |-> [m.events EXCEPT ![i] =
                             [fd |-> NoFd, callback |-> NULL, data |-> NULL]],
                 max_idx |-> IF i = m.max_idx - 1 THEN m.max_idx - 1 ELSE m.max_idx,
                 num_events |-> m.num_events - 1],
              err |-> PROXY_SUCCESS]

\* event_teardown: the scanned elements are cleared, the counters are not.
ClearTable(m) ==
    [m EXCEPT
       !.pfds = [i \in Slots |-> IF i \in Scanned(m)
                   THEN [fd |-> NoFd, events |-> {}, revents |-> {}] ELSE m.pfds[i]],
       !.events = [i \in Slots |-> IF i \in Scanned(m)
                   THEN [fd |-> NoFd, callback |-> NULL, data |-> NULL] ELSE m.events[i]]]

\* poll() fills in revents for every scanned element; the kernel reports
\* nothing for an element whose fd is -1.
FillReports(m, report) ==
    [m EXCEPT !.pfds =
       [i \in Slots |->
          IF i \in Scanned(m)
            THEN [fd |-> m.pfds[i].fd, events |-> m.pfds[i].events,
                  revents |-> IF m.pfds[i].fd = NoFd THEN {} ELSE report[m.pfds[i].fd]]
          ELSE m.pfds[i]]]

-----------------------------------------------------------------------------
(* event_run_loop.                                                         *)

LoopInit ==
    /\ mgr = EmptyTable
    /\ pc = "setup"
    /\ idx = 0
    /\ run_flag = TRUE
    /\ ret = PROXY_SUCCESS

\* Mutant of CheckFlag: while (1).
CheckFlag_Ignored ==
    /\ pc = "check"
    /\ pc' = "poll"
    /\ ret' = PROXY_SUCCESS
    /\ UNCHANGED <<mgr, idx, run_flag>>

\* while (1 == *p_run_flag)
CheckFlag ==
    /\ pc = "check"
    /\ pc' = IF run_flag THEN "poll" ELSE "returned"
    /\ ret' = PROXY_SUCCESS
    /\ UNCHANGED <<mgr, idx, run_flag>>

\* poll() returns with something to report for at least one descriptor.
PollReturns(report) ==
    /\ pc = "poll"
    /\ \E i \in Scanned(mgr) : mgr.pfds[i].fd # NoFd /\ report[mgr.pfds[i].fd] # {}
    /\ mgr' = FillReports(mgr, report)
    /\ idx' = 0
    /\ pc' = "dispatch"
    /\ UNCHANGED <<run_flag, ret>>

\* A signal: the handler clears the flag.  It does not end a poll() that has
\* not begun yet, which the code cannot tell from one that has.
Signal ==
    /\ run_flag
    /\ pc \notin {"returned", "done"}
    /\ run_flag' = FALSE
    /\ UNCHANGED <<mgr, pc, idx, ret>>

\* A signal that arrives while poll() sleeps also makes it fail with EINTR.
PollInterrupted ==
    /\ pc = "poll"
    /\ run_flag
    /\ run_flag' = FALSE
    /\ pc' = "returned"
    /\ ret' = PROXY_INTR
    /\ UNCHANGED <<mgr, idx>>

\* Any other failure of poll().
PollFails ==
    /\ pc = "poll"
    /\ pc' = "returned"
    /\ ret' = PROXY_ERR
    /\ UNCHANGED <<mgr, idx, run_flag>>

\* The loop goes on to the next element, or ends with the callback's code.
NextSlot(err) ==
    IF err = PROXY_SUCCESS
      THEN /\ pc' = "dispatch"
           /\ idx' = idx + 1
           /\ UNCHANGED ret
      ELSE /\ pc' = "returned"
           /\ ret' = err
           /\ UNCHANGED idx

\* handle_event finds the callback through the descriptor, not the index.
EventIdx == get_idx_from_fd(mgr, mgr.pfds[idx].fd)

\* handle_event is about to invoke the callback of the element at idx.
Dispatching ==
    /\ pc = "dispatch"
    /\ idx \in Scanned(mgr)
    /\ mgr.pfds[idx].fd # NoFd
    /\ EventIdx # -1
    /\ mgr.pfds[idx].revents # {}

\* handle_event has nothing to invoke: a hole, or nothing was reported.
SkipSlot ==
    /\ pc = "dispatch"
    /\ idx \in Scanned(mgr)
    /\ ~Dispatching
    /\ NextSlot(IF mgr.pfds[idx].fd # NoFd /\ EventIdx = -1
                  THEN PROXY_ERR ELSE PROXY_SUCCESS)
    /\ UNCHANGED <<mgr, run_flag>>

\* The for loop ends; max_idx is read again on every iteration.
EndRound ==
    /\ pc = "dispatch"
    /\ idx \notin Scanned(mgr)
    /\ pc' = "check"
    /\ UNCHANGED <<mgr, idx, run_flag, ret>>
=============================================================================
