----------------------------- MODULE EventManager -----------------------------
(***************************************************************************)
(* src/event.c under its most general client: a callback makes any         *)
(* sequence of event_add, event_modify and event_remove calls on any       *)
(* descriptors, its own included, and returns any code.                    *)
(***************************************************************************)
EXTENDS EventLoop

CONSTANTS Fds,         \* descriptors a client may register
          Callbacks,   \* callback functions
          Data,        \* user data pointers
          Masks,       \* event masks a client asks for
          Reports      \* what poll() may report for a descriptor

ASSUME FdsAssumption == Fds \subseteq Nat
\* The empty report is what poll() leaves for a descriptor that is not ready.
ASSUME ClientAssumption ==
    /\ NULL \notin Callbacks
    /\ Masks \subseteq PollMasks
    /\ Reports \subseteq PollReports /\ {} \in Reports

VARIABLES call,   \* the callback in progress, NULL outside one
          res     \* what the last event_* call returned to the client

vars == <<loopVars, call, res>>

Init ==
    /\ LoopInit
    /\ call = NULL
    /\ res = PROXY_SUCCESS

\* The client runs: proxy_run before and after the loop, or a callback.
ClientRuns == pc \in {"setup", "callback", "returned"}

Apply(result) ==
    /\ ClientRuns
    /\ mgr' = result.mgr
    /\ res' = result.err
    /\ UNCHANGED <<pc, idx, run_flag, ret, call>>

Add(fd, events, data, callback) == Apply(event_add(mgr, fd, events, data, callback))
Modify(fd, events) == Apply(event_modify(mgr, fd, events))
Remove(fd) == Apply(event_remove(mgr, fd))

StartLoop ==
    /\ pc = "setup"
    /\ pc' = "check"
    /\ UNCHANGED <<mgr, idx, run_flag, ret, call, res>>

Poll ==
    /\ \E report \in [Fds -> Reports] : PollReturns(report)
    /\ UNCHANGED <<call, res>>

\* handle_event invokes the callback.
Invoke ==
    /\ Dispatching
    /\ pc' = "callback"
    /\ call' = [fd       |-> mgr.events[EventIdx].fd,
                revents  |-> mgr.pfds[idx].revents,
                callback |-> mgr.events[EventIdx].callback,
                data     |-> mgr.events[EventIdx].data]
    /\ UNCHANGED <<mgr, idx, run_flag, ret, res>>

CallbackReturns(err) ==
    /\ pc = "callback"
    /\ NextSlot(err)
    /\ call' = NULL
    /\ UNCHANGED <<mgr, run_flag, res>>

event_teardown ==
    /\ pc = "returned"
    /\ mgr' = ClearTable(mgr)
    /\ pc' = "done"
    /\ UNCHANGED <<idx, run_flag, ret, call, res>>

LoopStep == \/ CheckFlag \/ Signal \/ PollInterrupted \/ PollFails
            \/ SkipSlot \/ EndRound

Next ==
    \/ \E fd \in Fds :
         \/ \E m \in Masks, d \in Data, c \in Callbacks : Add(fd, m, d, c)
         \/ \E m \in Masks : Modify(fd, m)
         \/ Remove(fd)
    \/ StartLoop
    \/ Poll
    \/ Invoke
    \/ \E err \in {PROXY_SUCCESS, PROXY_ERR} : CallbackReturns(err)
    \/ LoopStep /\ UNCHANGED <<call, res>>
    \/ event_teardown

Spec == Init /\ [][Next]_vars

-----------------------------------------------------------------------------
(* Properties.                                                             *)

PfdType == [fd : Fds \cup {0, NoFd}, events : PollMasks, revents : PollReports]
EventType == [fd : Fds \cup {0, NoFd}, callback : Callbacks \cup {NULL},
              data : Data \cup {NULL}]
CallType == [fd : Fds, revents : PollReports, callback : Callbacks, data : Data]

TableType(m) ==
    /\ m \in [pfds : [Slots -> PfdType], events : [Slots -> EventType],
              max_idx : Nat, num_events : Nat]
    /\ m.max_idx <= MAX_EVENTS

\* Type of the state of event.c.  max_idx <= MAX_EVENTS also says that
\* event_add never writes behind the arrays.
TypeOK ==
    /\ TableType(mgr)
    /\ pc \in {"setup", "check", "poll", "dispatch", "callback", "returned", "done"}
    /\ idx \in Nat
    /\ run_flag \in BOOLEAN
    /\ ret \in ProxyCodes
    /\ call \in CallType \cup {NULL}
    /\ res \in ProxyCodes

Used(m) == {i \in Scanned(m) : m.pfds[i].fd # NoFd}
OneSlotPerFd(m) == \A i, j \in Used(m) : m.pfds[i].fd = m.pfds[j].fd => i = j
ArraysAgree(m) == \A i \in Scanned(m) : m.pfds[i].fd = m.events[i].fd
CountExact(m) == m.num_events = Cardinality(Used(m))
UsedComplete(m) ==
    \A i \in Used(m) : /\ m.pfds[i].fd \in Fds
                       /\ m.events[i].callback \in Callbacks
                       /\ m.events[i].data \in Data
UnusedClean(m) == \A i \in Slots \ Used(m) : m.pfds[i].revents = {}

\* The table stays coherent whatever calls the callbacks make: the pollfd and
\* event arrays name the same descriptors, no descriptor has two elements,
\* an element in use holds a callback to invoke (never the NULL of a removed
\* one), and an element that event_add may hand out next carries no old revents
\* (event_add does not clear them).
TableCoherent ==
    /\ ArraysAgree(mgr) /\ OneSlotPerFd(mgr)
    /\ UsedComplete(mgr) /\ UnusedClean(mgr)

\* num_events, against which event_add tests the capacity, is the number of
\* elements in use, although max_idx and the holes move independently of it.
\* After event_teardown, which clears the elements only, nothing reads it.
CapacityExact == pc # "done" => CountExact(mgr)

-----------------------------------------------------------------------------
(* The table implements the registry.                                      *)

RegisteredFds == {mgr.pfds[i].fd : i \in Used(mgr)}
SlotOf(fd) == CHOOSE i \in Used(mgr) : mgr.pfds[i].fd = fd

absReg == [fd \in RegisteredFds |->
             [events   |-> mgr.pfds[SlotOf(fd)].events,
              data     |-> mgr.events[SlotOf(fd)].data,
              callback |-> mgr.events[SlotOf(fd)].callback]]

\* The elements the current pass over the table has not reached yet.
Ahead == {i \in Used(mgr) : \/ pc = "dispatch" /\ i >= idx
                            \/ pc = "callback" /\ i > idx}

absReady == [fd \in Fds |->
               IF \E i \in Ahead : mgr.pfds[i].fd = fd
                 THEN mgr.pfds[SlotOf(fd)].revents ELSE {}]

absMode == CASE pc = "setup" -> "client"
             [] pc \in {"check", "poll", "dispatch"} -> "loop"
             [] pc = "callback" -> "callback"
             [] pc = "returned" -> "stopped"
             [] OTHER -> "done"

Registry == INSTANCE EventRegistry WITH reg <- absReg, ready <- absReady,
                                        mode <- absMode

\* The slot table, its scans and its loop implement the registry of
\* EventRegistry: no report is handed to a registration it was not made for,
\* none is handed out twice, and none is skipped, although callbacks add,
\* move and remove elements, and shrink max_idx, while the loop walks them.
ImplementsRegistry == Registry!Spec
=============================================================================
