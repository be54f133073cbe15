# A TLA+ model of nacl-proxy

nacl-proxy is a single-threaded, non-blocking TCP proxy: it accepts a client,
connects to one configured server and copies bytes both ways, optionally
encrypting either side with `netnacl` (length-framed messages around
TweetNaCl). These modules model all of it from the command line to the exit
status: the event manager, the connections and their buffers, netnacl's key
exchange and framing, and the address cache. TLC checks them on small instances;
TLAPS proves every safety property of the passing runs but one for all
parameters: that the event manager implements its abstract registry, that nothing
dangles, is forgotten or is freed twice in the proxy, that it keeps both byte
streams whole, and that the two ends of netnacl agree and resume without splicing.
The one left to TLC is that netnacl implements its abstract channel.

## 1. The system

| Component (source) | State | Operations |
|---|---|---|
| Event manager (`src/event.c`) | `g_mgr`: a `pollfd` array and an array of callbacks side by side, `max_idx`, `num_events` | `event_add`, `event_modify`, `event_remove`, `event_run_loop`, `event_teardown` |
| Proxied connections (`src/proxy.c`) | one `conn_t` per client: two sockets, two buffers, two `netnacl_t`, a reference count | `proxy_run`; `accept_callback`, `pending_connect_callback`, `handshake_callback`, `conn_callback`; `close_connection`, `free_connection` |
| Buffers (`src/buf.c`) | `data`, `size`, `read_pos` | `buf_send`, `buf_recv` |
| netnacl (`src/netnacl/src/netnacl.c`) | keys, the header and message being received, decrypted rest, the message being sent | `netnacl_create`, `netnacl_wrap`, `netnacl_send`, `netnacl_recv` |
| Network (`src/network.c`) | `gp_cached_server_address`, `gts_last_resolution` | `network_connect_to_server`, `network_get_listen_socket`, `network_set_sock_nonblocking`, `network_free_cached_address` |
| Command line (`src/main.c`) | `config_t` | `parse_args`, `main` and its exit status |
| TweetNaCl, logging | — | not modelled, see section 8 |

**Interaction.** `main` turns the command line into a `config_t`, calls
`proxy_run` and makes its code an exit status. `proxy_run` registers the listener and hands control to
`event_run_loop`, which polls and walks the table, calling the callback of each
reported descriptor. Callbacks call back into the event manager: they add,
modify and remove table elements *while the loop walks them*. `accept_callback`
calls into `network.c` for a server socket and registers either both sides or,
while `connect()` is in progress, the server side alone. `conn_callback` reads
one side into the buffer *of the other side* and asks for `POLLOUT` there;
`handle_send` sends it and takes `POLLOUT` back. On an encrypted side
`handshake_callback` first calls `netnacl_wrap` until both keys are exchanged;
`buf_send` and `buf_recv` then call `netnacl_send` and `netnacl_recv` in place of
`send()` and `recv()`, and those keep what the kernel did not take or has not yet
delivered in the `netnacl_t` until the next call. Everything outside the process
(peers, kernel buffers, signals, the resolver) moves between any two steps.

**What is hard here.** The table changes under the loop that walks it;
descriptors are closed and handed out again in the same round; `poll()` reports
are old when they are used; partial sends resume in later rounds; a FIN may come
with data, on a side that itself has data waiting; two key exchanges interleave
with data; keys, headers and boxes are cut up anywhere and continued by later
calls, while `errno` and the plaintext belong to the caller; the reference count and the number of events are kept separately;
return codes of several layers share numbers and decide whether the whole loop
ends. `hazards` in `PROJECT.json` lists each of these at its line, with the
properties that would notice it going wrong.

**What makes it correct.** The event manager: a report reaches exactly the
registration it was made for, and the capacity is what `num_events` says. The
connections: nothing dangles or leaks, every side stays watched, both directions
are byte streams, everything sent arrives while nobody closes, a FIN ends the
connection. netnacl: two ends agree on the key, messages arrive whole, once and
in order, only a damaged one fails to decrypt, and what is received fits its
array. The process: success is reported only after a signal, and a signal ends it.
The address cache: lists are neither leaked nor used after `free`, and only one
that gave a socket is kept, for a limited time. Sections 4 and 6 give these their
names; section 5 says which of them the code does not keep.

## 2. Modules

| Module | Models | Uses |
|---|---|---|
| `Errors` | the return codes of `errors.h` and `netnacl.h`, with their numbers | |
| `EventLoop` | `event.c`: the table operations as functions of the table, the loop as actions | `Errors` |
| `EventManager` | `EventLoop` under its most general client | `EventLoop`, `EventRegistry` (by `INSTANCE`) |
| `EventRegistry` | abstract specification: what `event.h` promises, without arrays or indices | `Errors` |
| `EventManagerProofs` | theorems about `EventManager`: the table stays coherent | `EventManager` |
| `EventRegistryProofs` | theorem: `EventManager` implements `EventRegistry` | `EventManagerProofs` |
| `CommandLine` | `main.c`: the options, the configuration, the exit status | `Errors` |
| `Sockets` | external: sockets, what `poll()` sees, the peers | `CommandLine` |
| `Proxy` | `proxy.c`, `buf.c`, and netnacl as whole messages | `EventLoop`, `Sockets` |
| `ProxyProperties` | what `Proxy` must and must not do | `Proxy` |
| `ProxyTableProofs` | lemmas: the table of `EventLoop` seen by descriptor | `ProxyProperties` |
| `ProxyProofs` | theorems about connections, sockets and events of `Proxy` | `ProxyTableProofs` |
| `ProxyStreamProofs` | theorems about the bytes that pass, and about leaked sockets | `ProxyProofs` |
| `NetNaCl` | `netnacl.c`: two ends of an encrypted connection, byte by byte | `Errors`, `MessageChannel` (by `INSTANCE`) |
| `MessageChannel` | abstract specification: what netnacl promises its callers | |
| `NetNaClProofs` | theorems about `NetNaCl`: what stays in its arrays, and what a damaged length does | `NetNaCl` |
| `NetNaClStreamProofs` | theorems about what the two ends make of each other's bytes | `NetNaClProofs` |
| `AddressCache` | `network_connect_to_server` and its cache | |
| `AddressCacheProofs` | theorems about `AddressCache` | `AddressCache` |
| `MCEventManager`, `MCProxy`, `MCNetNaCl`, `MCAddressCache` | values for TLC | |

### Correspondence with the code

*Event loop.* `mgr` is `g_mgr`. `event_add`, `event_modify` and `event_remove`
return the new table and the C return code, so a callback that makes several
calls is their composition. `pc` says where `event_run_loop` is: `check` (the
`while` test), `poll`, `dispatch` (the `for` loop at `idx`), `returned`, `done`
(after the tear-down). The flag test and `poll()` are separate steps, so a
signal can fall between them. `max_idx` is read again in every iteration, and
`handle_event` finds the callback through the descriptor, as the code does.

*General client* (`EventManager`). A callback makes any sequence of calls on any
descriptors and returns any code; `call` and `res` are what the client sees. It
may ask for an empty mask, which `event_add` and `event_modify` refuse
(`ASSERT_RET`), and `EventRegistry` with them.

*Sockets.* What has arrived on a socket is the sequence `rx`; `ends` are the
positions in it where a read may stop, behind any byte of a plain connection and
behind a message of an encrypted one. `Arrive` and `Consume` are the two ends of
the kernel's receive buffer.

*Connections.* One action per callback and outcome: `AcceptAborted`,
`AcceptFails`, `AcceptSetupFails`, `AcceptThenConnectFails` and
`AcceptThenConnect` are the paths of `accept_callback` with `handle_accept`;
`PendingConnectFails` and `PendingConnectSucceeds`; `HandshakeHup` and
`Handshake` (with `do_handshake` and `netnacl_wrap`); `ConnHup`, `RecvHeld` and
`handle_recv`, then `SendSome`, `SendAll` and `SendFails` (`handle_send`) for
`conn_callback`. Only `conn_callback` is two steps, since a peer may act between
`recv()` and `send()`. `Teardown` is the end of `proxy_run`, which calls
`free_connection` once for each element left. `buf[side]` is the data to be sent
*to* that side; the code's `size` is the length of `data`. `netnacl[side]` is
`NullNN` for a null pointer, else the state of the key exchange, the decrypted
rest `recv_pt`, and `send_buf_pos`, the sent part of an unfinished message.

*Command line.* `ReadCommandLine` is `main` up to `proxy_run`: a command line is
the set of its options and the number of its arguments, and `parse_args` refuses
it or yields `config`, from which `accept_callback` takes whether a side is
encrypted. `status` is what `main` returns.

*netnacl* (`NetNaCl`). A call of `netnacl_wrap`, `netnacl_send` or `netnacl_recv`
is one action, made when `do_handshake`, `buf_send` or `buf_recv` would make it.
`nn[e]` is the `netnacl_t` of an end, with the field names of the struct; a count
of received bytes is the length of what was received. `wire[e]` is what an end
has sent and the other has not read, of which the kernel shows any prefix
(`Arrived`); of what is sent it takes any part that fits (`Taken`), so every loop
ends early at every place. A byte is the message it belongs to and its position
there; a message is its plaintext, its nonce (numbered) and the key of its box,
the set of both ends' key pairs. A box opens if header and ciphertext are the
bytes of one message in order, undamaged, under the reader's key. `len` is
`recv_hdr.len` in host order: what the sender wrote, or any of `DamagedLens` when
its bytes were damaged (`ntohs`). The code compares it with nothing before it
receives that many bytes into `recv_ct`; an end that thereby leaves the array is
`"overrun"`, and is not followed further, since what the program does then is
undefined. `size` and
`space` are the callers' buffers: `NewBuffer` is a new one for `buf_send`, and
`netnacl_recv` repeats until the buffer of `buf_recv` is full or a call returns
no bytes. `eagain` says that `errno` is the `EAGAIN` of an earlier call, all that
`buf_recv` looks at after a negative code. `randombytes` is the exit of the
process when `/dev/urandom` cannot be opened.

*Assertions.* `ASSERT_RET` is modelled as in the release build: the function
returns -1 (`PROXY_ERR`).

*Address cache.* A list is a record of its identity, its addresses and the time
of its resolution; `live` holds the identities allocated and not freed.
`network_connect_to_server` is one action with four outcomes: the cached list
gave a socket, the resolver failed, the resolver answered, and, when the age test
fires without a list, the end of the process (`freeaddrinfo_NULL`).
`freeaddrinfo(NULL)` does nothing in glibc and reads through the pointer in musl,
which the release builds use, so either may follow. `attempt` remembers what
became of the last call; its `connect()` may still fail later.

### Abstractions

* A byte is its number in the stream of its peer: that shows loss, duplication
  and reordering.
* In `Proxy` a netnacl message arrives whole: a partial header or ciphertext
  leaves `netnacl_recv` in its state and returns `NN_WANT_READ`, as if nothing had
  come. That this is what netnacl gives its callers is what `NetNaCl` shows by
  implementing `MessageChannel`. On the wire of `Proxy` a message is as long as
  its plaintext.
* In `NetNaCl` any byte of a message, of its header or its box, may be damaged, as
  TCP's checksum would miss it. Keys arrive as they were written: `netnacl_wrap`
  takes any 32 bytes for a key. A direction holds at least one key (`Window`), as
  every socket buffer does: both ends send a whole key before they read.
* The kernel send buffer is its free room; a peer that reads empties it.
* Reports of `poll()` come from the state of the socket at that moment and stay
  in the table while the socket changes.
* After a failing call that does not set `errno`, every code the stale value
  could lead to is possible (`buf_send` of a null `netnacl_t`).
* Descriptors 1 and 2 do not exist; 0 does, because a failing `accept()` closes it.

## 3. Bounds

| Constant | In the code | In the runs | Why it is enough |
|---|---|---|---|
| `Masks` (`EventManager`) | any | empty, `POLLIN` | one that is refused and one that is not |
| `MAX_EVENTS` | 512 | 2 to 4 | 3 with four descriptors gives holes, growth, shrinking and refusal; in `control` 4 hold the listener, an open and a pending connection: each call site of `event_add` meets a full table; the proofs cover every value |
| `MaxFd` | process limit | 3, 5 or 7 | room for as many connections as there are clients, so that a connection is refused by the table; descriptors of closed connections are reused |
| `MaxClients` | unbounded | 1 to 3 | connections share only the table and the descriptor numbers: two exhibit each reuse, three a full table |
| `TxCap` | kernel | 1 | with two bytes to send every send can be partial |
| `BUF_SIZ` | 16348 | 2 | three bytes overflow it; data is left in the socket |
| `NN_MAX_MESSAGE_LEN` | 4096 | 2 | messages of one and two bytes: a buffer fills at the end or in the middle of one |
| `Bytes` | unbounded | up to 3 | full buffer, then more, with data in the other direction |
| key, padding, header, length field (`NetNaCl`) | 32, 32, 26, 2 | 2, 0 or 1, 2, 1 | key and header can be cut, and damaged in the length or behind it; the padding only makes a box longer; the proofs cover every size |
| `DamagedLens` | any 16 bits | 0 and one more than `recv_ct` holds | too short for the message, and too long for the array; the proofs cover every set |
| `NN_MAX_MESSAGE_LEN`, `BUF_SIZ`, `Bytes` (`NetNaCl`) | 4096, 16348, - | 2, 3, 4 one way | a buffer of three becomes a whole and a partial message, fills in the middle of the second, and more follows; the two directions of a `netnacl_t` share only the key and the end of the connection (three bytes each way with `Faults = {"close"}`, 1,072,044 states, hold as well but take longer than a run should) |
| `Window` | kernel | 4 or 5 | one message of the largest size: a second is cut anywhere, and one that arrives whole can overflow what is left of a buffer |
| `MaxKeys` | unbounded | 2 | one pair thrown away before a byte of it is sent |
| `TIME_SINCE_LAST_RESOLUTION_SEC`, `MaxTime`, `MaxLists` | 300, -, - | 2, 8, 3 | several intervals below and above the limit, a third list after two were dropped |

`CHECK_DEADLOCK FALSE` everywhere: `proxy_run` ends, and peers need not act.
No symmetry is used: descriptors are ordered (the lowest free one is handed out).

## 4. Runs that pass

* **event_manager** - the most general client. `TypeOK`; `TableCoherent` (the two
  arrays agree, one element per descriptor, no old report in a free element);
  `CapacityExact`; and `ImplementsRegistry`, refinement of `EventRegistry`: no
  report is handed to a registration it was not made for, none is handed out
  twice, none is skipped, although callbacks change the table during the walk.
* **data** - one connection, plain, encrypted to the server and encrypted on both
  sides: key exchanges that interleave with data, partial sends, full buffers,
  messages that overflow them, FIN, RST and timeout at every moment.
  `StreamIntact`: delivered, buffered and unread bytes are exactly what the other
  peer sent, in order. `PollOutIffPending`: `POLLOUT` is asked for exactly while
  there is unsent data. `EverySideWatched`: each socket of a connection has
  exactly one event. `HalfClosedHasWork`, `NoDangling`, `NoFdLeak`,
  `NoDoubleFree`.
* **control** - from right and wrong command lines to the exit status: three
  clients on a table too small for them, opened, refused, reset and torn down,
  calls failing, signals at any moment, descriptors reused. `EverySideWatched`;
  `GivenUpIsClosed`: a step that frees a registered connection also closes its
  sockets and removes its events; `LeaksExactlyWhenFull`: `NoFdLeak` does not hold
  on a full table, where `handle_accept` opens two sockets and leaves both behind
  when `event_add` fails; the property says that this happens whenever there is no
  room, and that no other step of any callback leaks a socket.
* **live** - under fairness, the server side encrypted. `Delivery`: while nobody
  closes, what is sent arrives, or waits in a `netnacl_t` (see `EncryptedDelivery`
  below). `EofCloses`: a FIN leads to the side being closed. `SignalStops`: a
  signal ends the proxy, unless it falls between the test of the flag and `poll()`.
* **netnacl** - keys, headers and boxes cut up anywhere, key pairs generated again,
  damaged headers and boxes, ends that close or exit. `ImplementsChannel`,
  refinement of `MessageChannel`: messages are delivered whole, once, in order, and
  before the end of the connection is reported; a damaged one is never delivered,
  nor is anything behind it. `KeysAgree`: two ends that have finished hold
  the same key. `OnlyDamageFails`: a complete message that does not decrypt was
  damaged, so no retry ever splices two boxes. `TypeOK`: nothing leaves the arrays
  of the struct but the ciphertext of an end that is `"overrun"`;
  `OverrunOnlyByDamage`: that happens (the run reaches it) only when a length field
  was damaged, never by the way two ends cut up and resume. `KeyExchangeEnds`: neither end waits for a key for ever while the
  other runs.
* **address_cache** - `OnlyCachedIsLive`: no list leaks and none is used after it
  was freed. `CachedIffSocket`: what is kept is exactly a list that gave the last
  caller a socket, one whose connect was refused afterwards included.

Every property of these runs has a mutant in `PROJECT.json`: a definition changed
as a plausible bug would change it, under which TLC finds the property violated.

## 5. Where the code does not keep what it says

Each of these runs checks what a comment, header or test states, and TLC finds a
behaviour of the code against it. `findings` in `PROJECT.json` has the quotations.

| Run | Property | What happens |
|---|---|---|
| `fin_data_lost` | `FinDataDelivered` | data read with a FIN is dropped when the surviving side is readable before all of it was sent, even when it is writable in the same report, as `handle_recv` runs before `handle_send` |
| `fin_stops_proxy` | `CallbackKeepsLoop` | data and FIN on a side that also is writable: `handle_send` runs on the closed side, returns `PROXY_ERR` and ends the loop for everyone |
| `exit_status` | `SuccessMeansSignal` | a connect that completes on a full table ends the loop with `PROXY_MAX_EVENTS`; `main` tests for `PROXY_ERR` alone and returns success |
| `encrypted_residue` | `EncryptedDelivery` | the rest of a message that did not fit the buffer stays in the `netnacl_t`, where `poll()` cannot see it |
| `bad_message` | `BadMessageEnds` | a message that does not decrypt is taken for an empty socket when `errno` is still `EAGAIN`: it stays in `recv_ct`, every later call decrypts it again, and neither data nor the FIN behind it is ever read |
| `address_age` | `AgeTestExact` | using a cached list restarts its age, resolving does not set it: lists are used beyond the limit and, after one long gap, dropped when new |

Three more findings are states that passing runs reach and describe exactly:

* `control`, `LeaksExactlyWhenFull`: neither socket of a new connection is closed
  when its events cannot be added, although `proxy.c:171` says "Clean up on error";
* `netnacl`, `OverrunOnlyByDamage`: the length of a header is compared with
  `NN_MAX_MESSAGE_LEN` only after decryption (`netnacl.c:334`), when that many bytes
  are already in `recv_ct` (`netnacl.c:287`);
* `address_cache`, `CachedIffSocket`: a list whose first connect in progress is
  refused later is kept and used again, and its other addresses are not tried,
  although `network.c:68` says "tries each result until connect succeeds".

`CallbackKeepsLoop` has more ways to fail; other values of the constants show them:

* a RST between `poll()` and `recv()` (`PeerFaults = {"reset"}`): `handle_recv`
  returns `PROXY_ERR` (`proxy.c:492`);
* a RST during the key exchange (one side encrypted): `handshake_callback` returns
  `PROXY_ERR` for `POLLERR` (`proxy.c:317`), although a failure seen by
  `netnacl_wrap` keeps the loop running (`proxy.c:331`);
* `accept()` failing with a transient error (`AcceptErrnos`): `proxy.c:180` joins
  three comparisons of `errno` by `&&`, which is never true;
* a pending connect that completes on a full table (two clients, `MAX_EVENTS = 3`):
  `pending_connect_callback` needs two elements, frees one, and returns
  `PROXY_MAX_EVENTS` to the loop (`proxy.c:257`), as in `exit_status`.

Also in the model, without a run of their own: a signal between the flag test and
`poll(-1)` is not noticed until a descriptor becomes ready (`event.c:124`; `Signal`
at `pc = "poll"`, the exception in `SignalStops`), against the five seconds that
`test/fixtures.py:47` gives the proxy; `randombytes` opens `/dev/urandom` even after
`getrandom()` has filled the buffer and exits if it cannot (`netnacl.c:105`), while
its comment calls that a fallback (`netnacl.c:80`); a half-closed connection has one event and `ref` 2, so
`event_teardown` does not free it (`AfterFrees`); `freeaddrinfo(NULL)` is called
when the age test fires without a list (`network.c:83`; `freeaddrinfo_NULL`).

### Fairness

`FairSpec` assumes `WF(System)`: the process is scheduled, and a loop that can
take a step takes one. And for each descriptor `WF(PeerReads \/ ConnectSettles)`:
peers read what they are sent, and the kernel completes or fails every
`connect()` (its SYN timeout). Nothing is assumed to make a peer send, close or
finish a key exchange, and no signal is assumed to arrive: `Delivery` is
therefore conditional on the other peer having sent its key. Weak fairness of
`System` as a whole is enough, since its enabled steps are those of one thread.

`FairSpec` of `NetNaCl` assumes `WF(netnacl_wrap(e))` of both ends: each poll loop
calls `do_handshake` when its socket is ready. Sending and receiving data carry no
fairness there; delivery is `Proxy`'s.

## 6. Proofs

| Theorem | States | Module |
|---|---|---|
| `TypeCorrect`, `Coherent`, `Capacity` | `TypeOK`, `TableCoherent`, `CapacityExact` | `EventManagerProofs` |
| `Refinement` | `ImplementsRegistry` | `EventRegistryProofs` |
| `NoListLeak`, `CacheIsLastSuccess` | `OnlyCachedIsLive`, `CachedIffSocket` | `AddressCacheProofs` |
| `ArraysHold`, `OverrunDamage` | `TypeOK` of `NetNaCl`, `OverrunOnlyByDamage` | `NetNaClProofs` |
| `KeyAgreement`, `DamageOnly` | `KeysAgree`, `OnlyDamageFails` | `NetNaClStreamProofs` |
| `TypeCorrect`, `Dangling`, `FreedOnce`, `SidesWatched` | `TypeOK`, `NoDangling`, `NoDoubleFree`, `EverySideWatched` of `Proxy` | `ProxyProofs` |
| `PollOutFits`, `HalfClosed`, `GivenUp` | `PollOutIffPending`, `HalfClosedHasWork`, `GivenUpIsClosed` | `ProxyProofs` |
| `Success` | success means a signal or `PROXY_MAX_EVENTS` | `ProxyProofs` |
| `StreamsIntact` | `StreamIntact` | `ProxyStreamProofs` |
| `LeaksOnlyThere` | `LeaksExactlyWhenFull` | `ProxyStreamProofs` |

The assumptions are those named in the modules (`MaxEventsAssumption`,
`ClientAssumption`, `SocketsAssumption`, `ProxyAssumption`, `NetNaClAssumption`,
...), which TLC evaluates in the runs. Two of them say little but are needed: the
null pointer is no connection (`NULL \notin ConnIds`), and `poll()` may leave a
descriptor without a report (`{} \in Reports`). Inductive invariants were checked
by TLC on the instances of `data` and `control` before they were proved.

### The event manager

`EventManagerProofs`, for every `MAX_EVENTS` in `Nat \ {0}`, every set of
natural numbers as descriptors, all callbacks (never `NULL`), data, masks and reports:

* `Inductive`: `Spec => []IInv` with `IInv == TypeOK /\ TableCoherent /\ CapacityExact`;
* `TypeCorrect`, `Coherent`, `Capacity`: its three parts.

None of the parts is inductive alone. `event_add` tests the capacity by
*equality* with `num_events`, so that `max_idx` stays within the arrays depends on
the count being exact: without holes `num_events = max_idx`, hence an insertion
at `max_idx` happens only below `MAX_EVENTS` (lemma `InsertIdxFree`). The count is
exact only if each removal clears one element in use, that is, if no descriptor
has two elements and the two arrays agree (otherwise `get_idx_from_fd` fails its
assertion). That holds because `event_add` looks the descriptor up first, and
an element free for insertion has no old report because `event_remove` clears it
(`UnusedClean`). One lemma per operation (`AddGood`, `ModifyGood`,
`RemoveGood`, `FillGood`, `ClearGood`) states what it does to a good table;
`NextIInv` takes one case per action.

`EventRegistryProofs`: `Refinement`, `Spec => ImplementsRegistry`. The mapping takes
the registry from the elements in use and the outstanding reports from those the
walk has not reached (`absReg`, `absReady`). One lemma per action shows that it is
a step of `EventRegistry` or leaves the registry alone: `InsertReg`, `ModifyReg` and
`RemoveReg` say what an operation does to both, wherever the walk is. That a
callback's insertion into a hole *ahead* of the walk carries no report is
`UnusedClean`; that a removal which shrinks `max_idx` skips nobody holds because
every element behind the new end is free. `RInv` adds to `IInv` that no callback is
in progress outside one (`call`).

### The address cache

`AddressCacheProofs`, for any addresses, answers (non-empty lists) and age limit:

* `Inductive`: `IInv == TypeOK /\ OnlyCachedIsLive /\ CachedIffSocket`;
* `NoListLeak`: the only allocated list is the cached one;
* `CacheIsLastSuccess`: a list is cached exactly when it gave the last caller a
  socket, whatever became of that socket later.

The type part is needed because the identity of a new list must differ from the
cached one, and because the outcome of `connect_to_server` is one of three only
for a list in `Answers` (`ConnectOutcome`, by the least element of a set of
naturals). `CachedIffSocket` needs no freshness but needs that `"fail"` is never the
outcome of a used list.

### netnacl

`NetNaClProofs`, for all sizes of key, header, padding and message whose sum 16
bits can count, any window, any faults of the model and any values of a damaged
length field:

* `ArraysHold`: `Spec => []TypeOK`. `TypeOK` is inductive as it stands, because it
  says of *every* byte, on the wire too, that it belongs to a message of legal
  length (`Sound`), and of a length that arrived undamaged that it is the sender's
  (`HeaderFits`): that `recv_pt` is large enough rests on what the other end sent
  earlier. Of `recv_ct` it says that it is left by an `"overrun"` end and no other:
  the code has no comparison that could give more. `GoodContext` is the part about one `netnacl_t`; one lemma per helper
  (`HeaderGood`, `CtInFits`, `GatherGood`, `DecryptGood`, `CopyGood`,
  `PreparedGood`, `SendGood`, `PairGood`, `KeyedGood`) shows that it is kept, the
  step lemmas (`WrapStep`, `SendStep`, `RecvStep`, `CorruptStep`, ...) add the wire
  (`TransferGood`) and the caller's buffers.
* `OverrunDamage`: no more is received than the length says, and a length that was
  not damaged is that of a message, so `recv_ct` is left only after damage of the
  length (`OverrunDamaged`).

`NetNaClStreamProofs`, under the same assumptions:

* `StreamsAreFrames`: `Spec => []StreamInv`. Of one direction, what the receiver
  holds of a frame it has not completed, what is on the wire and what the sender
  has not sent yet make up one stream (`StreamOf`), and that stream is a sequence
  of whole frames, the key first (`Framed`). Each `send()` and `recv()` moves a
  boundary in the stream and leaves the stream alone (`SendMove`, `RecvMove`);
  encrypting appends a frame (`StreamAppend`); completing a key or a message drops
  one (`StreamDropKey`, `StreamDropMessage`); damage changes a byte of a message and
  no boundary (`StreamDamage`), and a receiver that was misled by a damaged length
  drops no frame, since what it holds never opens (`OpenedIntact`, `OverrunStays`). A new key pair replaces the key frame, which is
  possible only while no byte of it is out (`PairLink`).
* `KeyAgreement`: an end that has finished holds the other's public key, because a
  complete `peer_pk` is the frame of the sender's key and the sender no longer
  changes it (`StreamOK`, `SharedKey`).
* `DamageOnly`: what the receiver holds when header and ciphertext are complete is,
  if its length was not damaged, one frame (`WholeIsFrame`), boxed with the
  sender's key (`ByteInv`), so that it opens or holds a damaged byte
  (`OpensUndamaged`).

Without the boundary part neither is inductive: that a resumed header and its
ciphertext belong together follows only from all bytes still to come.

### The proxy

`ProxyTableProofs` replaces elements, holes and `max_idx` by a view: which
descriptors are `Watched`, and with which mask, callback and connection (`MaskAt`,
`HandlerAt`, `DataAt`). One lemma per table operation (`AddView`, `ModifyView`,
`RemoveView`, `FillView`) says what it does to the view; `Same` and `Outside` say
what it leaves alone.

`ProxyProofs`, for every table size, buffer size, number of clients and
descriptors, every mode and every set of failures: `Inductive`, `Spec => []IInv`.
Its core is `ConnInv`, about one live connection:

* `Owned`: its descriptors are its own sockets and no other socket is;
* `Opening` (only the server's socket is watched, by `pending_connect_callback`,
  `ref` is 0) or `Serving` (every socket is watched, `ref` is 2);
* `BufOK`, `MasksFit`: a buffer with nothing left to send was reset, and `POLLOUT`
  is asked for exactly while there is something to send;
* `HasWork`: a side that is gone left data for the other.

`Owners` is the converse: every watched descriptor is the listener's or a live
connection's. `Fresh` keeps connections to come apart; `Listener` says that the
listener is element 0 and that a report on it means a client waits, without which
`accept()` could not be assumed to return one. A callback changes one connection:
`Touches(c, F)` says that it leaves every other context and every descriptor
outside `F` alone, and lemma `OneConn` concludes once for all callbacks that the
other connections keep `ConnInv`. What remains is one lemma per callback about its
own connection. The theorems of the table above follow from `IInv`, except:

* `FreedOnce` counts: `Teardown` calls `free_connection` once per element that holds
  the context, and there are no more of them than the calls that free it: one for
  `Opening`, at most two for `Serving` (`HoldingBound`);
* `GivenUp` is about a step: only `close_connection` takes a live context away while
  the loop runs (`FreesSockets`), and afterwards `Owners` leaves no element for it;
* `Success` needs `EndInv`: which codes can end the loop (`CallbackCodes`), through
  layers whose codes share numbers. It is not `SuccessMeansSignal`, which the run
  `exit_status` refutes: it says that `PROXY_MAX_EVENTS` is the only exception.

`ProxyStreamProofs`: `StreamsIntact` from `SInv`. Of a live connection, `Flow` is
the statement itself; to be inductive it needs `KeyOrder` (an encrypted socket holds
the peer's key first and once, a plain one never, so that what `handle_recv` takes
is data) and `HandlerFits` (`conn_callback` serves a side only after its keys are
exchanged). Reading splits the unread bytes at a boundary of `ends` and at
`BUF_SIZ` and loses nothing (`ReadSplit`), sending moves a prefix of the buffer
(`PendingAdvance`, with netnacl's whole messages in `SentBytesBound`), arriving bytes
extend both sides (`ArriveData`). `StreamsKept` and `TouchedStream` are the
counterparts of `OneConn`.

`LeaksOnlyThere` takes both directions of `LeaksExactlyWhenFull`, for every table
size. Only `handle_accept` gives a socket a peer (`NextStay`), and it keeps the
connection exactly when the table has one free element for a connect in progress,
two otherwise (`AcceptKeeps`, from `AddBothRoom` and `AddBothNoRoom`: the count is
exact, and capacity is tested by equality with it). A socket of a live connection
stays with it or is closed by the step that gives the connection up
(`HeldStays`, by `FreesSockets`).

### Only model-checked

* `ImplementsChannel`: the mapped queue selects the last bytes of messages
  (`SelectSeq`), and what a selection computes needs induction over sequences, which
  is outside the prover. `StreamsAreFrames` is the part of the argument about
  boundaries.
* Liveness (`Delivery`, `EofCloses`, `SignalStops`, `KeyExchangeEnds`), as fairness
  and `ENABLED` are outside the prover.
* The six disagreements of section 5.

## 7. Plan

Done: sections 1 to 6. Next, in this order:

1. Proof that `NetNaCl` implements `MessageChannel`, with a mapping that needs no
   selection: the messages of a stream of whole frames, numbered.
2. An abstract `Relay` (per connection: two queues, open or closed) and `Proxy`
   shown to implement it, where no violation is known; `SInv` is its invariant.
3. `AddressCache` composed with the accept path of `Proxy`.
4. Two proxies in a chain, the inner link encrypted: end-to-end delivery.

## 8. Not modelled

* TweetNaCl: vendored arithmetic; `crypto_box_open_afternm` and its companions
  are external operators of `NetNaCl`. Logging and macros: output only.
* `getsockopt()` itself failing in `pending_connect_callback`; the texts of
  addresses and ports; `getopt()` itself.
* What the program does after it has written behind `recv_ct`, and keys that no
  `netnacl_wrap` wrote: a peer that speaks another protocol is outside the model.
* A peer that never sends its key holds its connection for ever; no deadline
  exists in the code, and none is promised.
