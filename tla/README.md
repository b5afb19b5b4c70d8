# Protogate in TLA+

Protogate is a tunnel server: an agent inside a private network dials the
server over TLS and keeps the connection open; the server sends the HTTP
requests and the TCP connections of public clients down that connection and
returns what the agent answers. This directory holds TLA+ models of the server
and of the agent, the TLC configurations that check them on small instances,
and proofs for every size of the system.

All paths below are relative to the repository; `agent_connection.cpp` and the
like are under `src/src/`, the agent under `src/tunnel-agent/src/`.

## 1. Inventory

| Component | State it keeps | Operations | Used by | Hard behaviour | Correct when | Status |
|---|---|---|---|---|---|---|
| `AgentRegistry` (`agent/`) | `agents_`: tunnel id to connection, behind one `shared_mutex`; `max_agents_` = 50 | register, unregister, get, is_connected, is_full, shutdown | handshakes, connections, API, proxies, `main` | callers check and act in separate critical sections; `shutdown()` calls back into itself | bounded; lists no finished connection; never replaces a listed agent; a shutdown completes | modelled |
| `AgentServer`, `AgentHandshake` (`server/agent_server.cpp`) | one posted accept; per socket the progress of TLS and authentication | accept, capacity check, TLS, token, duplicate check, 200, register, start | `main`, agents | stale capacity decision; ignored result of register; late registration | every authenticated handshake is decided, in the order authenticate, register, start | partly |
| `AgentConnection` (`agent/`) | `state_`, HTTP/2 session, `pending_requests_`, `stream_to_request_`, timers | start, read handler, send_http_request, complete_request, timeout, close, handle_disconnect; TCP frames | proxies, registry | called from many threads, only two maps are locked; close from inside callbacks | each callback called once, with its own response; nothing waits for ever | partly |
| `HTTPProxy`, `HTTPServer` | none of their own; request id from the clock | host match, allowlist, is_connected, route_to_agent | clients | ids unique only per second; order of a hash map | the request goes to the tunnel its host names; the client gets its own response or an error | modelled / partly |
| Management API (`api/tunnels_handler.cpp`) | `tunnel_cache`, `token_cache` | create, list, get, delete, rotate | administrators | several unsynchronised steps per request | a token has one name; a listed tunnel keeps its newest; what is refused stays refused | modelled |
| Cache, `TokenValidator` | map with expiry; token hashes | get, put, remove, validate | handshake, API | rotation with a grace period under a second key; expiry in between | the newest token and, for its grace period, the one before are kept; what is kept lets the agent in | modelled |
| `TCPProxy`, `TCPServer` | connections, windows, port cache, counters | accept, open, data, close, errors | clients, agents | windows that never reopen; lost close callbacks; overlapping writes | bytes in order; the end of a client is noticed | modelled |
| TCP frame protocol | none | serialise, deserialise | TCP proxy, agent | byte order; frames cut by reads | parsing inverts serialising; whole frames only | modelled |
| `TunnelRegistry` | cache, backup thread, backup file | register, update, remove, save, load | tests | crash and concurrent saves; entries that expire at once | a backup holds what was registered | modelled |
| `RateLimiter`, `IPAllowlist` | buckets; CIDR entries | allow, check, set; validate | tests; proxies | integer edges | never more than burst and rate; exactly the addresses of the blocks | modelled |
| `TLSManager` | certificates and contexts by domain, a default | load, reload, choose | servers | contexts copied at different times | the newest certificate of the host | partly |
| `main`, `IOContextPool` | signal flag; one `io_context` and thread per slot | boot, wait, stop in order | everything | the io threads still run during shutdown; nothing catches in them | | partly |
| Tunnel agent: `main.cpp`, `HTTP2Session`, `TLSClient`, `HeartbeatManager`, `ReconnectionManager` | flags `running` and `active_`, the session, timers, the delay | dial, authenticate, serve, heartbeat, stop, dial again | the other end | two threads and a signal share flags; a request blocks the io thread | no dead session is used; every end is noticed | modelled |
| Tunnel agent: forwarders | connections to the local service, pending data | HTTP: one blocking call; TCP: open, data, close | session | data before the connection is there; freed buffers | bytes in order | partly |
| `Router`, `ProtocolMultiplexer` (but its frames), `HealthServer`, observability, models, config, `KeyVaultClient`, deployment | | | | | | not modelled, see section 7 |

How they interact: `main()` builds everything and gives each server the
`IOContextPool`, in which every `io_context` has exactly one thread. A socket
is bound to one `io_context`, so the handlers of *one* connection never run
concurrently; handlers of different connections do. `AgentServer` creates an
`AgentHandshake` per socket, which asks `TokenValidator` and `AgentRegistry`,
then builds an `AgentConnection` and registers it. `HTTPServer` calls
`HTTPProxy` on the thread of the *client's* socket, which looks the agent up in
the registry and calls `AgentConnection::send_http_request()` there, while the
responses are read on the thread of the *agent's* socket. A connection that
goes down fails its pending requests and calls `on_disconnect_`, the lambda of
the handshake, which unregisters the tunnel id. TCP clients reach
`TCPProxy` through `TCPServer`; it writes frames straight onto the agent's TLS
stream, beside HTTP/2, and both ends tell the two apart by the first byte of a
read. The agent has two threads per session: `run_agent()` watches two flags,
and the io thread runs the session, its heartbeat and the forwarders.

At this commit `main()` does not create `TunnelsHandler`, `Router`,
`TunnelRegistry`, `TunnelRateLimiter` or `ProtocolMultiplexer`; only tests do.
The management API is modelled against the registry and the caches it is
written for, and the others on their own.

## 2. Modules

| Module | What it is |
|---|---|
| `AgentDirectory` | abstract: what the registry promises (claim a free tunnel, vacate, wipe) |
| `AgentSessions` | detailed: registry, accept, handshake, life of a connection, create/delete of tunnels, shutdown, restart |
| `RequestReply` | abstract: what a client is promised (one reply, its own response or an error) |
| `RequestTracking` | detailed: HTTP requests in flight on one agent connection |
| `ByteStream` | abstract: one direction of a TCP connection, bytes in order until the stream is spoilt |
| `TCPTunnel` | detailed: TCP connections from the client through both programs to the local service and back |
| `TokenLedger` | abstract: which token of a tunnel is kept as its own and which for the grace period |
| `TokenStore` | detailed: the two caches under concurrent API requests, expiry, authentication, ports |
| `AgentLife` | the agent: dial, session, heartbeat, backoff, signal; main thread against io thread |
| `TunnelRegistry` | configurations, backup thread, saves, crash and load |
| `TCPFrames` | operators: every frame format, its writers and its readers |
| `IPAllowlist`, `RateLimiter`, `TunnelMatch` | operators: CIDR entries; token buckets; choice of a tunnel and of a certificate |
| `Powers` | operators: a power as a product, for shifts and places |
| `Algorithms` | composes the operator modules and states each against its reference |
| `AgentSessions_proofs`, `RequestTracking_proofs`, `AgentLife_proofs`, `TCPTunnel_proofs`, `TokenStore_proofs` | types, safety invariants and refinements of each, proved |
| `TunnelRegistry_proofs` | what a backup holds, proved |
| `Folding` | what a left fold computes, for any step; instantiated with the step of each loop |
| `Algorithms_proofs` | all the algorithms, for every input that the assumptions of `Algorithms` allow |
| `MC...` | values for TLC, one per module that is run |

Two compositions happen within a module rather than by `INSTANCE`, because the
parts share state: `TCPTunnel` is the server's proxy, the agent's forwarder and
the link between them; `TokenStore` is API, validator, cache, registry and port
table. `Algorithms` runs `HandleRequest` of `TunnelMatch` on the allowlists of
`IPAllowlist`, and the frames of each writer through the reader at the other end.

`PROJECT.json` maps each definition to the lines it models. Definitions whose
names begin with `Faulty` are not part of the models: they are plausible bugs,
kept beside the definition they replace, that show each checked property can
fail.

### AgentSessions

One action is what one thread does between two accesses to shared state; a
call under the registry mutex is one action, and its guard `RegistryFree` says
that `shutdown()` does not hold the mutex.

| State | Code |
|---|---|
| `agents` | `AgentRegistry::agents_` |
| `accept` | the decision taken when `async_accept` was posted: `do_accept()` asks `is_full()` then, not when the socket arrives |
| `phase`, `tunnel`, `seen` | progress of an `AgentHandshake`, the tunnel its token named, the pointer `is_connected()` got before it looks at `state()` |
| `state`, `closing` | `AgentConnection::state_`, and how far `close()` and `handle_disconnect()` got |
| `tunnels`, `tokens`, `api` | keys of the two caches, and the progress of a create or delete request |
| `server` | progress of `main()`: running, shutting down, crashed |

Abstractions. A read is enough to authenticate or it is not (`Validate`,
`Unauthorized`, `HandshakeFails`): the headers are not parsed character by
character. A token is the tunnel it opens; which tokens open
which is `TokenStore`'s, and that `extract_token()` accepts none of the API's is what
`tokens_refused` shows: here any may be accepted. There is one management
request per tunnel at a time. `X-TCP-Ports` fills a cache for the TCP
listeners, which `TokenStore` has; here it matters that `std::stoi` of it may
throw between the lookup and the 200, which ends the process (`PortsThrow`).
`AcceptFails` is an accept that ends with an error: the next one is posted with
a new decision. `AgentConnection::close()` is entered by one thread here;
`RequestTracking` splits it. A finished socket object is used again (`Redial`)
once no handshake still points at it, as `shared_ptr` ensures. Two places
where the code relies on freed memory (`this` of a finished handshake in
`on_disconnect_`, the deleted session after GOAWAY) are modelled as: the
process dies, or goes on as if nothing had happened. `Restart` is the container
starting the process again: the registry and the caches are in memory only.

### RequestTracking

One agent connection, its io thread `Io`, and requests each on an HTTP thread.
`pc` follows a request through `route_to_agent()` and `send_http_request()`;
`io` follows what the io thread of the agent runs, a read handler or the
heartbeat; timers run there too, between the others. `closing` follows `close()` on *each* thread,
because a failed send calls it on an HTTP thread and `state_` is read there
without a lock, so that two threads may both go through. `pending` and
`stream` are the two maps; every action that touches them is one critical
section of `requests_mutex_`. `queued` and `wire` are the streams submitted to
nghttp2 and not yet sent, and those sent.

Abstractions. Bodies are left out: what a response contains is whose response
it is. A stream is named after the request that opened it. The request
id is `"req_"` and `std::time(nullptr)`, so `id` is a second. Heartbeat pings
and other frames are `ReadOther`, which flushes what is queued. Garbled frames
are a failing connection (`ReadFails`). Where two threads are in the session at
once, or one calls into a deleted session, the outcome is: the process crashes
(`SessionRace`, `DeadSession`), or the steps went one after the other as if
locked. A corrupted session that lives on is not modelled. The lookup of the
tunnel by host and the allowlist come before `IsConnected`, do not touch this
state and are `TunnelMatch`'s.

### TCPTunnel

Counts data in units: byte number k of a direction is the number k, so order,
loss and duplication can be told from the values alone. The state is that of
`TCPConnection` on the server (`state`, `connections`, `accepted` = the size of
`send_buffer`, `recv`, `writes` in progress), the frames under way in both
directions, the agent's `TCPForwarder` (`fwd`, `pending`) and what each end has
sent and got. A connection is written to the agent's stream by whichever thread
has the client; two writes at once are modelled as one after the other, a frame
is one TLS record, and a read returns at most one record. The two buffer sizes
that decide something are `Window` (64 KB) and `ReadMax` (8 KB). `server` is
"crashed" after the exception of `remote_endpoint()` (`AcceptThrows`) and after
the erase of more than `recv_buffer` holds.

Where the code breaks a stream, the model marks it spoilt and `ByteStream`
promises nothing further of it: a chunk and its header too long for the agent's
buffer, a write from a freed vector, overlapping writes to the client, a full
`recv_buffer`, a second frame in one read. Everywhere else order must hold.

### TokenStore

`tunnels`, `ports` and `tokens` are the two caches with their expiry times; a
token entry has an expiry of its own besides. Up to two API requests run at a
time, each as a sequence of cache operations (`pc`, `on`, `read`), between
which time passes (`Tick`), agents authenticate and ports are resolved.
`raced` remembers the tunnels on which two requests overlapped: what holds of
them is only that a token has one name and that a refused one stays refused.
The model separates what is stored (`Seen`, `Kept`) from what is accepted
(`Extract`, `Opens`): `ListedKeepsNewest` and `ImplementsLedger` speak of the
first, `TokensHonoured` ties the second to it.
The copy of tokens in the vault is not read back and left out.

### AgentLife

`main` is where `run_agent()` is, `io` what the io thread does; the guard
`CanRun` lets one handler run at a time. `running` is the global flag, which
the signal handler and the heartbeat clear, `active` the session's. A request
is forwarded inside the read handler (`io = "forwarding"`), during which only
the main thread, the network and the clock move. A tick is one period of the
heartbeat check; ready handlers run before the next tick unless the io thread
is held. `excuse` remembers that the server was silent or the local service
slow since the last ACK. Intervals and delays are
the constants `Interval`, `Timeout`, `InitialDelay`, `MaxDelay`, of which only
the order matters that `AgentConfig::validate()` and `run_agent()` ensure.

### TunnelRegistry

A save is three steps, as in the code: the snapshot of what is visible in the
cache, the opening of the file, which empties it, and the writing. The backup
thread and other callers may save at once; a crash may come between any two
steps. The file is torn after it was opened, after a crash there, after a write
that failed half way (`WriteFails`; no exception is switched on, so the code
takes it for written), and when one save writes a shorter text over that of
another (`WriteFile`). `Start` loads what parses. `deserialize_tunnels()` also
skips single tunnels that `from_json()` rejects; registration and update
validate, so no text the program wrote has one.

### TCPFrames, IPAllowlist, RateLimiter, TunnelMatch, Algorithms

Pure operators. A byte is a number below `Base` (frames) or of `ByteBits` bits
(addresses); a connection id is one symbol; host names are sequences of labels;
time is integer and a token is `Second` parts, so no rounding is needed where
the code uses `double`. Whatever walks a hash map takes the order of the walk
as a parameter, and the properties quantify over all orders. A certificate is
the number of the answer of the vault it came with, or `Missing`. (The stub of
the vault in this repository returns a text that is no certificate, so in this
build loading always fails; the model takes any answer.)

## 3. Runs

Runs that pass:

| Run | Shows |
|---|---|
| `sessions` | `TypeOK`, `CapacityRespected`, `NoStaleEntry`, `HandshakeOrder`, that `AgentSessions` implements `AgentDirectory`, and that a dead entry of the registry has something left that removes it unless `shutdown()` hangs (`DeadEntryLeaving`), with all failures and SIGTERM at any moment; in the same runs, under fairness, a connection that begins to close leaves the registry (`DeadAgentLeaves`) and an authenticated handshake is answered 409 or starts (`HandshakeDecides`) |
| `requests` | `TypeOK`, `AnsweredOnce`, `CallbackOnce`, `OwnReply`, `Reachable`, that `RequestTracking` implements `RequestReply`, and that every request that was submitted is answered in the end, if only by its timer, unless the process dies (`EveryRequestAnswered`), when no two requests share a second |
| `tcp` | both directions implement `ByteStream` (`UpstreamInOrder`, `DownstreamInOrder`); an established connection is always being read (`ReaderAttached`); the counter never falls below the `ESTABLISHED` connections (`CounterCovers`); a connection carries at most one window in its life (`OneWindowOnly`); the end of a client is noticed (`EndNoticed`) |
| `tokens` | a token is found under one key at most, whatever overlaps (`OneNamePerToken`); a listed tunnel nobody is working on has its newest token stored (`ListedKeepsNewest`); a refused token is never accepted again, unless a rotation that had read it writes it back (`RefusedStaysRefused`); without overlaps the caches keep what `TokenLedger` says |
| `agent` | a session in use has its read and its timer (`Attended`); no handler answers into a session that is gone (`NoUseAfterStop`); the heartbeat gives up only on a server that was silent or a local service that was slow (`GivesUpOnlySilent`); a lost link, a silent server and a signal have their effect (`LossNoticed`, `SilenceEnds`, `SignalObeyed`) |
| `algorithms` | frames but DATA are read back by `deserialize()` (`FramesReadBack`); runs of OPEN and DATA are read by the agent wherever they are cut, and its own frames by the server (`AgentReadsFrames`); allowlists let in exactly their blocks (`AllowlistExact`); no more than burst and rate between any two moments (`RateHonoured`); a request is decided independently of the order of the map (`RequestsDecided`); the newest certificate that could be loaded is the one used (`CertificateFresh`) |

Runs in which TLC finds the code to contradict what the repository says of it:

| Run | Property | What happens |
|---|---|---|
| `shutdown_hangs` | `ShutdownCompletes` | `shutdown()` closes a connection under the registry mutex; its disconnect callback, on the same thread, locks that mutex again: SIGTERM with an agent registered never ends |
| `same_second` | `OwnReply` | two requests of one second share their id; the response to the first goes to the client of the second |
| `tcp_bytes` | `NoByteDropped` | `send_data()` takes what is left of the window, which nothing ever reopens; the rest of the read is dropped and reading goes on |
| `tokens_refused` | `TokensHonoured` | after one rotation the new token, hexadecimal and without the prefix `tnl_` that `extract_token()` wants, is refused; the old one, kept under `<id>:old`, authenticates for a tunnel of that name |
| `agent_ends` | `EndsOnlyOnSignal` | the heartbeat timeout clears `running`, so the agent exits instead of dialling again |
| `backup_wiped` | `BackupWhole` | the cache of `TunnelRegistry` is built with a ttl of 0: a tunnel is invisible once registered and the backup is an empty list |

`same_second` is the counterpart of `requests`: the property holds exactly as
long as ids are unique. `shutdown_hangs` and `tokens_refused` are those of
`DeadEntryLeaving` and of `ListedKeepsNewest` and `ImplementsLedger`: what the
latter leave open is what the former find. `BackupWhole` says nothing of a torn
file, from which nothing is loaded.

The models have further behaviours that a reader of the code may not expect;
they are not stated as properties of their own:

* Two handshakes of one tunnel may both pass `is_connected()` before either
  registers; the result of `register_agent()` is ignored, and both agents run.
  When the one that is not listed disconnects, it unregisters the other. In the
  same way an agent accepted while there was room runs unlisted when the
  registry is full. `ImplementsDirectory` and `CapacityRespected` say what of
  the registry survives this.
* `specs/001-tunnel-core-server/spec.md:120` lets an agent that dials in from a
  new address replace its old connection; the handshake answers 409 (`Conflict`).
* `close()` deletes the HTTP/2 session while a request may be past its check of
  `state_`, and on GOAWAY from within `nghttp2_session_mem_recv()`: both may
  end the process (`DeadSession`, `GoawayCrashes`).
* A response may arrive before `send_http_request()` has stored the callback;
  it is dropped and the client waits for the timer.
* A deleted tunnel keeps its agent connected.
* `active_connection_count_` does not count entries that a failed open leaves
  `CONNECTING` in the map; nothing in the code limits the connections by it.
* After a client's end a TCP connection with bytes in `send_buffer` stays
  `CLOSING` for good, and the counter of connections is not decremented.
* `stop()` after a heartbeat timeout deletes the session while a read is
  pending; data that arrives then is given to a null session (`LateRead`).

## 4. Bounds

* `sessions`: two agents, two tunnels (one of them made through the API), room
  for one. Two agents race for one tunnel or for the last slot while the
  connection of either goes down and comes back; a socket is reused without
  limit, so behaviours are of any length, and they are not reduced by symmetry,
  since the run checks liveness. A third agent adds a second rival and no new
  kind of step; the safety properties are proved for any number.
  `CHECK_DEADLOCK FALSE`, because the program ends (`stopped`) or hangs in
  `shutdown()` (`stuck`).
* `shutdown_hangs`: one agent and one tunnel are enough to hang.
* `requests`: two requests, with GOAWAY, `MaxSecond = 2`. Two are what ids,
  streams and callbacks can be confused between; the safety properties are
  proved for any number. `PerSecond` bounds how many
  requests the environment routes in one second and is 1 here and 2 in
  `same_second`. A request is made once and the connection does not come back,
  so the runs have `CHECK_DEADLOCK FALSE`: all requests answered, or a dead
  process, is an end. One connection is enough because a reconnecting agent
  gets a new `AgentConnection` with maps of its own.
* `tcp`: one client, which sends 3 bytes against a window of 2 and reads of 2,
  two bytes back, two sessions of the agent: the window fills, a chunk is too
  long for the agent's buffer, writes overlap, the agent leaves between any two
  steps. Connections share only the counter and the agent's stream, on which
  frames carry the id. `CHECK_DEADLOCK FALSE`: the bytes are finite.
* `tokens`: one tunnel, two API requests at a time, two new tokens and the boot
  token, `Grace < Day < Year` within a clock of 3. Tunnels share no entries.
  `CHECK_DEADLOCK FALSE`: the clock and the tokens run out. `tokens_refused`
  needs one request and no passing of time.
* `agent`: two streams, three sessions, a PING every tick and a timeout of two
  ticks, delays 1 to 4 so that the delay doubles twice and is capped.
  `CHECK_DEADLOCK FALSE`: the agent ends.
* `backup_wiped`: two tunnels, three configurations of which one is invalid, a
  caller beside the backup thread.
* `algorithms`: 142 229 samples. Bytes of 32 values, addresses of 2 and
  3 bytes of 2 bits (so every prefix, inside and at the end of a byte, occurs),
  all lists of up to two entries, all sequences of four calls on a limiter in
  four time units and of six requests, all subsets of three tunnels with three
  kinds of allowlist, all sequences of up to three loads and reloads of four
  domains, of which the second or the third may fail.

## 5. Fairness

`AgentSessions!Fairness` is weak fairness of what an io thread has ready to
run: the steps of `authenticate()` after the token was read, the steps of
`close()`, and the steps of `main()` after the signal. An `io_context` runs its
ready handlers in turn on a thread of its own, and a mutex that is free is
eventually acquired. Agents and administrators owe nothing: accepting, sending
headers, disconnecting and the API are not fair. `Disconnected` and
`DisconnectCrashes` are fair together, since it is the memory, not the
scheduler, that decides between them; so are `Conflict`, `PortsThrow` and
`Welcome`, the ways one step of `authenticate()` may go.

`RequestTracking!Fairness` is weak fairness of each request's own steps on its
HTTP thread and of the io thread's end of the handler it is in. An armed timer
is strongly fair: a `steady_timer` expires, and its handler waits in the queue
of an io thread that keeps taking other handlers, so it is enabled again and
again but not continuously. The agent need not send anything. A call on a
deleted session does not return, so it is among the steps that are fair.

`TCPTunnel!Fairness`: the steps of the proxy for a connection (`ProxyStep`) are
handlers of the client's io thread that are ready. Clients, agent and local
service owe nothing.

`AgentLife!Fairness`: the two threads take the steps they can, the timer
expires (`Tick`), a server that is there acknowledges PINGs, and `connect()`
returns if somebody answers. Nothing is assumed of the local service: the
properties except a call that hangs, since the agent has no working timeout for
it, and a handshake with a silent server, which has none either.

## 6. Proofs

Seven modules hold the theorems, each for all values of the constants of the
module it extends, and `Folding` lemmas on folds. All theorems are about the
same `Spec` that TLC runs; the fairness in it is not used.

| Module | Theorem | Statement |
|---|---|---|
| `AgentSessions_proofs` | `TypeCorrect` | `Spec => [](TypeOK /\ HandshakeOrder)` |
| | `HandshakesInOrder` | `Spec => []HandshakeOrder` |
| | `EntriesNeverStale` | `Spec => []NoStaleEntry` |
| | `CapacityNeverExceeded` | `Spec => []CapacityRespected` |
| | `DeadAlwaysLeaving` | `Spec => []DeadEntryLeaving` |
| | `RegistryImplementsDirectory` | `Spec => ImplementsDirectory` |
| `RequestTracking_proofs` | `TypeCorrect` | `Spec => [](TypeOK /\ IdOrder)` |
| | `NeverAnsweredTwice` | `Spec => [](CallbackOnce /\ AnsweredOnce)` |
| | `CallbacksOnce` | `Spec => []CallbackOnce` |
| | `IdsUnique` | if `PerSecond <= 1`, `Spec => [](UniqueIds /\ Silent)` |
| | `EveryReplyOwn` | if `PerSecond <= 1`, `Spec => []OwnReply` |
| | `AlwaysReachable` | if `PerSecond <= 1`, `Spec => []Reachable` |
| | `PromiseKept` | if `PerSecond <= 1`, `Spec => ImplementsReply` |
| `AgentLife_proofs` | `TypeCorrect` | `Spec => []TypeOK` |
| | `NeverUsedAfterStop` | `Spec => []NoUseAfterStop` |
| | `AlwaysAttended` | `Spec => []Attended` |
| | `GivesUpOnlyWithExcuse` | `Spec => []GivesUpOnlySilent` |
| `TCPTunnel_proofs` | `TypeCorrect` | `Spec => []TypeOK` |
| | `ReaderNeverLost` | `Spec => []ReaderAttached` |
| | `CounterCoversEstablished` | `Spec => []CounterCovers` |
| | `WithinOneWindow` | `Spec => []OneWindowOnly` |
| | `UpstreamImplementsStream` | `Spec => UpstreamInOrder` |
| | `DownstreamImplementsStream` | `Spec => DownstreamInOrder` |
| `TokenStore_proofs` | `TypeCorrect` | `Spec => []TypeOK` |
| | `OneTunnelPerToken` | `Spec => []OneNamePerToken` |
| | `RefusedUnlessHeld` | `Spec => RefusedStaysRefused` |
| | `CachesImplementLedger` | `Spec => ImplementsLedger` |
| | `NewestAlwaysKept` | if `MaxTime < Year`, `Spec => []ListedKeepsNewest` |
| `TunnelRegistry_proofs` | `BackupsHonest` | `Spec => []BackupHonest` |
| | `BackupsAlwaysEmpty` | if `Ttl = 0`, `Spec => []BackupEmpty` |
| `Algorithms_proofs` | `ControlFramesReadBack` | `Spec => []FramesReadBack` |
| | `FramesAlwaysRead` | `Spec => []AgentReadsFrames` |
| | `AllowlistsExact` | `Spec => []AllowlistExact` |
| | `RateAlwaysHonoured` | `Spec => []RateHonoured` |
| | `RequestsAlwaysDecided` | `Spec => []RequestsDecided` |
| | `CertificatesAlwaysFresh` | `Spec => []CertificateFresh` |

So every safety invariant, every action property and every refinement that a
passing run checks is also a theorem.

Beyond the named assumptions of the modules there are two hypotheses, besides
that of `TunnelRegistry` on its ttl, 0 as in the code.
`PerSecond <= 1` says that no two requests share a second; without it `OwnReply`
is false (`same_second`), and the callback of the second request replaces that
of the first in `pending_requests_`, so that `Reachable` fails with it. `MaxTime < Year` says that the
server does not run for the year a token lives: nothing renews a token that is
not rotated, so after that year a tunnel does lose it. The run `tokens`
satisfies it (a clock of 3 against a year of 4), as `requests` satisfies the
first.

**AgentSessions.** The inductive invariant is `TypeOK /\ HandshakeOrder /\
NoStaleEntry`; TLC checks all three in `sessions`. None is inductive alone.
`TypeOK` needs `HandshakeOrder` where `LookUp` and `Register` index the registry
with the tunnel of a connection, which is a tunnel only because the handshake is
past its token. `NoStaleEntry` needs `HandshakeOrder` because a listed
connection must not be `done` with its disconnect, and only the order start,
close, disconnect excludes that at registration; and because on `Disconnected`
the tunnel whose entry is removed is the one the connection stands under. The
capacity bound follows with a counting lemma for one entry more
(`OneMoreEntry`) and one for removals (`FewerEntries`). The refinement uses
`NoStaleEntry` to show that a connection about to be registered stands nowhere
else, which is what `Claim` demands. `DeadEntryLeaving` needs in addition
`WelcomedLive`: a connection between its 200 and its registration cannot have
been closed, because `shutdown()` closes only what it finds in the registry. It
claims nothing of the hang of `shutdown()`, in which a dead entry stays: that
state is what `shutdown_hangs` reaches.

**RequestTracking.** `AnsweredOnce` alone is not inductive: a step that calls a
callback must know that it was not called before. `CallbackOnce` says so of what
is stored (each entry is uncalled, under its own id and so stored once) and of
requests that have not reached the store; it holds whatever ids collide.
`OwnReply` needs in addition that ids are unique (`UniqueIds`): then the way from
a stream through its id leads to a callback of the same request. `Silent` ties
calls to replies, so that a first call is a first reply, which is the step of
`RequestReply`. `Reachable` follows from the same facts: whatever erases an
entry calls it, and whatever stores one stores it under an id that is its own.

**AgentLife.** `Attended` rests on `Watching`: while the main thread polls, the
link is there or lost, the timer runs, and a read is pending unless a request is
being forwarded. `GivesUpOnlySilent` rests on `Punctual`: while there is no
excuse the last ACK is at most as old as the last PING, and when a PING is due
it is about to be sent or under way; `GiveUp` needs an ACK as old
as `Timeout`, which is more than `Interval`. A slow local service excuses like a
silent server, and the theorem says nothing of how long either took. `Leaving` says that an agent that gave up starts
no session.

**TCPTunnel.** `Accounts` relates what a client sent, what was read and what
`send_buffer` took: until the window is full, all that was read was accepted.
`AllCounted` extends `CounterCovers` to connections inside
`create_connection()`, which are counted but not yet stored; entries left
`CONNECTING` by a failed open are neither in it nor in the theorem. `AllWindowed` puts
what was delivered, what waits at the agent and the DATA frames under way into
one order below `accepted`; then `OneWindowOnly` is its first conjunct.

That each direction implements `ByteStream` (initial states map
to initial states, a step to a step or a stutter) is shown for every number of
connections, bytes, windows and agent sessions. Upstream, `UpHolds` says of each
connection: TCP_OPEN is under way at most once and before its data; a connection
it announced, or that the forwarder has, has an agent; and unless the stream is
spoilt, what the local service got is the beginning of what was sent, what waits
continues it, and no byte up to `accepted` is missing among the frames under way
(`Ordered` and `Covered`). So the first frame, when it arrives, continues what
was delivered: `UpGrows` and `UpDelivers`. Downstream, `DownHolds` adds that the
local service says nothing before it is connected (`NothingFed`) and that the
buffer to the client is empty or one write of all of it is under way
(`WholeWrite`): a second write would spoil the stream. TLC checked `UpHolds`
and `DownHolds` as invariants with the constants of `tcp` before they were
proved.

**TunnelRegistry.** Two results say what `backup_wiped` comes from. The
invariant follows a configuration from the cache through the snapshot into the
file: each holds what was due and nothing else (`Cached`, `Snapped`, `Stored`),
and nothing at all with a ttl of 0 (`Holds`). So no order of overlapping saves,
failed writes and crashes makes a file that is read back with a tunnel that was
not registered (`BackupsHonest`), and with the ttl of the code no order of steps
puts a tunnel into a file at all (`BackupsAlwaysEmpty`). `Ttl` and the bound
`MaxTime` are natural numbers in both; the module is part of no run that passes,
so that its theorems say so themselves.

**TokenStore.** `Provenance`: every stored token, and every token a rotation has
read, was issued for that tunnel, and no token was issued for two. `Replaced`:
the token in use is not the one kept under `:old`. With these a token stands
under one key (`OneNamePerToken`), also when requests overlap, and one that is
refused has left both keys or expired in both caches (`RefusedStaysRefused`).
For tunnels whose requests never overlapped, `Alone` (one request at a time) and
`Newest` (the token in use was issued last, the one a rotation replaces just
before) give the refinement of `TokenLedger`, and `Backed` (a listed tunnel's
token lives at least as long as the tunnel, or longer than the run)
`ListedKeepsNewest`. All but `RefusedStaysRefused` are about what the caches
hold; none says that `extract_token()` lets a token pass.

**Algorithms.** The invariants speak of one sample, so that nothing has to be
strengthened: `Sampled` says that the sample is one of the inputs, and the rest
is a theorem about operators. These are loops, over inputs of any length. Two
things had to be got around. The provers cannot instantiate an induction theorem
that takes a predicate: a set of counterexamples has a least element (`LeastOf`,
from the well-foundedness of the naturals), which the step of the loop refutes.
And they do not know that a recursive function exists: `Folding` shows it of the
function that `FoldLeft` chooses, with the step as the constant `Op`, and gives
the equations of the fold; `HistoryExists` and `ReadsExists` show it of the
recursions of `RateLimiter` and of `process_tcp_frames()`. `Algorithms_proofs`
instantiates `Folding` with each loop: digits of a number, factors of a power,
headers, tunnels walked, loads, reloads, frames written.

* *Numbers.* `Power` is a product (`Powers`), since the provers know no law of
  `^`. `NumberOfBytes` and `BytesOfNumber`: the bytes of a number that fits them
  give the number, and the other way round; so swapping twice on one side, or
  once on either, changes nothing (`NetTwice`).
* *Frames.* `Stands(t, bs, i)` says that the bytes `t` are found in `bs` from
  place `i` on. Each writer puts its fields at the places where the reader looks
  (`OneField`, `TwoFields`, `TwoFieldsAndText`), and a beginning of the bytes
  that is long enough has them there still; a shorter one is refused. For the
  agent, `Cuttable(f, bs)`: with anything behind it `bs` is cut out whole, and a
  beginning of it waits. `FramesHandled` goes through the bytes that arrived
  from the last complete frame backwards: from the place behind frame k the loop
  handles those that follow and stops where the next is not complete.
* *Allowlists.* `SameBlock`: comparing whole bytes and then the high bits of one
  byte is comparing the quotients of the two addresses by the size of the block;
  `ValueHigh` and `ValueInjective` say so of the digits of a number.
* *Requests.* Ids have one label, so at most one tunnel of the map matches, and
  every walk over a finite map meets it (`WalksAll`, `MatchesNamed`).
* *Certificates.* `HoldsNewest`, after each load or reload: the known domains
  are those that were loaded, each has the version of the last good call for it,
  and the default is the version of the last good call while one was known.
* *Rates.* `Spent` says, after each call of a run of `allow_request()`: the
  tokens taken and those left are at most the burst and what the rate gave since
  the first call.

The assumptions say what an input is, TLC evaluates them on the samples, and
the code ensures them. `FramesAssumption`, `MuxSendsAssumption`,
`RepliesAssumption`: a field is as wide as the integer type it has in the code,
and a text or payload is shorter than its length field can say (a payload is one
read; at this commit no program writes the error frames with a text, whose
length the code cuts to 16 bits without a check). `FlowsAssumption`: besides, the
server writes OPEN with port 0 always and a DATA of at most one read of 8 KB,
which is below the 64 KB the agent believes. `CallsAssumption`: the moments of
the calls do not decrease, as `steady_clock` is read under the mutex.
`ClientsAssumption`: an address has the bytes `inet_pton()` gives.
`RequestsAssumption`: the map of tunnels is finite and its ids have no dot, as
`Tunnel::is_valid_tunnel_id()` demands (lower-case letters, digits, hyphens). `LoadsAssumption`: a certificate is
for a name that is not empty.

Only model-checked:

* All liveness (`DeadAgentLeaves`, `HandshakeDecides`, `EveryRequestAnswered`,
  `EndNoticed`, `LossNoticed`, `SilenceEnds`, `SignalObeyed`): the prover does
  not reason about fairness and `ENABLED`.
* The six properties TLC finds violated are facts about single behaviours and
  have nothing to prove.

No module declares a RECURSIVE operator.

## 7. Not modelled

Coarser than the code:

* `TCPTunnel!Opened` is one step, from the insertion in `create_connection()` to
  its callback within `send_tcp_data()`. In between the connection is in the map
  and `CONNECTING`; an answer of the agent that overtakes the callback is handled
  after it here.
* `TCPTunnel!SendFails` is the write error on a connection that is still
  `CONNECTED`: `agent = "broken"` is a socket that has failed and whose failure
  the server has not read yet. An error on a socket that goes on working is
  left out.
* `RateLimiter!Refill` is exact, where the code computes with `double` from
  truncated microseconds: it may lose a fraction of a token at each call.

Left out:

* The clock of the server's heartbeat and of the request timer: both may fire
  at any time after they were set.
* Contents of HTTP messages: bodies (production sends none to the agent and
  cuts those it receives to one buffer), header rewriting, the text of replies
  and the lifetime of their buffers.
* `Router`: dispatch of a method and a path to the first handler whose pattern
  matches, without state. `HealthServer`: one blocking read and one reply.
* `KeyVaultClient`: a stub of a service; its answer is an input of the models.
* `TLSManager`'s auto-reload timer, which `main()` never starts, and the TLS
  `Connection` of `HTTPServer`, which it never creates.
* `ProtocolMultiplexer` beyond its frames: its HTTP/2 side is a stub.
* Observability: nothing reads it back to decide anything. Models and
  configuration: data and its validation; where the outcome matters
  (`Tunnel::validate()`, `AgentConfig::validate()`) it is an input or an
  assumption.
* Data races on plain variables (`port_to_tunnel_`, `state_`, the nghttp2
  session) are modelled as steps in some order or as a crash, never as a
  corrupted object that lives on.

## 8. Plan

Proved are all safety invariants, action properties and refinements that pass.
What is left:

1. The clocks of the server's heartbeat and of the request timer, which are
   free in the models.
2. The contents of HTTP messages: the header lines that the proxy and the agent
   rewrite, and the bodies that are cut to one buffer.

The runs stay few: a new run replaces a weaker one where it asks a better
question.
