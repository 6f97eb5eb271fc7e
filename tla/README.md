# A TLA+ development of awsocks

awsocks is a SOCKS5/HTTP proxy that tunnels traffic to an EC2 instance over SSH
over an AWS SSM session, and optionally runs a small VM whose network it uses as
well. This directory models the parts of it whose correctness depends on the
order of events, checks them with TLC and proves theorems about them with TLAPS.

Line numbers below and in `PROJECT.json` are those of the files under `src/`.

## 1. Inventory

| Component | State | Operations | Talks to | Hard behaviour |
|---|---|---|---|---|
| `datachannel` sending half (`channel.go`) | `sendSeqNum`, `pendingMessages` (under `mu`), `outgoingBuffer` (under `outgoingMu`) | `SendInputData`, `processAcknowledge`, `checkAndResend`, `Close` | WebSocket, `dataBridge` | three critical sections per send; resend races with acknowledgement and eviction |
| `datachannel` receiving half | `expectedSeqNum`, `incomingBuffer`, handshake flags, callbacks | `ProcessMessage` and its handlers, `StartReceiving` | SSM agent, `Backend` callbacks | reordering, repetition, handshake against early data, late handler, close against disconnect |
| `ssm.Backend` (`backend.go`, `data_bridge.go`) | `state`, `stateNotify`, `bridge`, `dataChannel`, `sshClient`, `ctx` | `Dial`, `OnCredentialUpdate`, `connect`, `tryConnect`, `connectSSH`, `monitorConnection`, `handleDisconnect`, `triggerReconnect`, `cleanup`, `Close` | `DataChannel`, SSH, AWS, EC2 | lock-free state machine shared by many goroutines; retries; lost wake-ups |
| `mux.AgentMux` / `MuxConn` | `pending`, `conns`, per-connection `readBuf`, `pongCh`, `ctx` | `Dial`, read loop, ping loop, `Read`/`Write`/`Close`, `SendShutdown`, `Close` | VM agent over vsock | one read loop for all connections, back-pressure, half-open transport |
| `agent.Agent` | `connections`, `ctx` | `Run` and its handlers, `dialAndConnect`, `readLoop` | `AgentMux`, targets | crossing closes, blocking target |
| `protocol` | none | framing | both of the above | none beyond whole-frame writes |
| `proxy.Manager`, `IdleTracker` | `awsInitialized`, `initDone`, `initErr`, `backend`, timer | `Start`, `EnsureInitialized`, `suspend`, `Stop`, `Touch` | dialers, backend, EC2, credentials | channel closed and replaced under waiters, suspend against requests |
| `proxy.ProxyDialer` | active backend, router | `Dial` | manager, router, DNS, mux | judges the initialisation by one channel and waits on another, fallback |
| `dns` | a cache per rule, singleflight | `Resolve`, `Invalidate` | dialer, backend | stale answer cached after an invalidation, eviction, TTL limits |
| `credentials.Provider` | last credentials, timers, one-slot channel | load, retry, refresh | manager | timers shared without a lock, retry that stops rescheduling, blocking send |
| `routing`, `config` | none (pure) | route, merge | dialer, main | rule order, precedence of four layers |
| `ec2`, `awsapi` | instance state | start, stop, wait | manager | calls that end either way |
| SOCKS5, HTTP servers, `vm`, `ui`, `log`, `clock`, `cmd` | little | I/O | everything | none of their own |

What makes them correct: the data channel is an ordered, reliable stream in each
direction; the backend has one connection attempt at a time, ends each of them,
and notices dead tunnels; a `Dial` always returns; a stream over the VM link has
no gap; what is closed on one side is closed on the other; a connection that is
held while AWS is initialised is released, over the route that the configuration
gives it and over the backend that is open; no DNS answer outlives its TTL or an
invalidation; credentials are renewed before they expire and reach the backend.
The full list of
hazards, each at its line, is in `PROJECT.json`.

## 2. Modules

| Module | What it is |
|---|---|
| `OrderedStream` | abstract specification: items are consumed in order, once, and all of them while the stream is open |
| `DataChannelSend`, `DataChannelRecv` | the two halves of `DataChannel`; the second implements `OrderedStream` |
| `DataChannelSendProofs`, `DataChannelRecvProofs` | inductive invariants and theorems |
| `Backend`, `BackendProofs` | the connection state machine of `ssm.Backend`, and its theorems |
| `MuxProtocol` | messages and link shared by the next two |
| `AgentMux`, `VMAgent` | the host's and the VM's end of the VM link |
| `AgentTunnel`, `AgentTunnelProofs` | their composition over one link, its properties and theorems |
| `Routing` | `Merge` of the configuration, and the router's decisions, as pure operators |
| `ProxyManager` | start-up, lazy initialisation, idle suspend and Stop |
| `ProxyDialer` | the dialers over the manager; both together are one specification |
| `ProxyProofs` | its two inductive invariants and theorems |
| `MergeProofs` | the operators of `Merge` against its comment, as a theorem about the proxy |
| `DnsResolver`, `DnsProofs` | resolutions, shared lookups, caches, invalidation; theorems |
| `Credentials`, `CredentialsProofs` | the provider with its timers, and its theorems |
| `MC...` | symmetry and the instances that need it |

**DataChannelSend.** `pc`/`mine` say where each sender is in `SendInputData` →
`sendMessage` → `addToOutgoingBuffer` → `ws.SendMessage`; each unlock is an action
boundary. `rpc`/`rmsg` are the scheduler and the copy of the front entry that
`checkAndResend` takes before it releases `outgoingMu`; `apc`/`amsg` the receive
goroutine between its two critical sections in `processAcknowledge`. The WebSocket
write cannot fail while the socket is open. The network loses up to `MaxDrops`
messages or acknowledgements and delivers the rest in any order. `written` and
`evicted` are history.

**DataChannelRecv.** One receive goroutine, so `pc` is a single place. The agent
numbers its messages: handshake request, handshake complete, then data. Only
kinds in `Unreliable` are lost, repeated or overtaken. The loop in
`processOutputMessage` that collects the run of buffered messages is one critical
section and one action; the deliveries after it happen without the lock, one by
one.

**Backend.** One action per access of a shared variable: `state` and `sshClient`
are atomics, `bridge` has its mutex, `dataChannel` is a plain pointer. Goroutines
are taken from the pool `Procs`; a `connect` goroutine becomes the monitor it
spawns, since it ends there. A connection attempt is an element of `Conns` (its
`DataChannel` and its session), its n-th SSH handshake a pair `<<c, n>>` (the
`net.Pipe` and the client over it). Both are reused once nothing refers to them.
`setState` is two steps, the store and the broadcast. A step of `tryConnect` that
fails is followed by its cleanup in the order of the code: `AbandonAttempt` takes the
bridge away, `HangUp` closes the channel, `TerminateSession` ends the session. The
faults are a WebSocket that drops (`drop`), a close by the service (`remote_close`),
an SSH connection that ends over an open channel (`ssh`) and one that goes silent, so
that a keepalive is not answered (`stall`). Pauses are left out, with one exception:
`early[p]` holds those who had a connection and had not announced it when `p` began
the pause before its next attempt, and `NextAttempt` waits for them, because the ten
seconds of that pause (`backend.go:553`) are longer than the half second in which
`tryConnect` waits before it announces a connection. There is no such wait after the
last attempt, which fails and sets the error at once, at any moment of another
goroutine's half second.

**AgentTunnel.** `AgentMux` has the calls of `Dial`, the read loop (`rl`), the
ping loop (`pl`) and one client per connection; a handler of the read loop is
split where it releases `pendingMu` or `connsMu`. `VMAgent` has `Run` and, per
connection, the goroutine that dials and then relays. The link is a FIFO in each
direction with `LinkCap` frames of room; a write waits for room, since no deadline
is ever set. `cut` breaks the link for both sides; `wedge` keeps it open and moves
nothing. `Events` names what else may happen in an instance. A pong timeout may
fire whenever a ping is unanswered: no bound on the agent's speed is assumed.
`Busy` are the connections that carry data and are closed; the others are dialled only.
Two waits are merged with what follows them, which no property tells apart:
`Connection.Close` of the agent closes its socket and sends in one step, though the
send may wait, and a close from the remote does not wait in `closeOnce` for a `Close`
of the client that is under way.

**ProxyManager, ProxyDialer.** `phase` follows `Start` from the flags and the
configuration file (`LoadConfig` merges them) to serving and through `Stop`.
`ipc[d]` is where the goroutine is that connection `d` spawned for
`EnsureInitialized`, `ipc[Main]` the eager path of `Start`; `mu` is `awsInitMu`. A
channel is a number, `initDone` the one in the field and `closed` those that are
closed, so that a dialer can hold one that was replaced. `backend` is
`m.backend`, `served` the reference the dialers were given, `open` the backends not
closed. `fire[f]` is a callback of the idle timer in `suspend`. `dpc[d]` is where
`Dial` is: the route, `isInitialized`, the wait, `dialProxy`, the fallback, `Touch`;
`path` and `why` record how the connection left. The idle timeout is taken to be
longer than the instructions from `SetBackend` to the clearing of `suspended` at the
end of `EnsureInitialized`: a timer that a `Dial` starts in between is `fresh` and
fires only after them. Without that, a third connection can have the backend
suspended before `suspended` is cleared, and the instance stays stopped: the proof
of `ResumeStartsInstance` came upon it, two connections cannot.

**Routing.** A pattern list is the set of hosts that it matches, and one scalar
setting of each kind of rule stands for the fields that `Merge` treats alike.
`MergedAsDocumented` compares the result with `Documented`, which states the
comment of `Merge` layer by layer; the upstream proxy is one section there, which
flags change in part, as the code and its tests have it.

**DnsResolver.** `flight[h]` is the singleflight entry of a host: the query to one
server after the other, then the store. Every caller has its own `cpc`; those that
wait get the one result. `StoreResult` puts the answer into the cache, `EndLookup`
reads it back, hands it to all who wait and forgets the call: in between anybody may
invalidate, resolve and join (`cpc` is then `late`). Addresses are left out: any dial
of an address may fail, upon which the dialer invalidates the host (`DialFails`).
`after` in an entry counts the invalidations that preceded the server's answer.
`RuleSpecs` is what `buildRule` accepts.

**Credentials.** `loader` is a goroutine in `loadAndSend` and the scheduling after
it, `kind` what called it. `current[k]` is the armed timer of a variable, `orphans[k]`
says that some timer is armed which no variable refers to any more: `Stop` and
assignment are two steps without a lock. `refreshCh` is the one-slot channel, `used`
what `credentialRefreshLoop` has given to the backend. `source` and `available` are
the AWS files and SSO. `owed`, `lapsed` and `alone` are history.

## 3. Runs

| Run | Question | Bounds |
|---|---|---|
| `send` | does the resend machinery lose or revive a message; is everything acknowledged? | 2 senders, 3 messages, room for 2, 1 resend, 1 loss: eviction, exhaustion and out-of-order entry all occur, and losses do not exceed resends |
| `recv` | is output ordered, and nothing acknowledged lost; does it implement `OrderedStream`; is a break reported? | 5 messages, the last one `input_stream_data`; 1 loss of a message or an acknowledgement, with the repetition that it causes: a gap with output behind it, and duplicates |
| `backend` | is there one connector? | 2 dialers, 1 updater, 1 closer, EC2 start, 2 attempts of 2 handshakes |
| `backend_live` | does an active backend have a client; are sessions terminated; does it settle and notice dead tunnels? | 1 drop, remote close, end of the SSH connection or lost keepalive anywhere, keepalive, 2 attempts, 2 goroutines |
| `tunnel` | do streams have gaps; are closes announced? | 1 connection, 3 chunks down, 2 up, one-chunk buffer, two-frame link, every event |
| `tunnel_live` | is a wedged link noticed while its buffer has room; does a close reach the target; does a `Dial` return although the client of another connection stalls the read loop? | 2 connections, one of them with 2 chunks down and closes of either side, one-chunk buffer, no reads, a cut or wedged link, room for every frame the host can send |
| `proxy` | is the merged configuration the documented one; are held connections released over the right network; do channel, mutex and backend stay in step? | every combination of layers of each kind of setting; then 2 connections, 1 idle callback, 3 hosts, lazy and eager, host and VM network, auto-start, and an instance, a tunnel and AWS calls that may fail |
| `dns` | does an entry outlive its TTL or an invalidation; does every resolution get an answer? | 2 callers, 4 hosts under 2 overlapping rules and none, caches of one entry, TTLs below and above the limits, 1 failing dial of each host |
| `credentials` | is a failure retried; do the newest credentials reach the backend; does it recover? | 2 loaders at a time, 2 versions; `RefreshDelay` for every lifetime up to 4000 s, beyond its last bound |

In `dns`, `EvictsTheFirstToExpire` evaluates the store on caches of any content
and of any size from the limit on, not only on those that the run reaches, since
with one entry there would be nothing to choose.

`backend` has no faults because with one there really are two connectors
(`backend_double`); the properties of `backend_live` hold nevertheless.
`DeadTunnelIsNoticed` is checked with keepalives (the default,
30 s): without them a remote close, or a disconnect callback that lags between
`clearBridge` and the close of `b.dataChannel`, leaves a dead tunnel unnoticed.
`OneConnector` needs several callers and no fault, the liveness properties a fault
and few callers; `NoGap` reads, and `DialReturns` clients that do not: hence two
runs of these components rather than one.

In `tunnel_live` the second connection is what makes `DialReturns` hard: the run
reaches states in which the read loop waits for the client of the first, with the
acknowledgement of the other `Dial` behind it on the link. Only the first carries
data, because two that do are too many states for the liveness check; `Stop` and
cancellation, which let a `Dial` return, are left to `tunnel`.

`CHECK_DEADLOCK FALSE` everywhere: all these systems may stop (closed channel, no
caller, no event left).

### Disagreements between code and comments

Each of these runs is expected to violate its property.

| Run | Comment | What the code does |
|---|---|---|
| `recv_handler` | `channel.go:492` messages go to the handler | dropped, though acknowledged, until the backend has registered it |
| `backend_double` | `backend.go:884` "Uses CAS" | load, compare, store |
| `tunnel_wedge` | `agent_mux.go:238` a silent agent is caught | the ping's own write can block for ever |

So `delivered` in `DataChannelRecv` is what reaches `deliverMessage`: `InOrder` and
`NoAckedLoss` promise no more than that.

Other disagreements that the models contain, without a standing run:

- `channel.go:326` wants no RTT sample from a resent message, but the resend is
  counted after the write. RTT samples are not modelled.
- `channel.go:247` tracks pending messages for resend; a full buffer evicts them
  (`evicted`).
- `channel.go:118` means only an intended close to be silent; `channel_closed` from
  the service is silent too (`ProcessChannelClosed`).
- `channel.go:379` ignores duplicates and 365 processes buffered messages; a repeated
  HandshakeComplete sets `expectedSeqNum` back, and one that is overtaken leaves
  the overtaking message in the buffer. The receive runs and the theorems exclude
  both (`CompleteIsReliable`), which a WebSocket over TCP and an agent that
  sees its acknowledgement in time provide.
- `backend.go:390` needs no polling; but the state is read before the channel is
  taken, and a `Dial` can sleep beside an active or failed backend until its timeout.
- `agent_mux.go:155` closes every established connection; that of a `Dial` which
  registers while `declareDead` runs, and is acknowledged after its snapshot, stays
  open on a dead transport.
- `agent_mux.go:207` says that `Close` tears down like `declareDead`; it closes no
  connection.
- `agent_mux.go:436` honours data before a close; the second `select` of `Read` may
  choose the close.
- `manager.go:549`: `suspend` does nothing unless `awsInitialized`, which the eager
  path of `Start` never sets, so that with `--lazy=false` the idle timeout has no
  effect. `README.md:231` names a flag `--idle-timeout` that `main.go` does not have.
- `manager.go:489`: between the close and the replacement of the channel of a
  failed attempt, a proxied connection finds it closed and leaves from the host's
  own network (the exception of `OnlyByChoice`).
- `README.md:203` has the cached result of an unreachable address dropped so that the
  next attempt re-queries. It does not where `Invalidate` comes between the server's
  answer and `Put`, which stores the old address afterwards (`resolver.go:180-191`), nor
  where the next attempt comes between `Put` and the end of the singleflight call,
  which it joins (`resolver.go:110`). These are the exceptions of
  `RequeriedAfterInvalidate`.
- `provider.go:174` has the refresh 30 seconds before the expiry; below 40 seconds
  the minimal delay of 10 wins (`RefreshIsTimely`). After a successful retry nothing
  is scheduled (`provider.go:212`, the exception of `ExpiryIsWatched`).

### Fairness

- *Goroutines.* The Go runtime runs what can run: weak fairness on every loop.
- *Waits.* Every wait of `tryConnect`, `connectSSH` and `Backend.Dial` has a
  timeout, as has the agent's dial: weak fairness on their outcomes together, not
  on success.
- *Network of the data channel.* What is not lost is delivered, and the agent
  repeats what is not acknowledged. Strong fairness on `Receive(n)`: a message
  that is repeated is not overtaken for ever.
- *VM tunnel.* `HostSpec` is fair to the host's goroutines, to the `Close` that
  `Manager.Stop` calls after `SendShutdown`, and to the agent's dial goroutines only. The agent's main loop, the clients, the callers and the link
  owe nothing: the ping loop has to make up for them.
- *Proxy.* The goroutines of `EnsureInitialized`, `suspend` and `Dial` run until the
  process exits (`Alive`), and their AWS calls end by result, error or timeout, which
  is a choice. Nothing is assumed of clients, of the idle timer or of `Stop`.
- *DNS.* A caller goes on after its miss, and an exchange with a server ends by an
  answer or by its timeout, which is a choice.
- *Credentials.* Weak fairness on the loop that reads the channel; strong
  fairness on each loader, because blocked senders are served in the order of
  their arrival, and on the firing of the retry timer, because only the bound on
  loaders at a time ever delays it.

## 4. Proofs

Every safety invariant of a passing run has a theorem, for any values of the
constants that the named assumption admits. Only model-checked are the liveness
properties, since TLAPS does not reason about fairness, with the liveness part
of `ImplementsStream`. `OneConnector` is false when a WebSocket drops, and its
theorem says so.

Every invariant was checked by TLC on the instances of section 3 before its proof.

*DataChannelSend* (no assumption but those on the constants, any number of
senders): `TypeCorrect`, `Retained`, `Bounded`. The properties are not
inductive, because the scheduler and the receive goroutine act on copies. `IndInv`
adds
- `OwnerInv`: a sender owns its number, and no two share one;
- `LocalInv`: what the scheduler's copy and the receive goroutine's message mean
  in each of their places;
- `BufferInv`: the buffer has no number twice, and each entry is owned, pending or
  being removed;
- `CountInv`: how often a message was written, by where it is and by its attempt
  count, with one write more while the scheduler is between write and update.

Each is preserved by every action, one lemma per group of actions.

*DataChannelRecv* (`CompleteIsReliable`): `TypeCorrect`, `InOrder`, `NoStuckHead`,
`NoAckedLoss`, `RefinesStream`. `LoopInv` ties `cur` and `toDeliver` to `pc`,
`SentInv` the messages in flight to what the agent has sent, `HandshakeInv` says
that HandshakeComplete is processed once and before any output, `OrderInv` that
`delivered` followed by `toDeliver` ends just before `expectedSeqNum`, and `KeptInv`
where acknowledged output is. The refinement maps the agent's sends to `Produce`,
`DeliverMessage` to `Consume`, and whatever closes the socket to `Close`; it also
assumes that `input_stream_data` comes last (`InputComesLast`), since that does not
advance `expectedSeqNum`, and uses `OutputOnly`: nothing else is buffered or
collected.

*Backend* (`BackendAssumption`: the kinds of actors differ and there are at least two
attempts, so that there is a pause, of one handshake; any number of actors, attempts
and faults):
`TypeCorrect`, `SessionsEnd`, `ClientThere`, `OneAtATime`. `At(p)` sees through
the broadcast that follows a `setState` to the place after it.
- `SessionInv`: a goroutine without an attempt under way holds no session, so that
  every way out of `tryConnect` has ended it;
- `ClientInv`: a goroutine that waits to announce a connection has put a client
  there, unless `Close` has taken it away or another goroutine that is `Patient`: one
  that cleans up before its first attempt, has not come to its last one, or is in a
  pause that began after the wait. A patient goroutine cannot set the error before the
  announcement. One in its last attempt can, but it has not taken the client away;
- `ChargeInv`, if `drop` is not in `Faults`: the right to start or to repair the
  connection passes from the caller that won the compare-and-swap to the connect
  goroutine, which becomes the monitor and the reconnect; one has it at most, and
  none while `state` invites a caller to take it.

The first two hold with every fault. The third is what `backend_double` refutes
with a drop, whose callback reconnects beside the monitor.

*AgentTunnel* (`MuxAssumption`: one chunk and one frame of room at least; any number of connections and chunks, any
buffers and links, every event): `TypeCorrect`, `StreamsAreWhole`,
`ClosesAreAnnounced`. For each connection,
- `StageInv`: one connect, one dial, one ack, one `MuxConn`, in this order, and which
  frames may be on the link at each stage (`First`: an ack precedes data and close);
- `UpInv`, `DownInv`: what was received is a prefix, and the frames on the link carry
  increasing chunks from the next one on (`Window`); while the link works and the
  receiver is registered, none of them is missing (`HasChunk`);
- `CloseInv`: the close of the VM follows its ack and is on the link or in the hands of
  the read loop until the host's side is closed.

The lemmas on `Has`, `HasChunk`, `Window` and `First` say what appending a frame to
a queue and taking its head does; there is one lemma per action.

*DnsResolver* (`DnsAssumption`: a rule is one that `buildRule` accepts, its TTLs
positive and in order; hosts are finite): `NoAnswerOutlivesMaxTTL`,
`InvalidatedIsRequeried`, `EvictionIsRight`. `CacheInv` says that an entry expires
within its rule's `max-ttl` of being stored and is from after the last counted
invalidation of its host; `FlightInv` the latter of an answer that waits to be
stored; `WaitInv` that who waits for a lookup that has stored its answer, and did not
join late, began before that answer; `CallerInv` hands all on to the callers. An
invalidation between the store and the end leaves an older answer in the hands of the
call, but none in the cache: who joins the call then is an exception, a later `Resolve`
is not. Rules may overlap in any way, so the
proof rests on `FirstRule`: the rule that `MatchRule` chooses is one that covers the
host. `EvictionIsRight` is about the operator `Stored` alone: a full cache, and the refresh of a present host.

*Credentials* (`CredentialsAssumption`: there is a version; any number of
loaders): `TypeCorrect`, `Timely`, `Retried`, `Watched`, `Newest`. `Timely` is
arithmetic over `RefreshDelay`, by the two bounds of the integer quotient. The
invariant adds to `TypeOK`
- `StartInv`: while `Start` loads, nobody else does and no timer is armed, which is
  why the first load always overlaps with none;
- `NewestInv`: a load that no other overlapped holds the last credentials in each of
  its places, and afterwards they are in the channel or with the backend.

`Retried` and `Watched` are inductive beside these. There is one lemma per step.

*Proxy* (`ActorsAssumption`: the names of the actors differ and the connections are
finitely many; any layers): `Inductive`, `InStep`, `CloseOnce`.
`BackendsInStep` speaks of states with an initialised manager only; the invariant
`IndInv` says what holds on the way there and back:
- `MutexInv`: who is inside `EnsureInitialized` or `suspend` holds `awsInitMu`, and
  before serving nothing runs;
- `LatchInv`: the channel is closed exactly after an initialisation, for a moment
  after a failed one, and for good after the eager one, whose connections never
  start another;
- `BackendInv`: nothing is open while an initialisation has not made its backend,
  what it made is the manager's, and what it published is the dialers'.

There is one lemma per action; steps that touch none of this go through
`DialerStepInv`.

`SecondInv` is inductive beside `IndInv` and gives `TypeCorrect`, `ChoiceKept` and
`ResumeStarts` (with `LayersAssumption`: what the type of each setting allows):
- `ServedInv`: from the first success on the dialers hold a backend, and a `Dial` is
  past the gate only if they do, if it was let out by a failure, or if none is needed;
- `ResumeInv`: while nothing is suspended, an initialisation that is under way or may
  still come finds no callback and no armed timer (`Quiet`); from a suspend on,
  `suspended` stays until a `Dial` has switched auto-start on;
- `BoundInv`: the Dials that are through with `EnsureInitialized` account for the
  channels, those that do not make a backend any more for the backends. Each `Dial`
  runs it once at most, so there are at most one more of each than connections,
  the bound that `TypeOK` states.

*Merge* (`LayersAssumption`, layers of any content): `ConfigIsDocumented`. The lemmas
`HighestOfTwo` to `HighestOfFour` turn `Highest`, "the first layer that sets it",
into the cascades of the code, `RouterHosts` does it for the hosts that override one
by one, and `ServersEverywhere` for `--dns-server`; `MergeIsDocumented` collects
them, and `ConfigInv` says that the configuration is what `Merge` made of the
layers when the program starts.

## 5. What is not modelled

- Formats: the byte layouts of `message.go` and `protocol.go`, the DNS wire format,
  AWS request signing, the pattern syntax of the matcher, the reading of
  configuration files and of the SSH configuration.
- Arithmetic of the retransmission timeout: when a resend fires is a choice.
- The wait of `dataBridge.Close` for its transfer goroutine, which may be blocked in a
  WebSocket write: a listed hazard. It takes `Backend` composed with
  `DataChannelSend`, whose product is beyond what TLC finishes.
- `Stop` by a signal before the servers listen (`main.go:349`): it runs beside the rest
  of `Start`; the model has `Stop` from serving on.
- Which of an instance ID and a name from different layers wins (`manager.go:386`): they
  are one setting here; and the case of host names (`router.go:91`).
- A monitor's `client.Wait` that returns for another reason than the faults above.
- The IPv6 half of a lookup for both families, and the parsing of a rule's settings.
- The replacement of a credential provider by a resume, and the end of its
  context: the timers of the old one outlive it and load into a channel that nobody
  reads.
- SOCKS5 and HTTP protocol I/O around `ProxyDialer.Dial`, the upstream proxy, the VM
  life cycle, the UI, logging, the clock, the commands besides the proxy itself,
  and the test doubles.

Three hazards are in the models without a property, because no comment, test or
document says what should happen: a cancelled `Dial` can leave a connection that
nobody reads (`agent_mux.go:312`); a connection that ended in the VM stays in the
agent's map (`agent.go:241`); and `Stop` reads `m.backend` without `awsInitMu`, after
it has let `main` return (`manager.go:638`, `main.go:358`).

## 6. Plan

1. `BridgeTransfer`: `dataBridge` with its transfer goroutine, for the blocking
   `Close`, over an abstract data channel.
2. `Credentials` across a suspend and a resume: two providers and one loop.
3. Proofs: what one side of the VM tunnel reads, as a refinement of `OrderedStream`;
   action properties (a connection is not opened twice, a backend that was closed
   is not published again) from the invariants that exist.
4. The arithmetic of `calculateRetransmissionTimeout`, against its limits.
