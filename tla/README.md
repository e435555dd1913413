# A formal model of YAS

YAS is a remote-workspace server: one native session protocol carries
terminals, surfaces, files, Git, language servers, processes, network flows,
media, extensions and durable workspaces. This directory holds TLA+ models of
the parts of the server whose correctness depends on the order in which
several sessions and tasks act, the TLC configurations that check them, and
TLAPS proofs. Paths below are relative to the repository's `src/` copy;
`PROJECT.json` maps every definition to the lines it stands for.

## The system and what is hard about it

| Component | State | Operations | What must hold | Model |
| --- | --- | --- | --- | --- |
| Channel fabric (`crates/server/src/channel.rs`) | listeners and their names, catalogue revision, pending connects, link ends, two event lanes per endpoint, admission counters | register/unregister endpoint, listen, close listener, begin/prepare/complete/publish/cancel connect, send message/credit/close, reset | link ends live and die together; nothing of a dead endpoint survives; admission exact and bounded; ACCEPT first, Close last in a lane | `ChannelFabric`, `ConnectLifecycle`, `ChannelFabricProofs` |
| Channel family of a session (`crates/server/src/yas.rs`) | its listeners, requests waiting for a Result, transfers | LISTEN, CLOSE_LISTENER, CONNECT, CANCEL, the 30 s timer, eight routed events, CREDIT/MESSAGE_DATA/CLOSE/RESET frames, session end | one Result per CONNECT; no transfer or request stranded; bytes conserved; no over-granting | `ChannelSession`, `ChannelSessionProofs` |
| Transfer credit (`FlowControl`, `CreditBudget`, `CreditLease` in `yas.rs`) | atomics: limit, requested limit, sent, lease, reserved; wake-ups | new, grant, refresh, wait, record_sent, cancel, drop | aggregate cap; exact accounting; nothing revoked; granted bytes get sent | `CreditFlow`, `CreditFlowProofs` |
| KV store (`server/src/kv.rs`, its callers in `yas.rs`) | map, revision, replay records, writer queue and its permits, database, watches | replay lookup, mutate with preconditions, durable wait, writer thread, open after a crash, watch, delta, reset, lag | a crash loses a suffix and nothing else; an acknowledged durable write survives; a retried operation applies once; watches have no gaps | `KvStore`, `KvStoreProofs` |
| Server shutdown (`server/src/yas_shutdown.rs`, `lib.rs`, `yas.rs`) | phase, endpoints, two latches and the table of connections, a notification | register, retry, SHUTDOWN, abort, commit, GOAWAY, signal, cleanup, wait for the last connection | one operation owns the boot; everyone is told; nobody survives the cleanup; the server stops | `ServerShutdown`, `ConnectionProofs` |
| Heartbeat (`server/src/yas/heartbeat.rs`) | outstanding ping, deadline | ping, answer, expiry | a handler that is dropped at an await leaves nothing wedged | its expiry, in `ServerShutdown` |
| Uplink datagrams (`uplink/src/datagram.rs`) | counter, replay window, key epochs | seal, open | no nonce twice; opened at most once; loss never blocks | `UplinkDatagram`, `UplinkProofs` |
| Uplink records (`uplink/src/stream.rs`) | nonces and keys, half-built records, closed and failed flags | write, flush, shutdown, read | in order, without a gap, authenticated end | `UplinkStream`, `UplinkProofs` |
| Other families of a session (Terminal, Surface, FS, Git, LSP, Process, Net, Events, Selection, Media, Extension) | per-family runtimes | request handlers, watches, internal events | watch revisions without gaps | not yet |
| Event journal (`server/src/events.rs`, `yas_events.rs`, its handlers in `yas.rs`) | ring, sequence numbers, broadcast channel, live streams, file recordings | record, configure, START_STREAM, the stream's task, STOP_STREAM, start and stop a recording | every event is told once or counted as lost, in order; a stopped recording is complete | `EventLog`, `EventStream`, `EventRecording`, `EventProofs` |
| Composite links (`composite-transport`, the accept loops of `lib.rs`) | streams being classified, halves waiting for their partner | accept, classify, pair, expire | each half is paired once, with its own partner; the limit on pending streams is exact | `Ingress`, `ConnectionProofs` |
| Processes, relay, proxy pool, extension store and supervisor | tables of children, routes, connections, packages | spawn/attach/kill, connect, install/enable | no leaked child, route or slot | not yet |
| Terminal driver and model, compositor, codecs, fonts, wire codecs, clients, CLI, edge, SSH, WebRTC, browser and JavaScript | | | | not modelled: sequential parsers, numeric kernels, foreign interfaces, plumbing and user interface |

How the modelled parts interact: a session task owns its `ChannelRuntime` and
calls the one fabric of the process under the mutex around the shared session
state; the fabric answers by putting events into lanes that other session tasks
read. What makes this hard:

* a handler gives up the lock, and awaits its writer, between two fabric
  operations, so a handshake of two sessions has four steps with everything
  else in between (`yas.rs:22302`);
* retiring events have an unbounded lane of their own and overtake data
  (`channel.rs:123`);
* four things race to settle one CONNECT (`yas.rs:24244`);
* admission is given back by `Drop` of guards cloned into queued events
  (`channel.rs:216`);
* a session can end between any two steps;
* credit is plain atomics shared by two tasks of a multi-threaded runtime, with
  updates in several accesses (`yas.rs:6850`, `yas.rs:6991`) and wake-ups that
  keep no permit (`yas.rs:7038`);
* the key-value store answers, broadcasts and lets others build on a mutation
  before it is on disk, and what it does not write (revision, sequence) must be
  found again after a crash (`kv.rs:1350`, `kv.rs:447`);
* a SHUTDOWN, its retry, another client's SHUTDOWN, a signal and new
  connections race, and the initiator's handler can be dropped at any await;
* the uplink's relay may lose, repeat, reorder, damage and cut;
* a follower of the event journal meets retained records, holes among them, live
  records and lags at one cursor, while the journal goes on (`yas_events.rs:426`);
* an accepted stream leaves the ingress loop in seven ways, and each must give its
  place back (`lib.rs:8929`).

`PROJECT.json` lists these hazards at their lines with the properties aimed at
them.

## Modules

**`ConnectLifecycle`** is the abstract specification: what the fabric promises
about one connect id. Its stages go `new -> pending -> linked -> open -> half
-> retired`, forward only; its pair is charged to the process-wide limit from
`pending` until some time after `retired`, once. A refused connect spends its id
and charges nothing.

**`ChannelFabric`** is `channel.rs`, one action per operation, each atomic
because every caller holds the mutex. Names follow the source: `listeners`,
`listener_names`, `native_pending`, `native_links`, `native_revision`. An
operation that returns an error without touching state is a stuttering step;
the two that fail after changing something have an action of their own
(`native_begin_connect_backpressured` spends the id,
`native_publish_connect_backpressured` resets the half-built link).
`in_hand` is the event a session is handling, whose guard is still alive.
`Settle` is Rust's reference counting: any side of a pair that was held (by a
pending connect, a link, a queued event or the event in hand) or has just been
reserved, and is held no longer, is given back. The model gives the pair's
count and its window back in one step; `Drop` does so in two atomic
subtractions, between which another session could only see a refusal it would
not otherwise have seen. Callers are arbitrary: any endpoint may call any
operation with any argument. Abstracted: metadata, names' spelling, tokens,
registry ids, session ids and the `enabled` flag; the listener generation
equals the handle, since both counters start at 1 and advance together.

**`ChannelSession`** composes `ChannelFabric` with the sessions that call it. A
session is `none -> running -> stopped or failed -> ended`. Each handler of
`yas.rs` is an action, or one action per fabric operation with `step` holding
the rest of the handler (`cancel`, `fail`, `publish`, `reset`). A session's
credit budget shows up as a choice: it may lease any part of what is asked.
Clients name only what they were told about, but may overrun their credit and
may send malformed frames. CANCEL and the connect timer do the same thing and
are one action, possible at any time.

**`CreditFlow`** models outbound credit at single atomic accesses. `task` is
where the session task is inside `grant` or `cancel`, `sender[f]` where the
task spawned for a transfer is inside `available`/`wait_through` and
`record_sent`, each with the values it has read. `Notify::notify_waiters`
(tokio, external) wakes exactly the futures that already exist. Accesses are
merged only where no access of the other task can come between with an effect:
`fetch_max` and the notification after it, the cancelled flag and the swap of
the lease, the read of the limit and the `sent` it allows. `overlapped` is a
history variable: on one flow a grant and a `record_sent` overlapped, or
`refresh_reservation` added to a lease that a grant had read and was about to
store.

**`KvStore`** is the store, its writer thread and the handlers that call it.
`entries`, `operations`, `revision`, `next_operation_sequence` and `writer` are
the fields of `Store`; `queue` and `batch` are the jobs the writer has been sent
and those of its open transaction; `disk` is what redb holds. A mutation is two
actions because the code takes the lock twice: `native_replay` looks the
operation id up, `native_mutate` (or `replay_late`) settles it. A lookup that
hits answers and changes nothing. `settle` is one critical section: replay
records with their eviction, rows, revision, the job, the broadcast. The writer
takes all that is queued, commits it in one transaction, or fails and never
writes again. `Restart` is a crash at any point followed by `Store::open`: loaded
with or without the replay records, or memory-only. A watch is a bounded
broadcast receiver (tokio, external) with `view`, what its client has been told.
Sizes in bytes, staged uploads and modification times are abstracted; a content
hash is the value it identifies. `restarts`, `acked` (durable requests answered
Ok) and `replays_lost` are observations.

**`ServerShutdown`** composes the coordinator, the registry of connections, the
session's dispatch loop as far as it matters here, the two tasks that may call
`begin_server_shutdown` and the end of `serve`. `conn` is the life of a
connection (`arriving -> hello -> serving -> gone`, or `refused` in between),
`handler` the await at which its dispatch loop stands inside
`handle_core_shutdown` or `handle_shutdown_notice`, `inbox` a frame its reader
has queued (one at a time). `heartbeat_expires` drops the dispatch future at any
await; the steps between two awaits cannot be interrupted by it, but other tasks
may run between them. Connections over `max_connections` are a `hello` that ends.

**`UplinkDatagram`** is one direction of the sealed datagrams. A sealed text is
the pair of key epoch and nonce; the cipher (external) opens it under exactly
those. The relay may present any text ever sealed, any number of times, in any
order, under any header.

**`UplinkStream`** is a pair of `NoiseStream`s. A record crosses the carrier in
two pieces so that a cut can fall before, inside and after it; `drain` is a step
of any of the polls that drain. snow (external) opens a record under the key and
nonce it was sealed with.

**`Ingress`** is the accept loop (two copies in `lib.rs`, one for the socket and
one for streams of this process), the task per stream that classifies it, and
`Pairing`. A stream may turn out to be direct, either half of a composite link
with any token and maximum, or an error, which stands for bad bytes and for the
timeout alike. `overdue` is the passing of a half's time; `expire` is the tick
that drops what is overdue. `kind` is an observation.

**`EventLog`** is the ring and the broadcast channel, fed under one mutex. A
record is its sequence number and its size. Since `record` sends to the channel
whenever it has a receiver, a receiver is the number it reads next, and tokio's
channel (external) holds the last `LiveChannel` records for it.
**`EventStream`** adds live streams: `start_stream` is the snapshot with the
subscription, `start_complete` and `publication_complete` the session's two
steps before the task may run, `next_gap`, `next_lagged`, `next_record` and
`batch_more` the branches of `LiveStream::next`, `send` and `stream_item` the
two ends of the session's internal queue. The byte limit of a batch is a choice
at every record. `given` is an observation: the records the stream has taken.
**`EventRecording`** adds recordings to a file: the first write, the loop, the
stop, the drain and its flush, any of whose writes may fail. `since` and
`stop_at` are observations.

**`MCChannelFabric`, `MCChannelSession`, `MCCreditFlow`, `MCServerShutdown`**
instantiate these for TLC, and **`MCServices`** instantiates `KvStore`,
`ServerShutdown`, `UplinkDatagram`, `UplinkStream`, `Ingress`, `EventStream` and
`EventRecording` together (the last two follow one `log`): they share no
other state, so a behaviour picks one of them in its initial state (`component`) and
the others stay where they start, where none of the actions with a fairness
condition is enabled. Operators named `Mut_...` are wrong variants of the
definitions that follow them. No specification uses one; substituting it makes a
property fail, which shows that the property depends on the code it is about.

## Runs

| Run | Question | Bounds |
| --- | --- | --- |
| `fabric_admission` | do links, listeners and what stands on them, admission, terminal events and the catalogue revision survive every order of registration, handshake, close, reset and end? | 2 endpoints (so also loopback) that contend for a name, 2 LISTENs, 2 connects at once, lane of 1, revision wrapping at 2; no messages or credit, no shutdown |
| `fabric_traffic` | with messages, credit and closes: is the inductive invariant true, does ACCEPT come first and Close last, does the fabric implement `ConnectLifecycle`? | 1 connect, lane of 2 |
| `session` | one Result per CONNECT, nothing stranded | 2 sessions, 1 connect, lane of 2, stop at any point |
| `session_credit` | bytes conserved, credit covered, and nothing that one session routes is refused by the other as beyond its limits (`RoutedIsAcceptable`) | 2 byte sizes, lane of 1, sessions that stay up |
| `session_live` | does every CONNECT settle without its timer, and does a session that is gone give back its slots? | as `session`, lane of 1, no data |
| `credit` | limits, revocation, exact accounting and the aggregate cap, for two flows on one budget | budget 2, transfers of 2 bytes, grants to 3, counter modulo 8 |
| `services`, store | what a crash loses, what a retry repeats, who is answered, what watchers see | 2 sessions, 3 requests (durable put; delete by hash and revision; a conflicting batch under the same operation id), 1 watch, 3 operations, 1 entry, 2 pending writes, 1 recent replay, change queue of 1, 1 crash |
| `services`, datagrams | nonces, at-most-once, and that nothing is blocked | counters 0 to 6, window of 3, epochs of 2 |
| `services`, records | order, completeness, authenticated end, no failure of an undisturbed stream | 2 items each way, a key change every 2 records |
| `services`, shutdown | one owner, everyone told, nobody survives, the server stops | 2 connections, 3 SHUTDOWN requests (two with one operation id) |
| `services`, ingress | are places counted exactly, and halves paired with their own partner? | 3 streams, 2 tokens, 2 maxima, limit 2; the loop may return at any point |
| `services`, events | does every follower account for every event? | records of size 1 and 2, ring of 1 or 3, channel of 2, 5 events, 1 live stream with an internal queue of 1, 1 recording |
| `session_local`, `session_ends`, `credit_release`, `credit_wakeup`, `shutdown_retry` | five places where the code disagrees with what its documents, comments or assertions say | one disagreement each |

The bounds are small but the interesting cases happen inside them: two
endpoints give both the two-session and the loopback case, a lane of one or two
fills up, two connects contend for the limits, an endpoint claims a name that
is taken, and takes it over while a connect on its old listener is under way,
one endpoint's end overlaps the other's handshake, the budget is exhausted by
either flow, a shrink and a growth of a lease occur; in the store every limit
is reached, a replay record is evicted while another pins a value, a watcher
lags and a crash falls on every step; the datagram counter runs out, crosses
three epochs and jumps over the whole window; both directions of the record
stream change keys; the pending limit of the ingress is reached by streams and
by halves; the ring evicts, is resized and drops an event that cannot fit, and
both followers lag. Every bound is a constant of the module. Exhausted id
spaces and idle clients may stop the system, so deadlock is not checked.
Symmetry is used over endpoints (and channel handles in the fabric, where a
handle is opaque), never in the liveness runs.

**Fairness.** `session_live` assumes what the runtime gives: a session task that
is ready is polled, its handlers run to their end, a stopped session cleans up
and drops its receivers (weak fairness), and `select!` picks among ready
branches at random, so neither lane starves while clients keep the session busy
(strong fairness on taking an event). Clients and timers have no obligation.
`credit_wakeup` assumes weak fairness of both tasks and nothing of the client.
`services` assumes that the server's tasks which can run do (dispatch loops, cleanup, the end
of `serve`), that the bounded waits of `handle_core_shutdown` and
`finish_native_shutdown` end, and that a cancelled session ends: between two
handlers its loop takes the cancellation branch, and inside one its heartbeat
fails, because cancellation has stopped the reader that would see the answer.
The latter needs a `ping_interval` other than zero. No client, and no signal, is
assumed to come.

## What the runs found

1. *A late event ends a session* (`session_local`). Message, Credit and Close
   events for a transfer that is already gone are handler errors, and handler
   errors end the session (`yas.rs:22438`, `yas.rs:2629`).
   `docs/design/yas.md:3843` makes such failures local to the transfer.
2. *Closing a listener can drop one end of an established channel*
   (`session_ends`, `yas.rs:21971`), against `docs/design/yas.md:3539`. The
   connector keeps a published link with nobody behind it.
3. *A grant racing record_sent returns bytes twice* (`credit_release`,
   `yas.rs:6852`), against the `debug_assert` at `yas.rs:6826`; in a release
   build the counter wraps and the session's budget looks full for ever.
4. *A grant can be slept through* (`credit_wakeup`, `yas.rs:7071`): the futures
   are created after the limit was read.
5. *A retry of SHUTDOWN on a new connection is cancelled before it starts*
   (`shutdown_retry`, `lib.rs:13117`): the refused first registration cancels
   the token with which the second one succeeds, against `lib.rs:844` and
   `yas.rs:7570`.

Everything else that is stated holds. Five behaviours that the models show and
that no run is devoted to:

* A retry of a DURABLE operation is answered Ok from the replay table without
  waiting (`kv.rs:1028`, `kv.rs:1158`), also while the commit of the operation
  is pending and after it has failed and the first answer was `Io`.
  `docs/design/kv.md:93` says that "`DURABLE` waits for an immediate (fsynced)
  commit". `DurableSurvives` therefore speaks of the session that carried the
  operation out.
* If the initiator of a SHUTDOWN loses its heartbeat while it awaits the
  confirmation of its Result (`yas.rs:7572`), nothing aborts the preparation:
  later SHUTDOWN requests of this boot wait in `resolve`. A signal still stops
  the server (`ServerStops`), since a waiting handler is ended by its own
  heartbeat.
* If the replay records cannot be read at a start (`kv.rs:459`) the store goes on
  without them and with a revision taken from the rows alone: a revision of a
  delete may be given out again. `WriteBehind`, `LiveIsReplayable` and
  `DurableSurvives` exclude such a start (`replays_lost`).
* A lease loses bytes when a grant shrinks it while the sender refreshes it:
  `resize_on_grant` loads the lease and stores what it computed from it
  (`yas.rs:6849`, `yas.rs:6855`), and what `refresh_reservation` adds in between
  (`yas.rs:6860`) is overwritten, so it is never returned to the budget. The
  bounds of the run `credit` never reach it; the proof of `AccountingIsSound`
  failed on it. `overlapped` is set there too, and with that the accounting is
  exact for every value of the constants.
* After a lag, the `first_available_sequence` of a GAP counts from where the
  stream stood (`yas_events.rs:426`, `446`), not from where its receiver is. When
  the history ended in an event too large for the ring (`events.rs:362`), that
  number may itself be lost, and a second GAP follows at once.
  `docs/design/yas.md:3732` says "GAP reports both the exact lost count and first
  sequence still available", which the first of the two does not. `StreamExact`
  says that the account as a whole is exact, and leaves out that each GAP names an
  available sequence.

## Proofs

Every theorem below holds for every value of the constants that satisfies the
named assumption of its module. `PROJECT.json` says which property of which run
each one states.

| Module | Theorems | Inductive invariant |
| --- | --- | --- |
| `ChannelFabricProofs` | `FabricCorrect`, `TypeCorrect`, `LinksAreWhole`, `EndpointsEndClean`, `ListenersStayOwned`, `AdmissionCountsGuards`, `AdmissionStaysBounded`, `CatalogueIsVersioned` | `FabricInv` |
| | `FabricImplementsLifecycle`, `LanesKeepOrder`, `TerminalEventsAreFinal` | and `ClosedIsPublished`, `LaneInv` |
| `ChannelSessionProofs` | `SessionTypesHold`, `ConnectsAreAnsweredOnce`, `WaitingConnectsAreBacked`, `TransfersAreBacked`, `CreditStaysCovered`, `BytesStayConserved` | `SessionInv` |
| `CreditFlowProofs` | `CreditTypes`, `TransfersStayWithinGrant`, `CreditIsNotRevoked`, `AccountingIsSound` | `CreditInv`, `BudgetExact` |
| `ConnectionProofs` | `ShutdownTypeCorrect`, `OneOperationOwnsTheBoot`, `CleanupReachesEveryone` | `ShutdownInv` |
| | `IngressIsExact` | `IngressInv` |
| `KvStoreProofs` | `KvTypeCorrect`, `WaitersAreBacked`, `WatchesAreExact`, `StoreIsReplayable`, `WritesAreBehind`, `DurableIsKept` | `KvTyped`, `Backed` and `WriterQueues`, `AllFollow`, `Traced`, `Promised` |
| `EventProofs` | `StreamsAreExact`, `RecordingsAreExact` | `StreamInv`, `RecordingInv` |
| `UplinkProofs` | `NoncesAreFresh`, `DatagramsAreDeliveredOnce`, `StreamIsFaithful` | `DatagramInv`, `StreamInv` |

**The fabric.** `FabricAssumption`: limits are naturals, the revision space and
the pair window are not empty, endpoints are finitely many. `FabricInv` is
inductive because it adds to the properties what they need of each other:
`OneStage` (a connect is pending or one link, never both, and only below the
next id) makes the two link ends that `complete` inserts the only ones of their
connect; `HeldAllocated` (every guard belongs to an id already handed out) makes
a fresh reservation disjoint from everything held, which is what turns `Settle`
into exact counting. The argument has one lemma per part: `RegistryType`,
`LinksType`, `LanesType` and `AdmissionType` for types; `LinkSteps`, which says
that `native_links` changes only by completing, publishing, half-closing or
resetting, and `SymmetryStep`, `OneStageStep`, `CleanStep` from it;
`AdmissionSteps`, which says that what is held shrinks or grows by exactly the
reservation, and `ExactStep`, `BoundedStep` from it; `NamesStep`. `SettleExact`
is the counting lemma over finite sets. `NextInv` puts them together.
`ListenersStayOwned` adds `PendingHasListener`, which is inductive with `NamesMatch`: a
new listener gets a handle that no open listener has, and hence that no pending
connect stands on.
`CatalogueIsVersioned`, that the revision differs whenever the catalogue does,
also needs `RevisionAssumption`: a step adds one to the revision for each
listener it removes, so an endpoint must hold fewer listeners than there are
revisions (a per-endpoint limit against a 64-bit counter).

**The lifecycle.** `FabricImplementsLifecycle` is the refinement: the initial
states map to initial states and every step of the fabric to a step of
`ConnectLifecycle` or a stutter. `FabricInv` is not enough for it, since it allows
an unpublished link with a closed direction, and publishing that one would take
a connect from `linked` to `half`; `ClosedIsPublished` excludes it. The order
of the lanes is inductive only with what may still be sent behind what is
queued: `LaneKinds` (which events each lane holds), `RoutedSettled` (a
routed event belongs to a connect that is past its publication, and a Close to a
direction that is closed) and `LanesOrdered`.

**The sessions.** `SessionAssumption`: byte counts are limits, every number up to
a limit is a limit (both are u64), handles are allocated from 1 upwards.
The first lemma, `SessionsUseFabric`, says that a behaviour of the sessions is one
of the fabric, since each handler calls it through its operations only. It holds
by the way the handlers are composed and is no result by itself; it is why all that is
proved of the fabric under arbitrary callers, `FabricInv` first, can be used
here. `SessionInv` then has a part for each property.

* `ResultsInv` (one Result): an id not handed out yet is not answered, a waiting
  one belongs to one session, and a handler that goes on to fail a request still
  has it. `Accounts` says what a step may do to requests and answers.
* `SettlingInv` (waiting requests): the fabric's connect is in the name of the
  session that waits. A loopback session holds both the request and the accept,
  and gets two aborts (`LoopbackHasTwo`); without that part the first abort, which
  settles the request, would leave the accept with nothing.
* `ClosedEnds`, `BackedInv` (transfers): a link goes when both directions are
  closed, so at that moment the transfer of each end must have its peer's Close
  in its lane or behind it, and its own client's CLOSE behind it.
  `HandshakeEnds`: a connect that was aborted never had a link, hence an accept
  that finds its abort is not linked.
* `HandlesInv`: a handle that is not allocated yet, or whose accept is not linked
  yet, names no link and no event in a lane; a new link joins a handle just
  allocated to a prepared one (`LinkJoins`). Without it an old event could be
  read as one of the new channel.
* `CreditInv`: the limit in a Credit or Committed event on the way is covered
  by the granting session's flow, and the session about to publish has leased what
  it will announce.
* `BytesInv` counts what a lane holds for a handle together with the event in
  hand that is not handled yet. It is inductive in any state of the other
  session's handler, not only in the idle one of `BytesConserved`.

Every action of a session is classified once: which of the changes above it
makes to one transfer (`Change`), one link (`LinkMoves`, `LinkMade`), one lane
(`EventsMove`), and that other sessions keep theirs (`OthersStay`). The
invariants are proved from these classes, not from the actions.

**Credit.** `CreditAssumption`: the maximum is below the counter's range, an item
has at least one byte, there are finitely many flows. `FlowOK` relates a
`FlowControl` to what its two tasks have read of it and holds always; `CoverOK`
says the lease covers what will be sent and holds until something overlaps;
`BudgetExact` says that what is reserved is the sum of all leases and of the
bytes in some task's hands. Every operation works on one flow, so each lemma
`..._Keeps` speaks of that flow and each lemma `..._Balances` says that the step
moves bytes between the budget and that flow only.

**The KV store.** `KvAssumption`: there are finitely many keys (the length of a
key is bounded), a request has at least one mutation, the limits are at least 1.
`KvTyped` says more than `KvTypeOK`: records are finitely many, so what
`Store::open` computes from them exists. `AllFollow` gives `WatchExact`: the
changes in a receiver carry consecutive revisions also while it has lagged,
since that is what a change joining its queue finds. `Traced` gives
`LiveIsReplayable` and `WriteBehind` and is about order. Of two records the
later one has no smaller revision, and a larger one if it committed
(`InSequence`), so the recent records are the newest and the one that pins a
revision is unique; every row is explained by a record (`Explained`), in memory
and in every stage that the database will go through while the writer works
(`StagesOK`), because a crash may find any of them. `SettlingKeepsRetained` is
the heart: a new operation makes no record matter again that was dropped before,
as new rows carry the new revision only, so evicting in memory and evicting on
disk stay the same although the disk may hold more (`PruningMayFail`).
`PruningKeepsLoaded`: the newest record is always retained, hence the revision
and the sequence are found again. `Promised` gives `DurableSurvives`: a job
writes the rows of the request that its operation records, whatever rows that
request found (`WrittenRows`), and each stage still shows what an earlier one
showed, or something of a later revision (`JobKeepsShown`). All of it excludes a
start without the replay records, where these properties fail.

**`DataInduction`** is what the sums and the iterations rest on. The library's induction theorems
take an operator as a parameter and cannot be used here; that strict inclusion
on the subsets of a finite set is well-founded is stated of sets, so a
statement is written as the set of what it holds for. From it follow the facts
about `SumFunctionOnSet`: one term changes by as much as the sum, every term is
at most the sum, sums of equal terms are equal, also when all move by one place
(the bytes in a lane whose head is taken). Induction up to a number follows
too, and from it that what is computed step by step (the working copy of a
request, the database over a batch, the view of a client) exists and has its
steps; `WorkingIs`, `ApplySteps` and `ViewSteps` in `KvStoreProofs` use it.

**Shutdown.** `ShutdownInv` adds to types: one session at a time is between
`Started` and the commit, with the request that is prepared (`OwnerIsAlone`),
nobody else was told Ok (`OnlyOwnerTold`), whoever serves after the commit has
its notice (`EveryoneTold`), and both latches are closed before connections are
cancelled (`LatchesFirst`), which is why a registration cannot slip in behind
the cleanup.

**Ingress.** A stream is in exactly one place (`Apart`), halves wait under their
own token with their own role (`HalvesKept`), sessions hold matching pairs
(`PairsKept`), and the count of the loop is the number of readers and of
classified streams (`Counted`).

**Uplink.** `DatagramInv` adds to types and `NonceFresh` that the bits of the
window are exactly the deliveries they stand for and nothing above the highest
counter was delivered (`WindowExact`), which makes the check of the window equal
to "not delivered before", and that what was delivered was sealed, once
(`SealedOnce`). The one delicate step is a counter that moves the window:
`WindowExact` after the shift follows by cases on whether a counter was inside,
leaves, or is one of those skipped. `StreamInv` says that keys are a function of
the nonce (`KeysFollow`), that a record on the way carries the item of its nonce
(`Sealed`), that what was read is numbered up to the reader's nonce (`InOrder`),
and, for an undisturbed carrier, that headers and texts alternate on it from
where the reader is, with every nonce up to the writer's (`Undisturbed`).

**The event journal.** `EventLogAssumption`: sizes, capacities and the channel
are at least 1. `LogInv` says that the ring is exact and its records are in
order, below the next number; that a resize keeps this is shown record by record
(`ResizeSteps`, `ResizeKeeps`). `RecordingInv` adds that no item of a file
reaches past its receiver: a gap then covers numbers that no earlier one covers,
which is what makes the count of lost events a sum. `StreamInv` of this module
describes a live stream by one line of items, those sent and those on their way,
and by two statements. `ItemsMeet`: the line ends where the item in hand begins,
that item ends at `expected_sequence`, and a gap that was noted begins there.
`ComesInOrder`: the record that was set aside, then the history, then the
channel are in rising order, and none is below the end of the items. The second
is why `LiveStream::next` never meets a record that it had already: the error
branch for one (`yas_events.rs:383`) is dead. A lag is the delicate step: the gap
counts from what is expected, and the receiver moves by as much, so the gap
never passes the receiver, also when it falls short of it. `TakeNext` is the one
lemma about taking a record, wherever it comes from; the branches of `next` follow
from it.

Only model-checked: all liveness, since the prover handles neither fairness nor
ENABLED, and `RoutedIsAcceptable`, which would need the order of the limits within
a lane on top of `SessionInv`.

## Not modelled, and the plan

In the order in which it is worth doing:

1. `CreditFlow`: `lease_exact` and its waiters, `lease_keeping`, `transfer_to`
   and the inbound budget.
2. `KvStore`: byte limits and staged uploads (their handles, their expiry and
   the witnesses that let a retry outlive them).
3. `MessageReceiver` (`crates/yas/src/transfer.rs`), and the datagram routing of
   composite links (`composite_link.rs`).
4. The replay of operation ids in the Events family, and the per-command journal
   of a terminal (`journal.rs`).
5. Process table, relay routes, proxy pool, extension supervisor.

Left out for good: what is listed as sequential, numeric or foreign in the
table above; the contents of messages and the reassembly of fragments inside a
channel; listen replay and the extension command catalogue, which do not touch
the fabric's state; the Noise handshake of the uplink, which is cryptography.
The models cover the parts of the server where the order of events decides, a
small share of its lines: most of the repository is rendering, encoding,
parsing, protocol tables and user interface.
