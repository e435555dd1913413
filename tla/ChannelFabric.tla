---------------------------- MODULE ChannelFabric ----------------------------
(***************************************************************************)
(* The process-global Channel registry of the server,                      *)
(* crates/server/src/channel.rs: named listeners, the three-step connect   *)
(* handshake (begin, prepare, complete, then publish), routing between the *)
(* two ends of a link, and the admission of pairs and handle slots.        *)
(*                                                                         *)
(* Every operation runs under the mutex around the shared session state,   *)
(* so each one is one action.  An operation that returns an error without  *)
(* touching any state is a stuttering step and has no action; the ones     *)
(* that fail after changing something have one of their own.               *)
(*                                                                         *)
(* Admission is released by Rust's Drop: a side of a pair stays charged    *)
(* while a pending connect, a link, a queued event or the event in a       *)
(* session's hand holds a clone of its guard.  Settle, a conjunct of every *)
(* action that moves a guard, is that reference counting.                  *)
(*                                                                         *)
(* An operator named Mut_... is a deliberately wrong variant of the        *)
(* definition after it.  No specification uses one: they are substituted,  *)
(* one at a time, to see the property that guards against them fail.       *)
(***************************************************************************)
EXTENDS Naturals, Sequences, FiniteSets

CONSTANTS
    Endpoints,           \* identities register_native_endpoint may hand out
    Names,               \* listener names
    ChannelHandles,      \* channel handles a session may allocate
    Sizes,               \* nonzero byte counts: credits, item limits, messages
    Limits,              \* byte counts a Credit or a Close may carry
    MaxListenerHandle,   \* end of the u64 listener handle / generation space
    MaxConnectId,        \* end of the u64 connect id space
    MaxRevision,         \* u64::MAX, after which the revision wraps to 1
    InternalQueue,       \* capacity of the bounded event lane
    ListenersPerEndpoint, MaxListeners, HandlesPerEndpoint,
    ConnectedPairs, MaxPendingConnects,
    PairWindow,          \* twice FLOW_WINDOW_BYTES
    BufferBytes          \* limits.buffer_bytes

ASSUME FabricAssumption ==
    /\ Sizes \subseteq Nat \ {0}
    /\ Limits \subseteq Nat
    /\ {MaxListenerHandle, MaxConnectId, InternalQueue, ListenersPerEndpoint,
        MaxListeners, HandlesPerEndpoint, ConnectedPairs, MaxPendingConnects,
        BufferBytes} \subseteq Nat
    /\ MaxRevision \in Nat \ {0}
    /\ PairWindow \in Nat \ {0}
    /\ IsFiniteSet(Endpoints)

(* native_listen clamps its per-endpoint limit to the protocol constant   *)
(* MAX_LISTENERS_PER_SESSION, far below u64::MAX.                         *)
ASSUME RevisionAssumption == ListenersPerEndpoint < MaxRevision

VARIABLES
    shutting_down,
    endpoint_state,        \* "unused", "live" (in native_endpoints) or "gone"
    listeners, listener_names, next_listener_handle, native_revision,
    native_pending, next_native_connect,
    native_links,
    events,                \* the bounded lane of each endpoint
    terminal_events,       \* the unbounded lane of each endpoint
    in_hand,               \* the event an endpoint's session is handling
    active_pairs, endpoint_slots

registry == <<shutting_down, endpoint_state, listeners, listener_names,
              next_listener_handle, native_revision>>
lanes == <<events, terminal_events, in_hand>>
admission == <<active_pairs, endpoint_slots>>
fabric == <<registry, native_pending, next_native_connect, native_links, lanes, admission>>

ListenerHandles == 1 .. MaxListenerHandle
ConnectIds == 1 .. MaxConnectId
Roles == {"connector", "listener"}
Side == [connect_id : ConnectIds, role : Roles, endpoint : Endpoints]

(* What NativePendingConnect, NativeLinkEnd and Listener keep.  A listener *)
(* handle and its generation are drawn from two counters that start at 1   *)
(* and advance together, so the generation is the handle.                  *)
Listener == [endpoint : Endpoints, name : Names, generation : ListenerHandles]
NativePendingConnect ==
    [connector_endpoint : Endpoints, listener_endpoint : Endpoints,
     listener_handle : ListenerHandles,
     prepared : {{}} \union {{h} : h \in ChannelHandles},
     max_item_bytes : Sizes \union {0}]
NativeLinkEnd ==
    [connect_id : ConnectIds, peer_endpoint : Endpoints, peer_channel_handle : ChannelHandles,
     max_item_bytes : Sizes, side : Side, published : BOOLEAN, output_closed : BOOLEAN]

(* An event: id is the connect id of a handshake event, handle a listener  *)
(* or channel handle, amount the credit, byte count or final length, guard *)
(* the target side it charges.                                             *)
EventKinds == {"IncomingConnect", "ConnectPrepared", "ConnectCommitted", "ConnectAborted",
               "Message", "Credit", "Close", "Reset"}
Event(kind, id, handle, amount, max, guard) ==
    [kind |-> kind, id |-> id, handle |-> handle, amount |-> amount, max |-> max,
     guard |-> guard]

Live == {e \in Endpoints : endpoint_state[e] = "live"}
Put(f, k, v) == [x \in DOMAIN f \union {k} |-> IF x = k THEN v ELSE f[x]]
Without(f, S) == [x \in DOMAIN f \ S |-> f[x]]

connector_side(c) ==
    [connect_id |-> c, role |-> "connector", endpoint |-> native_pending[c].connector_endpoint]
listener_side(c) ==
    [connect_id |-> c, role |-> "listener", endpoint |-> native_pending[c].listener_endpoint]
peer_key(k) == <<native_links[k].peer_endpoint, native_links[k].peer_channel_handle>>

-----------------------------------------------------------------------------
(* Guards and their release. *)

PendingSides == UNION {{connector_side(c), listener_side(c)} : c \in DOMAIN native_pending}
LinkSides == {native_links[k].side : k \in DOMAIN native_links}
QueuedSides(e) == UNION {events[e][i].guard : i \in DOMAIN events[e]}
TerminalSides(e) == UNION {t.guard : t \in terminal_events[e]}
HandSides(e) == UNION {v.guard : v \in in_hand[e]}
LaneSides == UNION {QueuedSides(e) \union TerminalSides(e) \union HandSides(e) : e \in Endpoints}
Held == PendingSides \union LinkSides \union LaneSides
PairsOf(S) == {s.connect_id : s \in S}
SlotsOf(S, e) == {s \in S : s.endpoint = e}

(* Drop for PairReservationInner and HandleSlotReservationInner: what was  *)
(* held or has just been reserved, and is held no longer, is given back.   *)
Settle(reserved) ==
    LET had == Held \union reserved
        gone == had \ Held'
        retired == PairsOf(had) \ PairsOf(Held')
    IN  /\ active_pairs' = active_pairs + Cardinality(PairsOf(reserved)) - Cardinality(retired)
        /\ endpoint_slots' =
               [e \in Endpoints |-> endpoint_slots[e] + Cardinality(SlotsOf(reserved, e))
                                       - Cardinality(SlotsOf(gone, e))]

(* try_send on the bounded lane. *)
CanSend(e) == Len(events[e]) < InternalQueue
Send(e, v) == events' = [events EXCEPT ![e] = Append(@, v)]

-----------------------------------------------------------------------------
(* Endpoints and listeners. *)

begin_shutdown ==
    /\ shutting_down' = TRUE
    /\ UNCHANGED <<endpoint_state, listeners, listener_names, next_listener_handle,
                   native_revision, native_pending, next_native_connect, native_links, lanes,
                   admission>>

(* next_native_endpoint only grows, so an identity is handed out once. *)
register_native_endpoint(e) ==
    /\ endpoint_state[e] = "unused"
    /\ endpoint_state' = [endpoint_state EXCEPT ![e] = "live"]
    /\ UNCHANGED <<shutting_down, listeners, listener_names, next_listener_handle,
                   native_revision, native_pending, next_native_connect, native_links, lanes,
                   admission>>

listener_count(e) == Cardinality({l \in DOMAIN listeners : listeners[l].endpoint = e})

(* wrapping_add(1).max(1), n times. *)
Mut_BumpThroughZero(n) == native_revision' = (native_revision + n) % (MaxRevision + 1)
Mut_BumpNothing(n) == native_revision' = native_revision
bump_revision(n) == native_revision' = ((native_revision - 1 + n) % MaxRevision) + 1

Mut_ListenOnTakenName(e, name) ==
    /\ ~shutting_down
    /\ e \in Live
    /\ Cardinality(DOMAIN listeners) < MaxListeners
    /\ listener_count(e) < ListenersPerEndpoint
    /\ next_listener_handle < MaxListenerHandle
ListenOk(e, name) ==
    /\ ~shutting_down
    /\ e \in Live
    /\ name \notin DOMAIN listener_names
    /\ Cardinality(DOMAIN listeners) < MaxListeners
    /\ listener_count(e) < ListenersPerEndpoint
    /\ next_listener_handle < MaxListenerHandle

native_listen(e, name) ==
    /\ ListenOk(e, name)
    /\ listeners' = Put(listeners, next_listener_handle,
                        [endpoint |-> e, name |-> name, generation |-> next_listener_handle])
    /\ listener_names' = Put(listener_names, name, next_listener_handle)
    /\ next_listener_handle' = next_listener_handle + 1
    /\ bump_revision(1)
    /\ UNCHANGED <<shutting_down, endpoint_state, native_pending, next_native_connect,
                   native_links, lanes, admission>>

remove_listeners(L) ==
    /\ listeners' = Without(listeners, L)
    /\ listener_names' = Without(listener_names, {listeners[l].name : l \in L})
    /\ bump_revision(Cardinality(L))

(* native_cancel_connect on a set of pending connects: each role that is   *)
(* still registered gets its ConnectAborted on the unbounded lane, both    *)
(* roles of a loopback connect included.                                   *)
Mut_AbortsListenerOnly(C, e) ==
    {Event("ConnectAborted", s.connect_id, 0, 0, 0, {s}) :
        s \in {r \in {listener_side(c) : c \in C} : r.endpoint = e /\ e \in Live}}
Aborts(C, e) ==
    {Event("ConnectAborted", s.connect_id, 0, 0, 0, {s}) :
        s \in {r \in UNION {{connector_side(c), listener_side(c)} : c \in C} :
                  r.endpoint = e /\ e \in Live}}

CloseListenerOk(e, l, generation) ==
    l \in DOMAIN listeners /\ listeners[l].endpoint = e /\ listeners[l].generation = generation

Mut_CloseKeepsPending(e, l, generation) ==
    /\ CloseListenerOk(e, l, generation)
    /\ remove_listeners({l})
    /\ UNCHANGED <<shutting_down, endpoint_state, next_listener_handle, native_pending,
                   next_native_connect, native_links, lanes, admission>>
native_close_listener(e, l, generation) ==
    LET C == {c \in DOMAIN native_pending : native_pending[c].listener_handle = l}
    IN  /\ CloseListenerOk(e, l, generation)
        /\ remove_listeners({l})
        /\ native_pending' = Without(native_pending, C)
        /\ terminal_events' = [x \in Endpoints |-> terminal_events[x] \union Aborts(C, x)]
        /\ UNCHANGED <<shutting_down, endpoint_state, next_listener_handle, next_native_connect,
                       native_links, events, in_hand>>
        /\ Settle({})

-----------------------------------------------------------------------------
(* The connect handshake. *)

(* reserve_pair: the two handle slots first (two on one endpoint for a     *)
(* loopback), then the pair count and the flow window.                     *)
Mut_ReserveLoopbackAsOne(e, a) ==
    endpoint_slots[e] + 1 <= HandlesPerEndpoint /\ endpoint_slots[a] + 1 <= HandlesPerEndpoint
reserve_handle_slots(e, a) ==
    IF e = a THEN endpoint_slots[e] + 2 <= HandlesPerEndpoint
             ELSE /\ endpoint_slots[e] + 1 <= HandlesPerEndpoint
                  /\ endpoint_slots[a] + 1 <= HandlesPerEndpoint
reserve_pair(e, a) ==
    /\ reserve_handle_slots(e, a)
    /\ active_pairs < ConnectedPairs
    /\ (active_pairs + 1) * PairWindow <= BufferBytes

(* Everything native_begin_connect checks before it takes a connect id. *)
BeginAdmitted(e, l, generation) ==
    /\ ~shutting_down
    /\ l \in DOMAIN listeners
    /\ listeners[l].generation = generation
    /\ e \in Live
    /\ listeners[l].endpoint \in Live
    /\ Cardinality({c \in DOMAIN native_pending : native_pending[c].connector_endpoint = e})
          < MaxPendingConnects
    /\ reserve_pair(e, listeners[l].endpoint)
    /\ next_native_connect < MaxConnectId
BeginOk(e, l, generation) ==
    BeginAdmitted(e, l, generation) /\ CanSend(listeners[l].endpoint)

native_begin_connect(e, l, generation, credit) ==
    LET c == next_native_connect
        a == listeners[l].endpoint
        reserved == {[connect_id |-> c, role |-> "connector", endpoint |-> e],
                     [connect_id |-> c, role |-> "listener", endpoint |-> a]}
    IN  /\ BeginOk(e, l, generation)
        /\ next_native_connect' = c + 1
        /\ Send(a, Event("IncomingConnect", c, l, credit, 0, {}))
        /\ native_pending' = Put(native_pending, c,
               [connector_endpoint |-> e, listener_endpoint |-> a, listener_handle |-> l,
                prepared |-> {}, max_item_bytes |-> 0])
        /\ UNCHANGED <<registry, native_links, terminal_events, in_hand>>
        /\ Settle(reserved)

(* The acceptor's lane is full: Backpressured, with the connect id spent   *)
(* and the reservation dropped on the way out.                             *)
Mut_BackpressuredLeak(e, l, generation) ==
    /\ BeginAdmitted(e, l, generation)
    /\ ~CanSend(listeners[l].endpoint)
    /\ next_native_connect' = next_native_connect + 1
    /\ active_pairs' = active_pairs + 1
    /\ UNCHANGED <<registry, native_pending, native_links, lanes, endpoint_slots>>
native_begin_connect_backpressured(e, l, generation) ==
    LET c == next_native_connect
        reserved == {[connect_id |-> c, role |-> "connector", endpoint |-> e],
                     [connect_id |-> c, role |-> "listener", endpoint |-> listeners[l].endpoint]}
    IN  /\ BeginAdmitted(e, l, generation)
        /\ ~CanSend(listeners[l].endpoint)
        /\ next_native_connect' = c + 1
        /\ UNCHANGED <<registry, native_pending, native_links, lanes>>
        /\ Settle(reserved)

PrepareOk(e, c, handle, credit, max) ==
    /\ c \in DOMAIN native_pending
    /\ native_pending[c].listener_endpoint = e
    /\ native_pending[c].prepared = {}
    /\ <<e, handle>> \notin DOMAIN native_links
    /\ max \in Sizes /\ max <= credit
    /\ native_pending[c].connector_endpoint \in Live
    /\ CanSend(native_pending[c].connector_endpoint)

native_prepare_connect(e, c, handle, credit, max) ==
    /\ PrepareOk(e, c, handle, credit, max)
    /\ Send(native_pending[c].connector_endpoint,
            Event("ConnectPrepared", c, 0, credit, max, {}))
    /\ native_pending' = [native_pending EXCEPT ![c].prepared = {handle},
                                                ![c].max_item_bytes = max]
    /\ UNCHANGED <<registry, next_native_connect, native_links, terminal_events, in_hand,
                   admission>>

CompleteOk(e, c, handle, max) ==
    /\ c \in DOMAIN native_pending
    /\ native_pending[c].connector_endpoint = e
    /\ native_pending[c].listener_endpoint \in Live
    /\ max \in Sizes /\ max <= native_pending[c].max_item_bytes
    /\ \E h \in native_pending[c].prepared :
          LET a == native_pending[c].listener_endpoint
          IN  /\ {<<e, handle>>, <<a, h>>} \intersect DOMAIN native_links = {}
              /\ <<e, handle>> # <<a, h>>

(* The pending connect becomes two link ends, neither published yet. *)
native_complete_connect(e, c, handle, max) ==
    LET a == native_pending[c].listener_endpoint
        End(peer, peer_handle, side) ==
            [connect_id |-> c, peer_endpoint |-> peer, peer_channel_handle |-> peer_handle,
             max_item_bytes |-> max, side |-> side, published |-> FALSE,
             output_closed |-> FALSE]
    IN  /\ CompleteOk(e, c, handle, max)
        /\ \E h \in native_pending[c].prepared :
              native_links' = Put(Put(native_links, <<e, handle>>, End(a, h, connector_side(c))),
                                  <<a, h>>, End(e, handle, listener_side(c)))
        /\ native_pending' = Without(native_pending, {c})
        /\ UNCHANGED <<registry, next_native_connect, lanes>>
        /\ Settle({})

(* native_reset on the link ends in K: both ends go at once, and the peer  *)
(* of each gets Reset on its unbounded lane with its own guard.            *)
Mut_ResetsNobody(K, e) == {}
Resets(K, e) ==
    {Event("Reset", 0, native_links[k].peer_channel_handle, 0, 0,
           {native_links[peer_key(k)].side}) :
        k \in {x \in K : /\ native_links[x].peer_endpoint = e
                         /\ e \in Live
                         /\ peer_key(x) \in DOMAIN native_links}}
Mut_ResetNearEnd(K) == Without(native_links, K)
ResetLinks(K) == Without(native_links, K \union {peer_key(k) : k \in K})

PublishAdmitted(e, c, handle, credit) ==
    /\ <<e, handle>> \in DOMAIN native_links
    /\ native_links[<<e, handle>>].connect_id = c
    /\ ~native_links[<<e, handle>>].published
    /\ credit >= native_links[<<e, handle>>].max_item_bytes
    /\ native_links[<<e, handle>>].peer_endpoint \in Live
PublishOk(e, c, handle, credit) ==
    PublishAdmitted(e, c, handle, credit) /\ CanSend(native_links[<<e, handle>>].peer_endpoint)

native_publish_connect(e, c, handle, credit) ==
    LET k == <<e, handle>>
    IN  /\ PublishOk(e, c, handle, credit)
        /\ Send(native_links[k].peer_endpoint,
                Event("ConnectCommitted", c, handle, credit, native_links[k].max_item_bytes, {}))
        /\ native_links' = [x \in DOMAIN native_links |->
               IF x \in {k, peer_key(k)} THEN [native_links[x] EXCEPT !.published = TRUE]
                                         ELSE native_links[x]]
        /\ UNCHANGED <<registry, native_pending, next_native_connect, terminal_events, in_hand,
                       admission>>

(* The acceptor's lane is full: the half-built link is reset. *)
native_publish_connect_backpressured(e, c, handle, credit) ==
    LET K == {<<e, handle>>}
    IN  /\ PublishAdmitted(e, c, handle, credit)
        /\ ~CanSend(native_links[<<e, handle>>].peer_endpoint)
        /\ terminal_events' = [x \in Endpoints |-> terminal_events[x] \union Resets(K, x)]
        /\ native_links' = ResetLinks(K)
        /\ UNCHANGED <<registry, native_pending, next_native_connect, events, in_hand>>
        /\ Settle({})

CancelOk(e, c) ==
    /\ c \in DOMAIN native_pending
    /\ e \in {native_pending[c].connector_endpoint, native_pending[c].listener_endpoint}

Mut_CancelKeepsPending(e, c) ==
    /\ CancelOk(e, c)
    /\ terminal_events' = [x \in Endpoints |-> terminal_events[x] \union Aborts({c}, x)]
    /\ UNCHANGED <<registry, native_pending, next_native_connect, native_links, events, in_hand>>
    /\ Settle({})
native_cancel_connect(e, c) ==
    /\ CancelOk(e, c)
    /\ native_pending' = Without(native_pending, {c})
    /\ terminal_events' = [x \in Endpoints |-> terminal_events[x] \union Aborts({c}, x)]
    /\ UNCHANGED <<registry, next_native_connect, native_links, events, in_hand>>
    /\ Settle({})

-----------------------------------------------------------------------------
(* Traffic on an established channel. *)

Mut_RouteUnpublished(k) ==
    /\ k \in DOMAIN native_links
    /\ peer_key(k) \in DOMAIN native_links
    /\ native_links[k].peer_endpoint \in Live
    /\ CanSend(native_links[k].peer_endpoint)
RouteOk(k) ==
    /\ k \in DOMAIN native_links
    /\ native_links[k].published
    /\ peer_key(k) \in DOMAIN native_links
    /\ native_links[k].peer_endpoint \in Live
    /\ CanSend(native_links[k].peer_endpoint)
SendOk(k) == RouteOk(k) /\ ~native_links[k].output_closed
Routed(kind, k, amount) ==
    Event(kind, 0, native_links[k].peer_channel_handle, amount, 0,
          {native_links[peer_key(k)].side})

native_send_message(e, handle, bytes) ==
    LET k == <<e, handle>>
    IN  /\ SendOk(k)
        /\ Send(native_links[k].peer_endpoint, Routed("Message", k, bytes))
        /\ UNCHANGED <<registry, native_pending, next_native_connect, native_links,
                       terminal_events, in_hand, admission>>

native_send_credit(e, handle, limit) ==
    LET k == <<e, handle>>
    IN  /\ RouteOk(k)
        /\ Send(native_links[k].peer_endpoint, Routed("Credit", k, limit))
        /\ UNCHANGED <<registry, native_pending, next_native_connect, native_links,
                       terminal_events, in_hand, admission>>

(* The link goes when the second direction closes. *)
native_send_close(e, handle, final) ==
    LET k == <<e, handle>>
        p == peer_key(k)
    IN  /\ SendOk(k)
        /\ Send(native_links[k].peer_endpoint, Routed("Close", k, final))
        /\ native_links' = IF native_links[p].output_closed
                              THEN Without(native_links, {k, p})
                              ELSE [native_links EXCEPT ![k].output_closed = TRUE]
        /\ UNCHANGED <<registry, native_pending, next_native_connect, terminal_events, in_hand>>
        /\ Settle({})

native_reset(e, handle) ==
    LET K == {<<e, handle>>}
    IN  /\ <<e, handle>> \in DOMAIN native_links
        /\ terminal_events' = [x \in Endpoints |-> terminal_events[x] \union Resets(K, x)]
        /\ native_links' = ResetLinks(K)
        /\ UNCHANGED <<registry, native_pending, next_native_connect, events, in_hand>>
        /\ Settle({})

-----------------------------------------------------------------------------
(* The end of an endpoint: pending connects are cancelled, links reset     *)
(* (one of the two ends of a loopback link finds the other already gone),  *)
(* then the endpoint and its listeners are removed.                        *)
Mut_ConnectsBegunBy(e) ==
    {c \in DOMAIN native_pending : native_pending[c].connector_endpoint = e}
ConnectsOf(e) ==
    {c \in DOMAIN native_pending :
        e \in {native_pending[c].connector_endpoint, native_pending[c].listener_endpoint}}
unregister_native_endpoint(e) ==
    LET C == ConnectsOf(e)
        mine == {k \in DOMAIN native_links : k[1] = e}
        loops == {k \in mine : peer_key(k) \in mine}
    IN  /\ e \in Live
        /\ native_pending' = Without(native_pending, C)
        /\ \E L \in SUBSET loops :
              LET K == (mine \ loops) \union L
              IN  /\ \A k \in loops : k \in L <=> peer_key(k) \notin L
                  /\ terminal_events' = [x \in Endpoints |->
                         terminal_events[x] \union Aborts(C, x) \union Resets(K, x)]
                  /\ native_links' = ResetLinks(K)
        /\ endpoint_state' = [endpoint_state EXCEPT ![e] = "gone"]
        /\ remove_listeners({l \in DOMAIN listeners : listeners[l].endpoint = e})
        /\ UNCHANGED <<shutting_down, next_listener_handle, next_native_connect, events, in_hand>>
        /\ Settle({})

-----------------------------------------------------------------------------
(* The receiving half of the two lanes, as the session loop uses it: one   *)
(* event in hand at a time, its guard alive until the handler is done.     *)
recv_event(e) ==
    /\ e \in Live /\ in_hand[e] = {} /\ events[e] # <<>>
    /\ in_hand' = [in_hand EXCEPT ![e] = {Head(events[e])}]
    /\ events' = [events EXCEPT ![e] = Tail(@)]
    /\ UNCHANGED <<registry, native_pending, next_native_connect, native_links, terminal_events,
                   admission>>

recv_terminal(e, v) ==
    /\ e \in Live /\ in_hand[e] = {} /\ v \in terminal_events[e]
    /\ in_hand' = [in_hand EXCEPT ![e] = {v}]
    /\ terminal_events' = [terminal_events EXCEPT ![e] = @ \ {v}]
    /\ UNCHANGED <<registry, native_pending, next_native_connect, native_links, events,
                   admission>>

drop_event(e) ==
    /\ in_hand[e] # {}
    /\ in_hand' = [in_hand EXCEPT ![e] = {}]
    /\ UNCHANGED <<registry, native_pending, next_native_connect, native_links, events,
                   terminal_events>>
    /\ Settle({})

(* The receivers are dropped when the session task returns, after it has   *)
(* unregistered its endpoint.                                              *)
drop_receivers(e) ==
    /\ endpoint_state[e] = "gone"
    /\ events[e] # <<>> \/ terminal_events[e] # {} \/ in_hand[e] # {}
    /\ events' = [events EXCEPT ![e] = <<>>]
    /\ terminal_events' = [terminal_events EXCEPT ![e] = {}]
    /\ in_hand' = [in_hand EXCEPT ![e] = {}]
    /\ UNCHANGED <<registry, native_pending, next_native_connect, native_links>>
    /\ Settle({})

-----------------------------------------------------------------------------
EmptyFunction == [x \in {} |-> x]

Init ==
    /\ shutting_down = FALSE
    /\ endpoint_state = [e \in Endpoints |-> "unused"]
    /\ listeners = EmptyFunction
    /\ listener_names = EmptyFunction
    /\ next_listener_handle = 1
    /\ native_revision = 1
    /\ native_pending = EmptyFunction
    /\ next_native_connect = 1
    /\ native_links = EmptyFunction
    /\ events = [e \in Endpoints |-> <<>>]
    /\ terminal_events = [e \in Endpoints |-> {}]
    /\ in_hand = [e \in Endpoints |-> {}]
    /\ active_pairs = 0
    /\ endpoint_slots = [e \in Endpoints |-> 0]

(* Sessions are not trusted here: any endpoint may call any operation with *)
(* any argument at any time.  ChannelSession says how they really call it. *)
Registration ==
    \/ begin_shutdown
    \/ \E e \in Endpoints : register_native_endpoint(e)
    \/ \E e \in Endpoints, n \in Names : native_listen(e, n)
    \/ \E e \in Endpoints, l, g \in ListenerHandles : native_close_listener(e, l, g)
    \/ \E e \in Endpoints : unregister_native_endpoint(e)
Handshake ==
    \/ \E e \in Endpoints, l, g \in ListenerHandles, n \in Sizes : native_begin_connect(e, l, g, n)
    \/ \E e \in Endpoints, l, g \in ListenerHandles : native_begin_connect_backpressured(e, l, g)
    \/ \E e \in Endpoints, c \in ConnectIds, h \in ChannelHandles, n, m \in Sizes :
          native_prepare_connect(e, c, h, n, m)
    \/ \E e \in Endpoints, c \in ConnectIds, h \in ChannelHandles, m \in Sizes :
          native_complete_connect(e, c, h, m)
    \/ \E e \in Endpoints, c \in ConnectIds, h \in ChannelHandles, n \in Sizes :
          native_publish_connect(e, c, h, n)
    \/ \E e \in Endpoints, c \in ConnectIds, h \in ChannelHandles, n \in Sizes :
          native_publish_connect_backpressured(e, c, h, n)
    \/ \E e \in Endpoints, c \in ConnectIds : native_cancel_connect(e, c)
Traffic ==
    \/ \E e \in Endpoints, h \in ChannelHandles, n \in Sizes : native_send_message(e, h, n)
    \/ \E e \in Endpoints, h \in ChannelHandles, n \in Limits : native_send_credit(e, h, n)
Ending ==
    \/ \E e \in Endpoints, h \in ChannelHandles, n \in Limits : native_send_close(e, h, n)
    \/ \E e \in Endpoints, h \in ChannelHandles : native_reset(e, h)
Receiving ==
    \/ \E e \in Endpoints : recv_event(e)
    \/ \E e \in Endpoints : \E v \in terminal_events[e] : recv_terminal(e, v)
    \/ \E e \in Endpoints : drop_event(e)
    \/ \E e \in Endpoints : drop_receivers(e)
Next == Registration \/ Handshake \/ Traffic \/ Ending \/ Receiving

Spec == Init /\ [][Next]_fabric
-----------------------------------------------------------------------------
(* Properties. *)

EventType ==
    [kind : EventKinds, id : Nat, handle : Nat \union ChannelHandles,
     amount : Nat, max : Nat, guard : SUBSET Side]

RegistryTypeOK ==
    /\ shutting_down \in BOOLEAN
    /\ endpoint_state \in [Endpoints -> {"unused", "live", "gone"}]
    /\ listeners \in [DOMAIN listeners -> Listener]
    /\ DOMAIN listeners \subseteq ListenerHandles
    /\ listener_names \in [DOMAIN listener_names -> ListenerHandles]
    /\ DOMAIN listener_names \subseteq Names
    /\ next_listener_handle \in Nat \ {0}
    /\ native_revision \in 1 .. MaxRevision
LinksTypeOK ==
    /\ native_pending \in [DOMAIN native_pending -> NativePendingConnect]
    /\ DOMAIN native_pending \subseteq ConnectIds
    /\ next_native_connect \in Nat \ {0}
    /\ native_links \in [DOMAIN native_links -> NativeLinkEnd]
    /\ DOMAIN native_links \subseteq Endpoints \X ChannelHandles
LanesTypeOK ==
    /\ events \in [Endpoints -> Seq(EventType)]
    /\ \A e \in Endpoints : Len(events[e]) <= InternalQueue
    /\ terminal_events \in [Endpoints -> SUBSET EventType]
    /\ in_hand \in [Endpoints -> SUBSET EventType]
AdmissionTypeOK ==
    /\ active_pairs \in Nat
    /\ endpoint_slots \in [Endpoints -> Nat]

(* Every field of ChannelFabric keeps the type channel.rs declares, and    *)
(* the bounded lane its capacity.                                          *)
TypeOK == RegistryTypeOK /\ LinksTypeOK /\ LanesTypeOK /\ AdmissionTypeOK

(* The two ends of a link are one object: a link end's peer is a different *)
(* key that is present, points back, and agrees on the connect, the item   *)
(* limit and publication; each end holds its own side's guard.  The code   *)
(* relies on it in every "remained live" expect and in peer_side.          *)
LinkSymmetry ==
    \A k \in DOMAIN native_links :
        LET p == peer_key(k)
        IN  /\ p \in DOMAIN native_links \ {k}
            /\ peer_key(p) = k
            /\ native_links[p].connect_id = native_links[k].connect_id
            /\ native_links[p].max_item_bytes = native_links[k].max_item_bytes
            /\ native_links[p].published = native_links[k].published
            /\ native_links[k].side.connect_id = native_links[k].connect_id
            /\ native_links[k].side.endpoint = k[1]
            /\ native_links[k].side.role # native_links[p].side.role

(* A connect is at one stage only: pending, or one link, or retired; a     *)
(* connect id that native_begin_connect has not handed out is at none.     *)
OneStage ==
    /\ \A k \in DOMAIN native_links :
          /\ native_links[k].connect_id \notin DOMAIN native_pending
          /\ native_links[k].connect_id < next_native_connect
          /\ \A j \in DOMAIN native_links :
                native_links[j].connect_id = native_links[k].connect_id => j \in {k, peer_key(k)}
    /\ \A c \in DOMAIN native_pending : c < next_native_connect

(* Pending connects, links and listeners belong to registered endpoints:   *)
(* unregister_native_endpoint leaves nothing of an endpoint behind, nor of *)
(* its peers' ends.                                                        *)
DeadEndpointClean ==
    /\ \A c \in DOMAIN native_pending :
          {native_pending[c].connector_endpoint, native_pending[c].listener_endpoint} \subseteq Live
    /\ \A k \in DOMAIN native_links : k[1] \in Live
    /\ \A l \in DOMAIN listeners : listeners[l].endpoint \in Live

(* Names are exclusive and handles are never reused: listener_names and    *)
(* listeners invert each other, below the next handle.                     *)
NamesMatch ==
    /\ \A l \in DOMAIN listeners : l < next_listener_handle
    /\ \A l \in DOMAIN listeners :
          listeners[l].name \in DOMAIN listener_names /\ listener_names[listeners[l].name] = l
    /\ \A n \in DOMAIN listener_names :
          listener_names[n] \in DOMAIN listeners /\ listeners[listener_names[n]].name = n

(* A connect stands on the listener it was begun on: as long as it is      *)
(* pending, that listener is open and belongs to the acceptor.  However    *)
(* often the name changes hands, no handshake goes on with a listener that *)
(* has closed, nor with the one that has taken its name.                   *)
PendingHasListener ==
    \A c \in DOMAIN native_pending :
        LET l == native_pending[c].listener_handle
        IN  l \in DOMAIN listeners /\ listeners[l].endpoint = native_pending[c].listener_endpoint

(* Names, listeners and handshakes agree on who listens: a name has one    *)
(* owner, and closing a listener, or losing its endpoint, leaves neither   *)
(* the name nor a connect behind for whoever listens next.                 *)
ListenersAreOwned == NamesMatch /\ PendingHasListener

TerminalKinds == {"ConnectAborted", "Reset"}
TerminalInHand(e) == {v \in in_hand[e] : v.kind \in TerminalKinds}
Terminals(e) == terminal_events[e] \union TerminalInHand(e)

(* The comment on NativeTerminalEvent: a pending connect or live link can  *)
(* enqueue only a bounded number of terminal events.  A side gets at most  *)
(* one, on its own endpoint's lane, and only once it is neither pending    *)
(* nor linked any more.                                                    *)
TerminalIsFinal ==
    \A e \in Endpoints : \A v \in Terminals(e) : \A s \in v.guard :
        /\ s.endpoint = e
        /\ s \notin PendingSides \union LinkSides
        /\ \A w \in Terminals(e) : s \in w.guard => w = v

(* The admission counters count the live guards exactly: no reservation    *)
(* leaks on an error path and none is returned twice.                      *)
AdmissionExact ==
    /\ active_pairs = Cardinality(PairsOf(Held))
    /\ \A e \in Endpoints : endpoint_slots[e] = Cardinality(SlotsOf(Held, e))

(* Admission limits hold over everything still charged, events that are    *)
(* queued or being handled included.                                       *)
AdmissionBounded ==
    /\ Cardinality(PairsOf(Held)) <= ConnectedPairs
    /\ Cardinality(PairsOf(Held)) * PairWindow <= BufferBytes
    /\ \A e \in Endpoints : Cardinality(SlotsOf(Held, e)) <= HandlesPerEndpoint

(* A guard belongs to a connect that native_begin_connect has handed out. *)
HeldAllocated == \A s \in Held : s.connect_id < next_native_connect

(* The inductive invariant of ChannelFabric: the counters are exact only   *)
(* because a fresh connect id owns no guard yet, and that takes the types  *)
(* and the structure of links and pending connects.                        *)
FabricInv ==
    /\ TypeOK
    /\ LinkSymmetry
    /\ OneStage
    /\ DeadEndpointClean
    /\ NamesMatch
    /\ HeldAllocated
    /\ AdmissionExact
    /\ AdmissionBounded

(* What the session of e has received and will still receive, in order. *)
Inbound(e) == IF in_hand[e] = {} THEN events[e]
              ELSE <<CHOOSE v \in in_hand[e] : TRUE>> \o events[e]

(* Nothing is routed behind a Close: once a direction has closed, no       *)
(* message and no second Close follows it in the receiver's lane.          *)
CloseIsLast ==
    \A e \in Endpoints : \A i, j \in DOMAIN Inbound(e) :
        i < j /\ Inbound(e)[i].kind = "Close" /\ Inbound(e)[j].kind \in {"Message", "Close"}
            => Inbound(e)[i].guard \intersect Inbound(e)[j].guard = {}

(* ACCEPT comes first: an acceptor's ConnectCommitted is never queued      *)
(* behind data, credit or a close of the same connect.                     *)
CommitIsFirst ==
    \A e \in Endpoints : \A i, j \in DOMAIN Inbound(e) :
        i < j /\ Inbound(e)[i].kind \in {"Message", "Credit", "Close"}
              /\ Inbound(e)[j].kind = "ConnectCommitted"
            => \A s \in Inbound(e)[i].guard : s.connect_id # Inbound(e)[j].id

(* The receiver of a lane can replay it: what it has of a connect starts   *)
(* with the ACCEPT and ends with the Close of the direction.               *)
LaneOrder == CommitIsFirst /\ CloseIsLast

(* A catalogue watcher compares revisions: whenever the set of listeners   *)
(* changes, so does the revision it is woken with.                         *)
CatalogueVersioned == [][listeners' # listeners => native_revision' # native_revision]_fabric

(* The stage of a connect, from where ChannelFabric keeps it. *)
LinksOf(c) == {k \in DOMAIN native_links : native_links[k].connect_id = c}
StageOf(c) ==
    IF c \in DOMAIN native_pending THEN "pending"
    ELSE IF LinksOf(c) = {} THEN IF c < next_native_connect THEN "retired" ELSE "new"
    ELSE IF \E k \in LinksOf(c) : ~native_links[k].published THEN "linked"
    ELSE IF \E k \in LinksOf(c) : native_links[k].output_closed THEN "half"
    ELSE "open"
Lifecycle == INSTANCE ConnectLifecycle WITH
    Ids <- ConnectIds, Pairs <- ConnectedPairs,
    stage <- [c \in ConnectIds |-> StageOf(c)], charged <- PairsOf(Held)

(* ChannelFabric implements ConnectLifecycle: whatever the sessions call   *)
(* and in whatever order, a connect only moves forward through its stages, *)
(* is never revived, and its pair is charged once, until its last guard.   *)
ImplementsLifecycle == Lifecycle!LifeSpec
=============================================================================
