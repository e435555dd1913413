------------------------- MODULE ChannelFabricProofs -------------------------
(***************************************************************************)
(* Proofs about ChannelFabric for every value of its constants.            *)
(***************************************************************************)
EXTENDS ChannelFabric, FiniteSetTheorems, TLAPS

(* wrapping_add(1).max(1): the revision stays a nonzero u64. *)
LEMMA WrapInRange ==
    ASSUME NEW r \in 1 .. MaxRevision, NEW n \in Nat
    PROVE  ((r - 1 + n) % MaxRevision) + 1 \in 1 .. MaxRevision
  <1>1. MaxRevision \in Nat \ {0} /\ r - 1 + n \in Nat
    BY FabricAssumption
  <1>2. (r - 1 + n) % MaxRevision \in 0 .. MaxRevision - 1
    BY <1>1
  <1> QED
    BY <1>1, <1>2

(* Listener tables are finite, since their handles are. *)
LEMMA ListenersFinite ==
    ASSUME RegistryTypeOK, NEW L \in SUBSET DOMAIN listeners
    PROVE  IsFiniteSet(L) /\ Cardinality(L) \in Nat
  <1>1. IsFiniteSet(ListenerHandles)
    BY FabricAssumption, FS_Interval DEF ListenerHandles
  <1>2. L \in SUBSET ListenerHandles
    BY DEF RegistryTypeOK
  <1> QED
    BY <1>1, <1>2, FS_Subset, FS_CardinalityType

-----------------------------------------------------------------------------
(* Types. *)

(* Connecting, sending, ending and receiving leave the registry alone:     *)
(* only registration, listen and shutdown write it.                        *)
LEMMA RegistryUnchanged ==
    ASSUME Handshake \/ Traffic \/ Ending \/ Receiving
    PROVE  UNCHANGED registry
  <1>1. CASE Handshake
    BY <1>1 DEF Handshake, native_begin_connect, native_begin_connect_backpressured,
        native_prepare_connect, native_complete_connect, native_publish_connect,
        native_publish_connect_backpressured, native_cancel_connect
  <1>2. CASE Traffic
    BY <1>2 DEF Traffic, native_send_message, native_send_credit
  <1>3. CASE Ending
    BY <1>3 DEF Ending, native_send_close, native_reset
  <1>4. CASE Receiving
    BY <1>4 DEF Receiving, recv_event, recv_terminal, drop_event, drop_receivers
  <1> QED
    BY <1>1, <1>2, <1>3, <1>4

(* Removing listeners keeps both registry maps and the revision typed.     *)
LEMMA RemoveListenersType ==
    ASSUME RegistryTypeOK, NEW L \in SUBSET DOMAIN listeners, remove_listeners(L)
    PROVE  /\ listeners' \in [DOMAIN listeners' -> Listener]
           /\ DOMAIN listeners' \subseteq ListenerHandles
           /\ listener_names' \in [DOMAIN listener_names' -> ListenerHandles]
           /\ DOMAIN listener_names' \subseteq Names
           /\ native_revision' \in 1 .. MaxRevision
  <1>1. native_revision' \in 1 .. MaxRevision
    BY ListenersFinite, WrapInRange DEF RegistryTypeOK, remove_listeners, bump_revision
  <1> QED
    BY <1>1 DEF RegistryTypeOK, remove_listeners, Without

(* Every step keeps the registry's part of the type invariant.             *)
LEMMA RegistryType ==
    ASSUME RegistryTypeOK, [Next]_fabric
    PROVE  RegistryTypeOK'
  <1>1. CASE Handshake \/ Traffic \/ Ending \/ Receiving
    BY <1>1, RegistryUnchanged DEF registry, RegistryTypeOK
  <1>2. CASE begin_shutdown
    BY <1>2 DEF begin_shutdown, RegistryTypeOK
  <1>3. ASSUME NEW e \in Endpoints, register_native_endpoint(e)
        PROVE  RegistryTypeOK'
    BY <1>3 DEF register_native_endpoint, RegistryTypeOK
  <1>4. ASSUME NEW e \in Endpoints, NEW n \in Names, native_listen(e, n)
        PROVE  RegistryTypeOK'
    <2>1. native_revision' \in 1 .. MaxRevision
      BY <1>4, WrapInRange DEF native_listen, bump_revision, RegistryTypeOK
    <2>2. next_listener_handle \in ListenerHandles
      BY <1>4, FabricAssumption
      DEF native_listen, ListenOk, RegistryTypeOK, ListenerHandles
    <2> QED
      BY <1>4, <2>1, <2>2 DEF native_listen, RegistryTypeOK, Put, Listener
  <1>5. ASSUME NEW e \in Endpoints, NEW l \in ListenerHandles, NEW g \in ListenerHandles,
               native_close_listener(e, l, g)
        PROVE  RegistryTypeOK'
    <2>1. {l} \in SUBSET DOMAIN listeners
      BY <1>5 DEF native_close_listener, CloseListenerOk
    <2> QED
      BY <1>5, <2>1, RemoveListenersType DEF native_close_listener, RegistryTypeOK
  <1>6. ASSUME NEW e \in Endpoints, unregister_native_endpoint(e)
        PROVE  RegistryTypeOK'
    <2> DEFINE L == {l \in DOMAIN listeners : listeners[l].endpoint = e}
    <2>1. remove_listeners(L) /\ UNCHANGED <<shutting_down, next_listener_handle>>
          /\ endpoint_state' = [endpoint_state EXCEPT ![e] = "gone"]
      BY <1>6 DEF unregister_native_endpoint
    <2> QED
      BY <2>1, RemoveListenersType DEF RegistryTypeOK
  <1>7. CASE UNCHANGED fabric
    BY <1>7 DEF fabric, registry, RegistryTypeOK
  <1> QED
    BY <1>1, <1>2, <1>3, <1>4, <1>5, <1>6, <1>7 DEF Next, Registration

(* Sending and receiving touch neither the pending connects nor the links. *)
LEMMA LinksUnchanged ==
    ASSUME Traffic \/ Receiving
    PROVE  UNCHANGED <<native_pending, next_native_connect, native_links>>
  BY DEF Traffic, native_send_message, native_send_credit, Receiving, recv_event,
         recv_terminal, drop_event, drop_receivers

(* Every step keeps the type of the pending connects and the links.        *)
LEMMA LinksType ==
    ASSUME RegistryTypeOK, LinksTypeOK, [Next]_fabric
    PROVE  LinksTypeOK'
  <1> USE DEF LinksTypeOK
  <1>1. CASE Traffic \/ Receiving
    BY <1>1, LinksUnchanged
  <1>2. CASE begin_shutdown
    BY <1>2 DEF begin_shutdown
  <1>3. ASSUME NEW e \in Endpoints, register_native_endpoint(e)
        PROVE  LinksTypeOK'
    BY <1>3 DEF register_native_endpoint
  <1>4. ASSUME NEW e \in Endpoints, NEW n \in Names, native_listen(e, n)
        PROVE  LinksTypeOK'
    BY <1>4 DEF native_listen
  <1>5. ASSUME NEW e \in Endpoints, NEW l \in ListenerHandles, NEW g \in ListenerHandles,
               native_close_listener(e, l, g)
        PROVE  LinksTypeOK'
    BY <1>5 DEF native_close_listener, Without
  <1>6. ASSUME NEW e \in Endpoints, unregister_native_endpoint(e)
        PROVE  LinksTypeOK'
    BY <1>6 DEF unregister_native_endpoint, ResetLinks, Without
  <1>7. ASSUME NEW e \in Endpoints, NEW l \in ListenerHandles, NEW g \in ListenerHandles,
               NEW n \in Sizes, native_begin_connect(e, l, g, n)
        PROVE  LinksTypeOK'
    <2>1. /\ l \in DOMAIN listeners /\ listeners[l].endpoint \in Endpoints
          /\ next_native_connect \in ConnectIds
      BY <1>7, FabricAssumption
      DEF native_begin_connect, BeginOk, BeginAdmitted, RegistryTypeOK, Listener, ConnectIds, Live
    <2>2. /\ next_native_connect' = next_native_connect + 1
          /\ native_pending' = Put(native_pending, next_native_connect,
                [connector_endpoint |-> e, listener_endpoint |-> listeners[l].endpoint,
                 listener_handle |-> l, prepared |-> {}, max_item_bytes |-> 0])
          /\ UNCHANGED native_links
      BY <1>7 DEF native_begin_connect
    <2> QED
      BY <2>1, <2>2 DEF Put, NativePendingConnect
  <1>8. ASSUME NEW e \in Endpoints, NEW l \in ListenerHandles, NEW g \in ListenerHandles,
               native_begin_connect_backpressured(e, l, g)
        PROVE  LinksTypeOK'
    BY <1>8 DEF native_begin_connect_backpressured
  <1>9. ASSUME NEW e \in Endpoints, NEW c \in ConnectIds, NEW h \in ChannelHandles,
               NEW n \in Sizes, NEW m \in Sizes, native_prepare_connect(e, c, h, n, m)
        PROVE  LinksTypeOK'
    BY <1>9 DEF native_prepare_connect, PrepareOk, NativePendingConnect
  <1>10. ASSUME NEW e \in Endpoints, NEW c \in ConnectIds, NEW h \in ChannelHandles,
                NEW m \in Sizes, native_complete_connect(e, c, h, m)
         PROVE  LinksTypeOK'
    <2> DEFINE a == native_pending[c].listener_endpoint
               End(peer, peer_handle, side) ==
                   [connect_id |-> c, peer_endpoint |-> peer, peer_channel_handle |-> peer_handle,
                    max_item_bytes |-> m, side |-> side, published |-> FALSE,
                    output_closed |-> FALSE]
    <2>1. /\ c \in DOMAIN native_pending /\ a \in Endpoints
          /\ connector_side(c) \in Side /\ listener_side(c) \in Side
      BY <1>10 DEF native_complete_connect, CompleteOk, NativePendingConnect, Side, Roles,
         connector_side, listener_side
    <2>2. PICK x \in native_pending[c].prepared :
              native_links' = Put(Put(native_links, <<e, h>>, End(a, x, connector_side(c))),
                                  <<a, x>>, End(e, h, listener_side(c)))
      BY <1>10 DEF native_complete_connect
    <2>3. x \in ChannelHandles
      BY <2>1, <2>2 DEF NativePendingConnect
    <2>4. End(a, x, connector_side(c)) \in NativeLinkEnd
          /\ End(e, h, listener_side(c)) \in NativeLinkEnd
      BY <2>1, <2>3 DEF NativeLinkEnd
    <2>5. native_links' \in [DOMAIN native_links' -> NativeLinkEnd]
          /\ DOMAIN native_links' \subseteq Endpoints \X ChannelHandles
      <3> HIDE DEF End, a
      <3> QED
        BY <2>1, <2>2, <2>3, <2>4 DEF Put
    <2> QED
      BY <1>10, <2>5 DEF native_complete_connect, Without
  <1>11. ASSUME NEW e \in Endpoints, NEW c \in ConnectIds, NEW h \in ChannelHandles,
                NEW n \in Sizes, native_publish_connect(e, c, h, n)
         PROVE  LinksTypeOK'
    BY <1>11 DEF native_publish_connect, NativeLinkEnd
  <1>12. ASSUME NEW e \in Endpoints, NEW c \in ConnectIds, NEW h \in ChannelHandles,
                NEW n \in Sizes, native_publish_connect_backpressured(e, c, h, n)
         PROVE  LinksTypeOK'
    BY <1>12 DEF native_publish_connect_backpressured, ResetLinks, Without
  <1>13. ASSUME NEW e \in Endpoints, NEW c \in ConnectIds, native_cancel_connect(e, c)
         PROVE  LinksTypeOK'
    BY <1>13 DEF native_cancel_connect, Without
  <1>14. ASSUME NEW e \in Endpoints, NEW h \in ChannelHandles, NEW n \in Limits,
                native_send_close(e, h, n)
         PROVE  LinksTypeOK'
    BY <1>14 DEF native_send_close, Without, NativeLinkEnd
  <1>15. ASSUME NEW e \in Endpoints, NEW h \in ChannelHandles, native_reset(e, h)
         PROVE  LinksTypeOK'
    BY <1>15 DEF native_reset, ResetLinks, Without
  <1>16. CASE UNCHANGED fabric
    BY <1>16 DEF fabric
  <1> QED
    BY <1>1, <1>2, <1>3, <1>4, <1>5, <1>6, <1>7, <1>8, <1>9, <1>10, <1>11, <1>12, <1>13, <1>14,
       <1>15, <1>16 DEF Next, Registration, Handshake, Ending

(* What the fabric puts into a lane is an event of the declared type. *)
LEMMA EventInType ==
    ASSUME NEW kind \in EventKinds, NEW id \in Nat, NEW handle \in Nat \union ChannelHandles,
           NEW amount \in Nat, NEW max \in Nat, NEW guard \in SUBSET Side
    PROVE  Event(kind, id, handle, amount, max, guard) \in EventType
  BY DEF Event, EventType

(* A successful try_send keeps the lanes typed and within their capacity.  *)
LEMMA SendType ==
    ASSUME LanesTypeOK, NEW e \in Endpoints, NEW v \in EventType, CanSend(e), Send(e, v)
    PROVE  /\ events' \in [Endpoints -> Seq(EventType)]
           /\ \A x \in Endpoints : Len(events'[x]) <= InternalQueue
  <1>1. events' = [events EXCEPT ![e] = Append(events[e], v)]
    BY DEF Send
  <1>2. /\ Append(events[e], v) \in Seq(EventType)
        /\ Len(Append(events[e], v)) = Len(events[e]) + 1
        /\ Len(events[e]) \in Nat /\ InternalQueue \in Nat
    BY FabricAssumption DEF LanesTypeOK
  <1>3. Len(Append(events[e], v)) <= InternalQueue
    BY <1>2 DEF CanSend
  <1> QED
    BY <1>1, <1>2, <1>3 DEF LanesTypeOK

(* The two guards of a pending connect are sides of a connect.             *)
LEMMA PendingSidesType ==
    ASSUME LinksTypeOK, NEW c \in DOMAIN native_pending
    PROVE  connector_side(c) \in Side /\ listener_side(c) \in Side
  BY DEF LinksTypeOK, NativePendingConnect, connector_side, listener_side, Side, Roles

(* The ConnectAborted terminals of the dropped connects are events.        *)
LEMMA AbortsType ==
    ASSUME LinksTypeOK, NEW C \in SUBSET DOMAIN native_pending, NEW x
    PROVE  Aborts(C, x) \subseteq EventType
  <1> SUFFICES ASSUME NEW v \in Aborts(C, x)
               PROVE  v \in EventType
    OBVIOUS
  <1>1. PICK c \in C : \E s \in {connector_side(c), listener_side(c)} :
            v = Event("ConnectAborted", s.connect_id, 0, 0, 0, {s})
    BY DEF Aborts
  <1>2. PICK s \in {connector_side(c), listener_side(c)} :
            v = Event("ConnectAborted", s.connect_id, 0, 0, 0, {s})
    BY <1>1
  <1>3. s \in Side
    BY <1>1, <1>2, PendingSidesType
  <1>4. s.connect_id \in Nat
    BY <1>3 DEF Side, ConnectIds
  <1> QED
    BY <1>2, <1>3, <1>4, EventInType DEF EventKinds

(* The Reset terminals of the removed links are events.                    *)
LEMMA ResetsType ==
    ASSUME LinksTypeOK, NEW K \in SUBSET DOMAIN native_links, NEW x
    PROVE  Resets(K, x) \subseteq EventType
  <1> SUFFICES ASSUME NEW v \in Resets(K, x)
               PROVE  v \in EventType
    OBVIOUS
  <1>1. PICK k \in K : /\ peer_key(k) \in DOMAIN native_links
                       /\ v = Event("Reset", 0, native_links[k].peer_channel_handle, 0, 0,
                                    {native_links[peer_key(k)].side})
    BY DEF Resets
  <1>2. /\ native_links[k].peer_channel_handle \in ChannelHandles
        /\ native_links[peer_key(k)].side \in Side
    BY <1>1 DEF LinksTypeOK, NativeLinkEnd
  <1> QED
    BY <1>1, <1>2, EventInType DEF EventKinds

(* An item routed over a link goes to an endpoint and is an event.         *)
LEMMA RoutedType ==
    ASSUME LinksTypeOK, NEW k, RouteOk(k), NEW kind \in EventKinds, NEW amount \in Nat
    PROVE  /\ native_links[k].peer_endpoint \in Endpoints
           /\ Routed(kind, k, amount) \in EventType
  <1>1. /\ k \in DOMAIN native_links /\ peer_key(k) \in DOMAIN native_links
        /\ native_links[k] \in NativeLinkEnd /\ native_links[peer_key(k)] \in NativeLinkEnd
    BY DEF RouteOk, LinksTypeOK
  <1>2. /\ native_links[k].peer_endpoint \in Endpoints
        /\ native_links[k].peer_channel_handle \in ChannelHandles
        /\ native_links[peer_key(k)].side \in Side
    BY <1>1 DEF NativeLinkEnd
  <1> QED
    BY <1>2, EventInType DEF Routed

(* Every step keeps the lanes' part of the type invariant: no queue        *)
(* outgrows its capacity.                                                  *)
LEMMA LanesType ==
    ASSUME RegistryTypeOK, LinksTypeOK, LanesTypeOK, [Next]_fabric
    PROVE  LanesTypeOK'
  <1>0. Sizes \subseteq Nat /\ Limits \subseteq Nat /\ ConnectIds \subseteq Nat
    BY FabricAssumption DEF ConnectIds
  <1>1. CASE begin_shutdown
    BY <1>1 DEF begin_shutdown, lanes, LanesTypeOK
  <1>2. ASSUME NEW e \in Endpoints, register_native_endpoint(e)
        PROVE  LanesTypeOK'
    BY <1>2 DEF register_native_endpoint, lanes, LanesTypeOK
  <1>3. ASSUME NEW e \in Endpoints, NEW n \in Names, native_listen(e, n)
        PROVE  LanesTypeOK'
    BY <1>3 DEF native_listen, lanes, LanesTypeOK
  <1>4. ASSUME NEW e \in Endpoints, NEW l \in ListenerHandles, NEW g \in ListenerHandles,
               native_close_listener(e, l, g)
        PROVE  LanesTypeOK'
    <2> DEFINE C == {c \in DOMAIN native_pending : native_pending[c].listener_handle = l}
    <2>1. /\ terminal_events' = [x \in Endpoints |-> terminal_events[x] \union Aborts(C, x)]
          /\ UNCHANGED <<events, in_hand>>
      BY <1>4 DEF native_close_listener
    <2>2. \A x : Aborts(C, x) \subseteq EventType
      BY AbortsType
    <2> QED
      BY <2>1, <2>2 DEF LanesTypeOK
  <1>5. ASSUME NEW e \in Endpoints, unregister_native_endpoint(e)
        PROVE  LanesTypeOK'
    <2>1. PICK K \in SUBSET DOMAIN native_links :
              terminal_events' = [x \in Endpoints |->
                  terminal_events[x] \union Aborts(ConnectsOf(e), x) \union Resets(K, x)]
      BY <1>5 DEF unregister_native_endpoint
    <2>2. \A x : Aborts(ConnectsOf(e), x) \subseteq EventType /\ Resets(K, x) \subseteq EventType
      BY AbortsType, ResetsType DEF ConnectsOf
    <2>3. UNCHANGED <<events, in_hand>>
      BY <1>5 DEF unregister_native_endpoint
    <2> QED
      BY <2>1, <2>2, <2>3 DEF LanesTypeOK
  <1>6. ASSUME NEW e \in Endpoints, NEW l \in ListenerHandles, NEW g \in ListenerHandles,
               NEW n \in Sizes, native_begin_connect(e, l, g, n)
        PROVE  LanesTypeOK'
    <2>1. /\ listeners[l].endpoint \in Endpoints
          /\ CanSend(listeners[l].endpoint)
          /\ next_native_connect \in Nat /\ l \in Nat /\ n \in Nat
      BY <1>6, <1>0
      DEF native_begin_connect, BeginOk, BeginAdmitted, RegistryTypeOK, LinksTypeOK, Listener,
          ListenerHandles
    <2>2. Send(listeners[l].endpoint, Event("IncomingConnect", next_native_connect, l, n, 0, {}))
          /\ UNCHANGED <<terminal_events, in_hand>>
      BY <1>6 DEF native_begin_connect
    <2>3. Event("IncomingConnect", next_native_connect, l, n, 0, {}) \in EventType
      BY <2>1, EventInType DEF EventKinds
    <2> QED
      BY <2>1, <2>2, <2>3, SendType DEF LanesTypeOK
  <1>7. ASSUME NEW e \in Endpoints, NEW l \in ListenerHandles, NEW g \in ListenerHandles,
               native_begin_connect_backpressured(e, l, g)
        PROVE  LanesTypeOK'
    BY <1>7 DEF native_begin_connect_backpressured, lanes, LanesTypeOK
  <1>8. ASSUME NEW e \in Endpoints, NEW c \in ConnectIds, NEW h \in ChannelHandles,
               NEW n \in Sizes, NEW m \in Sizes, native_prepare_connect(e, c, h, n, m)
        PROVE  LanesTypeOK'
    <2> DEFINE a == native_pending[c].connector_endpoint
               v == Event("ConnectPrepared", c, 0, n, m, {})
    <2>1. a \in Endpoints /\ CanSend(a)
      BY <1>8 DEF native_prepare_connect, PrepareOk, LinksTypeOK, NativePendingConnect
    <2>2. v \in EventType
      BY <1>0, EventInType DEF EventKinds
    <2>3. Send(a, v) /\ UNCHANGED <<terminal_events, in_hand>>
      BY <1>8 DEF native_prepare_connect
    <2> HIDE DEF a, v
    <2> QED
      BY <2>1, <2>2, <2>3, SendType DEF LanesTypeOK
  <1>9. ASSUME NEW e \in Endpoints, NEW c \in ConnectIds, NEW h \in ChannelHandles,
               NEW m \in Sizes, native_complete_connect(e, c, h, m)
        PROVE  LanesTypeOK'
    BY <1>9 DEF native_complete_connect, lanes, LanesTypeOK
  <1>10. ASSUME NEW e \in Endpoints, NEW c \in ConnectIds, NEW h \in ChannelHandles,
                NEW n \in Sizes, native_publish_connect(e, c, h, n)
         PROVE  LanesTypeOK'
    <2> DEFINE k == <<e, h>>
               a == native_links[k].peer_endpoint
               v == Event("ConnectCommitted", c, h, n, native_links[k].max_item_bytes, {})
    <2>1. a \in Endpoints /\ CanSend(a) /\ native_links[k].max_item_bytes \in Sizes
      BY <1>10 DEF native_publish_connect, PublishOk, PublishAdmitted, LinksTypeOK, NativeLinkEnd
    <2>2. v \in EventType
      BY <1>0, <2>1, EventInType DEF EventKinds
    <2>3. Send(a, v) /\ UNCHANGED <<terminal_events, in_hand>>
      BY <1>10 DEF native_publish_connect
    <2> HIDE DEF a, v
    <2> QED
      BY <2>1, <2>2, <2>3, SendType DEF LanesTypeOK
  <1>11. ASSUME NEW e \in Endpoints, NEW h \in ChannelHandles,
                terminal_events' = [x \in Endpoints |->
                    terminal_events[x] \union Resets({<<e, h>>}, x)],
                <<e, h>> \in DOMAIN native_links,
                UNCHANGED <<events, in_hand>>
         PROVE  LanesTypeOK'
    <2>1. \A x : Resets({<<e, h>>}, x) \subseteq EventType
      BY <1>11, ResetsType
    <2> QED
      BY <1>11, <2>1 DEF LanesTypeOK
  <1>12. ASSUME NEW e \in Endpoints, NEW c \in ConnectIds, NEW h \in ChannelHandles,
                NEW n \in Sizes, native_publish_connect_backpressured(e, c, h, n)
         PROVE  LanesTypeOK'
    BY <1>11, <1>12 DEF native_publish_connect_backpressured, PublishAdmitted
  <1>13. ASSUME NEW e \in Endpoints, NEW c \in ConnectIds, native_cancel_connect(e, c)
         PROVE  LanesTypeOK'
    <2>1. {c} \in SUBSET DOMAIN native_pending
      BY <1>13 DEF native_cancel_connect, CancelOk
    <2>2. \A x : Aborts({c}, x) \subseteq EventType
      BY <2>1, AbortsType
    <2> QED
      BY <1>13, <2>2 DEF native_cancel_connect, LanesTypeOK
  <1>14. ASSUME NEW e \in Endpoints, NEW h \in ChannelHandles, NEW kind \in EventKinds,
                NEW n \in Nat, RouteOk(<<e, h>>),
                Send(native_links[<<e, h>>].peer_endpoint, Routed(kind, <<e, h>>, n)),
                UNCHANGED <<terminal_events, in_hand>>
         PROVE  LanesTypeOK'
    <2>1. native_links[<<e, h>>].peer_endpoint \in Endpoints
          /\ Routed(kind, <<e, h>>, n) \in EventType
      BY <1>14, RoutedType
    <2>2. CanSend(native_links[<<e, h>>].peer_endpoint)
      BY <1>14 DEF RouteOk
    <2> QED
      BY <1>14, <2>1, <2>2, SendType DEF LanesTypeOK
  <1>15. ASSUME NEW e \in Endpoints, NEW h \in ChannelHandles, NEW n \in Sizes,
                native_send_message(e, h, n)
         PROVE  LanesTypeOK'
    BY <1>0, <1>14, <1>15 DEF native_send_message, SendOk, EventKinds
  <1>16. ASSUME NEW e \in Endpoints, NEW h \in ChannelHandles, NEW n \in Limits,
                native_send_credit(e, h, n)
         PROVE  LanesTypeOK'
    BY <1>0, <1>14, <1>16 DEF native_send_credit, EventKinds
  <1>17. ASSUME NEW e \in Endpoints, NEW h \in ChannelHandles, NEW n \in Limits,
                native_send_close(e, h, n)
         PROVE  LanesTypeOK'
    BY <1>0, <1>14, <1>17 DEF native_send_close, SendOk, EventKinds
  <1>18. ASSUME NEW e \in Endpoints, NEW h \in ChannelHandles, native_reset(e, h)
         PROVE  LanesTypeOK'
    BY <1>11, <1>18 DEF native_reset
  <1>19. ASSUME NEW e \in Endpoints, recv_event(e)
         PROVE  LanesTypeOK'
    <2>1. /\ Head(events[e]) \in EventType /\ Tail(events[e]) \in Seq(EventType)
          /\ Len(Tail(events[e])) <= Len(events[e])
          /\ Len(Tail(events[e])) \in Nat /\ Len(events[e]) \in Nat
      BY <1>19 DEF recv_event, LanesTypeOK
    <2>2. Len(Tail(events[e])) <= InternalQueue
      BY <2>1, FabricAssumption DEF LanesTypeOK
    <2> QED
      BY <1>19, <2>1, <2>2 DEF recv_event, LanesTypeOK
  <1>20. ASSUME NEW e \in Endpoints, NEW v \in terminal_events[e], recv_terminal(e, v)
         PROVE  LanesTypeOK'
    BY <1>20 DEF recv_terminal, LanesTypeOK
  <1>21. ASSUME NEW e \in Endpoints, drop_event(e)
         PROVE  LanesTypeOK'
    BY <1>21 DEF drop_event, LanesTypeOK
  <1>22. ASSUME NEW e \in Endpoints, drop_receivers(e)
         PROVE  LanesTypeOK'
    <2>1. << >> \in Seq(EventType) /\ Len(<< >>) <= InternalQueue
      BY FabricAssumption
    <2> QED
      BY <1>22, <2>1 DEF drop_receivers, LanesTypeOK
  <1>23. CASE UNCHANGED fabric
    BY <1>23 DEF fabric, lanes, LanesTypeOK
  <1> QED
    BY <1>1, <1>2, <1>3, <1>4, <1>5, <1>6, <1>7, <1>8, <1>9, <1>10, <1>12, <1>13, <1>15, <1>16,
       <1>17, <1>18, <1>19, <1>20, <1>21, <1>22, <1>23
    DEF Next, Registration, Handshake, Traffic, Ending, Receiving

-----------------------------------------------------------------------------
(* The structure of links, connects and registrations.  The facts about    *)
(* link tables are stated for any table, so that they apply before and     *)
(* after a step.                                                           *)

PeerIn(links, k) == <<links[k].peer_endpoint, links[k].peer_channel_handle>>
SymmetricAt(links, k, p) ==
    /\ p \in DOMAIN links \ {k}
    /\ PeerIn(links, p) = k
    /\ links[p].connect_id = links[k].connect_id
    /\ links[p].max_item_bytes = links[k].max_item_bytes
    /\ links[p].published = links[k].published
    /\ links[k].side.connect_id = links[k].connect_id
    /\ links[k].side.endpoint = k[1]
    /\ links[k].side.role # links[p].side.role
Symmetric(links) == \A k \in DOMAIN links : SymmetricAt(links, k, PeerIn(links, k))

(* Link symmetry, as a fact about the link map before the step.            *)
LEMMA SymmetricNow == LinkSymmetry <=> Symmetric(native_links)
  BY DEF LinkSymmetry, Symmetric, SymmetricAt, PeerIn, peer_key

(* Link symmetry, as a fact about the link map after the step.             *)
LEMMA SymmetricNext == LinkSymmetry' <=> Symmetric(native_links')
  BY DEF LinkSymmetry, Symmetric, SymmetricAt, PeerIn, peer_key

(* In a symmetric map a peer is another end of the map, and the peer of    *)
(* the peer is the end itself.                                             *)
LEMMA PeerFacts ==
    ASSUME NEW links, Symmetric(links), NEW k \in DOMAIN links
    PROVE  /\ PeerIn(links, k) \in DOMAIN links /\ PeerIn(links, k) # k
           /\ PeerIn(links, PeerIn(links, k)) = k
  BY DEF Symmetric, SymmetricAt

(* A reset takes whole links: no end is left whose peer is gone. *)
WithoutLinks(links, K) == Without(links, K \union {PeerIn(links, k) : k \in K})

(* Removing ends together with their peers keeps the map symmetric.        *)
LEMMA SymmetryAfterReset ==
    ASSUME NEW links, Symmetric(links), NEW K \in SUBSET DOMAIN links
    PROVE  Symmetric(WithoutLinks(links, K))
  <1> DEFINE new == WithoutLinks(links, K)
  <1>1. \A k \in DOMAIN new : /\ k \in DOMAIN links \ K /\ \A q \in K : PeerIn(links, q) # k
                              /\ new[k] = links[k]
    BY DEF WithoutLinks, Without
  <1> SUFFICES ASSUME NEW k \in DOMAIN new
               PROVE  SymmetricAt(new, k, PeerIn(new, k))
    BY DEF Symmetric
  <1> DEFINE p == PeerIn(links, k)
  <1>2. p \in DOMAIN links \ K
    BY <1>1, PeerFacts
  <1>3. ASSUME NEW q \in K, PeerIn(links, q) = p
        PROVE  FALSE
    <2>1. PeerIn(links, PeerIn(links, q)) = q /\ PeerIn(links, p) = k
      BY <1>1, PeerFacts
    <2> QED
      BY <1>1, <1>3, <2>1
  <1>4. p \in DOMAIN new /\ new[p] = links[p]
    BY <1>2, <1>3 DEF WithoutLinks, Without
  <1>5. PeerIn(new, k) = p /\ PeerIn(new, p) = PeerIn(links, p)
    BY <1>1, <1>4 DEF PeerIn
  <1>6. SymmetricAt(links, k, p)
    BY <1>1 DEF Symmetric
  <1> HIDE DEF p, new
  <1> QED
    BY <1>1, <1>4, <1>5, <1>6 DEF SymmetricAt

(* Links that keep their ends stay symmetric, whatever else of them        *)
(* changes, as long as publication is set on both ends.                    *)
SameEnds(links, new) ==
    /\ DOMAIN new = DOMAIN links
    /\ \A k \in DOMAIN links :
          /\ new[k].connect_id = links[k].connect_id
          /\ new[k].peer_endpoint = links[k].peer_endpoint
          /\ new[k].peer_channel_handle = links[k].peer_channel_handle
          /\ new[k].max_item_bytes = links[k].max_item_bytes
          /\ new[k].side = links[k].side

(* Updating ends in place, both published alike, keeps the map symmetric.  *)
LEMMA SymmetrySameEnds ==
    ASSUME NEW links, NEW new, Symmetric(links), SameEnds(links, new),
           \A k \in DOMAIN links : new[PeerIn(links, k)].published = new[k].published
    PROVE  Symmetric(new)
  <1> SUFFICES ASSUME NEW k \in DOMAIN links
               PROVE  SymmetricAt(new, k, PeerIn(new, k))
    BY DEF Symmetric, SameEnds
  <1> DEFINE p == PeerIn(links, k)
  <1>1. SymmetricAt(links, k, p)
    BY DEF Symmetric
  <1>2. p \in DOMAIN links /\ PeerIn(new, k) = p /\ PeerIn(new, p) = PeerIn(links, p)
    BY <1>1 DEF SymmetricAt, SameEnds, PeerIn
  <1>3. new[p].published = new[k].published
    OBVIOUS
  <1> HIDE DEF p
  <1> QED
    BY <1>1, <1>2, <1>3 DEF SymmetricAt, SameEnds

(* A new link between two fresh, different keys. *)
LEMMA SymmetryAfterComplete ==
    ASSUME NEW links, Symmetric(links), NEW k, NEW p, k # p,
           k \notin DOMAIN links, p \notin DOMAIN links, NEW near, NEW far,
           <<near.peer_endpoint, near.peer_channel_handle>> = p,
           <<far.peer_endpoint, far.peer_channel_handle>> = k,
           far.connect_id = near.connect_id, far.max_item_bytes = near.max_item_bytes,
           far.published = near.published, near.side.connect_id = near.connect_id,
           far.side.connect_id = far.connect_id, near.side.endpoint = k[1],
           far.side.endpoint = p[1], near.side.role # far.side.role
    PROVE  Symmetric(Put(Put(links, k, near), p, far))
  <1> DEFINE new == Put(Put(links, k, near), p, far)
  <1>1. /\ DOMAIN new = DOMAIN links \union {k, p}
        /\ new[k] = near /\ new[p] = far
        /\ \A j \in DOMAIN links : new[j] = links[j]
    BY DEF Put
  <1> HIDE DEF new
  <1>2. PeerIn(new, k) = p /\ PeerIn(new, p) = k
    BY <1>1 DEF PeerIn
  <1>3. SymmetricAt(new, k, p) /\ SymmetricAt(new, p, k)
    BY <1>1, <1>2 DEF SymmetricAt
  <1>4. ASSUME NEW j \in DOMAIN links
        PROVE  SymmetricAt(new, j, PeerIn(new, j))
    <2> DEFINE q == PeerIn(links, j)
    <2>1. SymmetricAt(links, j, q)
      BY DEF Symmetric
    <2>2. q \in DOMAIN links /\ new[q] = links[q] /\ new[j] = links[j]
      BY <1>1, <2>1 DEF SymmetricAt
    <2>3. PeerIn(new, j) = q /\ PeerIn(new, q) = PeerIn(links, q)
      BY <2>2 DEF PeerIn
    <2> HIDE DEF q
    <2> QED
      BY <1>1, <2>1, <2>2, <2>3 DEF SymmetricAt
  <1>5. Symmetric(new)
    BY <1>1, <1>2, <1>3, <1>4 DEF Symmetric
  <1> QED
    BY <1>5 DEF new

(* The four things a step can do to pending connects and links. *)
PendingShrinks ==
    /\ DOMAIN native_pending' \subseteq DOMAIN native_pending
    /\ UNCHANGED next_native_connect
KeepsLinks ==
    /\ UNCHANGED native_links
    /\ \/ PendingShrinks
       \/ /\ next_native_connect' = next_native_connect + 1
          /\ DOMAIN native_pending' \subseteq DOMAIN native_pending \union {next_native_connect}
ResetsLinks ==
    /\ PendingShrinks
    /\ \E K \in SUBSET DOMAIN native_links : native_links' = WithoutLinks(native_links, K)
UpdatesLinks ==
    /\ PendingShrinks
    /\ SameEnds(native_links, native_links')
    /\ \A k \in DOMAIN native_links :
          native_links'[PeerIn(native_links, k)].published = native_links'[k].published
CompletesLink ==
    \E e \in Endpoints, c \in ConnectIds, h \in ChannelHandles, m \in Sizes :
        native_complete_connect(e, c, h, m)

(* A step changes native_links in one of four ways: it keeps, resets or    *)
(* updates the ends, or completes one link.                                *)
LEMMA LinkSteps ==
    ASSUME LinksTypeOK, LinkSymmetry, [Next]_fabric
    PROVE  KeepsLinks \/ ResetsLinks \/ UpdatesLinks \/ CompletesLink
  <1>0. Symmetric(native_links)
    BY SymmetricNow
  <1>1. CASE Traffic \/ Receiving
    BY <1>1, LinksUnchanged DEF KeepsLinks, PendingShrinks
  <1>2. CASE begin_shutdown
    BY <1>2 DEF begin_shutdown, KeepsLinks, PendingShrinks
  <1>3. ASSUME NEW e \in Endpoints, register_native_endpoint(e)
        PROVE  KeepsLinks
    BY <1>3 DEF register_native_endpoint, KeepsLinks, PendingShrinks
  <1>4. ASSUME NEW e \in Endpoints, NEW n \in Names, native_listen(e, n)
        PROVE  KeepsLinks
    BY <1>4 DEF native_listen, KeepsLinks, PendingShrinks
  <1>5. ASSUME NEW e \in Endpoints, NEW l \in ListenerHandles, NEW g \in ListenerHandles,
               native_close_listener(e, l, g)
        PROVE  KeepsLinks
    BY <1>5 DEF native_close_listener, KeepsLinks, PendingShrinks, Without
  <1>6. ASSUME NEW e \in Endpoints, unregister_native_endpoint(e)
        PROVE  ResetsLinks
    <2>1. \E K \in SUBSET DOMAIN native_links : native_links' = ResetLinks(K)
      BY <1>6 DEF unregister_native_endpoint
    <2>2. PendingShrinks
      BY <1>6 DEF unregister_native_endpoint, PendingShrinks, Without
    <2> QED
      BY <2>1, <2>2 DEF ResetsLinks, ResetLinks, WithoutLinks, PeerIn, peer_key
  <1>7. ASSUME NEW e \in Endpoints, NEW l \in ListenerHandles, NEW g \in ListenerHandles,
               NEW n \in Sizes, native_begin_connect(e, l, g, n)
        PROVE  KeepsLinks
    BY <1>7 DEF native_begin_connect, KeepsLinks, Put
  <1>8. ASSUME NEW e \in Endpoints, NEW l \in ListenerHandles, NEW g \in ListenerHandles,
               native_begin_connect_backpressured(e, l, g)
        PROVE  KeepsLinks
    BY <1>8 DEF native_begin_connect_backpressured, KeepsLinks
  <1>9. ASSUME NEW e \in Endpoints, NEW c \in ConnectIds, NEW h \in ChannelHandles,
               NEW n \in Sizes, NEW m \in Sizes, native_prepare_connect(e, c, h, n, m)
        PROVE  KeepsLinks
    BY <1>9 DEF native_prepare_connect, KeepsLinks, PendingShrinks
  <1>10. ASSUME NEW e \in Endpoints, NEW c \in ConnectIds, NEW h \in ChannelHandles,
                NEW n \in Sizes, native_publish_connect(e, c, h, n)
         PROVE  UpdatesLinks
    <2> DEFINE k == <<e, h>>
               p == peer_key(k)
    <2>1. k \in DOMAIN native_links
      BY <1>10 DEF native_publish_connect, PublishOk, PublishAdmitted
    <2>2. PeerIn(native_links, k) = p /\ p \in DOMAIN native_links /\ PeerIn(native_links, p) = k
      BY <1>0, <2>1, PeerFacts DEF peer_key, PeerIn
    <2>3. native_links' = [x \in DOMAIN native_links |->
               IF x \in {k, p} THEN [native_links[x] EXCEPT !.published = TRUE]
                               ELSE native_links[x]]
      BY <1>10 DEF native_publish_connect
    <2> HIDE DEF k, p
    <2>4. SameEnds(native_links, native_links')
      BY <2>3 DEF SameEnds, LinksTypeOK, NativeLinkEnd
    <2>5. \A x \in {k, p} : x \in DOMAIN native_links /\ native_links'[x].published = TRUE
      BY <2>1, <2>2, <2>3 DEF LinksTypeOK, NativeLinkEnd
    <2>6. ASSUME NEW x \in DOMAIN native_links
          PROVE  native_links'[PeerIn(native_links, x)].published = native_links'[x].published
      <3> DEFINE q == PeerIn(native_links, x)
      <3>1. q \in DOMAIN native_links /\ PeerIn(native_links, q) = x
        BY <1>0, PeerFacts
      <3>2. x \in {k, p} <=> q \in {k, p}
        BY <2>2, <3>1
      <3>3. native_links[q].published = native_links[x].published
        BY <1>0 DEF Symmetric, SymmetricAt
      <3> HIDE DEF q
      <3> QED
        BY <2>3, <2>5, <3>1, <3>2, <3>3 DEF q
    <2> QED
      BY <1>10, <2>4, <2>6 DEF native_publish_connect, UpdatesLinks, PendingShrinks
  <1>11. ASSUME NEW e \in Endpoints, NEW c \in ConnectIds, NEW h \in ChannelHandles,
                NEW n \in Sizes, native_publish_connect_backpressured(e, c, h, n)
         PROVE  ResetsLinks
    BY <1>11 DEF native_publish_connect_backpressured, PublishAdmitted, ResetsLinks,
       PendingShrinks, ResetLinks, WithoutLinks, PeerIn, peer_key
  <1>12. ASSUME NEW e \in Endpoints, NEW c \in ConnectIds, native_cancel_connect(e, c)
         PROVE  KeepsLinks
    BY <1>12 DEF native_cancel_connect, KeepsLinks, PendingShrinks, Without
  <1>13. ASSUME NEW e \in Endpoints, NEW h \in ChannelHandles, NEW n \in Limits,
                native_send_close(e, h, n)
         PROVE  ResetsLinks \/ UpdatesLinks
    <2> DEFINE k == <<e, h>>
               p == peer_key(k)
    <2>1. k \in DOMAIN native_links
      BY <1>13 DEF native_send_close, SendOk, RouteOk
    <2>2. PendingShrinks
      BY <1>13 DEF native_send_close, PendingShrinks
    <2>3. CASE native_links' = Without(native_links, {k, p})
      <3>1. {k, p} = {k} \union {PeerIn(native_links, x) : x \in {k}}
        BY DEF PeerIn, peer_key
      <3> QED
        BY <2>1, <2>2, <2>3, <3>1 DEF ResetsLinks, WithoutLinks
    <2>4. CASE native_links' = [native_links EXCEPT ![k].output_closed = TRUE]
      <3>1. SameEnds(native_links, native_links')
        BY <2>1, <2>4 DEF SameEnds, LinksTypeOK, NativeLinkEnd
      <3>2. \A x \in DOMAIN native_links :
                native_links'[x].published = native_links[x].published
        BY <2>1, <2>4 DEF LinksTypeOK, NativeLinkEnd
      <3>3. \A x \in DOMAIN native_links :
                /\ PeerIn(native_links, x) \in DOMAIN native_links
                /\ native_links[PeerIn(native_links, x)].published = native_links[x].published
        BY <1>0 DEF Symmetric, SymmetricAt
      <3> QED
        BY <2>2, <3>1, <3>2, <3>3 DEF UpdatesLinks
    <2> QED
      BY <1>13, <2>3, <2>4 DEF native_send_close
  <1>14. ASSUME NEW e \in Endpoints, NEW h \in ChannelHandles, native_reset(e, h)
         PROVE  ResetsLinks
    BY <1>14 DEF native_reset, ResetsLinks, PendingShrinks, ResetLinks, WithoutLinks, PeerIn,
       peer_key
  <1>15. CASE UNCHANGED fabric
    BY <1>15 DEF fabric, KeepsLinks, PendingShrinks
  <1> QED
    BY <1>1, <1>2, <1>3, <1>4, <1>5, <1>6, <1>7, <1>8, <1>9, <1>10, <1>11, <1>12, <1>13, <1>14,
       <1>15 DEF Next, Registration, Handshake, Ending, CompletesLink

(* What native_complete_connect does to the table of links: the connect c  *)
(* gets the new keys k and p.                                              *)
NewLink(c, k, p) ==
    /\ c \in DOMAIN native_pending
    /\ DOMAIN native_links' = DOMAIN native_links \union {k, p}
    /\ k # p /\ k \notin DOMAIN native_links /\ p \notin DOMAIN native_links
    /\ \A j \in DOMAIN native_links : native_links'[j] = native_links[j]
    /\ PeerIn(native_links', k) = p /\ PeerIn(native_links', p) = k
    /\ native_links'[k].connect_id = c /\ native_links'[p].connect_id = c
    /\ native_links'[k].side = connector_side(c)
    /\ native_links'[p].side = listener_side(c)
    /\ k[1] = native_pending[c].connector_endpoint
    /\ p[1] = native_pending[c].listener_endpoint
    /\ Symmetric(native_links')

(* native_complete_connect consumes one pending connect and adds exactly   *)
(* the two ends of its link.                                               *)
LEMMA CompleteFacts ==
    ASSUME LinksTypeOK, LinkSymmetry, NEW e \in Endpoints, NEW c \in ConnectIds,
           NEW h \in ChannelHandles, NEW m \in Sizes, native_complete_connect(e, c, h, m)
    PROVE  \E k, p : NewLink(c, k, p)
  <1> DEFINE a == native_pending[c].listener_endpoint
             End(peer, peer_handle, side) ==
                 [connect_id |-> c, peer_endpoint |-> peer, peer_channel_handle |-> peer_handle,
                  max_item_bytes |-> m, side |-> side, published |-> FALSE,
                  output_closed |-> FALSE]
             k == <<e, h>>
             near(x) == End(a, x, connector_side(c))
             far == End(e, h, listener_side(c))
  <1>1. /\ c \in DOMAIN native_pending /\ native_pending[c].connector_endpoint = e
        /\ \E x \in native_pending[c].prepared :
               /\ k \notin DOMAIN native_links /\ <<a, x>> \notin DOMAIN native_links
               /\ k # <<a, x>>
    BY DEF native_complete_connect, CompleteOk
  <1>2. \A x, y \in native_pending[c].prepared : x = y
    BY <1>1 DEF LinksTypeOK, NativePendingConnect
  <1>3. PICK x \in native_pending[c].prepared :
            native_links' = Put(Put(native_links, k, near(x)), <<a, x>>, far)
    BY DEF native_complete_connect
  <1> DEFINE p == <<a, x>>
  <1>4. k \notin DOMAIN native_links /\ p \notin DOMAIN native_links /\ k # p
    BY <1>1, <1>2, <1>3
  <1>5. Symmetric(Put(Put(native_links, k, near(x)), p, far))
    <2>1. Symmetric(native_links)
      BY SymmetricNow
    <2>2. /\ connector_side(c).connect_id = c /\ listener_side(c).connect_id = c
          /\ connector_side(c).endpoint = e /\ listener_side(c).endpoint = a
          /\ connector_side(c).role # listener_side(c).role
      BY <1>1 DEF connector_side, listener_side
    <2>3. /\ <<near(x).peer_endpoint, near(x).peer_channel_handle>> = p
          /\ <<far.peer_endpoint, far.peer_channel_handle>> = k
          /\ far.connect_id = near(x).connect_id /\ far.max_item_bytes = near(x).max_item_bytes
          /\ far.published = near(x).published /\ near(x).connect_id = c
          /\ near(x).side = connector_side(c) /\ far.side = listener_side(c)
          /\ k[1] = e /\ p[1] = a
      OBVIOUS
    <2> HIDE DEF near, far, End, k, p, a
    <2> QED
      BY <1>4, <2>1, <2>2, <2>3, SymmetryAfterComplete
  <1>6. /\ near(x).connect_id = c /\ far.connect_id = c
        /\ near(x).side = connector_side(c) /\ far.side = listener_side(c)
        /\ <<near(x).peer_endpoint, near(x).peer_channel_handle>> = p
        /\ <<far.peer_endpoint, far.peer_channel_handle>> = k
        /\ k[1] = native_pending[c].connector_endpoint /\ p[1] = a
    BY <1>1
  <1>7. /\ DOMAIN native_links' = DOMAIN native_links \union {k, p}
        /\ native_links'[k] = near(x) /\ native_links'[p] = far
        /\ \A j \in DOMAIN native_links : native_links'[j] = native_links[j]
    <2> HIDE DEF near, far, k, a
    <2> QED
      BY <1>3, <1>4 DEF Put
  <1>8. Symmetric(native_links')
    BY <1>3, <1>5
  <1> HIDE DEF near, far, End, k, p
  <1>9. PeerIn(native_links', k) = p /\ PeerIn(native_links', p) = k
    BY <1>6, <1>7 DEF PeerIn
  <1> QED
    BY <1>1, <1>4, <1>6, <1>7, <1>8, <1>9 DEF NewLink

(* Every step preserves link symmetry.                                     *)
LEMMA SymmetryStep ==
    ASSUME LinksTypeOK, LinkSymmetry, [Next]_fabric
    PROVE  LinkSymmetry'
  <1> SUFFICES Symmetric(native_links')
    BY SymmetricNext
  <1>0. Symmetric(native_links)
    BY SymmetricNow
  <1>1. CASE KeepsLinks
    BY <1>0, <1>1 DEF KeepsLinks
  <1>2. CASE ResetsLinks
    BY <1>0, <1>2, SymmetryAfterReset DEF ResetsLinks
  <1>3. CASE UpdatesLinks
    BY <1>0, <1>3, SymmetrySameEnds DEF UpdatesLinks
  <1>4. CASE CompletesLink
    BY <1>4, CompleteFacts DEF CompletesLink, NewLink
  <1> QED
    BY <1>1, <1>2, <1>3, <1>4, LinkSteps

(* Every step preserves that a connect is pending or linked, never both,   *)
(* and that its id was issued.                                             *)
LEMMA OneStageStep ==
    ASSUME LinksTypeOK, LinkSymmetry, OneStage, [Next]_fabric
    PROVE  OneStage'
  <1>0. /\ \A k \in DOMAIN native_links : native_links[k].connect_id \in Nat
        /\ \A c \in DOMAIN native_pending : c \in Nat
        /\ next_native_connect \in Nat
    BY DEF LinksTypeOK, NativeLinkEnd, ConnectIds
  <1>1. CASE KeepsLinks
    <2>1. CASE PendingShrinks
      BY <1>1, <2>1 DEF KeepsLinks, PendingShrinks, OneStage, peer_key
    <2>2. CASE ~PendingShrinks
      BY <1>0, <1>1, <2>2 DEF KeepsLinks, OneStage, peer_key
    <2> QED
      BY <2>1, <2>2
  <1>2. CASE ResetsLinks
    <2>1. \A k \in DOMAIN native_links' :
              k \in DOMAIN native_links /\ native_links'[k] = native_links[k]
      BY <1>2 DEF ResetsLinks, WithoutLinks, Without
    <2> QED
      BY <1>2, <2>1 DEF ResetsLinks, PendingShrinks, OneStage, peer_key
  <1>3. CASE UpdatesLinks
    BY <1>3 DEF UpdatesLinks, SameEnds, PendingShrinks, OneStage, peer_key
  <1>4. CASE CompletesLink
    <2>1. PICK e \in Endpoints, c \in ConnectIds, h \in ChannelHandles, m \in Sizes :
              native_complete_connect(e, c, h, m)
      BY <1>4 DEF CompletesLink
    <2>2. PICK k, p : NewLink(c, k, p)
      BY <2>1, CompleteFacts
    <2>3. /\ DOMAIN native_pending' = DOMAIN native_pending \ {c}
          /\ UNCHANGED next_native_connect
      BY <2>1 DEF native_complete_connect, Without
    <2>4. \A j \in DOMAIN native_links : native_links[j].connect_id # c
      BY <2>2 DEF OneStage, NewLink
    <2>5. \A j \in DOMAIN native_links' :
              /\ native_links'[j].connect_id \notin DOMAIN native_pending'
              /\ native_links'[j].connect_id < next_native_connect'
      BY <1>0, <2>2, <2>3, <2>4 DEF OneStage, NewLink
    <2>6. ASSUME NEW i \in DOMAIN native_links', NEW j \in DOMAIN native_links',
                 native_links'[j].connect_id = native_links'[i].connect_id
          PROVE  j \in {i, PeerIn(native_links', i)}
      <3>1. CASE i \in {k, p}
        BY <2>2, <2>4, <2>6, <3>1 DEF NewLink
      <3>2. CASE i \in DOMAIN native_links /\ i \notin {k, p}
        <4>1. j \in DOMAIN native_links
          BY <2>2, <2>4, <2>6, <3>2 DEF NewLink
        <4> QED
          BY <2>2, <2>6, <3>2, <4>1 DEF NewLink, OneStage, PeerIn, peer_key
      <3> QED
        BY <2>2, <3>1, <3>2 DEF NewLink
    <2>7. \A x \in DOMAIN native_pending' : x < next_native_connect'
      BY <2>3 DEF OneStage
    <2> QED
      BY <2>5, <2>6, <2>7 DEF OneStage, PeerIn, peer_key
  <1> QED
    BY <1>1, <1>2, <1>3, <1>4, LinkSteps

(* A connect keeps its two endpoints while it is pending, and gets them    *)
(* from live registrations.                                                *)
LEMMA PendingEndpoints ==
    ASSUME LinksTypeOK, [Next]_fabric, NEW c \in DOMAIN native_pending'
    PROVE  \/ /\ c \in DOMAIN native_pending
              /\ native_pending'[c].connector_endpoint = native_pending[c].connector_endpoint
              /\ native_pending'[c].listener_endpoint = native_pending[c].listener_endpoint
           \/ /\ c = next_native_connect
              /\ native_pending'[c].connector_endpoint \in Live
              /\ native_pending'[c].listener_endpoint \in Live
  <1> DEFINE Kept == /\ c \in DOMAIN native_pending
                     /\ native_pending'[c].connector_endpoint
                           = native_pending[c].connector_endpoint
                     /\ native_pending'[c].listener_endpoint
                           = native_pending[c].listener_endpoint
  <1>1. CASE Traffic \/ Receiving
    BY <1>1, LinksUnchanged
  <1>2. CASE begin_shutdown
    BY <1>2 DEF begin_shutdown
  <1>3. ASSUME NEW e \in Endpoints, register_native_endpoint(e)
        PROVE  Kept
    BY <1>3 DEF register_native_endpoint
  <1>4. ASSUME NEW e \in Endpoints, NEW n \in Names, native_listen(e, n)
        PROVE  Kept
    BY <1>4 DEF native_listen
  <1>5. ASSUME NEW e \in Endpoints, NEW l \in ListenerHandles, NEW g \in ListenerHandles,
               native_close_listener(e, l, g)
        PROVE  Kept
    BY <1>5 DEF native_close_listener, Without
  <1>6. ASSUME NEW e \in Endpoints, unregister_native_endpoint(e)
        PROVE  Kept
    BY <1>6 DEF unregister_native_endpoint, Without
  <1>7. ASSUME NEW e \in Endpoints, NEW l \in ListenerHandles, NEW g \in ListenerHandles,
               NEW n \in Sizes, native_begin_connect(e, l, g, n), ~Kept
        PROVE  /\ c = next_native_connect
               /\ native_pending'[c].connector_endpoint \in Live
               /\ native_pending'[c].listener_endpoint \in Live
    BY <1>7 DEF native_begin_connect, BeginOk, BeginAdmitted, Put
  <1>8. ASSUME NEW e \in Endpoints, NEW l \in ListenerHandles, NEW g \in ListenerHandles,
               native_begin_connect_backpressured(e, l, g)
        PROVE  Kept
    BY <1>8 DEF native_begin_connect_backpressured
  <1>9. ASSUME NEW e \in Endpoints, NEW d \in ConnectIds, NEW h \in ChannelHandles,
               NEW n \in Sizes, NEW m \in Sizes, native_prepare_connect(e, d, h, n, m)
        PROVE  Kept
    BY <1>9 DEF native_prepare_connect, LinksTypeOK, NativePendingConnect
  <1>10. ASSUME NEW e \in Endpoints, NEW d \in ConnectIds, NEW h \in ChannelHandles,
                NEW m \in Sizes, native_complete_connect(e, d, h, m)
         PROVE  Kept
    BY <1>10 DEF native_complete_connect, Without
  <1>11. ASSUME NEW e \in Endpoints, NEW d \in ConnectIds, NEW h \in ChannelHandles,
                NEW n \in Sizes, \/ native_publish_connect(e, d, h, n)
                                 \/ native_publish_connect_backpressured(e, d, h, n)
         PROVE  Kept
    BY <1>11 DEF native_publish_connect, native_publish_connect_backpressured
  <1>12. ASSUME NEW e \in Endpoints, NEW d \in ConnectIds, native_cancel_connect(e, d)
         PROVE  Kept
    BY <1>12 DEF native_cancel_connect, Without
  <1>13. CASE Ending
    BY <1>13 DEF Ending, native_send_close, native_reset
  <1>14. CASE UNCHANGED fabric
    BY <1>14 DEF fabric
  <1> QED
    BY <1>1, <1>2, <1>3, <1>4, <1>5, <1>6, <1>7, <1>8, <1>9, <1>10, <1>11, <1>12, <1>13, <1>14
    DEF Next, Registration, Handshake

(* A step other than the end of an endpoint unregisters nobody. *)
LEMMA LiveGrows ==
    ASSUME RegistryTypeOK, [Next]_fabric,
           \A e \in Endpoints : ~unregister_native_endpoint(e)
    PROVE  Live \subseteq Live'
  <1>1. CASE Handshake \/ Traffic \/ Ending \/ Receiving
    BY <1>1, RegistryUnchanged DEF registry, Live
  <1>2. CASE Registration
    BY <1>2 DEF Registration, begin_shutdown, register_native_endpoint, native_listen,
       native_close_listener, Live, RegistryTypeOK
  <1>3. CASE UNCHANGED fabric
    BY <1>3 DEF fabric, registry, Live
  <1> QED
    BY <1>1, <1>2, <1>3 DEF Next

(* A listener present after a step was there before or belongs to a live   *)
(* endpoint.                                                               *)
LEMMA ListenerOwners ==
    ASSUME RegistryTypeOK, [Next]_fabric, NEW l \in DOMAIN listeners'
    PROVE  \/ l \in DOMAIN listeners /\ listeners'[l] = listeners[l]
           \/ listeners'[l].endpoint \in Live
  <1>1. CASE Handshake \/ Traffic \/ Ending \/ Receiving
    BY <1>1, RegistryUnchanged DEF registry
  <1>2. CASE begin_shutdown
    BY <1>2 DEF begin_shutdown
  <1>3. ASSUME NEW e \in Endpoints, \/ register_native_endpoint(e)
                                    \/ unregister_native_endpoint(e)
        PROVE  l \in DOMAIN listeners /\ listeners'[l] = listeners[l]
    BY <1>3 DEF register_native_endpoint, unregister_native_endpoint, remove_listeners, Without
  <1>4. ASSUME NEW e \in Endpoints, NEW n \in Names, native_listen(e, n)
        PROVE  \/ l \in DOMAIN listeners /\ listeners'[l] = listeners[l]
               \/ listeners'[l].endpoint \in Live
    BY <1>4 DEF native_listen, ListenOk, Put
  <1>5. ASSUME NEW e \in Endpoints, NEW k \in ListenerHandles, NEW g \in ListenerHandles,
               native_close_listener(e, k, g)
        PROVE  l \in DOMAIN listeners /\ listeners'[l] = listeners[l]
    BY <1>5 DEF native_close_listener, remove_listeners, Without
  <1>6. CASE UNCHANGED fabric
    BY <1>6 DEF fabric, registry
  <1> QED
    BY <1>1, <1>2, <1>3, <1>4, <1>5, <1>6 DEF Next, Registration

(* Every step preserves that an ended endpoint owns no listener, pending   *)
(* connect or link.                                                        *)
LEMMA CleanStep ==
    ASSUME RegistryTypeOK, LinksTypeOK, LinkSymmetry, DeadEndpointClean, [Next]_fabric
    PROVE  DeadEndpointClean'
  <1>0. Symmetric(native_links)
    BY SymmetricNow
  <1>1. ASSUME NEW e \in Endpoints, unregister_native_endpoint(e)
        PROVE  DeadEndpointClean'
    <2> DEFINE mine == {k \in DOMAIN native_links : k[1] = e}
               loops == {k \in mine : peer_key(k) \in mine}
    <2>1. Live' = Live \ {e}
      BY <1>1 DEF unregister_native_endpoint, Live, RegistryTypeOK
    <2>2. \A c \in DOMAIN native_pending' :
              {native_pending'[c].connector_endpoint, native_pending'[c].listener_endpoint}
                  \subseteq Live \ {e}
      BY <1>1 DEF unregister_native_endpoint, ConnectsOf, Without, DeadEndpointClean
    <2>3. \A l \in DOMAIN listeners' : listeners'[l].endpoint \in Live \ {e}
      BY <1>1 DEF unregister_native_endpoint, remove_listeners, Without, DeadEndpointClean
    <2>4. PICK L \in SUBSET loops :
              /\ \A k \in loops : k \in L <=> peer_key(k) \notin L
              /\ native_links' = ResetLinks((mine \ loops) \union L)
      BY <1>1 DEF unregister_native_endpoint
    <2>5. ASSUME NEW k \in DOMAIN native_links'
          PROVE  k \in DOMAIN native_links /\ k[1] # e
      <3>1. /\ k \in DOMAIN native_links /\ k \notin (mine \ loops) \union L
            /\ \A q \in (mine \ loops) \union L : peer_key(q) # k
        BY <2>4 DEF ResetLinks, Without
      <3>2. CASE k \in loops
        <4>1. peer_key(k) \in L
          BY <2>4, <3>1, <3>2
        <4>2. peer_key(peer_key(k)) = k
          BY <1>0, <3>1, PeerFacts DEF PeerIn, peer_key
        <4> QED
          BY <3>1, <4>1, <4>2
      <3> QED
        BY <3>1, <3>2
    <2>6. \A k \in DOMAIN native_links' : k[1] \in Live \ {e}
      BY <2>5 DEF DeadEndpointClean
    <2> QED
      BY <2>1, <2>2, <2>3, <2>6 DEF DeadEndpointClean
  <1>2. ASSUME \A e \in Endpoints : ~unregister_native_endpoint(e)
        PROVE  DeadEndpointClean'
    <2>1. Live \subseteq Live'
      BY <1>2, LiveGrows
    <2>2. \A c \in DOMAIN native_pending' :
              {native_pending'[c].connector_endpoint, native_pending'[c].listener_endpoint}
                  \subseteq Live
      BY PendingEndpoints DEF DeadEndpointClean
    <2>3. \A l \in DOMAIN listeners' : listeners'[l].endpoint \in Live
      BY ListenerOwners DEF DeadEndpointClean
    <2>4. ASSUME NEW k \in DOMAIN native_links'
          PROVE  k[1] \in Live
      <3>1. CASE k \in DOMAIN native_links
        BY <3>1 DEF DeadEndpointClean
      <3>2. CASE k \notin DOMAIN native_links
        <4>1. CompletesLink
          BY <2>4, <3>2, LinkSteps
          DEF KeepsLinks, ResetsLinks, UpdatesLinks, SameEnds, WithoutLinks, Without
        <4>2. \E c, j, p : NewLink(c, j, p)
          BY <4>1, CompleteFacts DEF CompletesLink
        <4> QED
          BY <2>4, <3>2, <4>2 DEF NewLink, DeadEndpointClean
      <3> QED
        BY <3>1, <3>2
    <2> QED
      BY <2>1, <2>2, <2>3, <2>4 DEF DeadEndpointClean
  <1> QED
    BY <1>1, <1>2

-----------------------------------------------------------------------------
(* Admission: Settle keeps the counters equal to the number of live        *)
(* guards.                                                                 *)

(* There are finitely many sides, so their subsets can be counted.         *)
LEMMA SideFinite == IsFiniteSet(Side) /\ IsFiniteSet(ConnectIds)
  <1> DEFINE T == (ConnectIds \X Roles) \X Endpoints
             f == [t \in T |-> [connect_id |-> t[1][1], role |-> t[1][2], endpoint |-> t[2]]]
  <1>1. IsFiniteSet(ConnectIds)
    BY FabricAssumption, FS_Interval DEF ConnectIds
  <1>2. IsFiniteSet(Roles)
    <2>1. IsFiniteSet({"connector"})
      BY FS_Singleton
    <2>2. IsFiniteSet({"connector"} \union {"listener"})
      BY <2>1, FS_AddElement
    <2>3. Roles = {"connector"} \union {"listener"}
      BY DEF Roles
    <2> QED
      BY <2>2, <2>3
  <1>3. IsFiniteSet(T)
    BY <1>1, <1>2, FabricAssumption, FS_Product
  <1>4. f \in Surjection(T, Side)
    <2>1. f \in [T -> Side]
      BY DEF Side
    <2>2. ASSUME NEW s \in Side
          PROVE  \E t \in T : f[t] = s
      <3>1. <<<<s.connect_id, s.role>>, s.endpoint>> \in T
        BY DEF Side
      <3>2. f[<<<<s.connect_id, s.role>>, s.endpoint>>] = s
        BY <3>1 DEF Side
      <3> QED
        BY <3>1, <3>2
    <2> QED
      BY <2>1, <2>2 DEF Surjection
  <1> QED
    BY <1>1, <1>3, <1>4, FS_Surjection

(* Counting what is held now and what is reserved, less what is dropped.   *)
LEMMA CountAfter ==
    ASSUME NEW U, IsFiniteSet(U), NEW A \in SUBSET U, NEW R \in SUBSET U, A \cap R = {},
           NEW N \in SUBSET (A \union R)
    PROVE  /\ Cardinality(N) \in Nat
           /\ Cardinality(N) <= Cardinality(A) + Cardinality(R)
           /\ Cardinality(A) \in Nat /\ Cardinality(R) \in Nat
           /\ Cardinality(A) + Cardinality(R) - Cardinality((A \union R) \ N) = Cardinality(N)
  <1>1. IsFiniteSet(A) /\ IsFiniteSet(R)
    BY FS_Subset
  <1>2. /\ IsFiniteSet(A \union R)
        /\ Cardinality(A \union R) = Cardinality(A) + Cardinality(R) - Cardinality(A \cap R)
    BY <1>1, FS_Union
  <1>3. /\ Cardinality(A) \in Nat /\ Cardinality(R) \in Nat /\ Cardinality(A \cap R) = 0
    BY <1>1, FS_CardinalityType, FS_EmptySet
  <1>4. /\ IsFiniteSet(N) /\ Cardinality(N) <= Cardinality(A \union R)
    BY <1>2, FS_Subset
  <1>5. Cardinality((A \union R) \ N)
           = Cardinality(A \union R) - Cardinality((A \union R) \cap N)
    BY <1>2, FS_Difference
  <1>6. Cardinality((A \union R) \cap N) = Cardinality(N)
    <2>1. (A \union R) \cap N = N
      OBVIOUS
    <2> QED
      BY <2>1, Zenon
  <1>7. Cardinality(N) \in Nat
    BY <1>4, FS_CardinalityType
  <1> QED
    BY <1>2, <1>3, <1>4, <1>5, <1>6, <1>7

(* The connects a set of sides belongs to are connect ids.                 *)
LEMMA PairsInIds ==
    ASSUME NEW S \in SUBSET Side
    PROVE  PairsOf(S) \in SUBSET ConnectIds
  BY DEF PairsOf, Side

(* Reservations for a fresh connect, then the drop of what is held no      *)
(* longer.                                                                 *)
LEMMA SettleExact ==
    ASSUME AdmissionExact, NEW reserved \in SUBSET Side, Held \in SUBSET Side,
           Held' \subseteq Held \union reserved,
           \A s \in Held, r \in reserved : s.connect_id # r.connect_id,
           Settle(reserved)
    PROVE  AdmissionExact'
  <1> DEFINE had == Held \union reserved
  <1>1. active_pairs' = Cardinality(PairsOf(Held'))
    <2>1. PairsOf(had) = PairsOf(Held) \union PairsOf(reserved)
          /\ PairsOf(Held) \cap PairsOf(reserved) = {}
          /\ PairsOf(Held') \in SUBSET (PairsOf(Held) \union PairsOf(reserved))
      BY DEF PairsOf
    <2>2. PairsOf(Held) \in SUBSET ConnectIds /\ PairsOf(reserved) \in SUBSET ConnectIds
      BY PairsInIds
    <2>3. Cardinality(PairsOf(Held)) + Cardinality(PairsOf(reserved))
             - Cardinality((PairsOf(Held) \union PairsOf(reserved)) \ PairsOf(Held'))
                = Cardinality(PairsOf(Held'))
      BY <2>1, <2>2, SideFinite, CountAfter
    <2>4. active_pairs' = active_pairs + Cardinality(PairsOf(reserved))
                             - Cardinality(PairsOf(had) \ PairsOf(Held'))
      BY DEF Settle
    <2>5. Cardinality(PairsOf(had) \ PairsOf(Held'))
             = Cardinality((PairsOf(Held) \union PairsOf(reserved)) \ PairsOf(Held'))
      BY <2>1, Zenon
    <2> QED
      BY <2>3, <2>4, <2>5 DEF AdmissionExact
  <1>2. ASSUME NEW e \in Endpoints
        PROVE  endpoint_slots'[e] = Cardinality(SlotsOf(Held', e))
    <2>1. /\ SlotsOf(Held, e) \in SUBSET Side /\ SlotsOf(reserved, e) \in SUBSET Side
          /\ SlotsOf(Held, e) \cap SlotsOf(reserved, e) = {}
          /\ SlotsOf(Held', e) \in SUBSET (SlotsOf(Held, e) \union SlotsOf(reserved, e))
          /\ SlotsOf(had \ Held', e)
                = (SlotsOf(Held, e) \union SlotsOf(reserved, e)) \ SlotsOf(Held', e)
      BY DEF SlotsOf
    <2>2. Cardinality(SlotsOf(Held, e)) + Cardinality(SlotsOf(reserved, e))
             - Cardinality((SlotsOf(Held, e) \union SlotsOf(reserved, e)) \ SlotsOf(Held', e))
                = Cardinality(SlotsOf(Held', e))
      BY <2>1, SideFinite, CountAfter
    <2>3. endpoint_slots'[e] = endpoint_slots[e] + Cardinality(SlotsOf(reserved, e))
                                  - Cardinality(SlotsOf(had \ Held', e))
      BY DEF Settle
    <2>4. Cardinality(SlotsOf(had \ Held', e))
             = Cardinality((SlotsOf(Held, e) \union SlotsOf(reserved, e)) \ SlotsOf(Held', e))
      BY <2>1, Zenon
    <2> QED
      BY <2>2, <2>3, <2>4 DEF AdmissionExact
  <1> QED
    BY <1>1, <1>2 DEF AdmissionExact

(* Who holds a side's guard, for any pending table, link table and lanes. *)
PendingHolds(pending, s) ==
    \E c \in DOMAIN pending :
        \/ s = [connect_id |-> c, role |-> "connector",
                endpoint |-> pending[c].connector_endpoint]
        \/ s = [connect_id |-> c, role |-> "listener",
                endpoint |-> pending[c].listener_endpoint]
LinkHolds(links, s) == \E k \in DOMAIN links : s = links[k].side
QueueHolds(q, s) == \E i \in DOMAIN q : s \in q[i].guard
SetHolds(S, s) == \E v \in S : s \in v.guard
LaneHolds(queues, terminals, hands, s) ==
    \E e \in Endpoints : \/ QueueHolds(queues[e], s)
                         \/ SetHolds(terminals[e], s)
                         \/ SetHolds(hands[e], s)
Holds(s) ==
    \/ PendingHolds(native_pending, s)
    \/ LinkHolds(native_links, s)
    \/ LaneHolds(events, terminal_events, in_hand, s)

(* The guards held before a step, by the place that holds them.            *)
LEMMA HeldNow == \A s : s \in Held <=> Holds(s)
  BY DEF Held, Holds, PendingSides, connector_side, listener_side, PendingHolds, LinkSides,
     LinkHolds, LaneSides, QueuedSides, TerminalSides, HandSides, LaneHolds, QueueHolds, SetHolds

(* The guards held after a step, by the place that holds them.             *)
LEMMA HeldNext ==
    \A s : s \in Held' <=> \/ PendingHolds(native_pending', s)
                           \/ LinkHolds(native_links', s)
                           \/ LaneHolds(events', terminal_events', in_hand', s)
  BY DEF Held, PendingSides, connector_side, listener_side, PendingHolds, LinkSides,
     LinkHolds, LaneSides, QueuedSides, TerminalSides, HandSides, LaneHolds, QueueHolds, SetHolds

(* Every held guard is a side of a connect.                                *)
LEMMA HeldType ==
    ASSUME LinksTypeOK, LanesTypeOK
    PROVE  Held \in SUBSET Side
  <1> SUFFICES ASSUME NEW s, Holds(s)
               PROVE  s \in Side
    BY HeldNow
  <1>1. CASE PendingHolds(native_pending, s)
    BY <1>1 DEF PendingHolds, LinksTypeOK, NativePendingConnect, Side, Roles
  <1>2. CASE LinkHolds(native_links, s)
    BY <1>2 DEF LinkHolds, LinksTypeOK, NativeLinkEnd
  <1>3. CASE LaneHolds(events, terminal_events, in_hand, s)
    <2>1. PICK e \in Endpoints : \/ QueueHolds(events[e], s)
                                 \/ SetHolds(terminal_events[e], s)
                                 \/ SetHolds(in_hand[e], s)
      BY <1>3 DEF LaneHolds
    <2>2. \E v \in EventType : s \in v.guard
      BY <2>1 DEF QueueHolds, SetHolds, LanesTypeOK
    <2> QED
      BY <2>2 DEF EventType
  <1> QED
    BY <1>1, <1>2, <1>3 DEF Holds

(* A queue holds after an append what it held and the guard of the new     *)
(* event.                                                                  *)
LEMMA AppendHolds ==
    ASSUME NEW q \in Seq(EventType), NEW v \in EventType, NEW s
    PROVE  QueueHolds(Append(q, v), s) <=> QueueHolds(q, s) \/ s \in v.guard
  <1>1. /\ DOMAIN q = 1 .. Len(q) /\ DOMAIN Append(q, v) = 1 .. Len(q) + 1
        /\ Append(q, v)[Len(q) + 1] = v /\ Len(q) \in Nat
        /\ \A i \in 1 .. Len(q) : Append(q, v)[i] = q[i]
    OBVIOUS
  <1>2. 1 .. Len(q) + 1 = (1 .. Len(q)) \union {Len(q) + 1}
    BY <1>1
  <1> QED
    BY <1>1, <1>2 DEF QueueHolds

(* A queue's guards are those of its head and of its tail.                 *)
LEMMA HeadTailHolds ==
    ASSUME NEW q \in Seq(EventType), q # << >>, NEW s
    PROVE  QueueHolds(q, s) <=> s \in Head(q).guard \/ QueueHolds(Tail(q), s)
  <1>1. /\ DOMAIN q = 1 .. Len(q) /\ DOMAIN Tail(q) = 1 .. Len(q) - 1
        /\ Len(q) \in Nat \ {0} /\ Head(q) = q[1]
        /\ \A i \in 1 .. Len(q) - 1 : Tail(q)[i] = q[i + 1]
    OBVIOUS
  <1>2. ASSUME QueueHolds(q, s), s \notin Head(q).guard
        PROVE  QueueHolds(Tail(q), s)
    <2>1. PICK i \in 1 .. Len(q) : s \in q[i].guard
      BY <1>1, <1>2 DEF QueueHolds
    <2>2. i # 1 /\ i - 1 \in 1 .. Len(q) - 1 /\ (i - 1) + 1 = i
      BY <1>1, <1>2, <2>1
    <2> QED
      BY <1>1, <2>1, <2>2 DEF QueueHolds
  <1>3. ASSUME QueueHolds(Tail(q), s)
        PROVE  QueueHolds(q, s)
    <2>1. PICK i \in 1 .. Len(q) - 1 : s \in q[i + 1].guard
      BY <1>1, <1>3 DEF QueueHolds
    <2>2. i + 1 \in 1 .. Len(q)
      BY <1>1
    <2> QED
      BY <1>1, <2>1, <2>2 DEF QueueHolds
  <1>4. ASSUME s \in Head(q).guard
        PROVE  QueueHolds(q, s)
    BY <1>1, <1>4 DEF QueueHolds
  <1> QED
    BY <1>2, <1>3, <1>4

(* A send adds the guard of its event to the lanes and nothing else.       *)
LEMMA SendHolds ==
    ASSUME LanesTypeOK, NEW e \in Endpoints, NEW v \in EventType, Send(e, v),
           UNCHANGED <<terminal_events, in_hand>>, NEW s
    PROVE  LaneHolds(events', terminal_events', in_hand', s)
              <=> LaneHolds(events, terminal_events, in_hand, s) \/ s \in v.guard
  <1>1. /\ events'[e] = Append(events[e], v)
        /\ \A x \in Endpoints : x # e => events'[x] = events[x]
    BY DEF Send, LanesTypeOK
  <1>2. events[e] \in Seq(EventType)
    BY DEF LanesTypeOK
  <1>3. QueueHolds(events'[e], s) <=> QueueHolds(events[e], s) \/ s \in v.guard
    BY <1>1, <1>2, AppendHolds
  <1> QED
    BY <1>1, <1>3 DEF LaneHolds

(* The terminals of dropped connects carry only guards of pending          *)
(* connects.                                                               *)
LEMMA AbortsHold ==
    ASSUME NEW C \in SUBSET DOMAIN native_pending, NEW x, NEW s, SetHolds(Aborts(C, x), s)
    PROVE  PendingHolds(native_pending, s)
  <1>1. PICK v \in Aborts(C, x) : s \in v.guard
    BY DEF SetHolds
  <1>2. \E c \in C : \E r \in {connector_side(c), listener_side(c)} :
            v = Event("ConnectAborted", r.connect_id, 0, 0, 0, {r})
    BY <1>1 DEF Aborts
  <1> QED
    BY <1>1, <1>2 DEF PendingHolds, Event, connector_side, listener_side

(* The terminals of removed links carry only guards of links.              *)
LEMMA ResetsHold ==
    ASSUME NEW K \in SUBSET DOMAIN native_links, NEW x, NEW s, SetHolds(Resets(K, x), s)
    PROVE  LinkHolds(native_links, s)
  <1>1. PICK v \in Resets(K, x) : s \in v.guard
    BY DEF SetHolds
  <1>2. \E k \in K : /\ peer_key(k) \in DOMAIN native_links
                     /\ v.guard = {native_links[peer_key(k)].side}
    BY <1>1 DEF Resets, Event
  <1> QED
    BY <1>1, <1>2 DEF LinkHolds

(* An item routed over a link carries only a guard a link holds.           *)
LEMMA RoutedHolds ==
    ASSUME NEW k, RouteOk(k), NEW kind, NEW amount, NEW s, s \in Routed(kind, k, amount).guard
    PROVE  LinkHolds(native_links, s)
  BY DEF RouteOk, Routed, Event, LinkHolds

(* Reset and ConnectAborted carry guards that were held already. *)
LEMMA TerminalsHold ==
    ASSUME NEW C \in SUBSET DOMAIN native_pending, NEW K \in SUBSET DOMAIN native_links,
           \A x \in Endpoints : terminal_events'[x] \subseteq
               terminal_events[x] \union Aborts(C, x) \union Resets(K, x),
           UNCHANGED <<events, in_hand>>, NEW s,
           LaneHolds(events', terminal_events', in_hand', s)
    PROVE  Holds(s)
  <1>1. PICK x \in Endpoints : \/ QueueHolds(events[x], s)
                               \/ SetHolds(terminal_events'[x], s)
                               \/ SetHolds(in_hand[x], s)
    BY DEF LaneHolds
  <1>2. CASE SetHolds(terminal_events'[x], s)
    <2>1. \/ SetHolds(terminal_events[x], s)
          \/ SetHolds(Aborts(C, x), s)
          \/ SetHolds(Resets(K, x), s)
      BY <1>2 DEF SetHolds
    <2> QED
      BY <2>1, AbortsHold, ResetsHold DEF Holds, LaneHolds
  <1> QED
    BY <1>1, <1>2 DEF Holds, LaneHolds

(* A link's guard after a step was held by a link or a pending connect     *)
(* before it.                                                              *)
LEMMA LinkHeldStep ==
    ASSUME LinksTypeOK, LinkSymmetry, [Next]_fabric, NEW s, LinkHolds(native_links', s)
    PROVE  LinkHolds(native_links, s) \/ PendingHolds(native_pending, s)
  <1>1. CASE KeepsLinks
    BY <1>1 DEF KeepsLinks
  <1>2. CASE ResetsLinks
    BY <1>2 DEF ResetsLinks, WithoutLinks, Without, LinkHolds
  <1>3. CASE UpdatesLinks
    BY <1>3 DEF UpdatesLinks, SameEnds, LinkHolds
  <1>4. CASE CompletesLink
    <2>1. PICK c, k, p : NewLink(c, k, p)
      BY <1>4, CompleteFacts DEF CompletesLink
    <2>2. \A j \in DOMAIN native_links' :
              \/ j \in DOMAIN native_links /\ native_links'[j] = native_links[j]
              \/ native_links'[j].side \in {connector_side(c), listener_side(c)}
      BY <2>1 DEF NewLink
    <2>3. c \in DOMAIN native_pending
      BY <2>1 DEF NewLink
    <2> QED
      BY <2>2, <2>3 DEF LinkHolds, PendingHolds, connector_side, listener_side
  <1> QED
    BY <1>1, <1>2, <1>3, <1>4, LinkSteps

(* A pending connect's guard after a step was held by it before, unless    *)
(* the connect is new.                                                     *)
LEMMA PendingHeldStep ==
    ASSUME LinksTypeOK, [Next]_fabric, NEW s, PendingHolds(native_pending', s)
    PROVE  \/ PendingHolds(native_pending, s)
           \/ s.connect_id = next_native_connect /\ next_native_connect \in DOMAIN native_pending'
  <1>1. PICK c \in DOMAIN native_pending' :
            s \in {[connect_id |-> c, role |-> "connector",
                    endpoint |-> native_pending'[c].connector_endpoint],
                   [connect_id |-> c, role |-> "listener",
                    endpoint |-> native_pending'[c].listener_endpoint]}
    BY DEF PendingHolds
  <1>2. s.connect_id = c
    BY <1>1
  <1> QED
    BY <1>1, <1>2, PendingEndpoints DEF PendingHolds

(* The three things a step can do to the admission counters: nothing, with *)
(* the same guards held; give back what is dropped; or reserve a pair for  *)
(* a fresh connect.                                                        *)
AdmissionKept == Held' = Held /\ UNCHANGED admission
AdmissionSettled == Held' \subseteq Held /\ Settle({})
NewSides(e, a) ==
    {[connect_id |-> next_native_connect, role |-> "connector", endpoint |-> e],
     [connect_id |-> next_native_connect, role |-> "listener", endpoint |-> a]}
AdmissionReserved ==
    \E e, a \in Endpoints :
        /\ reserve_pair(e, a)
        /\ next_native_connect \in ConnectIds
        /\ next_native_connect' = next_native_connect + 1
        /\ Held' \subseteq Held \union NewSides(e, a)
        /\ Settle(NewSides(e, a))

(* A step that begins no connect and invents no lane guard holds no new    *)
(* guard.                                                                  *)
LEMMA HeldShrinks ==
    ASSUME LinksTypeOK, LinkSymmetry, OneStage, [Next]_fabric,
           DOMAIN native_pending' \subseteq DOMAIN native_pending,
           \A s : LaneHolds(events', terminal_events', in_hand', s) => Holds(s)
    PROVE  Held' \subseteq Held
  <1>1. next_native_connect \notin DOMAIN native_pending'
    BY DEF OneStage, LinksTypeOK
  <1>2. \A s : PendingHolds(native_pending', s) => PendingHolds(native_pending, s)
    BY <1>1, PendingHeldStep
  <1>3. \A s : LinkHolds(native_links', s) =>
                   LinkHolds(native_links, s) \/ PendingHolds(native_pending, s)
    BY LinkHeldStep
  <1> QED
    BY <1>2, <1>3, HeldNow, HeldNext DEF Holds

(* A step that keeps the guards of pending connects and links, and gives   *)
(* the lanes only guards held already, holds the same guards.              *)
LEMMA HeldKept ==
    ASSUME UNCHANGED native_pending,
           \A s : LinkHolds(native_links', s) <=> LinkHolds(native_links, s),
           \A s : LaneHolds(events, terminal_events, in_hand, s) =>
                      LaneHolds(events', terminal_events', in_hand', s),
           \A s : LaneHolds(events', terminal_events', in_hand', s) => Holds(s)
    PROVE  Held' = Held
  <1>1. \A s : s \in Held' <=> s \in Held
    BY HeldNow, HeldNext DEF Holds
  <1> QED
    BY <1>1

(* A step keeps the held guards and the counters, returns what it drops,   *)
(* or first reserves both sides of a fresh connect.                        *)
LEMMA AdmissionSteps ==
    ASSUME RegistryTypeOK, LinksTypeOK, LanesTypeOK, LinkSymmetry, OneStage, [Next]_fabric
    PROVE  AdmissionKept \/ AdmissionSettled \/ AdmissionReserved
  <1>0. Sizes \subseteq Nat /\ Limits \subseteq Nat /\ ConnectIds \subseteq Nat
    BY FabricAssumption DEF ConnectIds
  <1>a. ASSUME UNCHANGED <<native_pending, native_links, lanes, admission>>
        PROVE  AdmissionKept
    BY <1>a, HeldKept DEF lanes, Holds, AdmissionKept
  <1>b. ASSUME NEW C \in SUBSET DOMAIN native_pending, NEW K \in SUBSET DOMAIN native_links,
               \A x \in Endpoints : terminal_events'[x] \subseteq
                   terminal_events[x] \union Aborts(C, x) \union Resets(K, x),
               DOMAIN native_pending' \subseteq DOMAIN native_pending,
               UNCHANGED <<events, in_hand>>, Settle({})
        PROVE  AdmissionSettled
    BY <1>b, TerminalsHold, HeldShrinks DEF AdmissionSettled
  <1>c. ASSUME NEW e \in Endpoints, NEW h \in ChannelHandles, NEW kind \in EventKinds,
               NEW n \in Nat, RouteOk(<<e, h>>),
               Send(native_links[<<e, h>>].peer_endpoint, Routed(kind, <<e, h>>, n)),
               UNCHANGED <<terminal_events, in_hand>>, NEW s
        PROVE  /\ LaneHolds(events', terminal_events', in_hand', s) => Holds(s)
               /\ LaneHolds(events, terminal_events, in_hand, s) =>
                      LaneHolds(events', terminal_events', in_hand', s)
    <2>1. native_links[<<e, h>>].peer_endpoint \in Endpoints
          /\ Routed(kind, <<e, h>>, n) \in EventType
      BY <1>c, RoutedType
    <2> QED
      BY <1>c, <2>1, SendHolds, RoutedHolds DEF Holds
  <1>1. CASE begin_shutdown
    BY <1>1, <1>a DEF begin_shutdown
  <1>2. ASSUME NEW e \in Endpoints, register_native_endpoint(e)
        PROVE  AdmissionKept
    BY <1>2, <1>a DEF register_native_endpoint
  <1>3. ASSUME NEW e \in Endpoints, NEW n \in Names, native_listen(e, n)
        PROVE  AdmissionKept
    BY <1>3, <1>a DEF native_listen
  <1>4. ASSUME NEW e \in Endpoints, NEW l \in ListenerHandles, NEW g \in ListenerHandles,
               native_close_listener(e, l, g)
        PROVE  AdmissionSettled
    <2> DEFINE C == {c \in DOMAIN native_pending : native_pending[c].listener_handle = l}
    <2>1. /\ terminal_events' = [x \in Endpoints |-> terminal_events[x] \union Aborts(C, x)]
          /\ UNCHANGED <<events, in_hand>>
          /\ native_pending' = Without(native_pending, C)
          /\ Settle({})
      BY <1>4 DEF native_close_listener
    <2>2. DOMAIN native_pending' \subseteq DOMAIN native_pending
      BY <2>1 DEF Without
    <2>3. C \in SUBSET DOMAIN native_pending /\ {} \in SUBSET DOMAIN native_links
      OBVIOUS
    <2> HIDE DEF C
    <2> QED
      BY <1>b, <2>1, <2>2, <2>3
  <1>5. ASSUME NEW e \in Endpoints, unregister_native_endpoint(e)
        PROVE  AdmissionSettled
    <2>1. PICK K \in SUBSET DOMAIN native_links :
              terminal_events' = [x \in Endpoints |->
                  terminal_events[x] \union Aborts(ConnectsOf(e), x) \union Resets(K, x)]
      BY <1>5 DEF unregister_native_endpoint
    <2>2. /\ UNCHANGED <<events, in_hand>> /\ Settle({})
          /\ DOMAIN native_pending' \subseteq DOMAIN native_pending
      BY <1>5 DEF unregister_native_endpoint, Without
    <2>3. ConnectsOf(e) \in SUBSET DOMAIN native_pending
      BY DEF ConnectsOf
    <2> QED
      BY <1>b, <2>1, <2>2, <2>3
  <1>6. ASSUME NEW e \in Endpoints, NEW l \in ListenerHandles, NEW g \in ListenerHandles,
               NEW n \in Sizes, native_begin_connect(e, l, g, n)
        PROVE  AdmissionReserved
    <2> DEFINE a == listeners[l].endpoint
               c == next_native_connect
               v == Event("IncomingConnect", c, l, n, 0, {})
    <2>1. /\ a \in Endpoints /\ reserve_pair(e, a) /\ c \in ConnectIds
          /\ c \in Nat /\ l \in Nat /\ n \in Nat
      BY <1>6, <1>0, FabricAssumption
      DEF native_begin_connect, BeginOk, BeginAdmitted, RegistryTypeOK, LinksTypeOK, Listener,
          ListenerHandles, ConnectIds
    <2>2. /\ Send(a, v) /\ UNCHANGED <<terminal_events, in_hand>> /\ UNCHANGED native_links
          /\ next_native_connect' = c + 1
          /\ Settle(NewSides(e, a))
          /\ native_pending' = Put(native_pending, c,
                [connector_endpoint |-> e, listener_endpoint |-> a, listener_handle |-> l,
                 prepared |-> {}, max_item_bytes |-> 0])
      BY <1>6 DEF native_begin_connect, NewSides
    <2>3. v \in EventType /\ v.guard = {}
      BY <2>1, EventInType DEF EventKinds, Event
    <2>4. \A s : LaneHolds(events', terminal_events', in_hand', s)
                    => LaneHolds(events, terminal_events, in_hand, s)
      <3> HIDE DEF v, a
      <3> QED
        BY <2>1, <2>2, <2>3, SendHolds
    <2>5. \A s : PendingHolds(native_pending', s)
                    => PendingHolds(native_pending, s) \/ s \in NewSides(e, a)
      BY <2>2 DEF Put, PendingHolds, NewSides
    <2>6. Held' \subseteq Held \union NewSides(e, a)
      BY <2>2, <2>4, <2>5, HeldNow, HeldNext DEF Holds
    <2> QED
      BY <2>1, <2>2, <2>6 DEF AdmissionReserved
  <1>7. ASSUME NEW e \in Endpoints, NEW l \in ListenerHandles, NEW g \in ListenerHandles,
               native_begin_connect_backpressured(e, l, g)
        PROVE  AdmissionReserved
    <2> DEFINE a == listeners[l].endpoint
    <2>1. /\ a \in Endpoints /\ reserve_pair(e, a) /\ next_native_connect \in ConnectIds
      BY <1>7, FabricAssumption
      DEF native_begin_connect_backpressured, BeginAdmitted, RegistryTypeOK, LinksTypeOK,
          Listener, ConnectIds
    <2>2. /\ next_native_connect' = next_native_connect + 1
          /\ Settle(NewSides(e, a))
          /\ UNCHANGED <<native_pending, native_links, events, terminal_events, in_hand>>
      BY <1>7 DEF native_begin_connect_backpressured, NewSides, lanes
    <2>3. Held' \subseteq Held
      BY <2>2, HeldNow, HeldNext DEF Holds
    <2> QED
      BY <2>1, <2>2, <2>3 DEF AdmissionReserved
  <1>8. ASSUME NEW e \in Endpoints, NEW c \in ConnectIds, NEW h \in ChannelHandles,
               NEW n \in Sizes, NEW m \in Sizes, native_prepare_connect(e, c, h, n, m)
        PROVE  AdmissionKept
    <2> DEFINE a == native_pending[c].connector_endpoint
               v == Event("ConnectPrepared", c, 0, n, m, {})
    <2>1. a \in Endpoints /\ c \in DOMAIN native_pending
      BY <1>8 DEF native_prepare_connect, PrepareOk, LinksTypeOK, NativePendingConnect
    <2>2. v \in EventType /\ v.guard = {}
      BY <1>0, EventInType DEF EventKinds, Event
    <2>3. /\ Send(a, v) /\ UNCHANGED <<terminal_events, in_hand>>
          /\ UNCHANGED native_links /\ UNCHANGED admission
          /\ native_pending' =
                [native_pending EXCEPT ![c].prepared = {h}, ![c].max_item_bytes = m]
      BY <1>8 DEF native_prepare_connect
    <2>4. \A s : PendingHolds(native_pending', s) <=> PendingHolds(native_pending, s)
      BY <2>1, <2>3 DEF PendingHolds, LinksTypeOK, NativePendingConnect
    <2>5. \A s : LaneHolds(events', terminal_events', in_hand', s)
                    <=> LaneHolds(events, terminal_events, in_hand, s)
      <3> HIDE DEF v, a
      <3> QED
        BY <2>1, <2>2, <2>3, SendHolds
    <2>6. \A s : s \in Held' <=> s \in Held
      BY <2>3, <2>4, <2>5, HeldNow, HeldNext DEF Holds
    <2> QED
      BY <2>3, <2>6 DEF AdmissionKept
  <1>9. ASSUME NEW e \in Endpoints, NEW c \in ConnectIds, NEW h \in ChannelHandles,
               NEW m \in Sizes, native_complete_connect(e, c, h, m)
        PROVE  AdmissionSettled
    <2>1. /\ UNCHANGED lanes /\ Settle({})
          /\ DOMAIN native_pending' \subseteq DOMAIN native_pending
      BY <1>9 DEF native_complete_connect, Without
    <2> QED
      BY <2>1, HeldShrinks DEF AdmissionSettled, lanes, Holds
  <1>10. ASSUME NEW e \in Endpoints, NEW c \in ConnectIds, NEW h \in ChannelHandles,
                NEW n \in Sizes, native_publish_connect(e, c, h, n)
         PROVE  AdmissionKept
    <2> DEFINE k == <<e, h>>
               a == native_links[k].peer_endpoint
               v == Event("ConnectCommitted", c, h, n, native_links[k].max_item_bytes, {})
    <2>1. a \in Endpoints /\ native_links[k].max_item_bytes \in Sizes
      BY <1>10 DEF native_publish_connect, PublishOk, PublishAdmitted, LinksTypeOK, NativeLinkEnd
    <2>2. v \in EventType /\ v.guard = {}
      BY <1>0, <2>1, EventInType DEF EventKinds, Event
    <2>3. /\ Send(a, v) /\ UNCHANGED <<terminal_events, in_hand>>
          /\ UNCHANGED native_pending /\ UNCHANGED admission
          /\ native_links' = [x \in DOMAIN native_links |->
                IF x \in {k, peer_key(k)} THEN [native_links[x] EXCEPT !.published = TRUE]
                                          ELSE native_links[x]]
      BY <1>10 DEF native_publish_connect
    <2>4. \A s : LinkHolds(native_links', s) <=> LinkHolds(native_links, s)
      BY <2>3 DEF LinkHolds, LinksTypeOK, NativeLinkEnd
    <2>5. \A s : LaneHolds(events', terminal_events', in_hand', s)
                    <=> LaneHolds(events, terminal_events, in_hand, s)
      <3> HIDE DEF v, a
      <3> QED
        BY <2>1, <2>2, <2>3, SendHolds
    <2>6. Held' = Held
      BY <2>3, <2>4, <2>5, HeldKept DEF Holds
    <2> QED
      BY <2>3, <2>6 DEF AdmissionKept
  <1>d. ASSUME NEW e \in Endpoints, NEW h \in ChannelHandles,
               terminal_events' = [x \in Endpoints |->
                   terminal_events[x] \union Resets({<<e, h>>}, x)],
               <<e, h>> \in DOMAIN native_links,
               UNCHANGED <<native_pending, events, in_hand>>, Settle({})
        PROVE  AdmissionSettled
    <2>1. {} \in SUBSET DOMAIN native_pending /\ {<<e, h>>} \in SUBSET DOMAIN native_links
      BY <1>d
    <2> QED
      BY <1>b, <1>d, <2>1
  <1>11. ASSUME NEW e \in Endpoints, NEW c \in ConnectIds, NEW h \in ChannelHandles,
                NEW n \in Sizes, native_publish_connect_backpressured(e, c, h, n)
         PROVE  AdmissionSettled
    BY <1>11, <1>d DEF native_publish_connect_backpressured, PublishAdmitted
  <1>12. ASSUME NEW e \in Endpoints, NEW c \in ConnectIds, native_cancel_connect(e, c)
         PROVE  AdmissionSettled
    <2>1. {c} \in SUBSET DOMAIN native_pending /\ {} \in SUBSET DOMAIN native_links
      BY <1>12 DEF native_cancel_connect, CancelOk
    <2>2. DOMAIN native_pending' \subseteq DOMAIN native_pending
      BY <1>12 DEF native_cancel_connect, Without
    <2> QED
      BY <1>12, <1>b, <2>1, <2>2 DEF native_cancel_connect
  <1>13. ASSUME NEW e \in Endpoints, NEW h \in ChannelHandles, NEW n \in Sizes,
                native_send_message(e, h, n)
         PROVE  AdmissionKept
    <2>1. "Message" \in EventKinds /\ n \in Nat
      BY <1>0 DEF EventKinds
    <2> QED
      BY <1>13, <1>c, <2>1, HeldKept DEF native_send_message, SendOk, AdmissionKept
  <1>14. ASSUME NEW e \in Endpoints, NEW h \in ChannelHandles, NEW n \in Limits,
                native_send_credit(e, h, n)
         PROVE  AdmissionKept
    <2>1. "Credit" \in EventKinds /\ n \in Nat
      BY <1>0 DEF EventKinds
    <2> QED
      BY <1>14, <1>c, <2>1, HeldKept DEF native_send_credit, AdmissionKept
  <1>15. ASSUME NEW e \in Endpoints, NEW h \in ChannelHandles, NEW n \in Limits,
                native_send_close(e, h, n)
         PROVE  AdmissionSettled
    <2>1. "Close" \in EventKinds /\ n \in Nat
      BY <1>0 DEF EventKinds
    <2>2. \A s : LaneHolds(events', terminal_events', in_hand', s) => Holds(s)
      BY <1>15, <1>c, <2>1 DEF native_send_close, SendOk
    <2> QED
      BY <1>15, <2>2, HeldShrinks DEF native_send_close, AdmissionSettled
  <1>16. ASSUME NEW e \in Endpoints, NEW h \in ChannelHandles, native_reset(e, h)
         PROVE  AdmissionSettled
    BY <1>16, <1>d DEF native_reset
  <1>17. ASSUME NEW e \in Endpoints, recv_event(e)
         PROVE  AdmissionKept
    <2>1. /\ events[e] \in Seq(EventType) /\ events[e] # << >>
          /\ events'[e] = Tail(events[e]) /\ in_hand'[e] = {Head(events[e])} /\ in_hand[e] = {}
          /\ \A x \in Endpoints : x # e => events'[x] = events[x] /\ in_hand'[x] = in_hand[x]
          /\ UNCHANGED <<native_pending, native_links, terminal_events, admission>>
      BY <1>17 DEF recv_event, LanesTypeOK
    <2>2. \A s : QueueHolds(events[e], s)
                    <=> s \in Head(events[e]).guard \/ QueueHolds(events'[e], s)
      BY <2>1, HeadTailHolds
    <2>3. \A s : LaneHolds(events', terminal_events', in_hand', s)
                    <=> LaneHolds(events, terminal_events, in_hand, s)
      BY <2>1, <2>2 DEF LaneHolds, SetHolds
    <2>4. Held' = Held
      BY <2>1, <2>3, HeldKept DEF Holds
    <2> QED
      BY <2>1, <2>4 DEF AdmissionKept
  <1>18. ASSUME NEW e \in Endpoints, NEW v \in terminal_events[e], recv_terminal(e, v)
         PROVE  AdmissionKept
    <2>1. /\ terminal_events'[e] = terminal_events[e] \ {v}
          /\ in_hand'[e] = {v} /\ in_hand[e] = {}
          /\ \A x \in Endpoints : x # e => /\ terminal_events'[x] = terminal_events[x]
                                           /\ in_hand'[x] = in_hand[x]
          /\ UNCHANGED <<native_pending, native_links, events, admission>>
      BY <1>18 DEF recv_terminal, LanesTypeOK
    <2>3. \A s : LaneHolds(events', terminal_events', in_hand', s)
                    <=> LaneHolds(events, terminal_events, in_hand, s)
      BY <2>1 DEF LaneHolds, SetHolds
    <2>4. Held' = Held
      BY <2>1, <2>3, HeldKept DEF Holds
    <2> QED
      BY <2>1, <2>4 DEF AdmissionKept
  <1>19. ASSUME NEW e \in Endpoints, drop_event(e)
         PROVE  AdmissionSettled
    <2>1. /\ in_hand'[e] = {} /\ \A x \in Endpoints : x # e => in_hand'[x] = in_hand[x]
          /\ UNCHANGED <<native_pending, events, terminal_events>> /\ Settle({})
      BY <1>19 DEF drop_event, LanesTypeOK
    <2>2. \A s : LaneHolds(events', terminal_events', in_hand', s) => Holds(s)
      BY <2>1 DEF LaneHolds, SetHolds, Holds
    <2> QED
      BY <2>1, <2>2, HeldShrinks DEF AdmissionSettled
  <1>20. ASSUME NEW e \in Endpoints, drop_receivers(e)
         PROVE  AdmissionSettled
    <2>1. /\ in_hand'[e] = {} /\ terminal_events'[e] = {} /\ events'[e] = << >>
          /\ \A x \in Endpoints : x # e => /\ in_hand'[x] = in_hand[x]
                                           /\ terminal_events'[x] = terminal_events[x]
                                           /\ events'[x] = events[x]
          /\ UNCHANGED native_pending /\ Settle({})
      BY <1>20 DEF drop_receivers, LanesTypeOK
    <2>2. \A s : LaneHolds(events', terminal_events', in_hand', s) => Holds(s)
      BY <2>1 DEF LaneHolds, SetHolds, QueueHolds, Holds
    <2> QED
      BY <2>1, <2>2, HeldShrinks DEF AdmissionSettled
  <1>21. CASE UNCHANGED fabric
    BY <1>21, <1>a DEF fabric
  <1> QED
    BY <1>1, <1>2, <1>3, <1>4, <1>5, <1>6, <1>7, <1>8, <1>9, <1>10, <1>11, <1>12, <1>13, <1>14,
       <1>15, <1>16, <1>17, <1>18, <1>19, <1>20, <1>21
    DEF Next, Registration, Handshake, Traffic, Ending, Receiving

(* Connect ids are issued in increasing order.                             *)
LEMMA NextConnectGrows ==
    ASSUME LinksTypeOK, LinkSymmetry, [Next]_fabric
    PROVE  next_native_connect' \in Nat /\ next_native_connect <= next_native_connect'
  <1>1. next_native_connect' \in {next_native_connect, next_native_connect + 1}
    BY LinkSteps
    DEF KeepsLinks, ResetsLinks, UpdatesLinks, PendingShrinks, CompletesLink,
        native_complete_connect
  <1> QED
    BY <1>1 DEF LinksTypeOK

(* The two guards reserved for a fresh connect are sides that carry its    *)
(* id.                                                                     *)
LEMMA NewSidesType ==
    ASSUME NEW e \in Endpoints, NEW a \in Endpoints, next_native_connect \in ConnectIds
    PROVE  /\ NewSides(e, a) \in SUBSET Side
           /\ \A r \in NewSides(e, a) : r.connect_id = next_native_connect
  BY DEF NewSides, Side, Roles

(* Every step preserves that a held guard belongs to an issued connect.    *)
LEMMA AllocatedStep ==
    ASSUME RegistryTypeOK, LinksTypeOK, LanesTypeOK, LinkSymmetry, OneStage, HeldAllocated,
           [Next]_fabric
    PROVE  HeldAllocated'
  <1>1. /\ next_native_connect \in Nat /\ next_native_connect' \in Nat
        /\ next_native_connect <= next_native_connect'
    BY NextConnectGrows DEF LinksTypeOK
  <1>2. \A s \in Held : s.connect_id \in Nat
    BY HeldType DEF Side, ConnectIds
  <1>3. CASE Held' \subseteq Held
    BY <1>1, <1>2, <1>3 DEF HeldAllocated
  <1>4. CASE AdmissionReserved
    BY <1>1, <1>2, <1>4, NewSidesType DEF AdmissionReserved, HeldAllocated
  <1> QED
    BY <1>3, <1>4, AdmissionSteps DEF AdmissionKept, AdmissionSettled

(* Every step preserves that the admission counters equal the held guards. *)
LEMMA ExactStep ==
    ASSUME RegistryTypeOK, LinksTypeOK, LanesTypeOK, LinkSymmetry, OneStage, HeldAllocated,
           AdmissionExact, [Next]_fabric
    PROVE  AdmissionExact'
  <1>1. Held \in SUBSET Side
    BY HeldType
  <1>2. CASE AdmissionKept
    BY <1>2 DEF AdmissionKept, admission, AdmissionExact
  <1>3. CASE AdmissionSettled
    BY <1>1, <1>3, SettleExact DEF AdmissionSettled
  <1>4. CASE AdmissionReserved
    <2>1. PICK e \in Endpoints, a \in Endpoints :
              /\ next_native_connect \in ConnectIds
              /\ Held' \subseteq Held \union NewSides(e, a)
              /\ Settle(NewSides(e, a))
      BY <1>4 DEF AdmissionReserved
    <2>2. \A s \in Held, r \in NewSides(e, a) : s.connect_id # r.connect_id
      BY <1>1, <2>1, NewSidesType DEF HeldAllocated, Side, ConnectIds
    <2> QED
      BY <1>1, <2>1, <2>2, NewSidesType, SettleExact
  <1> QED
    BY <1>2, <1>3, <1>4, AdmissionSteps

(* Exact counters of finitely many guards are naturals.                    *)
LEMMA AdmissionType ==
    ASSUME RegistryTypeOK, LinksTypeOK, LanesTypeOK, LinkSymmetry, OneStage, HeldAllocated,
           AdmissionExact, AdmissionTypeOK, [Next]_fabric
    PROVE  AdmissionTypeOK'
  <1>1. AdmissionExact'
    BY ExactStep
  <1>2. PICK R \in SUBSET Side : Held' \subseteq R
    <2>1. Held \in SUBSET Side
      BY HeldType
    <2>2. Held' \in SUBSET Side
      BY <2>1, AdmissionSteps, NewSidesType
      DEF AdmissionKept, AdmissionSettled, AdmissionReserved
    <2> QED
      BY <2>2
  <1>3. Cardinality(PairsOf(Held')) \in Nat
    BY <1>2, SideFinite, PairsInIds, FS_Subset, FS_CardinalityType
  <1>4. ASSUME NEW e \in Endpoints
        PROVE  Cardinality(SlotsOf(Held', e)) \in Nat
    <2>1. SlotsOf(Held', e) \in SUBSET Side
      BY <1>2 DEF SlotsOf
    <2> QED
      BY <2>1, SideFinite, FS_Subset, FS_CardinalityType
  <1>5. DOMAIN endpoint_slots' = Endpoints
        /\ endpoint_slots' = [e \in Endpoints |-> endpoint_slots'[e]]
    BY AdmissionSteps
    DEF AdmissionKept, AdmissionSettled, AdmissionReserved, Settle, AdmissionTypeOK, admission
  <1>6. active_pairs' \in Nat
    BY <1>1, <1>3 DEF AdmissionExact
  <1>7. \A e \in Endpoints : endpoint_slots'[e] \in Nat
    BY <1>1, <1>4 DEF AdmissionExact
  <1> QED
    BY <1>5, <1>6, <1>7 DEF AdmissionTypeOK

(* Multiplying by a natural is monotone.                                   *)
LEMMA ProductMonotone ==
    ASSUME NEW a \in Nat, NEW b \in Nat, NEW w \in Nat, a <= b
    PROVE  a * w <= b * w
  OBVIOUS

(* The counts of a set that shrinks shrink with it. *)
LEMMA CountsShrink ==
    ASSUME NEW S \in SUBSET Side, NEW T \in SUBSET S
    PROVE  /\ Cardinality(PairsOf(S)) \in Nat /\ Cardinality(PairsOf(T)) \in Nat
           /\ Cardinality(PairsOf(T)) <= Cardinality(PairsOf(S))
           /\ \A e \in Endpoints :
                 /\ Cardinality(SlotsOf(S, e)) \in Nat /\ Cardinality(SlotsOf(T, e)) \in Nat
                 /\ Cardinality(SlotsOf(T, e)) <= Cardinality(SlotsOf(S, e))
  <1>1. IsFiniteSet(PairsOf(S)) /\ PairsOf(T) \in SUBSET PairsOf(S)
    <2>1. PairsOf(S) \in SUBSET ConnectIds
      BY PairsInIds
    <2> QED
      BY <2>1, SideFinite, FS_Subset DEF PairsOf
  <1>2. \A e \in Endpoints :
            IsFiniteSet(SlotsOf(S, e)) /\ SlotsOf(T, e) \in SUBSET SlotsOf(S, e)
    <2>1. \A e \in Endpoints : SlotsOf(S, e) \in SUBSET Side
      BY DEF SlotsOf
    <2> QED
      BY <2>1, SideFinite, FS_Subset DEF SlotsOf
  <1> QED
    BY <1>1, <1>2, FS_Subset, FS_CardinalityType

(* One reservation counts for one pair, and for one slot on each endpoint, *)
(* two on the endpoint of a loopback.                                      *)
LEMMA NewSidesCount ==
    ASSUME NEW e \in Endpoints, NEW a \in Endpoints
    PROVE  /\ Cardinality(PairsOf(NewSides(e, a))) = 1
           /\ \A x \in Endpoints :
                 Cardinality(SlotsOf(NewSides(e, a), x)) =
                     (IF x = e THEN 1 ELSE 0) + (IF x = a THEN 1 ELSE 0)
  <1> DEFINE c == [connect_id |-> next_native_connect, role |-> "connector", endpoint |-> e]
             l == [connect_id |-> next_native_connect, role |-> "listener", endpoint |-> a]
  <1>1. PairsOf(NewSides(e, a)) = {next_native_connect}
    BY DEF PairsOf, NewSides
  <1>2. Cardinality(PairsOf(NewSides(e, a))) = 1
    BY <1>1, FS_Singleton
  <1>3. c # l /\ c.endpoint = e /\ l.endpoint = a /\ NewSides(e, a) = {c, l}
    BY DEF NewSides
  <1> HIDE DEF c, l
  <1>4. ASSUME NEW x \in Endpoints
        PROVE  Cardinality(SlotsOf(NewSides(e, a), x)) =
                   (IF x = e THEN 1 ELSE 0) + (IF x = a THEN 1 ELSE 0)
    <2>1. CASE x = e /\ x = a
      <3>1. SlotsOf(NewSides(e, a), x) = {c} \union {l}
        BY <1>3, <2>1 DEF SlotsOf
      <3>2. IsFiniteSet({c}) /\ Cardinality({c}) = 1 /\ l \notin {c}
        BY <1>3, FS_Singleton
      <3>3. Cardinality({c} \union {l}) = Cardinality({c}) + 1
        BY <3>2, FS_AddElement
      <3>4. Cardinality(SlotsOf(NewSides(e, a), x)) = Cardinality({c} \union {l})
        BY <3>1, Zenon
      <3> QED
        BY <2>1, <3>2, <3>3, <3>4
    <2>2. CASE x = e /\ x # a
      <3>1. SlotsOf(NewSides(e, a), x) = {c}
        BY <1>3, <2>2 DEF SlotsOf
      <3>2. Cardinality(SlotsOf(NewSides(e, a), x)) = 1
        BY <3>1, FS_Singleton, Zenon
      <3> QED
        BY <2>2, <3>2
    <2>3. CASE x # e /\ x = a
      <3>1. SlotsOf(NewSides(e, a), x) = {l}
        BY <1>3, <2>3 DEF SlotsOf
      <3>2. Cardinality(SlotsOf(NewSides(e, a), x)) = 1
        BY <3>1, FS_Singleton, Zenon
      <3> QED
        BY <2>3, <3>2
    <2>4. CASE x # e /\ x # a
      <3>1. SlotsOf(NewSides(e, a), x) = {}
        BY <1>3, <2>4 DEF SlotsOf
      <3> QED
        BY <2>4, <3>1, FS_EmptySet
    <2> QED
      BY <2>1, <2>2, <2>3, <2>4
  <1> QED
    BY <1>2, <1>4

(* Every step preserves that the counters stay within the admission        *)
(* limits.                                                                 *)
LEMMA BoundedStep ==
    ASSUME RegistryTypeOK, LinksTypeOK, LanesTypeOK, LinkSymmetry, OneStage, HeldAllocated,
           AdmissionExact, AdmissionBounded, [Next]_fabric
    PROVE  AdmissionBounded'
  <1>0. /\ Held \in SUBSET Side /\ ConnectedPairs \in Nat /\ HandlesPerEndpoint \in Nat
        /\ PairWindow \in Nat /\ BufferBytes \in Nat
    BY HeldType, FabricAssumption
  <1>1. CASE Held' \subseteq Held
    <2>1. /\ Cardinality(PairsOf(Held)) \in Nat /\ Cardinality(PairsOf(Held')) \in Nat
          /\ Cardinality(PairsOf(Held')) <= Cardinality(PairsOf(Held))
          /\ \A e \in Endpoints :
                /\ Cardinality(SlotsOf(Held, e)) \in Nat /\ Cardinality(SlotsOf(Held', e)) \in Nat
                /\ Cardinality(SlotsOf(Held', e)) <= Cardinality(SlotsOf(Held, e))
      BY <1>0, <1>1, CountsShrink
    <2>2. Cardinality(PairsOf(Held')) * PairWindow <= Cardinality(PairsOf(Held)) * PairWindow
      BY <1>0, <2>1, ProductMonotone
    <2>3. /\ Cardinality(PairsOf(Held)) <= ConnectedPairs
          /\ Cardinality(PairsOf(Held)) * PairWindow <= BufferBytes
          /\ \A e \in Endpoints : Cardinality(SlotsOf(Held, e)) <= HandlesPerEndpoint
      BY DEF AdmissionBounded
    <2>4. /\ Cardinality(PairsOf(Held)) * PairWindow \in Nat
          /\ Cardinality(PairsOf(Held')) * PairWindow \in Nat
      BY <1>0, <2>1
    <2>5. Cardinality(PairsOf(Held')) * PairWindow <= BufferBytes
      BY <1>0, <2>2, <2>3, <2>4
    <2>6. /\ Cardinality(PairsOf(Held')) <= ConnectedPairs
          /\ \A e \in Endpoints : Cardinality(SlotsOf(Held', e)) <= HandlesPerEndpoint
      BY <1>0, <2>1, <2>3
    <2> QED
      BY <2>5, <2>6 DEF AdmissionBounded
  <1>2. CASE AdmissionReserved
    <2>1. PICK e \in Endpoints, a \in Endpoints :
              /\ reserve_pair(e, a)
              /\ next_native_connect \in ConnectIds
              /\ Held' \subseteq Held \union NewSides(e, a)
      BY <1>2 DEF AdmissionReserved
    <2> DEFINE R == NewSides(e, a)
    <2>2. R \in SUBSET Side /\ \A s \in Held, r \in R : s.connect_id # r.connect_id
      BY <1>0, <2>1, NewSidesType DEF HeldAllocated, Side, ConnectIds
    <2>3. /\ PairsOf(Held) \in SUBSET ConnectIds /\ PairsOf(R) \in SUBSET ConnectIds
          /\ PairsOf(Held) \cap PairsOf(R) = {}
          /\ PairsOf(Held') \in SUBSET (PairsOf(Held) \union PairsOf(R))
      BY <1>0, <2>1, <2>2, PairsInIds DEF PairsOf
    <2>4. /\ Cardinality(PairsOf(Held)) \in Nat /\ Cardinality(PairsOf(Held')) \in Nat
          /\ Cardinality(PairsOf(Held')) <= Cardinality(PairsOf(Held)) + 1
      <3>1. Cardinality(PairsOf(R)) = 1
        BY NewSidesCount
      <3> HIDE DEF R
      <3> QED
        BY <2>3, <3>1, SideFinite, CountAfter
    <2>5. active_pairs = Cardinality(PairsOf(Held)) /\ active_pairs < ConnectedPairs
          /\ (active_pairs + 1) * PairWindow <= BufferBytes
      BY <2>1 DEF AdmissionExact, reserve_pair
    <2>6. Cardinality(PairsOf(Held')) <= ConnectedPairs
      BY <1>0, <2>4, <2>5
    <2>7. Cardinality(PairsOf(Held')) * PairWindow <= BufferBytes
      <3>1. Cardinality(PairsOf(Held')) * PairWindow <= (active_pairs + 1) * PairWindow
        BY <1>0, <2>4, <2>5, ProductMonotone
      <3>2. /\ Cardinality(PairsOf(Held')) * PairWindow \in Nat
            /\ (active_pairs + 1) * PairWindow \in Nat
        BY <1>0, <2>4, <2>5
      <3> QED
        BY <1>0, <2>5, <3>1, <3>2
    <2>8. ASSUME NEW x \in Endpoints
          PROVE  Cardinality(SlotsOf(Held', x)) <= HandlesPerEndpoint
      <3>1. /\ SlotsOf(Held, x) \in SUBSET Side /\ SlotsOf(R, x) \in SUBSET Side
            /\ SlotsOf(Held, x) \cap SlotsOf(R, x) = {}
            /\ SlotsOf(Held', x) \in SUBSET (SlotsOf(Held, x) \union SlotsOf(R, x))
        <4> HIDE DEF R
        <4> QED
          BY <1>0, <2>1, <2>2 DEF SlotsOf, R
      <3>2. /\ Cardinality(SlotsOf(Held, x)) \in Nat /\ Cardinality(SlotsOf(Held', x)) \in Nat
            /\ Cardinality(SlotsOf(Held', x))
                  <= Cardinality(SlotsOf(Held, x)) + Cardinality(SlotsOf(R, x))
        <4> HIDE DEF R
        <4> QED
          BY <3>1, SideFinite, CountAfter
      <3>3. Cardinality(SlotsOf(R, x)) = (IF x = e THEN 1 ELSE 0) + (IF x = a THEN 1 ELSE 0)
        BY NewSidesCount
      <3>4. /\ endpoint_slots[x] = Cardinality(SlotsOf(Held, x))
            /\ Cardinality(SlotsOf(Held, x)) <= HandlesPerEndpoint
            /\ endpoint_slots[e] = Cardinality(SlotsOf(Held, e))
            /\ endpoint_slots[a] = Cardinality(SlotsOf(Held, a))
        BY DEF AdmissionExact, AdmissionBounded
      <3>5. IF e = a THEN endpoint_slots[e] + 2 <= HandlesPerEndpoint
                     ELSE /\ endpoint_slots[e] + 1 <= HandlesPerEndpoint
                          /\ endpoint_slots[a] + 1 <= HandlesPerEndpoint
        BY <2>1 DEF reserve_pair, reserve_handle_slots
      <3> HIDE DEF R
      <3>6. CASE x = e /\ x = a
        BY <1>0, <3>2, <3>3, <3>4, <3>5, <3>6
      <3>7. CASE x = e /\ x # a
        BY <1>0, <3>2, <3>3, <3>4, <3>5, <3>7
      <3>8. CASE x # e /\ x = a
        BY <1>0, <3>2, <3>3, <3>4, <3>5, <3>8
      <3>9. CASE x # e /\ x # a
        BY <1>0, <3>2, <3>3, <3>4, <3>9
      <3> QED
        BY <3>6, <3>7, <3>8, <3>9
    <2> QED
      BY <2>6, <2>7, <2>8 DEF AdmissionBounded
  <1> QED
    BY <1>1, <1>2, AdmissionSteps DEF AdmissionKept, AdmissionSettled

-----------------------------------------------------------------------------
(* Names. *)

(* Removing listeners with their names keeps names and listeners in step.  *)
LEMMA RemoveListenersNames ==
    ASSUME RegistryTypeOK, NamesMatch, NEW L \in SUBSET DOMAIN listeners, remove_listeners(L),
           UNCHANGED next_listener_handle
    PROVE  NamesMatch'
  <1> DEFINE N == {listeners[l].name : l \in L}
  <1>1. /\ DOMAIN listeners' = DOMAIN listeners \ L
        /\ \A l \in DOMAIN listeners' : listeners'[l] = listeners[l]
        /\ DOMAIN listener_names' = DOMAIN listener_names \ N
        /\ \A n \in DOMAIN listener_names' : listener_names'[n] = listener_names[n]
    BY DEF remove_listeners, Without
  <1>2. \A l \in DOMAIN listeners : listeners[l].name \in N => l \in L
    BY DEF NamesMatch
  <1>3. \A n \in DOMAIN listener_names : listener_names[n] \in L => n \in N
    BY DEF NamesMatch
  <1> HIDE DEF N
  <1> QED
    BY <1>1, <1>2, <1>3 DEF NamesMatch

(* Every step preserves that names and listeners match one to one.         *)
LEMMA NamesStep ==
    ASSUME RegistryTypeOK, NamesMatch, [Next]_fabric
    PROVE  NamesMatch'
  <1>1. CASE Handshake \/ Traffic \/ Ending \/ Receiving
    BY <1>1, RegistryUnchanged DEF registry, NamesMatch
  <1>2. CASE begin_shutdown
    BY <1>2 DEF begin_shutdown, NamesMatch
  <1>3. ASSUME NEW e \in Endpoints, register_native_endpoint(e)
        PROVE  NamesMatch'
    BY <1>3 DEF register_native_endpoint, NamesMatch
  <1>4. ASSUME NEW e \in Endpoints, NEW n \in Names, native_listen(e, n)
        PROVE  NamesMatch'
    <2> DEFINE h == next_listener_handle
    <2>1. /\ n \notin DOMAIN listener_names
          /\ DOMAIN listeners' = DOMAIN listeners \union {h}
          /\ listeners'[h].name = n
          /\ \A l \in DOMAIN listeners : l # h => listeners'[l] = listeners[l]
          /\ DOMAIN listener_names' = DOMAIN listener_names \union {n}
          /\ listener_names'[n] = h
          /\ \A x \in DOMAIN listener_names : listener_names'[x] = listener_names[x]
          /\ next_listener_handle' = h + 1
      BY <1>4 DEF native_listen, ListenOk, Put
    <2>2. h \in Nat /\ \A l \in DOMAIN listeners : l \in Nat /\ l < h
      BY DEF RegistryTypeOK, ListenerHandles, NamesMatch
    <2>3. h \notin DOMAIN listeners /\ \A l \in DOMAIN listeners' : l < h + 1
      BY <2>1, <2>2
    <2> HIDE DEF h
    <2> QED
      BY <2>1, <2>3 DEF NamesMatch
  <1>5. ASSUME NEW e \in Endpoints, NEW l \in ListenerHandles, NEW g \in ListenerHandles,
               native_close_listener(e, l, g)
        PROVE  NamesMatch'
    <2>1. {l} \in SUBSET DOMAIN listeners
      BY <1>5 DEF native_close_listener, CloseListenerOk
    <2> QED
      BY <1>5, <2>1, RemoveListenersNames DEF native_close_listener
  <1>6. ASSUME NEW e \in Endpoints, unregister_native_endpoint(e)
        PROVE  NamesMatch'
    <2> DEFINE L == {l \in DOMAIN listeners : listeners[l].endpoint = e}
    <2>1. remove_listeners(L) /\ UNCHANGED next_listener_handle
      BY <1>6 DEF unregister_native_endpoint
    <2> QED
      BY <2>1, RemoveListenersNames
  <1>7. CASE UNCHANGED fabric
    BY <1>7 DEF fabric, registry, NamesMatch
  <1> QED
    BY <1>1, <1>2, <1>3, <1>4, <1>5, <1>6, <1>7 DEF Next, Registration

-----------------------------------------------------------------------------
(* The inductive invariant and what follows from it. *)

(* The fabric starts in the inductive invariant.                           *)
LEMMA InitInv == Init => FabricInv
  <1> SUFFICES ASSUME Init
               PROVE  FabricInv
    OBVIOUS
  <1>1. Held = {}
    <2>1. \A s : ~Holds(s)
      BY DEF Init, EmptyFunction, Holds, PendingHolds, LinkHolds, LaneHolds, QueueHolds, SetHolds
    <2> QED
      BY <2>1, HeldNow
  <1>2. /\ Cardinality(PairsOf(Held)) = 0
        /\ \A e \in Endpoints : Cardinality(SlotsOf(Held, e)) = 0
    <2>1. PairsOf(Held) = {} /\ \A e \in Endpoints : SlotsOf(Held, e) = {}
      BY <1>1 DEF PairsOf, SlotsOf
    <2>2. Cardinality({}) = 0
      BY FS_EmptySet
    <2> QED
      BY <2>1, <2>2, Zenon
  <1>3. TypeOK
    <2>0. 1 \in 1 .. MaxRevision
      BY FabricAssumption
    <2>1. RegistryTypeOK
      <3>1. \A T : EmptyFunction \in [DOMAIN EmptyFunction -> T] /\ DOMAIN EmptyFunction = {}
        BY DEF EmptyFunction
      <3>2. endpoint_state \in [Endpoints -> {"unused", "live", "gone"}]
        BY DEF Init
      <3>3. shutting_down \in BOOLEAN
        BY Zenon DEF Init
      <3>4. /\ listeners = EmptyFunction /\ listener_names = EmptyFunction
            /\ next_listener_handle = 1 /\ native_revision = 1
        BY DEF Init
      <3> QED
        BY <2>0, <3>1, <3>2, <3>3, <3>4 DEF RegistryTypeOK
    <2>2. LinksTypeOK
      BY DEF Init, EmptyFunction, LinksTypeOK
    <2>3. LanesTypeOK
      BY FabricAssumption DEF Init, LanesTypeOK
    <2>4. AdmissionTypeOK
      BY DEF Init, AdmissionTypeOK
    <2> QED
      BY <2>1, <2>2, <2>3, <2>4 DEF TypeOK
  <1>4. LinkSymmetry /\ OneStage /\ DeadEndpointClean /\ NamesMatch
    BY DEF Init, EmptyFunction, LinkSymmetry, OneStage, DeadEndpointClean, NamesMatch
  <1>5. HeldAllocated
    BY <1>1 DEF HeldAllocated
  <1>6. AdmissionExact
    BY <1>2 DEF Init, AdmissionExact
  <1>7. AdmissionBounded
    BY <1>2, FabricAssumption DEF AdmissionBounded
  <1> QED
    BY <1>3, <1>4, <1>5, <1>6, <1>7 DEF FabricInv

(* Every step preserves the inductive invariant.                           *)
LEMMA NextInv == FabricInv /\ [Next]_fabric => FabricInv'
  <1> SUFFICES ASSUME FabricInv, [Next]_fabric
               PROVE  FabricInv'
    OBVIOUS
  <1>1. /\ RegistryTypeOK /\ LinksTypeOK /\ LanesTypeOK /\ AdmissionTypeOK
        /\ LinkSymmetry /\ OneStage /\ DeadEndpointClean /\ NamesMatch
        /\ HeldAllocated /\ AdmissionExact /\ AdmissionBounded
    BY DEF FabricInv, TypeOK
  <1>2. TypeOK'
    <2>1. RegistryTypeOK' /\ LinksTypeOK' /\ LanesTypeOK' /\ AdmissionTypeOK'
      BY <1>1, RegistryType, LinksType, LanesType, AdmissionType
    <2> QED
      BY <2>1 DEF TypeOK
  <1>3. LinkSymmetry'
    BY <1>1, SymmetryStep
  <1>4. OneStage'
    BY <1>1, OneStageStep
  <1>5. DeadEndpointClean'
    BY <1>1, CleanStep
  <1>6. NamesMatch'
    BY <1>1, NamesStep
  <1>7. HeldAllocated'
    BY <1>1, AllocatedStep
  <1>8. AdmissionExact'
    BY <1>1, ExactStep
  <1>9. AdmissionBounded'
    BY <1>1, BoundedStep
  <1> QED
    BY <1>2, <1>3, <1>4, <1>5, <1>6, <1>7, <1>8, <1>9 DEF FabricInv

(* Every reachable state of the fabric, under any callers and for every    *)
(* size of it, satisfies the inductive invariant.                          *)
THEOREM FabricCorrect == Spec => []FabricInv
  BY InitInv, NextInv, PTL DEF Spec

(* channel.rs's fields keep their types, and no bounded lane exceeds its   *)
(* capacity.                                                               *)
THEOREM TypeCorrect == Spec => []TypeOK
  <1>1. FabricInv => TypeOK
    BY DEF FabricInv
  <1> QED
    BY <1>1, FabricCorrect, PTL

(* No operation, error path or end of an endpoint leaves half a link: the  *)
(* "remained live" expects of channel.rs cannot fail.                      *)
THEOREM LinksAreWhole == Spec => []LinkSymmetry
  <1>1. FabricInv => LinkSymmetry
    BY DEF FabricInv
  <1> QED
    BY <1>1, FabricCorrect, PTL

(* unregister_native_endpoint leaves no pending connect, link or listener  *)
(* of its endpoint behind, loopback links included.                        *)
THEOREM EndpointsEndClean == Spec => []DeadEndpointClean
  <1>1. FabricInv => DeadEndpointClean
    BY DEF FabricInv
  <1> QED
    BY <1>1, FabricCorrect, PTL

(* A step keeps a pending connect on its listener, or the connect is new   *)
(* and stands on a listener that is open.                                  *)
LEMMA PendingListener ==
    ASSUME LinksTypeOK, [Next]_fabric, NEW c \in DOMAIN native_pending'
    PROVE  \/ /\ c \in DOMAIN native_pending
              /\ native_pending'[c].listener_handle = native_pending[c].listener_handle
              /\ native_pending'[c].listener_endpoint = native_pending[c].listener_endpoint
           \/ /\ UNCHANGED listeners
              /\ native_pending'[c].listener_handle \in DOMAIN listeners
              /\ native_pending'[c].listener_endpoint
                    = listeners[native_pending'[c].listener_handle].endpoint
  <1> DEFINE Kept == /\ c \in DOMAIN native_pending
                     /\ native_pending'[c].listener_handle = native_pending[c].listener_handle
                     /\ native_pending'[c].listener_endpoint
                           = native_pending[c].listener_endpoint
  <1>1. CASE Traffic \/ Receiving \/ Ending
    BY <1>1, LinksUnchanged DEF Ending, native_send_close, native_reset
  <1>2. CASE Registration
    BY <1>2 DEF Registration, begin_shutdown, register_native_endpoint, native_listen,
       native_close_listener, unregister_native_endpoint, Without
  <1>3. ASSUME NEW e \in Endpoints, NEW l \in ListenerHandles, NEW g \in ListenerHandles,
               NEW n \in Sizes, native_begin_connect(e, l, g, n), ~Kept
        PROVE  /\ UNCHANGED listeners
               /\ native_pending'[c].listener_handle \in DOMAIN listeners
               /\ native_pending'[c].listener_endpoint
                     = listeners[native_pending'[c].listener_handle].endpoint
    BY <1>3 DEF native_begin_connect, BeginOk, BeginAdmitted, Put, registry
  <1>4. ASSUME NEW e \in Endpoints, NEW l \in ListenerHandles, NEW g \in ListenerHandles,
               native_begin_connect_backpressured(e, l, g)
        PROVE  Kept
    BY <1>4 DEF native_begin_connect_backpressured
  <1>5. ASSUME NEW e \in Endpoints, NEW d \in ConnectIds, NEW h \in ChannelHandles,
               NEW n \in Sizes, NEW m \in Sizes, native_prepare_connect(e, d, h, n, m)
        PROVE  Kept
    BY <1>5 DEF native_prepare_connect, LinksTypeOK, NativePendingConnect
  <1>6. ASSUME NEW e \in Endpoints, NEW d \in ConnectIds, NEW h \in ChannelHandles,
               NEW n \in Sizes, \/ native_complete_connect(e, d, h, n)
                                \/ native_publish_connect(e, d, h, n)
                                \/ native_publish_connect_backpressured(e, d, h, n)
                                \/ native_cancel_connect(e, d)
        PROVE  Kept
    BY <1>6 DEF native_complete_connect, native_publish_connect, native_cancel_connect,
       native_publish_connect_backpressured, Without
  <1>7. ASSUME NEW e \in Endpoints, NEW d \in ConnectIds, native_cancel_connect(e, d)
        PROVE  Kept
    BY <1>7 DEF native_cancel_connect, Without
  <1>8. CASE UNCHANGED fabric
    BY <1>8 DEF fabric
  <1> QED
    BY <1>1, <1>2, <1>3, <1>4, <1>5, <1>6, <1>7, <1>8 DEF Next, Handshake

(* Every step preserves that a pending connect has its listener: closing   *)
(* one, by its handle or with its endpoint, cancels what stands on it.     *)
LEMMA PendingListenerStep ==
    ASSUME RegistryTypeOK, LinksTypeOK, NamesMatch, PendingHasListener, [Next]_fabric
    PROVE  PendingHasListener'
  <1> SUFFICES ASSUME NEW c \in DOMAIN native_pending'
               PROVE  /\ native_pending'[c].listener_handle \in DOMAIN listeners'
                      /\ listeners'[native_pending'[c].listener_handle].endpoint
                            = native_pending'[c].listener_endpoint
    BY DEF PendingHasListener
  <1> DEFINE l == native_pending[c].listener_handle
             a == native_pending[c].listener_endpoint
  <1>1. CASE ~ /\ c \in DOMAIN native_pending
               /\ native_pending'[c].listener_handle = l
               /\ native_pending'[c].listener_endpoint = a
    BY <1>1, PendingListener
  <1>2. CASE /\ c \in DOMAIN native_pending
             /\ native_pending'[c].listener_handle = l
             /\ native_pending'[c].listener_endpoint = a
    <2>1. l \in DOMAIN listeners /\ listeners[l].endpoint = a
      BY <1>2 DEF PendingHasListener
    <2> HIDE DEF l, a
    <2>2. SUFFICES l \in DOMAIN listeners' /\ listeners'[l] = listeners[l]
      BY <1>2, <2>1
    <2>3. CASE Handshake \/ Traffic \/ Ending \/ Receiving
      BY <2>1, <2>3, RegistryUnchanged DEF registry
    <2>4. CASE begin_shutdown
      BY <2>1, <2>4 DEF begin_shutdown
    <2>5. ASSUME NEW e \in Endpoints, register_native_endpoint(e)
          PROVE  l \in DOMAIN listeners' /\ listeners'[l] = listeners[l]
      BY <2>1, <2>5 DEF register_native_endpoint
    <2>6. ASSUME NEW e \in Endpoints, NEW n \in Names, native_listen(e, n)
          PROVE  l \in DOMAIN listeners' /\ listeners'[l] = listeners[l]
      <3>1. l # next_listener_handle
        BY <2>1 DEF NamesMatch, RegistryTypeOK, ListenerHandles
      <3> QED
        BY <2>1, <2>6, <3>1 DEF native_listen, Put
    <2>7. ASSUME NEW e \in Endpoints, NEW k \in ListenerHandles, NEW g \in ListenerHandles,
                 native_close_listener(e, k, g)
          PROVE  l \in DOMAIN listeners' /\ listeners'[l] = listeners[l]
      <3>1. l # k
        BY <1>2, <2>7 DEF native_close_listener, Without, l
      <3> QED
        BY <2>1, <2>7, <3>1 DEF native_close_listener, remove_listeners, Without
    <2>8. ASSUME NEW e \in Endpoints, unregister_native_endpoint(e)
          PROVE  l \in DOMAIN listeners' /\ listeners'[l] = listeners[l]
      <3>1. a # e
        BY <1>2, <2>8 DEF unregister_native_endpoint, ConnectsOf, Without, a
      <3> QED
        BY <2>1, <2>8, <3>1 DEF unregister_native_endpoint, remove_listeners, Without
    <2>9. CASE UNCHANGED fabric
      BY <2>1, <2>9 DEF fabric, registry
    <2> QED
      BY <2>3, <2>4, <2>5, <2>6, <2>7, <2>8, <2>9 DEF Next, Registration
  <1> QED
    BY <1>1, <1>2

(* A listener name has one owner, a handle is never reused, and no         *)
(* handshake outlives its listener, however names change hands: a pending  *)
(* connect's listener is open and the acceptor's own.                      *)
THEOREM ListenersStayOwned == Spec => []ListenersAreOwned
  <1>1. Init => PendingHasListener
    BY DEF Init, EmptyFunction, PendingHasListener
  <1>2. FabricInv /\ PendingHasListener /\ [Next]_fabric => PendingHasListener'
    BY PendingListenerStep DEF FabricInv, TypeOK
  <1>3. FabricInv /\ PendingHasListener => ListenersAreOwned
    BY DEF FabricInv, ListenersAreOwned
  <1> QED
    BY <1>1, <1>2, <1>3, FabricCorrect, PTL DEF Spec

(* The counters behind reserve_pair equal the number of live guards,       *)
(* whatever holds them: no reservation leaks or is returned twice.         *)
THEOREM AdmissionCountsGuards == Spec => []AdmissionExact
  <1>1. FabricInv => AdmissionExact
    BY DEF FabricInv
  <1> QED
    BY <1>1, FabricCorrect, PTL

(* The limits reserve_pair enforces bound everything still charged, events *)
(* in flight included.                                                     *)
THEOREM AdmissionStaysBounded == Spec => []AdmissionBounded
  <1>1. FabricInv => AdmissionBounded
    BY DEF FabricInv
  <1> QED
    BY <1>1, FabricCorrect, PTL

-----------------------------------------------------------------------------
(* The revision of the catalogue. *)

(* Fewer than MaxRevision bumps never come back to the same revision. *)
LEMMA RevisionMoves ==
    ASSUME NEW r \in 1 .. MaxRevision, NEW n \in 1 .. MaxRevision - 1
    PROVE  ((r - 1 + n) % MaxRevision) + 1 # r
  <1>1. MaxRevision \in Nat \ {0} /\ r - 1 + n \in Nat /\ r \in Nat /\ n \in Nat
    BY FabricAssumption
  <1>2. CASE r - 1 + n < MaxRevision
    <2>1. (r - 1 + n) % MaxRevision = r - 1 + n
      BY <1>1, <1>2
    <2> QED
      BY <1>1, <2>1
  <1>3. CASE r - 1 + n >= MaxRevision
    <2>1. (r - 1 + n) % MaxRevision = r - 1 + n - MaxRevision
      BY <1>1, <1>3
    <2> QED
      BY <1>1, <2>1
  <1> QED
    BY <1>1, <1>2, <1>3

(* No endpoint has more listeners than its limit. *)
ListenersBounded == \A e \in Endpoints : listener_count(e) <= ListenersPerEndpoint

(* Removing listeners keeps every endpoint within its limit. *)
LEMMA CountOfSmaller ==
    ASSUME RegistryTypeOK, ListenersBounded, NEW L \in SUBSET DOMAIN listeners,
           listeners' = Without(listeners, L)
    PROVE  ListenersBounded'
  <1> SUFFICES ASSUME NEW e \in Endpoints
               PROVE  listener_count(e)' <= ListenersPerEndpoint
    BY DEF ListenersBounded
  <1> DEFINE Old == {l \in DOMAIN listeners : listeners[l].endpoint = e}
             New == {l \in DOMAIN listeners' : listeners'[l].endpoint = e}
  <1>1. New \subseteq Old /\ Old \in SUBSET DOMAIN listeners
    BY DEF Without
  <1>2. IsFiniteSet(Old) /\ Cardinality(Old) \in Nat
    BY <1>1, ListenersFinite
  <1>3. Cardinality(New) <= Cardinality(Old) /\ Cardinality(New) \in Nat
    BY <1>1, <1>2, FS_Subset, FS_CardinalityType
  <1>4. Cardinality(Old) <= ListenersPerEndpoint
    BY DEF ListenersBounded, listener_count
  <1>5. ListenersPerEndpoint \in Nat
    BY FabricAssumption
  <1>6. listener_count(e)' = Cardinality(New)
    BY DEF listener_count
  <1> HIDE DEF Old, New
  <1> QED
    BY <1>2, <1>3, <1>4, <1>5, <1>6

(* native_listen refuses the one that would be too many. *)
LEMMA BoundedListenersStep ==
    ASSUME RegistryTypeOK, NamesMatch, ListenersBounded, [Next]_fabric
    PROVE  ListenersBounded'
  <1>1. CASE Handshake \/ Traffic \/ Ending \/ Receiving
    BY <1>1, RegistryUnchanged DEF registry, ListenersBounded, listener_count
  <1>2. CASE begin_shutdown
    BY <1>2 DEF begin_shutdown, ListenersBounded, listener_count
  <1>3. ASSUME NEW e \in Endpoints, register_native_endpoint(e)
        PROVE  ListenersBounded'
    BY <1>3 DEF register_native_endpoint, ListenersBounded, listener_count
  <1>4. ASSUME NEW e \in Endpoints, NEW n \in Names, native_listen(e, n)
        PROVE  ListenersBounded'
    <2> SUFFICES ASSUME NEW x \in Endpoints
                 PROVE  listener_count(x)' <= ListenersPerEndpoint
      BY DEF ListenersBounded
    <2> DEFINE h == next_listener_handle
               Old == {l \in DOMAIN listeners : listeners[l].endpoint = x}
               New == {l \in DOMAIN listeners' : listeners'[l].endpoint = x}
    <2>1. /\ DOMAIN listeners' = DOMAIN listeners \union {h} /\ listeners'[h].endpoint = e
          /\ \A l \in DOMAIN listeners : l # h => listeners'[l] = listeners[l]
          /\ listener_count(e) < ListenersPerEndpoint
      BY <1>4 DEF native_listen, ListenOk, Put
    <2>2. h \notin DOMAIN listeners
      <3>1. h \in Nat /\ \A l \in DOMAIN listeners : l \in Nat /\ l < h
        BY DEF RegistryTypeOK, ListenerHandles, NamesMatch
      <3> QED
        BY <3>1
    <2>3. New = IF x = e THEN Old \union {h} ELSE Old
      BY <2>1, <2>2
    <2>4. IsFiniteSet(Old) /\ Cardinality(Old) \in Nat
      BY ListenersFinite
    <2>5. Cardinality(Old \union {h}) = Cardinality(Old) + 1
      BY <2>2, <2>4, FS_AddElement
    <2>6. Cardinality(Old) <= ListenersPerEndpoint
          /\ (x = e => Cardinality(Old) < ListenersPerEndpoint)
      BY <2>1 DEF ListenersBounded, listener_count
    <2>7. ListenersPerEndpoint \in Nat /\ listener_count(x)' = Cardinality(New)
      BY FabricAssumption DEF listener_count
    <2> HIDE DEF Old, New
    <2> QED
      BY <2>3, <2>4, <2>5, <2>6, <2>7
  <1>5. ASSUME NEW e \in Endpoints, NEW l \in ListenerHandles, NEW g \in ListenerHandles,
               native_close_listener(e, l, g)
        PROVE  ListenersBounded'
    <2>1. {l} \in SUBSET DOMAIN listeners /\ listeners' = Without(listeners, {l})
      BY <1>5 DEF native_close_listener, CloseListenerOk, remove_listeners
    <2> QED
      BY <2>1, CountOfSmaller
  <1>6. ASSUME NEW e \in Endpoints, unregister_native_endpoint(e)
        PROVE  ListenersBounded'
    <2> DEFINE L == {l \in DOMAIN listeners : listeners[l].endpoint = e}
    <2>1. listeners' = Without(listeners, L)
      BY <1>6 DEF unregister_native_endpoint, remove_listeners
    <2>2. L \in SUBSET DOMAIN listeners
      OBVIOUS
    <2> HIDE DEF L
    <2> QED
      BY <2>1, <2>2, CountOfSmaller
  <1>7. CASE UNCHANGED fabric
    BY <1>7 DEF fabric, registry, ListenersBounded, listener_count
  <1> QED
    BY <1>1, <1>2, <1>3, <1>4, <1>5, <1>6, <1>7 DEF Next, Registration

(* Any number of listeners an endpoint may have moves the revision. *)
LEMMA BumpMoves ==
    ASSUME RegistryTypeOK, NEW n \in Nat, 1 <= n, n <= ListenersPerEndpoint, bump_revision(n)
    PROVE  native_revision' # native_revision
  <1>1. n \in 1 .. MaxRevision - 1 /\ native_revision \in 1 .. MaxRevision
    BY FabricAssumption, RevisionAssumption DEF RegistryTypeOK
  <1> QED
    BY <1>1, RevisionMoves DEF bump_revision

(* A removal takes listeners of one endpoint, so at most its limit. *)
LEMMA VersionedStep ==
    ASSUME RegistryTypeOK, ListenersBounded, [Next]_fabric, listeners' # listeners
    PROVE  native_revision' # native_revision
  <1>0. ListenersPerEndpoint \in Nat
    BY FabricAssumption
  <1>1. CASE Handshake \/ Traffic \/ Ending \/ Receiving
    BY <1>1, RegistryUnchanged DEF registry
  <1>2. CASE begin_shutdown
    BY <1>2 DEF begin_shutdown
  <1>3. ASSUME NEW e \in Endpoints, register_native_endpoint(e)
        PROVE  FALSE
    BY <1>3 DEF register_native_endpoint
  <1>4. ASSUME NEW e \in Endpoints, NEW n \in Names, native_listen(e, n)
        PROVE  native_revision' # native_revision
    <2>1. listener_count(e) < ListenersPerEndpoint /\ bump_revision(1)
      BY <1>4 DEF native_listen, ListenOk
    <2>2. listener_count(e) \in Nat
      BY ListenersFinite DEF listener_count
    <2> QED
      BY <1>0, <2>1, <2>2, BumpMoves
  <1>5. ASSUME NEW e \in Endpoints, NEW L \in SUBSET DOMAIN listeners, remove_listeners(L),
               \A l \in L : listeners[l].endpoint = e
        PROVE  native_revision' # native_revision
    <2> DEFINE Mine == {l \in DOMAIN listeners : listeners[l].endpoint = e}
    <2>1. IsFiniteSet(L) /\ Cardinality(L) \in Nat /\ IsFiniteSet(Mine) /\ Cardinality(Mine) \in Nat
      BY ListenersFinite
    <2>2. L # {}
      <3>1. L = {} => listeners' = [l \in DOMAIN listeners |-> listeners[l]]
        BY <1>5 DEF remove_listeners, Without
      <3> QED
        BY <3>1 DEF RegistryTypeOK
    <2>3. L \subseteq Mine /\ Cardinality(Mine) <= ListenersPerEndpoint
      BY <1>5 DEF ListenersBounded, listener_count
    <2>4. Cardinality(L) <= Cardinality(Mine)
      BY <2>1, <2>3, FS_Subset
    <2>5. Cardinality(L) # 0
      BY <2>1, <2>2, FS_EmptySet
    <2>6. bump_revision(Cardinality(L))
      BY <1>5 DEF remove_listeners
    <2> HIDE DEF Mine
    <2>7. 1 <= Cardinality(L) /\ Cardinality(L) <= ListenersPerEndpoint
      BY <1>0, <2>1, <2>3, <2>4, <2>5
    <2> QED
      BY <2>1, <2>6, <2>7, BumpMoves
  <1>6. ASSUME NEW e \in Endpoints, NEW l \in ListenerHandles, NEW g \in ListenerHandles,
               native_close_listener(e, l, g)
        PROVE  native_revision' # native_revision
    <2>1. {l} \in SUBSET DOMAIN listeners /\ remove_listeners({l}) /\ listeners[l].endpoint = e
      BY <1>6 DEF native_close_listener, CloseListenerOk
    <2> QED
      BY <1>5, <2>1
  <1>7. ASSUME NEW e \in Endpoints, unregister_native_endpoint(e)
        PROVE  native_revision' # native_revision
    <2>1. remove_listeners({l \in DOMAIN listeners : listeners[l].endpoint = e})
      BY <1>7 DEF unregister_native_endpoint
    <2> QED
      BY <1>5, <2>1
  <1>8. CASE UNCHANGED fabric
    BY <1>8 DEF fabric, registry
  <1> QED
    BY <1>1, <1>2, <1>3, <1>4, <1>6, <1>7, <1>8 DEF Next, Registration

LEMMA NoListenersAtFirst == Init => ListenersBounded
  <1> SUFFICES ASSUME Init, NEW e \in Endpoints
               PROVE  listener_count(e) <= ListenersPerEndpoint
    BY DEF ListenersBounded
  <1>1. DOMAIN listeners = {}
    BY DEF Init, EmptyFunction
  <1>2. {l \in DOMAIN listeners : listeners[l].endpoint = e} = {}
    BY <1>1
  <1>3. listener_count(e) = 0
    BY <1>2, FS_EmptySet DEF listener_count
  <1> QED
    BY <1>3, FabricAssumption

(* A catalogue watcher never misses a change: every step that changes the  *)
(* set of listeners changes the revision, over the u64 wrap and over the   *)
(* removal of all the listeners of an endpoint at once, because an         *)
(* endpoint has fewer listeners than there are revisions.                  *)
THEOREM CatalogueIsVersioned == Spec => CatalogueVersioned
  <1>1. Spec => []FabricInv
    BY FabricCorrect
  <1>2. FabricInv => RegistryTypeOK /\ NamesMatch
    BY DEF FabricInv, TypeOK
  <1>3. Spec => []ListenersBounded
    <2>1. FabricInv /\ ListenersBounded /\ [Next]_fabric => ListenersBounded'
      BY <1>2, BoundedListenersStep
    <2> QED
      BY <1>1, <2>1, NoListenersAtFirst, PTL DEF Spec
  <1>4. FabricInv /\ ListenersBounded /\ [Next]_fabric
            => [listeners' # listeners => native_revision' # native_revision]_fabric
    BY <1>2, VersionedStep
  <1> QED
    BY <1>1, <1>3, <1>4, PTL DEF Spec, CatalogueVersioned

-----------------------------------------------------------------------------
(* ChannelFabric implements ConnectLifecycle: each step of the fabric is a *)
(* step of the lifecycle or leaves stage and charged alone.                *)

(* The refinement mapping of Lifecycle. *)
Stage == [c \in ConnectIds |-> StageOf(c)]
Charged == PairsOf(Held)

(* A direction closes only on a published link: native_send_close goes     *)
(* through SendOk.  This is what FabricInv lacks: without it, publishing   *)
(* could take a connect from "linked" to "half".                           *)
ClosedIsPublished ==
    \A k \in DOMAIN native_links : native_links[k].output_closed => native_links[k].published

(* The stage of a connect, for any tables, so that it applies before and   *)
(* after a step.                                                           *)
LinkedIn(links, c) == \E k \in DOMAIN links : links[k].connect_id = c
UnpublishedIn(links, c) == \E k \in DOMAIN links : links[k].connect_id = c /\ ~links[k].published
HalfIn(links, c) == \E k \in DOMAIN links : links[k].connect_id = c /\ links[k].output_closed
StageIn(pending, links, next, c) ==
    IF c \in pending THEN "pending"
    ELSE IF ~LinkedIn(links, c) THEN IF c < next THEN "retired" ELSE "new"
    ELSE IF UnpublishedIn(links, c) THEN "linked"
    ELSE IF HalfIn(links, c) THEN "half"
    ELSE "open"

LEMMA StageNow ==
    \A c : StageOf(c) = StageIn(DOMAIN native_pending, native_links, next_native_connect, c)
  BY DEF StageOf, LinksOf, StageIn, LinkedIn, UnpublishedIn, HalfIn

LEMMA StageNext ==
    \A c : StageOf(c)' = StageIn(DOMAIN native_pending', native_links', next_native_connect', c)
  BY DEF StageOf, LinksOf, StageIn, LinkedIn, UnpublishedIn, HalfIn

(* A stage names where the connect is. *)
LEMMA StageMeans ==
    ASSUME NEW pending, NEW links, NEW next, NEW c
    PROVE  /\ StageIn(pending, links, next, c) \in Lifecycle!InUse
                  <=> c \in pending \/ LinkedIn(links, c)
           /\ StageIn(pending, links, next, c) = "retired"
                  <=> c \notin pending /\ ~LinkedIn(links, c) /\ c < next
           /\ StageIn(pending, links, next, c) = "new"
                  <=> c \notin pending /\ ~LinkedIn(links, c) /\ ~(c < next)
  BY DEF StageIn, Lifecycle!InUse

-----------------------------------------------------------------------------
(* Charges. *)

LEMMA ChargedNow == \A c : c \in Charged <=> \E s : Holds(s) /\ s.connect_id = c
  BY HeldNow DEF Charged, PairsOf

LEMMA ChargedNext ==
    \A c : c \in Charged' <=>
        \E s : /\ s.connect_id = c
               /\ \/ PendingHolds(native_pending', s)
                  \/ LinkHolds(native_links', s)
                  \/ LaneHolds(events', terminal_events', in_hand', s)
  BY HeldNext DEF Charged, PairsOf

(* A connect that is pending or linked is charged. *)
LEMMA PlacedHolds ==
    ASSUME NEW pending, NEW links, Symmetric(links), NEW c,
           c \in DOMAIN pending \/ LinkedIn(links, c)
    PROVE  \E s : s.connect_id = c /\ (PendingHolds(pending, s) \/ LinkHolds(links, s))
  <1>1. CASE c \in DOMAIN pending
    <2> DEFINE s == [connect_id |-> c, role |-> "connector",
                     endpoint |-> pending[c].connector_endpoint]
    <2>1. s.connect_id = c /\ PendingHolds(pending, s)
      BY <1>1 DEF PendingHolds
    <2> QED
      BY <2>1
  <1>2. CASE LinkedIn(links, c)
    <2>1. PICK k \in DOMAIN links : links[k].connect_id = c
      BY <1>2 DEF LinkedIn
    <2>2. links[k].side.connect_id = c
      BY <2>1 DEF Symmetric, SymmetricAt
    <2> QED
      BY <2>2 DEF LinkHolds
  <1> QED
    BY <1>1, <1>2

(* A charged connect has been begun. *)
LEMMA ChargedBegun ==
    ASSUME FabricInv, NEW c \in Charged
    PROVE  c \in ConnectIds /\ c < next_native_connect
  <1>1. Held \in SUBSET Side
    BY HeldType DEF FabricInv, TypeOK
  <1> QED
    BY <1>1 DEF Charged, PairsOf, Side, FabricInv, HeldAllocated

(* A step that returns guards and ends the connects in C, and only them,   *)
(* is Retire or Release: while connects end no lane gives up a guard.      *)
LEMMA EndsMap ==
    ASSUME FabricInv, FabricInv', Held' \subseteq Held, NEW C \in SUBSET ConnectIds,
           \A c \in C : StageOf(c) \in Lifecycle!InUse /\ StageOf(c)' = "retired",
           \A c \in ConnectIds \ C : StageOf(c)' = StageOf(c),
           \/ C = {}
           \/ \A s : LaneHolds(events, terminal_events, in_hand, s) =>
                         LaneHolds(events', terminal_events', in_hand', s)
    PROVE  Lifecycle!LifeNext
  <1> DEFINE D == Charged \ Charged'
  <1>1. Charged' \subseteq Charged /\ D \in SUBSET ConnectIds
    BY ChargedBegun DEF Charged, PairsOf
  <1>2. \A c \in D : StageOf(c) # "new" /\ StageOf(c)' \notin Lifecycle!InUse
    <2> SUFFICES ASSUME NEW c \in D
                 PROVE  StageOf(c) # "new" /\ StageOf(c)' \notin Lifecycle!InUse
      OBVIOUS
    <2>1. c < next_native_connect
      BY ChargedBegun
    <2>2. StageOf(c) # "new"
      BY <2>1, StageNow, StageMeans
    <2>3. Symmetric(native_links')
      BY SymmetricNext DEF FabricInv
    <2>4. ~(c \in DOMAIN native_pending' \/ LinkedIn(native_links', c))
      BY <2>3, PlacedHolds, ChargedNext
    <2>5. StageOf(c)' \notin Lifecycle!InUse
      BY <2>4, StageNext, StageMeans
    <2> QED
      BY <2>2, <2>5
  <1>3. CASE C = {}
    <2>1. \A c \in D : StageOf(c) = "retired"
      <3>1. \A c \in D : StageOf(c) \notin Lifecycle!InUse /\ StageOf(c) # "new"
        BY <1>1, <1>2, <1>3
      <3> QED
        BY <3>1, StageNow, StageMeans
    <2>2. Stage' = Stage
      BY <1>3 DEF Stage
    <2>3. Charged' = Charged \ D
      BY <1>1
    <2>4. Lifecycle!Release(D)
      BY <1>1, <2>1, <2>2, <2>3 DEF Lifecycle!Release, Stage, Charged
    <2> QED
      BY <1>1, <2>4 DEF Lifecycle!LifeNext
  <1>4. CASE \A s : LaneHolds(events, terminal_events, in_hand, s) =>
                        LaneHolds(events', terminal_events', in_hand', s)
    <2>1. D \subseteq C
      <3> SUFFICES ASSUME NEW c \in D, c \notin C
                   PROVE  FALSE
        OBVIOUS
      <3>1. StageOf(c) \notin Lifecycle!InUse
        BY <1>1, <1>2
      <3>2. c \notin DOMAIN native_pending /\ ~LinkedIn(native_links, c)
        BY <3>1, StageNow, StageMeans
      <3>3. PICK s : Holds(s) /\ s.connect_id = c
        BY ChargedNow
      <3>4. ~PendingHolds(native_pending, s)
        BY <3>2, <3>3 DEF PendingHolds
      <3>5. ~LinkHolds(native_links, s)
        BY <3>2, <3>3 DEF LinkHolds, LinkedIn, FabricInv, LinkSymmetry
      <3>6. LaneHolds(events', terminal_events', in_hand', s)
        BY <1>4, <3>3, <3>4, <3>5 DEF Holds
      <3> QED
        BY <3>3, <3>6, ChargedNext
    <2>2. Charged' = Charged \ (C \ (C \ D))
      BY <1>1, <2>1
    <2>3. Stage' = [c \in ConnectIds |-> IF c \in C THEN "retired" ELSE Stage[c]]
      BY DEF Stage
    <2>4. \A c \in C : Stage[c] \in Lifecycle!InUse
      BY DEF Stage
    <2>5. Lifecycle!Retire(C, C \ D)
      BY <2>2, <2>3, <2>4 DEF Lifecycle!Retire, Stage, Charged
    <2>6. (C \ D) \in SUBSET C
      OBVIOUS
    <2> QED
      BY <2>5, <2>6 DEF Lifecycle!LifeNext
  <1> QED
    BY <1>3, <1>4

-----------------------------------------------------------------------------
(* What the steps of the fabric do to stages and charges. *)

LanesKept ==
    \A s : LaneHolds(events, terminal_events, in_hand, s) =>
               LaneHolds(events', terminal_events', in_hand', s)

LEMMA TerminalsKept ==
    ASSUME UNCHANGED <<events, in_hand>>,
           \A x \in Endpoints : terminal_events[x] \subseteq terminal_events'[x]
    PROVE  LanesKept
  BY DEF LanesKept, LaneHolds, SetHolds

LEMMA SentKept ==
    ASSUME LanesTypeOK, NEW e \in Endpoints, NEW v \in EventType, Send(e, v),
           UNCHANGED <<terminal_events, in_hand>>
    PROVE  LanesKept
  BY SendHolds DEF LanesKept

(* Only native_begin_connect reserves. *)
LEMMA HeldOnlyShrinks ==
    ASSUME FabricInv, [Next]_fabric, UNCHANGED next_native_connect
    PROVE  Held' \subseteq Held
  <1>1. AdmissionKept \/ AdmissionSettled \/ AdmissionReserved
    BY AdmissionSteps DEF FabricInv, TypeOK
  <1>2. ~AdmissionReserved
    BY DEF AdmissionReserved, FabricInv, TypeOK, LinksTypeOK
  <1> QED
    BY <1>1, <1>2 DEF AdmissionKept, AdmissionSettled

(* A step that keeps the lanes and ends no connect keeps every charge. *)
LEMMA ChargesKept ==
    ASSUME FabricInv, FabricInv', LanesKept,
           \A c \in ConnectIds : c \in DOMAIN native_pending \/ LinkedIn(native_links, c) =>
               c \in DOMAIN native_pending' \/ LinkedIn(native_links', c)
    PROVE  Charged \subseteq Charged'
  <1> SUFFICES ASSUME NEW c \in Charged
               PROVE  c \in Charged'
    OBVIOUS
  <1>1. PICK s : Holds(s) /\ s.connect_id = c
    BY ChargedNow
  <1>2. c \in ConnectIds
    BY ChargedBegun
  <1>3. CASE LaneHolds(events, terminal_events, in_hand, s)
    BY <1>1, <1>3, ChargedNext DEF LanesKept
  <1>4. CASE PendingHolds(native_pending, s) \/ LinkHolds(native_links, s)
    <2>1. c \in DOMAIN native_pending \/ LinkedIn(native_links, c)
      BY <1>1, <1>4 DEF PendingHolds, LinkHolds, LinkedIn, FabricInv, LinkSymmetry
    <2>2. Symmetric(native_links')
      BY SymmetricNext DEF FabricInv
    <2> QED
      BY <1>2, <2>1, <2>2, PlacedHolds, ChargedNext
  <1> QED
    BY <1>1, <1>3, <1>4 DEF Holds

(* Nothing moves: a guard may be returned. *)
LEMMA QuietMap ==
    ASSUME FabricInv, FabricInv', [Next]_fabric, UNCHANGED <<native_links, next_native_connect>>,
           DOMAIN native_pending' = DOMAIN native_pending
    PROVE  Lifecycle!LifeNext
  <1>1. \A c \in ConnectIds : StageOf(c)' = StageOf(c)
    BY StageNow, StageNext
  <1>2. Held' \subseteq Held
    BY HeldOnlyShrinks
  <1>3. {} \in SUBSET ConnectIds
    OBVIOUS
  <1> QED
    BY <1>1, <1>2, <1>3, EndsMap

(* Pending connects and links go; both ends of a link go together. *)
LEMMA ResetMap ==
    ASSUME FabricInv, FabricInv', [Next]_fabric, ResetsLinks, LanesKept
    PROVE  Lifecycle!LifeNext
  <1> DEFINE In(c) == c \in DOMAIN native_pending \/ LinkedIn(native_links, c)
             InNext(c) == c \in DOMAIN native_pending' \/ LinkedIn(native_links', c)
             C == {c \in ConnectIds : In(c) /\ ~InNext(c)}
  <1>1. /\ DOMAIN native_pending' \subseteq DOMAIN native_pending
        /\ UNCHANGED next_native_connect
        /\ \A k \in DOMAIN native_links' :
               k \in DOMAIN native_links /\ native_links'[k] = native_links[k]
    BY DEF ResetsLinks, PendingShrinks, WithoutLinks, Without
  <1>2. Symmetric(native_links) /\ Symmetric(native_links')
    BY SymmetricNow, SymmetricNext DEF FabricInv
  <1>3. ASSUME NEW c, LinkedIn(native_links', c), NEW j \in DOMAIN native_links,
               native_links[j].connect_id = c
        PROVE  j \in DOMAIN native_links'
    <2>1. PICK k \in DOMAIN native_links' : native_links'[k].connect_id = c
      BY <1>3 DEF LinkedIn
    <2>2. k \in DOMAIN native_links /\ native_links[k].connect_id = c
      BY <1>1, <2>1
    <2>3. j \in {k, PeerIn(native_links, k)}
      BY <1>3, <2>2 DEF FabricInv, OneStage, PeerIn, peer_key
    <2>4. PeerIn(native_links', k) \in DOMAIN native_links'
      BY <1>2, <2>1, PeerFacts
    <2>5. PeerIn(native_links', k) = PeerIn(native_links, k)
      BY <1>1, <2>1 DEF PeerIn
    <2> QED
      BY <2>1, <2>3, <2>4, <2>5
  <1>4. ASSUME NEW c \in ConnectIds, c \notin C
        PROVE  StageOf(c)' = StageOf(c)
    <2>1. LinkedIn(native_links', c) => LinkedIn(native_links, c)
      BY <1>1 DEF LinkedIn
    <2>2. c \in DOMAIN native_pending => ~LinkedIn(native_links, c)
      BY DEF LinkedIn, FabricInv, OneStage
    <2>3. (c \in DOMAIN native_pending <=> c \in DOMAIN native_pending')
          /\ (LinkedIn(native_links', c) <=> LinkedIn(native_links, c))
      BY <1>1, <1>4, <2>1, <2>2
    <2>4. CASE LinkedIn(native_links', c)
      <3>1. UnpublishedIn(native_links', c) <=> UnpublishedIn(native_links, c)
        BY <1>1, <1>3, <2>4 DEF UnpublishedIn
      <3>2. HalfIn(native_links', c) <=> HalfIn(native_links, c)
        BY <1>1, <1>3, <2>4 DEF HalfIn
      <3> QED
        BY <1>1, <2>3, <3>1, <3>2, StageNow, StageNext DEF StageIn
    <2>5. CASE ~LinkedIn(native_links', c)
      BY <1>1, <2>3, <2>5, StageNow, StageNext DEF StageIn
    <2> QED
      BY <2>4, <2>5
  <1>5. ASSUME NEW c \in C
        PROVE  StageOf(c) \in Lifecycle!InUse /\ StageOf(c)' = "retired"
    <2>1. StageOf(c) \in Lifecycle!InUse
      BY StageNow, StageMeans
    <2>2. c < next_native_connect
      BY DEF FabricInv, OneStage, LinkedIn
    <2> QED
      BY <1>1, <2>1, <2>2, StageNext, StageMeans
  <1>6. Held' \subseteq Held
    BY <1>1, HeldOnlyShrinks
  <1>7. C \in SUBSET ConnectIds
    OBVIOUS
  <1> HIDE DEF C
  <1> QED
    BY <1>4, <1>5, <1>6, <1>7, EndsMap DEF LanesKept

(* One connect goes to a stage, and the others stay. *)
Moves(c, to) ==
    StageOf(c)' = to /\ \A x \in ConnectIds \ {c} : StageOf(x)' = StageOf(x)

LEMMA MovesMap ==
    ASSUME NEW c \in ConnectIds, NEW to, Moves(c, to)
    PROVE  Stage' = [Stage EXCEPT ![c] = to]
  <1>1. Stage' = [x \in ConnectIds |-> IF x = c THEN to ELSE StageOf(x)]
    BY DEF Moves, Stage
  <1> QED
    BY <1>1 DEF Stage

(* A connect id is taken. *)
LEMMA NextIdIsNew ==
    ASSUME FabricInv
    PROVE  StageOf(next_native_connect) = "new"
  <1>1. /\ next_native_connect \notin DOMAIN native_pending
        /\ ~LinkedIn(native_links, next_native_connect)
        /\ ~(next_native_connect < next_native_connect)
    BY DEF FabricInv, TypeOK, LinksTypeOK, OneStage, LinkedIn
  <1> QED
    BY <1>1, StageNow, StageMeans

(* The instance counts as FiniteSets does. *)
LEMMA SameCount == \A S : Lifecycle!Cardinality(S) = Cardinality(S)
  BY DEF Lifecycle!Cardinality, Cardinality

LEMMA BeginMap ==
    ASSUME FabricInv, FabricInv', NEW e \in Endpoints, NEW l \in ListenerHandles,
           NEW g \in ListenerHandles, NEW n \in Sizes, native_begin_connect(e, l, g, n)
    PROVE  Lifecycle!LifeNext
  <1>0. PICK c : c = next_native_connect
    OBVIOUS
  <1> DEFINE a == listeners[l].endpoint
             v == Event("IncomingConnect", c, l, n, 0, {})
  <1>1. /\ a \in Endpoints /\ reserve_pair(e, a) /\ c \in ConnectIds
        /\ c \in Nat /\ l \in Nat /\ n \in Nat
    BY <1>0, FabricAssumption
    DEF native_begin_connect, BeginOk, BeginAdmitted, FabricInv, TypeOK, RegistryTypeOK,
        LinksTypeOK, Listener, ListenerHandles, ConnectIds
  <1>2. /\ Send(a, v) /\ UNCHANGED <<terminal_events, in_hand>> /\ UNCHANGED native_links
        /\ next_native_connect' = c + 1
        /\ DOMAIN native_pending' = DOMAIN native_pending \union {c}
    BY <1>0 DEF native_begin_connect, Put
  <1>3. LanesKept
    <2>1. v \in EventType
      BY <1>1, EventInType DEF EventKinds
    <2> HIDE DEF v, a
    <2> QED
      BY <1>1, <1>2, <2>1, SentKept DEF FabricInv, TypeOK
  <1>4. Moves(c, "pending")
    <2>1. ASSUME NEW x \in ConnectIds, x # c
          PROVE  StageOf(x)' = StageOf(x)
      <3>1. x < c + 1 <=> x < c
        BY <1>1, <2>1 DEF ConnectIds
      <3> QED
        BY <1>0, <1>2, <2>1, <3>1, StageNow, StageNext DEF StageIn
    <2>2. StageOf(c)' = "pending"
      BY <1>2, StageNext DEF StageIn
    <2> QED
      BY <2>1, <2>2 DEF Moves
  <1>5. Charged' = Charged \union {c}
    <2>1. Charged \subseteq Charged'
      BY <1>2, <1>3, ChargesKept
    <2>2. c \in Charged'
      <3>1. Symmetric(native_links')
        BY SymmetricNext DEF FabricInv
      <3> QED
        BY <1>2, <3>1, PlacedHolds, ChargedNext
    <2>3. Charged' \subseteq Charged \union {c}
      <3>1. \/ Held' \subseteq Held
            \/ \E x, y \in Endpoints : Held' \subseteq Held \union NewSides(x, y)
        <4>1. AdmissionKept \/ AdmissionSettled \/ AdmissionReserved
          <5>1. [Next]_fabric
            BY DEF Next, Handshake
          <5> QED
            BY <5>1, AdmissionSteps DEF FabricInv, TypeOK
        <4> QED
          BY <4>1 DEF AdmissionKept, AdmissionSettled, AdmissionReserved
      <3>2. \A x, y : \A s \in NewSides(x, y) : s.connect_id = c
        BY <1>0 DEF NewSides
      <3> QED
        BY <3>1, <3>2 DEF Charged, PairsOf
    <2> QED
      BY <2>1, <2>2, <2>3
  <1>6. Lifecycle!Cardinality(Charged) < ConnectedPairs
    BY <1>1, SameCount DEF reserve_pair, FabricInv, AdmissionExact, Charged
  <1>7. Lifecycle!Begin(c)
    <2>1. Stage[c] = "new"
      BY <1>0, <1>1, NextIdIsNew DEF Stage
    <2>2. Stage' = [Stage EXCEPT ![c] = "pending"]
      BY <1>1, <1>4, MovesMap
    <2> QED
      BY <1>5, <1>6, <2>1, <2>2 DEF Lifecycle!Begin, Stage, Charged
  <1> QED
    BY <1>1, <1>7 DEF Lifecycle!LifeNext

LEMMA RefuseMap ==
    ASSUME FabricInv, FabricInv', NEW e \in Endpoints, NEW l \in ListenerHandles,
           NEW g \in ListenerHandles, native_begin_connect_backpressured(e, l, g)
    PROVE  Lifecycle!LifeNext
  <1>0. PICK c : c = next_native_connect
    OBVIOUS
  <1>1. c \in ConnectIds /\ c \in Nat
    BY <1>0, FabricAssumption
    DEF native_begin_connect_backpressured, BeginAdmitted, FabricInv, TypeOK, LinksTypeOK,
        ConnectIds
  <1>2. /\ UNCHANGED <<native_pending, native_links, events, terminal_events, in_hand>>
        /\ next_native_connect' = c + 1
    BY <1>0 DEF native_begin_connect_backpressured, lanes
  <1>3. Moves(c, "retired")
    <2>1. ASSUME NEW x \in ConnectIds, x # c
          PROVE  StageOf(x)' = StageOf(x)
      <3>1. x < c + 1 <=> x < c
        BY <1>1, <2>1 DEF ConnectIds
      <3> QED
        BY <1>0, <1>2, <2>1, <3>1, StageNow, StageNext DEF StageIn
    <2>2. c < c + 1
      BY <1>1
    <2>3. c \notin DOMAIN native_pending' /\ ~LinkedIn(native_links', c)
      BY <1>0, <1>2, NextIdIsNew, StageNow, StageMeans
    <2>4. StageOf(c)' = "retired"
      BY <1>2, <2>2, <2>3, StageNext, StageMeans
    <2> QED
      BY <2>1, <2>4 DEF Moves
  <1>4. Charged' = Charged
    <2>1. \A x : x \in Charged' <=> x \in Charged
      BY <1>2, ChargedNow, ChargedNext DEF Holds
    <2> QED
      BY <2>1
  <1>5. Lifecycle!Refuse(c)
    <2>1. Stage[c] = "new"
      BY <1>0, <1>1, NextIdIsNew DEF Stage
    <2>2. Stage' = [Stage EXCEPT ![c] = "retired"]
      BY <1>1, <1>3, MovesMap
    <2> QED
      BY <1>4, <2>1, <2>2 DEF Lifecycle!Refuse, Stage, Charged
  <1> QED
    BY <1>1, <1>5 DEF Lifecycle!LifeNext

(* A connect goes on, with its charge. *)
LEMMA AdvanceMap ==
    ASSUME FabricInv, FabricInv', [Next]_fabric, UNCHANGED next_native_connect, LanesKept,
           NEW c \in ConnectIds,
           NEW from, StageOf(c) = from, NEW to \in Lifecycle!InUse, Moves(c, to)
    PROVE  Lifecycle!Advance(c, from, to)
  <1>1. Charged' \subseteq Charged
    BY HeldOnlyShrinks DEF Charged, PairsOf
  <1>2. ASSUME NEW x \in ConnectIds, x \in DOMAIN native_pending \/ LinkedIn(native_links, x)
        PROVE  x \in DOMAIN native_pending' \/ LinkedIn(native_links', x)
    <2>1. StageOf(x) \in Lifecycle!InUse
      BY <1>2, StageNow, StageMeans
    <2>2. StageOf(x)' \in Lifecycle!InUse
      BY <2>1 DEF Moves
    <2> QED
      BY <2>2, StageNext, StageMeans
  <1>3. Charged' = Charged
    BY <1>1, <1>2, ChargesKept
  <1>4. Stage[c] = from /\ Stage' = [Stage EXCEPT ![c] = to]
    BY MovesMap DEF Stage
  <1> QED
    BY <1>3, <1>4 DEF Lifecycle!Advance, Stage, Charged

LEMMA CompleteMap ==
    ASSUME FabricInv, FabricInv', NEW e \in Endpoints, NEW c \in ConnectIds,
           NEW h \in ChannelHandles, NEW m \in Sizes, native_complete_connect(e, c, h, m)
    PROVE  Lifecycle!LifeNext
  <1>1. PICK k, p : NewLink(c, k, p)
    BY CompleteFacts DEF FabricInv, TypeOK
  <1>2. /\ DOMAIN native_pending' = DOMAIN native_pending \ {c}
        /\ UNCHANGED next_native_connect
        /\ UNCHANGED <<events, terminal_events, in_hand>>
    BY DEF native_complete_connect, Without, lanes
  <1>3. ~native_links'[k].published
    <2>1. \A j \in DOMAIN native_links' \ DOMAIN native_links : native_links'[j].published = FALSE
      BY DEF native_complete_connect, Put
    <2> QED
      BY <1>1, <2>1 DEF NewLink
  <1>4. Moves(c, "linked")
    <2>1. StageOf(c)' = "linked"
      <3>1. LinkedIn(native_links', c) /\ UnpublishedIn(native_links', c)
        BY <1>1, <1>3 DEF NewLink, LinkedIn, UnpublishedIn
      <3> QED
        BY <1>2, <3>1, StageNext DEF StageIn
    <2>2. ASSUME NEW x \in ConnectIds, x # c
          PROVE  StageOf(x)' = StageOf(x)
      <3>1. \A j : j \in DOMAIN native_links' /\ native_links'[j].connect_id = x
                       <=> j \in DOMAIN native_links /\ native_links[j].connect_id = x
        BY <1>1, <2>2 DEF NewLink
      <3>2. \A j \in DOMAIN native_links : native_links'[j] = native_links[j]
        BY <1>1 DEF NewLink
      <3>3. /\ LinkedIn(native_links', x) <=> LinkedIn(native_links, x)
            /\ UnpublishedIn(native_links', x) <=> UnpublishedIn(native_links, x)
            /\ HalfIn(native_links', x) <=> HalfIn(native_links, x)
        BY <3>1, <3>2 DEF LinkedIn, UnpublishedIn, HalfIn
      <3> QED
        BY <1>2, <2>2, <3>3, StageNow, StageNext DEF StageIn
    <2> QED
      BY <2>1, <2>2 DEF Moves
  <1>5. StageOf(c) = "pending"
    BY <1>1, StageNow DEF NewLink, StageIn
  <1>6. LanesKept
    BY <1>2 DEF LanesKept
  <1>7. [Next]_fabric
    BY DEF Next, Handshake
  <1>8. Lifecycle!Advance(c, "pending", "linked")
    BY <1>2, <1>4, <1>5, <1>6, <1>7, AdvanceMap DEF Lifecycle!InUse
  <1> QED
    BY <1>8 DEF Lifecycle!LifeNext

(* A table with the same connects at the same keys: a connect whose ends   *)
(* keep both flags keeps its stage.                                        *)
LEMMA SameFlags ==
    ASSUME UNCHANGED <<native_pending, next_native_connect>>,
           DOMAIN native_links' = DOMAIN native_links,
           \A j \in DOMAIN native_links : native_links'[j].connect_id = native_links[j].connect_id,
           NEW x,
           \A j \in DOMAIN native_links : native_links[j].connect_id = x =>
               /\ native_links'[j].published = native_links[j].published
               /\ native_links'[j].output_closed = native_links[j].output_closed
    PROVE  StageOf(x)' = StageOf(x)
  <1>1. /\ LinkedIn(native_links', x) <=> LinkedIn(native_links, x)
        /\ UnpublishedIn(native_links', x) <=> UnpublishedIn(native_links, x)
        /\ HalfIn(native_links', x) <=> HalfIn(native_links, x)
    BY DEF LinkedIn, UnpublishedIn, HalfIn
  <1> QED
    BY <1>1, StageNow, StageNext DEF StageIn

(* The two ends of a connect, and no third. *)
LEMMA EndsOfConnect ==
    ASSUME FabricInv, NEW k \in DOMAIN native_links
    PROVE  /\ peer_key(k) \in DOMAIN native_links
           /\ native_links[k].connect_id \in ConnectIds
           /\ native_links[k].connect_id \notin DOMAIN native_pending
           /\ native_links[peer_key(k)].connect_id = native_links[k].connect_id
           /\ native_links[peer_key(k)].published = native_links[k].published
           /\ \A j \in DOMAIN native_links :
                  native_links[j].connect_id = native_links[k].connect_id <=> j \in {k, peer_key(k)}
  <1>1. peer_key(k) \in DOMAIN native_links
        /\ native_links[peer_key(k)].connect_id = native_links[k].connect_id
        /\ native_links[peer_key(k)].published = native_links[k].published
    BY DEF FabricInv, LinkSymmetry
  <1>2. native_links[k].connect_id \in ConnectIds
    BY DEF FabricInv, TypeOK, LinksTypeOK, NativeLinkEnd
  <1> QED
    BY <1>1, <1>2 DEF FabricInv, OneStage

LEMMA PublishMap ==
    ASSUME FabricInv, FabricInv', ClosedIsPublished, NEW e \in Endpoints, NEW c \in ConnectIds,
           NEW h \in ChannelHandles, NEW n \in Sizes, native_publish_connect(e, c, h, n)
    PROVE  Lifecycle!LifeNext
  <1>0. PICK k, p : k = <<e, h>> /\ p = peer_key(k)
    OBVIOUS
  <1>1. /\ k \in DOMAIN native_links /\ native_links[k].connect_id = c
        /\ ~native_links[k].published
    BY <1>0 DEF native_publish_connect, PublishOk, PublishAdmitted
  <1>2. /\ p \in DOMAIN native_links /\ native_links[p].connect_id = c
        /\ ~native_links[p].published /\ c \notin DOMAIN native_pending
        /\ \A j \in DOMAIN native_links : native_links[j].connect_id = c <=> j \in {k, p}
    BY <1>0, <1>1, EndsOfConnect
  <1>3. ~native_links[k].output_closed /\ ~native_links[p].output_closed
    BY <1>1, <1>2 DEF ClosedIsPublished
  <1>4. /\ native_links' = [x \in DOMAIN native_links |->
               IF x \in {k, p} THEN [native_links[x] EXCEPT !.published = TRUE]
                               ELSE native_links[x]]
        /\ UNCHANGED <<native_pending, next_native_connect, terminal_events, in_hand>>
    BY <1>0 DEF native_publish_connect
  <1>5. /\ DOMAIN native_links' = DOMAIN native_links
        /\ \A j \in DOMAIN native_links :
               /\ native_links'[j].connect_id = native_links[j].connect_id
               /\ native_links'[j].output_closed = native_links[j].output_closed
               /\ j \in {k, p} => native_links'[j].published = TRUE
               /\ j \notin {k, p} => native_links'[j].published = native_links[j].published
    BY <1>4 DEF FabricInv, TypeOK, LinksTypeOK, NativeLinkEnd
  <1>6. StageOf(c) = "linked"
    <2>1. LinkedIn(native_links, c) /\ UnpublishedIn(native_links, c)
      BY <1>1 DEF LinkedIn, UnpublishedIn
    <2> QED
      BY <1>2, <2>1, StageNow DEF StageIn
  <1>7. Moves(c, "open")
    <2>1. LinkedIn(native_links', c) /\ ~UnpublishedIn(native_links', c) /\ ~HalfIn(native_links', c)
      BY <1>1, <1>2, <1>3, <1>5 DEF LinkedIn, UnpublishedIn, HalfIn
    <2>2. StageOf(c)' = "open"
      BY <1>2, <1>4, <2>1, StageNext DEF StageIn
    <2>3. ASSUME NEW x \in ConnectIds, x # c
          PROVE  StageOf(x)' = StageOf(x)
      BY <1>2, <1>4, <1>5, <2>3, SameFlags
    <2> QED
      BY <2>2, <2>3 DEF Moves
  <1>8. LanesKept
    <2> DEFINE to == native_links[k].peer_endpoint
               v == Event("ConnectCommitted", c, h, n, native_links[k].max_item_bytes, {})
    <2>1. Send(to, v)
      BY <1>0 DEF native_publish_connect
    <2>2. to \in Endpoints /\ native_links[k].max_item_bytes \in Nat
      BY <1>1, FabricAssumption DEF FabricInv, TypeOK, LinksTypeOK, NativeLinkEnd
    <2>3. v \in EventType
      <3>1. c \in Nat /\ n \in Nat /\ "ConnectCommitted" \in EventKinds
        BY FabricAssumption DEF EventKinds, ConnectIds
      <3> QED
        BY <2>2, <3>1, EventInType
    <2> HIDE DEF to, v
    <2> QED
      BY <1>4, <2>1, <2>2, <2>3, SentKept DEF FabricInv, TypeOK
  <1>9. [Next]_fabric
    BY DEF Next, Handshake
  <1>10. Lifecycle!Advance(c, "linked", "open")
    BY <1>4, <1>6, <1>7, <1>8, <1>9, AdvanceMap DEF Lifecycle!InUse
  <1> QED
    BY <1>10 DEF Lifecycle!LifeNext

LEMMA CloseMap ==
    ASSUME FabricInv, FabricInv', ClosedIsPublished, NEW e \in Endpoints, NEW h \in ChannelHandles,
           NEW n \in Limits, native_send_close(e, h, n)
    PROVE  Lifecycle!LifeNext
  <1>0. PICK k, p : k = <<e, h>> /\ p = peer_key(k)
    OBVIOUS
  <1>1. /\ k \in DOMAIN native_links /\ native_links[k].published
        /\ ~native_links[k].output_closed
    BY <1>0 DEF native_send_close, SendOk, RouteOk
  <1>2. PICK c : c = native_links[k].connect_id
    OBVIOUS
  <1>3. /\ p \in DOMAIN native_links /\ native_links[p].connect_id = c
        /\ native_links[p].published /\ c \in ConnectIds /\ c \notin DOMAIN native_pending
        /\ \A j \in DOMAIN native_links : native_links[j].connect_id = c <=> j \in {k, p}
    BY <1>0, <1>1, <1>2, EndsOfConnect
  <1>4. UNCHANGED <<native_pending, next_native_connect, terminal_events, in_hand>>
    BY DEF native_send_close
  <1>5. LanesKept
    <2>1. RouteOk(<<e, h>>) /\ Send(native_links[<<e, h>>].peer_endpoint, Routed("Close", <<e, h>>, n))
      BY DEF native_send_close, SendOk
    <2>2. LinksTypeOK /\ n \in Nat /\ "Close" \in EventKinds
      BY FabricAssumption DEF EventKinds, FabricInv, TypeOK
    <2>3. /\ native_links[<<e, h>>].peer_endpoint \in Endpoints
          /\ Routed("Close", <<e, h>>, n) \in EventType
      BY <2>1, <2>2, RoutedType
    <2> QED
      BY <1>4, <2>1, <2>3, SentKept DEF FabricInv, TypeOK
  <1>6. [Next]_fabric
    BY DEF Next, Ending
  <1>7. CASE native_links[p].output_closed
    <2>1. native_links' = Without(native_links, {k, p})
      BY <1>0, <1>7 DEF native_send_close
    <2>2. {k, p} = {k} \union {PeerIn(native_links, x) : x \in {k}}
      BY <1>0 DEF PeerIn, peer_key
    <2>3. ResetsLinks
      BY <1>1, <1>4, <2>1, <2>2 DEF ResetsLinks, PendingShrinks, WithoutLinks
    <2> QED
      BY <1>5, <1>6, <2>3, ResetMap
  <1>8. CASE ~native_links[p].output_closed
    <2>1. native_links' = [native_links EXCEPT ![k].output_closed = TRUE]
      BY <1>0, <1>8 DEF native_send_close
    <2>2. /\ DOMAIN native_links' = DOMAIN native_links
          /\ \A j \in DOMAIN native_links :
                 /\ native_links'[j].connect_id = native_links[j].connect_id
                 /\ native_links'[j].published = native_links[j].published
                 /\ j # k => native_links'[j].output_closed = native_links[j].output_closed
          /\ native_links'[k].output_closed = TRUE
      BY <1>1, <2>1 DEF FabricInv, TypeOK, LinksTypeOK, NativeLinkEnd
    <2>3. StageOf(c) = "open"
      <3>1. LinkedIn(native_links, c) /\ ~UnpublishedIn(native_links, c) /\ ~HalfIn(native_links, c)
        BY <1>1, <1>2, <1>3, <1>8 DEF LinkedIn, UnpublishedIn, HalfIn
      <3> QED
        BY <1>3, <3>1, StageNow DEF StageIn
    <2>4. Moves(c, "half")
      <3>1. LinkedIn(native_links', c) /\ ~UnpublishedIn(native_links', c) /\ HalfIn(native_links', c)
        BY <1>1, <1>2, <1>3, <2>2 DEF LinkedIn, UnpublishedIn, HalfIn
      <3>2. StageOf(c)' = "half"
        BY <1>3, <1>4, <3>1, StageNext DEF StageIn
      <3>3. ASSUME NEW x \in ConnectIds, x # c
            PROVE  StageOf(x)' = StageOf(x)
        BY <1>2, <1>4, <2>2, <3>3, SameFlags
      <3> QED
        BY <3>2, <3>3 DEF Moves
    <2>5. Lifecycle!Advance(c, "open", "half")
      BY <1>3, <1>4, <1>5, <1>6, <2>3, <2>4, AdvanceMap DEF Lifecycle!InUse
    <2> QED
      BY <1>3, <2>5 DEF Lifecycle!LifeNext
  <1> QED
    BY <1>7, <1>8

-----------------------------------------------------------------------------
(* The refinement. *)

Quiet ==
    UNCHANGED <<native_links, next_native_connect>> /\ DOMAIN native_pending' = DOMAIN native_pending
Begins ==
    \E e \in Endpoints, l, g \in ListenerHandles :
        \/ \E n \in Sizes : native_begin_connect(e, l, g, n)
        \/ native_begin_connect_backpressured(e, l, g)
Publishes ==
    \E e \in Endpoints, c \in ConnectIds, h \in ChannelHandles, n \in Sizes :
        native_publish_connect(e, c, h, n)
Closes ==
    \E e \in Endpoints, h \in ChannelHandles, n \in Limits : native_send_close(e, h, n)

(* Every step is one of these. *)
LEMMA LifeSteps ==
    ASSUME FabricInv, [Next]_fabric
    PROVE  \/ Quiet
           \/ ResetsLinks /\ LanesKept
           \/ Begins \/ CompletesLink \/ Publishes \/ Closes
  <1>1. CASE Traffic \/ Receiving
    BY <1>1, LinksUnchanged DEF Quiet
  <1>2. CASE begin_shutdown
    BY <1>2 DEF begin_shutdown, Quiet
  <1>3. ASSUME NEW e \in Endpoints, register_native_endpoint(e)
        PROVE  Quiet
    BY <1>3 DEF register_native_endpoint, Quiet
  <1>4. ASSUME NEW e \in Endpoints, NEW n \in Names, native_listen(e, n)
        PROVE  Quiet
    BY <1>4 DEF native_listen, Quiet
  <1>a. ASSUME PendingShrinks, UNCHANGED native_links
        PROVE  ResetsLinks
    <2>1. native_links = [k \in DOMAIN native_links |-> native_links[k]]
      BY DEF FabricInv, TypeOK, LinksTypeOK
    <2>2. {} \union {PeerIn(native_links, k) : k \in {}} = {}
      OBVIOUS
    <2>3. native_links' = WithoutLinks(native_links, {})
      BY <1>a, <2>1, <2>2 DEF WithoutLinks, Without
    <2>4. {} \in SUBSET DOMAIN native_links
      OBVIOUS
    <2> QED
      BY <1>a, <2>3, <2>4 DEF ResetsLinks
  <1>5. ASSUME NEW e \in Endpoints, NEW l \in ListenerHandles, NEW g \in ListenerHandles,
               native_close_listener(e, l, g)
        PROVE  ResetsLinks /\ LanesKept
    <2>1. PendingShrinks /\ UNCHANGED native_links
      BY <1>5 DEF native_close_listener, PendingShrinks, Without
    <2>2. LanesKept
      BY <1>5, TerminalsKept DEF native_close_listener
    <2> QED
      BY <1>a, <2>1, <2>2
  <1>6. ASSUME NEW e \in Endpoints, unregister_native_endpoint(e)
        PROVE  ResetsLinks /\ LanesKept
    <2>1. PICK K \in SUBSET DOMAIN native_links :
              /\ native_links' = ResetLinks(K)
              /\ terminal_events' = [x \in Endpoints |->
                     terminal_events[x] \union Aborts(ConnectsOf(e), x) \union Resets(K, x)]
      BY <1>6 DEF unregister_native_endpoint
    <2>2. PendingShrinks /\ UNCHANGED <<events, in_hand>>
      BY <1>6 DEF unregister_native_endpoint, PendingShrinks, Without
    <2>3. LanesKept
      BY <2>1, <2>2, TerminalsKept
    <2> QED
      BY <2>1, <2>2, <2>3 DEF ResetsLinks, ResetLinks, WithoutLinks, PeerIn, peer_key
  <1>7. ASSUME NEW e \in Endpoints, NEW c \in ConnectIds, NEW h \in ChannelHandles,
               NEW n \in Sizes, NEW m \in Sizes, native_prepare_connect(e, c, h, n, m)
        PROVE  Quiet
    BY <1>7 DEF native_prepare_connect, Quiet
  <1>8. ASSUME NEW e \in Endpoints, NEW c \in ConnectIds, NEW h \in ChannelHandles,
               NEW n \in Sizes, native_publish_connect_backpressured(e, c, h, n)
        PROVE  ResetsLinks /\ LanesKept
    <2>1. LanesKept
      BY <1>8, TerminalsKept DEF native_publish_connect_backpressured
    <2> QED
      BY <1>8, <2>1 DEF native_publish_connect_backpressured, PublishAdmitted, ResetsLinks,
         PendingShrinks, ResetLinks, WithoutLinks, PeerIn, peer_key
  <1>9. ASSUME NEW e \in Endpoints, NEW c \in ConnectIds, native_cancel_connect(e, c)
        PROVE  ResetsLinks /\ LanesKept
    <2>1. PendingShrinks /\ UNCHANGED native_links
      BY <1>9 DEF native_cancel_connect, PendingShrinks, Without
    <2>2. LanesKept
      BY <1>9, TerminalsKept DEF native_cancel_connect
    <2> QED
      BY <1>a, <2>1, <2>2
  <1>10. ASSUME NEW e \in Endpoints, NEW h \in ChannelHandles, native_reset(e, h)
         PROVE  ResetsLinks /\ LanesKept
    <2>1. LanesKept
      BY <1>10, TerminalsKept DEF native_reset
    <2> QED
      BY <1>10, <2>1 DEF native_reset, ResetsLinks, PendingShrinks, ResetLinks, WithoutLinks,
         PeerIn, peer_key
  <1>11. CASE UNCHANGED fabric
    <2>1. UNCHANGED <<native_pending, next_native_connect, native_links>>
      BY <1>11 DEF fabric
    <2> QED
      BY <2>1 DEF Quiet
  <1> QED
    BY <1>1, <1>2, <1>3, <1>4, <1>5, <1>6, <1>7, <1>8, <1>9, <1>10, <1>11
    DEF Next, Registration, Handshake, Ending, Begins, CompletesLink, Publishes, Closes

LEMMA ClosedStep ==
    ASSUME FabricInv, ClosedIsPublished, [Next]_fabric
    PROVE  ClosedIsPublished'
  <1>1. CASE Quiet
    BY <1>1 DEF Quiet, ClosedIsPublished
  <1>2. CASE ResetsLinks
    BY <1>2 DEF ResetsLinks, WithoutLinks, Without, ClosedIsPublished
  <1>3. CASE Begins
    BY <1>3 DEF Begins, native_begin_connect, native_begin_connect_backpressured,
       ClosedIsPublished
  <1>4. CASE CompletesLink
    <2>1. \A j \in DOMAIN native_links' :
              \/ j \in DOMAIN native_links /\ native_links'[j] = native_links[j]
              \/ native_links'[j].output_closed = FALSE
      BY <1>4 DEF CompletesLink, native_complete_connect, Put
    <2> QED
      BY <2>1 DEF ClosedIsPublished
  <1>5. CASE Publishes
    <2>1. \A j \in DOMAIN native_links' :
              /\ j \in DOMAIN native_links
              /\ native_links'[j] \in {native_links[j], [native_links[j] EXCEPT !.published = TRUE]}
      BY <1>5 DEF Publishes, native_publish_connect
    <2> QED
      BY <2>1 DEF ClosedIsPublished, FabricInv, TypeOK, LinksTypeOK, NativeLinkEnd
  <1>6. CASE Closes
    <2>1. PICK k \in DOMAIN native_links :
              /\ native_links[k].published
              /\ \A j \in DOMAIN native_links' :
                     /\ j \in DOMAIN native_links
                     /\ j # k => native_links'[j] = native_links[j]
                     /\ native_links'[j].published = native_links[j].published
      BY <1>6 DEF Closes, native_send_close, SendOk, RouteOk, Without, FabricInv, TypeOK,
         LinksTypeOK, NativeLinkEnd
    <2> QED
      BY <2>1 DEF ClosedIsPublished
  <1> QED
    BY <1>1, <1>2, <1>3, <1>4, <1>5, <1>6, LifeSteps

LEMMA RefinementStep ==
    ASSUME FabricInv, FabricInv', ClosedIsPublished, [Next]_fabric
    PROVE  Lifecycle!LifeNext
  <1>1. CASE Quiet
    BY <1>1, QuietMap DEF Quiet
  <1>2. CASE ResetsLinks /\ LanesKept
    BY <1>2, ResetMap
  <1>3. CASE Begins
    BY <1>3, BeginMap, RefuseMap DEF Begins
  <1>4. CASE CompletesLink
    BY <1>4, CompleteMap DEF CompletesLink
  <1>5. CASE Publishes
    BY <1>5, PublishMap DEF Publishes
  <1>6. CASE Closes
    BY <1>6, CloseMap DEF Closes
  <1> QED
    BY <1>1, <1>2, <1>3, <1>4, <1>5, <1>6, LifeSteps

LEMMA RefinementInit == Init => Lifecycle!LifeInit /\ ClosedIsPublished
  <1> SUFFICES ASSUME Init
               PROVE  Lifecycle!LifeInit /\ ClosedIsPublished
    OBVIOUS
  <1>1. Held = {}
    <2>1. \A s : ~Holds(s)
      BY DEF Init, EmptyFunction, Holds, PendingHolds, LinkHolds, LaneHolds, QueueHolds, SetHolds
    <2> QED
      BY <2>1, HeldNow
  <1>2. \A c \in ConnectIds : StageOf(c) = "new"
    <2>1. \A c \in ConnectIds : /\ c \notin DOMAIN native_pending /\ ~LinkedIn(native_links, c)
                                /\ ~(c < next_native_connect)
      BY DEF Init, EmptyFunction, LinkedIn, ConnectIds
    <2> QED
      BY <2>1, StageNow, StageMeans
  <1>3. ClosedIsPublished
    BY DEF Init, EmptyFunction, ClosedIsPublished
  <1> QED
    BY <1>1, <1>2, <1>3 DEF Lifecycle!LifeInit, PairsOf

(* Whatever the sessions call and in whatever order, ChannelFabric takes a *)
(* connect only forward through its stages and never revives one; it       *)
(* admits one only below the pair limit, charges its pair once, and gives  *)
(* the charge back only after the connect has ended.                       *)
THEOREM FabricImplementsLifecycle == Spec => ImplementsLifecycle
  <1>1. Init => Lifecycle!LifeInit /\ ClosedIsPublished
    BY RefinementInit
  <1>2. FabricInv /\ ClosedIsPublished /\ [Next]_fabric => ClosedIsPublished'
    BY ClosedStep
  <1>3. FabricInv /\ FabricInv' /\ ClosedIsPublished /\ [Next]_fabric => Lifecycle!LifeNext
    BY RefinementStep
  <1> QED
    BY <1>1, <1>2, <1>3, FabricCorrect, PTL DEF Spec, ImplementsLifecycle, Lifecycle!LifeSpec

-----------------------------------------------------------------------------
(* What the lanes hold. *)

RoutedKinds == {"Message", "Credit", "Close"}
InLane(e) == in_hand[e] \union {events[e][i] : i \in DOMAIN events[e]}

(* The terminal events travel on the unbounded lane and nothing else does. *)
LaneKinds ==
    \A e \in Endpoints :
        /\ \A i \in DOMAIN events[e] : events[e][i].kind \notin TerminalKinds
        /\ \A v \in terminal_events[e] : v.kind \in TerminalKinds

(* What is routed belongs to a connect that is past its publication, and a *)
(* Close to a direction that is closed; the link may be gone by now.       *)
SettledFor(v, s) ==
    /\ s.connect_id \notin DOMAIN native_pending
    /\ \A k \in DOMAIN native_links : native_links[k].connect_id = s.connect_id =>
           /\ native_links[k].published
           /\ v.kind = "Close" /\ native_links[k].side = s =>
                  native_links[peer_key(k)].output_closed
RoutedSettled ==
    \A e \in Endpoints : \A v \in InLane(e) : \A s \in v.guard :
        v.kind \in RoutedKinds => SettledFor(v, s)

(* Every link is an older one that has only gone on, or a new one of a     *)
(* pending connect.                                                        *)
Onward(k) ==
    /\ k \in DOMAIN native_links
    /\ native_links'[k].connect_id = native_links[k].connect_id
    /\ native_links'[k].side = native_links[k].side
    /\ PeerIn(native_links', k) = PeerIn(native_links, k)
    /\ native_links[k].published => native_links'[k].published
    /\ native_links[k].output_closed => native_links'[k].output_closed

LEMMA LinksOnward ==
    ASSUME FabricInv, [Next]_fabric, NEW k \in DOMAIN native_links'
    PROVE  Onward(k) \/ native_links'[k].connect_id \in DOMAIN native_pending
  <1> USE DEF FabricInv, TypeOK
  <1>0. ASSUME k \in DOMAIN native_links, native_links'[k] = native_links[k]
        PROVE  Onward(k)
    BY <1>0 DEF Onward, PeerIn
  <1>1. CASE Quiet
    BY <1>0, <1>1 DEF Quiet
  <1>2. CASE ResetsLinks
    BY <1>0, <1>2 DEF ResetsLinks, WithoutLinks, Without
  <1>3. CASE Begins
    <2>1. native_links' = native_links
      BY <1>3 DEF Begins, native_begin_connect, native_begin_connect_backpressured
    <2> QED
      BY <1>0, <2>1
  <1>4. CASE CompletesLink
    <2>1. PICK c, x, y : NewLink(c, x, y)
      BY <1>4, CompleteFacts DEF CompletesLink
    <2> QED
      BY <1>0, <2>1 DEF NewLink
  <1>5. CASE Publishes
    <2>1. /\ k \in DOMAIN native_links
          /\ native_links'[k] \in {native_links[k], [native_links[k] EXCEPT !.published = TRUE]}
      BY <1>5 DEF Publishes, native_publish_connect
    <2> QED
      BY <2>1 DEF Onward, PeerIn, LinksTypeOK, NativeLinkEnd
  <1>6. CASE Closes
    <2>1. /\ k \in DOMAIN native_links
          /\ native_links'[k] \in {native_links[k],
                                   [native_links[k] EXCEPT !.output_closed = TRUE]}
      BY <1>6 DEF Closes, native_send_close, Without, LinksTypeOK
    <2> QED
      BY <2>1 DEF Onward, PeerIn, LinksTypeOK, NativeLinkEnd
  <1> QED
    BY <1>1, <1>2, <1>3, <1>4, <1>5, <1>6, LifeSteps

(* What was settled stays settled. *)
LEMMA SettledStays ==
    ASSUME FabricInv, FabricInv', [Next]_fabric, NEW v, NEW s \in Held, SettledFor(v, s)
    PROVE  SettledFor(v, s)'
  <1>1. s.connect_id < next_native_connect /\ s.connect_id \in Nat
    <2>1. s \in Side
      BY HeldType DEF FabricInv, TypeOK
    <2> QED
      BY <2>1 DEF FabricInv, HeldAllocated, Side, ConnectIds
  <1>2. s.connect_id \notin DOMAIN native_pending'
    <2>1. ASSUME NEW c \in DOMAIN native_pending'
          PROVE  c \in DOMAIN native_pending \/ c = next_native_connect
      BY PendingEndpoints DEF FabricInv, TypeOK
    <2> QED
      BY <1>1, <2>1 DEF SettledFor, FabricInv, TypeOK, LinksTypeOK
  <1>3. ASSUME NEW k \in DOMAIN native_links', native_links'[k].connect_id = s.connect_id
        PROVE  /\ native_links'[k].published
               /\ v.kind = "Close" /\ native_links'[k].side = s =>
                      native_links'[PeerIn(native_links', k)].output_closed
    <2>1. Onward(k)
      BY <1>3, LinksOnward DEF SettledFor
    <2> DEFINE p == PeerIn(native_links', k)
    <2>2. p \in DOMAIN native_links' /\ native_links'[p].connect_id = s.connect_id
      <3>1. Symmetric(native_links')
        BY SymmetricNext DEF FabricInv
      <3> QED
        BY <1>3, <3>1 DEF Symmetric, SymmetricAt
    <2>3. Onward(p)
      BY <2>2, LinksOnward DEF SettledFor
    <2>4. native_links[k].connect_id = s.connect_id /\ k \in DOMAIN native_links
      BY <1>3, <2>1 DEF Onward
    <2>5. p = peer_key(k)
      BY <2>1 DEF Onward, PeerIn, peer_key
    <2>6. native_links'[k].published
      BY <2>1, <2>4 DEF Onward, SettledFor
    <2>7. ASSUME v.kind = "Close", native_links'[k].side = s
          PROVE  native_links'[p].output_closed
      <3>1. native_links[peer_key(k)].output_closed
        BY <2>1, <2>4, <2>7 DEF Onward, SettledFor
      <3> HIDE DEF p
      <3> QED
        BY <2>3, <2>5, <3>1 DEF Onward
    <2> QED
      BY <2>6, <2>7
  <1> QED
    BY <1>2, <1>3 DEF SettledFor, PeerIn, peer_key

(* Two events of one lane, the first before the second. *)
Compatible(x, y) ==
    /\ x.kind = "Close" /\ y.kind \in {"Message", "Close"} => x.guard \cap y.guard = {}
    /\ x.kind \in RoutedKinds /\ y.kind = "ConnectCommitted" =>
           \A s \in x.guard : s.connect_id # y.id

(* LaneOrder, for the event in hand and the queue of an endpoint. *)
InHand(hand) == CHOOSE v \in hand : TRUE
Ordered(hand, q) ==
    /\ \A i, j \in DOMAIN q : i < j => Compatible(q[i], q[j])
    /\ hand # {} => \A i \in DOMAIN q : Compatible(InHand(hand), q[i])
LanesOrdered == \A e \in Endpoints : Ordered(in_hand[e], events[e])

LEMMA OrderedIsLaneOrder == LanesTypeOK /\ LanesOrdered => LaneOrder
  <1> SUFFICES ASSUME LanesTypeOK, LanesOrdered
               PROVE  LaneOrder
    OBVIOUS
  <1>1. ASSUME NEW e \in Endpoints, NEW i \in DOMAIN Inbound(e), NEW j \in DOMAIN Inbound(e), i < j
        PROVE  Compatible(Inbound(e)[i], Inbound(e)[j])
    <2> DEFINE q == events[e]
               h == InHand(in_hand[e])
    <2>1. q \in Seq(EventType) /\ Len(q) \in Nat /\ DOMAIN q = 1 .. Len(q)
      BY DEF LanesTypeOK
    <2>2. Ordered(in_hand[e], q)
      BY DEF LanesOrdered
    <2>3. CASE in_hand[e] = {}
      BY <1>1, <2>2, <2>3 DEF Inbound, Ordered
    <2>4. CASE in_hand[e] # {}
      <3>1. Inbound(e) = <<h>> \o q
        BY <2>4 DEF Inbound, InHand
      <3> HIDE DEF q, h
      <3>2. /\ DOMAIN Inbound(e) = 1 .. Len(q) + 1
            /\ \A x \in 1 .. Len(q) + 1 : Inbound(e)[x] = IF x = 1 THEN h ELSE q[x - 1]
        BY <2>1, <3>1
      <3>3. /\ i \in 1 .. Len(q) + 1 /\ j \in 1 .. Len(q) + 1 /\ j # 1 /\ j - 1 \in DOMAIN q
            /\ i # 1 => i - 1 \in DOMAIN q /\ i - 1 < j - 1
        BY <1>1, <2>1, <3>2
      <3>4. CASE i = 1
        BY <2>2, <2>4, <3>2, <3>3, <3>4 DEF Ordered, h
      <3>5. CASE i # 1
        BY <2>2, <3>2, <3>3, <3>5 DEF Ordered
      <3> QED
        BY <3>4, <3>5
    <2> QED
      BY <2>3, <2>4
  <1>2. CommitIsFirst
    BY <1>1 DEF CommitIsFirst, Compatible, RoutedKinds
  <1>3. CloseIsLast
    BY <1>1 DEF CloseIsLast, Compatible
  <1> QED
    BY <1>2, <1>3 DEF LaneOrder

(* What a send adds keeps the order if every event ahead of it allows it. *)
LEMMA OrderedAppend ==
    ASSUME NEW hand, NEW q \in Seq(EventType), Ordered(hand, q), NEW v \in EventType,
           \A i \in DOMAIN q : Compatible(q[i], v),
           hand # {} => Compatible(InHand(hand), v)
    PROVE  Ordered(hand, Append(q, v))
  <1> DEFINE r == Append(q, v)
             n == Len(q)
  <1>1. /\ n \in Nat /\ DOMAIN q = 1 .. n /\ DOMAIN r = 1 .. n + 1
        /\ r[n + 1] = v /\ \A i \in 1 .. n : r[i] = q[i]
    OBVIOUS
  <1> HIDE DEF r, n
  <1>2. ASSUME NEW i \in 1 .. n + 1, NEW j \in 1 .. n + 1, i < j
        PROVE  Compatible(r[i], r[j])
    <2>1. i \in 1 .. n
      BY <1>1, <1>2
    <2>2. CASE j = n + 1
      BY <1>1, <2>1, <2>2
    <2>3. CASE j # n + 1
      <3>1. j \in 1 .. n
        BY <1>1, <2>3
      <3> QED
        BY <1>1, <1>2, <2>1, <3>1 DEF Ordered
    <2> QED
      BY <2>2, <2>3
  <1>3. ASSUME hand # {}, NEW i \in 1 .. n + 1
        PROVE  Compatible(InHand(hand), r[i])
    <2>1. i \in 1 .. n \/ i = n + 1
      BY <1>1
    <2> QED
      BY <1>1, <1>3, <2>1 DEF Ordered
  <1>4. Ordered(hand, r)
    BY <1>1, <1>2, <1>3 DEF Ordered
  <1> QED
    BY <1>4 DEF r

(* The head of the queue, taken into the hand, stays ahead of the rest. *)
LEMMA OrderedTail ==
    ASSUME NEW q \in Seq(EventType), q # << >>, Ordered({}, q)
    PROVE  Ordered({Head(q)}, Tail(q))
  <1> DEFINE n == Len(q)
  <1>1. /\ n \in Nat \ {0} /\ DOMAIN q = 1 .. n /\ DOMAIN Tail(q) = 1 .. n - 1 /\ Head(q) = q[1]
        /\ \A i \in 1 .. n - 1 : Tail(q)[i] = q[i + 1]
    OBVIOUS
  <1>2. InHand({Head(q)}) = q[1]
    BY <1>1 DEF InHand
  <1> HIDE DEF n
  <1>3. \A i \in 1 .. n - 1 : i + 1 \in 1 .. n /\ 1 < i + 1 /\ 1 \in 1 .. n
    BY <1>1
  <1>4. \A i \in 1 .. n - 1 : Compatible(q[1], q[i + 1])
    BY <1>1, <1>3 DEF Ordered
  <1>5. ASSUME NEW i \in 1 .. n - 1, NEW j \in 1 .. n - 1, i < j
        PROVE  Compatible(q[i + 1], q[j + 1])
    <2>1. i + 1 < j + 1
      BY <1>1, <1>5
    <2> QED
      BY <1>1, <1>3, <2>1 DEF Ordered
  <1> QED
    BY <1>1, <1>2, <1>4, <1>5 DEF Ordered

(* What a step may send. *)
Sent(e, v) == Send(e, v) /\ UNCHANGED <<terminal_events, in_hand>>
Handshakes(v) == v.kind \in {"IncomingConnect", "ConnectPrepared"}
Commits(v) ==
    /\ v.kind = "ConnectCommitted"
    /\ \E k \in DOMAIN native_links : native_links[k].connect_id = v.id /\ ~native_links[k].published
Routes(v, k) ==
    /\ v.kind \in RoutedKinds /\ RouteOk(k) /\ v.guard = {native_links[peer_key(k)].side}
    /\ v.kind # "Credit" => ~native_links[k].output_closed
    /\ \A s \in v.guard : SettledFor(v, s)'
LaneSend ==
    \E e \in Endpoints, v \in EventType :
        Sent(e, v) /\ (Handshakes(v) \/ Commits(v) \/ \E k \in DOMAIN native_links : Routes(v, k))

(* Traffic and Close are routed to the other end, and settled once sent. *)
LEMMA RoutedSent ==
    ASSUME FabricInv, FabricInv', NEW e \in Endpoints, NEW h \in ChannelHandles, NEW kind \in RoutedKinds,
           NEW n \in Nat, RouteOk(<<e, h>>),
           kind # "Credit" => ~native_links[<<e, h>>].output_closed,
           Sent(native_links[<<e, h>>].peer_endpoint, Routed(kind, <<e, h>>, n)),
           UNCHANGED native_pending,
           \A j \in DOMAIN native_links' :
               /\ j \in DOMAIN native_links
               /\ \/ native_links'[j] = native_links[j]
                  \/ native_links'[j] = [native_links[j] EXCEPT !.output_closed = TRUE],
           kind = "Close" /\ <<e, h>> \in DOMAIN native_links' =>
               native_links'[<<e, h>>].output_closed
    PROVE  LaneSend
  <1>0. PICK k, p : k = <<e, h>> /\ p = peer_key(k)
    OBVIOUS
  <1>1. PICK v : v = Routed(kind, k, n)
    OBVIOUS
  <1>2. /\ native_links[k].peer_endpoint \in Endpoints /\ v \in EventType
        /\ v.kind = kind /\ v.guard = {native_links[p].side}
    <2>1. kind \in EventKinds
      BY DEF RoutedKinds, EventKinds
    <2> QED
      BY <1>0, <1>1, <2>1, RoutedType DEF Routed, Event, FabricInv, TypeOK
  <1>3. k \in DOMAIN native_links /\ native_links[k].published
    BY <1>0 DEF RouteOk
  <1>4. /\ p \in DOMAIN native_links /\ native_links[p].published
        /\ native_links[k].connect_id \notin DOMAIN native_pending
        /\ native_links[p].connect_id = native_links[k].connect_id
        /\ \A j \in DOMAIN native_links :
               native_links[j].connect_id = native_links[k].connect_id <=> j \in {k, p}
    BY <1>0, <1>3, EndsOfConnect
  <1>5. /\ native_links[p].side.connect_id = native_links[k].connect_id
        /\ native_links[k].side # native_links[p].side /\ peer_key(p) = k /\ p # k
    BY <1>0, <1>3, <1>4 DEF FabricInv, LinkSymmetry
  <1>6. \A j \in DOMAIN native_links' :
            /\ j \in DOMAIN native_links
            /\ native_links'[j].connect_id = native_links[j].connect_id
            /\ native_links'[j].published = native_links[j].published
            /\ native_links'[j].side = native_links[j].side
            /\ PeerIn(native_links', j) = PeerIn(native_links, j)
    BY DEF FabricInv, TypeOK, LinksTypeOK, NativeLinkEnd, PeerIn
  <1>7. PICK s : s = native_links[p].side
    OBVIOUS
  <1>8. SettledFor(v, s)'
    <2>1. s.connect_id \notin DOMAIN native_pending'
      BY <1>4, <1>5, <1>7
    <2>2. ASSUME NEW j \in DOMAIN native_links', native_links'[j].connect_id = s.connect_id
          PROVE  /\ native_links'[j].published
                 /\ v.kind = "Close" /\ native_links'[j].side = s =>
                        native_links'[PeerIn(native_links', j)].output_closed
      <3>1. j \in {k, p}
        BY <1>4, <1>5, <1>6, <1>7, <2>2
      <3>2. native_links'[j].published
        BY <1>3, <1>4, <1>6, <3>1
      <3>3. ASSUME v.kind = "Close", native_links'[j].side = s
            PROVE  native_links'[PeerIn(native_links', j)].output_closed
        <4>1. j = p
          BY <1>5, <1>6, <1>7, <3>1, <3>3
        <4>2. PeerIn(native_links', j) = k
          BY <1>5, <1>6, <4>1 DEF PeerIn, peer_key
        <4>3. k \in DOMAIN native_links'
          BY <4>2, SymmetricNext, PeerFacts DEF FabricInv
        <4> QED
          BY <1>0, <1>2, <3>3, <4>2, <4>3
      <3> QED
        BY <3>2, <3>3
    <2> QED
      BY <2>1, <2>2 DEF SettledFor, PeerIn, peer_key
  <1>9. Routes(v, k)
    BY <1>0, <1>2, <1>7, <1>8 DEF Routes
  <1> QED
    BY <1>0, <1>1, <1>2, <1>3, <1>9 DEF LaneSend

(* Every step leaves the queues and the hands alone, sends, or receives. *)
LEMMA LaneSteps ==
    ASSUME FabricInv, FabricInv', [Next]_fabric
    PROVE  UNCHANGED <<events, in_hand>> \/ LaneSend \/ Receiving
  <1>0. Sizes \subseteq Nat /\ Limits \subseteq Nat /\ ConnectIds \subseteq Nat
        /\ ListenerHandles \subseteq Nat
    BY FabricAssumption DEF ConnectIds, ListenerHandles
  <1> DEFINE Same == UNCHANGED <<events, in_hand>>
  <1>1. CASE Registration
    BY <1>1 DEF Registration, begin_shutdown, register_native_endpoint, native_listen,
       native_close_listener, unregister_native_endpoint, lanes
  <1>2. ASSUME NEW e \in Endpoints, NEW l \in ListenerHandles, NEW g \in ListenerHandles,
               NEW n \in Sizes, native_begin_connect(e, l, g, n)
        PROVE  LaneSend
    <2>0. PICK v : v = Event("IncomingConnect", next_native_connect, l, n, 0, {})
      OBVIOUS
    <2>1. listeners[l].endpoint \in Endpoints /\ Sent(listeners[l].endpoint, v)
      BY <1>2, <2>0 DEF native_begin_connect, BeginOk, BeginAdmitted, Live, Sent
    <2>2. v \in EventType
      <3>1. next_native_connect \in Nat /\ "IncomingConnect" \in EventKinds
        BY DEF FabricInv, TypeOK, LinksTypeOK, EventKinds
      <3> QED
        BY <1>0, <2>0, <3>1, EventInType
    <2>3. Handshakes(v)
      BY <2>0 DEF Handshakes, Event
    <2> QED
      BY <2>1, <2>2, <2>3 DEF LaneSend
  <1>3. ASSUME NEW e \in Endpoints, NEW l \in ListenerHandles, NEW g \in ListenerHandles,
               native_begin_connect_backpressured(e, l, g)
        PROVE  Same
    BY <1>3 DEF native_begin_connect_backpressured, lanes
  <1>4. ASSUME NEW e \in Endpoints, NEW c \in ConnectIds, NEW h \in ChannelHandles,
               NEW n \in Sizes, NEW m \in Sizes, native_prepare_connect(e, c, h, n, m)
        PROVE  LaneSend
    <2>0. PICK v : v = Event("ConnectPrepared", c, 0, n, m, {})
      OBVIOUS
    <2>1. /\ native_pending[c].connector_endpoint \in Endpoints
          /\ Sent(native_pending[c].connector_endpoint, v)
      BY <1>4, <2>0 DEF native_prepare_connect, PrepareOk, Live, Sent
    <2>2. v \in EventType
      <3>1. "ConnectPrepared" \in EventKinds
        BY DEF EventKinds
      <3> QED
        BY <1>0, <2>0, <3>1, EventInType
    <2>3. Handshakes(v)
      BY <2>0 DEF Handshakes, Event
    <2> QED
      BY <2>1, <2>2, <2>3 DEF LaneSend
  <1>5. ASSUME NEW e \in Endpoints, NEW c \in ConnectIds, NEW h \in ChannelHandles,
               NEW m \in Sizes, native_complete_connect(e, c, h, m)
        PROVE  Same
    BY <1>5 DEF native_complete_connect, lanes
  <1>6. ASSUME NEW e \in Endpoints, NEW c \in ConnectIds, NEW h \in ChannelHandles,
               NEW n \in Sizes, native_publish_connect(e, c, h, n)
        PROVE  LaneSend
    <2>0. PICK k, v : /\ k = <<e, h>>
                      /\ v = Event("ConnectCommitted", c, h, n, native_links[k].max_item_bytes, {})
      OBVIOUS
    <2>1. /\ k \in DOMAIN native_links /\ native_links[k].connect_id = c
          /\ ~native_links[k].published /\ Sent(native_links[k].peer_endpoint, v)
      BY <1>6, <2>0 DEF native_publish_connect, PublishOk, PublishAdmitted, Sent
    <2>2. native_links[k].peer_endpoint \in Endpoints /\ native_links[k].max_item_bytes \in Nat
      BY <1>0, <2>1 DEF FabricInv, TypeOK, LinksTypeOK, NativeLinkEnd
    <2>3. v \in EventType
      <3>1. "ConnectCommitted" \in EventKinds
        BY DEF EventKinds
      <3> QED
        BY <1>0, <2>0, <2>2, <3>1, EventInType
    <2>4. Commits(v)
      BY <2>0, <2>1 DEF Commits, Event
    <2> QED
      BY <2>1, <2>2, <2>3, <2>4 DEF LaneSend
  <1>7. ASSUME NEW e \in Endpoints, NEW c \in ConnectIds, NEW h \in ChannelHandles,
               NEW n \in Sizes, native_publish_connect_backpressured(e, c, h, n)
        PROVE  Same
    BY <1>7 DEF native_publish_connect_backpressured
  <1>8. ASSUME NEW e \in Endpoints, NEW c \in ConnectIds, native_cancel_connect(e, c)
        PROVE  Same
    BY <1>8 DEF native_cancel_connect
  <1>9. ASSUME NEW e \in Endpoints, NEW h \in ChannelHandles, NEW n \in Sizes,
               native_send_message(e, h, n)
        PROVE  LaneSend
    <2>1. /\ RouteOk(<<e, h>>) /\ ~native_links[<<e, h>>].output_closed
          /\ Sent(native_links[<<e, h>>].peer_endpoint, Routed("Message", <<e, h>>, n))
          /\ UNCHANGED native_pending /\ native_links' = native_links
      BY <1>9 DEF native_send_message, SendOk, Sent
    <2>2. "Message" \in RoutedKinds /\ n \in Nat
      BY <1>0 DEF RoutedKinds
    <2> QED
      BY <2>1, <2>2, RoutedSent
  <1>10. ASSUME NEW e \in Endpoints, NEW h \in ChannelHandles, NEW n \in Limits,
                native_send_credit(e, h, n)
         PROVE  LaneSend
    <2>1. /\ RouteOk(<<e, h>>)
          /\ Sent(native_links[<<e, h>>].peer_endpoint, Routed("Credit", <<e, h>>, n))
          /\ UNCHANGED native_pending /\ native_links' = native_links
      BY <1>10 DEF native_send_credit, Sent
    <2>2. "Credit" \in RoutedKinds /\ n \in Nat
      BY <1>0 DEF RoutedKinds
    <2> QED
      BY <2>1, <2>2, RoutedSent
  <1>11. ASSUME NEW e \in Endpoints, NEW h \in ChannelHandles, NEW n \in Limits,
                native_send_close(e, h, n)
         PROVE  LaneSend
    <2>0. PICK k : k = <<e, h>>
      OBVIOUS
    <2>1. /\ RouteOk(k) /\ ~native_links[k].output_closed
          /\ Sent(native_links[k].peer_endpoint, Routed("Close", k, n))
          /\ UNCHANGED native_pending
      BY <1>11, <2>0 DEF native_send_close, SendOk, Sent
    <2>2. "Close" \in RoutedKinds /\ n \in Nat
      BY <1>0 DEF RoutedKinds
    <2>3. /\ \A j \in DOMAIN native_links' :
                 /\ j \in DOMAIN native_links
                 /\ \/ native_links'[j] = native_links[j]
                    \/ native_links'[j] = [native_links[j] EXCEPT !.output_closed = TRUE]
          /\ k \in DOMAIN native_links' => native_links'[k].output_closed
      <3>1. CASE native_links' = Without(native_links, {k, peer_key(k)})
        BY <3>1 DEF Without
      <3>2. CASE native_links' = [native_links EXCEPT ![k].output_closed = TRUE]
        BY <3>2 DEF FabricInv, TypeOK, LinksTypeOK, NativeLinkEnd
      <3> QED
        BY <1>11, <2>0, <3>1, <3>2 DEF native_send_close
    <2> QED
      BY <2>0, <2>1, <2>2, <2>3, RoutedSent
  <1>12. ASSUME NEW e \in Endpoints, NEW h \in ChannelHandles, native_reset(e, h)
         PROVE  Same
    BY <1>12 DEF native_reset
  <1>13. CASE UNCHANGED fabric
    BY <1>13 DEF fabric, lanes
  <1> QED
    BY <1>1, <1>2, <1>3, <1>4, <1>5, <1>6, <1>7, <1>8, <1>9, <1>10, <1>11, <1>12, <1>13
    DEF Next, Handshake, Traffic, Ending

(* The elements of a queue after a send, and after a receive. *)
LEMMA AppendElements ==
    ASSUME NEW q \in Seq(EventType), NEW v \in EventType, NEW i \in DOMAIN Append(q, v)
    PROVE  Append(q, v)[i] = v \/ (i \in DOMAIN q /\ Append(q, v)[i] = q[i])
  <1>1. i \in 1 .. Len(q) + 1 /\ Len(q) \in Nat /\ DOMAIN q = 1 .. Len(q)
    OBVIOUS
  <1>2. CASE i = Len(q) + 1
    BY <1>1, <1>2
  <1>3. CASE i # Len(q) + 1
    <2>1. i \in 1 .. Len(q)
      BY <1>1, <1>3
    <2> QED
      BY <1>1, <2>1
  <1> QED
    BY <1>2, <1>3

LEMMA TailElements ==
    ASSUME NEW q \in Seq(EventType), q # << >>
    PROVE  /\ 1 \in DOMAIN q /\ Head(q) = q[1]
           /\ \A i \in DOMAIN Tail(q) : i + 1 \in DOMAIN q /\ Tail(q)[i] = q[i + 1]
  OBVIOUS

(* A guard in a lane is held. *)
LEMMA InLaneHeld ==
    ASSUME NEW e \in Endpoints, NEW v \in InLane(e), NEW s \in v.guard
    PROVE  s \in Held
  <1>1. QueueHolds(events[e], s) \/ SetHolds(in_hand[e], s)
    BY DEF InLane, QueueHolds, SetHolds
  <1> QED
    BY <1>1, HeldNow DEF Holds, LaneHolds

(* A receive changes the lanes of one endpoint: the head of the queue or a *)
(* terminal event comes into the empty hand, or things are dropped.        *)
Takes(e) ==
    /\ in_hand[e] = {} /\ events[e] # << >>
    /\ in_hand'[e] = {Head(events[e])} /\ events'[e] = Tail(events[e])
TakesTerminal(e) ==
    \E v \in terminal_events[e] : in_hand'[e] = {v} /\ events'[e] = events[e]
Drops(e) == in_hand'[e] = {} /\ events'[e] \in {events[e], << >>}

LEMMA ReceiveSteps ==
    ASSUME LanesTypeOK, Receiving
    PROVE  /\ \A e \in Endpoints : \/ in_hand'[e] = in_hand[e] /\ events'[e] = events[e]
                                   \/ Takes(e) \/ TakesTerminal(e) \/ Drops(e)
           /\ \A e \in Endpoints : terminal_events'[e] \subseteq terminal_events[e]
  <1> USE DEF LanesTypeOK
  <1>1. ASSUME NEW x \in Endpoints, recv_event(x)
        PROVE  /\ Takes(x) /\ terminal_events' = terminal_events
               /\ \A e \in Endpoints : e # x => in_hand'[e] = in_hand[e] /\ events'[e] = events[e]
    BY <1>1 DEF recv_event, Takes
  <1>2. ASSUME NEW x \in Endpoints, NEW v \in terminal_events[x], recv_terminal(x, v)
        PROVE  /\ TakesTerminal(x)
               /\ \A e \in Endpoints : terminal_events'[e] \subseteq terminal_events[e]
               /\ \A e \in Endpoints : e # x => in_hand'[e] = in_hand[e] /\ events'[e] = events[e]
    BY <1>2 DEF recv_terminal, TakesTerminal
  <1>3. ASSUME NEW x \in Endpoints, drop_event(x)
        PROVE  /\ Drops(x) /\ terminal_events' = terminal_events
               /\ \A e \in Endpoints : e # x => in_hand'[e] = in_hand[e] /\ events'[e] = events[e]
    BY <1>3 DEF drop_event, Drops
  <1>4. ASSUME NEW x \in Endpoints, drop_receivers(x)
        PROVE  /\ Drops(x)
               /\ \A e \in Endpoints : terminal_events'[e] \subseteq terminal_events[e]
               /\ \A e \in Endpoints : e # x => in_hand'[e] = in_hand[e] /\ events'[e] = events[e]
    BY <1>4 DEF drop_receivers, Drops
  <1> QED
    BY <1>1, <1>2, <1>3, <1>4 DEF Receiving

(* Where an event in a lane comes from. *)
LEMMA LaneContents ==
    ASSUME FabricInv, FabricInv', [Next]_fabric, NEW e \in Endpoints, NEW v \in InLane(e)'
    PROVE  \/ v \in InLane(e) \/ v \in terminal_events[e]
           \/ Handshakes(v) \/ Commits(v) \/ \E k \in DOMAIN native_links : Routes(v, k)
  <1>0. events \in [Endpoints -> Seq(EventType)] /\ LanesTypeOK
    BY DEF FabricInv, TypeOK, LanesTypeOK
  <1>1. v \in in_hand'[e] \/ \E i \in DOMAIN events'[e] : v = events'[e][i]
    BY DEF InLane
  <1>2. CASE in_hand'[e] = in_hand[e] /\ events'[e] = events[e]
    BY <1>1, <1>2 DEF InLane
  <1>3. CASE LaneSend
    <2>1. PICK x \in Endpoints, w \in EventType :
              /\ Sent(x, w)
              /\ Handshakes(w) \/ Commits(w) \/ \E k \in DOMAIN native_links : Routes(w, k)
      BY <1>3 DEF LaneSend
    <2>2. in_hand'[e] = in_hand[e] /\ events'[e] \in {events[e], Append(events[e], w)}
      BY <1>0, <2>1 DEF Sent, Send
    <2>3. v = w \/ v \in InLane(e)
      <3>1. CASE events'[e] = events[e]
        BY <1>1, <2>2, <3>1 DEF InLane
      <3>2. CASE events'[e] = Append(events[e], w)
        BY <1>0, <1>1, <2>2, <3>2, AppendElements DEF InLane
      <3> QED
        BY <2>2, <3>1, <3>2
    <2> QED
      BY <2>1, <2>3
  <1>4. CASE Takes(e)
    BY <1>0, <1>1, <1>4, TailElements DEF Takes, InLane
  <1>5. CASE TakesTerminal(e)
    BY <1>1, <1>5 DEF TakesTerminal, InLane
  <1>6. CASE Drops(e)
    BY <1>1, <1>6 DEF Drops, InLane
  <1>7. CASE Receiving
    BY <1>0, <1>2, <1>4, <1>5, <1>6, <1>7, ReceiveSteps
  <1> QED
    BY <1>2, <1>3, <1>7, LaneSteps

LEMMA SettledStep ==
    ASSUME FabricInv, FabricInv', LaneKinds, RoutedSettled, [Next]_fabric
    PROVE  RoutedSettled'
  <1> SUFFICES ASSUME NEW e \in Endpoints, NEW v \in InLane(e)', NEW s \in v.guard,
                      v.kind \in RoutedKinds
               PROVE  SettledFor(v, s)'
    BY DEF RoutedSettled
  <1>1. CASE v \in InLane(e)
    <2>1. s \in Held
      BY <1>1, InLaneHeld
    <2>2. SettledFor(v, s)
      BY <1>1 DEF RoutedSettled
    <2> QED
      BY <2>1, <2>2, SettledStays
  <1>2. CASE v \in terminal_events[e]
    BY <1>2 DEF LaneKinds, TerminalKinds, RoutedKinds
  <1>3. CASE Handshakes(v) \/ Commits(v)
    BY <1>3 DEF Handshakes, Commits, RoutedKinds
  <1>4. CASE \E k \in DOMAIN native_links : Routes(v, k)
    BY <1>4 DEF Routes
  <1> QED
    BY <1>1, <1>2, <1>3, <1>4, LaneContents

(* What is in a lane allows what is sent. *)
LEMMA SentCompatible ==
    ASSUME FabricInv, RoutedSettled, NEW e \in Endpoints, NEW x \in InLane(e), NEW v,
           Handshakes(v) \/ Commits(v) \/ \E k \in DOMAIN native_links : Routes(v, k)
    PROVE  Compatible(x, v)
  <1>1. CASE Handshakes(v)
    BY <1>1 DEF Handshakes, Compatible
  <1>2. CASE Commits(v)
    BY <1>2 DEF Commits, Compatible, RoutedSettled, SettledFor
  <1>3. ASSUME NEW k \in DOMAIN native_links, Routes(v, k)
        PROVE  Compatible(x, v)
    <2>1. v.kind # "ConnectCommitted"
      BY <1>3 DEF Routes, RoutedKinds
    <2>2. ASSUME x.kind = "Close", v.kind \in {"Message", "Close"}, NEW s \in x.guard \cap v.guard
          PROVE  FALSE
      <3> DEFINE p == peer_key(k)
      <3>1. s = native_links[p].side /\ ~native_links[k].output_closed
        BY <1>3, <2>2 DEF Routes
      <3>2. p \in DOMAIN native_links /\ peer_key(p) = k
        BY DEF FabricInv, LinkSymmetry
      <3>3. native_links[p].side.connect_id = native_links[p].connect_id
        BY <3>2 DEF FabricInv, LinkSymmetry
      <3>4. SettledFor(x, s)
        BY <2>2 DEF RoutedSettled, RoutedKinds
      <3> HIDE DEF p
      <3> QED
        BY <2>2, <3>1, <3>2, <3>3, <3>4 DEF SettledFor
    <2> QED
      BY <2>1, <2>2 DEF Compatible
  <1> QED
    BY <1>1, <1>2, <1>3

LEMMA OrderStep ==
    ASSUME FabricInv, FabricInv', LaneKinds, RoutedSettled, LanesOrdered, [Next]_fabric
    PROVE  LanesOrdered'
  <1> SUFFICES ASSUME NEW e \in Endpoints
               PROVE  Ordered(in_hand'[e], events'[e])
    BY DEF LanesOrdered
  <1>0. LanesTypeOK /\ events[e] \in Seq(EventType) /\ Ordered(in_hand[e], events[e])
        /\ events \in [Endpoints -> Seq(EventType)]
    BY DEF FabricInv, TypeOK, LanesTypeOK, LanesOrdered
  <1>1. CASE in_hand'[e] = in_hand[e] /\ events'[e] = events[e]
    BY <1>0, <1>1
  <1>2. CASE LaneSend
    <2>1. PICK x \in Endpoints, v \in EventType :
              /\ Sent(x, v)
              /\ Handshakes(v) \/ Commits(v) \/ \E k \in DOMAIN native_links : Routes(v, k)
      BY <1>2 DEF LaneSend
    <2>2. in_hand'[e] = in_hand[e] /\ events'[e] \in {events[e], Append(events[e], v)}
      BY <1>0, <2>1 DEF Sent, Send
    <2>3. \A y \in InLane(e) : Compatible(y, v)
      BY <2>1, SentCompatible
    <2>4. Ordered(in_hand[e], Append(events[e], v))
      <3>1. \A i \in DOMAIN events[e] : Compatible(events[e][i], v)
        BY <2>3 DEF InLane
      <3>2. in_hand[e] # {} => Compatible(InHand(in_hand[e]), v)
        BY <2>3 DEF InLane, InHand
      <3> QED
        BY <1>0, <2>1, <3>1, <3>2, OrderedAppend
    <2> QED
      BY <1>0, <2>2, <2>4
  <1>3. CASE Takes(e)
    BY <1>0, <1>3, OrderedTail DEF Takes
  <1>4. CASE TakesTerminal(e)
    <2>1. PICK v \in terminal_events[e] : in_hand'[e] = {v} /\ events'[e] = events[e]
      BY <1>4 DEF TakesTerminal
    <2>2. v.kind \in TerminalKinds /\ InHand({v}) = v
      BY DEF LaneKinds, InHand
    <2>3. \A y : Compatible(v, y)
      BY <2>2 DEF Compatible, TerminalKinds, RoutedKinds
    <2> QED
      BY <1>0, <2>1, <2>2, <2>3 DEF Ordered
  <1>5. CASE Drops(e)
    <2>1. Ordered({}, << >>)
      BY DEF Ordered
    <2>2. Ordered({}, events[e])
      BY <1>0 DEF Ordered
    <2> QED
      BY <1>5, <2>1, <2>2 DEF Drops
  <1>6. CASE Receiving
    BY <1>0, <1>1, <1>3, <1>4, <1>5, <1>6, ReceiveSteps
  <1> QED
    BY <1>1, <1>2, <1>6, LaneSteps

-----------------------------------------------------------------------------
(* The terminal events. *)

(* Connects in C are cancelled and the links in K reset. *)
Terminates(C, K) ==
    /\ \A x \in Endpoints :
           terminal_events'[x] \subseteq terminal_events[x] \union Aborts(C, x) \union Resets(K, x)
    /\ DOMAIN native_pending' \subseteq DOMAIN native_pending \ C
    /\ native_links' = ResetLinks(K)
    /\ UNCHANGED <<events, in_hand>>

LEMMA NoLinksReset ==
    ASSUME FabricInv, UNCHANGED native_links
    PROVE  native_links' = ResetLinks({})
  <1>1. native_links = [k \in DOMAIN native_links |-> native_links[k]]
    BY DEF FabricInv, TypeOK, LinksTypeOK
  <1>2. {} \union {peer_key(k) : k \in {}} = {}
    OBVIOUS
  <1> QED
    BY <1>1, <1>2 DEF ResetLinks, Without

LEMMA TerminalSteps ==
    ASSUME FabricInv, [Next]_fabric
    PROVE  \/ \A x \in Endpoints : terminal_events'[x] \subseteq terminal_events[x]
           \/ \E C \in SUBSET DOMAIN native_pending, K \in SUBSET DOMAIN native_links :
                  Terminates(C, K)
  <1> DEFINE Ends == \E C \in SUBSET DOMAIN native_pending, K \in SUBSET DOMAIN native_links :
                         Terminates(C, K)
  <1>1. CASE begin_shutdown
    BY <1>1 DEF begin_shutdown, lanes
  <1>2. ASSUME NEW e \in Endpoints, register_native_endpoint(e)
        PROVE  terminal_events' = terminal_events
    BY <1>2 DEF register_native_endpoint, lanes
  <1>3. ASSUME NEW e \in Endpoints, NEW n \in Names, native_listen(e, n)
        PROVE  terminal_events' = terminal_events
    BY <1>3 DEF native_listen, lanes
  <1>4. ASSUME NEW e \in Endpoints, NEW l \in ListenerHandles, NEW g \in ListenerHandles,
               native_close_listener(e, l, g)
        PROVE  Ends
    <2> DEFINE C == {c \in DOMAIN native_pending : native_pending[c].listener_handle = l}
    <2>1. C \in SUBSET DOMAIN native_pending /\ {} \in SUBSET DOMAIN native_links
      OBVIOUS
    <2>2. /\ terminal_events' = [x \in Endpoints |-> terminal_events[x] \union Aborts(C, x)]
          /\ UNCHANGED <<events, in_hand>> /\ UNCHANGED native_links
          /\ native_pending' = Without(native_pending, C)
      BY <1>4 DEF native_close_listener
    <2> HIDE DEF C
    <2>3. Terminates(C, {})
      BY <2>2, NoLinksReset DEF Terminates, Without
    <2> QED
      BY <2>1, <2>3
  <1>5. ASSUME NEW e \in Endpoints, unregister_native_endpoint(e)
        PROVE  Ends
    <2>1. PICK K \in SUBSET DOMAIN native_links :
              /\ native_links' = ResetLinks(K)
              /\ terminal_events' = [x \in Endpoints |->
                     terminal_events[x] \union Aborts(ConnectsOf(e), x) \union Resets(K, x)]
      BY <1>5 DEF unregister_native_endpoint
    <2>2. native_pending' = Without(native_pending, ConnectsOf(e)) /\ UNCHANGED <<events, in_hand>>
      BY <1>5 DEF unregister_native_endpoint
    <2>3. ConnectsOf(e) \in SUBSET DOMAIN native_pending
      BY DEF ConnectsOf
    <2>4. Terminates(ConnectsOf(e), K)
      BY <2>1, <2>2 DEF Terminates, Without
    <2> QED
      BY <2>3, <2>4
  <1>6. CASE Handshake
    <2>1. ASSUME NEW e \in Endpoints, NEW c \in ConnectIds, NEW h \in ChannelHandles,
                 NEW n \in Sizes, native_publish_connect_backpressured(e, c, h, n)
          PROVE  Ends
      <3> DEFINE K == {<<e, h>>}
      <3>1. /\ K \in SUBSET DOMAIN native_links /\ {} \in SUBSET DOMAIN native_pending
            /\ terminal_events' = [x \in Endpoints |-> terminal_events[x] \union Resets(K, x)]
            /\ native_links' = ResetLinks(K) /\ UNCHANGED <<native_pending, events, in_hand>>
        BY <2>1 DEF native_publish_connect_backpressured, PublishAdmitted
      <3> HIDE DEF K
      <3>2. Terminates({}, K)
        BY <3>1 DEF Terminates
      <3> QED
        BY <3>1, <3>2
    <2>2. ASSUME NEW e \in Endpoints, NEW c \in ConnectIds, native_cancel_connect(e, c)
          PROVE  Ends
      <3>1. /\ {c} \in SUBSET DOMAIN native_pending /\ {} \in SUBSET DOMAIN native_links
            /\ terminal_events' = [x \in Endpoints |-> terminal_events[x] \union Aborts({c}, x)]
            /\ UNCHANGED <<events, in_hand>> /\ UNCHANGED native_links
            /\ native_pending' = Without(native_pending, {c})
        BY <2>2 DEF native_cancel_connect, CancelOk
      <3>2. Terminates({c}, {})
        BY <3>1, NoLinksReset DEF Terminates, Without
      <3> QED
        BY <3>1, <3>2
    <2> QED
      BY <1>6, <2>1, <2>2 DEF Handshake, native_begin_connect, native_begin_connect_backpressured,
         native_prepare_connect, native_complete_connect, native_publish_connect, lanes
  <1>7. CASE Traffic
    BY <1>7 DEF Traffic, native_send_message, native_send_credit
  <1>8. ASSUME NEW e \in Endpoints, NEW h \in ChannelHandles, NEW n \in Limits,
               native_send_close(e, h, n)
        PROVE  terminal_events' = terminal_events
    BY <1>8 DEF native_send_close
  <1>9. ASSUME NEW e \in Endpoints, NEW h \in ChannelHandles, native_reset(e, h)
        PROVE  Ends
    <2> DEFINE K == {<<e, h>>}
    <2>1. /\ K \in SUBSET DOMAIN native_links /\ {} \in SUBSET DOMAIN native_pending
          /\ terminal_events' = [x \in Endpoints |-> terminal_events[x] \union Resets(K, x)]
          /\ native_links' = ResetLinks(K) /\ UNCHANGED <<native_pending, events, in_hand>>
      BY <1>9 DEF native_reset
    <2> HIDE DEF K
    <2>2. Terminates({}, K)
      BY <2>1 DEF Terminates
    <2> QED
      BY <2>1, <2>2
  <1>10. CASE Receiving
    BY <1>10, ReceiveSteps DEF FabricInv, TypeOK
  <1>11. CASE UNCHANGED fabric
    BY <1>11 DEF fabric, lanes
  <1> QED
    BY <1>1, <1>2, <1>3, <1>4, <1>5, <1>6, <1>7, <1>8, <1>9, <1>10, <1>11
    DEF Next, Registration, Ending

(* A ConnectAborted is determined by the side it tells, and so is a Reset. *)
TellsAbort(C, x, v, s) ==
    /\ v.kind = "ConnectAborted" /\ s.connect_id \in C /\ s.endpoint = x
    /\ PendingHolds(native_pending, s)
    /\ v = Event("ConnectAborted", s.connect_id, 0, 0, 0, {s})
TellsReset(K, x, v, s) ==
    \E k \in K : /\ v.kind = "Reset" /\ s = native_links[peer_key(k)].side /\ s.endpoint = x
                /\ s.connect_id = native_links[k].connect_id
                /\ v = Event("Reset", 0, native_links[k].peer_channel_handle, 0, 0, {s})

LEMMA AbortFacts ==
    ASSUME NEW C \in SUBSET DOMAIN native_pending, NEW x, NEW v \in Aborts(C, x), NEW s \in v.guard
    PROVE  TellsAbort(C, x, v, s)
  <1>1. PICK c \in C : \E r \in {connector_side(c), listener_side(c)} :
            r.endpoint = x /\ v = Event("ConnectAborted", r.connect_id, 0, 0, 0, {r})
    BY DEF Aborts
  <1>2. PICK r \in {connector_side(c), listener_side(c)} :
            r.endpoint = x /\ v = Event("ConnectAborted", r.connect_id, 0, 0, 0, {r})
    BY <1>1
  <1>3. s = r /\ v.kind = "ConnectAborted"
    BY <1>2 DEF Event
  <1>4. r.connect_id = c
    BY <1>2 DEF connector_side, listener_side
  <1>5. PendingHolds(native_pending, r)
    BY <1>2 DEF connector_side, listener_side, PendingHolds
  <1> QED
    BY <1>2, <1>3, <1>4, <1>5 DEF TellsAbort

LEMMA ResetFacts ==
    ASSUME FabricInv, NEW K \in SUBSET DOMAIN native_links, NEW x, NEW v \in Resets(K, x),
           NEW s \in v.guard
    PROVE  TellsReset(K, x, v, s)
  <1>1. PICK k \in K : /\ native_links[k].peer_endpoint = x
                       /\ v = Event("Reset", 0, native_links[k].peer_channel_handle, 0, 0,
                                    {native_links[peer_key(k)].side})
    BY DEF Resets
  <1>2. v.kind = "Reset" /\ s = native_links[peer_key(k)].side
    BY <1>1 DEF Event
  <1>3. /\ peer_key(k) \in DOMAIN native_links
        /\ native_links[peer_key(k)].side.connect_id = native_links[k].connect_id
        /\ native_links[peer_key(k)].side.endpoint = peer_key(k)[1]
    BY DEF FabricInv, LinkSymmetry
  <1>4. peer_key(k)[1] = x
    BY <1>1 DEF peer_key
  <1> QED
    BY <1>1, <1>2, <1>3, <1>4 DEF TellsReset

LEMMA KindsStep ==
    ASSUME FabricInv, FabricInv', LaneKinds, [Next]_fabric
    PROVE  LaneKinds'
  <1>0. LanesTypeOK /\ events \in [Endpoints -> Seq(EventType)]
    BY DEF FabricInv, TypeOK, LanesTypeOK
  <1>1. ASSUME NEW e \in Endpoints, NEW i \in DOMAIN events'[e]
        PROVE  events'[e][i].kind \notin TerminalKinds
    <2>1. CASE events'[e] \in {events[e], << >>}
      BY <1>1, <2>1 DEF LaneKinds
    <2>2. CASE LaneSend
      <3>1. PICK x \in Endpoints, w \in EventType :
                /\ Sent(x, w)
                /\ Handshakes(w) \/ Commits(w) \/ \E k \in DOMAIN native_links : Routes(w, k)
        BY <2>2 DEF LaneSend
      <3>2. events'[e] \in {events[e], Append(events[e], w)}
        BY <1>0, <3>1 DEF Sent, Send
      <3>3. w.kind \notin TerminalKinds
        BY <3>1 DEF Handshakes, Commits, Routes, RoutedKinds, TerminalKinds
      <3>4. CASE events'[e] = Append(events[e], w)
        BY <1>0, <1>1, <3>3, <3>4, AppendElements DEF LaneKinds
      <3> QED
        BY <2>1, <3>2, <3>4
    <2>3. CASE Takes(e)
      BY <1>0, <1>1, <2>3, TailElements DEF Takes, LaneKinds
    <2>4. CASE Receiving
      BY <1>0, <2>1, <2>3, <2>4, ReceiveSteps DEF TakesTerminal, Drops
    <2> QED
      BY <2>1, <2>2, <2>4, LaneSteps
  <1>2. ASSUME NEW e \in Endpoints, NEW v \in terminal_events'[e]
        PROVE  v.kind \in TerminalKinds
    <2>1. CASE v \in terminal_events[e]
      BY <2>1 DEF LaneKinds
    <2>2. ASSUME NEW C \in SUBSET DOMAIN native_pending, v \in Aborts(C, e)
          PROVE  v.kind \in TerminalKinds
      BY <2>2 DEF Aborts, Event, TerminalKinds
    <2>3. ASSUME NEW K \in SUBSET DOMAIN native_links, v \in Resets(K, e)
          PROVE  v.kind \in TerminalKinds
      BY <2>3 DEF Resets, Event, TerminalKinds
    <2> QED
      BY <1>2, <2>1, <2>2, <2>3, TerminalSteps DEF Terminates
  <1> QED
    BY <1>1, <1>2 DEF LaneKinds

(* A terminal event in hand was already one of the endpoint's. *)
LEMMA TerminalHandStep ==
    ASSUME FabricInv, FabricInv', LaneKinds, [Next]_fabric, NEW e \in Endpoints,
           NEW v \in TerminalInHand(e)'
    PROVE  v \in Terminals(e)
  <1>0. LanesTypeOK /\ events[e] \in Seq(EventType)
    BY DEF FabricInv, TypeOK, LanesTypeOK
  <1>1. v \in in_hand'[e] /\ v.kind \in TerminalKinds
    BY DEF TerminalInHand
  <1>2. CASE in_hand'[e] = in_hand[e]
    BY <1>1, <1>2 DEF Terminals, TerminalInHand
  <1>3. CASE LaneSend
    BY <1>2, <1>3 DEF LaneSend, Sent
  <1>4. CASE Takes(e)
    BY <1>0, <1>1, <1>4, TailElements DEF Takes, LaneKinds
  <1>5. CASE TakesTerminal(e)
    BY <1>1, <1>5 DEF TakesTerminal, Terminals
  <1>6. CASE Drops(e)
    BY <1>1, <1>6 DEF Drops
  <1>7. CASE Receiving
    BY <1>0, <1>2, <1>4, <1>5, <1>6, <1>7, ReceiveSteps
  <1> QED
    BY <1>2, <1>3, <1>7, LaneSteps

(* A side that was told its end, and is at no stage, comes to none.        *)
LEMMA EndedStays ==
    ASSUME FabricInv, [Next]_fabric, NEW s \in Held,
           ~PendingHolds(native_pending, s), ~LinkHolds(native_links, s)
    PROVE  ~PendingHolds(native_pending', s) /\ ~LinkHolds(native_links', s)
  <1>1. LinksTypeOK /\ LinkSymmetry /\ s.connect_id < next_native_connect
        /\ next_native_connect \in Nat
    BY DEF FabricInv, TypeOK, LinksTypeOK, HeldAllocated
  <1>2. ~LinkHolds(native_links', s)
    BY <1>1, LinkHeldStep
  <1>3. s.connect_id # next_native_connect
    BY <1>1, HeldType DEF FabricInv, TypeOK, Side, ConnectIds
  <1> QED
    BY <1>1, <1>2, <1>3, PendingHeldStep

LEMMA SidesNow ==
    \A s : s \in PendingSides \union LinkSides
              <=> PendingHolds(native_pending, s) \/ LinkHolds(native_links, s)
  BY DEF PendingSides, connector_side, listener_side, PendingHolds, LinkSides, LinkHolds

LEMMA SidesNext ==
    \A s : s \in (PendingSides \union LinkSides)'
              <=> PendingHolds(native_pending', s) \/ LinkHolds(native_links', s)
  BY DEF PendingSides, connector_side, listener_side, PendingHolds, LinkSides, LinkHolds

(* A guard of a terminal event is held. *)
LEMMA TerminalHeld ==
    ASSUME NEW e \in Endpoints, NEW v \in Terminals(e), NEW s \in v.guard
    PROVE  s \in Held
  <1>1. SetHolds(terminal_events[e], s) \/ SetHolds(in_hand[e], s)
    BY DEF Terminals, TerminalInHand, SetHolds
  <1> QED
    BY <1>1, HeldNow DEF Holds, LaneHolds

(* The side of a link end is that end's alone. *)
LEMMA SideOfOneEnd ==
    ASSUME FabricInv, NEW j \in DOMAIN native_links, NEW k \in DOMAIN native_links,
           native_links[j].side = native_links[k].side
    PROVE  j = k
  <1>1. native_links[j].connect_id = native_links[k].connect_id
        /\ native_links[k].side.role # native_links[peer_key(k)].side.role
    BY DEF FabricInv, LinkSymmetry
  <1>2. j \in {k, peer_key(k)}
    BY <1>1 DEF FabricInv, OneStage
  <1> QED
    BY <1>1, <1>2

(* The first two clauses of TerminalIsFinal, for an event the endpoint had *)
(* and for one the step adds: what it tells the end of is at no stage.     *)
LEMMA OldEnded ==
    ASSUME FabricInv, TerminalIsFinal, [Next]_fabric,
           NEW e \in Endpoints, NEW v \in Terminals(e), NEW s \in v.guard
    PROVE  s.endpoint = e /\ s \notin (PendingSides \union LinkSides)'
  <1>1. s.endpoint = e /\ s \notin PendingSides \union LinkSides
    BY DEF TerminalIsFinal
  <1>2. s \in Held
    BY TerminalHeld
  <1> QED
    BY <1>1, <1>2, SidesNow, SidesNext, EndedStays

LEMMA AbortEnded ==
    ASSUME FabricInv, NEW C \in SUBSET DOMAIN native_pending, NEW K \in SUBSET DOMAIN native_links,
           Terminates(C, K), NEW e \in Endpoints, NEW v \in Aborts(C, e), NEW s \in v.guard
    PROVE  s.endpoint = e /\ s \notin (PendingSides \union LinkSides)'
  <1>0. TellsAbort(C, e, v, s)
    BY AbortFacts
  <1>1. s.endpoint = e /\ s.connect_id \in C
    BY <1>0 DEF TellsAbort
  <1>2. ~PendingHolds(native_pending', s)
    BY <1>1 DEF PendingHolds, Terminates
  <1>3. ~LinkHolds(native_links', s)
    <2>1. \A k \in DOMAIN native_links' :
              k \in DOMAIN native_links /\ native_links'[k] = native_links[k]
      BY DEF Terminates, ResetLinks, Without
    <2>2. \A k \in DOMAIN native_links : native_links[k].side.connect_id \notin DOMAIN native_pending
      BY DEF FabricInv, LinkSymmetry, OneStage
    <2> QED
      BY <1>1, <2>1, <2>2 DEF LinkHolds
  <1> QED
    BY <1>1, <1>2, <1>3, SidesNext

LEMMA ResetEnded ==
    ASSUME FabricInv, NEW C \in SUBSET DOMAIN native_pending, NEW K \in SUBSET DOMAIN native_links,
           Terminates(C, K), NEW e \in Endpoints, NEW v \in Resets(K, e), NEW s \in v.guard
    PROVE  s.endpoint = e /\ s \notin (PendingSides \union LinkSides)'
  <1>0. TellsReset(K, e, v, s)
    BY ResetFacts
  <1>1. PICK k \in K : /\ s = native_links[peer_key(k)].side /\ s.endpoint = e
                       /\ s.connect_id = native_links[k].connect_id
    BY <1>0 DEF TellsReset
  <1>2. ~PendingHolds(native_pending', s)
    <2>1. s.connect_id \notin DOMAIN native_pending'
      BY <1>1 DEF FabricInv, OneStage, Terminates
    <2> QED
      BY <2>1 DEF PendingHolds
  <1>3. ~LinkHolds(native_links', s)
    <2>1. SUFFICES ASSUME NEW j \in DOMAIN native_links', s = native_links'[j].side
                   PROVE  FALSE
      BY DEF LinkHolds
    <2>2. j \in DOMAIN native_links /\ native_links'[j] = native_links[j] /\ j # peer_key(k)
      BY <2>1 DEF Terminates, ResetLinks, Without
    <2>3. peer_key(k) \in DOMAIN native_links
      BY DEF FabricInv, LinkSymmetry
    <2> QED
      BY <1>1, <2>1, <2>2, <2>3, SideOfOneEnd
  <1> QED
    BY <1>1, <1>2, <1>3, SidesNext

(* No side is told its end twice by one step. *)
LEMMA EndedOnce ==
    ASSUME FabricInv, NEW C \in SUBSET DOMAIN native_pending, NEW K \in SUBSET DOMAIN native_links,
           NEW e \in Endpoints, NEW v \in Aborts(C, e) \union Resets(K, e),
           NEW w \in Aborts(C, e) \union Resets(K, e), NEW s, s \in v.guard, s \in w.guard
    PROVE  v = w
  <1>1. ASSUME NEW x \in Aborts(C, e), s \in x.guard
        PROVE  s.connect_id \in C /\ x = Event("ConnectAborted", s.connect_id, 0, 0, 0, {s})
    <2>1. TellsAbort(C, e, x, s)
      BY <1>1, AbortFacts
    <2> QED
      BY <2>1 DEF TellsAbort
  <1>2. ASSUME NEW x \in Resets(K, e), s \in x.guard
        PROVE  \E k \in K : /\ s = native_links[peer_key(k)].side
                            /\ s.connect_id = native_links[k].connect_id
                            /\ x = Event("Reset", 0, native_links[k].peer_channel_handle, 0, 0, {s})
    <2>1. TellsReset(K, e, x, s)
      BY <1>2, ResetFacts
    <2> QED
      BY <2>1 DEF TellsReset
  <1>3. ASSUME NEW x \in Resets(K, e), s \in x.guard
        PROVE  s.connect_id \notin C
    BY <1>2, <1>3 DEF FabricInv, OneStage
  <1>4. CASE v \in Aborts(C, e) /\ w \in Aborts(C, e)
    BY <1>1, <1>4
  <1>5. CASE v \in Resets(K, e) /\ w \in Resets(K, e)
    <2>1. PICK j \in K : /\ s = native_links[peer_key(j)].side
                         /\ v = Event("Reset", 0, native_links[j].peer_channel_handle, 0, 0, {s})
      BY <1>2, <1>5
    <2>2. PICK k \in K : /\ s = native_links[peer_key(k)].side
                         /\ w = Event("Reset", 0, native_links[k].peer_channel_handle, 0, 0, {s})
      BY <1>2, <1>5
    <2>3. /\ peer_key(j) \in DOMAIN native_links /\ peer_key(peer_key(j)) = j
          /\ peer_key(k) \in DOMAIN native_links /\ peer_key(peer_key(k)) = k
      BY DEF FabricInv, LinkSymmetry
    <2>4. peer_key(j) = peer_key(k)
      BY <2>1, <2>2, <2>3, SideOfOneEnd
    <2> QED
      BY <2>1, <2>2, <2>3, <2>4
  <1> QED
    BY <1>1, <1>3, <1>4, <1>5

LEMMA FinalStep ==
    ASSUME FabricInv, FabricInv', LaneKinds, TerminalIsFinal, [Next]_fabric
    PROVE  TerminalIsFinal'
  <1>1. CASE \A x \in Endpoints : terminal_events'[x] \subseteq terminal_events[x]
    <2>1. \A e \in Endpoints : \A v \in Terminals(e)' : v \in Terminals(e)
      BY <1>1, TerminalHandStep DEF Terminals
    <2>2. ASSUME NEW e \in Endpoints, NEW v \in Terminals(e)', NEW w \in Terminals(e)',
                 NEW s, s \in v.guard, s \in w.guard
          PROVE  w = v
      BY <2>1, <2>2 DEF TerminalIsFinal
    <2>3. ASSUME NEW e \in Endpoints, NEW v \in Terminals(e)', NEW s \in v.guard
          PROVE  s.endpoint = e /\ s \notin (PendingSides \union LinkSides)'
      BY <2>1, OldEnded
    <2> QED
      BY <2>2, <2>3 DEF TerminalIsFinal
  <1>2. ASSUME NEW C \in SUBSET DOMAIN native_pending, NEW K \in SUBSET DOMAIN native_links,
               Terminates(C, K)
        PROVE  TerminalIsFinal'
    <2> DEFINE New(e) == Aborts(C, e) \union Resets(K, e)
    <2>1. \A e \in Endpoints : \A v \in Terminals(e)' : v \in Terminals(e) \/ v \in New(e)
      BY <1>2, TerminalHandStep DEF Terminals, Terminates
    <2>2. ASSUME NEW e \in Endpoints, NEW v \in Terminals(e)', NEW s \in v.guard
          PROVE  s.endpoint = e /\ s \notin (PendingSides \union LinkSides)'
      BY <1>2, <2>1, OldEnded, AbortEnded, ResetEnded
    <2>3. ASSUME NEW e \in Endpoints, NEW v \in New(e), NEW s \in v.guard
          PROVE  s \in PendingSides \union LinkSides
      <3>1. CASE v \in Aborts(C, e)
        <4>1. TellsAbort(C, e, v, s)
          BY <3>1, AbortFacts
        <4> QED
          BY <4>1, SidesNow DEF TellsAbort
      <3>2. CASE v \in Resets(K, e)
        <4>0. TellsReset(K, e, v, s)
          BY <3>2, ResetFacts
        <4>1. PICK k \in K : s = native_links[peer_key(k)].side
          BY <4>0 DEF TellsReset
        <4>2. peer_key(k) \in DOMAIN native_links
          BY DEF FabricInv, LinkSymmetry
        <4> QED
          BY <4>1, <4>2 DEF LinkSides
      <3> QED
        BY <3>1, <3>2
    <2>4. ASSUME NEW e \in Endpoints, NEW v \in Terminals(e)', NEW w \in Terminals(e)',
                 NEW s, s \in v.guard, s \in w.guard
          PROVE  w = v
      <3>1. CASE v \in Terminals(e) /\ w \in Terminals(e)
        BY <2>4, <3>1 DEF TerminalIsFinal
      <3>2. CASE v \in New(e) /\ w \in New(e)
        BY <2>4, <3>2, EndedOnce
      <3>3. ~(v \in Terminals(e) /\ w \in New(e)) /\ ~(w \in Terminals(e) /\ v \in New(e))
        BY <2>3, <2>4 DEF TerminalIsFinal
      <3> QED
        BY <2>1, <3>1, <3>2, <3>3
    <2> QED
      BY <2>2, <2>4 DEF TerminalIsFinal
  <1> QED
    BY <1>1, <1>2, TerminalSteps

-----------------------------------------------------------------------------
(* What the lanes hold is inductive on top of FabricInv: an order alone    *)
(* says nothing of what may still be sent behind what is queued.           *)
LaneInv == LaneKinds /\ RoutedSettled /\ LanesOrdered /\ TerminalIsFinal

LEMMA LaneInit == Init => LaneInv
  <1> SUFFICES ASSUME Init
               PROVE  LaneInv
    OBVIOUS
  <1>1. \A e \in Endpoints : events[e] = << >> /\ terminal_events[e] = {} /\ in_hand[e] = {}
    BY DEF Init
  <1>2. DOMAIN << >> = {}
    OBVIOUS
  <1>3. LaneKinds /\ RoutedSettled
    BY <1>1, <1>2 DEF LaneKinds, RoutedSettled, InLane
  <1>4. LanesOrdered
    BY <1>1, <1>2 DEF LanesOrdered, Ordered
  <1>5. TerminalIsFinal
    BY <1>1 DEF TerminalIsFinal, Terminals, TerminalInHand
  <1> QED
    BY <1>3, <1>4, <1>5 DEF LaneInv

LEMMA LaneNext == FabricInv /\ FabricInv' /\ LaneInv /\ [Next]_fabric => LaneInv'
  BY KindsStep, SettledStep, OrderStep, FinalStep DEF LaneInv

(* What the lanes hold, in every reachable state. *)
THEOREM LanesCorrect == Spec => []LaneInv
  <1>1. Spec => []FabricInv
    BY FabricCorrect
  <1> QED
    BY <1>1, LaneInit, LaneNext, PTL DEF Spec

(* A session can replay its bounded lane: whatever the sessions call,      *)
(* nothing of a connect is queued before its ConnectCommitted (ACCEPT) and *)
(* neither a message nor a second Close behind its Close.                  *)
THEOREM LanesKeepOrder == Spec => []LaneOrder
  <1>1. Spec => []FabricInv /\ []LaneInv
    BY FabricCorrect, LanesCorrect
  <1>2. FabricInv /\ LaneInv => LaneOrder
    BY OrderedIsLaneOrder DEF FabricInv, TypeOK, LaneInv
  <1> QED
    BY <1>1, <1>2, PTL

(* ConnectAborted and Reset are each side's last word: the side told is at *)
(* no stage any more, lives on that endpoint, and is told once, which is   *)
(* the bound the comment on NativeTerminalEvent claims for the unbounded   *)
(* lane.                                                                   *)
THEOREM TerminalEventsAreFinal == Spec => []TerminalIsFinal
  <1>1. Spec => []LaneInv
    BY LanesCorrect
  <1>2. LaneInv => TerminalIsFinal
    BY DEF LaneInv
  <1> QED
    BY <1>1, <1>2, PTL
=============================================================================
