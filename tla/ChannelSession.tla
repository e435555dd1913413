--------------------------- MODULE ChannelSession ----------------------------
(***************************************************************************)
(* The Channel half of native sessions, crates/server/src/yas.rs: the      *)
(* ChannelRuntime each session keeps, its handlers for client frames and   *)
(* for the events ChannelFabric routes to it, and its end.                 *)
(*                                                                         *)
(* A session is one task.  It takes one client frame or one routed event   *)
(* at a time and runs its handler to the end, but a handler gives up the   *)
(* shared lock, and awaits the writer, between two fabric operations; step *)
(* holds what the handler still has to do.  Two fabric operations of one   *)
(* handler are two actions, and everything other sessions do may happen    *)
(* between them.                                                           *)
(*                                                                         *)
(* A client follows the protocol in what it names (it uses the transfers   *)
(* it was told about) but not in what it sends: it may overrun its credit. *)
(***************************************************************************)
EXTENDS ChannelFabric, Functions

CONSTANT MaxChannels     \* MAX_CHANNELS_PER_SESSION

ASSUME SessionAssumption ==
    /\ MaxChannels \in Nat
    /\ Sizes \subseteq Limits
    /\ \A n \in Limits : 0 .. n \subseteq Limits     \* a limit is any u64 up to the largest
    /\ IsFiniteSet(ChannelHandles) /\ ChannelHandles = 1 .. Cardinality(ChannelHandles)

VARIABLES
    session,             \* "none", "running", "failed" or "stopped", "ended"
    next_channel_handle,
    my_listeners,        \* ChannelRuntime.listeners
    pending_connects,
    transfers,
    step,                \* the rest of the handler a session is in
    results              \* Results sent for each connect id

runtime == <<next_channel_handle, my_listeners, pending_connects, transfers>>
locals == <<session, runtime, step, results>>
vars == <<fabric, locals>>

(* ChannelTransfer.  provisional is the set holding the connect id of an   *)
(* accept that is not committed yet.  The receive lease holds what is left *)
(* of the window, receive_limit - received; flow is FlowControl's limit,   *)
(* asked its requested_limit.                                              *)
Transfer(provisional, listener, receive_limit, flow, max) ==
    [provisional |-> provisional, listener |-> listener, received |-> 0,
     receive_limit |-> receive_limit, sent |-> 0, flow |-> flow, asked |-> flow, max |-> max,
     input_closed |-> FALSE, output_closed |-> FALSE]

Step(at, id, handle, amount) == [at |-> at, id |-> id, handle |-> handle, amount |-> amount]
Idle == Step("idle", 0, 0, 0)
Finish == Step("finish", 0, 0, 0)
(* The handler is done: the event in hand, if any, is dropped next. *)
After(e) == IF in_hand[e] = {} THEN Idle ELSE Finish

Running(e) == session[e] = "running"
Listening(e) == Running(e) /\ step[e] = Idle /\ in_hand[e] = {}
Handling(e, kind) == Running(e) /\ step[e] = Idle /\ \E v \in in_hand[e] : v.kind = kind
EventOf(e) == CHOOSE v \in in_hand[e] : TRUE
Provisional(e, c) == {h \in DOMAIN transfers[e] : transfers[e][h].provisional = {c}}

Then(e, s) == step' = [step EXCEPT ![e] = s]
SetTransfer(e, h, t) == transfers' = [transfers EXCEPT ![e] = Put(@, h, t)]
remove_channel_transfer(e, H) == transfers' = [transfers EXCEPT ![e] = Without(@, H)]
alloc_channel_handle(e) ==
    /\ next_channel_handle[e] \in ChannelHandles
    /\ next_channel_handle' = [next_channel_handle EXCEPT ![e] = @ + 1]
Answer(c) == results' = [results EXCEPT ![c] = @ + 1]

-----------------------------------------------------------------------------
(* Fabric operations that a handler calls whether or not they apply. *)

cancel_channel_connect(e, c) ==
    native_cancel_connect(e, c) \/ (~CancelOk(e, c) /\ UNCHANGED fabric)
reset_if_linked(e, h) ==
    native_reset(e, h) \/ (<<e, h>> \notin DOMAIN native_links /\ UNCHANGED fabric)

Mut_keep_channel_pending(e, c) == UNCHANGED pending_connects
take_channel_pending(e, c) ==
    pending_connects' = [pending_connects EXCEPT ![e] = @ \ {c}]

(* fail_channel_connect: cancel, forget the request, answer it. *)
fail_channel_connect(e, c) ==
    /\ cancel_channel_connect(e, c)
    /\ take_channel_pending(e, c)
    /\ Answer(c)

-----------------------------------------------------------------------------
(* Session start, requests. *)

open_session(e) ==
    /\ session[e] = "none"
    /\ register_native_endpoint(e)
    /\ session' = [session EXCEPT ![e] = "running"]
    /\ UNCHANGED <<runtime, step, results>>

channel_listen(e, name) ==
    /\ Listening(e)
    /\ native_listen(e, name)
    /\ my_listeners' = [my_listeners EXCEPT ![e] = @ \union {next_listener_handle}]
    /\ UNCHANGED <<session, next_channel_handle, pending_connects, transfers, step, results>>

(* Provisional accepts of the closed listener are dropped too. *)
channel_close_listener(e, l) ==
    /\ Listening(e)
    /\ native_close_listener(e, l, l)
    /\ my_listeners' = [my_listeners EXCEPT ![e] = @ \ {l}]
    /\ remove_channel_transfer(e, {h \in DOMAIN transfers[e] :
           transfers[e][h].provisional # {} /\ transfers[e][h].listener = l})
    /\ UNCHANGED <<session, next_channel_handle, pending_connects, step, results>>

(* A refused CONNECT is answered at once and leaves no request behind. *)
channel_connect(e, l, credit) ==
    /\ Listening(e)
    /\ Cardinality(pending_connects[e]) < MaxPendingConnects
    /\ Cardinality(DOMAIN transfers[e]) < MaxChannels
    /\ \/ /\ native_begin_connect(e, l, l, credit)
          /\ pending_connects' = [pending_connects EXCEPT ![e] = @ \union {next_native_connect}]
          /\ UNCHANGED results
       \/ /\ native_begin_connect_backpressured(e, l, l)
          /\ Answer(next_native_connect)
          /\ UNCHANGED pending_connects
    /\ UNCHANGED <<session, next_channel_handle, my_listeners, transfers, step>>

(* The client's CANCEL, and the 30 s timer of the request. *)
cancel_request(e, c) ==
    /\ Listening(e)
    /\ c \in pending_connects[e]
    /\ fail_channel_connect(e, c)
    /\ UNCHANGED <<session, next_channel_handle, my_listeners, transfers, step>>

-----------------------------------------------------------------------------
(* handle_channel_event: taking an event from either lane (select! is not  *)
(* biased), and dropping it with its guard when the handler is done.       *)

take_event(e) == Listening(e) /\ recv_event(e) /\ UNCHANGED locals
take_terminal(e) ==
    Listening(e) /\ (\E v \in terminal_events[e] : recv_terminal(e, v)) /\ UNCHANGED locals

finish_event(e) ==
    /\ Running(e) /\ step[e] = Finish
    /\ drop_event(e)
    /\ Then(e, Idle)
    /\ UNCHANGED <<session, runtime, results>>

(* IncomingConnect.  An unknown listener, a full session, no transfer id,  *)
(* no handle or no inbound credit cancels the connect; otherwise a         *)
(* provisional transfer is inserted and the connect prepared, and both are *)
(* undone when the fabric refuses.                                         *)
on_incoming_connect(e) ==
    LET v == EventOf(e)
        h == next_channel_handle[e]
        cancel == Then(e, Step("cancel", v.id, 0, 0)) /\ UNCHANGED <<fabric, transfers>>
    IN  /\ Handling(e, "IncomingConnect")
        /\ \/ /\ v.handle \in my_listeners[e]
              /\ Cardinality(DOMAIN transfers[e]) < MaxChannels
              /\ alloc_channel_handle(e)
              /\ \/ cancel
                 \/ \E granted \in Sizes :
                       /\ granted <= v.amount
                       /\ \/ /\ native_prepare_connect(e, v.id, h, granted, granted)
                             /\ SetTransfer(e, h,
                                   Transfer({v.id}, v.handle, granted, 0, granted))
                             /\ Then(e, Finish)
                          \/ ~PrepareOk(e, v.id, h, granted, granted) /\ cancel
           \/ cancel /\ UNCHANGED next_channel_handle
        /\ UNCHANGED <<session, my_listeners, pending_connects, results>>

Mut_do_cancel(e) ==
    /\ Running(e) /\ step[e].at = "cancel"
    /\ Then(e, Finish)
    /\ UNCHANGED <<fabric, session, runtime, results>>
do_cancel(e) ==
    /\ Running(e) /\ step[e].at = "cancel"
    /\ cancel_channel_connect(e, step[e].id)
    /\ Then(e, Finish)
    /\ UNCHANGED <<session, runtime, results>>

(* ConnectPrepared.  The connector may have given up; it may lack a        *)
(* transfer id, a handle or outbound credit; the fabric may refuse.  When  *)
(* it does not, the Result is written before the link is published.        *)
on_connect_prepared(e) ==
    LET v == EventOf(e)
        c == v.id
        h == next_channel_handle[e]
    IN  /\ Handling(e, "ConnectPrepared")
        /\ \/ /\ c \notin pending_connects[e]
              /\ cancel_channel_connect(e, c)
              /\ Then(e, Finish)
              /\ UNCHANGED <<next_channel_handle, pending_connects, transfers, results>>
           \/ /\ c \in pending_connects[e]
              /\ fail_channel_connect(e, c)
              /\ Then(e, Finish)
              /\ alloc_channel_handle(e) \/ UNCHANGED next_channel_handle
              /\ UNCHANGED transfers
           \/ /\ c \in pending_connects[e]
              /\ alloc_channel_handle(e)
              /\ \E limit \in Sizes :
                    LET max == IF v.max < limit THEN v.max ELSE limit
                    IN  /\ limit <= v.amount
                        /\ \/ /\ native_complete_connect(e, c, h, max)
                              /\ take_channel_pending(e, c)
                              /\ SetTransfer(e, h, Transfer({}, 0, 0, limit, max))
                              /\ Answer(c)
                              /\ Then(e, Step("publish", c, h, limit))
                           \/ /\ ~CompleteOk(e, c, h, max)
                              /\ Then(e, Step("fail", c, 0, 0))
                              /\ UNCHANGED <<fabric, pending_connects, transfers, results>>
        /\ UNCHANGED <<session, my_listeners>>

do_fail(e) ==
    /\ Running(e) /\ step[e].at = "fail"
    /\ fail_channel_connect(e, step[e].id)
    /\ Then(e, Finish)
    /\ UNCHANGED <<session, next_channel_handle, my_listeners, transfers>>

do_publish(e) ==
    LET s == step[e]
    IN  /\ Running(e) /\ s.at = "publish"
        /\ \/ native_publish_connect(e, s.id, s.handle, s.amount) /\ Then(e, Finish)
           \/ /\ \/ native_publish_connect_backpressured(e, s.id, s.handle, s.amount)
                 \/ ~PublishAdmitted(e, s.id, s.handle, s.amount) /\ UNCHANGED fabric
              /\ Then(e, Step("reset", 0, s.handle, 0))
        /\ UNCHANGED <<session, runtime, results>>

(* send_channel_reset: RESET to the client, reset in the fabric, forget. *)
do_reset(e) ==
    /\ Running(e) /\ step[e].at = "reset"
    /\ reset_if_linked(e, step[e].handle)
    /\ remove_channel_transfer(e, {step[e].handle})
    /\ Then(e, After(e))
    /\ UNCHANGED <<session, next_channel_handle, my_listeners, pending_connects, results>>

(* ConnectCommitted: ACCEPT is sent unless the provisional accept is gone  *)
(* or the credit that can still be leased no longer covers the item limit. *)
on_connect_committed(e) ==
    LET v == EventOf(e)
        H == Provisional(e, v.id)
    IN  /\ Handling(e, "ConnectCommitted")
        /\ \/ H = {} /\ UNCHANGED <<fabric, transfers>>
           \/ \E h \in H, granted \in Limits :
                 LET t == transfers[e][h]
                 IN  /\ IF v.amount < t.receive_limit THEN granted = v.amount
                        ELSE granted \in t.receive_limit .. v.amount
                     /\ \/ /\ v.max <= t.max /\ v.max <= granted
                           /\ SetTransfer(e, h, [t EXCEPT !.provisional = {}, !.max = v.max,
                                                          !.receive_limit = granted])
                           /\ UNCHANGED fabric
                        \/ /\ v.max > t.max \/ v.max > granted
                           /\ reset_if_linked(e, h)
                           /\ remove_channel_transfer(e, {h})
        /\ Then(e, Finish)
        /\ UNCHANGED <<session, next_channel_handle, my_listeners, pending_connects, results>>

(* ConnectAborted settles the request first, the provisional accept else:  *)
(* a loopback connect gets one event for each.                             *)
on_connect_aborted(e) ==
    LET c == EventOf(e).id
    IN  /\ Handling(e, "ConnectAborted")
        /\ \/ /\ c \in pending_connects[e]
              /\ fail_channel_connect(e, c)
              /\ UNCHANGED transfers
           \/ /\ c \notin pending_connects[e]
              /\ remove_channel_transfer(e, Provisional(e, c))
              /\ UNCHANGED <<fabric, pending_connects, results>>
        /\ Then(e, Finish)
        /\ UNCHANGED <<session, next_channel_handle, my_listeners>>

(* Message, Credit and Close look the transfer up with ok_or(())?, and the *)
(* session loop ends the session on an error.                              *)
lost_transfer(e) ==
    /\ \E kind \in {"Message", "Credit", "Close"} : Handling(e, kind)
    /\ EventOf(e).handle \notin DOMAIN transfers[e]
    /\ drop_event(e)
    /\ session' = [session EXCEPT ![e] = "failed"]
    /\ UNCHANGED <<runtime, step, results>>

(* MESSAGE_DATA to the client, or RESET when it is past a close or the     *)
(* flow limit, or the outbound queue is full.                              *)
Mut_on_message(e) ==
    /\ Handling(e, "Message") /\ EventOf(e).handle \in DOMAIN transfers[e]
    /\ Then(e, Finish)
    /\ UNCHANGED <<fabric, session, runtime, results>>
on_message(e) ==
    LET v == EventOf(e)
        t == transfers[e][v.handle]
        fits == ~t.output_closed /\ t.sent + v.amount <= t.flow
    IN  /\ Handling(e, "Message") /\ v.handle \in DOMAIN transfers[e]
        /\ \/ /\ fits
              /\ SetTransfer(e, v.handle, [t EXCEPT !.sent = @ + v.amount])
              /\ Then(e, Finish)
           \/ Then(e, Step("reset", 0, v.handle, 0)) /\ UNCHANGED transfers
        /\ UNCHANGED <<fabric, session, next_channel_handle, my_listeners, pending_connects,
                       results>>

(* A smaller limit is invalid; a larger one is granted as far as the       *)
(* inbound budget leases it.                                               *)
on_credit(e) ==
    LET v == EventOf(e)
        t == transfers[e][v.handle]
    IN  /\ Handling(e, "Credit") /\ v.handle \in DOMAIN transfers[e]
        /\ IF v.amount < t.receive_limit
              THEN Then(e, Step("reset", 0, v.handle, 0)) /\ UNCHANGED transfers
              ELSE /\ \E limit \in t.receive_limit .. v.amount :
                         SetTransfer(e, v.handle, [t EXCEPT !.receive_limit = limit])
                   /\ Then(e, Finish)
        /\ UNCHANGED <<fabric, session, next_channel_handle, my_listeners, pending_connects,
                       results>>

on_close(e) ==
    LET v == EventOf(e)
        t == transfers[e][v.handle]
    IN  /\ Handling(e, "Close") /\ v.handle \in DOMAIN transfers[e]
        /\ IF t.output_closed \/ v.amount # t.sent
              THEN Then(e, Step("reset", 0, v.handle, 0)) /\ UNCHANGED transfers
              ELSE /\ IF t.input_closed
                         THEN remove_channel_transfer(e, {v.handle})
                         ELSE SetTransfer(e, v.handle, [t EXCEPT !.output_closed = TRUE])
                   /\ Then(e, Finish)
        /\ UNCHANGED <<fabric, session, next_channel_handle, my_listeners, pending_connects,
                       results>>

(* Reset of an unknown channel is ignored. *)
on_reset(e) ==
    /\ Handling(e, "Reset")
    /\ remove_channel_transfer(e, {EventOf(e).handle})
    /\ Then(e, Finish)
    /\ UNCHANGED <<fabric, session, next_channel_handle, my_listeners, pending_connects, results>>

-----------------------------------------------------------------------------
(* handle_transfer_event: the client's frames on an announced transfer.  A *)
(* frame that is invalid, or that the fabric cannot route, resets the      *)
(* channel.  Fragments may be malformed in ways the model leaves out, so a *)
(* message or a close within its limits can be invalid too.                *)

Announced(e, h) == h \in DOMAIN transfers[e] /\ transfers[e][h].provisional = {}
Reject(e, h) == UNCHANGED fabric /\ Then(e, Step("reset", 0, h, 0))

(* native_send_credit gets the limit FlowControl could lease, not the one  *)
(* the client asked for.                                                   *)
Mut_RoutedCredit(asked, leased) == asked
RoutedCredit(asked, leased) == leased

transfer_credit(e, h, limit) ==
    LET t == transfers[e][h]
    IN  /\ Listening(e) /\ Announced(e, h)
        /\ \/ limit < t.asked /\ Reject(e, h) /\ UNCHANGED transfers
           \/ \E flow \in t.flow .. limit :
                 /\ limit >= t.asked
                 /\ limit = t.asked => flow = t.flow
                 /\ SetTransfer(e, h, [t EXCEPT !.asked = limit, !.flow = flow])
                 /\ \/ native_send_credit(e, h, RoutedCredit(limit, flow)) /\ UNCHANGED step
                    \/ ~RouteOk(<<e, h>>) /\ Reject(e, h)
        /\ UNCHANGED <<session, next_channel_handle, my_listeners, pending_connects, results>>

Mut_WithinCredit(t, bytes) == ~t.input_closed
WithinCredit(t, bytes) == ~t.input_closed /\ t.received + bytes <= t.receive_limit

transfer_message(e, h, bytes) ==
    LET t == transfers[e][h]
        valid == WithinCredit(t, bytes)
    IN  /\ Listening(e) /\ Announced(e, h)
        /\ \/ Reject(e, h) /\ UNCHANGED transfers
           \/ /\ valid
              /\ SetTransfer(e, h, [t EXCEPT !.received = @ + bytes])
              /\ \/ native_send_message(e, h, bytes) /\ UNCHANGED step
                 \/ ~SendOk(<<e, h>>) /\ Reject(e, h)
        /\ UNCHANGED <<session, next_channel_handle, my_listeners, pending_connects, results>>

transfer_close(e, h, final) ==
    LET t == transfers[e][h]
        valid == ~t.input_closed /\ final = t.received
    IN  /\ Listening(e) /\ Announced(e, h)
        /\ \/ Reject(e, h) /\ UNCHANGED transfers
           \/ /\ valid
              /\ \/ /\ native_send_close(e, h, final)
                    /\ IF t.output_closed
                          THEN remove_channel_transfer(e, {h})
                          ELSE SetTransfer(e, h, [t EXCEPT !.input_closed = TRUE])
                    /\ UNCHANGED step
                 \/ /\ ~SendOk(<<e, h>>)
                    /\ Reject(e, h)
                    /\ SetTransfer(e, h, [t EXCEPT !.input_closed = TRUE])
        /\ UNCHANGED <<session, next_channel_handle, my_listeners, pending_connects, results>>

transfer_reset(e, h) ==
    /\ Listening(e) /\ Announced(e, h)
    /\ reset_if_linked(e, h)
    /\ remove_channel_transfer(e, {h})
    /\ UNCHANGED <<session, next_channel_handle, my_listeners, pending_connects, step, results>>

-----------------------------------------------------------------------------
(* The end of a session.  The dispatch future is raced against the         *)
(* connection, so a session can stop between any two steps of a handler;   *)
(* its clean-up then unregisters the endpoint and forgets its runtime.     *)

stop_session(e) ==
    /\ Running(e)
    /\ session' = [session EXCEPT ![e] = "stopped"]
    /\ drop_event(e) \/ (in_hand[e] = {} /\ UNCHANGED fabric)
    /\ Then(e, Idle)
    /\ UNCHANGED <<runtime, results>>

cleanup_session(e) ==
    /\ session[e] \in {"stopped", "failed"}
    /\ unregister_native_endpoint(e)
    /\ session' = [session EXCEPT ![e] = "ended"]
    /\ my_listeners' = [my_listeners EXCEPT ![e] = {}]
    /\ pending_connects' = [pending_connects EXCEPT ![e] = {}]
    /\ remove_channel_transfer(e, DOMAIN transfers[e])
    /\ UNCHANGED <<next_channel_handle, step, results>>

drop_session(e) == drop_receivers(e) /\ UNCHANGED locals
shutdown_fabric == begin_shutdown /\ UNCHANGED locals

-----------------------------------------------------------------------------
SessionInit ==
    /\ Init
    /\ session = [e \in Endpoints |-> "none"]
    /\ next_channel_handle = [e \in Endpoints |-> 1]
    /\ my_listeners = [e \in Endpoints |-> {}]
    /\ pending_connects = [e \in Endpoints |-> {}]
    /\ transfers = [e \in Endpoints |-> EmptyFunction]
    /\ step = [e \in Endpoints |-> Idle]
    /\ results = [c \in ConnectIds |-> 0]

HandleEvent(e) ==
    \/ finish_event(e) \/ on_incoming_connect(e) \/ do_cancel(e) \/ on_connect_prepared(e)
    \/ do_fail(e) \/ do_publish(e) \/ do_reset(e) \/ on_connect_committed(e)
    \/ on_connect_aborted(e) \/ lost_transfer(e) \/ on_message(e) \/ on_credit(e) \/ on_close(e)
    \/ on_reset(e)
Requests(e) ==
    \/ \E n \in Names : channel_listen(e, n)
    \/ \E l \in ListenerHandles : channel_close_listener(e, l)
    \/ \E l \in ListenerHandles, n \in Sizes : channel_connect(e, l, n)
    \/ \E c \in ConnectIds : cancel_request(e, c)
TransferFrames(e) ==
    \/ \E h \in ChannelHandles, n \in Limits : transfer_credit(e, h, n)
    \/ \E h \in ChannelHandles, n \in Sizes : transfer_message(e, h, n)
    \/ \E h \in ChannelHandles, n \in Limits : transfer_close(e, h, n)
    \/ \E h \in ChannelHandles : transfer_reset(e, h)
EndOfSession(e) == stop_session(e) \/ cleanup_session(e) \/ drop_session(e)

SessionNext ==
    \/ shutdown_fabric
    \/ \E e \in Endpoints :
          \/ open_session(e) \/ take_event(e) \/ take_terminal(e) \/ HandleEvent(e)
          \/ Requests(e) \/ TransferFrames(e) \/ EndOfSession(e)

(* Fairness: the runtime polls a session task that is ready, and select!   *)
(* picks among ready branches at random, so neither lane starves however   *)
(* busy the client is; handlers run to their end and a stopped session     *)
(* cleans up after itself.  Clients and timers are under no obligation.    *)
SessionFairness ==
    \A e \in Endpoints :
        /\ SF_vars(take_event(e))
        /\ SF_vars(take_terminal(e))
        /\ WF_vars(HandleEvent(e))
        /\ WF_vars(cleanup_session(e))
        /\ WF_vars(drop_session(e))

SessionSpec == SessionInit /\ [][SessionNext]_vars
FairSessionSpec == SessionSpec /\ SessionFairness

-----------------------------------------------------------------------------
(* Properties. *)

(* The runtime of a session keeps the types yas.rs declares. *)
SessionTypeOK ==
    /\ session \in [Endpoints -> {"none", "running", "failed", "stopped", "ended"}]
    /\ my_listeners \in [Endpoints -> SUBSET ListenerHandles]
    /\ pending_connects \in [Endpoints -> SUBSET ConnectIds]
    /\ results \in [ConnectIds -> Nat]
    /\ \A e \in Endpoints :
          /\ DOMAIN transfers[e] \subseteq 1 .. next_channel_handle[e] - 1
          /\ \A h \in DOMAIN transfers[e] :
                LET t == transfers[e][h]
                IN  t.received <= t.receive_limit /\ t.sent <= t.flow /\ t.flow <= t.asked

Queued(e) == {events[e][i] : i \in DOMAIN events[e]} \union terminal_events[e] \union in_hand[e]
Coming(e, kind, id, h) == \E v \in Queued(e) : v.kind = kind /\ v.id = id /\ v.handle = h
Resetting(e, h) == step[e].at = "reset" /\ step[e].handle = h

(* A CONNECT that is waiting has something that will settle it without the *)
(* timer: the fabric still holds it, or its abort is on the way.           *)
PendingIsBacked ==
    \A e \in Endpoints : Running(e) => \A c \in pending_connects[e] :
        \/ c \in DOMAIN native_pending /\ native_pending[c].connector_endpoint = e
        \/ Coming(e, "ConnectAborted", c, 0)
        \/ step[e].at \in {"fail", "cancel"} /\ step[e].id = c

(* Every CONNECT is answered at most once, whichever of the prepared       *)
(* event, the abort, the timer and CANCEL comes first.                     *)
OneResult ==
    /\ \A c \in ConnectIds : results[c] <= 1
    /\ \A e \in Endpoints : \A c \in pending_connects[e] : results[c] = 0

(* No transfer is stranded: a provisional accept still has its connect or  *)
(* link in the fabric, and an established transfer its link, or what will  *)
(* retire it is in a lane or is what the session does next.                *)
TransferIsBacked ==
    \A e \in Endpoints : Running(e) => \A h \in DOMAIN transfers[e] :
        LET t == transfers[e][h]
        IN  \/ <<e, h>> \in DOMAIN native_links
            \/ Coming(e, "Reset", 0, h)
            \/ Resetting(e, h)
            \/ \E c \in t.provisional :
                  \/ c \in DOMAIN native_pending /\ native_pending[c].prepared = {h}
                  \/ Coming(e, "ConnectAborted", c, 0)
            \/ t.provisional = {} /\ t.input_closed /\ Coming(e, "Close", 0, h)
            \/ step[e].at = "publish" /\ step[e].handle = h

(* The end of the link that <<e, h>> is on, when both sessions hold it. *)
Linked(e, h) ==
    /\ <<e, h>> \in DOMAIN native_links
    /\ native_links[<<e, h>>].published
    /\ h \in DOMAIN transfers[e]
    /\ peer_key(<<e, h>>)[2] \in DOMAIN transfers[peer_key(<<e, h>>)[1]]

InFlight(e, h) ==
    LET q == Inbound(e)
    IN  SumFunctionOnSet([i \in DOMAIN q |-> q[i].amount],
                         {i \in DOMAIN q : q[i].kind = "Message" /\ q[i].handle = h})
Announces(e, h) == Announced(e, h) /\ ~Resetting(e, h)

(* Bytes are conserved: what one session has accepted from its client is   *)
(* what the other has sent plus what is in its lane, so a clean CLOSE with *)
(* its final length always matches.                                        *)
BytesConserved ==
    \A e \in Endpoints : \A h \in DOMAIN transfers[e] :
        LET p == peer_key(<<e, h>>)
        IN  Linked(e, h) /\ Announces(e, h) /\ Running(e) /\ Running(p[1]) /\ step[p[1]] = Idle
               => transfers[e][h].received = transfers[p[1]][p[2]].sent + InFlight(p[1], p[2])

(* Credit is never over-granted: what a sender may still send is covered   *)
(* by what the receiving client has granted, across both sessions'         *)
(* budgets, and by the item limit both descriptors advertise.              *)
CreditIsCovered ==
    \A e \in Endpoints : \A h \in DOMAIN transfers[e] :
        LET p == peer_key(<<e, h>>)
        IN  Linked(e, h) /\ Announced(e, h) =>
               /\ transfers[e][h].receive_limit <= transfers[p[1]][p[2]].flow
               /\ transfers[e][h].max = native_links[<<e, h>>].max_item_bytes

(* A session never has reason to reset a channel for what the other end    *)
(* did: whatever the two clients send and however often they are refused,  *)
(* the event it takes comes after ACCEPT, a message is within the limit    *)
(* its client has granted, a credit takes nothing back, and a close comes  *)
(* once and with the number of bytes that were passed on.  The RESETs of   *)
(* on_message, on_credit and on_close are left to a full outbound queue.   *)
RoutedIsAcceptable ==
    \A e \in Endpoints : Running(e) /\ step[e] = Idle =>
        \A v \in in_hand[e] : v.handle \in DOMAIN transfers[e] =>
            LET t == transfers[e][v.handle]
            IN  /\ v.kind \in {"Message", "Credit", "Close"} => t.provisional = {}
                /\ v.kind = "Message" => ~t.output_closed /\ t.sent + v.amount <= t.flow
                /\ v.kind = "Credit" => t.receive_limit <= v.amount
                /\ v.kind = "Close" => ~t.output_closed /\ t.sent = v.amount

(* A CONNECT is settled even if its timer never fires, as long as the      *)
(* sessions involved keep running or are cleaned up.                       *)
ConnectSettles ==
    \A e \in Endpoints, c \in ConnectIds :
        c \in pending_connects[e] ~> c \notin pending_connects[e]

(* A session that has gone gives every handle slot back: neither a peer    *)
(* that is still in a handshake or on a channel with it, nor an event on   *)
(* its way to it, keeps one charged.                                       *)
SlotsAreReleased ==
    \A e \in Endpoints : (session[e] = "ended") ~> (endpoint_slots[e] = 0)

(* The protocol makes a routed event for a retired transfer a matter of    *)
(* that transfer: a session never ends because of one.                     *)
EventsAreTransferLocal == \A e \in Endpoints : session[e] # "failed"

(* Closing a listener stops new accepts but not established channels: once *)
(* the connector's link is published, the accepting session that is still  *)
(* running has the transfer at its end, until a RESET retires it.          *)
EstablishedHasBothEnds ==
    \A k \in DOMAIN native_links :
        native_links[k].published /\ Running(k[1]) =>
            k[2] \in DOMAIN transfers[k[1]]
=============================================================================
