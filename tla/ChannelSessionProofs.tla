------------------------ MODULE ChannelSessionProofs -------------------------
(***************************************************************************)
(* Proofs about ChannelSession for every value of its constants: any       *)
(* number of sessions, handles and connect ids, and every interleaving of  *)
(* their handlers.                                                         *)
(*                                                                         *)
(* The properties are conjuncts of, or follow from, one inductive          *)
(* invariant, SessionInv at the end of the module. It is built in the      *)
(* order of the sections: the types; which session a step is of, and what  *)
(* it leaves alone of the others (OthersStay); what the fabric operation   *)
(* in the step does to every lane (AllGrow), connect (PendingSafe) and     *)
(* link (LinkMoves, LinkMade); and from these, one section for each        *)
(* property.                                                               *)
(*                                                                         *)
(* A session's step is seen by the properties as one of a few changes: of  *)
(* its requests (Accounts), of one transfer (Change), of one lane          *)
(* (EventsMove). Each change is established once, action by action, and    *)
(* the properties are proved from the changes.                             *)
(***************************************************************************)
EXTENDS ChannelSession, ChannelFabricProofs, DataInduction

-----------------------------------------------------------------------------
(* Types. *)

TransferType ==
    [provisional : {{}} \union {{c} : c \in Nat}, listener : Nat, received : Nat,
     receive_limit : Nat, sent : Nat, flow : Nat, asked : Nat, max : Nat,
     input_closed : BOOLEAN, output_closed : BOOLEAN]
StepType ==
    [at : {"idle", "finish", "cancel", "fail", "publish", "reset"}, id : Nat, handle : Nat,
     amount : Nat]
TransferOK(t) ==
    /\ t \in TransferType
    /\ t.received <= t.receive_limit /\ t.sent <= t.flow /\ t.flow <= t.asked
    /\ t.provisional # {} => t.received = 0

(* SessionTypeOK, the types of the variables it leaves out, and what the   *)
(* calls of the fabric need: a publish step carries a credit.              *)
TransfersOK ==
    /\ DOMAIN transfers = Endpoints
    /\ \A e \in Endpoints :
          /\ DOMAIN transfers[e] \subseteq 1 .. next_channel_handle[e] - 1
          /\ \A h \in DOMAIN transfers[e] : TransferOK(transfers[e][h])
StepsOK ==
    /\ step \in [Endpoints -> StepType]
    /\ \A e \in Endpoints : step[e].at = "publish" => step[e].amount \in Sizes
HandsOK == \A e \in Endpoints : in_hand[e] = {} \/ \E v : in_hand[e] = {v}
TablesOK ==
    /\ session \in [Endpoints -> {"none", "running", "failed", "stopped", "ended"}]
    /\ next_channel_handle \in [Endpoints -> Nat \ {0}]
    /\ my_listeners \in [Endpoints -> SUBSET ListenerHandles]
    /\ pending_connects \in [Endpoints -> SUBSET ConnectIds]
    /\ results \in [ConnectIds -> Nat]
SessionShape ==
    /\ TablesOK
    /\ TransfersOK
    /\ StepsOK
    /\ HandsOK

-----------------------------------------------------------------------------
(* The operations of the fabric are steps of the fabric. *)
LEMMA CallsCancel ==
    ASSUME LinksTypeOK, NEW e \in Endpoints, NEW c, cancel_channel_connect(e, c)
    PROVE  [Next]_fabric
  <1>1. CASE native_cancel_connect(e, c)
    <2>1. c \in ConnectIds
      BY <1>1 DEF native_cancel_connect, CancelOk, LinksTypeOK
    <2> QED
      BY <1>1, <2>1 DEF Next, Handshake
  <1> QED
    BY <1>1 DEF cancel_channel_connect

LEMMA CallsReset ==
    ASSUME LinksTypeOK, NEW e \in Endpoints, NEW h, reset_if_linked(e, h)
    PROVE  [Next]_fabric
  <1>1. CASE native_reset(e, h)
    <2>1. h \in ChannelHandles
      BY <1>1 DEF native_reset, LinksTypeOK
    <2> QED
      BY <1>1, <2>1 DEF Next, Ending
  <1> QED
    BY <1>1 DEF reset_if_linked

LEMMA CallsDrop ==
    ASSUME NEW e \in Endpoints, drop_event(e)
    PROVE  [Next]_fabric
  BY DEF Next, Receiving

(* Every step of the sessions is a step of the fabric, or leaves it alone. *)
LEMMA SessionCalls ==
    ASSUME LinksTypeOK, SessionShape, [SessionNext]_vars
    PROVE  [Next]_fabric
  <1> USE DEF fail_channel_connect
  <1>1. CASE shutdown_fabric
    BY <1>1 DEF shutdown_fabric, Next, Registration
  <1>2. ASSUME NEW e \in Endpoints, open_session(e) PROVE [Next]_fabric
    BY <1>2 DEF open_session, Next, Registration
  <1>3. ASSUME NEW e \in Endpoints, take_event(e) \/ take_terminal(e) PROVE [Next]_fabric
    BY <1>3 DEF take_event, take_terminal, Next, Receiving
  <1>4. ASSUME NEW e \in Endpoints, finish_event(e) \/ lost_transfer(e) PROVE [Next]_fabric
    BY <1>4, CallsDrop DEF finish_event, lost_transfer
  <1>5. ASSUME NEW e \in Endpoints, on_incoming_connect(e) PROVE [Next]_fabric
    <2>1. UNCHANGED fabric \/ (/\ next_channel_handle[e] \in ChannelHandles
                               /\ \E granted \in Sizes :
                                     native_prepare_connect(e, EventOf(e).id,
                                        next_channel_handle[e], granted, granted))
      BY <1>5 DEF on_incoming_connect, alloc_channel_handle
    <2>2. ASSUME NEW granted \in Sizes, next_channel_handle[e] \in ChannelHandles,
                 native_prepare_connect(e, EventOf(e).id, next_channel_handle[e], granted, granted)
          PROVE  Next
      <3>1. EventOf(e).id \in ConnectIds
        BY <2>2 DEF native_prepare_connect, PrepareOk, LinksTypeOK
      <3> QED
        BY <2>2, <3>1 DEF Next, Handshake
    <2> QED
      BY <2>1, <2>2
  <1>6. ASSUME NEW e \in Endpoints, do_cancel(e) \/ do_fail(e) PROVE [Next]_fabric
    BY <1>6, CallsCancel DEF do_cancel, do_fail
  <1>7. ASSUME NEW e \in Endpoints, on_connect_prepared(e) PROVE [Next]_fabric
    <2>1. \/ UNCHANGED fabric \/ cancel_channel_connect(e, EventOf(e).id)
          \/ /\ next_channel_handle[e] \in ChannelHandles
             /\ \E m : native_complete_connect(e, EventOf(e).id, next_channel_handle[e], m)
      BY <1>7 DEF on_connect_prepared, alloc_channel_handle
    <2>2. ASSUME NEW m, next_channel_handle[e] \in ChannelHandles,
                 native_complete_connect(e, EventOf(e).id, next_channel_handle[e], m)
          PROVE  Next
      <3>1. EventOf(e).id \in ConnectIds /\ m \in Sizes
        BY <2>2 DEF native_complete_connect, CompleteOk, LinksTypeOK
      <3> QED
        BY <2>2, <3>1 DEF Next, Handshake
    <2> QED
      BY <2>1, <2>2, CallsCancel
  <1>8. ASSUME NEW e \in Endpoints, do_publish(e) PROVE [Next]_fabric
    <2> DEFINE s == step[e]
    <2>1. s.amount \in Sizes
      BY <1>8 DEF do_publish, SessionShape, TablesOK, StepsOK
    <2>2. CASE native_publish_connect(e, s.id, s.handle, s.amount)
      <3>1. s.handle \in ChannelHandles /\ s.id \in ConnectIds
        BY <2>2 DEF native_publish_connect, PublishOk, PublishAdmitted, LinksTypeOK, NativeLinkEnd
      <3> QED
        BY <2>1, <2>2, <3>1 DEF Next, Handshake
    <2>3. CASE native_publish_connect_backpressured(e, s.id, s.handle, s.amount)
      <3>1. s.handle \in ChannelHandles /\ s.id \in ConnectIds
        BY <2>3 DEF native_publish_connect_backpressured, PublishAdmitted, LinksTypeOK, NativeLinkEnd
      <3> QED
        BY <2>1, <2>3, <3>1 DEF Next, Handshake
    <2> QED
      BY <1>8, <2>2, <2>3 DEF do_publish
  <1>9. ASSUME NEW e \in Endpoints, do_reset(e) PROVE [Next]_fabric
    BY <1>9, CallsReset DEF do_reset
  <1>10. ASSUME NEW e \in Endpoints, on_connect_committed(e) PROVE [Next]_fabric
    BY <1>10, CallsReset DEF on_connect_committed
  <1>11. ASSUME NEW e \in Endpoints, on_connect_aborted(e) PROVE [Next]_fabric
    BY <1>11, CallsCancel DEF on_connect_aborted
  <1>12. ASSUME NEW e \in Endpoints, on_message(e) \/ on_credit(e) \/ on_close(e) \/ on_reset(e)
         PROVE  [Next]_fabric
    BY <1>12 DEF on_message, on_credit, on_close, on_reset
  <1>13. ASSUME NEW e \in Endpoints, Requests(e) PROVE [Next]_fabric
    <2>1. ASSUME NEW n \in Names, channel_listen(e, n) PROVE [Next]_fabric
      BY <2>1 DEF channel_listen, Next, Registration
    <2>2. ASSUME NEW l \in ListenerHandles, channel_close_listener(e, l) PROVE [Next]_fabric
      BY <2>2 DEF channel_close_listener, Next, Registration
    <2>3. ASSUME NEW l \in ListenerHandles, NEW n \in Sizes, channel_connect(e, l, n)
          PROVE  [Next]_fabric
      BY <2>3 DEF channel_connect, Next, Handshake
    <2>4. ASSUME NEW c \in ConnectIds, cancel_request(e, c) PROVE [Next]_fabric
      BY <2>4, CallsCancel DEF cancel_request
    <2> QED
      BY <1>13, <2>1, <2>2, <2>3, <2>4 DEF Requests
  <1>14. ASSUME NEW e \in Endpoints, TransferFrames(e) PROVE [Next]_fabric
    <2>1. ASSUME NEW h \in ChannelHandles, NEW n \in Limits, transfer_credit(e, h, n)
          PROVE  [Next]_fabric
      <3>1. h \in DOMAIN transfers[e] /\ transfers[e][h].flow \in Nat /\ n \in Nat
        BY <2>1, FabricAssumption
        DEF transfer_credit, Announced, SessionShape, TablesOK, TransfersOK, TransferOK, TransferType
      <3>2. UNCHANGED fabric \/ \E flow \in transfers[e][h].flow .. n : native_send_credit(e, h, flow)
        BY <2>1 DEF transfer_credit, Reject, RoutedCredit
      <3>3. \A flow \in transfers[e][h].flow .. n : flow \in Limits
        <4>1. 0 .. n \subseteq Limits
          BY SessionAssumption
        <4> QED
          BY <3>1, <4>1
      <3> QED
        BY <3>2, <3>3 DEF Next, Traffic
    <2>2. ASSUME NEW h \in ChannelHandles, NEW n \in Sizes, transfer_message(e, h, n)
          PROVE  [Next]_fabric
      BY <2>2 DEF transfer_message, Reject, Next, Traffic
    <2>3. ASSUME NEW h \in ChannelHandles, NEW n \in Limits, transfer_close(e, h, n)
          PROVE  [Next]_fabric
      BY <2>3 DEF transfer_close, Reject, Next, Ending
    <2>4. ASSUME NEW h \in ChannelHandles, transfer_reset(e, h) PROVE [Next]_fabric
      BY <2>4, CallsReset DEF transfer_reset
    <2> QED
      BY <1>14, <2>1, <2>2, <2>3, <2>4 DEF TransferFrames
  <1>15. ASSUME NEW e \in Endpoints, EndOfSession(e) PROVE [Next]_fabric
    <2>1. CASE stop_session(e)
      BY <2>1, CallsDrop DEF stop_session
    <2>2. CASE cleanup_session(e)
      BY <2>2 DEF cleanup_session, Next, Registration
    <2>3. CASE drop_session(e)
      BY <2>3 DEF drop_session, Next, Receiving
    <2> QED
      BY <1>15, <2>1, <2>2, <2>3 DEF EndOfSession
  <1>16. CASE UNCHANGED vars
    BY <1>16 DEF vars
  <1> QED
    BY <1>1, <1>2, <1>3, <1>4, <1>5, <1>6, <1>7, <1>8, <1>9, <1>10, <1>11, <1>12, <1>13, <1>14,
       <1>15, <1>16 DEF SessionNext, HandleEvent

-----------------------------------------------------------------------------
(* What the operations on a session's tables do, entry by entry. *)
SetsTransfer(e, h, t) ==
    /\ DOMAIN transfers' = Endpoints
    /\ \A f \in Endpoints : f # e => transfers'[f] = transfers[f]
    /\ DOMAIN transfers'[e] = DOMAIN transfers[e] \union {h}
    /\ transfers'[e][h] = t
    /\ \A g \in DOMAIN transfers[e] : g # h => transfers'[e][g] = transfers[e][g]
DropsTransfers(e, H) ==
    /\ DOMAIN transfers' = Endpoints
    /\ \A f \in Endpoints : f # e => transfers'[f] = transfers[f]
    /\ DOMAIN transfers'[e] = DOMAIN transfers[e] \ H
    /\ \A g \in DOMAIN transfers'[e] : transfers'[e][g] = transfers[e][g]

LEMMA SetTransferMeans ==
    ASSUME TransfersOK, NEW e \in Endpoints, NEW h, NEW t, SetTransfer(e, h, t)
    PROVE  SetsTransfer(e, h, t)
  BY DEF TransfersOK, SetTransfer, Put, SetsTransfer

LEMMA RemoveMeans ==
    ASSUME TransfersOK, NEW e \in Endpoints, NEW H, remove_channel_transfer(e, H)
    PROVE  DropsTransfers(e, H)
  BY DEF TransfersOK, remove_channel_transfer, Without, DropsTransfers

LEMMA HandlesAreNumbers == ChannelHandles \subseteq Nat \ {0}
  <1>1. Cardinality(ChannelHandles) \in Nat
    BY SessionAssumption, FS_CardinalityType
  <1> QED
    BY <1>1, SessionAssumption

LEMMA EventInHand ==
    ASSUME LanesTypeOK, HandsOK, NEW e \in Endpoints, NEW kind, Handling(e, kind)
    PROVE  /\ in_hand[e] = {EventOf(e)} /\ EventOf(e) \in EventType /\ EventOf(e).kind = kind
           /\ EventOf(e).id \in Nat /\ EventOf(e).handle \in Nat /\ EventOf(e).amount \in Nat
           /\ EventOf(e).max \in Nat
           /\ Running(e) /\ step[e] = Idle
  <1>1. PICK v : in_hand[e] = {v} /\ v.kind = kind
    BY DEF Handling, HandsOK
  <1>2. EventOf(e) = v
    BY <1>1 DEF EventOf
  <1>3. v \in EventType
    BY <1>1 DEF LanesTypeOK
  <1>4. v.id \in Nat /\ v.handle \in Nat /\ v.amount \in Nat /\ v.max \in Nat
    BY <1>3, HandlesAreNumbers DEF EventType
  <1> QED
    BY <1>1, <1>2, <1>3, <1>4 DEF Handling

(* Handles only grow, and what the tables hold keeps its type. *)
HandlesGrow ==
    /\ next_channel_handle' \in [Endpoints -> Nat \ {0}]
    /\ \A f \in Endpoints : next_channel_handle[f] <= next_channel_handle'[f]

LEMMA AllocMeans ==
    ASSUME SessionShape, NEW e \in Endpoints, alloc_channel_handle(e)
    PROVE  /\ HandlesGrow /\ next_channel_handle'[e] = next_channel_handle[e] + 1
           /\ next_channel_handle[e] \in ChannelHandles
           /\ \A f \in Endpoints : f # e => next_channel_handle'[f] = next_channel_handle[f]
  BY DEF SessionShape, TablesOK, alloc_channel_handle, HandlesGrow

LEMMA SameHandles ==
    ASSUME SessionShape, UNCHANGED next_channel_handle
    PROVE  HandlesGrow
  BY DEF SessionShape, TablesOK, HandlesGrow

LEMMA KeepsOK ==
    ASSUME SessionShape, HandlesGrow, UNCHANGED transfers
    PROVE  TransfersOK'
  <1>1. ASSUME NEW f \in Endpoints
        PROVE  1 .. next_channel_handle[f] - 1 \subseteq 1 .. next_channel_handle'[f] - 1
    <2>1. next_channel_handle[f] \in Nat /\ next_channel_handle'[f] \in Nat
      BY DEF SessionShape, TablesOK, HandlesGrow
    <2> QED
      BY <2>1 DEF HandlesGrow
  <1> QED
    BY <1>1 DEF SessionShape, TablesOK, TransfersOK, TransferOK

LEMMA SetsOK ==
    ASSUME SessionShape, HandlesGrow, NEW e \in Endpoints, NEW h \in Nat \ {0}, NEW t,
           h < next_channel_handle'[e], TransferOK(t), SetTransfer(e, h, t)
    PROVE  TransfersOK'
  <1>0. SetsTransfer(e, h, t)
    BY SetTransferMeans DEF SessionShape, TablesOK
  <1>1. ASSUME NEW f \in Endpoints
        PROVE  1 .. next_channel_handle[f] - 1 \subseteq 1 .. next_channel_handle'[f] - 1
    <2>1. next_channel_handle[f] \in Nat /\ next_channel_handle'[f] \in Nat
      BY DEF SessionShape, TablesOK, HandlesGrow
    <2> QED
      BY <2>1 DEF HandlesGrow
  <1>2. h \in 1 .. next_channel_handle'[e] - 1
    BY DEF HandlesGrow
  <1>3. ASSUME NEW f \in Endpoints
        PROVE  /\ DOMAIN transfers'[f] \subseteq 1 .. next_channel_handle'[f] - 1
               /\ \A g \in DOMAIN transfers'[f] : TransferOK(transfers'[f][g])
    <2>1. CASE f # e
      BY <1>0, <1>1, <2>1 DEF SetsTransfer, SessionShape, TablesOK, TransfersOK
    <2>2. CASE f = e
      BY <1>0, <1>1, <1>2, <2>2 DEF SetsTransfer, SessionShape, TablesOK, TransfersOK
    <2> QED
      BY <2>1, <2>2
  <1> QED
    BY <1>0, <1>3 DEF TransfersOK, SetsTransfer, TransferOK

LEMMA RemovesOK ==
    ASSUME SessionShape, NEW e \in Endpoints, NEW H, remove_channel_transfer(e, H),
           UNCHANGED next_channel_handle
    PROVE  TransfersOK'
  <1>0. DropsTransfers(e, H)
    BY RemoveMeans DEF SessionShape, TablesOK
  <1>3. ASSUME NEW f \in Endpoints
        PROVE  /\ DOMAIN transfers'[f] \subseteq 1 .. next_channel_handle'[f] - 1
               /\ \A g \in DOMAIN transfers'[f] : TransferOK(transfers'[f][g])
    <2>1. CASE f # e
      BY <1>0, <2>1 DEF DropsTransfers, SessionShape, TablesOK, TransfersOK
    <2>2. CASE f = e
      BY <1>0, <2>2 DEF DropsTransfers, SessionShape, TablesOK, TransfersOK
    <2> QED
      BY <2>1, <2>2
  <1> QED
    BY <1>0, <1>3 DEF TransfersOK, DropsTransfers, TransferOK

(* The transfer of an announced channel, and of an event. *)
LEMMA TransferHere ==
    ASSUME SessionShape, NEW e \in Endpoints, NEW h \in DOMAIN transfers[e]
    PROVE  /\ TransferOK(transfers[e][h]) /\ transfers[e][h] \in TransferType
           /\ h \in Nat \ {0} /\ h < next_channel_handle[e]
  <1>1. next_channel_handle[e] \in Nat /\ h \in 1 .. next_channel_handle[e] - 1
    BY DEF SessionShape, TablesOK, TransfersOK
  <1> QED
    BY <1>1 DEF SessionShape, TablesOK, TransfersOK, TransferOK

LEMMA HandsStep ==
    ASSUME FabricInv, FabricInv', HandsOK, [Next]_fabric
    PROVE  HandsOK'
  <1>0. LanesTypeOK
    BY DEF FabricInv, TypeOK
  <1>1. CASE UNCHANGED in_hand
    BY <1>1 DEF HandsOK
  <1>2. CASE LaneSend
    BY <1>1, <1>2 DEF LaneSend, Sent
  <1>3. CASE Receiving
    <2>1. ASSUME NEW e \in Endpoints
          PROVE  in_hand'[e] = {} \/ \E v : in_hand'[e] = {v}
      <3>1. \/ in_hand'[e] = in_hand[e]
            \/ Takes(e) \/ TakesTerminal(e) \/ Drops(e)
        BY <1>0, <1>3, ReceiveSteps
      <3> QED
        BY <3>1 DEF HandsOK, Takes, TakesTerminal, Drops
    <2> QED
      BY <2>1 DEF HandsOK
  <1> QED
    BY <1>1, <1>2, <1>3, LaneSteps

LEMMA StepMeans ==
    ASSUME SessionShape, NEW e \in Endpoints, NEW s, Then(e, s)
    PROVE  /\ step'[e] = s /\ \A f \in Endpoints : f # e => step'[f] = step[f]
           /\ s \in StepType /\ (s.at = "publish" => s.amount \in Sizes) => StepsOK'
  BY DEF SessionShape, TablesOK, StepsOK, Then

LEMMA StepValues ==
    /\ Idle \in StepType /\ Finish \in StepType /\ Idle # Finish
    /\ Idle.at = "idle" /\ Finish.at = "finish"
    /\ \A c \in Nat : Step("cancel", c, 0, 0) \in StepType /\ Step("cancel", c, 0, 0).at = "cancel"
                      /\ Step("cancel", c, 0, 0).id = c
    /\ \A c \in Nat : Step("fail", c, 0, 0) \in StepType /\ Step("fail", c, 0, 0).at = "fail"
                      /\ Step("fail", c, 0, 0).id = c
    /\ \A h \in Nat : Step("reset", 0, h, 0) \in StepType /\ Step("reset", 0, h, 0).at = "reset"
                      /\ Step("reset", 0, h, 0).handle = h
    /\ \A c \in Nat, h \in Nat, n \in Nat :
          /\ Step("publish", c, h, n) \in StepType /\ Step("publish", c, h, n).at = "publish"
          /\ Step("publish", c, h, n).id = c /\ Step("publish", c, h, n).handle = h
          /\ Step("publish", c, h, n).amount = n
  BY DEF Idle, Finish, Step, StepType

(* A step to anything but publish. *)
LEMMA StepOK ==
    ASSUME SessionShape, NEW e \in Endpoints, NEW s \in StepType, Then(e, s), s.at # "publish"
    PROVE  StepsOK'
  BY StepMeans
LEMMA SameStep ==
    ASSUME SessionShape, UNCHANGED step
    PROVE  StepsOK'
  BY DEF SessionShape, TablesOK, StepsOK
LEMMA AfterOK == \A e : After(e) \in {Idle, Finish}
  BY DEF After

(* One step per action. *)
Shaped == TablesOK' /\ TransfersOK' /\ StepsOK'

LEMMA TakePendingOK ==
    ASSUME SessionShape, NEW e \in Endpoints, NEW c, take_channel_pending(e, c)
    PROVE  /\ pending_connects' \in [Endpoints -> SUBSET ConnectIds]
           /\ pending_connects'[e] = pending_connects[e] \ {c}
           /\ \A f \in Endpoints : f # e => pending_connects'[f] = pending_connects[f]
  BY DEF SessionShape, TablesOK, take_channel_pending

LEMMA AnswerOK ==
    ASSUME SessionShape, NEW c, Answer(c)
    PROVE  /\ results' \in [ConnectIds -> Nat]
           /\ c \in ConnectIds => results'[c] = results[c] + 1
           /\ \A d \in ConnectIds : d # c => results'[d] = results[d]
  <1>1. CASE c \in ConnectIds
    BY <1>1 DEF SessionShape, TablesOK, Answer
  <1>2. CASE c \notin ConnectIds
    <2>1. results' = results
      BY <1>2 DEF SessionShape, TablesOK, Answer
    <2> QED
      BY <1>2, <2>1 DEF SessionShape, TablesOK
  <1> QED
    BY <1>1, <1>2

LEMMA NewTransferOK ==
    ASSUME NEW p \in {{}} \union {{c} : c \in Nat}, NEW l \in Nat, NEW n \in Nat, NEW m \in Nat,
           NEW x \in Nat
    PROVE  TransferOK(Transfer(p, l, n, m, x))
  BY DEF Transfer, TransferOK, TransferType

LEMMA ShapeIncoming ==
    ASSUME FabricInv, SessionShape, NEW e \in Endpoints, on_incoming_connect(e)
    PROVE  Shaped
  <1> DEFINE v == EventOf(e)
             h == next_channel_handle[e]
  <1>1. v.id \in Nat /\ v.handle \in Nat /\ LanesTypeOK
    BY EventInHand DEF on_incoming_connect, FabricInv, TypeOK, SessionShape
  <1>2. Step("cancel", v.id, 0, 0) \in StepType /\ Step("cancel", v.id, 0, 0).at # "publish"
        /\ Finish \in StepType /\ Finish.at # "publish"
    BY <1>1, StepValues
  <1>3. StepsOK'
    BY <1>2, StepOK DEF on_incoming_connect
  <1>4. HandlesGrow
    BY AllocMeans, SameHandles DEF on_incoming_connect
  <1>5. ASSUME UNCHANGED transfers PROVE TransfersOK'
    BY <1>4, <1>5, KeepsOK
  <1>6. ASSUME NEW granted \in Sizes, alloc_channel_handle(e),
               SetTransfer(e, h, Transfer({v.id}, v.handle, granted, 0, granted))
        PROVE  TransfersOK'
    <2>1. granted \in Nat
      BY FabricAssumption
    <2>2. {v.id} \in {{}} \union {{c} : c \in Nat}
      BY <1>1
    <2>3. TransferOK(Transfer({v.id}, v.handle, granted, 0, granted))
      BY <1>1, <2>1, <2>2, NewTransferOK
    <2>4. h \in Nat \ {0} /\ h < next_channel_handle'[e]
      BY <1>6, AllocMeans DEF SessionShape, TablesOK
    <2> QED
      BY <1>4, <1>6, <2>3, <2>4, SetsOK
  <1>7. TransfersOK'
    BY <1>5, <1>6 DEF on_incoming_connect
  <1>8. TablesOK'
    BY <1>4 DEF on_incoming_connect, SessionShape, TablesOK, HandlesGrow
  <1> QED
    BY <1>3, <1>7, <1>8 DEF Shaped

LEMMA ShapePrepared ==
    ASSUME FabricInv, SessionShape, NEW e \in Endpoints, on_connect_prepared(e)
    PROVE  Shaped
  <1> DEFINE v == EventOf(e)
             h == next_channel_handle[e]
  <1>1. v.id \in Nat /\ v.max \in Nat /\ LanesTypeOK
    BY EventInHand DEF on_connect_prepared, FabricInv, TypeOK, SessionShape
  <1>2. HandlesGrow
    BY AllocMeans, SameHandles DEF on_connect_prepared
  <1>3. h \in Nat \ {0}
    BY DEF SessionShape, TablesOK
  <1>4. CASE UNCHANGED transfers
    <2>1. StepsOK'
      <3>1. Then(e, Finish) \/ Then(e, Step("fail", v.id, 0, 0))
            \/ \E limit \in Sizes : Then(e, Step("publish", v.id, h, limit))
        BY DEF on_connect_prepared
      <3>2. ASSUME NEW limit \in Sizes, Then(e, Step("publish", v.id, h, limit)) PROVE StepsOK'
        <4>1. limit \in Nat
          BY FabricAssumption
        <4> QED
          BY <1>1, <1>3, <3>2, <4>1, StepValues, StepMeans
      <3> QED
        BY <1>1, <3>1, <3>2, StepValues, StepOK
    <2>2. TransfersOK'
      BY <1>2, <1>4, KeepsOK
    <2>3. /\ pending_connects' \in [Endpoints -> SUBSET ConnectIds]
          /\ results' \in [ConnectIds -> Nat]
      BY TakePendingOK, AnswerOK DEF on_connect_prepared, fail_channel_connect, SessionShape, TablesOK
    <2>4. TablesOK'
      BY <1>2, <2>3 DEF on_connect_prepared, SessionShape, TablesOK, HandlesGrow
    <2> QED
      BY <2>1, <2>2, <2>4 DEF Shaped
  <1>5. ASSUME NEW limit \in Sizes, NEW max,
               max = (IF v.max < limit THEN v.max ELSE limit),
               alloc_channel_handle(e),
               take_channel_pending(e, v.id), Answer(v.id),
               SetTransfer(e, h, Transfer({}, 0, 0, limit, max)),
               Then(e, Step("publish", v.id, h, limit))
        PROVE  Shaped
    <2>1. limit \in Nat /\ max \in Nat
      BY <1>1, <1>5, FabricAssumption
    <2>2. TransferOK(Transfer({}, 0, 0, limit, max))
      BY <2>1, NewTransferOK
    <2>3. h < next_channel_handle'[e]
      BY <1>3, <1>5, AllocMeans
    <2>4. TransfersOK'
      BY <1>2, <1>3, <1>5, <2>2, <2>3, SetsOK
    <2>5. StepsOK'
      BY <1>1, <1>3, <1>5, <2>1, StepValues, StepMeans
    <2>6. TablesOK'
      BY <1>2, <1>5, TakePendingOK, AnswerOK DEF on_connect_prepared, SessionShape, TablesOK, HandlesGrow
    <2> QED
      BY <2>4, <2>5, <2>6 DEF Shaped
  <1> QED
    BY <1>4, <1>5 DEF on_connect_prepared

LEMMA ShapeCommitted ==
    ASSUME FabricInv, SessionShape, NEW e \in Endpoints, on_connect_committed(e)
    PROVE  Shaped
  <1> DEFINE v == EventOf(e)
  <1>1. v.max \in Nat /\ v.amount \in Nat
    BY EventInHand DEF on_connect_committed, FabricInv, TypeOK, SessionShape
  <1>2. StepsOK'
    BY StepOK, StepValues DEF on_connect_committed
  <1>3. TablesOK' /\ HandlesGrow
    BY SameHandles DEF on_connect_committed, SessionShape, TablesOK
  <1>4. ASSUME UNCHANGED transfers PROVE TransfersOK'
    BY <1>3, <1>4, KeepsOK
  <1>5. ASSUME NEW h \in Provisional(e, v.id), NEW granted \in Limits,
               SetTransfer(e, h, [transfers[e][h] EXCEPT !.provisional = {}, !.max = v.max,
                                                         !.receive_limit = granted])
        PROVE  TransfersOK'
    <2> DEFINE t == transfers[e][h]
               u == [t EXCEPT !.provisional = {}, !.max = v.max, !.receive_limit = granted]
    <2>1. h \in DOMAIN transfers[e] /\ t.provisional # {}
      BY DEF Provisional
    <2>2. TransferOK(t) /\ h \in Nat \ {0} /\ h < next_channel_handle[e]
      BY <2>1, TransferHere
    <2>3. granted \in Nat
      BY FabricAssumption
    <2>4. t.received = 0 /\ t \in TransferType /\ t.sent <= t.flow /\ t.flow <= t.asked
      BY <2>1, <2>2 DEF TransferOK
    <2>5. u \in TransferType /\ u.received = t.received /\ u.sent = t.sent /\ u.flow = t.flow
          /\ u.asked = t.asked /\ u.receive_limit = granted /\ u.provisional = {}
      BY <1>1, <2>3, <2>4 DEF TransferType
    <2>6. TransferOK(u)
      BY <2>3, <2>4, <2>5 DEF TransferOK
    <2>7. UNCHANGED next_channel_handle
      BY DEF on_connect_committed
    <2> QED
      BY <1>3, <1>5, <2>2, <2>6, <2>7, SetsOK
  <1>6. ASSUME NEW h, remove_channel_transfer(e, {h}) PROVE TransfersOK'
    BY <1>6, RemovesOK DEF on_connect_committed
  <1>7. TransfersOK'
    BY <1>4, <1>5, <1>6 DEF on_connect_committed
  <1> QED
    BY <1>2, <1>3, <1>7 DEF Shaped

LEMMA ShapeAborted ==
    ASSUME FabricInv, SessionShape, NEW e \in Endpoints, on_connect_aborted(e)
    PROVE  Shaped
  <1>2. StepsOK'
    BY StepOK, StepValues DEF on_connect_aborted
  <1>3. HandlesGrow
    BY SameHandles DEF on_connect_aborted
  <1>4. TransfersOK'
    BY <1>3, KeepsOK, RemovesOK DEF on_connect_aborted
  <1>5. TablesOK'
    BY TakePendingOK, AnswerOK DEF on_connect_aborted, fail_channel_connect, SessionShape, TablesOK
  <1> QED
    BY <1>2, <1>4, <1>5 DEF Shaped

(* The handlers of routed events and of frames change one transfer. *)
LEMMA UpdateOK ==
    ASSUME SessionShape, NEW e \in Endpoints, NEW h \in DOMAIN transfers[e], NEW t, TransferOK(t),
           UNCHANGED next_channel_handle, SetTransfer(e, h, t)
    PROVE  TransfersOK'
  BY TransferHere, SameHandles, SetsOK

LEMMA ShapeRouted ==
    ASSUME FabricInv, SessionShape, NEW e \in Endpoints,
           on_message(e) \/ on_credit(e) \/ on_close(e) \/ on_reset(e)
    PROVE  Shaped
  <1> DEFINE v == EventOf(e)
             t == transfers[e][v.handle]
  <1>1. v.amount \in Nat /\ v.handle \in Nat
    BY EventInHand
    DEF on_message, on_credit, on_close, on_reset, FabricInv, TypeOK, SessionShape
  <1>2. StepsOK'
    BY <1>1, StepOK, StepValues DEF on_message, on_credit, on_close, on_reset
  <1>3. TablesOK' /\ HandlesGrow /\ UNCHANGED next_channel_handle
    BY SameHandles DEF on_message, on_credit, on_close, on_reset, SessionShape, TablesOK
  <1>4. ASSUME UNCHANGED transfers PROVE TransfersOK'
    BY <1>3, <1>4, KeepsOK
  <1>5. ASSUME v.handle \in DOMAIN transfers[e]
        PROVE  t \in TransferType /\ TransferOK(t)
    BY <1>5, TransferHere
  <1>6. CASE on_message(e)
    <2>1. ASSUME v.handle \in DOMAIN transfers[e], t.sent + v.amount <= t.flow
          PROVE  TransferOK([t EXCEPT !.sent = @ + v.amount])
      BY <1>1, <1>5, <2>1 DEF TransferOK, TransferType
    <2> QED
      BY <1>2, <1>3, <1>4, <1>6, <2>1, UpdateOK DEF on_message, Shaped
  <1>7. CASE on_credit(e)
    <2>1. ASSUME v.handle \in DOMAIN transfers[e], NEW limit \in t.receive_limit .. v.amount
          PROVE  TransferOK([t EXCEPT !.receive_limit = limit])
      BY <1>1, <1>5, <2>1 DEF TransferOK, TransferType
    <2> QED
      BY <1>2, <1>3, <1>4, <1>7, <2>1, UpdateOK DEF on_credit, Shaped
  <1>8. CASE on_close(e)
    <2>1. ASSUME v.handle \in DOMAIN transfers[e]
          PROVE  TransferOK([t EXCEPT !.output_closed = TRUE])
      BY <1>1, <1>5, <2>1 DEF TransferOK, TransferType
    <2> QED
      BY <1>2, <1>3, <1>4, <1>8, <2>1, UpdateOK, RemovesOK DEF on_close, Shaped
  <1>9. CASE on_reset(e)
    BY <1>2, <1>3, <1>9, RemovesOK DEF on_reset, Shaped
  <1> QED
    BY <1>6, <1>7, <1>8, <1>9

LEMMA ShapeFrames ==
    ASSUME FabricInv, SessionShape, NEW e \in Endpoints, TransferFrames(e)
    PROVE  Shaped
  <1>0. Sizes \subseteq Nat /\ Limits \subseteq Nat /\ ChannelHandles \subseteq Nat
    BY FabricAssumption, HandlesAreNumbers
  <1>1. ASSUME NEW h \in ChannelHandles, NEW n \in Limits, transfer_credit(e, h, n)
        PROVE  Shaped
    <2> DEFINE t == transfers[e][h]
    <2>1. h \in DOMAIN transfers[e] /\ t \in TransferType /\ TransferOK(t)
      BY <1>1, TransferHere DEF transfer_credit, Announced
    <2>2. TablesOK' /\ HandlesGrow /\ UNCHANGED next_channel_handle
      BY <1>1, SameHandles DEF transfer_credit, SessionShape, TablesOK
    <2>3. StepsOK'
      BY <1>0, <1>1, StepOK, StepValues, SameStep DEF transfer_credit, Reject
    <2>4. ASSUME NEW flow \in t.flow .. n
          PROVE  TransferOK([t EXCEPT !.asked = n, !.flow = flow])
      <3> DEFINE u == [t EXCEPT !.asked = n, !.flow = flow]
      <3>1. n \in Nat /\ flow \in Nat /\ t.flow <= flow /\ flow <= n /\ t.sent <= flow
        BY <1>0, <2>1, <2>4 DEF TransferOK, TransferType
      <3>2. /\ u \in TransferType /\ u.received = t.received /\ u.receive_limit = t.receive_limit
            /\ u.sent = t.sent /\ u.flow = flow /\ u.asked = n /\ u.provisional = t.provisional
        BY <2>1, <3>1 DEF TransferType
      <3> QED
        BY <2>1, <3>1, <3>2 DEF TransferOK
    <2>5. TransfersOK'
      BY <1>1, <2>1, <2>2, <2>4, KeepsOK, UpdateOK DEF transfer_credit
    <2> QED
      BY <2>2, <2>3, <2>5 DEF Shaped
  <1>2. ASSUME NEW h \in ChannelHandles, NEW n \in Sizes, transfer_message(e, h, n)
        PROVE  Shaped
    <2> DEFINE t == transfers[e][h]
    <2>1. /\ h \in DOMAIN transfers[e] /\ t \in TransferType /\ TransferOK(t)
          /\ t.provisional = {}
      BY <1>2, TransferHere DEF transfer_message, Announced
    <2>2. TablesOK' /\ HandlesGrow /\ UNCHANGED next_channel_handle
      BY <1>2, SameHandles DEF transfer_message, SessionShape, TablesOK
    <2>3. StepsOK'
      BY <1>0, <1>2, StepOK, StepValues, SameStep DEF transfer_message, Reject
    <2>4. ASSUME WithinCredit(t, n)
          PROVE  TransferOK([t EXCEPT !.received = @ + n])
      BY <1>0, <2>1, <2>4 DEF TransferOK, TransferType, WithinCredit
    <2>5. TransfersOK'
      BY <1>2, <2>1, <2>2, <2>4, KeepsOK, UpdateOK DEF transfer_message
    <2> QED
      BY <2>2, <2>3, <2>5 DEF Shaped
  <1>3. ASSUME NEW h \in ChannelHandles, NEW n \in Limits, transfer_close(e, h, n)
        PROVE  Shaped
    <2> DEFINE t == transfers[e][h]
    <2>1. h \in DOMAIN transfers[e] /\ t \in TransferType /\ TransferOK(t)
      BY <1>3, TransferHere DEF transfer_close, Announced
    <2>2. TablesOK' /\ HandlesGrow /\ UNCHANGED next_channel_handle
      BY <1>3, SameHandles DEF transfer_close, SessionShape, TablesOK
    <2>3. StepsOK'
      BY <1>0, <1>3, StepOK, StepValues, SameStep DEF transfer_close, Reject
    <2>4. TransferOK([t EXCEPT !.input_closed = TRUE])
      BY <1>0, <2>1 DEF TransferOK, TransferType
    <2>5. TransfersOK'
      BY <1>3, <2>1, <2>2, <2>4, KeepsOK, UpdateOK, RemovesOK DEF transfer_close
    <2> QED
      BY <2>2, <2>3, <2>5 DEF Shaped
  <1>4. ASSUME NEW h \in ChannelHandles, transfer_reset(e, h)
        PROVE  Shaped
    BY <1>4, RemovesOK, SameStep DEF transfer_reset, Shaped, SessionShape, TablesOK
  <1> QED
    BY <1>1, <1>2, <1>3, <1>4 DEF TransferFrames

LEMMA ShapeRequests ==
    ASSUME FabricInv, SessionShape, NEW e \in Endpoints, Requests(e)
    PROVE  Shaped
  <1> USE DEF SessionShape, TablesOK, Shaped
  <1>1. ASSUME NEW n \in Names, channel_listen(e, n) PROVE Shaped
    <2>1. next_listener_handle \in ListenerHandles
      BY <1>1, FabricAssumption
      DEF channel_listen, native_listen, ListenOk, FabricInv, TypeOK, RegistryTypeOK,
          ListenerHandles
    <2>2. my_listeners' \in [Endpoints -> SUBSET ListenerHandles]
      BY <1>1, <2>1 DEF channel_listen
    <2> QED
      BY <1>1, <2>2, SameHandles, KeepsOK, SameStep DEF channel_listen
  <1>2. ASSUME NEW l \in ListenerHandles, channel_close_listener(e, l) PROVE Shaped
    <2>2. my_listeners' \in [Endpoints -> SUBSET ListenerHandles]
      BY <1>2 DEF channel_close_listener
    <2> QED
      BY <1>2, <2>2, RemovesOK, SameStep DEF channel_close_listener
  <1>3. ASSUME NEW l \in ListenerHandles, NEW n \in Sizes, channel_connect(e, l, n)
        PROVE  Shaped
    <2>1. next_native_connect \in ConnectIds
      BY <1>3, FabricAssumption
      DEF channel_connect, native_begin_connect, native_begin_connect_backpressured, BeginOk,
          BeginAdmitted, FabricInv, TypeOK, LinksTypeOK, ConnectIds
    <2>2. /\ pending_connects' \in [Endpoints -> SUBSET ConnectIds]
          /\ results' \in [ConnectIds -> Nat]
      BY <1>3, <2>1, AnswerOK DEF channel_connect
    <2> QED
      BY <1>3, <2>2, SameHandles, KeepsOK, SameStep DEF channel_connect
  <1>4. ASSUME NEW c \in ConnectIds, cancel_request(e, c) PROVE Shaped
    BY <1>4, TakePendingOK, AnswerOK, SameHandles, KeepsOK, SameStep
    DEF cancel_request, fail_channel_connect
  <1> QED
    BY <1>1, <1>2, <1>3, <1>4 DEF Requests

LEMMA ShapeSteps ==
    ASSUME FabricInv, SessionShape, NEW e \in Endpoints,
           \/ finish_event(e) \/ do_cancel(e) \/ do_fail(e) \/ do_publish(e) \/ do_reset(e)
           \/ lost_transfer(e)
    PROVE  Shaped
  <1> USE DEF SessionShape, TablesOK, Shaped
  <1>1. CASE finish_event(e)
    BY <1>1, StepValues, StepOK, SameHandles, KeepsOK DEF finish_event, runtime
  <1>2. CASE do_cancel(e)
    BY <1>2, StepValues, StepOK, SameHandles, KeepsOK DEF do_cancel, runtime
  <1>3. CASE do_fail(e)
    BY <1>3, StepValues, StepOK, SameHandles, KeepsOK, TakePendingOK, AnswerOK
    DEF do_fail, fail_channel_connect
  <1>4. CASE do_publish(e)
    <2>1. step[e].handle \in Nat
      BY DEF StepsOK, StepType
    <2> QED
      BY <1>4, <2>1, StepValues, StepOK, SameHandles, KeepsOK DEF do_publish, runtime
  <1>5. CASE do_reset(e)
    <2>1. After(e) \in StepType /\ After(e).at # "publish"
      <3>1. After(e) = Idle \/ After(e) = Finish
        BY AfterOK
      <3>2. /\ Idle \in StepType /\ Finish \in StepType
            /\ Idle.at # "publish" /\ Finish.at # "publish"
        BY StepValues
      <3> QED
        BY <3>1, <3>2, Zenon
    <2>2. Then(e, After(e)) /\ remove_channel_transfer(e, {step[e].handle})
      BY <1>5 DEF do_reset
    <2>3. StepsOK'
      BY <2>1, <2>2, StepOK
    <2>4. TransfersOK'
      BY <1>5, <2>2, RemovesOK DEF do_reset
    <2> QED
      BY <1>5, <2>3, <2>4 DEF do_reset
  <1>6. CASE lost_transfer(e)
    BY <1>6, SameStep, SameHandles, KeepsOK DEF lost_transfer, runtime
  <1> QED
    BY <1>1, <1>2, <1>3, <1>4, <1>5, <1>6

LEMMA ShapeEnds ==
    ASSUME FabricInv, SessionShape, NEW e \in Endpoints,
           open_session(e) \/ take_event(e) \/ take_terminal(e) \/ EndOfSession(e)
    PROVE  Shaped
  <1> USE DEF SessionShape, TablesOK, Shaped
  <1>1. CASE open_session(e)
    BY <1>1, SameStep, SameHandles, KeepsOK DEF open_session, runtime
  <1>2. CASE take_event(e) \/ take_terminal(e) \/ drop_session(e)
    BY <1>2, SameStep, SameHandles, KeepsOK DEF take_event, take_terminal, drop_session, locals, runtime
  <1>3. CASE stop_session(e)
    BY <1>3, StepValues, StepOK, SameHandles, KeepsOK DEF stop_session, runtime
  <1>4. CASE cleanup_session(e)
    BY <1>4, SameStep, RemovesOK DEF cleanup_session
  <1> QED
    BY <1>1, <1>2, <1>3, <1>4 DEF EndOfSession

LEMMA ShapeStep ==
    ASSUME FabricInv, FabricInv', SessionShape, [SessionNext]_vars
    PROVE  SessionShape'
  <1>1. HandsOK'
    BY SessionCalls, HandsStep DEF SessionShape, FabricInv, TypeOK
  <1>2. CASE shutdown_fabric \/ UNCHANGED vars
    BY <1>1, <1>2, SameStep, SameHandles, KeepsOK
    DEF shutdown_fabric, vars, locals, runtime, SessionShape, TablesOK
  <1>3. ASSUME NEW e \in Endpoints, HandleEvent(e) PROVE Shaped
    BY <1>3, ShapeIncoming, ShapePrepared, ShapeCommitted, ShapeAborted, ShapeRouted, ShapeSteps
    DEF HandleEvent
  <1> QED
    BY <1>1, <1>2, <1>3, ShapeFrames, ShapeRequests, ShapeEnds
    DEF SessionNext, SessionShape, Shaped

-----------------------------------------------------------------------------
(* One session at a time. *)
Acts(e) ==
    \/ open_session(e) \/ take_event(e) \/ take_terminal(e) \/ HandleEvent(e)
    \/ Requests(e) \/ TransferFrames(e) \/ EndOfSession(e)
OthersKeep(e) ==
    \A f \in Endpoints : f # e =>
        /\ session'[f] = session[f] /\ next_channel_handle'[f] = next_channel_handle[f]
        /\ pending_connects'[f] = pending_connects[f] /\ transfers'[f] = transfers[f]
        /\ step'[f] = step[f]

LEMMA SessionActs ==
    ASSUME SessionNext
    PROVE  shutdown_fabric \/ \E e \in Endpoints : Acts(e)
  BY DEF SessionNext, Acts

LEMMA OthersStay ==
    ASSUME SessionShape, NEW e \in Endpoints, Acts(e)
    PROVE  OthersKeep(e)
  <1> USE DEF SessionShape, TablesOK, TransfersOK, StepsOK, Then, SetTransfer,
              remove_channel_transfer, alloc_channel_handle, take_channel_pending, OthersKeep
  <1>1. CASE open_session(e)
    BY <1>1 DEF open_session, runtime
  <1>2. CASE take_event(e) \/ take_terminal(e)
    BY <1>2 DEF take_event, take_terminal, locals, runtime
  <1>3. CASE HandleEvent(e)
    <2>1. CASE finish_event(e)
      BY <2>1 DEF finish_event, runtime
    <2>2. CASE on_incoming_connect(e)
      BY <2>2 DEF on_incoming_connect
    <2>3. CASE do_cancel(e)
      BY <2>3 DEF do_cancel, runtime
    <2>4. CASE on_connect_prepared(e)
      BY <2>4 DEF on_connect_prepared, fail_channel_connect
    <2>5. CASE do_fail(e)
      BY <2>5 DEF do_fail, fail_channel_connect
    <2>6. CASE do_publish(e)
      BY <2>6 DEF do_publish, runtime
    <2>7. CASE do_reset(e)
      BY <2>7 DEF do_reset
    <2>8. CASE on_connect_committed(e)
      BY <2>8 DEF on_connect_committed
    <2>9. CASE on_connect_aborted(e)
      BY <2>9 DEF on_connect_aborted, fail_channel_connect
    <2>10. CASE lost_transfer(e)
      BY <2>10 DEF lost_transfer, runtime
    <2>11. CASE on_message(e)
      BY <2>11 DEF on_message
    <2>12. CASE on_credit(e)
      BY <2>12 DEF on_credit
    <2>13. CASE on_close(e)
      BY <2>13 DEF on_close
    <2>14. CASE on_reset(e)
      BY <2>14 DEF on_reset
    <2> QED
      BY <1>3, <2>1, <2>2, <2>3, <2>4, <2>5, <2>6, <2>7, <2>8, <2>9, <2>10, <2>11, <2>12, <2>13,
         <2>14 DEF HandleEvent
  <1>4. CASE Requests(e)
    <2>1. ASSUME NEW n \in Names, channel_listen(e, n) PROVE OthersKeep(e)
      BY <2>1 DEF channel_listen
    <2>2. ASSUME NEW l \in ListenerHandles, channel_close_listener(e, l) PROVE OthersKeep(e)
      BY <2>2 DEF channel_close_listener
    <2>3. ASSUME NEW l \in ListenerHandles, NEW n \in Sizes, channel_connect(e, l, n)
          PROVE  OthersKeep(e)
      BY <2>3 DEF channel_connect
    <2>4. ASSUME NEW c \in ConnectIds, cancel_request(e, c) PROVE OthersKeep(e)
      BY <2>4 DEF cancel_request, fail_channel_connect
    <2> QED
      BY <1>4, <2>1, <2>2, <2>3, <2>4 DEF Requests
  <1>5. CASE TransferFrames(e)
    <2>1. ASSUME NEW h \in ChannelHandles, NEW n \in Limits, transfer_credit(e, h, n)
          PROVE  OthersKeep(e)
      BY <2>1 DEF transfer_credit, Reject
    <2>2. ASSUME NEW h \in ChannelHandles, NEW n \in Sizes, transfer_message(e, h, n)
          PROVE  OthersKeep(e)
      BY <2>2 DEF transfer_message, Reject
    <2>3. ASSUME NEW h \in ChannelHandles, NEW n \in Limits, transfer_close(e, h, n)
          PROVE  OthersKeep(e)
      BY <2>3 DEF transfer_close, Reject
    <2>4. ASSUME NEW h \in ChannelHandles, transfer_reset(e, h) PROVE OthersKeep(e)
      BY <2>4 DEF transfer_reset
    <2> QED
      BY <1>5, <2>1, <2>2, <2>3, <2>4 DEF TransferFrames
  <1>6. CASE stop_session(e)
    BY <1>6 DEF stop_session, runtime
  <1>7. CASE cleanup_session(e)
    BY <1>7 DEF cleanup_session
  <1>8. CASE drop_session(e)
    BY <1>8 DEF drop_session, locals, runtime
  <1> QED
    BY <1>1, <1>2, <1>3, <1>4, <1>5, <1>6, <1>7, <1>8 DEF Acts, EndOfSession

-----------------------------------------------------------------------------
(* A session lives as long as its endpoint is registered. *)
SessionLives ==
    \A e \in Endpoints :
        /\ session[e] = "none" <=> endpoint_state[e] = "unused"
        /\ session[e] = "ended" <=> endpoint_state[e] = "gone"
        /\ ~Running(e) => step[e] = Idle
        /\ session[e] \in {"none", "ended"} => pending_connects[e] = {} /\ DOMAIN transfers[e] = {}

LEMMA RunningIsLive ==
    ASSUME FabricInv, SessionLives, NEW e \in Endpoints, Running(e)
    PROVE  e \in Live
  BY DEF SessionLives, Running, Live, FabricInv, TypeOK, RegistryTypeOK

(* Everything but the two ends of a session happens to a running session   *)
(* and leaves the registration alone.                                      *)
Works(e) ==
    \/ take_event(e) \/ take_terminal(e) \/ (HandleEvent(e) /\ ~lost_transfer(e))
    \/ Requests(e) \/ TransferFrames(e)

LEMMA CancelState ==
    ASSUME NEW e, NEW c, cancel_channel_connect(e, c)
    PROVE  UNCHANGED endpoint_state
  BY DEF cancel_channel_connect, native_cancel_connect, registry, fabric
LEMMA ResetState ==
    ASSUME NEW e, NEW h, reset_if_linked(e, h)
    PROVE  UNCHANGED endpoint_state
  BY DEF reset_if_linked, native_reset, registry, fabric

LEMMA WorkRuns ==
    ASSUME NEW e \in Endpoints, Works(e)
    PROVE  Running(e) /\ UNCHANGED <<session, endpoint_state>>
  <1> USE DEF registry, fabric
  <1>1. CASE take_event(e) \/ take_terminal(e)
    BY <1>1 DEF take_event, take_terminal, Listening, recv_event, recv_terminal, locals
  <1>2. CASE HandleEvent(e) /\ ~lost_transfer(e)
    <2>1. CASE finish_event(e)
      BY <2>1 DEF finish_event, drop_event
    <2>2. CASE on_incoming_connect(e)
      BY <2>2 DEF on_incoming_connect, Handling, native_prepare_connect
    <2>3. CASE do_cancel(e) \/ do_fail(e)
      BY <2>3, CancelState DEF do_cancel, do_fail, fail_channel_connect
    <2>4. CASE on_connect_prepared(e)
      BY <2>4, CancelState DEF on_connect_prepared, Handling, fail_channel_connect,
                               native_complete_connect
    <2>6. CASE do_publish(e)
      BY <2>6 DEF do_publish, native_publish_connect, native_publish_connect_backpressured
    <2>7. CASE do_reset(e) \/ on_connect_committed(e)
      BY <2>7, ResetState DEF do_reset, on_connect_committed, Handling
    <2>9. CASE on_connect_aborted(e)
      BY <2>9, CancelState DEF on_connect_aborted, Handling, fail_channel_connect
    <2>11. CASE on_message(e) \/ on_credit(e) \/ on_close(e) \/ on_reset(e)
      BY <2>11 DEF on_message, on_credit, on_close, on_reset, Handling
    <2> QED
      BY <1>2, <2>1, <2>2, <2>3, <2>4, <2>6, <2>7, <2>9, <2>11 DEF HandleEvent
  <1>3. CASE Requests(e)
    <2> USE DEF Listening
    <2>1. ASSUME NEW n \in Names, channel_listen(e, n)
          PROVE  Running(e) /\ UNCHANGED <<session, endpoint_state>>
      BY <2>1 DEF channel_listen, native_listen
    <2>2. ASSUME NEW l \in ListenerHandles, channel_close_listener(e, l)
          PROVE  Running(e) /\ UNCHANGED <<session, endpoint_state>>
      BY <2>2 DEF channel_close_listener, native_close_listener
    <2>3. ASSUME NEW l \in ListenerHandles, NEW n \in Sizes, channel_connect(e, l, n)
          PROVE  Running(e) /\ UNCHANGED <<session, endpoint_state>>
      BY <2>3 DEF channel_connect, native_begin_connect, native_begin_connect_backpressured
    <2>4. ASSUME NEW c \in ConnectIds, cancel_request(e, c)
          PROVE  Running(e) /\ UNCHANGED <<session, endpoint_state>>
      BY <2>4, CancelState DEF cancel_request, fail_channel_connect
    <2> QED
      BY <1>3, <2>1, <2>2, <2>3, <2>4 DEF Requests
  <1>4. CASE TransferFrames(e)
    <2> USE DEF Listening, Reject
    <2>1. ASSUME NEW h \in ChannelHandles, NEW n \in Limits, transfer_credit(e, h, n)
          PROVE  Running(e) /\ UNCHANGED <<session, endpoint_state>>
      BY <2>1 DEF transfer_credit, native_send_credit
    <2>2. ASSUME NEW h \in ChannelHandles, NEW n \in Sizes, transfer_message(e, h, n)
          PROVE  Running(e) /\ UNCHANGED <<session, endpoint_state>>
      BY <2>2 DEF transfer_message, native_send_message
    <2>3. ASSUME NEW h \in ChannelHandles, NEW n \in Limits, transfer_close(e, h, n)
          PROVE  Running(e) /\ UNCHANGED <<session, endpoint_state>>
      BY <2>3 DEF transfer_close, native_send_close
    <2>4. ASSUME NEW h \in ChannelHandles, transfer_reset(e, h)
          PROVE  Running(e) /\ UNCHANGED <<session, endpoint_state>>
      BY <2>4, ResetState DEF transfer_reset
    <2> QED
      BY <1>4, <2>1, <2>2, <2>3, <2>4 DEF TransferFrames
  <1> QED
    BY <1>1, <1>2, <1>3, <1>4 DEF Works

LEMMA LivesStep ==
    ASSUME FabricInv, SessionShape, SessionLives, [SessionNext]_vars
    PROVE  SessionLives'
  <1>1. CASE shutdown_fabric \/ UNCHANGED vars
    BY <1>1 DEF shutdown_fabric, begin_shutdown, vars, locals, runtime, fabric, registry, SessionLives,
                Running
  <1>2. ASSUME NEW e \in Endpoints, Acts(e) PROVE SessionLives'
    <2>0. OthersKeep(e) /\ session \in [Endpoints -> {"none", "running", "failed", "stopped", "ended"}]
          /\ endpoint_state \in [Endpoints -> {"unused", "live", "gone"}]
      BY <1>2, OthersStay DEF SessionShape, TablesOK, FabricInv, TypeOK, RegistryTypeOK
    <2>1. ASSUME \A f \in Endpoints : f # e => endpoint_state'[f] = endpoint_state[f],
                 session'[e] = "none" <=> endpoint_state'[e] = "unused",
                 session'[e] = "ended" <=> endpoint_state'[e] = "gone",
                 session'[e] # "running" => step'[e] = Idle,
                 session'[e] \in {"none", "ended"} =>
                     pending_connects'[e] = {} /\ DOMAIN transfers'[e] = {}
          PROVE  SessionLives'
      BY <2>0, <2>1 DEF SessionLives, Running, OthersKeep
    <2>2. CASE Works(e)
      BY <2>1, <2>2, WorkRuns DEF SessionLives, Running
    <2>3. CASE lost_transfer(e)
      <3>1. UNCHANGED endpoint_state /\ Running(e) /\ step'[e] = Idle
        BY <2>3 DEF lost_transfer, Handling, drop_event, registry
      <3>2. session'[e] = "failed"
        BY <2>0, <2>3 DEF lost_transfer
      <3> QED
        BY <2>1, <3>1, <3>2 DEF SessionLives, Running
    <2>4. CASE open_session(e)
      <3>1. /\ session'[e] = "running" /\ endpoint_state'[e] = "live"
            /\ \A f \in Endpoints : f # e => endpoint_state'[f] = endpoint_state[f]
        BY <2>0, <2>4 DEF open_session, register_native_endpoint
      <3> QED
        BY <2>1, <3>1
    <2>5. CASE stop_session(e)
      <3>1. UNCHANGED endpoint_state /\ Running(e) /\ session'[e] = "stopped"
        BY <2>0, <2>5 DEF stop_session, drop_event, registry, fabric
      <3>2. step'[e] = Idle
        BY <2>5, StepMeans DEF stop_session
      <3> QED
        BY <2>1, <3>1, <3>2 DEF SessionLives, Running
    <2>6. CASE cleanup_session(e)
      <3>1. /\ session'[e] = "ended" /\ endpoint_state'[e] = "gone" /\ step'[e] = step[e]
            /\ session[e] # "running"
            /\ \A f \in Endpoints : f # e => endpoint_state'[f] = endpoint_state[f]
        BY <2>0, <2>6 DEF cleanup_session, unregister_native_endpoint
      <3>2. pending_connects'[e] = {} /\ DOMAIN transfers'[e] = {}
        <4>1. DropsTransfers(e, DOMAIN transfers[e])
          BY <2>6, RemoveMeans DEF cleanup_session, SessionShape
        <4> QED
          BY <2>6, <4>1 DEF cleanup_session, DropsTransfers, SessionShape, TablesOK
      <3> QED
        BY <2>1, <3>1, <3>2 DEF SessionLives, Running
    <2>7. CASE drop_session(e)
      BY <2>1, <2>7 DEF drop_session, drop_receivers, registry, locals, runtime, SessionLives, Running
    <2> QED
      BY <1>2, <2>2, <2>3, <2>4, <2>5, <2>6, <2>7 DEF Acts, Works, EndOfSession
  <1> QED
    BY <1>1, <1>2, SessionActs

-----------------------------------------------------------------------------
(* One Result for each CONNECT. *)

(* OneResult holds because an id that has not been handed out is not       *)
(* answered, a pending one belongs to one session, and the handler that    *)
(* goes on to fail a request still has it.                                 *)
ResultsInv ==
    /\ OneResult
    /\ \A c \in ConnectIds : c >= next_native_connect => results[c] = 0
    /\ \A e, f \in Endpoints : \A c \in pending_connects[e] \intersect pending_connects[f] : e = f
    /\ \A e \in Endpoints : \A c \in pending_connects[e] : c < next_native_connect
    /\ \A e \in Endpoints : step[e].at = "fail" => step[e].id \in pending_connects[e]

(* What a step does to the requests of a session and to their answers. *)
Settled(e, c) ==
    /\ c \in pending_connects[e]
    /\ pending_connects'[e] = pending_connects[e] \ {c}
    /\ results'[c] = results[c] + 1
    /\ \A d \in ConnectIds : d # c => results'[d] = results[d]
Requested(e) ==
    /\ next_native_connect' = next_native_connect + 1
    /\ \/ /\ pending_connects'[e] = pending_connects[e] \union {next_native_connect}
          /\ results' = results
          /\ next_native_connect \in DOMAIN native_pending'
          /\ native_pending'[next_native_connect].connector_endpoint = e
       \/ /\ pending_connects'[e] = pending_connects[e]
          /\ \A d \in ConnectIds : d # next_native_connect => results'[d] = results[d]
          /\ next_native_connect \in ConnectIds =>
                 results'[next_native_connect] = results[next_native_connect] + 1
Unsettled(e) ==
    /\ pending_connects'[e] \in {pending_connects[e], {}}
    /\ results' = results
Accounts(e) == (\E c \in ConnectIds : Settled(e, c)) \/ Requested(e) \/ Unsettled(e)
FailsItsOwn(e) == step'[e].at = "fail" => step'[e].id \in pending_connects'[e]

LEMMA FailAccounts ==
    ASSUME SessionShape, NEW e \in Endpoints, NEW c \in pending_connects[e],
           fail_channel_connect(e, c)
    PROVE  Accounts(e)
  <1>1. c \in ConnectIds
    BY DEF SessionShape, TablesOK
  <1> QED
    BY <1>1, TakePendingOK, AnswerOK DEF fail_channel_connect, Accounts, Settled

LEMMA QuietAccounts ==
    ASSUME NEW e, UNCHANGED <<pending_connects, results>>
    PROVE  Accounts(e)
  BY DEF Accounts, Unsettled

LEMMA WorkAccounts ==
    ASSUME FabricInv, SessionShape, ResultsInv, NEW e \in Endpoints, HandleEvent(e)
    PROVE  Accounts(e) /\ FailsItsOwn(e)
  <1> DEFINE v == EventOf(e)
  <1>0. LanesTypeOK /\ HandsOK
    BY DEF FabricInv, TypeOK, SessionShape
  <1>1. ASSUME NEW s \in StepType, Then(e, s), s.at # "fail" PROVE FailsItsOwn(e)
    BY <1>1, StepMeans DEF FailsItsOwn
  <1>2. CASE finish_event(e)
    BY <1>1, <1>2, StepValues, QuietAccounts DEF finish_event, runtime
  <1>3. CASE on_incoming_connect(e)
    <2>1. v.id \in Nat
      BY <1>0, <1>3, EventInHand DEF on_incoming_connect
    <2> QED
      BY <1>1, <1>3, <2>1, StepValues, QuietAccounts DEF on_incoming_connect
  <1>4. CASE do_cancel(e)
    BY <1>1, <1>4, StepValues, QuietAccounts DEF do_cancel, runtime
  <1>5. CASE on_connect_prepared(e)
    <2>1. v.id \in Nat
      BY <1>0, <1>5, EventInHand DEF on_connect_prepared
    <2>2. CASE /\ v.id \in pending_connects[e] /\ Then(e, Step("fail", v.id, 0, 0))
               /\ UNCHANGED <<pending_connects, results>>
      BY <2>1, <2>2, StepMeans, StepValues, QuietAccounts DEF FailsItsOwn
    <2>3. ASSUME NEW limit \in Sizes, v.id \in pending_connects[e], take_channel_pending(e, v.id),
                 Answer(v.id), Then(e, Step("publish", v.id, next_channel_handle[e], limit))
          PROVE  Accounts(e) /\ FailsItsOwn(e)
      <3>1. limit \in Nat /\ next_channel_handle[e] \in Nat /\ v.id \in ConnectIds
        BY <2>3, FabricAssumption DEF SessionShape, TablesOK
      <3>2. FailsItsOwn(e)
        BY <1>1, <2>1, <2>3, <3>1, StepValues
      <3> QED
        BY <2>3, <3>1, <3>2, TakePendingOK, AnswerOK DEF Accounts, Settled
    <2>4. CASE Then(e, Finish) /\ (UNCHANGED <<pending_connects, results>>
                                     \/ (v.id \in pending_connects[e] /\ fail_channel_connect(e, v.id)))
      BY <1>1, <2>4, StepValues, QuietAccounts, FailAccounts
    <2> QED
      BY <1>5, <2>2, <2>3, <2>4 DEF on_connect_prepared
  <1>6. CASE do_fail(e)
    BY <1>1, <1>6, StepValues, FailAccounts DEF do_fail, ResultsInv
  <1>7. CASE do_publish(e)
    <2>1. step[e].handle \in Nat
      BY DEF SessionShape, StepsOK, StepType
    <2> QED
      BY <1>1, <1>7, <2>1, StepValues, QuietAccounts DEF do_publish, runtime
  <1>8. CASE do_reset(e)
    <2>1. After(e) = Idle \/ After(e) = Finish
      BY AfterOK
    <2>2. Then(e, After(e)) /\ UNCHANGED <<pending_connects, results>>
      BY <1>8 DEF do_reset
    <2>3. /\ Idle \in StepType /\ Finish \in StepType /\ Idle.at # "fail" /\ Finish.at # "fail"
      BY StepValues
    <2> QED
      BY <1>1, <2>1, <2>2, <2>3, QuietAccounts
  <1>9. CASE on_connect_committed(e)
    BY <1>1, <1>9, StepValues, QuietAccounts DEF on_connect_committed
  <1>10. CASE on_connect_aborted(e)
    BY <1>1, <1>10, StepValues, QuietAccounts, FailAccounts DEF on_connect_aborted
  <1>11. CASE lost_transfer(e)
    <2>1. FailsItsOwn(e)
      BY <1>11 DEF lost_transfer, FailsItsOwn, ResultsInv, runtime
    <2> QED
      BY <1>11, <2>1, QuietAccounts DEF lost_transfer, runtime
  <1>12. CASE on_message(e) \/ on_credit(e) \/ on_close(e) \/ on_reset(e)
    <2>1. v.handle \in Nat
      BY <1>0, <1>12, EventInHand DEF on_message, on_credit, on_close, on_reset
    <2> QED
      BY <1>1, <1>12, <2>1, StepValues, QuietAccounts DEF on_message, on_credit, on_close, on_reset
  <1> QED
    BY <1>2, <1>3, <1>4, <1>5, <1>6, <1>7, <1>8, <1>9, <1>10, <1>11, <1>12 DEF HandleEvent

LEMMA ClientAccounts ==
    ASSUME FabricInv, SessionShape, SessionLives, ResultsInv, NEW e \in Endpoints,
           \/ open_session(e) \/ take_event(e) \/ take_terminal(e) \/ Requests(e)
           \/ TransferFrames(e) \/ EndOfSession(e)
    PROVE  Accounts(e) /\ FailsItsOwn(e)
  <1>1. ASSUME UNCHANGED <<pending_connects, step>> PROVE FailsItsOwn(e)
    BY <1>1 DEF FailsItsOwn, ResultsInv
  <1>2. ASSUME NEW s \in StepType, Then(e, s), s.at # "fail" PROVE FailsItsOwn(e)
    BY <1>2, StepMeans DEF FailsItsOwn
  <1>3. ASSUME step[e] = Idle, UNCHANGED step PROVE FailsItsOwn(e)
    BY <1>3, StepValues DEF FailsItsOwn
  <1>4. CASE open_session(e)
    BY <1>1, <1>4, QuietAccounts DEF open_session, runtime
  <1>5. CASE take_event(e) \/ take_terminal(e) \/ drop_session(e)
    BY <1>1, <1>5, QuietAccounts DEF take_event, take_terminal, drop_session, locals, runtime
  <1>6. ASSUME NEW n \in Names, channel_listen(e, n) PROVE Accounts(e) /\ FailsItsOwn(e)
    BY <1>1, <1>6, QuietAccounts DEF channel_listen
  <1>7. ASSUME NEW l \in ListenerHandles, channel_close_listener(e, l)
        PROVE  Accounts(e) /\ FailsItsOwn(e)
    BY <1>1, <1>7, QuietAccounts DEF channel_close_listener
  <1>8. ASSUME NEW l \in ListenerHandles, NEW n \in Sizes, channel_connect(e, l, n)
        PROVE  Accounts(e) /\ FailsItsOwn(e)
    <2>1. FailsItsOwn(e)
      BY <1>3, <1>8 DEF channel_connect, Listening
    <2>2. Requested(e)
      BY <1>8, AnswerOK
      DEF channel_connect, native_begin_connect, native_begin_connect_backpressured, Requested,
          SessionShape, TablesOK, Put
    <2> QED
      BY <2>1, <2>2 DEF Accounts
  <1>9. ASSUME NEW c \in ConnectIds, cancel_request(e, c) PROVE Accounts(e) /\ FailsItsOwn(e)
    BY <1>3, <1>9, FailAccounts DEF cancel_request, Listening
  <1>10. CASE Requests(e)
    BY <1>6, <1>7, <1>8, <1>9, <1>10 DEF Requests
  <1>11. CASE TransferFrames(e)
    <2>1. UNCHANGED <<pending_connects, results>>
      BY <1>11 DEF TransferFrames, transfer_credit, transfer_message, transfer_close, transfer_reset
    <2>2. UNCHANGED step \/ \E h \in ChannelHandles : Then(e, Step("reset", 0, h, 0))
      BY <1>11
      DEF TransferFrames, transfer_credit, transfer_message, transfer_close, transfer_reset, Reject
    <2> QED
      BY <1>1, <1>2, <2>1, <2>2, QuietAccounts, StepValues, HandlesAreNumbers
  <1>12. CASE stop_session(e)
    BY <1>2, <1>12, StepValues, QuietAccounts DEF stop_session, runtime
  <1>13. CASE cleanup_session(e)
    <2>1. step[e] = Idle
      BY <1>13 DEF cleanup_session, SessionLives, Running
    <2> QED
      BY <1>3, <1>13, <2>1 DEF cleanup_session, Accounts, Unsettled, SessionShape, TablesOK
  <1> QED
    BY <1>4, <1>5, <1>10, <1>11, <1>12, <1>13 DEF EndOfSession

LEMMA ResultsStep ==
    ASSUME FabricInv, FabricInv', SessionShape, SessionShape', SessionLives, ResultsInv,
           [SessionNext]_vars
    PROVE  ResultsInv'
  <1>0. /\ results \in [ConnectIds -> Nat] /\ pending_connects \in [Endpoints -> SUBSET ConnectIds]
        /\ results' \in [ConnectIds -> Nat] /\ pending_connects' \in [Endpoints -> SUBSET ConnectIds]
        /\ next_native_connect \in Nat /\ next_native_connect' \in Nat
        /\ next_native_connect <= next_native_connect' /\ ConnectIds \subseteq Nat
    <2>1. LinksTypeOK /\ LinkSymmetry /\ [Next]_fabric
      BY SessionCalls DEF FabricInv, TypeOK
    <2>2. next_native_connect' \in Nat /\ next_native_connect <= next_native_connect'
      BY <2>1, NextConnectGrows
    <2> QED
      BY <2>1, <2>2, FabricAssumption DEF SessionShape, TablesOK, LinksTypeOK, ConnectIds
  <1>00. \A f \in Endpoints : pending_connects[f] \subseteq Nat /\ pending_connects'[f] \subseteq Nat
    BY <1>0
  <1>1. CASE shutdown_fabric \/ UNCHANGED vars
    BY <1>1 DEF shutdown_fabric, begin_shutdown, vars, locals, runtime, fabric, ResultsInv, OneResult
  <1>2. ASSUME NEW e \in Endpoints, Acts(e) PROVE ResultsInv'
    <2>1. OthersKeep(e)
      BY <1>2, OthersStay
    <2>2. Accounts(e) /\ FailsItsOwn(e)
      BY <1>2, WorkAccounts, ClientAccounts DEF Acts
    <2>3. \A f \in Endpoints : step'[f].at = "fail" => step'[f].id \in pending_connects'[f]
      BY <2>1, <2>2 DEF OthersKeep, FailsItsOwn, ResultsInv
    <2>4. ASSUME NEW c \in ConnectIds, Settled(e, c) PROVE ResultsInv'
      <3>1. \A f \in Endpoints : pending_connects'[f] \subseteq pending_connects[f]
        BY <2>1, <2>4 DEF OthersKeep, Settled
      <3>2. \A f \in Endpoints : c \notin pending_connects'[f]
        BY <2>1, <2>4 DEF OthersKeep, Settled, ResultsInv
      <3>3. results[c] = 0 /\ results'[c] = 1 /\ c < next_native_connect
        BY <1>0, <2>4 DEF Settled, ResultsInv, OneResult
      <3>4. OneResult'
        BY <1>0, <2>4, <3>1, <3>2, <3>3 DEF Settled, ResultsInv, OneResult
      <3>5. \A d \in ConnectIds : d >= next_native_connect' => results'[d] = 0
        BY <1>0, <2>4, <3>3 DEF Settled, ResultsInv
      <3>6. \A f \in Endpoints : \A d \in pending_connects'[f] : d < next_native_connect'
        BY <1>0, <1>00, <3>1 DEF ResultsInv
      <3>7. \A f, g \in Endpoints :
                \A d \in pending_connects'[f] \intersect pending_connects'[g] : f = g
        BY <3>1 DEF ResultsInv
      <3> QED
        BY <2>3, <3>4, <3>5, <3>6, <3>7 DEF ResultsInv
    <2>5. CASE Requested(e)
      <3> DEFINE n == next_native_connect
      <3>1. \A f \in Endpoints : pending_connects'[f] \subseteq pending_connects[f] \union {n}
        BY <2>1, <2>5 DEF OthersKeep, Requested
      <3>2. \A f \in Endpoints : n \in pending_connects'[f] => f = e /\ results' = results
        BY <1>0, <2>1, <2>5 DEF OthersKeep, Requested, ResultsInv
      <3>3. n \in ConnectIds => results[n] = 0
        BY <1>0 DEF ResultsInv
      <3>4. \A f \in Endpoints : n \notin pending_connects[f]
        BY <1>0 DEF ResultsInv
      <3>5. OneResult'
        <4>1. \A d \in ConnectIds : results'[d] <= 1
          BY <1>0, <2>5, <3>3 DEF Requested, ResultsInv, OneResult
        <4>2. ASSUME NEW f \in Endpoints, NEW d \in pending_connects'[f] PROVE results'[d] = 0
          <5>1. CASE d = n
            BY <1>0, <3>2, <3>3, <4>2, <5>1
          <5>2. CASE d # n
            BY <1>0, <2>5, <3>1, <4>2, <5>2 DEF Requested, ResultsInv, OneResult
          <5> QED
            BY <5>1, <5>2
        <4> QED
          BY <4>1, <4>2 DEF OneResult
      <3>6. \A d \in ConnectIds : d >= next_native_connect' => results'[d] = 0
        BY <1>0, <2>5 DEF Requested, ResultsInv
      <3>7. \A f \in Endpoints : \A d \in pending_connects'[f] : d < next_native_connect'
        BY <1>0, <2>5, <3>1 DEF Requested, ResultsInv
      <3>8. \A f, g \in Endpoints :
                \A d \in pending_connects'[f] \intersect pending_connects'[g] : f = g
        BY <3>1, <3>2 DEF ResultsInv
      <3> QED
        BY <2>3, <3>5, <3>6, <3>7, <3>8 DEF ResultsInv
    <2>6. CASE Unsettled(e)
      <3>1. \A f \in Endpoints : pending_connects'[f] \subseteq pending_connects[f]
        BY <2>1, <2>6 DEF OthersKeep, Unsettled
      <3>2. OneResult'
        BY <1>0, <2>6, <3>1 DEF Unsettled, ResultsInv, OneResult
      <3>3. \A d \in ConnectIds : d >= next_native_connect' => results'[d] = 0
        BY <1>0, <2>6 DEF Unsettled, ResultsInv
      <3>4. \A f \in Endpoints : \A d \in pending_connects'[f] : d < next_native_connect'
        BY <1>0, <1>00, <3>1 DEF ResultsInv
      <3>5. \A f, g \in Endpoints :
                \A d \in pending_connects'[f] \intersect pending_connects'[g] : f = g
        BY <3>1 DEF ResultsInv
      <3> QED
        BY <2>3, <3>2, <3>3, <3>4, <3>5 DEF ResultsInv
    <2> QED
      BY <2>2, <2>4, <2>5, <2>6 DEF Accounts
  <1> QED
    BY <1>1, <1>2, SessionActs

-----------------------------------------------------------------------------
(* What a session has not handled yet stays until it handles it. *)

InQueue(e) == {events[e][i] : i \in DOMAIN events[e]}
Unhandled(e) ==
    InQueue(e) \union terminal_events[e] \union (IF step[e] = Idle THEN in_hand[e] ELSE {})
Handles(e, v) == in_hand[e] = {v} /\ step[e] = Idle /\ step'[e] # Idle

Growing(f) ==
    /\ in_hand'[f] = in_hand[f]
    /\ InQueue(f) \subseteq InQueue(f)'
    /\ terminal_events[f] \subseteq terminal_events'[f]
AllGrow == \A f \in Endpoints : Growing(f)

LEMMA SendGrows ==
    ASSUME LanesTypeOK, NEW x \in Endpoints, NEW v, Send(x, v), UNCHANGED <<terminal_events, in_hand>>
    PROVE  AllGrow
  <1>1. ASSUME NEW f \in Endpoints PROVE Growing(f)
    <2>1. events[f] \in Seq(EventType) /\ events'[f] \in {events[f], Append(events[f], v)}
      BY DEF LanesTypeOK, Send
    <2>2. \A i \in DOMAIN events[f] : i \in DOMAIN events'[f] /\ events'[f][i] = events[f][i]
      <3>1. CASE events'[f] = events[f]
        BY <3>1
      <3>2. CASE events'[f] = Append(events[f], v)
        BY <2>1, <3>2
      <3> QED
        BY <2>1, <3>1, <3>2
    <2> QED
      BY <2>2 DEF Growing, InQueue
  <1> QED
    BY <1>1 DEF AllGrow

LEMMA SameGrows ==
    ASSUME UNCHANGED <<events, in_hand>>,
           \A f \in Endpoints : terminal_events[f] \subseteq terminal_events'[f]
    PROVE  AllGrow
  BY DEF AllGrow, Growing, InQueue

LEMMA CancelGrows ==
    ASSUME FabricInv, NEW e \in Endpoints, NEW c, cancel_channel_connect(e, c)
    PROVE  AllGrow
  BY SameGrows DEF cancel_channel_connect, native_cancel_connect, fabric, lanes
LEMMA ResetGrows ==
    ASSUME FabricInv, NEW e \in Endpoints, NEW h, reset_if_linked(e, h)
    PROVE  AllGrow
  BY SameGrows DEF reset_if_linked, native_reset, fabric, lanes
LEMMA QuietGrows ==
    ASSUME UNCHANGED lanes
    PROVE  AllGrow
  BY SameGrows DEF lanes

(* The endpoints that native_begin_connect and the rest send to. *)
LEMMA PendingInEndpoints ==
    ASSUME FabricInv, NEW c \in DOMAIN native_pending
    PROVE  /\ native_pending[c].connector_endpoint \in Endpoints
           /\ native_pending[c].listener_endpoint \in Endpoints
  BY DEF FabricInv, TypeOK, LinksTypeOK, NativePendingConnect
LEMMA PeerInEndpoints ==
    ASSUME FabricInv, NEW k \in DOMAIN native_links
    PROVE  native_links[k].peer_endpoint \in Endpoints
  BY DEF FabricInv, TypeOK, LinksTypeOK, NativeLinkEnd

(* Every action of a session that neither takes nor drops an event. *)
Calls(e) ==
    \/ on_incoming_connect(e) \/ do_cancel(e) \/ on_connect_prepared(e) \/ do_fail(e)
    \/ do_publish(e) \/ do_reset(e) \/ on_connect_committed(e) \/ on_connect_aborted(e)
    \/ on_message(e) \/ on_credit(e) \/ on_close(e) \/ on_reset(e)
    \/ Requests(e) \/ TransferFrames(e) \/ cleanup_session(e) \/ open_session(e)

LEMMA CallsGrow ==
    ASSUME FabricInv, SessionShape, NEW e \in Endpoints, Calls(e)
    PROVE  AllGrow
  <1>0. LanesTypeOK
    BY DEF FabricInv, TypeOK
  <1> USE DEF fabric
  <1>1. CASE on_incoming_connect(e)
    BY <1>0, <1>1, QuietGrows, SendGrows, PendingInEndpoints
    DEF on_incoming_connect, native_prepare_connect, PrepareOk
  <1>2. CASE do_cancel(e) \/ do_fail(e) \/ on_connect_aborted(e)
    BY <1>2, CancelGrows, QuietGrows DEF do_cancel, do_fail, on_connect_aborted, fail_channel_connect
  <1>3. CASE on_connect_prepared(e)
    BY <1>3, CancelGrows, QuietGrows
    DEF on_connect_prepared, fail_channel_connect, native_complete_connect
  <1>4. CASE do_publish(e)
    BY <1>0, <1>4, SameGrows, QuietGrows, SendGrows, PeerInEndpoints
    DEF do_publish, native_publish_connect, native_publish_connect_backpressured, PublishOk,
        PublishAdmitted
  <1>5. CASE do_reset(e) \/ on_connect_committed(e)
    BY <1>5, ResetGrows, QuietGrows DEF do_reset, on_connect_committed
  <1>6. CASE on_message(e) \/ on_credit(e) \/ on_close(e) \/ on_reset(e)
    BY <1>6, QuietGrows DEF on_message, on_credit, on_close, on_reset
  <1>7. CASE Requests(e)
    <2>1. ASSUME NEW n \in Names, channel_listen(e, n) PROVE AllGrow
      BY <2>1, QuietGrows DEF channel_listen, native_listen
    <2>2. ASSUME NEW l \in ListenerHandles, channel_close_listener(e, l) PROVE AllGrow
      BY <2>2, SameGrows DEF channel_close_listener, native_close_listener
    <2>3. ASSUME NEW l \in ListenerHandles, NEW n \in Sizes, channel_connect(e, l, n) PROVE AllGrow
      <3>1. listeners[l].endpoint \in Endpoints
        BY <2>3 DEF channel_connect, native_begin_connect, native_begin_connect_backpressured,
                    BeginOk, BeginAdmitted, Live
      <3> QED
        BY <1>0, <2>3, <3>1, QuietGrows, SendGrows
        DEF channel_connect, native_begin_connect, native_begin_connect_backpressured
    <2>4. ASSUME NEW c \in ConnectIds, cancel_request(e, c) PROVE AllGrow
      BY <2>4, CancelGrows DEF cancel_request, fail_channel_connect
    <2> QED
      BY <1>7, <2>1, <2>2, <2>3, <2>4 DEF Requests
  <1>8. CASE TransferFrames(e)
    <2> USE DEF Reject
    <2>1. ASSUME NEW h \in ChannelHandles, NEW n \in Limits, transfer_credit(e, h, n) PROVE AllGrow
      BY <1>0, <2>1, QuietGrows, SendGrows, PeerInEndpoints
      DEF transfer_credit, native_send_credit, RouteOk
    <2>2. ASSUME NEW h \in ChannelHandles, NEW n \in Sizes, transfer_message(e, h, n) PROVE AllGrow
      BY <1>0, <2>2, QuietGrows, SendGrows, PeerInEndpoints
      DEF transfer_message, native_send_message, SendOk, RouteOk
    <2>3. ASSUME NEW h \in ChannelHandles, NEW n \in Limits, transfer_close(e, h, n) PROVE AllGrow
      BY <1>0, <2>3, QuietGrows, SendGrows, PeerInEndpoints
      DEF transfer_close, native_send_close, SendOk, RouteOk
    <2>4. ASSUME NEW h \in ChannelHandles, transfer_reset(e, h) PROVE AllGrow
      BY <2>4, ResetGrows DEF transfer_reset
    <2> QED
      BY <1>8, <2>1, <2>2, <2>3, <2>4 DEF TransferFrames
  <1>9. CASE cleanup_session(e)
    BY <1>9, SameGrows DEF cleanup_session, unregister_native_endpoint
  <1>10. CASE open_session(e)
    BY <1>10, QuietGrows DEF open_session, register_native_endpoint
  <1> QED
    BY <1>1, <1>2, <1>3, <1>4, <1>5, <1>6, <1>7, <1>8, <1>9, <1>10 DEF Calls

(* A handler's own session goes from Idle to something else; anything else *)
(* leaves the event in hand where it is, or has none.                      *)
LEMMA CallsStep ==
    ASSUME FabricInv, SessionShape, SessionLives, NEW e \in Endpoints, Calls(e)
    PROVE  step'[e] = Idle => step[e] = Idle \/ in_hand[e] = {}
  <1> DEFINE v == EventOf(e)
  <1>0. LanesTypeOK /\ HandsOK
    BY DEF FabricInv, TypeOK, SessionShape
  <1>1. ASSUME NEW s \in StepType, Then(e, s), s.at # "idle" PROVE step'[e] # Idle
    BY <1>1, StepMeans, StepValues
  <1>2. CASE do_cancel(e) \/ do_fail(e)
    BY <1>1, <1>2, StepValues DEF do_cancel, do_fail
  <1>3. CASE do_publish(e)
    <2>1. step[e].handle \in Nat
      BY DEF SessionShape, StepsOK, StepType
    <2> QED
      BY <1>1, <1>3, <2>1, StepValues DEF do_publish
  <1>4. CASE do_reset(e)
    <2>1. step'[e] = After(e)
      BY <1>4, StepMeans DEF do_reset
    <2> QED
      BY <2>1, StepValues DEF After
  <1>5. ASSUME NEW kind, Handling(e, kind) PROVE step[e] = Idle
    BY <1>5 DEF Handling
  <1>6. CASE open_session(e) \/ cleanup_session(e)
    BY <1>6 DEF open_session, cleanup_session, SessionLives, Running
  <1>7. CASE TransferFrames(e)
    BY <1>7 DEF TransferFrames, transfer_credit, transfer_message, transfer_close, transfer_reset,
                Listening
  <1>8. CASE Requests(e)
    BY <1>8 DEF Requests, channel_listen, channel_close_listener, channel_connect, cancel_request,
                Listening
  <1> QED
    BY <1>2, <1>3, <1>4, <1>5, <1>6, <1>7, <1>8
    DEF Calls, on_incoming_connect, on_connect_prepared, on_connect_committed, on_connect_aborted,
        on_message, on_credit, on_close, on_reset

LEMMA UnhandledStays ==
    ASSUME FabricInv, SessionShape, SessionLives, [SessionNext]_vars,
           NEW f \in Endpoints, Running(f), Running(f)', NEW v \in Unhandled(f)
    PROVE  v \in Unhandled(f)' \/ Handles(f, v)
  <1>0. LanesTypeOK /\ HandsOK
    BY DEF FabricInv, TypeOK, SessionShape
  <1>h. ASSUME v \in in_hand[f] PROVE in_hand[f] = {v}
    BY <1>0, <1>h DEF HandsOK
  <1>1. CASE Growing(f) /\ (step'[f] = step[f] \/ step[f] = Idle)
    BY <1>1, <1>h DEF Growing, Unhandled, Handles
  <1>2. CASE shutdown_fabric \/ UNCHANGED vars
    <2>1. UNCHANGED lanes /\ UNCHANGED step
      BY <1>2 DEF shutdown_fabric, begin_shutdown, vars, fabric, locals
    <2>2. Growing(f)
      BY <2>1, QuietGrows DEF AllGrow
    <2> QED
      BY <1>1, <2>1, <2>2
  <1>3. ASSUME NEW e \in Endpoints, Acts(e) PROVE v \in Unhandled(f)' \/ Handles(f, v)
    <2>0. OthersKeep(e)
      BY <1>3, OthersStay
    <2>1. CASE Calls(e)
      <3>1. Growing(f)
        BY <2>1, CallsGrow DEF AllGrow
      <3>2. CASE f # e
        BY <1>1, <2>0, <3>1, <3>2 DEF OthersKeep
      <3>3. CASE f = e
        BY <1>h, <2>1, <3>1, <3>3, CallsStep DEF Growing, Unhandled, Handles
      <3> QED
        BY <3>2, <3>3
    <2>2. CASE take_event(e)
      <3>1. recv_event(e) /\ UNCHANGED step /\ step[e] = Idle
        BY <2>2 DEF take_event, Listening, locals
      <3>2. CASE f # e
        BY <1>0, <1>1, <3>1, <3>2 DEF recv_event, Growing, InQueue, LanesTypeOK
      <3>3. CASE f = e
        <4>1. events[e] \in Seq(EventType) /\ events[e] # << >> /\ in_hand[e] = {}
              /\ events'[e] = Tail(events[e]) /\ in_hand'[e] = {Head(events[e])}
              /\ UNCHANGED terminal_events
          BY <1>0, <3>1 DEF recv_event, LanesTypeOK
        <4>2. \A i \in DOMAIN events[e] : events[e][i] = Head(events[e])
                    \/ (i - 1 \in DOMAIN Tail(events[e]) /\ events[e][i] = Tail(events[e])[i - 1])
          BY <4>1
        <4>3. \A w \in InQueue(e) : w \in InQueue(e)' \union in_hand'[e]
          BY <4>1, <4>2 DEF InQueue
        <4> QED
          BY <3>1, <3>3, <4>1, <4>3 DEF Unhandled
      <3> QED
        BY <3>2, <3>3
    <2>3. CASE take_terminal(e)
      <3>1. PICK w \in terminal_events[e] : recv_terminal(e, w)
        BY <2>3 DEF take_terminal
      <3>2. UNCHANGED step /\ step[e] = Idle /\ in_hand[e] = {}
        BY <2>3 DEF take_terminal, Listening, locals
      <3>3. CASE f # e
        BY <1>0, <1>1, <3>1, <3>2, <3>3 DEF recv_terminal, Growing, InQueue, LanesTypeOK
      <3>4. CASE f = e
        BY <1>0, <3>1, <3>2, <3>4 DEF recv_terminal, Unhandled, InQueue, LanesTypeOK
      <3> QED
        BY <3>3, <3>4
    <2>4. CASE finish_event(e)
      <3>1. drop_event(e) /\ step[e] # Idle
        BY <2>4, StepValues DEF finish_event
      <3>2. CASE f # e
        BY <1>0, <1>1, <2>0, <3>1, <3>2 DEF drop_event, Growing, InQueue, LanesTypeOK, OthersKeep
      <3>3. CASE f = e
        BY <1>0, <3>1, <3>3 DEF drop_event, Unhandled, InQueue, LanesTypeOK
      <3> QED
        BY <3>2, <3>3
    <2>5. CASE lost_transfer(e) \/ stop_session(e) \/ drop_session(e)
      <3>1. f # e
        <4>1. CASE lost_transfer(e)
          BY <4>1 DEF lost_transfer, Running, SessionShape, TablesOK
        <4>2. CASE stop_session(e)
          BY <4>2 DEF stop_session, Running, SessionShape, TablesOK
        <4>3. CASE drop_session(e)
          BY <4>3 DEF drop_session, drop_receivers, Running, SessionLives
        <4> QED
          BY <2>5, <4>1, <4>2, <4>3
      <3>2. Growing(f)
        BY <1>0, <2>5, <3>1 DEF lost_transfer, stop_session, drop_session, drop_receivers, drop_event,
                           Growing, InQueue, LanesTypeOK, fabric, lanes
      <3> QED
        BY <1>1, <2>0, <3>1, <3>2 DEF OthersKeep
    <2> QED
      BY <1>3, <2>1, <2>2, <2>3, <2>4, <2>5 DEF Acts, Calls, HandleEvent, EndOfSession
  <1> QED
    BY <1>2, <1>3, SessionActs

-----------------------------------------------------------------------------
(* A pending connect is kept, or both its sides are told of the abort, or  *)
(* its connector has completed it and forgotten the request.               *)
PendingKept(c) ==
    /\ c \in DOMAIN native_pending'
    /\ native_pending'[c].connector_endpoint = native_pending[c].connector_endpoint
    /\ native_pending'[c].listener_endpoint = native_pending[c].listener_endpoint
    /\ native_pending[c].prepared # {} => native_pending'[c].prepared = native_pending[c].prepared
IsAbort(v, c) == v.kind = "ConnectAborted" /\ v.id = c /\ v.handle = 0
AbortTold(c) ==
    /\ c \notin DOMAIN native_pending'
    /\ \E v \in terminal_events'[native_pending[c].connector_endpoint],
          w \in terminal_events'[native_pending[c].listener_endpoint] :
             IsAbort(v, c) /\ IsAbort(w, c) /\ v # w
Completed(e, c) ==
    /\ native_pending[c].connector_endpoint = e
    /\ c \notin pending_connects'[e] /\ c \notin DOMAIN native_pending'
    /\ \A h \in native_pending[c].prepared :
          <<native_pending[c].listener_endpoint, h>> \in DOMAIN native_links'
PendingSafe == \A c \in DOMAIN native_pending : PendingKept(c) \/ AbortTold(c)

LEMMA SafeSame ==
    ASSUME UNCHANGED native_pending
    PROVE  PendingSafe
  BY DEF PendingSafe, PendingKept

LEMMA AbortIsTold ==
    ASSUME FabricInv, NEW C \in SUBSET DOMAIN native_pending, NEW c \in C,
           native_pending' = Without(native_pending, C),
           \A x \in Endpoints : Aborts(C, x) \subseteq terminal_events'[x]
    PROVE  AbortTold(c)
  <1> DEFINE s == connector_side(c)
             r == listener_side(c)
             v == Event("ConnectAborted", c, 0, 0, 0, {s})
             w == Event("ConnectAborted", c, 0, 0, 0, {r})
  <1>1. /\ s.connect_id = c /\ s.endpoint = native_pending[c].connector_endpoint
        /\ r.connect_id = c /\ r.endpoint = native_pending[c].listener_endpoint
        /\ s.role = "connector" /\ r.role = "listener"
    BY DEF connector_side, listener_side
  <1>2. {s.endpoint, r.endpoint} \subseteq Live /\ Live \subseteq Endpoints
    BY <1>1 DEF FabricInv, DeadEndpointClean, Live
  <1>3. v \in Aborts(C, s.endpoint) /\ w \in Aborts(C, r.endpoint)
    <2>1. ASSUME NEW z \in {connector_side(c), listener_side(c)}, z.endpoint \in Live
          PROVE  Event("ConnectAborted", z.connect_id, 0, 0, 0, {z}) \in Aborts(C, z.endpoint)
      <3>1. z \in {y \in UNION {{connector_side(b), listener_side(b)} : b \in C} :
                     y.endpoint = z.endpoint /\ z.endpoint \in Live}
        BY <2>1
      <3> QED
        BY <3>1 DEF Aborts
    <2> QED
      BY <1>1, <1>2, <2>1
  <1>4. IsAbort(v, c) /\ IsAbort(w, c) /\ v.guard = {s} /\ w.guard = {r}
    BY DEF IsAbort, Event
  <1>5. v # w
    BY <1>1, <1>4
  <1>6. v \in terminal_events'[s.endpoint] /\ w \in terminal_events'[r.endpoint]
    BY <1>2, <1>3
  <1> QED
    BY <1>1, <1>4, <1>5, <1>6 DEF AbortTold, Without

LEMMA WithoutSafe ==
    ASSUME FabricInv, NEW C \in SUBSET DOMAIN native_pending,
           native_pending' = Without(native_pending, C),
           \A x \in Endpoints : Aborts(C, x) \subseteq terminal_events'[x]
    PROVE  PendingSafe
  <1>1. ASSUME NEW c \in DOMAIN native_pending PROVE PendingKept(c) \/ AbortTold(c)
    BY AbortIsTold DEF Without, PendingKept
  <1> QED
    BY <1>1 DEF PendingSafe

LEMMA CancelSafe ==
    ASSUME FabricInv, NEW e \in Endpoints, NEW c, cancel_channel_connect(e, c)
    PROVE  PendingSafe
  <1>1. CASE native_cancel_connect(e, c)
    <2>1. {c} \in SUBSET DOMAIN native_pending
      BY <1>1 DEF native_cancel_connect, CancelOk
    <2> QED
      BY <1>1, <2>1, WithoutSafe DEF native_cancel_connect
  <1> QED
    BY <1>1, SafeSame DEF cancel_channel_connect, fabric
LEMMA ResetSafe ==
    ASSUME FabricInv, NEW e \in Endpoints, NEW h, reset_if_linked(e, h)
    PROVE  PendingSafe
  BY SafeSame DEF reset_if_linked, native_reset, fabric

LEMMA ActsPending ==
    ASSUME FabricInv, SessionShape, NEW e \in Endpoints, Acts(e)
    PROVE  PendingSafe \/ \E d \in DOMAIN native_pending :
               /\ Completed(e, d)
               /\ \A c \in DOMAIN native_pending \ {d} : PendingKept(c)
  <1> USE DEF fabric
  <1>1. CASE on_incoming_connect(e)
    <2>1. ASSUME NEW c, NEW h, NEW n, native_prepare_connect(e, c, h, n, n) PROVE PendingSafe
      BY <2>1 DEF native_prepare_connect, PrepareOk, PendingSafe, PendingKept, FabricInv, TypeOK,
                  LinksTypeOK, NativePendingConnect
    <2> QED
      BY <1>1, <2>1, SafeSame DEF on_incoming_connect
  <1>2. CASE do_cancel(e) \/ do_fail(e) \/ on_connect_aborted(e)
    BY <1>2, CancelSafe, SafeSame DEF do_cancel, do_fail, on_connect_aborted, fail_channel_connect
  <1>3. CASE on_connect_prepared(e)
    <2> DEFINE d == EventOf(e).id
               h == next_channel_handle[e]
    <2>1. ASSUME NEW m, native_complete_connect(e, d, h, m), take_channel_pending(e, d)
          PROVE  /\ d \in DOMAIN native_pending /\ Completed(e, d)
                 /\ \A c \in DOMAIN native_pending \ {d} : PendingKept(c)
      <3>1. d \in DOMAIN native_pending /\ native_pending[d].connector_endpoint = e
        BY <2>1 DEF native_complete_connect, CompleteOk
      <3>2. \A c \in DOMAIN native_pending \ {d} : PendingKept(c)
        BY <2>1 DEF native_complete_connect, Without, PendingKept
      <3>3. d \notin pending_connects'[e]
        BY <2>1, TakePendingOK
      <3>0. d \notin DOMAIN native_pending'
        BY <2>1 DEF native_complete_connect, Without
      <3>4. PICK x \in native_pending[d].prepared :
                <<native_pending[d].listener_endpoint, x>> \in DOMAIN native_links'
        BY <2>1 DEF native_complete_connect, Put
      <3>5. native_pending[d].prepared = {x}
        BY <3>1, <3>4 DEF FabricInv, TypeOK, LinksTypeOK, NativePendingConnect
      <3> QED
        BY <3>0, <3>1, <3>2, <3>3, <3>4, <3>5 DEF Completed
    <2> QED
      BY <1>3, <2>1, CancelSafe, SafeSame DEF on_connect_prepared, fail_channel_connect
  <1>4. CASE do_publish(e)
    BY <1>4, SafeSame
    DEF do_publish, native_publish_connect, native_publish_connect_backpressured
  <1>5. CASE do_reset(e) \/ on_connect_committed(e)
    BY <1>5, ResetSafe, SafeSame DEF do_reset, on_connect_committed
  <1>6. CASE on_message(e) \/ on_credit(e) \/ on_close(e) \/ on_reset(e)
    BY <1>6, SafeSame DEF on_message, on_credit, on_close, on_reset
  <1>7. CASE Requests(e)
    <2>1. ASSUME NEW n \in Names, channel_listen(e, n) PROVE PendingSafe
      BY <2>1, SafeSame DEF channel_listen, native_listen
    <2>2. ASSUME NEW l \in ListenerHandles, channel_close_listener(e, l) PROVE PendingSafe
      <3> DEFINE C == {c \in DOMAIN native_pending : native_pending[c].listener_handle = l}
      <3>1. C \in SUBSET DOMAIN native_pending
        OBVIOUS
      <3> QED
        BY <2>2, <3>1, WithoutSafe DEF channel_close_listener, native_close_listener
    <2>3. ASSUME NEW l \in ListenerHandles, NEW n \in Sizes, channel_connect(e, l, n)
          PROVE  PendingSafe
      <3>1. CASE native_begin_connect(e, l, l, n)
        <4>1. next_native_connect \notin DOMAIN native_pending
          BY DEF FabricInv, OneStage, TypeOK, LinksTypeOK, ConnectIds
        <4> QED
          BY <3>1, <4>1 DEF native_begin_connect, Put, PendingSafe, PendingKept
      <3> QED
        BY <2>3, <3>1, SafeSame DEF channel_connect, native_begin_connect_backpressured
    <2>4. ASSUME NEW c \in ConnectIds, cancel_request(e, c) PROVE PendingSafe
      BY <2>4, CancelSafe DEF cancel_request, fail_channel_connect
    <2> QED
      BY <1>7, <2>1, <2>2, <2>3, <2>4 DEF Requests
  <1>8. CASE TransferFrames(e)
    BY <1>8, SafeSame, ResetSafe
    DEF TransferFrames, transfer_credit, transfer_message, transfer_close, transfer_reset, Reject,
        native_send_credit, native_send_message, native_send_close
  <1>9. CASE cleanup_session(e)
    <2>1. ConnectsOf(e) \in SUBSET DOMAIN native_pending
      BY DEF ConnectsOf
    <2>2. /\ native_pending' = Without(native_pending, ConnectsOf(e))
          /\ \A x \in Endpoints : Aborts(ConnectsOf(e), x) \subseteq terminal_events'[x]
      BY <1>9 DEF cleanup_session, unregister_native_endpoint
    <2> QED
      BY <2>1, <2>2, WithoutSafe
  <1>10. CASE open_session(e)
    BY <1>10, SafeSame DEF open_session, register_native_endpoint
  <1>11. CASE take_event(e) \/ take_terminal(e) \/ drop_session(e)
    BY <1>11, SafeSame
    DEF take_event, take_terminal, drop_session, recv_event, recv_terminal, drop_receivers
  <1>12. CASE finish_event(e) \/ lost_transfer(e) \/ stop_session(e)
    BY <1>12, SafeSame DEF finish_event, lost_transfer, stop_session, drop_event
  <1> QED
    BY <1>1, <1>2, <1>3, <1>4, <1>5, <1>6, <1>7, <1>8, <1>9, <1>10, <1>11, <1>12
    DEF Acts, HandleEvent, EndOfSession

(* The provisional accepts a step leaves are old, or the one it prepares. *)
ProvisionalFor(f, h, c) == h \in DOMAIN transfers[f] /\ c \in transfers[f][h].provisional
Prepares(f, h, c) ==
    /\ c \in DOMAIN native_pending /\ c \in DOMAIN native_pending'
    /\ native_pending'[c].prepared = {h} /\ native_pending'[c].listener_endpoint = f

LEMMA SetsProvisional ==
    ASSUME SessionShape, NEW e \in Endpoints, NEW h, NEW t, SetTransfer(e, h, t),
           NEW f \in Endpoints, NEW g, NEW c, ProvisionalFor(f, g, c)'
    PROVE  ProvisionalFor(f, g, c) \/ (f = e /\ g = h /\ c \in t.provisional)
  <1>1. SetsTransfer(e, h, t)
    BY SetTransferMeans DEF SessionShape
  <1>2. CASE f # e
    BY <1>1, <1>2 DEF SetsTransfer, ProvisionalFor
  <1>3. CASE f = e
    BY <1>1, <1>3 DEF SetsTransfer, ProvisionalFor
  <1> QED
    BY <1>2, <1>3
LEMMA DropsProvisional ==
    ASSUME SessionShape, NEW e \in Endpoints, NEW H, remove_channel_transfer(e, H),
           NEW f \in Endpoints, NEW g, NEW c, ProvisionalFor(f, g, c)'
    PROVE  ProvisionalFor(f, g, c)
  <1>1. DropsTransfers(e, H)
    BY RemoveMeans DEF SessionShape
  <1>2. CASE f # e
    BY <1>1, <1>2 DEF DropsTransfers, ProvisionalFor
  <1>3. CASE f = e
    BY <1>1, <1>3 DEF DropsTransfers, ProvisionalFor
  <1> QED
    BY <1>2, <1>3
LEMMA UpdateProvisional ==
    ASSUME SessionShape, NEW e \in Endpoints, NEW h \in DOMAIN transfers[e], NEW t,
           SetTransfer(e, h, t), t.provisional \subseteq transfers[e][h].provisional,
           NEW f \in Endpoints, NEW g, NEW c, ProvisionalFor(f, g, c)'
    PROVE  ProvisionalFor(f, g, c)
  BY SetsProvisional DEF ProvisionalFor

LEMMA ProvisionalFrom ==
    ASSUME FabricInv, SessionShape, NEW e \in Endpoints, Acts(e),
           NEW f \in Endpoints, NEW h, NEW c, ProvisionalFor(f, h, c)'
    PROVE  ProvisionalFor(f, h, c) \/ Prepares(f, h, c)
  <1>0. ASSUME UNCHANGED transfers PROVE ProvisionalFor(f, h, c)
    BY <1>0 DEF ProvisionalFor
  <1>1. CASE on_incoming_connect(e)
    <2> DEFINE v == EventOf(e)
               n == next_channel_handle[e]
    <2>1. ASSUME NEW m, native_prepare_connect(e, v.id, n, m, m),
                 SetTransfer(e, n, Transfer({v.id}, v.handle, m, 0, m))
          PROVE  ProvisionalFor(f, h, c) \/ Prepares(f, h, c)
      <3>1. Prepares(e, n, v.id)
        BY <2>1 DEF native_prepare_connect, PrepareOk, Prepares, FabricInv, TypeOK, LinksTypeOK,
                    NativePendingConnect
      <3>2. Transfer({v.id}, v.handle, m, 0, m).provisional = {v.id}
        BY DEF Transfer
      <3> QED
        BY <2>1, <3>1, <3>2, SetsProvisional
    <2> QED
      BY <1>0, <1>1, <2>1 DEF on_incoming_connect
  <1>2. CASE \/ do_cancel(e) \/ do_fail(e) \/ do_publish(e) \/ finish_event(e) \/ lost_transfer(e)
             \/ take_event(e) \/ take_terminal(e) \/ open_session(e) \/ stop_session(e)
             \/ drop_session(e)
    BY <1>0, <1>2
    DEF do_cancel, do_fail, do_publish, finish_event, lost_transfer, take_event, take_terminal,
        open_session, stop_session, drop_session, locals, runtime
  <1>3. CASE do_reset(e) \/ on_connect_aborted(e) \/ on_reset(e) \/ cleanup_session(e)
    BY <1>0, <1>3, DropsProvisional DEF do_reset, on_connect_aborted, on_reset, cleanup_session
  <1>4. CASE on_connect_prepared(e)
    <2>1. \A n, x : Transfer({}, 0, 0, n, x).provisional = {}
      BY DEF Transfer
    <2> QED
      BY <1>0, <1>4, <2>1, SetsProvisional DEF on_connect_prepared
  <1>5. ASSUME NEW x \in DOMAIN transfers[e]
        PROVE  transfers[e][x] \in TransferType
    BY <1>5, TransferHere
  <1>6. CASE on_connect_committed(e)
    <2>1. ASSUME NEW x \in Provisional(e, EventOf(e).id), NEW granted,
                 SetTransfer(e, x, [transfers[e][x] EXCEPT !.provisional = {}, !.max = EventOf(e).max,
                                                           !.receive_limit = granted])
          PROVE  ProvisionalFor(f, h, c)
      <3>1. x \in DOMAIN transfers[e]
        BY DEF Provisional
      <3>2. [transfers[e][x] EXCEPT !.provisional = {}, !.max = EventOf(e).max,
                                    !.receive_limit = granted].provisional = {}
        BY <1>5, <3>1 DEF TransferType
      <3> QED
        BY <2>1, <3>1, <3>2, UpdateProvisional
    <2> QED
      BY <1>0, <1>6, <2>1, DropsProvisional DEF on_connect_committed
  <1>7. CASE on_message(e) \/ on_credit(e) \/ on_close(e)
    <2> DEFINE x == EventOf(e).handle
               t == transfers[e][x]
    <2>1. x \in DOMAIN transfers[e] /\ t \in TransferType
      BY <1>5, <1>7 DEF on_message, on_credit, on_close
    <2>2. \A n : /\ [t EXCEPT !.sent = n].provisional = t.provisional
                 /\ [t EXCEPT !.receive_limit = n].provisional = t.provisional
                 /\ [t EXCEPT !.output_closed = n].provisional = t.provisional
      BY <2>1 DEF TransferType
    <2>3. CASE on_message(e)
      BY <1>0, <2>1, <2>2, <2>3, UpdateProvisional DEF on_message
    <2>4. CASE on_credit(e)
      BY <1>0, <2>1, <2>2, <2>4, UpdateProvisional DEF on_credit
    <2>5. CASE on_close(e)
      BY <1>0, <2>1, <2>2, <2>5, UpdateProvisional, DropsProvisional DEF on_close
    <2> QED
      BY <1>7, <2>3, <2>4, <2>5
  <1>8. CASE Requests(e)
    BY <1>0, <1>8, DropsProvisional
    DEF Requests, channel_listen, channel_close_listener, channel_connect, cancel_request
  <1>9. CASE TransferFrames(e)
    <2>1. ASSUME NEW x \in DOMAIN transfers[e]
          PROVE  LET t == transfers[e][x] IN
                 \A m, n : /\ [t EXCEPT !.received = n].provisional = t.provisional
                           /\ [t EXCEPT !.asked = m, !.flow = n].provisional = t.provisional
                           /\ [t EXCEPT !.input_closed = n].provisional = t.provisional
      BY <1>5, <2>1 DEF TransferType
    <2>2. ASSUME NEW x \in ChannelHandles, NEW n \in Limits, transfer_credit(e, x, n)
          PROVE  ProvisionalFor(f, h, c)
      <3>1. x \in DOMAIN transfers[e]
        BY <2>2 DEF transfer_credit, Announced
      <3>2. UNCHANGED transfers \/ \E flow : SetTransfer(e, x, [transfers[e][x] EXCEPT !.asked = n,
                                                                                   !.flow = flow])
        BY <2>2 DEF transfer_credit
      <3> QED
        BY <1>0, <2>1, <3>1, <3>2, UpdateProvisional
    <2>3. ASSUME NEW x \in ChannelHandles, NEW n \in Sizes, transfer_message(e, x, n)
          PROVE  ProvisionalFor(f, h, c)
      BY <1>0, <2>1, <2>3, UpdateProvisional DEF transfer_message, Announced
    <2>4. ASSUME NEW x \in ChannelHandles, NEW n \in Limits, transfer_close(e, x, n)
          PROVE  ProvisionalFor(f, h, c)
      BY <1>0, <2>1, <2>4, UpdateProvisional, DropsProvisional DEF transfer_close, Announced
    <2>5. ASSUME NEW x \in ChannelHandles, transfer_reset(e, x) PROVE ProvisionalFor(f, h, c)
      BY <2>5, DropsProvisional DEF transfer_reset
    <2> QED
      BY <1>9, <2>2, <2>3, <2>4, <2>5 DEF TransferFrames
  <1> QED
    BY <1>1, <1>2, <1>3, <1>4, <1>6, <1>7, <1>8, <1>9 DEF Acts, HandleEvent, EndOfSession

-----------------------------------------------------------------------------
(* Every waiting CONNECT will be settled. *)

AbortOf(e, c) == {v \in Unhandled(e) : IsAbort(v, c)}

(* The fabric holds a request for the session that made it and a           *)
(* provisional accept for the one that prepared it; when a loopback has    *)
(* both, two aborts are on the way, because the first settles the request. *)
RequestsAreOwned ==
    \A e \in Endpoints : \A c \in pending_connects[e] :
        c \in DOMAIN native_pending => native_pending[c].connector_endpoint = e
AcceptsAreOwned ==
    \A e \in Endpoints : \A h, c : ProvisionalFor(e, h, c) =>
        /\ c < next_native_connect
        /\ c \in DOMAIN native_pending =>
               native_pending[c].prepared = {h} /\ native_pending[c].listener_endpoint = e
RequestsAreBacked ==
    \A e \in Endpoints : Running(e) => \A c \in pending_connects[e] :
        c \in DOMAIN native_pending \/ AbortOf(e, c) # {}
LoopbackHasTwo ==
    \A e \in Endpoints : Running(e) => \A c \in pending_connects[e] : \A h :
        ProvisionalFor(e, h, c) =>
            c \in DOMAIN native_pending \/ \E v, w \in AbortOf(e, c) : v # w
SettlingInv == RequestsAreOwned /\ AcceptsAreOwned /\ RequestsAreBacked /\ LoopbackHasTwo

LEMMA RanBefore ==
    ASSUME SessionShape, SessionLives, [SessionNext]_vars, NEW f \in Endpoints, Running(f)',
           pending_connects[f] # {} \/ DOMAIN transfers[f] # {}
    PROVE  Running(f)
  <1>1. session[f] \notin {"none", "ended"}
    BY DEF SessionLives
  <1>2. CASE shutdown_fabric \/ UNCHANGED vars
    BY <1>2 DEF shutdown_fabric, vars, locals, Running
  <1>3. ASSUME NEW e \in Endpoints, Acts(e) PROVE Running(f)
    <2>1. CASE f # e
      BY <1>3, <2>1, OthersStay DEF OthersKeep, Running
    <2>2. CASE f = e
      <3>1. CASE Works(e)
        BY <2>2, <3>1, WorkRuns
      <3>2. CASE lost_transfer(e) \/ stop_session(e)
        BY <2>2, <3>2 DEF lost_transfer, Handling, stop_session
      <3>3. CASE open_session(e)
        BY <1>1, <2>2, <3>3 DEF open_session
      <3>4. CASE cleanup_session(e)
        BY <2>2, <3>4 DEF cleanup_session, SessionShape, TablesOK, Running
      <3>5. CASE drop_session(e)
        BY <2>2, <3>5 DEF drop_session, locals, Running
      <3> QED
        BY <1>3, <3>1, <3>2, <3>3, <3>4, <3>5 DEF Acts, Works, EndOfSession
    <2> QED
      BY <2>1, <2>2
  <1> QED
    BY <1>2, <1>3, SessionActs

(* Where a request comes from. *)
LEMMA RequestFrom ==
    ASSUME FabricInv, SessionShape, SessionLives, ResultsInv, NEW e \in Endpoints, Acts(e),
           NEW f \in Endpoints, NEW c \in pending_connects'[f]
    PROVE  \/ c \in pending_connects[f]
           \/ /\ c = next_native_connect /\ c \in DOMAIN native_pending'
              /\ native_pending'[c].connector_endpoint = f
  <1>1. OthersKeep(e) /\ Accounts(e)
    BY OthersStay, WorkAccounts, ClientAccounts DEF Acts
  <1>2. CASE f # e
    BY <1>1, <1>2 DEF OthersKeep
  <1>3. CASE f = e
    BY <1>1, <1>3 DEF Accounts, Settled, Requested, Unsettled
  <1> QED
    BY <1>2, <1>3

(* An event is handled by the handler of its kind. *)
HandledBy(e, v) ==
    /\ EventOf(e) = v
    /\ v.kind = "IncomingConnect" => on_incoming_connect(e)
    /\ v.kind = "ConnectPrepared" => on_connect_prepared(e)
    /\ v.kind = "ConnectCommitted" => on_connect_committed(e)
    /\ v.kind = "ConnectAborted" => on_connect_aborted(e)
    /\ v.kind = "Message" => on_message(e)
    /\ v.kind = "Credit" => on_credit(e)
    /\ v.kind = "Close" => on_close(e)
    /\ v.kind = "Reset" => on_reset(e)

LEMMA HandlesBy ==
    ASSUME FabricInv, SessionShape, SessionLives, NEW e \in Endpoints, Acts(e),
           NEW f \in Endpoints, NEW v, Handles(f, v)
    PROVE  f = e /\ HandledBy(e, v)
  <1>1. OthersKeep(e)
    BY OthersStay
  <1>2. f = e
    BY <1>1 DEF OthersKeep, Handles
  <1>3. EventOf(e) = v
    BY <1>2 DEF EventOf, Handles
  <1>4. \A kind : Handling(e, kind) => kind = v.kind
    BY <1>2 DEF Handles, Handling
  <1>5. step[e] = Idle /\ in_hand[e] # {} /\ step'[e] # Idle
    BY <1>2 DEF Handles
  <1>6. ~Listening(e)
    BY <1>5 DEF Listening
  <1>7. HandleEvent(e) => HandledBy(e, v)
    <2>1. /\ ~finish_event(e) /\ ~do_cancel(e) /\ ~do_fail(e) /\ ~do_publish(e) /\ ~do_reset(e)
          /\ ~lost_transfer(e)
      BY <1>5, StepValues
      DEF finish_event, do_cancel, do_fail, do_publish, do_reset, lost_transfer
    <2>2. /\ on_incoming_connect(e) => v.kind = "IncomingConnect"
          /\ on_connect_prepared(e) => v.kind = "ConnectPrepared"
          /\ on_connect_committed(e) => v.kind = "ConnectCommitted"
          /\ on_connect_aborted(e) => v.kind = "ConnectAborted"
          /\ on_message(e) => v.kind = "Message"
          /\ on_credit(e) => v.kind = "Credit"
          /\ on_close(e) => v.kind = "Close"
          /\ on_reset(e) => v.kind = "Reset"
      BY <1>4
      DEF on_incoming_connect, on_connect_prepared, on_connect_committed, on_connect_aborted,
          on_message, on_credit, on_close, on_reset
    <2> QED
      BY <1>3, <2>1, <2>2 DEF HandleEvent, HandledBy
  <1>8. ~take_event(e) /\ ~take_terminal(e) /\ ~Requests(e) /\ ~TransferFrames(e)
    BY <1>6 DEF take_event, take_terminal, Requests, channel_listen, channel_close_listener,
                channel_connect, cancel_request, TransferFrames, transfer_credit, transfer_message,
                transfer_close, transfer_reset
  <1>9. ~open_session(e) /\ ~cleanup_session(e) /\ ~drop_session(e) /\ ~stop_session(e)
    BY <1>5, StepMeans DEF open_session, cleanup_session, drop_session, stop_session, locals
  <1> QED
    BY <1>2, <1>7, <1>8, <1>9 DEF Acts, EndOfSession

LEMMA AbortsStay ==
    ASSUME FabricInv, SessionShape, SessionLives, SessionNext, NEW e \in Endpoints, Acts(e),
           NEW f \in Endpoints, Running(f), Running(f)', NEW c, NEW v \in AbortOf(f, c)
    PROVE  v \in AbortOf(f, c)' \/ (f = e /\ on_connect_aborted(e) /\ EventOf(e) = v)
  <1>1. v \in Unhandled(f) /\ IsAbort(v, c)
    BY DEF AbortOf
  <1>2. v \in Unhandled(f)' \/ Handles(f, v)
    BY <1>1, UnhandledStays
  <1> QED
    BY <1>1, <1>2, HandlesBy DEF HandledBy, AbortOf, IsAbort

(* What on_connect_aborted settles is no longer pending. *)
LEMMA AbortSettles ==
    ASSUME SessionShape, NEW e \in Endpoints, on_connect_aborted(e)
    PROVE  EventOf(e).id \notin pending_connects'[e]
  BY TakePendingOK DEF on_connect_aborted, fail_channel_connect

LEMMA SettlingStep ==
    ASSUME FabricInv, FabricInv', SessionShape, SessionShape', SessionLives, ResultsInv, ResultsInv',
           SettlingInv, [SessionNext]_vars
    PROVE  SettlingInv'
  <1>0. /\ LinksTypeOK /\ [Next]_fabric /\ next_native_connect \in Nat /\ next_native_connect' \in Nat
        /\ next_native_connect <= next_native_connect'
    <2>1. LinksTypeOK /\ LinkSymmetry /\ [Next]_fabric
      BY SessionCalls DEF FabricInv, TypeOK
    <2> QED
      BY <2>1, NextConnectGrows DEF LinksTypeOK
  <1>1. CASE shutdown_fabric \/ UNCHANGED vars
    BY <1>1
    DEF shutdown_fabric, begin_shutdown, vars, locals, runtime, fabric, lanes, SettlingInv,
        RequestsAreOwned, AcceptsAreOwned, RequestsAreBacked, LoopbackHasTwo, ProvisionalFor,
        AbortOf, Unhandled, InQueue, Running
  <1>2. ASSUME NEW e \in Endpoints, Acts(e), SessionNext PROVE SettlingInv'
    <2>0. \A f \in Endpoints : \A c \in pending_connects'[f] :
              \/ c \in pending_connects[f] /\ c < next_native_connect
              \/ c \in DOMAIN native_pending' /\ native_pending'[c].connector_endpoint = f
      BY <1>2, RequestFrom DEF ResultsInv
    <2>1. RequestsAreOwned'
      <3>1. ASSUME NEW f \in Endpoints, NEW c \in pending_connects'[f], c \in DOMAIN native_pending'
            PROVE  native_pending'[c].connector_endpoint = f
        BY <1>0, <2>0, <3>1, PendingEndpoints DEF SettlingInv, RequestsAreOwned
      <3> QED
        BY <3>1 DEF RequestsAreOwned
    <2>2. AcceptsAreOwned'
      <3>1. ASSUME NEW f \in Endpoints, NEW h, NEW c, ProvisionalFor(f, h, c)'
            PROVE  /\ c < next_native_connect'
                   /\ c \in DOMAIN native_pending' =>
                        native_pending'[c].prepared = {h} /\ native_pending'[c].listener_endpoint = f
        <4>1. CASE Prepares(f, h, c)
          BY <4>1 DEF Prepares, FabricInv, OneStage
        <4>2. CASE ProvisionalFor(f, h, c)
          <5>1. c < next_native_connect /\ c \in Nat
            <6>1. transfers[f][h] \in TransferType
              BY <4>2, TransferHere DEF ProvisionalFor
            <6> QED
              BY <4>2, <6>1 DEF SettlingInv, AcceptsAreOwned, ProvisionalFor, TransferType
          <5>2. CASE c \in DOMAIN native_pending'
            <6>1. c \in DOMAIN native_pending
              BY <1>0, <5>1, <5>2, PendingEndpoints
            <6>2. native_pending[c].prepared = {h} /\ native_pending[c].listener_endpoint = f
              BY <4>2, <6>1 DEF SettlingInv, AcceptsAreOwned
            <6>3. PendingKept(c)
              BY <1>2, <5>2, <6>1, ActsPending DEF PendingSafe, AbortTold, Completed
            <6> QED
              BY <1>0, <5>1, <6>2, <6>3 DEF PendingKept
          <5> QED
            BY <1>0, <5>1, <5>2
        <4> QED
          BY <1>2, <3>1, <4>1, <4>2, ProvisionalFrom
      <3> QED
        BY <3>1 DEF AcceptsAreOwned
    <2>3. ASSUME NEW f \in Endpoints, Running(f)', NEW c \in pending_connects[f],
                 c \in pending_connects'[f], c \notin DOMAIN native_pending'
          PROVE  /\ Running(f)
                 /\ AbortOf(f, c) \subseteq AbortOf(f, c)'
                 /\ c \in DOMAIN native_pending =>
                       native_pending[c].connector_endpoint = f /\ AbortTold(c)
      <3>1. Running(f)
        BY <2>3, RanBefore
      <3>2. ASSUME NEW v \in AbortOf(f, c) PROVE v \in AbortOf(f, c)'
        <4>1. v.id = c
          BY DEF AbortOf, IsAbort
        <4> QED
          BY <1>2, <2>3, <3>1, <4>1, AbortsStay, AbortSettles
      <3>3. ASSUME c \in DOMAIN native_pending
            PROVE  native_pending[c].connector_endpoint = f /\ AbortTold(c)
        <4>1. native_pending[c].connector_endpoint = f
          BY <2>3, <3>3 DEF SettlingInv, RequestsAreOwned
        <4> QED
          BY <1>2, <2>3, <3>3, <4>1, ActsPending DEF PendingSafe, PendingKept, Completed
      <3> QED
        BY <3>1, <3>2, <3>3
    <2>4. RequestsAreBacked'
      <3>1. ASSUME NEW f \in Endpoints, Running(f)', NEW c \in pending_connects'[f],
                   c \notin DOMAIN native_pending'
            PROVE  AbortOf(f, c)' # {}
        <4>1. c \in pending_connects[f]
          BY <2>0, <3>1
        <4>2. CASE c \in DOMAIN native_pending
          BY <2>3, <3>1, <4>1, <4>2 DEF AbortTold, AbortOf, Unhandled
        <4>3. CASE AbortOf(f, c) # {}
          BY <2>3, <3>1, <4>1, <4>3
        <4> QED
          BY <2>3, <3>1, <4>1, <4>2, <4>3 DEF SettlingInv, RequestsAreBacked
      <3> QED
        BY <3>1 DEF RequestsAreBacked
    <2>5. LoopbackHasTwo'
      <3>1. ASSUME NEW f \in Endpoints, Running(f)', NEW c \in pending_connects'[f],
                   c \notin DOMAIN native_pending', NEW h, ProvisionalFor(f, h, c)'
            PROVE  \E v, w \in AbortOf(f, c)' : v # w
        <4>1. c \in pending_connects[f]
          BY <2>0, <3>1
        <4>2. ProvisionalFor(f, h, c)
          BY <1>2, <3>1, ProvisionalFrom DEF Prepares
        <4>3. CASE c \in DOMAIN native_pending
          <5>1. native_pending[c].listener_endpoint = f
            BY <4>2, <4>3 DEF SettlingInv, AcceptsAreOwned
          <5> QED
            BY <2>3, <3>1, <4>1, <4>3, <5>1 DEF AbortTold, AbortOf, Unhandled
        <4>4. CASE \E v, w \in AbortOf(f, c) : v # w
          BY <2>3, <3>1, <4>1, <4>4
        <4> QED
          BY <2>3, <3>1, <4>1, <4>2, <4>3, <4>4 DEF SettlingInv, LoopbackHasTwo
      <3> QED
        BY <3>1 DEF LoopbackHasTwo
    <2> QED
      BY <2>1, <2>2, <2>4, <2>5 DEF SettlingInv
  <1> QED
    BY <1>1, <1>2, SessionActs

(* PendingIsBacked, from the invariant. *)
LEMMA SettlingBacks ==
    ASSUME SettlingInv
    PROVE  PendingIsBacked
  <1>1. ASSUME NEW e \in Endpoints, Running(e), NEW c \in pending_connects[e],
               c \notin DOMAIN native_pending
        PROVE  Coming(e, "ConnectAborted", c, 0)
    <2>1. PICK v \in Unhandled(e) : IsAbort(v, c)
      BY <1>1 DEF SettlingInv, RequestsAreBacked, AbortOf
    <2>2. v \in Queued(e)
      BY DEF Unhandled, InQueue, Queued
    <2> QED
      BY <2>1, <2>2 DEF Coming, IsAbort
  <1> QED
    BY <1>1 DEF PendingIsBacked, SettlingInv, RequestsAreOwned

-----------------------------------------------------------------------------
(* What the events of a handshake say. *)

(* A connect that has been committed or aborted is no longer pending, and  *)
(* one that has been aborted was never linked.                             *)
HandshakeEnds ==
    \A e \in Endpoints : \A v \in Queued(e) :
        /\ v.kind \in {"ConnectAborted", "ConnectCommitted"} =>
               v.id < next_native_connect /\ v.id \in Nat /\ v.id \notin DOMAIN native_pending
        /\ v.kind = "ConnectAborted" =>
               /\ \A k \in DOMAIN native_links : native_links[k].connect_id # v.id
               /\ \A f \in Endpoints : \A w \in Queued(f) :
                      w.kind = "ConnectCommitted" => w.id # v.id

AbortsNow(v) ==
    /\ v.kind = "ConnectAborted" /\ v.id \in DOMAIN native_pending
    /\ v.id \notin DOMAIN native_pending'
    /\ \A k \in DOMAIN native_links' :
          k \in DOMAIN native_links /\ native_links'[k] = native_links[k]

LEMMA QueuedFrom ==
    ASSUME FabricInv, FabricInv', [Next]_fabric, NEW e \in Endpoints, NEW v \in Queued(e)'
    PROVE  v \in Queued(e) \/ Handshakes(v) \/ Commits(v) \/ AbortsNow(v) \/ v.kind \in RoutedKinds
           \/ v.kind = "Reset"
  <1>1. CASE v \in InLane(e)'
    BY <1>1, LaneContents DEF InLane, Queued, Routes
  <1>2. CASE v \in terminal_events'[e]
    <2>1. CASE \A x \in Endpoints : terminal_events'[x] \subseteq terminal_events[x]
      BY <1>2, <2>1 DEF Queued
    <2>2. ASSUME NEW C \in SUBSET DOMAIN native_pending, NEW K \in SUBSET DOMAIN native_links,
                 Terminates(C, K)
          PROVE  v \in Queued(e) \/ AbortsNow(v) \/ v.kind = "Reset"
      <3>1. v \in terminal_events[e] \union Aborts(C, e) \union Resets(K, e)
        BY <1>2, <2>2 DEF Terminates
      <3>2. CASE v \in Resets(K, e)
        BY <3>2 DEF Resets, Event
      <3>3. CASE v \in Aborts(C, e)
        <4>1. v.kind = "ConnectAborted" /\ v.id \in C
          BY <3>3 DEF Aborts, Event, connector_side, listener_side
        <4>2. v.id \notin DOMAIN native_pending' /\ v.id \in DOMAIN native_pending
          BY <2>2, <4>1 DEF Terminates
        <4>3. \A k \in DOMAIN native_links' :
                 k \in DOMAIN native_links /\ native_links'[k] = native_links[k]
          BY <2>2 DEF Terminates, ResetLinks, Without
        <4> QED
          BY <4>1, <4>2, <4>3 DEF AbortsNow
      <3> QED
        BY <3>1, <3>2, <3>3 DEF Queued
    <2> QED
      BY <2>1, <2>2, TerminalSteps
  <1> QED
    BY <1>1, <1>2 DEF Queued, InLane

LEMMA HandshakeStep ==
    ASSUME FabricInv, FabricInv', HandshakeEnds, [Next]_fabric
    PROVE  HandshakeEnds'
  <1>0. /\ next_native_connect \in Nat /\ next_native_connect' \in Nat /\ LinksTypeOK
        /\ next_native_connect <= next_native_connect'
    BY NextConnectGrows DEF FabricInv, TypeOK, LinksTypeOK
  <1>s. \A w : w.kind = "ConnectCommitted" =>
            ~Handshakes(w) /\ ~AbortsNow(w) /\ w.kind \notin RoutedKinds /\ w.kind # "Reset"
    BY DEF Handshakes, AbortsNow, RoutedKinds
  <1>t. \A w : w.kind = "ConnectAborted" =>
            ~Handshakes(w) /\ ~Commits(w) /\ w.kind \notin RoutedKinds /\ w.kind # "Reset"
    BY DEF Handshakes, Commits, RoutedKinds
  <1>1. ASSUME NEW e \in Endpoints, NEW v \in Queued(e)',
               v.kind \in {"ConnectAborted", "ConnectCommitted"}
        PROVE  v.id < next_native_connect' /\ v.id \in Nat /\ v.id \notin DOMAIN native_pending'
    <2>1. CASE v.id < next_native_connect /\ v.id \in Nat /\ v.id \notin DOMAIN native_pending
      BY <1>0, <2>1, PendingEndpoints
    <2>2. CASE v \in Queued(e)
      BY <1>1, <2>1, <2>2 DEF HandshakeEnds
    <2>3. CASE Commits(v)
      BY <2>1, <2>3 DEF Commits, FabricInv, OneStage, TypeOK, LinksTypeOK, NativeLinkEnd, ConnectIds
    <2>4. CASE AbortsNow(v)
      BY <1>0, <2>4 DEF AbortsNow, FabricInv, OneStage, LinksTypeOK, ConnectIds
    <2> QED
      BY <1>1, <1>s, <1>t, <2>2, <2>3, <2>4, QueuedFrom
  <1>2. ASSUME NEW e \in Endpoints, NEW v \in Queued(e)', v.kind = "ConnectAborted"
        PROVE  /\ \A k \in DOMAIN native_links' : native_links'[k].connect_id # v.id
               /\ \A f \in Endpoints : \A w \in Queued(f)' : w.kind = "ConnectCommitted" => w.id # v.id
    <2>1. CASE v \in Queued(e)
      <3>1. /\ \A k \in DOMAIN native_links : native_links[k].connect_id # v.id
            /\ v.id \notin DOMAIN native_pending
        BY <1>2, <2>1 DEF HandshakeEnds
      <3>2. \A k \in DOMAIN native_links' : native_links'[k].connect_id # v.id
        BY <3>1, LinksOnward DEF Onward
      <3>3. ASSUME NEW f \in Endpoints, NEW w \in Queued(f)', w.kind = "ConnectCommitted"
            PROVE  w.id # v.id
        <4>1. CASE w \in Queued(f)
          BY <1>2, <2>1, <3>3, <4>1 DEF HandshakeEnds
        <4>2. CASE Commits(w)
          BY <3>1, <4>2 DEF Commits
        <4> QED
          BY <1>s, <3>3, <4>1, <4>2, QueuedFrom
      <3> QED
        BY <3>2, <3>3
    <2>2. CASE AbortsNow(v)
      <3>1. \A k \in DOMAIN native_links : native_links[k].connect_id # v.id
        BY <2>2 DEF AbortsNow, FabricInv, OneStage
      <3>2. \A k \in DOMAIN native_links' : native_links'[k].connect_id # v.id
        BY <2>2, <3>1 DEF AbortsNow
      <3>3. ASSUME NEW f \in Endpoints, NEW w \in Queued(f)', w.kind = "ConnectCommitted"
            PROVE  w.id # v.id
        <4>1. CASE w \in Queued(f)
          BY <2>2, <3>3, <4>1 DEF HandshakeEnds, AbortsNow
        <4>2. CASE Commits(w)
          BY <3>1, <4>2 DEF Commits
        <4> QED
          BY <1>s, <3>3, <4>1, <4>2, QueuedFrom
      <3> QED
        BY <3>2, <3>3
    <2> QED
      BY <1>2, <1>t, <2>1, <2>2, QueuedFrom
  <1> QED
    BY <1>1, <1>2 DEF HandshakeEnds

-----------------------------------------------------------------------------
(* The ways a transfer changes, one for each handler that keeps it. *)

NewAccept(e, h) ==
    LET v == EventOf(e)
    IN  /\ Handling(e, "IncomingConnect")
        /\ h = next_channel_handle[e] /\ alloc_channel_handle(e)
        /\ \E n \in Sizes : /\ native_prepare_connect(e, v.id, h, n, n)
                            /\ transfers'[e][h] = Transfer({v.id}, v.handle, n, 0, n)
        /\ step'[e] = Finish
NewConnect(e, h) ==
    LET v == EventOf(e)
    IN  /\ Handling(e, "ConnectPrepared")
        /\ h = next_channel_handle[e] /\ alloc_channel_handle(e)
        /\ \E n \in Sizes : \E m :
              /\ m = (IF v.max < n THEN v.max ELSE n)
              /\ native_complete_connect(e, v.id, h, m)
              /\ transfers'[e][h] = Transfer({}, 0, 0, n, m)
              /\ step'[e] = Step("publish", v.id, h, n)
Committing(e, h) ==
    LET v == EventOf(e)
        t == transfers[e][h]
    IN  /\ Handling(e, "ConnectCommitted")
        /\ h \in DOMAIN transfers[e] /\ t.provisional = {v.id}
        /\ \E n \in Limits :
              /\ n <= v.amount
              /\ transfers'[e][h] = [t EXCEPT !.provisional = {}, !.max = v.max,
                                              !.receive_limit = n]
        /\ UNCHANGED <<fabric, next_channel_handle>> /\ step'[e] = Finish
Forwarding(e, h) ==
    LET v == EventOf(e)
        t == transfers[e][h]
    IN  /\ Handling(e, "Message") /\ v.handle = h /\ h \in DOMAIN transfers[e]
        /\ transfers'[e][h] = [t EXCEPT !.sent = @ + v.amount]
        /\ UNCHANGED <<fabric, next_channel_handle>> /\ step'[e] = Finish
Crediting(e, h) ==
    LET v == EventOf(e)
        t == transfers[e][h]
    IN  /\ Handling(e, "Credit") /\ v.handle = h /\ h \in DOMAIN transfers[e]
        /\ \E n \in t.receive_limit .. v.amount :
              transfers'[e][h] = [t EXCEPT !.receive_limit = n]
        /\ UNCHANGED <<fabric, next_channel_handle>> /\ step'[e] = Finish
HalfClosing(e, h) ==
    LET v == EventOf(e)
        t == transfers[e][h]
    IN  /\ Handling(e, "Close") /\ v.handle = h /\ h \in DOMAIN transfers[e]
        /\ transfers'[e][h] = [t EXCEPT !.output_closed = TRUE]
        /\ UNCHANGED <<fabric, next_channel_handle>> /\ step'[e] = Finish
Rejects(e, h) == UNCHANGED fabric /\ step'[e] = Step("reset", 0, h, 0)
FrameCredit(e, h) ==
    LET t == transfers[e][h]
    IN  /\ Listening(e) /\ Announced(e, h) /\ UNCHANGED next_channel_handle
        /\ \E limit \in Limits : \E flow \in t.flow .. limit :
              /\ transfers'[e][h] = [t EXCEPT !.asked = limit, !.flow = flow]
              /\ (native_send_credit(e, h, flow) /\ UNCHANGED step) \/ Rejects(e, h)
FrameMessage(e, h) ==
    LET t == transfers[e][h]
    IN  /\ Listening(e) /\ Announced(e, h) /\ ~t.input_closed /\ UNCHANGED next_channel_handle
        /\ \E n \in Sizes :
              /\ transfers'[e][h] = [t EXCEPT !.received = @ + n]
              /\ (native_send_message(e, h, n) /\ UNCHANGED step) \/ Rejects(e, h)
FrameClose(e, h) ==
    LET t == transfers[e][h]
    IN  /\ Listening(e) /\ Announced(e, h) /\ ~t.input_closed /\ UNCHANGED next_channel_handle
        /\ transfers'[e][h] = [t EXCEPT !.input_closed = TRUE]
        /\ \/ (\E n \in Limits : native_send_close(e, h, n)) /\ UNCHANGED step /\ ~t.output_closed
           \/ Rejects(e, h)
Change(e, h) ==
    \/ NewAccept(e, h) \/ NewConnect(e, h) \/ Committing(e, h) \/ Forwarding(e, h)
    \/ Crediting(e, h) \/ HalfClosing(e, h) \/ FrameCredit(e, h) \/ FrameMessage(e, h)
    \/ FrameClose(e, h)
Changes(e) == \E h : SetsTransfer(e, h, transfers'[e][h]) /\ Change(e, h)
Shrinks ==
    \A f \in Endpoints :
        /\ DOMAIN transfers'[f] \subseteq DOMAIN transfers[f]
        /\ \A g \in DOMAIN transfers'[f] : transfers'[f][g] = transfers[f][g]

LEMMA SetIs ==
    ASSUME SessionShape, NEW e \in Endpoints, NEW h, NEW t, SetTransfer(e, h, t)
    PROVE  transfers'[e][h] = t /\ SetsTransfer(e, h, transfers'[e][h])
  BY SetTransferMeans DEF SetsTransfer, SessionShape
LEMMA DropsShrink ==
    ASSUME SessionShape, NEW e \in Endpoints, NEW H, remove_channel_transfer(e, H)
    PROVE  Shrinks
  <1>1. DropsTransfers(e, H)
    BY RemoveMeans DEF SessionShape
  <1>2. ASSUME NEW f \in Endpoints
        PROVE  /\ DOMAIN transfers'[f] \subseteq DOMAIN transfers[f]
               /\ \A g \in DOMAIN transfers'[f] : transfers'[f][g] = transfers[f][g]
    <2>1. CASE f = e
      BY <1>1, <2>1 DEF DropsTransfers
    <2>2. CASE f # e
      BY <1>1, <2>2 DEF DropsTransfers
    <2> QED
      BY <2>1, <2>2
  <1> QED
    BY <1>2 DEF Shrinks
LEMMA SameShrinks ==
    ASSUME UNCHANGED transfers
    PROVE  Shrinks
  BY DEF Shrinks

LEMMA TransferChanges ==
    ASSUME FabricInv, SessionShape, NEW e \in Endpoints, Acts(e)
    PROVE  Changes(e) \/ Shrinks
  <1> DEFINE v == EventOf(e)
  <1>0. LanesTypeOK /\ HandsOK
    BY DEF FabricInv, TypeOK, SessionShape
  <1>t. \A s : Then(e, s) => step'[e] = s
    BY StepMeans
  <1>1. CASE on_incoming_connect(e)
    <2> DEFINE h == next_channel_handle[e]
    <2>1. ASSUME NEW n \in Sizes, alloc_channel_handle(e), native_prepare_connect(e, v.id, h, n, n),
                 SetTransfer(e, h, Transfer({v.id}, v.handle, n, 0, n)), Then(e, Finish)
          PROVE  Changes(e)
      <3>1. Handling(e, "IncomingConnect")
        BY <1>1 DEF on_incoming_connect
      <3>2. transfers'[e][h] = Transfer({v.id}, v.handle, n, 0, n)
            /\ SetsTransfer(e, h, transfers'[e][h]) /\ step'[e] = Finish
        BY <1>t, <2>1, SetIs
      <3>3. NewAccept(e, h)
        BY <2>1, <3>1, <3>2 DEF NewAccept
      <3> QED
        BY <3>2, <3>3 DEF Changes, Change
    <2> QED
      BY <1>1, <2>1, SameShrinks DEF on_incoming_connect
  <1>2. CASE \/ do_cancel(e) \/ do_fail(e) \/ do_publish(e) \/ finish_event(e) \/ lost_transfer(e)
             \/ take_event(e) \/ take_terminal(e) \/ open_session(e) \/ stop_session(e)
             \/ drop_session(e)
    BY <1>2, SameShrinks
    DEF do_cancel, do_fail, do_publish, finish_event, lost_transfer, take_event, take_terminal,
        open_session, stop_session, drop_session, locals, runtime
  <1>3. CASE do_reset(e) \/ on_connect_aborted(e) \/ on_reset(e) \/ cleanup_session(e)
    BY <1>3, SameShrinks, DropsShrink DEF do_reset, on_connect_aborted, on_reset, cleanup_session
  <1>4. CASE on_connect_prepared(e)
    <2> DEFINE h == next_channel_handle[e]
    <2>1. ASSUME NEW n \in Sizes, NEW m, m = (IF v.max < n THEN v.max ELSE n),
                 alloc_channel_handle(e), native_complete_connect(e, v.id, h, m),
                 SetTransfer(e, h, Transfer({}, 0, 0, n, m)), Then(e, Step("publish", v.id, h, n))
          PROVE  Changes(e)
      <3>1. Handling(e, "ConnectPrepared")
        BY <1>4 DEF on_connect_prepared
      <3>2. transfers'[e][h] = Transfer({}, 0, 0, n, m)
            /\ SetsTransfer(e, h, transfers'[e][h]) /\ step'[e] = Step("publish", v.id, h, n)
        BY <1>t, <2>1, SetIs
      <3>3. NewConnect(e, h)
        BY <2>1, <3>1, <3>2 DEF NewConnect
      <3> QED
        BY <3>2, <3>3 DEF Changes, Change
    <2> QED
      BY <1>4, <2>1, SameShrinks DEF on_connect_prepared
  <1>5. CASE on_connect_committed(e)
    <2>1. v.amount \in Nat
      BY <1>0, <1>5, EventInHand DEF on_connect_committed
    <2>2. ASSUME NEW h \in Provisional(e, v.id), NEW n \in Limits,
                 IF v.amount < transfers[e][h].receive_limit THEN n = v.amount
                    ELSE n \in transfers[e][h].receive_limit .. v.amount,
                 UNCHANGED fabric,
                 SetTransfer(e, h, [transfers[e][h] EXCEPT !.provisional = {}, !.max = v.max,
                                                           !.receive_limit = n])
          PROVE  Changes(e)
      <3>1. Handling(e, "ConnectCommitted") /\ step'[e] = Finish /\ UNCHANGED next_channel_handle
        BY <1>5, <1>t DEF on_connect_committed
      <3>2. h \in DOMAIN transfers[e] /\ transfers[e][h].provisional = {v.id}
        BY DEF Provisional
      <3>3. transfers[e][h].receive_limit \in Nat
        BY <3>2, TransferHere DEF TransferType
      <3>4. n <= v.amount
        BY <2>1, <2>2, <3>3
      <3>5. /\ transfers'[e][h] = [transfers[e][h] EXCEPT !.provisional = {}, !.max = v.max,
                                                         !.receive_limit = n]
            /\ SetsTransfer(e, h, transfers'[e][h])
        BY <2>2, SetIs
      <3>6. Committing(e, h)
        BY <2>2, <3>1, <3>2, <3>4, <3>5 DEF Committing
      <3> QED
        BY <3>5, <3>6 DEF Changes, Change
    <2> QED
      BY <1>5, <2>2, SameShrinks, DropsShrink DEF on_connect_committed
  <1>6. CASE on_message(e)
    <2> DEFINE h == v.handle
               t == [transfers[e][h] EXCEPT !.sent = @ + v.amount]
    <2>1. ASSUME SetTransfer(e, h, t), Then(e, Finish) PROVE Changes(e)
      <3>1. transfers'[e][h] = t /\ SetsTransfer(e, h, transfers'[e][h]) /\ step'[e] = Finish
        BY <1>t, <2>1, SetIs
      <3>2. Forwarding(e, h)
        BY <1>6, <3>1 DEF on_message, Forwarding
      <3> QED
        BY <3>1, <3>2 DEF Changes, Change
    <2> QED
      BY <1>6, <2>1, SameShrinks DEF on_message
  <1>7. CASE on_credit(e)
    <2> DEFINE h == v.handle
    <2>1. ASSUME NEW n \in transfers[e][h].receive_limit .. v.amount,
                 SetTransfer(e, h, [transfers[e][h] EXCEPT !.receive_limit = n]), Then(e, Finish)
          PROVE  Changes(e)
      <3>1. /\ transfers'[e][h] = [transfers[e][h] EXCEPT !.receive_limit = n]
            /\ SetsTransfer(e, h, transfers'[e][h]) /\ step'[e] = Finish
        BY <1>t, <2>1, SetIs
      <3>2. Crediting(e, h)
        BY <1>7, <3>1 DEF on_credit, Crediting
      <3> QED
        BY <3>1, <3>2 DEF Changes, Change
    <2> QED
      BY <1>7, <2>1, SameShrinks DEF on_credit
  <1>8. CASE on_close(e)
    <2> DEFINE h == v.handle
               t == [transfers[e][h] EXCEPT !.output_closed = TRUE]
    <2>1. ASSUME SetTransfer(e, h, t), Then(e, Finish) PROVE Changes(e)
      <3>1. transfers'[e][h] = t /\ SetsTransfer(e, h, transfers'[e][h]) /\ step'[e] = Finish
        BY <1>t, <2>1, SetIs
      <3>2. HalfClosing(e, h)
        BY <1>8, <3>1 DEF on_close, HalfClosing
      <3> QED
        BY <3>1, <3>2 DEF Changes, Change
    <2> QED
      BY <1>8, <2>1, SameShrinks, DropsShrink DEF on_close
  <1>9. CASE Requests(e)
    BY <1>9, SameShrinks, DropsShrink
    DEF Requests, channel_listen, channel_close_listener, channel_connect, cancel_request
  <1>10. ASSUME NEW h \in ChannelHandles, NEW limit \in Limits, transfer_credit(e, h, limit)
         PROVE  Changes(e) \/ Shrinks
    <2>1. ASSUME NEW flow \in transfers[e][h].flow .. limit,
                 SetTransfer(e, h, [transfers[e][h] EXCEPT !.asked = limit, !.flow = flow]),
                 (native_send_credit(e, h, flow) /\ UNCHANGED step) \/ Reject(e, h)
          PROVE  Changes(e)
      <3>1. /\ transfers'[e][h] = [transfers[e][h] EXCEPT !.asked = limit, !.flow = flow]
            /\ SetsTransfer(e, h, transfers'[e][h])
        BY <2>1, SetIs
      <3>2. (native_send_credit(e, h, flow) /\ UNCHANGED step) \/ Rejects(e, h)
        BY <1>t, <2>1 DEF Reject, Rejects
      <3>3. FrameCredit(e, h)
        BY <1>10, <3>1, <3>2 DEF transfer_credit, FrameCredit
      <3> QED
        BY <3>1, <3>3 DEF Changes, Change
    <2> QED
      BY <1>10, <2>1, SameShrinks DEF transfer_credit, RoutedCredit
  <1>11. ASSUME NEW h \in ChannelHandles, NEW n \in Sizes, transfer_message(e, h, n)
         PROVE  Changes(e) \/ Shrinks
    <2>1. ASSUME WithinCredit(transfers[e][h], n),
                 SetTransfer(e, h, [transfers[e][h] EXCEPT !.received = @ + n]),
                 (native_send_message(e, h, n) /\ UNCHANGED step) \/ Reject(e, h)
          PROVE  Changes(e)
      <3>1. /\ transfers'[e][h] = [transfers[e][h] EXCEPT !.received = @ + n]
            /\ SetsTransfer(e, h, transfers'[e][h])
        BY <2>1, SetIs
      <3>2. (native_send_message(e, h, n) /\ UNCHANGED step) \/ Rejects(e, h)
        BY <1>t, <2>1 DEF Reject, Rejects
      <3>3. FrameMessage(e, h)
        BY <1>11, <2>1, <3>1, <3>2 DEF transfer_message, FrameMessage, WithinCredit
      <3> QED
        BY <3>1, <3>3 DEF Changes, Change
    <2> QED
      BY <1>11, <2>1, SameShrinks DEF transfer_message
  <1>12. ASSUME NEW h \in ChannelHandles, NEW n \in Limits, transfer_close(e, h, n)
         PROVE  Changes(e) \/ Shrinks
    <2>1. ASSUME ~transfers[e][h].input_closed,
                 SetTransfer(e, h, [transfers[e][h] EXCEPT !.input_closed = TRUE]),
                 \/ native_send_close(e, h, n) /\ UNCHANGED step /\ ~transfers[e][h].output_closed
                 \/ Reject(e, h)
          PROVE  Changes(e)
      <3>1. /\ transfers'[e][h] = [transfers[e][h] EXCEPT !.input_closed = TRUE]
            /\ SetsTransfer(e, h, transfers'[e][h])
        BY <2>1, SetIs
      <3>2. \/ native_send_close(e, h, n) /\ UNCHANGED step /\ ~transfers[e][h].output_closed
            \/ Rejects(e, h)
        BY <1>t, <2>1 DEF Reject, Rejects
      <3>3. FrameClose(e, h)
        BY <1>12, <2>1, <3>1, <3>2 DEF transfer_close, FrameClose
      <3> QED
        BY <3>1, <3>3 DEF Changes, Change
    <2> QED
      BY <1>12, <2>1, SameShrinks, DropsShrink DEF transfer_close
  <1>13. CASE TransferFrames(e)
    BY <1>10, <1>11, <1>12, <1>13, DropsShrink DEF TransferFrames, transfer_reset
  <1> QED
    BY <1>1, <1>2, <1>3, <1>4, <1>5, <1>6, <1>7, <1>8, <1>9, <1>13
    DEF Acts, HandleEvent, EndOfSession

-----------------------------------------------------------------------------
(* The ways a link end changes, and how its session learns of the end. *)

IsReset(v, h) == v.kind = "Reset" /\ v.id = 0 /\ v.handle = h
IsClose(v, h) == v.kind = "Close" /\ v.id = 0 /\ v.handle = h

LinkSame(k) == k \in DOMAIN native_links' /\ native_links'[k] = native_links[k]
LinkPublished(k) ==
    k \in DOMAIN native_links' /\ native_links'[k] = [native_links[k] EXCEPT !.published = TRUE]
LinkReset(k) ==
    /\ k \notin DOMAIN native_links'
    /\ \E v \in terminal_events'[k[1]] : IsReset(v, k[2])
(* Its own session has retired it. *)
LinkLeft(e, k) ==
    /\ k \notin DOMAIN native_links' /\ k[1] = e
    /\ k[2] \notin DOMAIN transfers'[e] \/ Resetting(e, k[2])' \/ ~Running(e)'
(* The client of e closes the direction of <<e, h>>. *)
Closing(e, h) ==
    /\ Listening(e) /\ Announced(e, h) /\ UNCHANGED step
    /\ \E n \in Limits : native_send_close(e, h, n)
    /\ IF transfers[e][h].output_closed
          THEN remove_channel_transfer(e, {h})
          ELSE SetTransfer(e, h, [transfers[e][h] EXCEPT !.input_closed = TRUE])
ClosesFirst(e, h) == Closing(e, h) /\ ~native_links[peer_key(<<e, h>>)].output_closed
ClosesLast(e, h) == Closing(e, h) /\ native_links[peer_key(<<e, h>>)].output_closed
LinkClosing(e, k) ==
    /\ k[1] = e /\ ClosesFirst(e, k[2]) /\ k \in DOMAIN native_links'
    /\ native_links'[k] = [native_links[k] EXCEPT !.output_closed = TRUE]
LinkClosed(e, k) ==
    /\ k \notin DOMAIN native_links'
    /\ \E h : ClosesLast(e, h) /\ <<e, h>> \in DOMAIN native_links /\ k \in {<<e, h>>, peer_key(<<e, h>>)}
LinkMoves(e, k) ==
    LinkSame(k) \/ LinkPublished(k) \/ LinkReset(k) \/ LinkLeft(e, k) \/ LinkClosing(e, k)
    \/ LinkClosed(e, k)

LEMMA ResetIsTold ==
    ASSUME FabricInv, NEW K \in SUBSET DOMAIN native_links, NEW j \in K,
           \A x \in Endpoints : Resets(K, x) \subseteq terminal_events'[x],
           native_links' = ResetLinks(K)
    PROVE  LinkReset(peer_key(j))
  <1> DEFINE p == peer_key(j)
             v == Event("Reset", 0, native_links[j].peer_channel_handle, 0, 0, {native_links[p].side})
  <1>1. p \in DOMAIN native_links /\ p[1] = native_links[j].peer_endpoint
        /\ p[2] = native_links[j].peer_channel_handle
    BY DEF FabricInv, LinkSymmetry, peer_key
  <1>2. p[1] \in Live /\ p[1] \in Endpoints
    BY <1>1 DEF FabricInv, DeadEndpointClean, Live
  <1>3. v \in Resets(K, p[1])
    BY <1>1, <1>2 DEF Resets
  <1>4. IsReset(v, p[2])
    BY <1>1 DEF Event, IsReset
  <1>5. p \notin DOMAIN native_links'
    BY DEF ResetLinks, Without
  <1> QED
    BY <1>2, <1>3, <1>4, <1>5 DEF LinkReset

LEMMA ResetMoves ==
    ASSUME FabricInv, NEW e \in Endpoints, NEW h, <<e, h>> \in DOMAIN native_links,
           \A x \in Endpoints : Resets({<<e, h>>}, x) \subseteq terminal_events'[x],
           native_links' = ResetLinks({<<e, h>>}),
           h \notin DOMAIN transfers'[e] \/ Resetting(e, h)',
           NEW k \in DOMAIN native_links
    PROVE  LinkMoves(e, k)
  <1>1. {<<e, h>>} \in SUBSET DOMAIN native_links
    OBVIOUS
  <1>2. LinkReset(peer_key(<<e, h>>))
    BY <1>1, ResetIsTold
  <1>3. DOMAIN native_links' = DOMAIN native_links \ {<<e, h>>, peer_key(<<e, h>>)}
        /\ \A j \in DOMAIN native_links' : native_links'[j] = native_links[j]
    BY DEF ResetLinks, Without
  <1>4. CASE k = <<e, h>>
    BY <1>3, <1>4 DEF LinkMoves, LinkLeft
  <1> QED
    BY <1>2, <1>3, <1>4 DEF LinkMoves, LinkSame

LEMMA LinksStill ==
    ASSUME UNCHANGED native_links, NEW e, NEW k \in DOMAIN native_links
    PROVE  LinkMoves(e, k)
  BY DEF LinkMoves, LinkSame

LEMMA CancelStill ==
    ASSUME NEW e, NEW c, cancel_channel_connect(e, c)
    PROVE  UNCHANGED native_links
  BY DEF cancel_channel_connect, native_cancel_connect, fabric

LEMMA RemovedMoves ==
    ASSUME FabricInv, SessionShape, NEW e \in Endpoints, NEW h, reset_if_linked(e, h),
           remove_channel_transfer(e, {h}), NEW k \in DOMAIN native_links
    PROVE  LinkMoves(e, k)
  <1>1. h \notin DOMAIN transfers'[e]
    BY RemoveMeans DEF SessionShape, DropsTransfers
  <1> QED
    BY <1>1, ResetMoves, LinksStill DEF reset_if_linked, native_reset, fabric

LEMMA CloseMoves ==
    ASSUME FabricInv, NEW e \in Endpoints, NEW h, Closing(e, h), NEW k \in DOMAIN native_links
    PROVE  LinkMoves(e, k)
  <1> DEFINE j == <<e, h>>
             p == peer_key(j)
  <1>1. /\ j \in DOMAIN native_links
        /\ native_links' = IF native_links[p].output_closed
                              THEN Without(native_links, {j, p})
                              ELSE [native_links EXCEPT ![j].output_closed = TRUE]
    BY DEF Closing, native_send_close, SendOk, RouteOk
  <1>2. CASE native_links[p].output_closed
    <2>1. /\ DOMAIN native_links' = DOMAIN native_links \ {j, p}
          /\ \A x \in DOMAIN native_links' : native_links'[x] = native_links[x]
      BY <1>1, <1>2 DEF Without
    <2>2. ClosesLast(e, h)
      BY <1>2 DEF ClosesLast
    <2>3. CASE k \in {j, p}
      BY <1>1, <2>1, <2>2, <2>3 DEF LinkMoves, LinkClosed
    <2> QED
      BY <2>1, <2>3 DEF LinkMoves, LinkSame
  <1>3. CASE ~native_links[p].output_closed
    <2>1. k \in DOMAIN native_links'
          /\ native_links'[k] = IF k = j THEN [native_links[k] EXCEPT !.output_closed = TRUE]
                                         ELSE native_links[k]
      BY <1>1, <1>3 DEF FabricInv, TypeOK, LinksTypeOK
    <2>2. ClosesFirst(e, h)
      BY <1>3 DEF ClosesFirst
    <2>3. CASE k = j
      <3>1. k[1] = e /\ k[2] = h
        BY <2>3
      <3> QED
        BY <2>1, <2>2, <2>3, <3>1 DEF LinkMoves, LinkClosing
    <2> QED
      BY <2>1, <2>3 DEF LinkMoves, LinkSame
  <1> QED
    BY <1>2, <1>3

LEMMA LinkChanges ==
    ASSUME FabricInv, SessionShape, NEW e \in Endpoints, Acts(e), NEW k \in DOMAIN native_links
    PROVE  LinkMoves(e, k)
  <1> USE DEF fabric
  <1>1. CASE \/ on_incoming_connect(e) \/ finish_event(e) \/ lost_transfer(e)
             \/ take_event(e) \/ take_terminal(e) \/ open_session(e) \/ stop_session(e)
             \/ drop_session(e)
    BY <1>1, LinksStill
    DEF on_incoming_connect, finish_event, lost_transfer, take_event, take_terminal,
        open_session, stop_session, drop_session, native_prepare_connect, drop_event, recv_event,
        recv_terminal, register_native_endpoint, drop_receivers
  <1>2. CASE do_cancel(e) \/ do_fail(e) \/ on_connect_aborted(e)
    BY <1>2, CancelStill, LinksStill DEF do_cancel, do_fail, on_connect_aborted, fail_channel_connect
  <1>3. CASE on_connect_prepared(e)
    <2>1. ASSUME NEW m, native_complete_connect(e, EventOf(e).id, next_channel_handle[e], m)
          PROVE  LinkMoves(e, k)
      <3>1. PICK h \in native_pending[EventOf(e).id].prepared :
               LET a == native_pending[EventOf(e).id].listener_endpoint
               IN  {<<e, next_channel_handle[e]>>, <<a, h>>} \intersect DOMAIN native_links = {}
        BY <2>1 DEF native_complete_connect, CompleteOk
      <3>2. \A x \in native_pending[EventOf(e).id].prepared : x = h
        BY <2>1 DEF native_complete_connect, CompleteOk, FabricInv, TypeOK, LinksTypeOK,
                    NativePendingConnect
      <3>3. k \in DOMAIN native_links' /\ native_links'[k] = native_links[k]
        BY <2>1, <3>1, <3>2 DEF native_complete_connect, Put
      <3> QED
        BY <3>3 DEF LinkMoves, LinkSame
    <2> QED
      BY <1>3, <2>1, CancelStill, LinksStill DEF on_connect_prepared, fail_channel_connect
  <1>4. CASE do_publish(e)
    <2> DEFINE s == step[e]
    <2>1. CASE native_publish_connect(e, s.id, s.handle, s.amount)
      <3>1. k \in DOMAIN native_links' /\ native_links'[k] \in {native_links[k],
                                              [native_links[k] EXCEPT !.published = TRUE]}
        BY <2>1 DEF native_publish_connect
      <3> QED
        BY <3>1 DEF LinkMoves, LinkSame, LinkPublished
    <2>2. CASE /\ native_publish_connect_backpressured(e, s.id, s.handle, s.amount)
               /\ Then(e, Step("reset", 0, s.handle, 0))
      <3>1. PICK h \in Nat : h = s.handle
        BY DEF SessionShape, StepsOK, StepType
      <3>2. Resetting(e, h)'
        BY <2>2, <3>1, StepMeans, StepValues DEF Resetting
      <3>3. <<e, h>> \in DOMAIN native_links
        BY <2>2, <3>1 DEF native_publish_connect_backpressured, PublishAdmitted
      <3>4. /\ \A x \in Endpoints : Resets({<<e, h>>}, x) \subseteq terminal_events'[x]
            /\ native_links' = ResetLinks({<<e, h>>})
        BY <2>2, <3>1 DEF native_publish_connect_backpressured
      <3> QED
        BY <3>2, <3>3, <3>4, ResetMoves
    <2> QED
      BY <1>4, <2>1, <2>2, LinksStill DEF do_publish
  <1>5. CASE do_reset(e) \/ on_connect_committed(e)
    BY <1>5, RemovedMoves, LinksStill DEF do_reset, on_connect_committed
  <1>6. CASE on_message(e) \/ on_credit(e) \/ on_close(e) \/ on_reset(e)
    BY <1>6, LinksStill DEF on_message, on_credit, on_close, on_reset
  <1>7. CASE Requests(e)
    BY <1>7, LinksStill, CancelStill
    DEF Requests, channel_listen, channel_close_listener, channel_connect, cancel_request,
        fail_channel_connect, native_listen, native_close_listener, native_begin_connect,
        native_begin_connect_backpressured
  <1>8. CASE TransferFrames(e)
    <2> USE DEF Reject
    <2>1. ASSUME NEW h \in ChannelHandles, NEW n \in Limits, transfer_credit(e, h, n)
          PROVE  LinkMoves(e, k)
      BY <2>1, LinksStill DEF transfer_credit, native_send_credit
    <2>2. ASSUME NEW h \in ChannelHandles, NEW n \in Sizes, transfer_message(e, h, n)
          PROVE  LinkMoves(e, k)
      BY <2>2, LinksStill DEF transfer_message, native_send_message
    <2>3. ASSUME NEW h \in ChannelHandles, NEW n \in Limits, transfer_close(e, h, n)
          PROVE  LinkMoves(e, k)
      <3>1. Closing(e, h) \/ UNCHANGED native_links
        BY <2>3 DEF transfer_close, Closing
      <3> QED
        BY <3>1, LinksStill, CloseMoves
    <2>4. ASSUME NEW h \in ChannelHandles, transfer_reset(e, h) PROVE LinkMoves(e, k)
      BY <2>4, RemovedMoves DEF transfer_reset
    <2> QED
      BY <1>8, <2>1, <2>2, <2>3, <2>4 DEF TransferFrames
  <1>9. CASE cleanup_session(e)
    <2> DEFINE mine == {j \in DOMAIN native_links : j[1] = e}
               loops == {j \in mine : peer_key(j) \in mine}
    <2>1. PICK L \in SUBSET loops :
              LET K == (mine \ loops) \union L
              IN  /\ \A x \in Endpoints : Resets(K, x) \subseteq terminal_events'[x]
                  /\ native_links' = ResetLinks(K)
      BY <1>9 DEF cleanup_session, unregister_native_endpoint
    <2> DEFINE K == (mine \ loops) \union L
    <2>2. K \in SUBSET DOMAIN native_links /\ K \subseteq mine
      OBVIOUS
    <2>3. ~Running(e)'
      BY <1>9 DEF cleanup_session, Running, SessionShape, TablesOK
    <2>4. /\ DOMAIN native_links' = DOMAIN native_links \ (K \union {peer_key(j) : j \in K})
          /\ \A j \in DOMAIN native_links' : native_links'[j] = native_links[j]
      BY <2>1 DEF ResetLinks, Without
    <2>5. CASE k \in K
      BY <2>2, <2>3, <2>4, <2>5 DEF LinkMoves, LinkLeft
    <2>6. ASSUME NEW j \in K, k = peer_key(j) PROVE LinkMoves(e, k)
      BY <2>1, <2>2, <2>6, ResetIsTold DEF LinkMoves
    <2> QED
      BY <2>4, <2>5, <2>6 DEF LinkMoves, LinkSame
  <1> QED
    BY <1>1, <1>2, <1>3, <1>4, <1>5, <1>6, <1>7, <1>8, <1>9 DEF Acts, HandleEvent, EndOfSession

-----------------------------------------------------------------------------
(* No transfer is stranded. *)

Updates(e, h) ==
    \/ Committing(e, h) \/ Forwarding(e, h) \/ Crediting(e, h) \/ HalfClosing(e, h)
    \/ FrameCredit(e, h) \/ FrameMessage(e, h) \/ FrameClose(e, h)

LEMMA TransferMoves ==
    ASSUME FabricInv, SessionShape, NEW e \in Endpoints, Acts(e), NEW f \in Endpoints,
           NEW h \in DOMAIN transfers'[f]
    PROVE  \/ h \in DOMAIN transfers[f] /\ transfers'[f][h] = transfers[f][h]
           \/ h \in DOMAIN transfers[f] /\ f = e /\ Updates(e, h)
           \/ h \notin DOMAIN transfers[f] /\ f = e /\ (NewAccept(e, h) \/ NewConnect(e, h))
  <1>1. CASE Shrinks
    BY <1>1 DEF Shrinks
  <1>2. ASSUME NEW g, SetsTransfer(e, g, transfers'[e][g]), Change(e, g), f = e, g = h
        PROVE  \/ h \in DOMAIN transfers[f] /\ Updates(e, h)
               \/ h \notin DOMAIN transfers[f] /\ (NewAccept(e, h) \/ NewConnect(e, h))
    <2>1. CASE NewAccept(e, g) \/ NewConnect(e, g)
      <3>1. g = next_channel_handle[e]
        BY <2>1 DEF NewAccept, NewConnect
      <3>2. g \notin DOMAIN transfers[e]
        BY <3>1, TransferHere
      <3> QED
        BY <1>2, <2>1, <3>2
    <2>2. CASE Updates(e, g)
      BY <1>2, <2>2
      DEF Updates, Committing, Forwarding, Crediting, HalfClosing, FrameCredit, FrameMessage,
          FrameClose, Announced
    <2> QED
      BY <1>2, <2>1, <2>2 DEF Change, Updates
  <1>3. CASE Changes(e)
    BY <1>2, <1>3 DEF Changes, SetsTransfer
  <1> QED
    BY <1>1, <1>3, TransferChanges

(* A transfer is never reopened, and only ConnectCommitted announces it. *)
LEMMA TransferGrows ==
    ASSUME FabricInv, SessionShape, NEW e \in Endpoints, Acts(e), NEW f \in Endpoints,
           NEW h \in DOMAIN transfers'[f], h \in DOMAIN transfers[f]
    PROVE  /\ transfers[f][h].output_closed => transfers'[f][h].output_closed
           /\ transfers[f][h].input_closed => transfers'[f][h].input_closed
           /\ \/ transfers'[f][h].provisional = transfers[f][h].provisional
              \/ f = e /\ Committing(e, h) /\ transfers'[f][h].provisional = {}
  <1>1. transfers[f][h] \in TransferType
    BY TransferHere
  <1>2. CASE f = e /\ Updates(e, h)
    <2>1. CASE Committing(e, h)
      BY <1>1, <1>2, <2>1 DEF Committing, TransferType
    <2>2. CASE Forwarding(e, h) \/ Crediting(e, h) \/ HalfClosing(e, h)
      BY <1>1, <1>2, <2>2 DEF Forwarding, Crediting, HalfClosing, TransferType
    <2>3. CASE FrameCredit(e, h) \/ FrameMessage(e, h) \/ FrameClose(e, h)
      BY <1>1, <1>2, <2>3 DEF FrameCredit, FrameMessage, FrameClose, TransferType
    <2> QED
      BY <1>2, <2>1, <2>2, <2>3 DEF Updates
  <1> QED
    BY <1>2, TransferMoves

LEMMA ResettingStays ==
    ASSUME FabricInv, SessionShape, NEW e \in Endpoints, Acts(e), NEW f \in Endpoints,
           Running(f)', NEW h \in DOMAIN transfers'[f], Resetting(f, h)
    PROVE  Resetting(f, h)'
  <1>1. step[f].at = "reset" /\ step[f].handle = h /\ step[f] # Idle /\ step[f] # Finish
    BY StepValues DEF Resetting
  <1>2. CASE f # e
    BY <1>2, OthersStay DEF OthersKeep, Resetting
  <1>3. CASE f = e
    <2>1. \A kind : ~Handling(e, kind) /\ ~Listening(e)
      BY <1>1, <1>3 DEF Handling, Listening
    <2>2. CASE do_reset(e)
      <3>1. h \notin DOMAIN transfers'[e]
        BY <1>1, <1>3, <2>2, RemoveMeans DEF do_reset, SessionShape, DropsTransfers
      <3> QED
        BY <1>3, <3>1
    <2>3. ~HandleEvent(e) \/ do_reset(e)
      BY <1>1, <1>3, <2>1
      DEF HandleEvent, finish_event, on_incoming_connect, do_cancel, on_connect_prepared, do_fail,
          do_publish, on_connect_committed, on_connect_aborted, lost_transfer, on_message,
          on_credit, on_close, on_reset
    <2>4. ~take_event(e) /\ ~take_terminal(e) /\ ~Requests(e) /\ ~TransferFrames(e)
      BY <2>1 DEF take_event, take_terminal, Requests, channel_listen, channel_close_listener,
                  channel_connect, cancel_request, TransferFrames, transfer_credit,
                  transfer_message, transfer_close, transfer_reset
    <2>5. CASE open_session(e) \/ drop_session(e)
      BY <1>3, <2>5, <1>1 DEF open_session, drop_session, locals, Resetting
    <2>6. ~stop_session(e) /\ ~cleanup_session(e)
      BY <1>3 DEF stop_session, cleanup_session, Running, SessionShape, TablesOK
    <2> QED
      BY <2>2, <2>3, <2>4, <2>5, <2>6 DEF Acts, EndOfSession
  <1> QED
    BY <1>2, <1>3

(* native_complete_connect makes two ends, each the other's peer. *)
Joins(e, c, h, m, a, g) ==
    LET k == <<e, h>>
        p == <<a, g>>
    IN  /\ c \in DOMAIN native_pending /\ native_pending[c].connector_endpoint = e
        /\ native_pending[c].listener_endpoint = a /\ native_pending[c].prepared = {g}
        /\ k # p /\ k \notin DOMAIN native_links /\ p \notin DOMAIN native_links
        /\ DOMAIN native_links' = DOMAIN native_links \union {k, p}
        /\ \A j \in DOMAIN native_links : native_links'[j] = native_links[j]
        /\ peer_key(k)' = p /\ peer_key(p)' = k
        /\ \A j \in {k, p} : /\ native_links'[j].connect_id = c
                             /\ native_links'[j].max_item_bytes = m
                             /\ native_links'[j].output_closed = FALSE
        /\ native_links'[k].side.role = "connector"
        /\ native_links'[p].side.role = "listener"

LEMMA CompleteJoins ==
    ASSUME FabricInv, NEW e \in Endpoints, NEW c, NEW h, NEW m, native_complete_connect(e, c, h, m)
    PROVE  \E a \in Endpoints, g \in ChannelHandles : Joins(e, c, h, m, a, g)
  <1> DEFINE k == <<e, h>>
  <1>1. /\ c \in DOMAIN native_pending /\ native_pending[c].connector_endpoint = e
        /\ native_pending[c] \in NativePendingConnect
    BY DEF native_complete_connect, CompleteOk, FabricInv, TypeOK, LinksTypeOK
  <1>0. PICK a \in Endpoints : a = native_pending[c].listener_endpoint
    BY <1>1 DEF NativePendingConnect
  <1>2. PICK g \in native_pending[c].prepared :
            /\ {k, <<a, g>>} \intersect DOMAIN native_links = {}
            /\ k # <<a, g>>
    BY <1>0 DEF native_complete_connect, CompleteOk
  <1>3. native_pending[c].prepared = {g} /\ g \in ChannelHandles
    BY <1>1, <1>2 DEF NativePendingConnect
  <1> DEFINE p == <<a, g>>
             End(peer, peer_handle, side) ==
                [connect_id |-> c, peer_endpoint |-> peer, peer_channel_handle |-> peer_handle,
                 max_item_bytes |-> m, side |-> side, published |-> FALSE,
                 output_closed |-> FALSE]
  <1>4. native_links' = Put(Put(native_links, k, End(a, g, connector_side(c))),
                            p, End(e, h, listener_side(c)))
    BY <1>0, <1>3 DEF native_complete_connect
  <1>5. /\ DOMAIN native_links' = DOMAIN native_links \union {k, p}
        /\ \A j \in DOMAIN native_links : native_links'[j] = native_links[j]
        /\ native_links'[k] = End(a, g, connector_side(c))
        /\ native_links'[p] = End(e, h, listener_side(c))
    BY <1>2, <1>4 DEF Put
  <1>6. peer_key(k)' = p /\ peer_key(p)' = k
    <2>1. native_links'[k].peer_endpoint = a /\ native_links'[k].peer_channel_handle = g
      BY <1>5
    <2>2. native_links'[p].peer_endpoint = e /\ native_links'[p].peer_channel_handle = h
      BY <1>5
    <2> HIDE DEF k, p
    <2>3. \A j : peer_key(j)' = <<native_links'[j].peer_endpoint, native_links'[j].peer_channel_handle>>
      BY DEF peer_key
    <2> QED
      BY <2>1, <2>2, <2>3 DEF k, p
  <1>7. /\ native_links'[k].side.role = "connector" /\ native_links'[p].side.role = "listener"
        /\ native_links'[k].connect_id = c /\ native_links'[k].max_item_bytes = m
        /\ native_links'[k].output_closed = FALSE /\ native_links'[p].connect_id = c
        /\ native_links'[p].max_item_bytes = m /\ native_links'[p].output_closed = FALSE
    BY <1>5 DEF connector_side, listener_side
  <1> QED
    BY <1>0, <1>1, <1>2, <1>3, <1>5, <1>6, <1>7 DEF Joins

LinkMade(e, k, h, n, m, a, g) ==
    /\ NewConnect(e, h) /\ h = next_channel_handle[e]
    /\ transfers'[e][h] = Transfer({}, 0, 0, n, m)
    /\ step'[e] = Step("publish", EventOf(e).id, h, n)
    /\ Joins(e, EventOf(e).id, h, m, a, g)
    /\ k \in {<<e, h>>, <<a, g>>}

(* A link end that was not there is one of the two a ConnectPrepared made. *)
LEMMA NewLinks ==
    ASSUME FabricInv, SessionShape, NEW e \in Endpoints, Acts(e), NEW k \in DOMAIN native_links',
           k \notin DOMAIN native_links
    PROVE  \E n \in Sizes, a \in Endpoints, g \in ChannelHandles : \E h, m :
              LinkMade(e, k, h, n, m, a, g)
  <1> USE DEF fabric
  <1>k. ~UNCHANGED native_links /\ \A K : native_links' # ResetLinks(K)
    BY DEF ResetLinks, Without
  <1>1. CASE \/ on_incoming_connect(e) \/ finish_event(e) \/ lost_transfer(e)
             \/ take_event(e) \/ take_terminal(e) \/ open_session(e) \/ stop_session(e)
             \/ drop_session(e)
    BY <1>1, <1>k
    DEF on_incoming_connect, finish_event, lost_transfer, take_event, take_terminal,
        open_session, stop_session, drop_session, native_prepare_connect, drop_event, recv_event,
        recv_terminal, register_native_endpoint, drop_receivers
  <1>2. CASE do_cancel(e) \/ do_fail(e) \/ on_connect_aborted(e)
    BY <1>2, <1>k, CancelStill DEF do_cancel, do_fail, on_connect_aborted, fail_channel_connect
  <1>3. CASE on_connect_prepared(e)
    <2>1. PICK h : h = next_channel_handle[e]
      OBVIOUS
    <2>0. PICK n \in Sizes : \E m :
              /\ m = (IF EventOf(e).max < n THEN EventOf(e).max ELSE n)
              /\ alloc_channel_handle(e)
              /\ native_complete_connect(e, EventOf(e).id, h, m)
              /\ SetTransfer(e, h, Transfer({}, 0, 0, n, m))
              /\ Then(e, Step("publish", EventOf(e).id, h, n))
      BY <1>3, <1>k, <2>1, CancelStill DEF on_connect_prepared, fail_channel_connect
    <2>2. PICK m :
              /\ m = (IF EventOf(e).max < n THEN EventOf(e).max ELSE n)
              /\ alloc_channel_handle(e)
              /\ native_complete_connect(e, EventOf(e).id, h, m)
              /\ SetTransfer(e, h, Transfer({}, 0, 0, n, m))
              /\ Then(e, Step("publish", EventOf(e).id, h, n))
      BY <2>0
    <2>3. Handling(e, "ConnectPrepared")
      BY <1>3 DEF on_connect_prepared
    <2>4. /\ transfers'[e][h] = Transfer({}, 0, 0, n, m)
          /\ step'[e] = Step("publish", EventOf(e).id, h, n)
      BY <2>2, SetIs, StepMeans
    <2>5. NewConnect(e, h)
      BY <2>1, <2>2, <2>3, <2>4 DEF NewConnect
    <2>6. PICK a \in Endpoints, g \in ChannelHandles : Joins(e, EventOf(e).id, h, m, a, g)
      <3>1. PICK c : c = EventOf(e).id
        OBVIOUS
      <3> QED
        BY <2>2, <3>1, CompleteJoins
    <2>7. k \in {<<e, h>>, <<a, g>>}
      BY <2>6 DEF Joins
    <2>8. LinkMade(e, k, h, n, m, a, g)
      BY <2>1, <2>4, <2>5, <2>6, <2>7 DEF LinkMade
    <2> QED
      BY <2>8
  <1>4. CASE do_publish(e)
    BY <1>4, <1>k DEF do_publish, native_publish_connect, native_publish_connect_backpressured
  <1>5. CASE do_reset(e) \/ on_connect_committed(e)
    BY <1>5, <1>k DEF do_reset, on_connect_committed, reset_if_linked, native_reset
  <1>6. CASE on_message(e) \/ on_credit(e) \/ on_close(e) \/ on_reset(e)
    BY <1>6, <1>k DEF on_message, on_credit, on_close, on_reset
  <1>7. CASE Requests(e)
    BY <1>7, <1>k, CancelStill
    DEF Requests, channel_listen, channel_close_listener, channel_connect, cancel_request,
        fail_channel_connect, native_listen, native_close_listener, native_begin_connect,
        native_begin_connect_backpressured
  <1>8. CASE TransferFrames(e)
    <2>1. \A h, n : ~native_send_close(e, h, n)
      BY DEF native_send_close, Without
    <2> QED
      BY <1>8, <1>k, <2>1
      DEF TransferFrames, Reject, transfer_credit, native_send_credit, transfer_message,
          native_send_message, transfer_close, transfer_reset, reset_if_linked, native_reset
  <1>9. CASE cleanup_session(e)
    BY <1>9, <1>k DEF cleanup_session, unregister_native_endpoint
  <1> QED
    BY <1>1, <1>2, <1>3, <1>4, <1>5, <1>6, <1>7, <1>8, <1>9 DEF Acts, HandleEvent, EndOfSession

LEMMA LinkStays ==
    ASSUME FabricInv, SessionShape, NEW e \in Endpoints, Acts(e), NEW k \in DOMAIN native_links,
           k \in DOMAIN native_links'
    PROVE  /\ peer_key(k)' = peer_key(k) /\ native_links'[k].connect_id = native_links[k].connect_id
           /\ native_links'[k].max_item_bytes = native_links[k].max_item_bytes
           /\ native_links'[k].side = native_links[k].side
           /\ native_links'[k].output_closed = native_links[k].output_closed \/ LinkClosing(e, k)
  <1>1. native_links[k] \in NativeLinkEnd
    BY DEF FabricInv, TypeOK, LinksTypeOK
  <1>2. LinkSame(k) \/ LinkPublished(k) \/ LinkClosing(e, k)
    BY LinkChanges DEF LinkMoves, LinkReset, LinkLeft, LinkClosed
  <1> QED
    BY <1>1, <1>2 DEF LinkSame, LinkPublished, LinkClosing, peer_key, NativeLinkEnd

LEMMA PeerIsLinked ==
    ASSUME FabricInv, NEW k \in DOMAIN native_links
    PROVE  /\ peer_key(k) \in DOMAIN native_links /\ peer_key(peer_key(k)) = k
           /\ peer_key(k)[1] \in Endpoints /\ k[1] \in Endpoints /\ k = <<k[1], k[2]>>
           /\ k[2] \in ChannelHandles
  BY DEF FabricInv, LinkSymmetry, TypeOK, LinksTypeOK

(* The peer's CLOSE has been relayed or is on its way, and an end closed   *)
(* for output is of an announced transfer whose client has closed.         *)
CloseComing(e, h) == \E v \in Unhandled(e) : IsClose(v, h)
ResetComing(e, h) == \E v \in Unhandled(e) : IsReset(v, h)
PeerCloses(e, h) == transfers[e][h].output_closed \/ Resetting(e, h) \/ CloseComing(e, h)
ClosedEnd(e, h) ==
    <<e, h>> \in DOMAIN native_links =>
        /\ native_links[peer_key(<<e, h>>)].output_closed => PeerCloses(e, h)
        /\ native_links[<<e, h>>].output_closed =>
              transfers[e][h].provisional = {} /\ transfers[e][h].input_closed
ClosedEnds ==
    \A e \in Endpoints : Running(e) => \A h \in DOMAIN transfers[e] : ClosedEnd(e, h)

(* A CLOSE goes to the lane of the peer. *)
LEMMA CloseIsSent ==
    ASSUME FabricInv, NEW e \in Endpoints, NEW h, Closing(e, h), NEW f, NEW g,
           peer_key(<<e, h>>) = <<f, g>>
    PROVE  <<e, h>> \in DOMAIN native_links /\ CloseComing(f, g)'
  <1> DEFINE k == <<e, h>>
  <1>1. PICK n \in Limits : native_send_close(e, h, n)
    BY DEF Closing
  <1>2. k \in DOMAIN native_links /\ f \in Endpoints
        /\ native_links[k].peer_endpoint = f /\ native_links[k].peer_channel_handle = g
    BY <1>1, PeerInEndpoints DEF native_send_close, SendOk, RouteOk, peer_key
  <1>3. PICK v : v = Routed("Close", k, n)
    OBVIOUS
  <1>4. IsClose(v, g)
    BY <1>2, <1>3 DEF Routed, Event, IsClose
  <1>5. events' = [events EXCEPT ![f] = Append(@, v)] /\ events[f] \in Seq(EventType)
        /\ DOMAIN events = Endpoints
    BY <1>1, <1>2, <1>3 DEF native_send_close, Send, FabricInv, TypeOK, LanesTypeOK
  <1>6. v \in InQueue(f)'
    <2>1. events'[f] = Append(events[f], v)
      BY <1>2, <1>5
    <2>2. Len(events[f]) + 1 \in DOMAIN events'[f] /\ events'[f][Len(events[f]) + 1] = v
      BY <1>5, <2>1
    <2> QED
      BY <2>2 DEF InQueue
  <1> QED
    BY <1>2, <1>4, <1>6 DEF CloseComing, Unhandled

(* What is coming stays until its handler runs. *)
LEMMA CloseStays ==
    ASSUME FabricInv, SessionShape, SessionLives, SessionNext, NEW e \in Endpoints, Acts(e),
           NEW f \in Endpoints, Running(f), Running(f)', NEW h, CloseComing(f, h)
    PROVE  CloseComing(f, h)' \/ (f = e /\ on_close(e) /\ EventOf(e).handle = h)
  <1>1. PICK v \in Unhandled(f) : IsClose(v, h)
    BY DEF CloseComing
  <1>2. v \in Unhandled(f)' \/ Handles(f, v)
    BY UnhandledStays
  <1> QED
    BY <1>1, <1>2, HandlesBy DEF HandledBy, CloseComing, IsClose

LEMMA ResetStays ==
    ASSUME FabricInv, SessionShape, SessionLives, SessionNext, NEW e \in Endpoints, Acts(e),
           NEW f \in Endpoints, Running(f), Running(f)', NEW h, ResetComing(f, h)
    PROVE  ResetComing(f, h)' \/ (f = e /\ on_reset(e) /\ EventOf(e).handle = h)
  <1>1. PICK v \in Unhandled(f) : IsReset(v, h)
    BY DEF ResetComing
  <1>2. v \in Unhandled(f)' \/ Handles(f, v)
    BY UnhandledStays
  <1> QED
    BY <1>1, <1>2, HandlesBy DEF HandledBy, ResetComing, IsReset

LEMMA CloseHandled ==
    ASSUME FabricInv, SessionShape, NEW e \in Endpoints, on_close(e), NEW h,
           EventOf(e).handle = h, h \in DOMAIN transfers'[e]
    PROVE  \/ Resetting(e, h)'
           \/ transfers'[e][h].output_closed /\ ~transfers[e][h].input_closed
  <1>1. h \in DOMAIN transfers[e] /\ transfers[e][h] \in TransferType /\ h \in Nat
    BY TransferHere DEF on_close
  <1>2. CASE Then(e, Step("reset", 0, h, 0))
    BY <1>1, <1>2, StepMeans, StepValues DEF Resetting
  <1>3. ~remove_channel_transfer(e, {h})
    BY RemoveMeans DEF SessionShape, DropsTransfers
  <1>4. CASE /\ SetTransfer(e, h, [transfers[e][h] EXCEPT !.output_closed = TRUE])
             /\ ~transfers[e][h].input_closed
    BY <1>1, <1>4, SetIs DEF TransferType
  <1> QED
    BY <1>2, <1>3, <1>4 DEF on_close

LEMMA ClosedEndStep ==
    ASSUME FabricInv, FabricInv', SessionShape, SessionLives, ClosedEnds, SessionNext,
           NEW e \in Endpoints, Acts(e), NEW f \in Endpoints, Running(f)',
           NEW h \in DOMAIN transfers'[f]
    PROVE  ClosedEnd(f, h)'
  <1> DEFINE k == <<f, h>>
  <1> SUFFICES ASSUME k \in DOMAIN native_links'
               PROVE  ClosedEnd(f, h)'
    BY DEF ClosedEnd
  <1>1. CASE k \notin DOMAIN native_links
    <2>1. PICK n \in Sizes, a \in Endpoints, g \in ChannelHandles : \E x, m :
              LinkMade(e, k, x, n, m, a, g)
      BY <1>1, NewLinks
    <2> QED
      BY <2>1 DEF LinkMade, Joins, ClosedEnd
  <1>2. CASE k \in DOMAIN native_links
    <2>1. PICK p : p = peer_key(k)
      OBVIOUS
    <2>2. p \in DOMAIN native_links /\ p \in DOMAIN native_links' /\ peer_key(k)' = p
          /\ peer_key(p) = k /\ k[1] = f /\ k[2] = h /\ p[1] \in Endpoints /\ p = <<p[1], p[2]>>
      BY <1>2, <2>1, LinkStays, PeerIsLinked DEF FabricInv, LinkSymmetry
    <2>3. CASE h \notin DOMAIN transfers[f]
      <3>1. f = e /\ (NewAccept(e, h) \/ NewConnect(e, h))
        BY <2>3, TransferMoves
      <3>2. k \notin DOMAIN native_links
        BY <3>1, CompleteJoins
        DEF NewAccept, native_prepare_connect, PrepareOk, NewConnect, Joins
      <3> QED
        BY <1>2, <3>2
    <2>4. CASE h \in DOMAIN transfers[f]
      <3>0. /\ Running(f)
            /\ transfers[f][h].output_closed => transfers'[f][h].output_closed
            /\ transfers[f][h].input_closed => transfers'[f][h].input_closed
            /\ transfers[f][h].provisional = {} => transfers'[f][h].provisional = {}
        BY <2>4, RanBefore, TransferGrows
      <3>1. ASSUME native_links'[k].output_closed
            PROVE  transfers'[f][h].provisional = {} /\ transfers'[f][h].input_closed
        <4>1. CASE native_links[k].output_closed
          BY <1>2, <2>4, <3>0, <4>1 DEF ClosedEnds, ClosedEnd
        <4>2. CASE LinkClosing(e, k)
          <5>1. e = f /\ Closing(e, h)
            BY <2>2, <4>2 DEF LinkClosing, ClosesFirst
          <5>2. ~remove_channel_transfer(e, {h})
            BY <5>1, RemoveMeans DEF SessionShape, DropsTransfers
          <5>3. transfers[e][h].provisional = {}
                /\ transfers'[e][h] = [transfers[e][h] EXCEPT !.input_closed = TRUE]
                /\ transfers[e][h] \in TransferType
            BY <2>4, <5>1, <5>2, SetIs, TransferHere DEF Closing, Announced
          <5> QED
            BY <5>1, <5>3 DEF TransferType
        <4> QED
          BY <1>2, <3>1, <4>1, <4>2, LinkStays
      <3>2. ASSUME native_links'[p].output_closed PROVE PeerCloses(f, h)'
        <4>1. CASE LinkClosing(e, p)
          <5>1. p = <<e, p[2]>> /\ Closing(e, p[2])
            BY <2>2, <4>1 DEF LinkClosing, ClosesFirst
          <5>2. CloseComing(f, h)'
            BY <2>2, <5>1, CloseIsSent
          <5> QED
            BY <5>2 DEF PeerCloses
        <4>2. CASE native_links[p].output_closed
          <5>1. PeerCloses(f, h)
            BY <1>2, <2>1, <2>4, <3>0, <4>2 DEF ClosedEnds, ClosedEnd
          <5>2. CASE transfers[f][h].output_closed
            BY <3>0, <5>2 DEF PeerCloses
          <5>3. CASE Resetting(f, h)
            BY <5>3, ResettingStays DEF PeerCloses
          <5>4. CASE CloseComing(f, h)
            BY <3>0, <5>4, CloseStays, CloseHandled DEF PeerCloses
          <5> QED
            BY <5>1, <5>2, <5>3, <5>4 DEF PeerCloses
        <4> QED
          BY <2>2, <3>2, <4>1, <4>2, LinkStays
      <3>3. (native_links[peer_key(k)])' = native_links'[p]
        BY <2>2
      <3> QED
        BY <3>1, <3>2, <3>3 DEF ClosedEnd
    <2> QED
      BY <2>3, <2>4
  <1> QED
    BY <1>1, <1>2

LEMMA ClosedEndsStep ==
    ASSUME FabricInv, FabricInv', SessionShape, SessionLives, ClosedEnds, SessionNext,
           NEW e \in Endpoints, Acts(e)
    PROVE  ClosedEnds'
  <1>1. ASSUME NEW f \in Endpoints, Running(f)', NEW h \in DOMAIN transfers'[f]
        PROVE  ClosedEnd(f, h)'
    BY <1>1, ClosedEndStep
  <1>2. ClosedEnds'
    BY <1>1 DEF ClosedEnds
  <1> QED
    BY <1>2

(* What will retire a transfer that has no link. *)
AcceptIsBacked(e, h) ==
    \E c \in transfers[e][h].provisional :
        \/ /\ c \in DOMAIN native_pending /\ native_pending[c].prepared = {h}
           /\ native_pending[c].listener_endpoint = e
        \/ AbortOf(e, c) # {}
LastClose(e, h) ==
    /\ transfers[e][h].provisional = {} /\ transfers[e][h].input_closed /\ CloseComing(e, h)
Backed(e, h) ==
    \/ <<e, h>> \in DOMAIN native_links
    \/ ResetComing(e, h) \/ Resetting(e, h) \/ AcceptIsBacked(e, h) \/ LastClose(e, h)
BackedInv == \A e \in Endpoints : Running(e) => \A h \in DOMAIN transfers[e] : Backed(e, h)

LEMMA LinkStaysBacked ==
    ASSUME FabricInv, SessionShape, SessionLives, ClosedEnds, SessionNext,
           NEW e \in Endpoints, Acts(e), NEW f \in Endpoints, Running(f), Running(f)',
           NEW h \in DOMAIN transfers'[f], h \in DOMAIN transfers[f],
           <<f, h>> \in DOMAIN native_links
    PROVE  Backed(f, h)'
  <1> DEFINE k == <<f, h>>
  <1>0. LinkMoves(e, k) /\ ClosedEnd(f, h)
    BY LinkChanges DEF ClosedEnds
  <1>1. CASE LinkSame(k) \/ LinkPublished(k) \/ LinkClosing(e, k)
    BY <1>1 DEF LinkSame, LinkPublished, LinkClosing, Backed
  <1>2. CASE LinkReset(k)
    BY <1>2 DEF LinkReset, Backed, ResetComing, Unhandled
  <1>3. CASE LinkLeft(e, k)
    BY <1>3 DEF LinkLeft, Backed
  <1>4. CASE LinkClosed(e, k)
    <2>1. PICK g : /\ ClosesLast(e, g) /\ <<e, g>> \in DOMAIN native_links
                   /\ k \in {<<e, g>>, peer_key(<<e, g>>)}
      BY <1>4 DEF LinkClosed
    <2>2. Closing(e, g) /\ native_links[peer_key(<<e, g>>)].output_closed
      BY <2>1 DEF ClosesLast
    <2>3. CASE k = <<e, g>>
      <3>1. f = e /\ g = h /\ step[e] = Idle
        BY <2>2, <2>3 DEF Closing, Listening
      <3>2. ~transfers[e][h].output_closed
        BY <2>2, <3>1, RemoveMeans DEF Closing, SessionShape, DropsTransfers
      <3>3. ~Resetting(e, h)
        BY <3>1, StepValues DEF Resetting
      <3>4. CloseComing(e, h)
        BY <1>0, <2>2, <3>1, <3>2, <3>3 DEF ClosedEnd, PeerCloses
      <3>5. ~on_close(e)
        BY <2>2, <3>1 DEF on_close, Handling, Closing, Listening
      <3>6. CloseComing(e, h)'
        BY <3>1, <3>4, <3>5, CloseStays
      <3>7. transfers[e][h].provisional = {} /\ transfers[e][h] \in TransferType
            /\ transfers'[e][h] = [transfers[e][h] EXCEPT !.input_closed = TRUE]
        BY <2>2, <3>1, <3>2, SetIs, TransferHere DEF Closing, Announced
      <3> QED
        BY <3>1, <3>6, <3>7 DEF Backed, LastClose, TransferType
    <2>4. CASE k = peer_key(<<e, g>>)
      <3>1. CloseComing(f, h)'
        BY <2>2, <2>4, CloseIsSent
      <3>2. transfers[f][h].provisional = {} /\ transfers[f][h].input_closed
        BY <1>0, <2>2, <2>4 DEF ClosedEnd
      <3>3. transfers'[f][h].provisional = {} /\ transfers'[f][h].input_closed
        BY <3>2, TransferGrows
      <3> QED
        BY <3>1, <3>3 DEF Backed, LastClose
    <2> QED
      BY <2>1, <2>3, <2>4
  <1> QED
    BY <1>0, <1>1, <1>2, <1>3, <1>4 DEF LinkMoves

LEMMA AcceptStaysBacked ==
    ASSUME FabricInv, SessionShape, SessionLives, SettlingInv, HandshakeEnds, SessionNext,
           NEW e \in Endpoints, Acts(e), NEW f \in Endpoints, Running(f), Running(f)',
           NEW h \in DOMAIN transfers'[f], h \in DOMAIN transfers[f], AcceptIsBacked(f, h)
    PROVE  Backed(f, h)'
  <1>1. PICK c \in transfers[f][h].provisional :
           \/ /\ c \in DOMAIN native_pending /\ native_pending[c].prepared = {h}
              /\ native_pending[c].listener_endpoint = f
           \/ AbortOf(f, c) # {}
    BY DEF AcceptIsBacked
  <1>2. transfers[f][h].provisional = {c}
    BY <1>1, TransferHere DEF TransferType
  <1>q. \A v \in AbortOf(f, c) : v \in Queued(f) /\ v.kind = "ConnectAborted" /\ v.id = c
    BY DEF AbortOf, IsAbort, Unhandled, InQueue, Queued
  <1>3. ~(f = e /\ Committing(e, h))
    <2>1. ASSUME f = e, Committing(e, h) PROVE FALSE
      <3>1. PICK w \in in_hand[e] : w = EventOf(e) /\ w.kind = "ConnectCommitted" /\ w.id = c
        BY <1>2, <2>1, EventInHand DEF Committing, FabricInv, TypeOK, SessionShape
      <3>2. w \in Queued(f)
        BY <2>1, <3>1 DEF Queued
      <3> QED
        BY <1>1, <1>q, <3>1, <3>2 DEF HandshakeEnds
    <2> QED
      BY <2>1
  <1>4. transfers'[f][h].provisional = {c}
    BY <1>2, <1>3, TransferGrows
  <1>5. CASE /\ c \in DOMAIN native_pending /\ native_pending[c].prepared = {h}
             /\ native_pending[c].listener_endpoint = f
    <2>1. CASE PendingKept(c)
      BY <1>4, <1>5, <2>1 DEF PendingKept, Backed, AcceptIsBacked
    <2>2. CASE AbortTold(c)
      <3>1. AbortOf(f, c)' # {}
        BY <1>5, <2>2 DEF AbortTold, AbortOf, Unhandled
      <3> QED
        BY <1>4, <3>1 DEF Backed, AcceptIsBacked
    <2>3. CASE Completed(e, c)
      BY <1>5, <2>3 DEF Completed, Backed
    <2> QED
      BY <1>5, <2>1, <2>2, <2>3, ActsPending DEF PendingSafe
  <1>6. ASSUME NEW v \in AbortOf(f, c) PROVE Backed(f, h)'
    <2>1. CASE \E w : w \in AbortOf(f, c)'
      BY <1>4, <2>1 DEF Backed, AcceptIsBacked
    <2>2. CASE f = e /\ on_connect_aborted(e) /\ EventOf(e) = v
      <3>1. c = v.id /\ c \notin DOMAIN native_pending
        BY <1>q, <1>6 DEF HandshakeEnds
      <3>2. CASE c \notin pending_connects[e]
        <4>1. remove_channel_transfer(e, Provisional(e, c))
          BY <2>2, <3>1, <3>2 DEF on_connect_aborted
        <4>2. h \in Provisional(e, c)
          BY <1>2, <2>2 DEF Provisional
        <4> QED
          BY <2>2, <4>1, <4>2, RemoveMeans DEF SessionShape, DropsTransfers
      <3>3. CASE c \in pending_connects[e]
        <4>1. ProvisionalFor(e, h, c)
          BY <1>1, <2>2 DEF ProvisionalFor
        <4>2. PICK w \in AbortOf(f, c) : w # v
          BY <2>2, <3>1, <3>3, <4>1 DEF SettlingInv, LoopbackHasTwo
        <4>3. w \in AbortOf(f, c)'
          BY <2>2, <4>2, AbortsStay
        <4> QED
          BY <2>1, <4>3
      <3> QED
        BY <3>2, <3>3
    <2> QED
      BY <1>6, <2>1, <2>2, AbortsStay
  <1> QED
    BY <1>1, <1>5, <1>6

LEMMA BackedAtStep ==
    ASSUME FabricInv, SessionShape, SessionLives, SettlingInv, HandshakeEnds, ClosedEnds, BackedInv,
           SessionNext, NEW e \in Endpoints, Acts(e), NEW f \in Endpoints, Running(f)',
           NEW h \in DOMAIN transfers'[f]
    PROVE  Backed(f, h)'
  <1>1. CASE h \notin DOMAIN transfers[f]
    <2>1. f = e /\ (NewAccept(e, h) \/ NewConnect(e, h))
      BY <1>1, TransferMoves
    <2>2. CASE NewConnect(e, h)
      <3>1. <<e, h>> \in DOMAIN native_links'
        <4>1. PICK c, m : native_complete_connect(e, c, h, m)
          BY <2>2 DEF NewConnect
        <4>2. PICK a \in Endpoints, g \in ChannelHandles : Joins(e, c, h, m, a, g)
          BY <4>1, CompleteJoins
        <4> QED
          BY <4>2 DEF Joins
      <3> QED
        BY <2>1, <3>1 DEF Backed
    <2>3. CASE NewAccept(e, h)
      <3>1. PICK c, n : /\ native_prepare_connect(e, c, h, n, n)
                        /\ transfers'[e][h] = Transfer({c}, EventOf(e).handle, n, 0, n)
        BY <2>3 DEF NewAccept
      <3>2. /\ c \in DOMAIN native_pending' /\ native_pending'[c].prepared = {h}
            /\ native_pending'[c].listener_endpoint = e
        BY <3>1 DEF native_prepare_connect, PrepareOk, FabricInv, TypeOK, LinksTypeOK,
                    NativePendingConnect
      <3>3. c \in transfers'[e][h].provisional
        BY <3>1 DEF Transfer
      <3> QED
        BY <2>1, <3>2, <3>3 DEF Backed, AcceptIsBacked
    <2> QED
      BY <2>1, <2>2, <2>3
  <1>2. CASE h \in DOMAIN transfers[f]
    <2>1. Running(f) /\ Backed(f, h)
      BY <1>2, RanBefore DEF BackedInv
    <2>2. CASE <<f, h>> \in DOMAIN native_links
      BY <1>2, <2>1, <2>2, LinkStaysBacked
    <2>3. CASE ResetComing(f, h)
      <3>1. ~(f = e /\ on_reset(e) /\ EventOf(e).handle = h)
        BY RemoveMeans DEF on_reset, SessionShape, DropsTransfers
      <3> QED
        BY <2>1, <2>3, <3>1, ResetStays DEF Backed
    <2>4. CASE Resetting(f, h)
      BY <2>4, ResettingStays DEF Backed
    <2>5. CASE AcceptIsBacked(f, h)
      BY <1>2, <2>1, <2>5, AcceptStaysBacked
    <2>6. CASE LastClose(f, h)
      <3>1. transfers'[f][h].provisional = {} /\ transfers'[f][h].input_closed
            /\ transfers[f][h].input_closed
        BY <1>2, <2>6, TransferGrows DEF LastClose
      <3>2. CloseComing(f, h)' \/ Resetting(f, h)'
        BY <2>1, <2>6, <3>1, CloseStays, CloseHandled DEF LastClose
      <3> QED
        BY <3>1, <3>2 DEF Backed, LastClose
    <2> QED
      BY <2>1, <2>2, <2>3, <2>4, <2>5, <2>6 DEF Backed
  <1> QED
    BY <1>1, <1>2

LEMMA BackedStep ==
    ASSUME FabricInv, SessionShape, SessionLives, SettlingInv, HandshakeEnds, ClosedEnds, BackedInv,
           SessionNext, NEW e \in Endpoints, Acts(e)
    PROVE  BackedInv'
  <1>1. ASSUME NEW f \in Endpoints, Running(f)', NEW h \in DOMAIN transfers'[f]
        PROVE  Backed(f, h)'
    BY <1>1, BackedAtStep
  <1> QED
    BY <1>1 DEF BackedInv

(* TransferIsBacked, from the invariant. *)
LEMMA BackedMeans ==
    ASSUME BackedInv
    PROVE  TransferIsBacked
  <1>1. ASSUME NEW e \in Endpoints, Running(e), NEW h \in DOMAIN transfers[e]
        PROVE  LET t == transfers[e][h]
               IN  \/ <<e, h>> \in DOMAIN native_links
                   \/ Coming(e, "Reset", 0, h)
                   \/ Resetting(e, h)
                   \/ \E c \in t.provisional :
                         \/ c \in DOMAIN native_pending /\ native_pending[c].prepared = {h}
                         \/ Coming(e, "ConnectAborted", c, 0)
                   \/ t.provisional = {} /\ t.input_closed /\ Coming(e, "Close", 0, h)
    <2>1. Backed(e, h) /\ Unhandled(e) \subseteq Queued(e)
      BY <1>1 DEF BackedInv, Unhandled, InQueue, Queued
    <2>2. ResetComing(e, h) => Coming(e, "Reset", 0, h)
      BY <2>1 DEF ResetComing, IsReset, Coming
    <2>3. CloseComing(e, h) => Coming(e, "Close", 0, h)
      BY <2>1 DEF CloseComing, IsClose, Coming
    <2>4. \A c : AbortOf(e, c) # {} => Coming(e, "ConnectAborted", c, 0)
      BY <2>1 DEF AbortOf, IsAbort, Coming
    <2> QED
      BY <2>1, <2>2, <2>3, <2>4 DEF Backed, AcceptIsBacked, LastClose
  <1> QED
    BY <1>1 DEF TransferIsBacked

-----------------------------------------------------------------------------
(* What a step of a session puts into the lanes. *)

SendsHandshake == \E x \in Endpoints, v \in EventType : Send(x, v) /\ Handshakes(v)
SendsCommit(e) ==
    step[e].at = "publish" /\ native_publish_connect(e, step[e].id, step[e].handle, step[e].amount)
SendsCredit(e, h) ==
    /\ FrameCredit(e, h) /\ SetsTransfer(e, h, transfers'[e][h])
    /\ native_send_credit(e, h, transfers'[e][h].flow)
SendsMessage(e, h, n) ==
    /\ FrameMessage(e, h) /\ n \in Sizes
    /\ SetsTransfer(e, h, [transfers[e][h] EXCEPT !.received = @ + n])
    /\ native_send_message(e, h, n) /\ UNCHANGED step
EventsMove(e) ==
    \/ UNCHANGED events \/ take_event(e) \/ drop_session(e) \/ SendsHandshake \/ SendsCommit(e)
    \/ \E h : SendsCredit(e, h)
    \/ \E h, n : SendsMessage(e, h, n)
    \/ \E h : Closing(e, h)

LEMMA CancelSends ==
    ASSUME NEW e, NEW c, cancel_channel_connect(e, c)
    PROVE  UNCHANGED events
  BY DEF cancel_channel_connect, native_cancel_connect, fabric, lanes
LEMMA ResetSends ==
    ASSUME NEW e, NEW h, reset_if_linked(e, h)
    PROVE  UNCHANGED events
  BY DEF reset_if_linked, native_reset, fabric, lanes

LEMMA WorkSends ==
    ASSUME FabricInv, SessionShape, NEW e \in Endpoints, HandleEvent(e)
    PROVE  EventsMove(e)
  <1> USE DEF fabric, lanes
  <1>0. \A kind : Handling(e, kind) => EventOf(e).id \in Nat
    BY EventInHand DEF FabricInv, TypeOK, SessionShape
  <1>1. CASE on_incoming_connect(e)
    <2>1. ASSUME NEW h, NEW n \in Sizes, native_prepare_connect(e, EventOf(e).id, h, n, n)
          PROVE  SendsHandshake
      <3> DEFINE c == EventOf(e).id
                 v == Event("ConnectPrepared", c, 0, n, n, {})
      <3>1. c \in DOMAIN native_pending /\ Send(native_pending[c].connector_endpoint, v)
        BY <2>1 DEF native_prepare_connect, PrepareOk
      <3>2. n \in Nat /\ c \in Nat
        BY <1>0, <1>1, FabricAssumption DEF on_incoming_connect
      <3>3. v \in EventType /\ Handshakes(v)
        BY <3>2 DEF EventType, Event, EventKinds, Handshakes
      <3> QED
        BY <3>1, <3>3, PendingInEndpoints DEF SendsHandshake
    <2> QED
      BY <1>1, <2>1 DEF on_incoming_connect, EventsMove
  <1>2. CASE on_connect_prepared(e)
    BY <1>2, CancelSends
    DEF on_connect_prepared, fail_channel_connect, native_complete_connect, EventsMove
  <1>3. CASE do_publish(e)
    BY <1>3
    DEF do_publish, native_publish_connect_backpressured, SendsCommit, EventsMove
  <1> QED
    BY <1>1, <1>2, <1>3, CancelSends, ResetSends
    DEF HandleEvent, EventsMove, finish_event, drop_event, do_cancel, do_fail, do_reset,
        on_connect_committed, on_connect_aborted, fail_channel_connect, lost_transfer, on_message,
        on_credit, on_close, on_reset

LEMMA ClientSends ==
    ASSUME FabricInv, SessionShape, NEW e \in Endpoints, Requests(e)
    PROVE  EventsMove(e)
  <1> USE DEF fabric, lanes
  <1>1. ASSUME NEW l, NEW n \in Sizes, native_begin_connect(e, l, l, n)
        PROVE  SendsHandshake
    <2> DEFINE v == Event("IncomingConnect", next_native_connect, l, n, 0, {})
    <2>1. l \in DOMAIN listeners /\ Send(listeners[l].endpoint, v)
      BY <1>1 DEF native_begin_connect, BeginOk, BeginAdmitted
    <2>2. n \in Nat /\ next_native_connect \in Nat /\ l \in Nat /\ listeners[l].endpoint \in Endpoints
      BY <2>1, FabricAssumption
      DEF FabricInv, TypeOK, LinksTypeOK, RegistryTypeOK, Listener, ListenerHandles
    <2>3. v \in EventType /\ Handshakes(v)
      BY <2>2 DEF EventType, Event, EventKinds, Handshakes
    <2> QED
      BY <2>1, <2>2, <2>3 DEF SendsHandshake
  <1> QED
    BY <1>1, CancelSends
    DEF Requests, channel_listen, channel_close_listener, channel_connect, cancel_request,
        fail_channel_connect, native_listen, native_close_listener,
        native_begin_connect_backpressured, EventsMove

LEMMA FrameSends ==
    ASSUME FabricInv, SessionShape, NEW e \in Endpoints, TransferFrames(e)
    PROVE  EventsMove(e)
  <1> USE DEF fabric, lanes, Reject
  <1>1. ASSUME NEW h \in ChannelHandles, NEW limit \in Limits, transfer_credit(e, h, limit)
        PROVE  EventsMove(e)
    <2>1. ASSUME NEW flow \in transfers[e][h].flow .. limit,
                 SetTransfer(e, h, [transfers[e][h] EXCEPT !.asked = limit, !.flow = flow]),
                 native_send_credit(e, h, flow), UNCHANGED step
          PROVE  SendsCredit(e, h)
      <3>0. h \in DOMAIN transfers[e] /\ transfers[e][h] \in TransferType /\ Listening(e)
            /\ Announced(e, h) /\ UNCHANGED next_channel_handle
        BY <1>1, TransferHere DEF transfer_credit, Announced
      <3>1. /\ transfers'[e][h] = [transfers[e][h] EXCEPT !.asked = limit, !.flow = flow]
            /\ SetsTransfer(e, h, transfers'[e][h])
        BY <2>1, SetIs
      <3>2. FrameCredit(e, h)
        BY <2>1, <3>0, <3>1 DEF FrameCredit
      <3>3. transfers'[e][h].flow = flow
        BY <3>0, <3>1 DEF TransferType
      <3> QED
        BY <2>1, <3>1, <3>2, <3>3 DEF SendsCredit
    <2> QED
      BY <1>1, <2>1 DEF transfer_credit, RoutedCredit, EventsMove
  <1>2. ASSUME NEW h \in ChannelHandles, NEW n \in Sizes, transfer_message(e, h, n)
        PROVE  EventsMove(e)
    <2>1. ASSUME WithinCredit(transfers[e][h], n),
                 SetTransfer(e, h, [transfers[e][h] EXCEPT !.received = @ + n]),
                 native_send_message(e, h, n), UNCHANGED step
          PROVE  SendsMessage(e, h, n)
      <3>1. SetsTransfer(e, h, [transfers[e][h] EXCEPT !.received = @ + n])
        BY <2>1, SetTransferMeans DEF SessionShape
      <3>2. transfers'[e][h] = [transfers[e][h] EXCEPT !.received = @ + n]
        BY <3>1 DEF SetsTransfer
      <3>3. /\ Listening(e) /\ Announced(e, h) /\ ~transfers[e][h].input_closed
            /\ UNCHANGED next_channel_handle
        BY <1>2, <2>1 DEF transfer_message, WithinCredit
      <3>4. FrameMessage(e, h)
        BY <2>1, <3>2, <3>3 DEF FrameMessage
      <3> QED
        BY <2>1, <3>1, <3>4 DEF SendsMessage
    <2> QED
      BY <1>2, <2>1 DEF transfer_message, EventsMove
  <1>3. ASSUME NEW h \in ChannelHandles, NEW n \in Limits, transfer_close(e, h, n)
        PROVE  EventsMove(e)
    BY <1>3 DEF transfer_close, Closing, EventsMove
  <1> QED
    BY <1>1, <1>2, <1>3, ResetSends DEF TransferFrames, transfer_reset, EventsMove

LEMMA ActsSend ==
    ASSUME FabricInv, SessionShape, NEW e \in Endpoints, Acts(e)
    PROVE  EventsMove(e)
  BY WorkSends, ClientSends, FrameSends
  DEF Acts, EndOfSession, EventsMove, fabric, lanes, open_session, register_native_endpoint,
      take_terminal, recv_terminal, stop_session, drop_event, cleanup_session,
      unregister_native_endpoint

(* Where a queued event comes from. *)
NewCommit(e, f, v) ==
    LET k == <<e, step[e].handle>>
    IN  /\ SendsCommit(e) /\ v.kind = "ConnectCommitted" /\ k \in DOMAIN native_links
        /\ native_links[k].peer_endpoint = f /\ v.id = step[e].id
        /\ v.amount = step[e].amount /\ v.max = native_links[k].max_item_bytes
NewCredit(e, f, v) ==
    \E h : /\ <<e, h>> \in DOMAIN native_links /\ peer_key(<<e, h>>) = <<f, v.handle>>
           /\ v.kind = "Credit" /\ v.amount = transfers'[e][h].flow
           /\ SendsCredit(e, h)
NewTraffic(e, f, v) ==
    v.kind \in {"Message", "Close", "Reset"} /\ <<f, v.handle>> \in DOMAIN native_links
Arrives(e, f, v) ==
    Handshakes(v) \/ NewCommit(e, f, v) \/ NewCredit(e, f, v) \/ NewTraffic(e, f, v)

LEMMA SentIsLast ==
    ASSUME LanesTypeOK, NEW x \in Endpoints, NEW v, Send(x, v), NEW f \in Endpoints,
           NEW w \in InQueue(f)'
    PROVE  w \in InQueue(f) \/ (f = x /\ w = v)
  <1>1. events'[x] = Append(events[x], v) /\ \A y \in Endpoints : y # x => events'[y] = events[y]
    BY DEF Send, LanesTypeOK
  <1>2. events[x] \in Seq(EventType)
    BY DEF LanesTypeOK
  <1>3. PICK i \in DOMAIN events'[f] : w = events'[f][i]
    BY DEF InQueue
  <1>4. CASE f # x
    BY <1>1, <1>3, <1>4 DEF InQueue
  <1>5. CASE f = x
    <2>1. i \in 1 .. Len(events[x]) + 1
      BY <1>1, <1>2, <1>3, <1>5
    <2>2. CASE i = Len(events[x]) + 1
      BY <1>1, <1>2, <1>3, <1>5, <2>2
    <2>3. CASE i \in 1 .. Len(events[x])
      <3>1. i \in DOMAIN events[x] /\ w = events[x][i]
        BY <1>1, <1>2, <1>3, <1>5, <2>3
      <3> QED
        BY <1>5, <3>1 DEF InQueue
    <2> QED
      BY <1>2, <2>1, <2>2, <2>3
  <1> QED
    BY <1>4, <1>5

LEMMA LaneNew ==
    ASSUME FabricInv, SessionShape, NEW e \in Endpoints, Acts(e), NEW f \in Endpoints,
           NEW v \in InQueue(f)'
    PROVE  v \in InQueue(f) \/ Arrives(e, f, v)
  <1>0. LanesTypeOK
    BY DEF FabricInv, TypeOK
  <1>1. CASE UNCHANGED events
    BY <1>1 DEF InQueue
  <1>2. CASE take_event(e)
    <2>1. /\ events'[e] = Tail(events[e]) /\ events[e] # <<>> /\ events[e] \in Seq(EventType)
          /\ \A y \in Endpoints : y # e => events'[y] = events[y]
      BY <1>0, <1>2 DEF take_event, recv_event, LanesTypeOK
    <2>2. CASE f = e
      <3>1. PICK i \in DOMAIN events'[f] : v = events'[f][i]
        BY DEF InQueue
      <3>2. i + 1 \in DOMAIN events[e] /\ v = events[e][i + 1]
        BY <2>1, <2>2, <3>1, TailElements
      <3> QED
        BY <2>2, <3>2 DEF InQueue
    <2> QED
      BY <2>1, <2>2 DEF InQueue
  <1>3. CASE drop_session(e)
    <2>1. events'[e] = <<>> /\ \A y \in Endpoints : y # e => events'[y] = events[y]
      BY <1>0, <1>3 DEF drop_session, drop_receivers, LanesTypeOK
    <2> QED
      BY <2>1 DEF InQueue
  <1>4. CASE SendsHandshake
    BY <1>0, <1>4, SentIsLast DEF SendsHandshake, Arrives
  <1>5. CASE SendsCommit(e)
    <2> DEFINE k == <<e, step[e].handle>>
    <2>1. PICK x : x = native_links[k].peer_endpoint
      OBVIOUS
    <2>2. PICK w : w = Event("ConnectCommitted", step[e].id, step[e].handle, step[e].amount,
                             native_links[k].max_item_bytes, {})
      OBVIOUS
    <2>3. k \in DOMAIN native_links /\ Send(x, w)
      BY <1>5, <2>1, <2>2 DEF SendsCommit, native_publish_connect, PublishOk, PublishAdmitted
    <2>4. NewCommit(e, x, w)
      BY <1>5, <2>1, <2>2, <2>3 DEF NewCommit, Event
    <2> QED
      BY <1>0, <2>1, <2>3, <2>4, SentIsLast, PeerInEndpoints DEF Arrives
  <1>r. ASSUME NEW h, NEW kind, NEW n, RouteOk(<<e, h>>),
               Send(native_links[<<e, h>>].peer_endpoint, Routed(kind, <<e, h>>, n))
        PROVE  \/ v \in InQueue(f)
               \/ /\ v.kind = kind /\ v.amount = n /\ peer_key(<<e, h>>) = <<f, v.handle>>
                  /\ <<e, h>> \in DOMAIN native_links /\ <<f, v.handle>> \in DOMAIN native_links
    <2>1. PICK x, w : /\ x = native_links[<<e, h>>].peer_endpoint
                      /\ w = Routed(kind, <<e, h>>, n)
      OBVIOUS
    <2>2. <<e, h>> \in DOMAIN native_links /\ x \in Endpoints /\ Send(x, w)
          /\ peer_key(<<e, h>>) \in DOMAIN native_links
      BY <1>r, <2>1, PeerInEndpoints DEF RouteOk
    <2>3. w.kind = kind /\ w.amount = n /\ peer_key(<<e, h>>) = <<x, w.handle>>
      BY <2>1 DEF Routed, Event, peer_key
    <2> QED
      BY <1>0, <2>2, <2>3, SentIsLast
  <1>6. ASSUME NEW h, SendsCredit(e, h) PROVE v \in InQueue(f) \/ Arrives(e, f, v)
    <2>1. PICK n : n = transfers'[e][h].flow
      OBVIOUS
    <2>2. /\ RouteOk(<<e, h>>)
          /\ Send(native_links[<<e, h>>].peer_endpoint, Routed("Credit", <<e, h>>, n))
      BY <1>6, <2>1 DEF SendsCredit, native_send_credit
    <2> QED
      BY <1>6, <1>r, <2>1, <2>2 DEF Arrives, NewCredit
  <1>7. ASSUME NEW h, NEW n, SendsMessage(e, h, n) PROVE v \in InQueue(f) \/ Arrives(e, f, v)
    <2>1. /\ RouteOk(<<e, h>>)
          /\ Send(native_links[<<e, h>>].peer_endpoint, Routed("Message", <<e, h>>, n))
      BY <1>7 DEF SendsMessage, native_send_message, SendOk
    <2> QED
      BY <1>r, <2>1 DEF Arrives, NewTraffic
  <1>8. ASSUME NEW h, Closing(e, h) PROVE v \in InQueue(f) \/ Arrives(e, f, v)
    <2>1. PICK n :
             /\ RouteOk(<<e, h>>)
             /\ Send(native_links[<<e, h>>].peer_endpoint, Routed("Close", <<e, h>>, n))
      BY <1>8 DEF Closing, native_send_close, SendOk
    <2> QED
      BY <1>r, <2>1 DEF Arrives, NewTraffic
  <1> QED
    BY <1>1, <1>2, <1>3, <1>4, <1>5, <1>6, <1>7, <1>8, ActsSend DEF EventsMove

LEMMA HandFrom ==
    ASSUME FabricInv, SessionShape, NEW e \in Endpoints, Acts(e), NEW f \in Endpoints,
           NEW v \in in_hand'[f]
    PROVE  v \in Queued(f)
  <1>0. LanesTypeOK
    BY DEF FabricInv, TypeOK
  <1>1. CASE Calls(e)
    BY <1>1, CallsGrow DEF AllGrow, Growing, Queued
  <1>2. CASE take_event(e)
    <2>1. /\ in_hand' = [in_hand EXCEPT ![e] = {Head(events[e])}] /\ events[e] # <<>>
          /\ events[e] \in Seq(EventType) /\ DOMAIN in_hand = Endpoints
      BY <1>0, <1>2 DEF take_event, recv_event, LanesTypeOK
    <2>2. 1 \in DOMAIN events[e] /\ Head(events[e]) = events[e][1]
      BY <2>1
    <2>3. Head(events[e]) \in Queued(e)
      BY <2>2 DEF Queued
    <2>4. CASE f = e
      BY <2>1, <2>3, <2>4
    <2>5. CASE f # e
      BY <2>1, <2>5 DEF Queued
    <2> QED
      BY <2>4, <2>5
  <1>3. CASE take_terminal(e)
    <2>1. PICK w \in terminal_events[e] : in_hand' = [in_hand EXCEPT ![e] = {w}]
      BY <1>3 DEF take_terminal, recv_terminal
    <2>2. DOMAIN in_hand = Endpoints
      BY <1>0 DEF LanesTypeOK
    <2> QED
      BY <2>1, <2>2 DEF Queued
  <1>4. CASE finish_event(e) \/ lost_transfer(e) \/ stop_session(e) \/ drop_session(e)
    <2>1. in_hand' = in_hand \/ in_hand' = [in_hand EXCEPT ![e] = {}]
      BY <1>4 DEF finish_event, lost_transfer, stop_session, drop_session, drop_event,
                  drop_receivers, fabric, lanes
    <2>2. DOMAIN in_hand = Endpoints
      BY <1>0 DEF LanesTypeOK
    <2>3. in_hand'[f] \subseteq in_hand[f]
      BY <2>1, <2>2
    <2> QED
      BY <2>3 DEF Queued
  <1> QED
    BY <1>1, <1>2, <1>3, <1>4 DEF Acts, HandleEvent, EndOfSession, Calls

LEMMA QueuedNew ==
    ASSUME FabricInv, SessionShape, SessionNext, NEW e \in Endpoints, Acts(e), NEW f \in Endpoints,
           NEW v \in Queued(f)'
    PROVE  v \in Queued(f) \/ Arrives(e, f, v) \/ v.kind = "ConnectAborted"
  <1>1. CASE v \in InQueue(f)'
    BY <1>1, LaneNew DEF InQueue, Queued
  <1>2. CASE v \in in_hand'[f]
    BY <1>2, HandFrom
  <1>3. CASE v \in terminal_events'[f]
    <2>0. [Next]_fabric
      BY SessionCalls DEF FabricInv, TypeOK
    <2>1. CASE \A x \in Endpoints : terminal_events'[x] \subseteq terminal_events[x]
      BY <1>3, <2>1 DEF Queued
    <2>2. ASSUME NEW C \in SUBSET DOMAIN native_pending, NEW K \in SUBSET DOMAIN native_links,
                 Terminates(C, K)
          PROVE  v \in Queued(f) \/ Arrives(e, f, v) \/ v.kind = "ConnectAborted"
      <3>1. v \in terminal_events[f] \union Aborts(C, f) \union Resets(K, f)
        BY <1>3, <2>2 DEF Terminates
      <3>2. CASE v \in Aborts(C, f)
        BY <3>2 DEF Aborts, Event
      <3>3. CASE v \in Resets(K, f)
        <4>1. PICK k \in K : /\ native_links[k].peer_endpoint = f
                             /\ peer_key(k) \in DOMAIN native_links
                             /\ v.kind = "Reset" /\ v.handle = native_links[k].peer_channel_handle
          BY <3>3 DEF Resets, Event
        <4> QED
          BY <4>1 DEF Arrives, NewTraffic, peer_key
      <3> QED
        BY <3>1, <3>2, <3>3 DEF Queued
    <2> QED
      BY <2>0, <2>1, <2>2, TerminalSteps
  <1> QED
    BY <1>1, <1>2, <1>3 DEF Queued, InQueue

-----------------------------------------------------------------------------
(* A channel handle is used once. *)

PreparedKept(c) ==
    /\ c \in DOMAIN native_pending
    /\ native_pending'[c].prepared = native_pending[c].prepared
    /\ native_pending'[c].listener_endpoint = native_pending[c].listener_endpoint
PreparedNow(e, c, h) ==
    /\ NewAccept(e, h) /\ c = EventOf(e).id /\ c \in DOMAIN native_pending
    /\ native_pending'[c].prepared = {h} /\ native_pending'[c].listener_endpoint = e
    /\ UNCHANGED native_links

LEMMA CancelKeeps ==
    ASSUME NEW e, NEW d, cancel_channel_connect(e, d), NEW c \in DOMAIN native_pending'
    PROVE  PreparedKept(c)
  BY DEF cancel_channel_connect, native_cancel_connect, fabric, Without, PreparedKept
LEMMA ResetKeeps ==
    ASSUME NEW e, NEW h, reset_if_linked(e, h), NEW c \in DOMAIN native_pending'
    PROVE  PreparedKept(c)
  BY DEF reset_if_linked, native_reset, fabric, PreparedKept
LEMMA SameKeeps ==
    ASSUME UNCHANGED native_pending, NEW c \in DOMAIN native_pending'
    PROVE  PreparedKept(c)
  BY DEF PreparedKept

LEMMA PreparedFrom ==
    ASSUME FabricInv, SessionShape, NEW e \in Endpoints, Acts(e), NEW c \in DOMAIN native_pending',
           NEW h \in native_pending'[c].prepared
    PROVE  PreparedKept(c) \/ PreparedNow(e, c, h)
  <1> USE DEF fabric
  <1>1. CASE on_incoming_connect(e)
    <2>1. ASSUME NEW g, g = next_channel_handle[e], NEW n \in Sizes, alloc_channel_handle(e),
                 native_prepare_connect(e, EventOf(e).id, g, n, n), Then(e, Finish),
                 SetTransfer(e, g, Transfer({EventOf(e).id}, EventOf(e).handle, n, 0, n))
          PROVE  PreparedKept(c) \/ PreparedNow(e, c, h)
      <3> DEFINE d == EventOf(e).id
      <3>1. /\ d \in DOMAIN native_pending /\ native_pending[d].listener_endpoint = e
            /\ native_pending' = [native_pending EXCEPT ![d].prepared = {g}, ![d].max_item_bytes = n]
            /\ native_pending[d] \in NativePendingConnect /\ UNCHANGED native_links
        BY <2>1 DEF native_prepare_connect, PrepareOk, FabricInv, TypeOK, LinksTypeOK
      <3>2. CASE c # d
        BY <3>1, <3>2 DEF PreparedKept
      <3>3. CASE c = d
        <4>1. native_pending'[c].prepared = {g} /\ native_pending'[c].listener_endpoint = e
          BY <3>1, <3>3 DEF NativePendingConnect
        <4>2. g = h
          BY <4>1
        <4>3. NewAccept(e, g)
          <5>1. transfers'[e][g] = Transfer({EventOf(e).id}, EventOf(e).handle, n, 0, n)
            BY <2>1, SetIs
          <5>2. step'[e] = Finish /\ Handling(e, "IncomingConnect")
            BY <1>1, <2>1, StepMeans DEF on_incoming_connect
          <5> QED
            BY <2>1, <5>1, <5>2 DEF NewAccept
        <4> QED
          BY <3>1, <3>3, <4>1, <4>2, <4>3 DEF PreparedNow
      <3> QED
        BY <3>2, <3>3
    <2>2. \/ UNCHANGED native_pending
          \/ \E n \in Sizes :
                /\ alloc_channel_handle(e)
                /\ native_prepare_connect(e, EventOf(e).id, next_channel_handle[e], n, n)
                /\ SetTransfer(e, next_channel_handle[e],
                               Transfer({EventOf(e).id}, EventOf(e).handle, n, 0, n))
                /\ Then(e, Finish)
      BY <1>1 DEF on_incoming_connect
    <2>3. PICK g : g = next_channel_handle[e]
      OBVIOUS
    <2> QED
      BY <2>1, <2>2, <2>3, SameKeeps
  <1>2. CASE \/ finish_event(e) \/ lost_transfer(e) \/ take_event(e) \/ take_terminal(e)
             \/ open_session(e) \/ stop_session(e) \/ drop_session(e)
    BY <1>2, SameKeeps
    DEF finish_event, lost_transfer, take_event, take_terminal,
        open_session, stop_session, drop_session, drop_event, recv_event,
        recv_terminal, register_native_endpoint, drop_receivers
  <1>3. CASE do_cancel(e) \/ do_fail(e) \/ on_connect_aborted(e)
    BY <1>3, CancelKeeps, SameKeeps
    DEF do_cancel, do_fail, on_connect_aborted, fail_channel_connect
  <1>4. CASE on_connect_prepared(e)
    <2>1. ASSUME NEW d, NEW g, NEW m, native_complete_connect(e, d, g, m) PROVE PreparedKept(c)
      BY <2>1 DEF native_complete_connect, Without, PreparedKept
    <2> QED
      BY <1>4, <2>1, CancelKeeps, SameKeeps DEF on_connect_prepared, fail_channel_connect
  <1>5. CASE do_publish(e)
    BY <1>5, SameKeeps DEF do_publish, native_publish_connect, native_publish_connect_backpressured
  <1>6. CASE do_reset(e) \/ on_connect_committed(e)
    BY <1>6, ResetKeeps, SameKeeps DEF do_reset, on_connect_committed
  <1>7. CASE on_message(e) \/ on_credit(e) \/ on_close(e) \/ on_reset(e)
    BY <1>7, SameKeeps DEF on_message, on_credit, on_close, on_reset
  <1>8. CASE Requests(e)
    <2>1. ASSUME NEW l, NEW n, native_begin_connect(e, l, l, n) PROVE PreparedKept(c)
      <3>1. c # next_native_connect
        BY <2>1 DEF native_begin_connect, Put
      <3> QED
        BY <2>1, <3>1 DEF native_begin_connect, Put, PreparedKept
    <2>2. ASSUME NEW l, native_close_listener(e, l, l) PROVE PreparedKept(c)
      BY <2>2 DEF native_close_listener, Without, PreparedKept
    <2> QED
      BY <1>8, <2>1, <2>2, CancelKeeps, SameKeeps
      DEF Requests, channel_listen, channel_close_listener, channel_connect, cancel_request,
          fail_channel_connect, native_listen, native_begin_connect_backpressured
  <1>9. CASE TransferFrames(e)
    BY <1>9, ResetKeeps, SameKeeps
    DEF TransferFrames, Reject, transfer_credit, native_send_credit, transfer_message,
        native_send_message, transfer_close, native_send_close, transfer_reset
  <1>10. CASE cleanup_session(e)
    BY <1>10 DEF cleanup_session, unregister_native_endpoint, Without, PreparedKept
  <1> QED
    BY <1>1, <1>2, <1>3, <1>4, <1>5, <1>6, <1>7, <1>8, <1>9, <1>10
    DEF Acts, HandleEvent, EndOfSession

(* Handles: one that has not been allocated, or whose accept is not linked *)
(* yet, names no link, and no event in the session's lanes.                *)
LinkKinds == RoutedKinds \union {"Reset"}
Unlinked(e, h) ==
    /\ <<e, h>> \notin DOMAIN native_links
    /\ \A v \in Queued(e) : v.kind \in LinkKinds => v.handle # h
FreshHandles == \A e \in Endpoints : \A h \in Nat : h >= next_channel_handle[e] => Unlinked(e, h)
PreparedFor(c, e, h) ==
    /\ c \in DOMAIN native_pending /\ native_pending[c].listener_endpoint = e
    /\ h \in native_pending[c].prepared
PreparedHandle(c, e, h) ==
    /\ h < next_channel_handle[e] /\ Unlinked(e, h)
    /\ \A d : PreparedFor(d, e, h) => d = c
    /\ h \in DOMAIN transfers[e] =>
           transfers[e][h].provisional = {c} /\ transfers[e][h].sent = 0
PreparedHandles == \A c, e, h : PreparedFor(c, e, h) => PreparedHandle(c, e, h)
HandlesInv == FreshHandles /\ PreparedHandles

LEMMA ActsAllocate ==
    ASSUME SessionShape, NEW e \in Endpoints, Acts(e)
    PROVE  HandlesGrow
  <1>1. alloc_channel_handle(e) \/ UNCHANGED next_channel_handle
    BY DEF Acts, HandleEvent, Requests, TransferFrames, EndOfSession, open_session, runtime, locals,
           take_event, take_terminal, finish_event, on_incoming_connect, do_cancel,
           on_connect_prepared, do_fail, do_publish, do_reset, on_connect_committed,
           on_connect_aborted, lost_transfer, on_message, on_credit, on_close, on_reset,
           channel_listen, channel_close_listener, channel_connect, cancel_request,
           transfer_credit, transfer_message, transfer_close, transfer_reset, stop_session,
           cleanup_session, drop_session
  <1> QED
    BY <1>1, AllocMeans, SameHandles

LEMMA StaysUnlinked ==
    ASSUME FabricInv, SessionShape, SessionNext, NEW e \in Endpoints, Acts(e), NEW f \in Endpoints,
           NEW h, Unlinked(f, h), <<f, h>> \notin DOMAIN native_links'
    PROVE  Unlinked(f, h)'
  <1>1. ASSUME NEW v \in Queued(f)', v.kind \in LinkKinds, v.handle = h PROVE FALSE
    <2>1. v \notin Queued(f)
      BY <1>1 DEF Unlinked
    <2>2. Arrives(e, f, v)
      BY <1>1, <2>1, QueuedNew DEF LinkKinds, RoutedKinds
    <2>3. <<f, v.handle>> \in DOMAIN native_links
      BY <1>1, <2>2, PeerIsLinked
      DEF Arrives, Handshakes, NewCommit, NewCredit, NewTraffic, LinkKinds, RoutedKinds
    <2> QED
      BY <1>1, <2>3 DEF Unlinked
  <1> QED
    BY <1>1 DEF Unlinked

LEMMA FreshStep ==
    ASSUME FabricInv, SessionShape, SessionShape', HandlesInv, SessionNext,
           NEW e \in Endpoints, Acts(e)
    PROVE  FreshHandles'
  <1>1. ASSUME NEW f \in Endpoints, NEW h \in Nat, h >= next_channel_handle'[f]
        PROVE  Unlinked(f, h)'
    <2>0. /\ next_channel_handle[f] \in Nat /\ next_channel_handle'[f] \in Nat
          /\ next_channel_handle[f] <= next_channel_handle'[f]
      BY ActsAllocate DEF HandlesGrow, SessionShape, TablesOK
    <2>1. Unlinked(f, h)
      BY <1>1, <2>0 DEF HandlesInv, FreshHandles
    <2>2. <<f, h>> \notin DOMAIN native_links'
      <3>1. ASSUME <<f, h>> \in DOMAIN native_links' PROVE FALSE
        <4>1. PICK n \in Sizes, a \in Endpoints, g \in ChannelHandles : \E x, m :
                  LinkMade(e, <<f, h>>, x, n, m, a, g)
          BY <2>1, <3>1, NewLinks DEF Unlinked
        <4>2. PICK x, m : LinkMade(e, <<f, h>>, x, n, m, a, g)
          BY <4>1
        <4>3. CASE f = e /\ h = x
          <5>1. alloc_channel_handle(e) /\ h = next_channel_handle[e]
            BY <4>2, <4>3 DEF LinkMade, NewConnect
          <5>2. next_channel_handle'[e] = next_channel_handle[e] + 1
            BY <5>1, AllocMeans
          <5> QED
            BY <1>1, <2>0, <4>3, <5>1, <5>2
        <4>4. CASE f = a /\ h = g
          <5>1. PreparedFor(EventOf(e).id, a, g)
            BY <4>2 DEF LinkMade, Joins, PreparedFor
          <5>2. g < next_channel_handle[a]
            BY <5>1 DEF HandlesInv, PreparedHandles, PreparedHandle
          <5> QED
            BY <1>1, <2>0, <4>4, <5>2
        <4> QED
          BY <4>2, <4>3, <4>4 DEF LinkMade
      <3> QED
        BY <3>1
    <2> QED
      BY <2>1, <2>2, StaysUnlinked
  <1> QED
    BY <1>1 DEF FreshHandles

LEMMA PreparedIs ==
    ASSUME FabricInv, NEW c, NEW e, NEW h, PreparedFor(c, e, h)
    PROVE  /\ e \in Endpoints /\ h \in ChannelHandles /\ h \in Nat
           /\ native_pending[c].prepared = {h}
  BY HandlesAreNumbers DEF PreparedFor, FabricInv, TypeOK, LinksTypeOK, NativePendingConnect

LEMMA PreparedForFrom ==
    ASSUME FabricInv, SessionShape, HandlesInv, NEW e \in Endpoints, Acts(e),
           NEW c, NEW f, NEW h, PreparedFor(c, f, h)'
    PROVE  \/ PreparedFor(c, f, h) /\ PreparedHandle(c, f, h)
           \/ PreparedNow(e, c, h) /\ f = e /\ h = next_channel_handle[e] /\ h \in Nat
  <1>1. PreparedKept(c) \/ PreparedNow(e, c, h)
    BY PreparedFrom DEF PreparedFor
  <1>2. CASE PreparedKept(c)
    BY <1>2 DEF PreparedKept, PreparedFor, HandlesInv, PreparedHandles
  <1>3. CASE PreparedNow(e, c, h)
    BY <1>3, AllocMeans, HandlesAreNumbers DEF PreparedNow, NewAccept, PreparedFor
  <1> QED
    BY <1>1, <1>2, <1>3

LEMMA PreparedStep ==
    ASSUME FabricInv, FabricInv', SessionShape, SessionShape', HandshakeEnds, HandlesInv,
           SessionNext, NEW e \in Endpoints, Acts(e), NEW c, NEW f, NEW h, PreparedFor(c, f, h)'
    PROVE  PreparedHandle(c, f, h)'
  <1>0. f \in Endpoints /\ h \in Nat
    BY HandlesAreNumbers DEF PreparedFor, FabricInv, TypeOK, LinksTypeOK, NativePendingConnect
  <1>h. /\ next_channel_handle[f] \in Nat /\ next_channel_handle'[f] \in Nat
        /\ next_channel_handle[f] <= next_channel_handle'[f]
    BY <1>0, ActsAllocate DEF HandlesGrow, SessionShape, TablesOK
  <1>1. CASE PreparedNow(e, c, h) /\ f = e /\ h = next_channel_handle[e]
    <2>1. h < next_channel_handle'[f]
      BY <1>1, <1>h, AllocMeans DEF PreparedNow, NewAccept
    <2>2. Unlinked(f, h)'
      <3>1. Unlinked(f, h)
        BY <1>0, <1>1, <1>h DEF HandlesInv, FreshHandles
      <3> QED
        BY <1>0, <1>1, <3>1, StaysUnlinked DEF PreparedNow, Unlinked
    <2>3. ASSUME NEW d, PreparedFor(d, f, h)' PROVE d = c
      <3>1. ~PreparedHandle(d, f, h)
        BY <1>1, <1>h DEF PreparedHandle
      <3>2. PreparedNow(e, d, h)
        BY <2>3, <3>1, PreparedForFrom
      <3> QED
        BY <1>1, <3>2 DEF PreparedNow
    <2>4. transfers'[f][h].provisional = {c} /\ transfers'[f][h].sent = 0
      BY <1>1 DEF PreparedNow, NewAccept, Transfer
    <2> QED
      BY <2>1, <2>2, <2>3, <2>4 DEF PreparedHandle
  <1>2. CASE PreparedFor(c, f, h) /\ PreparedHandle(c, f, h)
    <2>1. h < next_channel_handle'[f] /\ h < next_channel_handle[f]
      BY <1>0, <1>2, <1>h DEF PreparedHandle
    <2>2. Unlinked(f, h)'
      <3>1. ASSUME <<f, h>> \in DOMAIN native_links' PROVE FALSE
        <4>1. PICK n \in Sizes, a \in Endpoints, g \in ChannelHandles : \E x, m :
                  LinkMade(e, <<f, h>>, x, n, m, a, g)
          BY <1>2, <3>1, NewLinks DEF PreparedHandle, Unlinked
        <4>2. PICK x, m : LinkMade(e, <<f, h>>, x, n, m, a, g)
          BY <4>1
        <4>3. ~(f = e /\ h = x)
          BY <2>1, <4>2, <1>0, <1>h DEF LinkMade
        <4>4. CASE f = a /\ h = g
          <5>1. PreparedFor(EventOf(e).id, f, h)
            BY <4>2, <4>4 DEF LinkMade, Joins, PreparedFor
          <5>2. c = EventOf(e).id
            BY <1>2, <5>1 DEF PreparedHandle
          <5>3. PICK m2 : native_complete_connect(e, c, next_channel_handle[e], m2)
            BY <4>2, <5>2 DEF LinkMade, NewConnect
          <5>4. c \notin DOMAIN native_pending'
            BY <5>3 DEF native_complete_connect, Without
          <5> QED
            BY <5>4 DEF PreparedFor
        <4> QED
          BY <4>2, <4>3, <4>4 DEF LinkMade
      <3> QED
        BY <1>0, <1>2, <3>1, StaysUnlinked DEF PreparedHandle
    <2>3. ASSUME NEW d, PreparedFor(d, f, h)' PROVE d = c
      <3>1. ~PreparedNow(e, d, h) \/ f # e \/ h # next_channel_handle[e]
        BY <1>0, <1>h, <2>1
      <3>2. PreparedFor(d, f, h)
        BY <2>3, <3>1, PreparedForFrom
      <3> QED
        BY <1>2, <3>2 DEF PreparedHandle
    <2>4. ASSUME h \in DOMAIN transfers'[f]
          PROVE  transfers'[f][h].provisional = {c} /\ transfers'[f][h].sent = 0
      <3>1. ~(f = e /\ (NewAccept(e, h) \/ NewConnect(e, h)))
        BY <1>0, <1>h, <2>1 DEF NewAccept, NewConnect
      <3>2. /\ h \in DOMAIN transfers[f]
            /\ transfers'[f][h] = transfers[f][h] \/ (f = e /\ Updates(e, h))
        BY <1>0, <2>4, <3>1, TransferMoves
      <3>3. /\ transfers[f][h].provisional = {c} /\ transfers[f][h].sent = 0
            /\ transfers[f][h] \in TransferType
        BY <1>0, <1>2, <3>2, TransferHere DEF PreparedHandle
      <3>4. CASE f = e /\ Updates(e, h)
        <4>0. \A kind : Handling(e, kind) =>
                 /\ EventOf(e) \in Queued(e) /\ EventOf(e).kind = kind
          BY EventInHand DEF FabricInv, TypeOK, SessionShape, Queued
        <4>1. ~Committing(e, h)
          <5>1. ASSUME Committing(e, h) PROVE FALSE
            <6>1. /\ EventOf(e) \in Queued(e) /\ EventOf(e).kind = "ConnectCommitted"
                  /\ EventOf(e).id = c
              BY <3>3, <3>4, <4>0, <5>1 DEF Committing
            <6>2. c \in DOMAIN native_pending
              BY <1>2 DEF PreparedFor
            <6> QED
              BY <6>1, <6>2 DEF HandshakeEnds
          <5> QED
            BY <5>1
        <4>2. ~Forwarding(e, h) /\ ~Crediting(e, h) /\ ~HalfClosing(e, h)
          BY <1>2, <3>4, <4>0
          DEF Forwarding, Crediting, HalfClosing, PreparedHandle, Unlinked, LinkKinds, RoutedKinds
        <4>3. ~FrameCredit(e, h) /\ ~FrameMessage(e, h) /\ ~FrameClose(e, h)
          BY <3>3, <3>4 DEF FrameCredit, FrameMessage, FrameClose, Announced
        <4> QED
          BY <3>4, <4>1, <4>2, <4>3 DEF Updates
      <3> QED
        BY <3>2, <3>3, <3>4
    <2> QED
      BY <2>1, <2>2, <2>3, <2>4 DEF PreparedHandle
  <1> QED
    BY <1>1, <1>2, PreparedForFrom

LEMMA HandlesStep ==
    ASSUME FabricInv, FabricInv', SessionShape, SessionShape', HandshakeEnds, HandlesInv,
           SessionNext, NEW e \in Endpoints, Acts(e)
    PROVE  HandlesInv'
  <1>1. ASSUME NEW c, NEW f, NEW h, PreparedFor(c, f, h)' PROVE PreparedHandle(c, f, h)'
    BY <1>1, PreparedStep
  <1>2. PreparedHandles'
    BY <1>1 DEF PreparedHandles
  <1> QED
    BY <1>2, FreshStep DEF HandlesInv

-----------------------------------------------------------------------------
(* Credit is never over-granted. *)

LEMMA NewConnectMakes ==
    ASSUME FabricInv, NEW e \in Endpoints, NEW h, NewConnect(e, h)
    PROVE  \E n \in Sizes, a \in Endpoints, g \in ChannelHandles : \E m :
              LinkMade(e, <<e, h>>, h, n, m, a, g)
  <1>1. PICK c : c = EventOf(e).id
    OBVIOUS
  <1>2. PICK n \in Sizes : \E m :
              /\ native_complete_connect(e, c, h, m)
              /\ transfers'[e][h] = Transfer({}, 0, 0, n, m)
              /\ step'[e] = Step("publish", c, h, n)
    BY <1>1 DEF NewConnect
  <1>3. PICK m : /\ native_complete_connect(e, c, h, m)
                 /\ transfers'[e][h] = Transfer({}, 0, 0, n, m)
                 /\ step'[e] = Step("publish", c, h, n)
    BY <1>2
  <1>4. PICK a \in Endpoints, g \in ChannelHandles : Joins(e, c, h, m, a, g)
    BY <1>3, CompleteJoins
  <1>5. LinkMade(e, <<e, h>>, h, n, m, a, g)
    BY <1>1, <1>3, <1>4 DEF LinkMade, NewConnect
  <1> QED
    BY <1>5

(* A publish step is left by the step that made its link. *)
LEMMA PublishFrom ==
    ASSUME FabricInv, SessionShape, SessionLives, NEW e \in Endpoints, Acts(e), NEW f \in Endpoints,
           step'[f].at = "publish"
    PROVE  \/ step'[f] = step[f] /\ transfers'[f] = transfers[f]
           \/ f = e /\ \E h : NewConnect(e, h) /\ SetsTransfer(e, h, transfers'[e][h])
  <1>1. CASE f # e
    BY <1>1, OthersStay DEF OthersKeep
  <1>2. CASE f = e
    <2>t. \A s : Then(e, s) => step'[e] = s
      BY StepMeans
    <2>a. After(e).at # "publish" /\ Finish.at # "publish" /\ Idle.at # "publish"
      BY AfterOK, StepValues
    <2>i. \A at, c, h, n : Step(at, c, h, n).at = at
      BY DEF Step
    <2>l. Listening(e) => step[e].at # "publish"
      BY <2>a DEF Listening
    <2>n. ~Running(e) => step[e].at # "publish"
      BY <2>a DEF SessionLives
    <2>1. CASE on_connect_prepared(e)
      <3>0. PICK h : h = next_channel_handle[e]
        OBVIOUS
      <3>1. PICK n \in Sizes : \E m :
              /\ m = (IF EventOf(e).max < n THEN EventOf(e).max ELSE n)
              /\ alloc_channel_handle(e)
              /\ native_complete_connect(e, EventOf(e).id, h, m)
              /\ SetTransfer(e, h, Transfer({}, 0, 0, n, m))
              /\ Then(e, Step("publish", EventOf(e).id, h, n))
        BY <1>2, <2>1, <2>t, <2>a, <2>i, <3>0 DEF on_connect_prepared
      <3>2. PICK m :
              /\ m = (IF EventOf(e).max < n THEN EventOf(e).max ELSE n)
              /\ alloc_channel_handle(e)
              /\ native_complete_connect(e, EventOf(e).id, h, m)
              /\ SetTransfer(e, h, Transfer({}, 0, 0, n, m))
              /\ Then(e, Step("publish", EventOf(e).id, h, n))
        BY <3>1
      <3>3. /\ transfers'[e][h] = Transfer({}, 0, 0, n, m)
            /\ step'[e] = Step("publish", EventOf(e).id, h, n)
            /\ SetsTransfer(e, h, transfers'[e][h])
        BY <2>t, <3>2, SetIs
      <3>4. Handling(e, "ConnectPrepared")
        BY <2>1 DEF on_connect_prepared
      <3>5. NewConnect(e, h)
        BY <3>0, <3>2, <3>3, <3>4 DEF NewConnect
      <3> QED
        BY <1>2, <3>3, <3>5
    <2>r. /\ \A s : Then(e, s) => s.at = "publish"
          /\ ~Then(e, Idle) /\ ~Then(e, Finish) /\ ~Then(e, After(e))
          /\ \A c, h, n : ~Then(e, Step("cancel", c, h, n)) /\ ~Then(e, Step("reset", c, h, n))
      <3>1. \A s : Then(e, s) => s.at = "publish"
        BY <1>2, <2>t
      <3>2. \A c, h, n : ~Then(e, Step("cancel", c, h, n)) /\ ~Then(e, Step("reset", c, h, n))
        <4>1. \A c, h, n : Step("cancel", c, h, n).at = "cancel" /\ Step("reset", c, h, n).at = "reset"
          BY <2>i
        <4> QED
          BY <3>1, <4>1
      <3> QED
        BY <2>a, <3>1, <3>2
    <2>2. HandleEvent(e) => on_connect_prepared(e) \/ lost_transfer(e)
      <3>1. ~finish_event(e) /\ ~do_cancel(e) /\ ~do_fail(e) /\ ~do_publish(e) /\ ~do_reset(e)
        BY <2>r DEF finish_event, do_cancel, do_fail, do_publish, do_reset
      <3>2. ~on_incoming_connect(e)
        BY <2>r DEF on_incoming_connect
      <3>3. ~on_connect_committed(e) /\ ~on_connect_aborted(e) /\ ~on_message(e) /\ ~on_credit(e)
            /\ ~on_close(e) /\ ~on_reset(e)
        BY <2>r DEF on_connect_committed, on_connect_aborted, on_message, on_credit, on_close,
                   on_reset
      <3> QED
        BY <3>1, <3>2, <3>3 DEF HandleEvent
    <2>3. CASE lost_transfer(e)
      BY <1>2, <2>3 DEF lost_transfer, runtime
    <2>4. ~take_event(e) /\ ~take_terminal(e) /\ ~Requests(e)
      BY <1>2, <2>l
      DEF take_event, take_terminal, locals, Requests, channel_listen, channel_close_listener,
          channel_connect, cancel_request
    <2>5. ~TransferFrames(e)
      <3>1. Listening(e) => ~UNCHANGED step
        BY <1>2, <2>l
      <3>2. \A h : ~Reject(e, h)
        BY <2>r DEF Reject
      <3>3. \A h, n : ~transfer_credit(e, h, n) /\ ~transfer_message(e, h, n)
        BY <3>1, <3>2 DEF transfer_credit, transfer_message
      <3>4. \A h, n : ~transfer_close(e, h, n) /\ ~transfer_reset(e, h)
        BY <3>1, <3>2 DEF transfer_close, transfer_reset
      <3> QED
        BY <3>3, <3>4 DEF TransferFrames
    <2>6. CASE open_session(e) \/ drop_session(e)
      BY <1>2, <2>6 DEF open_session, drop_session, locals, runtime
    <2>7. ~stop_session(e) /\ ~cleanup_session(e)
      BY <1>2, <2>t, <2>a, <2>n DEF stop_session, cleanup_session, Running
    <2> QED
      BY <2>1, <2>2, <2>3, <2>4, <2>5, <2>6, <2>7 DEF Acts, EndOfSession
  <1> QED
    BY <1>1, <1>2

(* What a session about to publish has, and which link an accept is on. *)
Publishing(e, h) ==
    /\ h \in DOMAIN transfers[e] /\ transfers[e][h].provisional = {}
    /\ step[e].amount <= transfers[e][h].flow
    /\ <<e, h>> \in DOMAIN native_links =>
           /\ native_links[<<e, h>>].connect_id = step[e].id
           /\ native_links[<<e, h>>].side.role = "connector"
PublishInv == \A e \in Endpoints : step[e].at = "publish" => Publishing(e, step[e].handle)
AcceptLink(e, h, c) ==
    <<e, h>> \in DOMAIN native_links =>
        native_links[<<e, h>>].connect_id = c /\ native_links[<<e, h>>].side.role = "listener"
AcceptInv == \A e \in Endpoints : \A h, c : ProvisionalFor(e, h, c) => AcceptLink(e, h, c)

(* A new link joins a handle just allocated to a prepared one. *)
LEMMA LinkJoins ==
    ASSUME FabricInv, SessionShape, HandlesInv, NEW e \in Endpoints, Acts(e), NEW f \in Endpoints,
           NEW h, <<f, h>> \in DOMAIN native_links', <<f, h>> \notin DOMAIN native_links
    PROVE  \/ f = e /\ NewConnect(e, h) /\ h \notin DOMAIN transfers[e]
           \/ \E c : /\ PreparedFor(c, f, h) /\ PreparedHandle(c, f, h)
                     /\ native_links'[<<f, h>>].connect_id = c
                     /\ native_links'[<<f, h>>].side.role = "listener"
                     /\ \E g : NewConnect(e, g)
  <1>1. PICK n \in Sizes, a \in Endpoints, g \in ChannelHandles : \E x, m :
            LinkMade(e, <<f, h>>, x, n, m, a, g)
    BY NewLinks
  <1>2. PICK x, m : LinkMade(e, <<f, h>>, x, n, m, a, g)
    BY <1>1
  <1>3. CASE f = e /\ h = x
    <2>1. h \notin DOMAIN transfers[e]
      <3>1. h = next_channel_handle[e]
        BY <1>2, <1>3 DEF LinkMade
      <3> QED
        BY <3>1, TransferHere
    <2> QED
      BY <1>2, <1>3, <2>1 DEF LinkMade
  <1>4. CASE f = a /\ h = g
    <2>1. PICK c : c = EventOf(e).id
      OBVIOUS
    <2>2. PreparedFor(c, f, h) /\ PreparedHandle(c, f, h)
      BY <1>2, <1>4, <2>1 DEF LinkMade, Joins, PreparedFor, HandlesInv, PreparedHandles
    <2>3. /\ native_links'[<<f, h>>].connect_id = c
          /\ native_links'[<<f, h>>].side.role = "listener" /\ NewConnect(e, x)
      BY <1>2, <1>4, <2>1 DEF LinkMade, Joins
    <2> QED
      BY <2>2, <2>3
  <1> QED
    BY <1>2, <1>3, <1>4 DEF LinkMade

LEMMA PublishStep ==
    ASSUME FabricInv, SessionShape, SessionLives, HandlesInv, PublishInv,
           NEW e \in Endpoints, Acts(e), NEW f \in Endpoints, NEW h,
           step'[f].at = "publish", step'[f].handle = h
    PROVE  Publishing(f, h)'
  <1>1. CASE step'[f] = step[f] /\ transfers'[f] = transfers[f]
    <2>1. Publishing(f, h)
      BY <1>1 DEF PublishInv
    <2>2. ASSUME <<f, h>> \in DOMAIN native_links'
          PROVE  /\ native_links'[<<f, h>>].connect_id = step'[f].id
                 /\ native_links'[<<f, h>>].side.role = "connector"
      <3>1. <<f, h>> \in DOMAIN native_links
        <4>1. SUFFICES ASSUME <<f, h>> \notin DOMAIN native_links PROVE FALSE
          OBVIOUS
        <4> QED
          BY <2>1, <2>2, <4>1, LinkJoins DEF Publishing, PreparedHandle
      <3> QED
        BY <1>1, <2>1, <2>2, <3>1, LinkStays DEF Publishing
    <2> QED
      BY <1>1, <2>1, <2>2 DEF Publishing
  <1>2. ASSUME NEW g, f = e, NewConnect(e, g), SetsTransfer(e, g, transfers'[e][g])
        PROVE  Publishing(f, h)'
    <2>1. PICK n \in Sizes, a \in Endpoints, b \in ChannelHandles : \E m :
              LinkMade(e, <<e, g>>, g, n, m, a, b)
      BY <1>2, NewConnectMakes
    <2>2. PICK m : LinkMade(e, <<e, g>>, g, n, m, a, b)
      BY <2>1
    <2>3. h = g /\ n \in Nat
      BY <1>2, <2>2, FabricAssumption DEF LinkMade, Step
    <2>4. /\ transfers'[e][g] = Transfer({}, 0, 0, n, m) /\ step'[e].id = EventOf(e).id
          /\ step'[e].amount = n
      BY <2>2 DEF LinkMade, Step
    <2>5. g \in DOMAIN transfers'[e]
      BY <1>2 DEF SetsTransfer
    <2>6. /\ native_links'[<<e, g>>].connect_id = EventOf(e).id
          /\ native_links'[<<e, g>>].side.role = "connector"
      BY <2>2 DEF LinkMade, Joins
    <2> QED
      BY <1>2, <2>3, <2>4, <2>5, <2>6 DEF Publishing, Transfer
  <1> QED
    BY <1>1, <1>2, PublishFrom

-----------------------------------------------------------------------------
(* A handle that gets a link, or a transfer, had neither link nor event. *)
LEMMA NewIsUnlinked ==
    ASSUME FabricInv, SessionShape, HandlesInv, NEW e \in Endpoints, Acts(e), NEW f \in Endpoints,
           NEW h,
           \/ <<f, h>> \in DOMAIN native_links' /\ <<f, h>> \notin DOMAIN native_links
           \/ h \in DOMAIN transfers'[f] /\ h \notin DOMAIN transfers[f]
    PROVE  Unlinked(f, h)
  <1>1. ASSUME f = e, h = next_channel_handle[e] PROVE Unlinked(f, h)
    BY <1>1 DEF HandlesInv, FreshHandles, SessionShape, TablesOK
  <1>2. CASE <<f, h>> \in DOMAIN native_links' /\ <<f, h>> \notin DOMAIN native_links
    BY <1>1, <1>2, LinkJoins DEF NewConnect, PreparedHandle
  <1>3. CASE h \in DOMAIN transfers'[f] /\ h \notin DOMAIN transfers[f]
    BY <1>1, <1>3, TransferMoves DEF NewConnect, NewAccept
  <1> QED
    BY <1>2, <1>3

LEMMA AcceptStep ==
    ASSUME FabricInv, SessionShape, HandlesInv, AcceptInv, NEW e \in Endpoints, Acts(e),
           NEW f \in Endpoints, NEW h, NEW c, ProvisionalFor(f, h, c)'
    PROVE  AcceptLink(f, h, c)'
  <1>0. SUFFICES ASSUME <<f, h>> \in DOMAIN native_links'
                 PROVE  /\ native_links'[<<f, h>>].connect_id = c
                        /\ native_links'[<<f, h>>].side.role = "listener"
    BY DEF AcceptLink
  <1>1. h \in DOMAIN transfers'[f] /\ c \in transfers'[f][h].provisional
    BY DEF ProvisionalFor
  <1>2. ASSUME h \in DOMAIN transfers[f]
        PROVE  transfers'[f][h].provisional = transfers[f][h].provisional
    BY <1>1, <1>2, TransferGrows
  <1>3. CASE <<f, h>> \in DOMAIN native_links
    <2>1. h \in DOMAIN transfers[f]
      BY <1>1, <1>3, NewIsUnlinked DEF Unlinked
    <2>2. AcceptLink(f, h, c)
      BY <1>1, <1>2, <2>1 DEF AcceptInv, ProvisionalFor
    <2> QED
      BY <1>0, <1>3, <2>2, LinkStays DEF AcceptLink
  <1>4. CASE <<f, h>> \notin DOMAIN native_links
    <2>1. ~(f = e /\ NewConnect(e, h))
      <3>1. \A n, m : Transfer({}, 0, 0, n, m).provisional = {}
        BY DEF Transfer
      <3>2. NewConnect(e, h) => \E n, m : transfers'[e][h] = Transfer({}, 0, 0, n, m)
        BY DEF NewConnect
      <3> QED
        BY <1>1, <3>1, <3>2
    <2>2. PICK d : /\ PreparedHandle(d, f, h) /\ native_links'[<<f, h>>].connect_id = d
                   /\ native_links'[<<f, h>>].side.role = "listener"
      BY <1>0, <1>4, <2>1, LinkJoins
    <2>3. h \in DOMAIN transfers[f]
      <3>1. h # next_channel_handle[f]
        BY <2>2 DEF PreparedHandle, SessionShape, TablesOK
      <3> QED
        BY <1>1, <3>1, TransferMoves DEF NewConnect, NewAccept
    <2> QED
      BY <1>1, <1>2, <2>2, <2>3 DEF PreparedHandle
  <1> QED
    BY <1>3, <1>4

(* What the other session grants. *)
OnLink(e, h, f, g) == <<e, h>> \in DOMAIN native_links /\ peer_key(<<e, h>>) = <<f, g>>
FlowCovers(f, g, n) == g \in DOMAIN transfers[f] => n <= transfers[f][g].flow
CreditEvents ==
    \A e, f \in Endpoints : \A g : \A v \in Queued(e) :
        v.kind = "Credit" /\ OnLink(e, v.handle, f, g) => FlowCovers(f, g, v.amount)
CommitFor(v, e, h, f, g) ==
    OnLink(e, h, f, g) /\ native_links[<<e, h>>].connect_id = v.id
       /\ native_links[<<e, h>>].side.role = "listener" =>
           v.max = native_links[<<e, h>>].max_item_bytes /\ FlowCovers(f, g, v.amount)
CommitEvents ==
    \A x, e, f \in Endpoints : \A h, g : \A v \in Queued(x) :
        v.kind = "ConnectCommitted" => CommitFor(v, e, h, f, g)
Covers(e, h, f, g) ==
    OnLink(e, h, f, g) /\ h \in DOMAIN transfers[e] /\ transfers[e][h].provisional = {} =>
        /\ transfers[e][h].max = native_links[<<e, h>>].max_item_bytes
        /\ FlowCovers(f, g, transfers[e][h].receive_limit)
CoversInv == \A e, f \in Endpoints : \A h, g : Covers(e, h, f, g)
CreditInv == PublishInv /\ AcceptInv /\ CreditEvents /\ CommitEvents /\ CoversInv

LEMMA OnLinkStays ==
    ASSUME FabricInv, SessionShape, NEW e \in Endpoints, Acts(e), NEW x, NEW h, NEW f, NEW g,
           OnLink(x, h, f, g)', <<x, h>> \in DOMAIN native_links
    PROVE  /\ OnLink(x, h, f, g) /\ <<f, g>> \in DOMAIN native_links
           /\ native_links'[<<x, h>>].connect_id = native_links[<<x, h>>].connect_id
           /\ native_links'[<<x, h>>].max_item_bytes = native_links[<<x, h>>].max_item_bytes
           /\ native_links'[<<x, h>>].side = native_links[<<x, h>>].side
  <1>1. PICK k : k = <<x, h>>
    OBVIOUS
  <1>2. k \in DOMAIN native_links /\ k \in DOMAIN native_links' /\ peer_key(k)' = <<f, g>>
    BY <1>1 DEF OnLink, peer_key
  <1>3. peer_key(k) = <<f, g>>
    BY <1>2, LinkStays
  <1>4. <<f, g>> \in DOMAIN native_links
    BY <1>2, <1>3, PeerIsLinked
  <1> QED
    BY <1>1, <1>2, <1>3, <1>4, LinkStays DEF OnLink

(* A grant is never taken back. *)
LEMMA FlowGrows ==
    ASSUME FabricInv, SessionShape, HandlesInv, NEW e \in Endpoints, Acts(e), NEW f \in Endpoints,
           NEW g, NEW n \in Nat, <<f, g>> \in DOMAIN native_links, FlowCovers(f, g, n)
    PROVE  FlowCovers(f, g, n)'
  <1>1. SUFFICES ASSUME g \in DOMAIN transfers'[f] PROVE n <= transfers'[f][g].flow
    BY DEF FlowCovers
  <1>2. g \in DOMAIN transfers[f]
    BY <1>1, NewIsUnlinked DEF Unlinked
  <1>3. transfers[f][g] \in TransferType /\ n <= transfers[f][g].flow
    BY <1>2, TransferHere DEF FlowCovers
  <1>4. CASE f = e /\ Updates(e, g)
    <2>1. CASE Committing(e, g) \/ Forwarding(e, g) \/ Crediting(e, g) \/ HalfClosing(e, g)
      BY <1>3, <1>4, <2>1 DEF Committing, Forwarding, Crediting, HalfClosing, TransferType
    <2>2. CASE FrameMessage(e, g) \/ FrameClose(e, g)
      BY <1>3, <1>4, <2>2 DEF FrameMessage, FrameClose, TransferType
    <2>3. CASE FrameCredit(e, g)
      <3>1. PICK limit \in Limits : \E flow \in transfers[e][g].flow .. limit :
              transfers'[e][g] = [transfers[e][g] EXCEPT !.asked = limit, !.flow = flow]
        BY <2>3 DEF FrameCredit
      <3>2. PICK flow \in transfers[e][g].flow .. limit :
              transfers'[e][g] = [transfers[e][g] EXCEPT !.asked = limit, !.flow = flow]
        BY <3>1
      <3>3. transfers'[e][g].flow = flow
        BY <1>3, <1>4, <3>2 DEF TransferType
      <3>4. transfers[e][g].flow \in Nat
        BY <1>3, <1>4 DEF TransferType
      <3> QED
        BY <1>3, <1>4, <3>2, <3>3, <3>4, FabricAssumption
    <2> QED
      BY <1>4, <2>1, <2>2, <2>3 DEF Updates
  <1> QED
    BY <1>1, <1>2, <1>3, <1>4, TransferMoves

LEMMA FlowIsEnough ==
    ASSUME SessionShape', NEW f \in Endpoints, NEW g, NEW n \in Nat, NEW m \in Nat, m <= n,
           FlowCovers(f, g, n)'
    PROVE  FlowCovers(f, g, m)'
  <1>1. g \in DOMAIN transfers'[f] => transfers'[f][g].flow \in Nat
    BY DEF SessionShape, TransfersOK, TransferOK, TransferType
  <1> QED
    BY <1>1 DEF FlowCovers

LEMMA QueuedType ==
    ASSUME FabricInv, NEW e \in Endpoints, NEW v \in Queued(e)
    PROVE  v \in EventType /\ v.amount \in Nat
  <1>1. /\ events[e] \in Seq(EventType) /\ terminal_events[e] \subseteq EventType
        /\ in_hand[e] \subseteq EventType
    BY DEF FabricInv, TypeOK, LanesTypeOK
  <1>2. \A i \in DOMAIN events[e] : events[e][i] \in EventType
    BY <1>1
  <1>3. v \in EventType
    BY <1>1, <1>2 DEF Queued
  <1> QED
    BY <1>3 DEF EventType

LEMMA CreditEventStep ==
    ASSUME FabricInv, SessionShape, SessionShape', SessionNext, HandlesInv, CreditEvents,
           NEW e \in Endpoints, Acts(e),
           NEW x \in Endpoints, NEW f \in Endpoints, NEW g, NEW v \in Queued(x)',
           v.kind = "Credit", OnLink(x, v.handle, f, g)'
    PROVE  FlowCovers(f, g, v.amount)'
  <1>1. CASE v \in Queued(x)
    <2>1. <<x, v.handle>> \in DOMAIN native_links
      <3>1. <<x, v.handle>> \in DOMAIN native_links'
        BY DEF OnLink
      <3>2. ~Unlinked(x, v.handle)
        BY <1>1 DEF Unlinked, LinkKinds, RoutedKinds
      <3> QED
        BY <3>1, <3>2, NewIsUnlinked
    <2>2. PICK h : h = v.handle
      OBVIOUS
    <2>3. OnLink(x, h, f, g) /\ <<f, g>> \in DOMAIN native_links
      BY <2>1, <2>2, OnLinkStays
    <2> QED
      BY <1>1, <2>2, <2>3, FlowGrows, QueuedType DEF CreditEvents
  <1>2. CASE v \notin Queued(x)
    <2>1. NewCredit(e, x, v)
      BY <1>2, QueuedNew DEF Arrives, Handshakes, NewCommit, NewTraffic
    <2>2. PICK h : /\ <<e, h>> \in DOMAIN native_links /\ peer_key(<<e, h>>) = <<x, v.handle>>
                   /\ v.amount = transfers'[e][h].flow /\ SendsCredit(e, h)
      BY <2>1 DEF NewCredit
    <2>3. UNCHANGED native_links /\ h \in DOMAIN transfers'[e]
      BY <2>2 DEF SendsCredit, native_send_credit, SetsTransfer
    <2>4. peer_key(<<x, v.handle>>) = <<e, h>>
      BY <2>2, PeerIsLinked
    <2>5. f = e /\ g = h
      BY <2>3, <2>4 DEF OnLink, peer_key
    <2>6. transfers'[e][h].flow \in Nat
      BY <2>3 DEF SessionShape, TransfersOK, TransferOK, TransferType
    <2> QED
      BY <2>2, <2>5, <2>6 DEF FlowCovers
  <1> QED
    BY <1>1, <1>2

LEMMA CommitEventStep ==
    ASSUME FabricInv, FabricInv', SessionShape, SessionShape', SessionNext, HandshakeEnds, HandlesInv,
           PublishInv, CommitEvents, NEW e \in Endpoints, Acts(e),
           NEW x \in Endpoints, NEW a \in Endpoints, NEW f \in Endpoints, NEW h, NEW g,
           NEW v \in Queued(x)', v.kind = "ConnectCommitted"
    PROVE  CommitFor(v, a, h, f, g)'
  <1> DEFINE k == <<a, h>>
  <1>0. SUFFICES ASSUME OnLink(a, h, f, g)', native_links'[k].connect_id = v.id,
                        native_links'[k].side.role = "listener"
                 PROVE  v.max = native_links'[k].max_item_bytes /\ FlowCovers(f, g, v.amount)'
    BY DEF CommitFor
  <1>1. CASE v \in Queued(x)
    <2>1. k \in DOMAIN native_links
      <3>1. SUFFICES ASSUME k \notin DOMAIN native_links PROVE FALSE
        OBVIOUS
      <3>2. k \in DOMAIN native_links'
        BY <1>0 DEF OnLink
      <3>3. ~PreparedFor(v.id, a, h)
        BY <1>1 DEF HandshakeEnds, PreparedFor
      <3>4. a = e /\ NewConnect(e, h)
        BY <1>0, <3>1, <3>2, <3>3, LinkJoins
      <3>5. PICK n \in Sizes, b \in Endpoints, w \in ChannelHandles : \E m :
               LinkMade(e, <<e, h>>, h, n, m, b, w)
        BY <3>4, NewConnectMakes
      <3>6. native_links'[<<e, h>>].side.role = "connector"
        BY <3>5 DEF LinkMade, Joins
      <3> QED
        BY <1>0, <3>4, <3>6
    <2>2. /\ OnLink(a, h, f, g) /\ <<f, g>> \in DOMAIN native_links
          /\ native_links'[k].connect_id = native_links[k].connect_id
          /\ native_links'[k].max_item_bytes = native_links[k].max_item_bytes
          /\ native_links'[k].side = native_links[k].side
      BY <1>0, <2>1, OnLinkStays
    <2>3. v.max = native_links[k].max_item_bytes /\ FlowCovers(f, g, v.amount)
      <3>1. CommitFor(v, a, h, f, g)
        BY <1>1 DEF CommitEvents
      <3> QED
        BY <1>0, <2>2, <3>1 DEF CommitFor
    <2> QED
      BY <1>1, <2>2, <2>3, FlowGrows, QueuedType
  <1>2. CASE v \notin Queued(x)
    <2>0. NewCommit(e, x, v)
      BY <1>2, QueuedNew DEF Arrives, Handshakes, NewCredit, NewTraffic
    <2>1. PICK u : u = step[e].handle
      OBVIOUS
    <2> DEFINE j == <<e, u>>
    <2>2. /\ SendsCommit(e) /\ j \in DOMAIN native_links /\ v.id = step[e].id
          /\ v.amount = step[e].amount /\ v.max = native_links[j].max_item_bytes
      BY <2>0, <2>1 DEF NewCommit
    <2>3. Publishing(e, u)
      BY <2>1, <2>2 DEF SendsCommit, PublishInv
    <2>4. k \in DOMAIN native_links
      BY <1>0, <2>2 DEF SendsCommit, native_publish_connect, OnLink
    <2>5. /\ OnLink(a, h, f, g) /\ <<f, g>> \in DOMAIN native_links
          /\ native_links'[k].connect_id = native_links[k].connect_id
          /\ native_links'[k].max_item_bytes = native_links[k].max_item_bytes
          /\ native_links'[k].side = native_links[k].side
      BY <1>0, <2>4, OnLinkStays
    <2>6. native_links[k].connect_id = native_links[j].connect_id /\ k # j
      BY <1>0, <2>2, <2>3, <2>5 DEF Publishing
    <2>7. k = peer_key(j)
      <3>1. \A i \in DOMAIN native_links :
               native_links[i].connect_id = native_links[j].connect_id => i \in {j, peer_key(j)}
        BY <2>2 DEF FabricInv, OneStage
      <3> QED
        BY <2>4, <2>6, <3>1
    <2>8. peer_key(k) = j /\ native_links[k].max_item_bytes = native_links[j].max_item_bytes
      BY <2>2, <2>7 DEF FabricInv, LinkSymmetry
    <2>9. f = e /\ g = u
      BY <2>5, <2>8 DEF OnLink
    <2>10. FlowCovers(f, g, v.amount) /\ v.amount \in Nat
      <3>1. step[e] \in StepType
        BY DEF SessionShape, StepsOK
      <3>2. step[e].amount \in Nat
        BY <3>1 DEF StepType
      <3> QED
        BY <2>2, <2>3, <2>9, <3>2 DEF Publishing, FlowCovers
    <2> QED
      BY <2>2, <2>5, <2>8, <2>10, FlowGrows
  <1> QED
    BY <1>1, <1>2

LEMMA CoversStep ==
    ASSUME FabricInv, FabricInv', SessionShape, SessionShape', HandlesInv, AcceptInv, CreditEvents,
           CommitEvents, CoversInv, NEW e \in Endpoints, Acts(e),
           NEW a \in Endpoints, NEW f \in Endpoints, NEW h, NEW g
    PROVE  Covers(a, h, f, g)'
  <1> DEFINE k == <<a, h>>
  <1>0. SUFFICES ASSUME OnLink(a, h, f, g)', h \in DOMAIN transfers'[a],
                        transfers'[a][h].provisional = {}
                 PROVE  /\ transfers'[a][h].max = native_links'[k].max_item_bytes
                        /\ FlowCovers(f, g, transfers[a][h].receive_limit)'
    BY DEF Covers
  <1>k. k \in DOMAIN native_links'
    BY <1>0 DEF OnLink
  <1>1. CASE k \notin DOMAIN native_links
    <2>1. CASE a = e /\ NewConnect(e, h)
      <3>1. PICK n \in Sizes, b \in Endpoints, w \in ChannelHandles : \E m :
               LinkMade(e, <<e, h>>, h, n, m, b, w)
        BY <2>1, NewConnectMakes
      <3>2. PICK m : LinkMade(e, <<e, h>>, h, n, m, b, w)
        BY <3>1
      <3>3. native_links'[<<e, h>>].max_item_bytes = m
        BY <3>2 DEF LinkMade, Joins
      <3>4. transfers'[e][h].max = m /\ transfers'[e][h].receive_limit = 0
        BY <3>2 DEF LinkMade, Transfer
      <3>5. g \in DOMAIN transfers'[f] => 0 <= transfers'[f][g].flow
        BY DEF SessionShape, TransfersOK, TransferOK, TransferType
      <3> QED
        BY <2>1, <3>3, <3>4, <3>5 DEF FlowCovers
    <2>2. ASSUME NEW c, PreparedHandle(c, a, h) PROVE FALSE
      <3>1. h # next_channel_handle[a]
        BY <2>2 DEF PreparedHandle, SessionShape, TablesOK
      <3>2. h \in DOMAIN transfers[a]
        BY <1>0, <3>1, TransferMoves DEF NewConnect, NewAccept
      <3>3. transfers[a][h].provisional = {c}
        BY <2>2, <3>2 DEF PreparedHandle
      <3>4. Committing(e, h)
        BY <1>0, <3>2, <3>3, TransferGrows
      <3> QED
        BY <1>1, <1>k, <3>4 DEF Committing, fabric
    <2> QED
      BY <1>1, <1>k, <2>1, <2>2, LinkJoins
  <1>2. CASE k \in DOMAIN native_links
    <2>1. /\ OnLink(a, h, f, g) /\ <<f, g>> \in DOMAIN native_links
          /\ native_links'[k].max_item_bytes = native_links[k].max_item_bytes
      BY <1>0, <1>2, OnLinkStays
    <2>2. h \in DOMAIN transfers[a] /\ transfers[a][h] \in TransferType
      BY <1>0, <1>2, NewIsUnlinked, TransferHere DEF Unlinked
    <2>3. PICK t : t = transfers[a][h]
      OBVIOUS
    <2>4. ASSUME transfers'[a][h].max = t.max, transfers'[a][h].receive_limit = t.receive_limit,
                 t.provisional = {}
          PROVE  /\ transfers'[a][h].max = native_links'[k].max_item_bytes
                 /\ FlowCovers(f, g, transfers[a][h].receive_limit)'
      <3>1. t.max = native_links[k].max_item_bytes /\ FlowCovers(f, g, t.receive_limit)
        BY <2>1, <2>2, <2>3, <2>4 DEF CoversInv, Covers
      <3>2. t.receive_limit \in Nat
        BY <2>2, <2>3 DEF TransferType
      <3>3. FlowCovers(f, g, t.receive_limit)'
        BY <2>1, <3>1, <3>2, FlowGrows
      <3> QED
        BY <2>1, <2>4, <3>1, <3>3 DEF FlowCovers
    <2>5. CASE transfers'[a][h] = transfers[a][h]
      BY <1>0, <2>3, <2>4, <2>5
    <2>6. ASSUME NEW v \in Queued(e), NEW n \in Nat, n <= v.amount, FlowCovers(f, g, v.amount),
                 transfers'[a][h].receive_limit = n
          PROVE  FlowCovers(f, g, transfers[a][h].receive_limit)'
      <3>1. v.amount \in Nat
        BY QueuedType
      <3>2. FlowCovers(f, g, v.amount)'
        BY <2>1, <2>6, <3>1, FlowGrows
      <3>3. FlowCovers(f, g, n)'
        BY <2>6, <3>1, <3>2, FlowIsEnough
      <3> QED
        BY <2>6, <3>3 DEF FlowCovers
    <2>7. CASE a = e /\ Committing(e, h)
      <3>1. PICK v : v = EventOf(e)
        OBVIOUS
      <3>2. PICK n \in Limits :
               /\ n <= v.amount
               /\ transfers'[e][h] = [t EXCEPT !.provisional = {}, !.max = v.max, !.receive_limit = n]
        BY <2>3, <2>7, <3>1 DEF Committing
      <3>3. /\ Handling(e, "ConnectCommitted") /\ t.provisional = {v.id}
        BY <2>3, <2>7, <3>1 DEF Committing
      <3>4. v \in Queued(e) /\ v.kind = "ConnectCommitted"
        BY <3>1, <3>3, EventInHand DEF FabricInv, TypeOK, SessionShape, Queued
      <3>5. AcceptLink(a, h, v.id)
        BY <2>2, <2>3, <3>3 DEF AcceptInv, ProvisionalFor
      <3>6. v.max = native_links[k].max_item_bytes /\ FlowCovers(f, g, v.amount)
        BY <1>2, <2>1, <3>4, <3>5 DEF CommitEvents, CommitFor, AcceptLink
      <3>7. transfers'[a][h].max = v.max /\ transfers'[a][h].receive_limit = n
        BY <2>2, <2>3, <2>7, <3>2 DEF TransferType
      <3> QED
        BY <2>1, <2>6, <3>2, <3>4, <3>6, <3>7, FabricAssumption
    <2>8. CASE a = e /\ Crediting(e, h)
      <3>1. PICK v : v = EventOf(e)
        OBVIOUS
      <3>2. PICK n \in t.receive_limit .. v.amount :
               transfers'[e][h] = [t EXCEPT !.receive_limit = n]
        BY <2>3, <2>8, <3>1 DEF Crediting
      <3>3. Handling(e, "Credit") /\ v.handle = h
        BY <2>8, <3>1 DEF Crediting
      <3>4. v \in Queued(e) /\ v.kind = "Credit" /\ v.amount \in Nat
        BY <3>1, <3>3, EventInHand DEF FabricInv, TypeOK, SessionShape, Queued
      <3>5. FlowCovers(f, g, v.amount)
        BY <2>1, <2>8, <3>3, <3>4 DEF CreditEvents
      <3>6. /\ transfers'[a][h].max = t.max /\ transfers'[a][h].receive_limit = n
            /\ t.provisional = {} /\ t.receive_limit \in Nat
        BY <1>0, <2>2, <2>3, <2>8, <3>2 DEF TransferType
      <3>7. t.max = native_links[k].max_item_bytes
        BY <2>1, <2>2, <2>3, <3>6 DEF CoversInv, Covers
      <3>8. n \in Nat /\ n <= v.amount
        BY <3>2, <3>4, <3>6
      <3> QED
        BY <2>1, <2>6, <3>4, <3>5, <3>6, <3>7, <3>8
    <2>9. CASE a = e /\ (Forwarding(e, h) \/ HalfClosing(e, h))
      <3>1. /\ transfers'[a][h].max = t.max /\ transfers'[a][h].receive_limit = t.receive_limit
            /\ t.provisional = {}
        BY <1>0, <2>2, <2>3, <2>9 DEF Forwarding, HalfClosing, TransferType
      <3> QED
        BY <2>4, <3>1
    <2>10. CASE a = e /\ (FrameCredit(e, h) \/ FrameMessage(e, h) \/ FrameClose(e, h))
      <3>1. /\ transfers'[a][h].max = t.max /\ transfers'[a][h].receive_limit = t.receive_limit
            /\ t.provisional = {}
        BY <1>0, <2>2, <2>3, <2>10 DEF FrameCredit, FrameMessage, FrameClose, TransferType
      <3> QED
        BY <2>4, <3>1
    <2> QED
      BY <1>0, <2>2, <2>5, <2>7, <2>8, <2>9, <2>10, TransferMoves DEF Updates
  <1> QED
    BY <1>1, <1>2

LEMMA CreditStep ==
    ASSUME FabricInv, FabricInv', SessionShape, SessionShape', SessionLives, SessionNext,
           HandshakeEnds, HandlesInv, CreditInv, NEW e \in Endpoints, Acts(e)
    PROVE  CreditInv'
  <1>0. PublishInv /\ AcceptInv /\ CreditEvents /\ CommitEvents /\ CoversInv
    BY DEF CreditInv
  <1>1. PublishInv'
    <2>1. ASSUME NEW f \in Endpoints, step'[f].at = "publish"
          PROVE  Publishing(f, step[f].handle)'
      <3>1. PICK h : h = step'[f].handle
        OBVIOUS
      <3>2. Publishing(f, h)'
        BY <1>0, <2>1, <3>1, PublishStep
      <3> QED
        BY <3>1, <3>2 DEF Publishing
    <2> QED
      BY <2>1 DEF PublishInv
  <1>2. AcceptInv'
    <2>1. ASSUME NEW f \in Endpoints, NEW h, NEW c, ProvisionalFor(f, h, c)'
          PROVE  AcceptLink(f, h, c)'
      BY <1>0, <2>1, AcceptStep
    <2> QED
      BY <2>1 DEF AcceptInv
  <1>3. CreditEvents'
    <2>1. ASSUME NEW x \in Endpoints, NEW f \in Endpoints, NEW g, NEW v \in Queued(x)',
                 v.kind = "Credit", OnLink(x, v.handle, f, g)'
          PROVE  FlowCovers(f, g, v.amount)'
      BY <1>0, <2>1, CreditEventStep
    <2> QED
      BY <2>1 DEF CreditEvents
  <1>4. CommitEvents'
    <2>1. ASSUME NEW x \in Endpoints, NEW a \in Endpoints, NEW f \in Endpoints, NEW h, NEW g,
                 NEW v \in Queued(x)', v.kind = "ConnectCommitted"
          PROVE  CommitFor(v, a, h, f, g)'
      BY <1>0, <2>1, CommitEventStep
    <2> QED
      BY <2>1 DEF CommitEvents
  <1>5. CoversInv'
    <2>1. ASSUME NEW a \in Endpoints, NEW f \in Endpoints, NEW h, NEW g
          PROVE  Covers(a, h, f, g)'
      BY <1>0, CoversStep
    <2> QED
      BY <2>1 DEF CoversInv
  <1> QED
    BY <1>1, <1>2, <1>3, <1>4, <1>5 DEF CreditInv

LEMMA CreditMeans ==
    ASSUME FabricInv, CreditInv
    PROVE  CreditIsCovered
  <1>1. ASSUME NEW e \in Endpoints, NEW h \in DOMAIN transfers[e], Linked(e, h), Announced(e, h)
        PROVE  LET p == peer_key(<<e, h>>)
               IN  /\ transfers[e][h].receive_limit <= transfers[p[1]][p[2]].flow
                   /\ transfers[e][h].max = native_links[<<e, h>>].max_item_bytes
    <2>1. PICK f, g : peer_key(<<e, h>>) = <<f, g>>
      BY DEF peer_key
    <2>2. <<e, h>> \in DOMAIN native_links /\ g \in DOMAIN transfers[f] /\ f \in Endpoints
      BY <1>1, <2>1, PeerIsLinked DEF Linked
    <2>3. Covers(e, h, f, g)
      BY <2>2 DEF CreditInv, CoversInv
    <2> QED
      BY <1>1, <2>1, <2>2, <2>3 DEF Covers, OnLink, FlowCovers, Announced
  <1> QED
    BY <1>1 DEF CreditIsCovered

-----------------------------------------------------------------------------
(* Bytes are conserved.  The bytes of a channel's messages in a lane: *)
Carries(q, h) == {i \in DOMAIN q : q[i].kind = "Message" /\ q[i].handle = h}
Amounts(q) == [i \in DOMAIN q |-> q[i].amount]
Total(q, h) == SumFunctionOnSet(Amounts(q), Carries(q, h))
Weight(v, h) == IF v.kind = "Message" /\ v.handle = h THEN v.amount ELSE 0

LEMMA LaneFacts ==
    ASSUME NEW q \in Seq(EventType), NEW h
    PROVE  /\ IsFiniteSet(Carries(q, h)) /\ Carries(q, h) \in SUBSET Nat
           /\ DOMAIN q = 1 .. Len(q) /\ Len(q) \in Nat
           /\ \A i \in DOMAIN q : q[i] \in EventType /\ Amounts(q)[i] = q[i].amount
                                  /\ Amounts(q)[i] \in Nat
           /\ \A i \in Carries(q, h) : i \in DOMAIN q /\ Amounts(q)[i] \in Nat
  <1>1. DOMAIN q = 1 .. Len(q) /\ Len(q) \in Nat /\ \A i \in DOMAIN q : q[i] \in EventType
    OBVIOUS
  <1>2. Carries(q, h) \subseteq 1 .. Len(q)
    BY <1>1 DEF Carries
  <1>3. IsFiniteSet(Carries(q, h))
    <2>1. PICK n \in Nat : n = Len(q)
      BY <1>1
    <2>2. IsFiniteSet(1 .. n)
      BY FS_Interval
    <2> QED
      BY <1>2, <2>1, <2>2, FS_Subset
  <1>4. \A i \in DOMAIN q : Amounts(q)[i] = q[i].amount /\ Amounts(q)[i] \in Nat
    BY <1>1 DEF Amounts, EventType
  <1> QED
    BY <1>1, <1>2, <1>3, <1>4

LEMMA TotalType ==
    ASSUME NEW q \in Seq(EventType), NEW h
    PROVE  Total(q, h) \in Nat
  BY LaneFacts, SumType DEF Total

LEMMA TotalWithout ==
    ASSUME NEW q \in Seq(EventType), NEW h, NEW i \in Carries(q, h)
    PROVE  SumFunctionOnSet(Amounts(q), Carries(q, h))
              = Amounts(q)[i] + SumFunctionOnSet(Amounts(q), Carries(q, h) \ {i})
  <1>1. PICK A, S : A = Amounts(q) /\ S = Carries(q, h)
    OBVIOUS
  <1>2. IsFiniteSet(S) /\ \A x \in S : A[x] \in Nat
    BY <1>1, LaneFacts
  <1>3. \A x \in S : SumFunctionOnSet(A, S) = A[x] + SumFunctionOnSet(A, S \ {x})
    BY <1>2, SumAny
  <1> QED
    BY <1>1, <1>3

LEMMA TotalAppend ==
    ASSUME NEW q \in Seq(EventType), NEW v \in EventType, NEW h
    PROVE  Total(Append(q, v), h) = Total(q, h) + Weight(v, h)
  <1> DEFINE r == Append(q, v)
             n == Len(q) + 1
  <1>1. /\ r \in Seq(EventType) /\ Len(q) \in Nat /\ DOMAIN q = 1 .. Len(q) /\ DOMAIN r = 1 .. n
        /\ r[n] = v /\ \A i \in DOMAIN q : r[i] = q[i]
    OBVIOUS
  <1>2. DOMAIN r = DOMAIN q \union {n} /\ n \notin DOMAIN q
    BY <1>1
  <1> HIDE DEF r, n
  <1>3. \A i \in Carries(q, h) : Amounts(q)[i] \in Nat /\ Amounts(q)[i] = Amounts(r)[i]
    <2>1. \A i \in DOMAIN q : Amounts(r)[i] = Amounts(q)[i]
      BY <1>1, <1>2 DEF Amounts
    <2> QED
      BY <2>1, LaneFacts
  <1>4. SumFunctionOnSet(Amounts(q), Carries(q, h)) = SumFunctionOnSet(Amounts(r), Carries(q, h))
    BY <1>3, LaneFacts, SumSame
  <1>5. CASE v.kind = "Message" /\ v.handle = h
    <2>1. n \in Carries(r, h) /\ Carries(r, h) \ {n} = Carries(q, h)
      BY <1>1, <1>2, <1>5 DEF Carries
    <2>2. SumFunctionOnSet(Amounts(r), Carries(r, h))
             = Amounts(r)[n] + SumFunctionOnSet(Amounts(r), Carries(q, h))
      <3>1. SumFunctionOnSet(Amounts(r), Carries(r, h))
             = Amounts(r)[n] + SumFunctionOnSet(Amounts(r), Carries(r, h) \ {n})
        BY <1>1, <2>1, TotalWithout
      <3> QED
        BY <2>1, <3>1
    <2>3. Amounts(r)[n] = v.amount /\ v.amount \in Nat
      BY <1>1, <1>2 DEF Amounts, EventType
    <2>4. Total(r, h) = v.amount + Total(q, h) /\ Total(q, h) \in Nat
      BY <1>4, <2>2, <2>3, TotalType DEF Total
    <2> QED
      BY <1>5, <2>3, <2>4 DEF Weight, r
  <1>6. CASE ~(v.kind = "Message" /\ v.handle = h)
    <2>1. Carries(r, h) = Carries(q, h)
      BY <1>1, <1>2, <1>6 DEF Carries
    <2>2. Total(r, h) = Total(q, h) /\ Total(q, h) \in Nat
      BY <1>4, <2>1, TotalType DEF Total
    <2> QED
      BY <1>6, <2>2 DEF Weight, r
  <1> QED
    BY <1>5, <1>6

(* r is q with one event before it. *)
LEMMA TotalBehind ==
    ASSUME NEW q \in Seq(EventType), NEW r \in Seq(EventType), NEW h, Len(r) = Len(q) + 1,
           \A i \in DOMAIN q : r[i + 1] = q[i]
    PROVE  Total(r, h) = Weight(r[1], h) + Total(q, h)
  <1>1. /\ Len(q) \in Nat /\ DOMAIN q = 1 .. Len(q) /\ DOMAIN r = 1 .. Len(q) + 1
    OBVIOUS
  <1> DEFINE U == {i + 1 : i \in Carries(q, h)}
  <1>2. \A i \in Carries(q, h) : Amounts(q)[i] \in Nat /\ Amounts(r)[i + 1] = Amounts(q)[i]
    <2>1. \A i \in Carries(q, h) : i \in DOMAIN q /\ i + 1 \in DOMAIN r
      BY <1>1 DEF Carries
    <2> QED
      BY <2>1, LaneFacts
  <1>3. SumFunctionOnSet(Amounts(r), U) = SumFunctionOnSet(Amounts(q), Carries(q, h))
    <2>1. Carries(q, h) \in SUBSET Int /\ IsFiniteSet(Carries(q, h))
      BY LaneFacts
    <2> QED
      BY <1>2, <2>1, SumShift
  <1>4. U = Carries(r, h) \ {1}
    <2>1. ASSUME NEW j \in Carries(r, h) \ {1} PROVE j \in U
      <3>1. j \in DOMAIN r /\ r[j].kind = "Message" /\ r[j].handle = h /\ j # 1
        BY DEF Carries
      <3>2. j - 1 \in DOMAIN q /\ (j - 1) + 1 = j
        BY <1>1, <3>1
      <3>3. q[j - 1] = r[j]
        BY <3>2
      <3> QED
        BY <3>1, <3>2, <3>3 DEF Carries
    <2>2. ASSUME NEW i \in Carries(q, h) PROVE i + 1 \in Carries(r, h) \ {1}
      <3>1. i \in DOMAIN q /\ q[i].kind = "Message" /\ q[i].handle = h
        BY DEF Carries
      <3>2. i + 1 \in DOMAIN r /\ i + 1 # 1 /\ r[i + 1] = q[i]
        BY <1>1, <3>1
      <3> QED
        BY <3>1, <3>2 DEF Carries
    <2> QED
      BY <2>1, <2>2
  <1>5. 1 \in DOMAIN r /\ r[1] \in EventType /\ Total(q, h) \in Nat
    BY <1>1, LaneFacts, TotalType
  <1> HIDE DEF U
  <1>6. CASE r[1].kind = "Message" /\ r[1].handle = h
    <2>1. 1 \in Carries(r, h)
      BY <1>5, <1>6 DEF Carries
    <2>2. SumFunctionOnSet(Amounts(r), Carries(r, h))
             = Amounts(r)[1] + SumFunctionOnSet(Amounts(r), Carries(r, h) \ {1})
      BY <2>1, TotalWithout
    <2> QED
      BY <1>3, <1>4, <1>5, <1>6, <2>2, LaneFacts DEF Total, Weight
  <1>7. CASE ~(r[1].kind = "Message" /\ r[1].handle = h)
    <2>1. Carries(r, h) \ {1} = Carries(r, h)
      BY <1>7 DEF Carries
    <2>2. Total(r, h) = Total(q, h)
      BY <1>3, <1>4, <2>1 DEF Total
    <2> QED
      BY <1>5, <1>7, <2>2 DEF Weight
  <1> QED
    BY <1>6, <1>7

LEMMA TotalTail ==
    ASSUME NEW q \in Seq(EventType), q # <<>>, NEW h
    PROVE  Total(q, h) = Weight(Head(q), h) + Total(Tail(q), h)
  <1>1. /\ Tail(q) \in Seq(EventType) /\ Len(q) = Len(Tail(q)) + 1 /\ Head(q) = q[1]
        /\ \A i \in DOMAIN Tail(q) : q[i + 1] = Tail(q)[i]
    OBVIOUS
  <1> QED
    BY <1>1, TotalBehind

LEMMA TotalInFront ==
    ASSUME NEW q \in Seq(EventType), NEW v \in EventType, NEW h
    PROVE  Total(<<v>> \o q, h) = Weight(v, h) + Total(q, h)
  <1> DEFINE r == <<v>> \o q
  <1>1. r \in Seq(EventType) /\ Len(r) = Len(q) + 1 /\ r[1] = v /\ \A i \in DOMAIN q : r[i + 1] = q[i]
    OBVIOUS
  <1> HIDE DEF r
  <1>2. Total(r, h) = Weight(r[1], h) + Total(q, h)
    BY <1>1, TotalBehind
  <1> QED
    BY <1>1, <1>2 DEF r

-----------------------------------------------------------------------------
(* The bytes that have reached a session and that it has not sent on. *)
HandBytes(f, g) == IF step[f] = Idle /\ in_hand[f] # {} THEN Weight(EventOf(f), g) ELSE 0
Unsent(f, g) == HandBytes(f, g) + Total(events[f], g)
Delivering(f, g) == Handling(f, "Message") /\ EventOf(f).handle = g

LEMMA HandType ==
    ASSUME FabricInv, SessionShape, NEW f \in Endpoints, NEW g
    PROVE  /\ HandBytes(f, g) \in Nat /\ Total(events[f], g) \in Nat /\ Unsent(f, g) \in Nat
           /\ in_hand[f] # {} => in_hand[f] = {EventOf(f)} /\ EventOf(f) \in EventType
  <1>1. events[f] \in Seq(EventType) /\ in_hand[f] \subseteq EventType
    BY DEF FabricInv, TypeOK, LanesTypeOK
  <1>2. in_hand[f] # {} => in_hand[f] = {EventOf(f)} /\ EventOf(f) \in EventType
    BY <1>1 DEF SessionShape, HandsOK, EventOf
  <1>3. Total(events[f], g) \in Nat
    BY <1>1, TotalType
  <1>4. HandBytes(f, g) \in Nat
    BY <1>2 DEF HandBytes, Weight, EventType
  <1> QED
    BY <1>2, <1>3, <1>4 DEF Unsent

LEMMA HandMoves ==
    ASSUME FabricInv, SessionShape, SessionShape', SessionLives, LaneKinds, NEW e \in Endpoints,
           Acts(e), NEW f \in Endpoints, NEW g, Running(f), Running(f)'
    PROVE  \/ HandBytes(f, g)' = HandBytes(f, g)
           \/ f = e /\ take_event(e)
           \/ f = e /\ Delivering(e, g)
  <1>0. LanesTypeOK
    BY DEF FabricInv, TypeOK
  <1>1. CASE Calls(e)
    <2>1. in_hand'[f] = in_hand[f]
      BY <1>1, CallsGrow DEF AllGrow, Growing
    <2>2. CASE f # e
      BY <2>1, <2>2, OthersStay DEF OthersKeep, HandBytes, EventOf
    <2>3. CASE in_hand[f] = {}
      BY <2>1, <2>3 DEF HandBytes
    <2>4. CASE f = e /\ in_hand[f] # {} /\ Weight(EventOf(f), g) = 0
      BY <2>1, <2>4 DEF HandBytes, EventOf
    <2>5. CASE f = e /\ in_hand[f] # {} /\ Weight(EventOf(f), g) # 0
      <3>1. EventOf(e).kind = "Message" /\ EventOf(e).handle = g /\ EventOf(e) \in in_hand[e]
        BY <2>5, HandType DEF Weight
      <3>2. CASE step[e] = Idle
        BY <2>5, <3>1, <3>2 DEF Delivering, Handling
      <3>3. CASE step[e] # Idle
        BY <1>1, <2>1, <2>5, <3>3, CallsStep DEF HandBytes
      <3> QED
        BY <3>2, <3>3
    <2> QED
      BY <2>2, <2>3, <2>4, <2>5
  <1>2. CASE take_event(e)
    <2>1. /\ UNCHANGED step /\ in_hand' = [in_hand EXCEPT ![e] = {Head(events[e])}]
          /\ DOMAIN in_hand = Endpoints
      BY <1>0, <1>2 DEF take_event, recv_event, locals, LanesTypeOK
    <2>2. ASSUME f # e PROVE HandBytes(f, g)' = HandBytes(f, g)
      <3>1. in_hand'[f] = in_hand[f] /\ step'[f] = step[f]
        BY <2>1, <2>2
      <3>2. EventOf(f)' = EventOf(f)
        BY <3>1 DEF EventOf
      <3> QED
        BY <3>1, <3>2 DEF HandBytes, Weight
    <2> QED
      BY <1>2, <2>2
  <1>3. CASE take_terminal(e)
    <2>1. PICK w \in terminal_events[e] : in_hand' = [in_hand EXCEPT ![e] = {w}]
      BY <1>3 DEF take_terminal, recv_terminal
    <2>2. UNCHANGED step /\ in_hand[e] = {} /\ DOMAIN in_hand = Endpoints
      BY <1>0, <1>3 DEF take_terminal, Listening, locals, LanesTypeOK
    <2>3. CASE f # e
      <3>1. in_hand'[f] = in_hand[f]
        BY <2>1, <2>2, <2>3
      <3> QED
        BY <2>2, <3>1 DEF HandBytes, EventOf
    <2>4. CASE f = e
      <3>1. EventOf(f)' = w /\ w.kind # "Message"
        BY <2>1, <2>2, <2>4 DEF EventOf, LaneKinds, TerminalKinds
      <3>2. HandBytes(f, g)' = 0
        BY <3>1 DEF HandBytes, Weight
      <3>3. HandBytes(f, g) = 0
        BY <2>2, <2>4 DEF HandBytes
      <3> QED
        BY <3>2, <3>3
    <2> QED
      BY <2>3, <2>4
  <1>4. CASE finish_event(e)
    <2>1. /\ step[e] = Finish /\ in_hand' = [in_hand EXCEPT ![e] = {}] /\ DOMAIN in_hand = Endpoints
      BY <1>0, <1>4 DEF finish_event, drop_event, LanesTypeOK
    <2>2. CASE f # e
      <3>1. in_hand'[f] = in_hand[f] /\ step'[f] = step[f]
        BY <2>1, <2>2, OthersStay DEF OthersKeep
      <3> QED
        BY <3>1 DEF HandBytes, EventOf
    <2>3. CASE f = e
      BY <2>1, <2>3, StepValues DEF HandBytes
    <2> QED
      BY <2>2, <2>3
  <1>5. CASE lost_transfer(e) \/ stop_session(e) \/ drop_session(e)
    <2>1. in_hand' = in_hand \/ in_hand' = [in_hand EXCEPT ![e] = {}]
      BY <1>5 DEF lost_transfer, stop_session, drop_session, drop_event, drop_receivers, fabric, lanes
    <2>2. f # e
      <3>1. ~(f = e /\ (lost_transfer(e) \/ stop_session(e)))
        BY DEF lost_transfer, stop_session, Running, SessionShape, TablesOK
      <3>2. ~(f = e /\ drop_session(e))
        BY DEF drop_session, drop_receivers, SessionLives, Running
      <3> QED
        BY <1>5, <3>1, <3>2
    <2>3. in_hand'[f] = in_hand[f] /\ step'[f] = step[f]
      BY <1>0, <2>1, <2>2, OthersStay DEF OthersKeep, LanesTypeOK
    <2> QED
      BY <2>3 DEF HandBytes, EventOf
  <1> QED
    BY <1>1, <1>2, <1>3, <1>4, <1>5 DEF Acts, HandleEvent, EndOfSession, Calls

(* A lane gets bytes only from MESSAGE_DATA on the other end of the link. *)
MessageOn(e, f, g) ==
    \E h, n : SendsMessage(e, h, n) /\ <<e, h>> \in DOMAIN native_links
              /\ peer_key(<<e, h>>) = <<f, g>>

LEMMA SendTotals ==
    ASSUME FabricInv, FabricInv', NEW x \in Endpoints, NEW v, Send(x, v), NEW f \in Endpoints, NEW g
    PROVE  /\ f # x => events'[f] = events[f]
           /\ f = x => Total(events[f], g)' = Total(events[f], g) + Weight(v, g)
  <1>1. events'[x] = Append(events[x], v) /\ \A y \in Endpoints : y # x => events'[y] = events[y]
    BY DEF Send, FabricInv, TypeOK, LanesTypeOK
  <1>2. events[x] \in Seq(EventType) /\ events'[x] \in Seq(EventType)
    BY DEF FabricInv, TypeOK, LanesTypeOK
  <1>3. v \in EventType
    <2>1. Len(events[x]) + 1 \in DOMAIN events'[x] /\ events'[x][Len(events[x]) + 1] = v
      BY <1>1, <1>2
    <2> QED
      BY <1>2, <2>1
  <1>4. PICK q : q = events[x]
    OBVIOUS
  <1>5. Total(Append(q, v), g) = Total(q, g) + Weight(v, g)
    BY <1>2, <1>3, <1>4, TotalAppend
  <1>6. f = x => Total(events[f], g)' = Total(Append(q, v), g)
    BY <1>1, <1>4 DEF Total, Carries, Amounts
  <1> QED
    BY <1>1, <1>4, <1>5, <1>6

LEMMA LaneTotals ==
    ASSUME FabricInv, FabricInv', SessionShape, SessionLives, NEW e \in Endpoints, Acts(e),
           NEW f \in Endpoints, NEW g, Running(f)
    PROVE  \/ Total(events[f], g)' = Total(events[f], g)
           \/ f = e /\ take_event(e)
           \/ MessageOn(e, f, g)
  <1>0. LanesTypeOK /\ Total(events[f], g) \in Nat
    BY HandType DEF FabricInv, TypeOK
  <1>s. ASSUME events'[f] = events[f] PROVE Total(events[f], g)' = Total(events[f], g)
    BY <1>s DEF Total, Carries, Amounts
  <1>w. ASSUME NEW x \in Endpoints, NEW v, Send(x, v), Weight(v, g) = 0
        PROVE  Total(events[f], g)' = Total(events[f], g)
    BY <1>0, <1>s, <1>w, SendTotals
  <1>1. CASE UNCHANGED events
    BY <1>1, <1>s
  <1>2. CASE take_event(e)
    <2>1. f # e => events'[f] = events[f]
      BY <1>0, <1>2 DEF take_event, recv_event, LanesTypeOK
    <2> QED
      BY <1>2, <1>s, <2>1
  <1>3. CASE drop_session(e)
    <2>1. f # e
      BY <1>3 DEF drop_session, drop_receivers, SessionLives, Running
    <2>2. events'[f] = events[f]
      BY <1>0, <1>3, <2>1 DEF drop_session, drop_receivers, LanesTypeOK
    <2> QED
      BY <1>s, <2>2
  <1>4. CASE SendsHandshake
    <2>1. PICK x \in Endpoints, v \in EventType : Send(x, v) /\ Handshakes(v)
      BY <1>4 DEF SendsHandshake
    <2> QED
      BY <1>w, <2>1 DEF Handshakes, Weight
  <1>5. CASE SendsCommit(e)
    <2> DEFINE k == <<e, step[e].handle>>
    <2>1. PICK x, v : /\ x = native_links[k].peer_endpoint
                      /\ v = Event("ConnectCommitted", step[e].id, step[e].handle, step[e].amount,
                                   native_links[k].max_item_bytes, {})
      OBVIOUS
    <2>2. k \in DOMAIN native_links /\ Send(x, v)
      BY <1>5, <2>1 DEF SendsCommit, native_publish_connect, PublishOk, PublishAdmitted
    <2>3. Weight(v, g) = 0
      BY <2>1 DEF Weight, Event
    <2> QED
      BY <1>w, <2>1, <2>2, <2>3, PeerInEndpoints
  <1>6. ASSUME NEW h, SendsCredit(e, h) PROVE Total(events[f], g)' = Total(events[f], g)
    <2>1. PICK n : n = transfers'[e][h].flow
      OBVIOUS
    <2>2. PICK x, v : x = native_links[<<e, h>>].peer_endpoint /\ v = Routed("Credit", <<e, h>>, n)
      OBVIOUS
    <2>3. <<e, h>> \in DOMAIN native_links /\ Send(x, v)
      BY <1>6, <2>1, <2>2 DEF SendsCredit, native_send_credit, RouteOk
    <2>4. Weight(v, g) = 0
      BY <2>2 DEF Weight, Routed, Event
    <2> QED
      BY <1>w, <2>2, <2>3, <2>4, PeerInEndpoints
  <1>7. ASSUME NEW h, NEW n, SendsMessage(e, h, n)
        PROVE  Total(events[f], g)' = Total(events[f], g) \/ MessageOn(e, f, g)
    <2>2. PICK x, v : x = native_links[<<e, h>>].peer_endpoint /\ v = Routed("Message", <<e, h>>, n)
      OBVIOUS
    <2>3. <<e, h>> \in DOMAIN native_links /\ Send(x, v)
      BY <1>7, <2>2 DEF SendsMessage, native_send_message, SendOk, RouteOk
    <2>4. v.handle = native_links[<<e, h>>].peer_channel_handle
      BY <2>2 DEF Routed, Event
    <2>5. CASE x = f /\ v.handle = g
      <3>1. peer_key(<<e, h>>) = <<f, g>>
        BY <2>2, <2>4, <2>5 DEF peer_key
      <3> QED
        BY <1>7, <2>3, <3>1 DEF MessageOn
    <2>6. CASE x # f
      BY <1>s, <2>2, <2>3, <2>6, SendTotals, PeerInEndpoints
    <2>7. CASE v.handle # g
      BY <1>w, <2>2, <2>3, <2>7, PeerInEndpoints DEF Weight
    <2> QED
      BY <2>5, <2>6, <2>7
  <1>8. ASSUME NEW h, Closing(e, h) PROVE Total(events[f], g)' = Total(events[f], g)
    <2>1. PICK n : native_send_close(e, h, n)
      BY <1>8 DEF Closing
    <2>2. PICK x, v : x = native_links[<<e, h>>].peer_endpoint /\ v = Routed("Close", <<e, h>>, n)
      OBVIOUS
    <2>3. <<e, h>> \in DOMAIN native_links /\ Send(x, v)
      BY <2>1, <2>2 DEF native_send_close, SendOk, RouteOk
    <2>4. Weight(v, g) = 0
      BY <2>2 DEF Weight, Routed, Event
    <2> QED
      BY <1>w, <2>2, <2>3, <2>4, PeerInEndpoints
  <1> QED
    BY <1>1, <1>2, <1>3, <1>4, <1>5, <1>6, <1>7, <1>8, ActsSend DEF EventsMove

(* Unsent bytes: one step of the session that has them, or a message. *)
LEMMA UnsentStays ==
    ASSUME FabricInv, FabricInv', SessionShape, SessionShape', SessionLives, LaneKinds,
           NEW e \in Endpoints, Acts(e), NEW f \in Endpoints, NEW g, Running(f), Running(f)',
           ~(f = e /\ Delivering(e, g)), ~MessageOn(e, f, g)
    PROVE  Unsent(f, g)' = Unsent(f, g)
  <1>1. CASE f = e /\ take_event(e)
    <2>1. /\ events'[e] = Tail(events[e]) /\ in_hand'[e] = {Head(events[e])} /\ in_hand[e] = {}
          /\ events[e] # <<>> /\ events[e] \in Seq(EventType) /\ step[e] = Idle /\ UNCHANGED step
      BY <1>1 DEF take_event, Listening, recv_event, locals, FabricInv, TypeOK, LanesTypeOK
    <2>2. PICK q : q = events[e]
      OBVIOUS
    <2>3. Total(q, g) = Weight(Head(q), g) + Total(Tail(q), g)
      BY <2>1, <2>2, TotalTail
    <2>4. EventOf(e)' = Head(q)
      BY <2>1, <2>2 DEF EventOf
    <2>5. HandBytes(e, g)' = Weight(Head(q), g)
      BY <2>1, <2>2, <2>4 DEF HandBytes, Weight
    <2>6. Total(events[e], g)' = Total(Tail(q), g)
      BY <2>1, <2>2 DEF Total, Carries, Amounts
    <2>7. HandBytes(e, g) = 0 /\ Total(q, g) \in Nat
      BY <2>1, <2>2, TotalType DEF HandBytes
    <2> QED
      BY <1>1, <2>2, <2>3, <2>5, <2>6, <2>7 DEF Unsent
  <1>2. CASE ~(f = e /\ take_event(e))
    <2>1. HandBytes(f, g)' = HandBytes(f, g)
      BY <1>2, HandMoves
    <2>2. Total(events[f], g)' = Total(events[f], g)
      BY <1>2, LaneTotals
    <2> QED
      BY <2>1, <2>2 DEF Unsent
  <1> QED
    BY <1>1, <1>2

LEMMA UnsentGrows ==
    ASSUME FabricInv, FabricInv', SessionShape, NEW e \in Endpoints, NEW h, NEW n,
           Listening(e), native_send_message(e, h, n), UNCHANGED step,
           NEW f \in Endpoints, NEW g, peer_key(<<e, h>>) = <<f, g>>
    PROVE  Unsent(f, g)' = Unsent(f, g) + n /\ n \in Nat
  <1>1. PICK v : v = Routed("Message", <<e, h>>, n)
    OBVIOUS
  <1>2. native_links[<<e, h>>].peer_endpoint = f /\ native_links[<<e, h>>].peer_channel_handle = g
    BY DEF peer_key
  <1>3. Send(f, v) /\ UNCHANGED in_hand
    BY <1>1, <1>2 DEF native_send_message
  <1>4. v.kind = "Message" /\ v.handle = g /\ v.amount = n
    BY <1>1, <1>2 DEF Routed, Event
  <1>5. Total(events[f], g)' = Total(events[f], g) + n
    BY <1>3, <1>4, SendTotals DEF Weight
  <1>6. HandBytes(f, g)' = HandBytes(f, g)
    BY <1>3 DEF HandBytes, EventOf
  <1>7. HandBytes(f, g) \in Nat /\ Total(events[f], g) \in Nat
    BY HandType
  <1>8. n \in Nat
    <2>1. events[f] \in Seq(EventType) /\ events'[f] \in Seq(EventType)
          /\ events'[f] = Append(events[f], v)
      BY <1>3 DEF Send, FabricInv, TypeOK, LanesTypeOK
    <2>2. Len(events[f]) + 1 \in DOMAIN events'[f] /\ events'[f][Len(events[f]) + 1] = v
      BY <2>1
    <2>3. v \in EventType
      BY <2>1, <2>2
    <2> QED
      BY <1>4, <2>3 DEF EventType
  <1> QED
    BY <1>5, <1>6, <1>7, <1>8 DEF Unsent

LEMMA UnsentShrinks ==
    ASSUME FabricInv, FabricInv', SessionShape, NEW e \in Endpoints, NEW g, on_message(e),
           Delivering(e, g)
    PROVE  Unsent(e, g) = Unsent(e, g)' + EventOf(e).amount /\ EventOf(e).amount \in Nat
           /\ Unsent(e, g)' \in Nat
  <1>1. UNCHANGED <<events, in_hand>>
    BY DEF on_message, fabric, lanes
  <1>2. in_hand[e] # {} /\ step[e] = Idle /\ EventOf(e).kind = "Message" /\ EventOf(e).handle = g
        /\ EventOf(e).amount \in Nat
    BY EventInHand DEF Delivering, FabricInv, TypeOK, SessionShape
  <1>3. step'[e] # Idle
    <2>1. step'[e] = Finish \/ \E h : step'[e] = Step("reset", 0, h, 0)
      BY StepMeans DEF on_message
    <2>2. \A h : Step("reset", 0, h, 0).at = "reset"
      BY DEF Step
    <2> QED
      BY <2>1, <2>2, StepValues
  <1>4. HandBytes(e, g) = EventOf(e).amount /\ HandBytes(e, g)' = 0
    BY <1>2, <1>3 DEF HandBytes, Weight
  <1>5. Total(events[e], g)' = Total(events[e], g) /\ Total(events[e], g) \in Nat
    BY <1>1, HandType DEF Total, Carries, Amounts
  <1> QED
    BY <1>2, <1>4, <1>5 DEF Unsent

-----------------------------------------------------------------------------
LEMMA HandlesOneKind ==
    ASSUME FabricInv, SessionShape, NEW e \in Endpoints, NEW kind, Handling(e, kind)
    PROVE  ~Listening(e) /\ \A other : Handling(e, other) => other = kind
  <1>1. \A other : Handling(e, other) => EventOf(e).kind = other
    BY EventInHand DEF FabricInv, TypeOK, SessionShape
  <1> QED
    BY <1>1 DEF Listening, Handling

LEMMA DeliversMessage ==
    ASSUME FabricInv, SessionShape, SessionShape', SessionLives, NEW e \in Endpoints, Acts(e),
           Handling(e, "Message"), Running(e)'
    PROVE  on_message(e)
  <1>1. ~Listening(e) /\ \A other : Handling(e, other) => other = "Message"
    BY HandlesOneKind
  <1>2. Running(e) /\ step[e] = Idle /\ step[e].at = "idle" /\ step[e] # Finish
    BY StepValues DEF Handling
  <1>3. ~lost_transfer(e) /\ ~stop_session(e)
    BY DEF lost_transfer, stop_session, Running, SessionShape, TablesOK
  <1>4. ~open_session(e) /\ ~cleanup_session(e) /\ ~drop_session(e)
    BY <1>2 DEF open_session, cleanup_session, drop_session, drop_receivers, Running, SessionLives
  <1>5. ~take_event(e) /\ ~take_terminal(e) /\ ~Requests(e) /\ ~TransferFrames(e)
    BY <1>1 DEF take_event, take_terminal, Requests, channel_listen, channel_close_listener,
                channel_connect, cancel_request, TransferFrames, transfer_credit,
                transfer_message, transfer_close, transfer_reset
  <1>6. HandleEvent(e) => on_message(e)
    <2>1. ~finish_event(e) /\ ~do_cancel(e) /\ ~do_fail(e) /\ ~do_publish(e) /\ ~do_reset(e)
      BY <1>2 DEF finish_event, do_cancel, do_fail, do_publish, do_reset
    <2>2. ~on_incoming_connect(e) /\ ~on_connect_prepared(e) /\ ~on_connect_committed(e)
          /\ ~on_connect_aborted(e) /\ ~on_credit(e) /\ ~on_close(e) /\ ~on_reset(e)
      BY <1>1 DEF on_incoming_connect, on_connect_prepared, on_connect_committed,
                  on_connect_aborted, on_credit, on_close, on_reset
    <2> QED
      BY <1>3, <2>1, <2>2 DEF HandleEvent
  <1> QED
    BY <1>3, <1>4, <1>5, <1>6 DEF Acts, EndOfSession

(* A new end of a link has carried nothing. *)
LEMMA NewEndIsEmpty ==
    ASSUME FabricInv, SessionShape, HandlesInv, NEW e \in Endpoints, Acts(e),
           NEW f \in Endpoints, NEW h, <<f, h>> \in DOMAIN native_links',
           <<f, h>> \notin DOMAIN native_links, h \in DOMAIN transfers'[f]
    PROVE  /\ transfers'[f][h].received = 0 /\ transfers'[f][h].sent = 0
           /\ Unlinked(f, h) /\ Handling(e, "ConnectPrepared")
  <1>1. CASE f = e /\ NewConnect(e, h)
    <2>1. \A n, m : Transfer({}, 0, 0, n, m).received = 0 /\ Transfer({}, 0, 0, n, m).sent = 0
      BY DEF Transfer
    <2>2. \E n, m : transfers'[e][h] = Transfer({}, 0, 0, n, m)
      BY <1>1 DEF NewConnect
    <2> QED
      BY <1>1, <2>1, <2>2, NewIsUnlinked DEF NewConnect
  <1>2. ASSUME NEW c, NEW g, PreparedHandle(c, f, h), NewConnect(e, g)
        PROVE  /\ transfers'[f][h].received = 0 /\ transfers'[f][h].sent = 0
               /\ Handling(e, "ConnectPrepared")
    <2>1. Handling(e, "ConnectPrepared")
      BY <1>2 DEF NewConnect
    <2>2. ~Updates(e, h)
      BY <2>1, HandlesOneKind
      DEF Updates, Committing, Forwarding, Crediting, HalfClosing, FrameCredit, FrameMessage,
          FrameClose
    <2>3. h # next_channel_handle[f]
      BY <1>2 DEF PreparedHandle, SessionShape, TablesOK
    <2>4. h \in DOMAIN transfers[f] /\ transfers'[f][h] = transfers[f][h]
      BY <2>2, <2>3, TransferMoves DEF NewConnect, NewAccept
    <2>5. transfers[f][h].provisional = {c} /\ transfers[f][h].sent = 0
      BY <1>2, <2>4 DEF PreparedHandle
    <2>6. transfers[f][h].received = 0
      BY <2>4, <2>5, TransferHere DEF TransferOK
    <2> QED
      BY <2>1, <2>4, <2>5, <2>6
  <1> QED
    BY <1>1, <1>2, LinkJoins, NewIsUnlinked

LEMMA UnlinkedIsEmpty ==
    ASSUME FabricInv, SessionShape, NEW f \in Endpoints, NEW g, Unlinked(f, g)
    PROVE  Unsent(f, g) = 0
  <1>1. \A v \in Queued(f) : ~(v.kind = "Message" /\ v.handle = g)
    BY DEF Unlinked, LinkKinds, RoutedKinds
  <1>2. HandBytes(f, g) = 0
    BY <1>1, HandType DEF HandBytes, Weight, Queued
  <1>3. Carries(events[f], g) = {}
    BY <1>1 DEF Carries, Queued
  <1>4. Total(events[f], g) = 0
    BY <1>3, SumEmpty DEF Total
  <1> QED
    BY <1>2, <1>4 DEF Unsent

Conserves(e, h, f, g) ==
    /\ OnLink(e, h, f, g) /\ h \in DOMAIN transfers[e] /\ g \in DOMAIN transfers[f]
    /\ Running(e) /\ Running(f) /\ ~Resetting(e, h) /\ ~Resetting(f, g)
    => transfers[e][h].received = transfers[f][g].sent + Unsent(f, g)
BytesInv == \A e, f \in Endpoints : \A h, g : Conserves(e, h, f, g)

LEMMA CountsStay ==
    ASSUME FabricInv, SessionShape, NEW e \in Endpoints, Acts(e), NEW f \in Endpoints,
           NEW h \in DOMAIN transfers'[f], h \in DOMAIN transfers[f]
    PROVE  /\ ~(f = e /\ FrameMessage(e, h)) => transfers'[f][h].received = transfers[f][h].received
           /\ ~(f = e /\ Delivering(e, h)) => transfers'[f][h].sent = transfers[f][h].sent
  <1>1. transfers[f][h] \in TransferType
    BY TransferHere
  <1>2. CASE transfers'[f][h] = transfers[f][h]
    BY <1>2
  <1>3. CASE f = e /\ (Committing(e, h) \/ Crediting(e, h) \/ HalfClosing(e, h))
    BY <1>1, <1>3 DEF Committing, Crediting, HalfClosing, TransferType
  <1>4. CASE f = e /\ Forwarding(e, h)
    BY <1>1, <1>4 DEF Forwarding, Delivering, TransferType
  <1>5. CASE f = e /\ (FrameCredit(e, h) \/ FrameClose(e, h))
    BY <1>1, <1>5 DEF FrameCredit, FrameClose, TransferType
  <1>6. CASE f = e /\ FrameMessage(e, h)
    BY <1>1, <1>6 DEF FrameMessage, TransferType
  <1> QED
    BY <1>2, <1>3, <1>4, <1>5, <1>6, TransferMoves DEF Updates

LEMMA ConservesStep ==
    ASSUME FabricInv, FabricInv', SessionShape, SessionShape', SessionLives, LaneKinds, SessionNext,
           HandlesInv, BytesInv, NEW e \in Endpoints, Acts(e),
           NEW a \in Endpoints, NEW f \in Endpoints, NEW h, NEW g
    PROVE  Conserves(a, h, f, g)'
  <1>0. SUFFICES ASSUME OnLink(a, h, f, g)', h \in DOMAIN transfers'[a], g \in DOMAIN transfers'[f],
                        Running(a)', Running(f)', ~Resetting(a, h)', ~Resetting(f, g)'
                 PROVE  transfers'[a][h].received = transfers'[f][g].sent + Unsent(f, g)'
    BY DEF Conserves
  <1>k. <<a, h>> \in DOMAIN native_links'
    BY <1>0 DEF OnLink
  <1>p. <<f, g>> \in DOMAIN native_links' /\ OnLink(f, g, a, h)' /\ <<a, h>> # <<f, g>>
    <2>1. PICK k, p : k = <<a, h>> /\ p = <<f, g>>
      OBVIOUS
    <2>2. k \in DOMAIN native_links' /\ peer_key(k)' = p
      BY <1>0, <2>1 DEF OnLink, peer_key
    <2>3. /\ peer_key(k)' \in DOMAIN native_links' \ {k}
          /\ native_links'[peer_key(k)'].peer_endpoint = k[1]
          /\ native_links'[peer_key(k)'].peer_channel_handle = k[2]
      BY <2>1, <2>2 DEF FabricInv, LinkSymmetry, peer_key
    <2> QED
      BY <2>1, <2>2, <2>3 DEF OnLink, peer_key
  <1>1. CASE <<a, h>> \notin DOMAIN native_links
    <2>1. <<f, g>> \notin DOMAIN native_links
      <3>1. SUFFICES ASSUME <<f, g>> \in DOMAIN native_links PROVE FALSE
        OBVIOUS
      <3> QED
        BY <1>1, <1>p, <3>1, OnLinkStays
    <2>2. transfers'[a][h].received = 0 /\ Handling(e, "ConnectPrepared")
      BY <1>0, <1>1, <1>k, NewEndIsEmpty
    <2>3. transfers'[f][g].sent = 0 /\ Unlinked(f, g)
      BY <1>0, <1>p, <2>1, NewEndIsEmpty
    <2>4. Unsent(f, g) = 0
      BY <2>3, UnlinkedIsEmpty
    <2>5. ~Listening(e) /\ ~Delivering(e, g)
      BY <2>2, HandlesOneKind DEF Delivering
    <2>6. ~MessageOn(e, f, g)
      BY <2>5 DEF MessageOn, SendsMessage, FrameMessage
    <2>7. Running(f)
      <3>1. CASE f = e
        BY <2>2, <3>1 DEF Handling
      <3>2. CASE f # e
        BY <1>0, <3>2, OthersStay DEF OthersKeep, Running
      <3> QED
        BY <3>1, <3>2
    <2>8. Unsent(f, g)' = 0
      BY <1>0, <2>4, <2>5, <2>6, <2>7, UnsentStays
    <2> QED
      BY <2>2, <2>3, <2>8
  <1>2. CASE <<a, h>> \in DOMAIN native_links
    <2>1. OnLink(a, h, f, g) /\ <<f, g>> \in DOMAIN native_links
      BY <1>0, <1>2, OnLinkStays
    <2>2. OnLink(f, g, a, h)
      BY <1>p, <2>1, OnLinkStays
    <2>3. h \in DOMAIN transfers[a] /\ g \in DOMAIN transfers[f]
      BY <1>0, <1>2, <2>1, NewIsUnlinked DEF Unlinked
    <2>4. Running(a) /\ Running(f)
      BY <1>0, <2>3, RanBefore
    <2>5. ~Resetting(a, h) /\ ~Resetting(f, g)
      BY <1>0, ResettingStays
    <2>6. transfers[a][h].received = transfers[f][g].sent + Unsent(f, g)
      BY <2>1, <2>3, <2>4, <2>5 DEF BytesInv, Conserves
    <2>7. /\ transfers[a][h] \in TransferType /\ transfers[f][g] \in TransferType
          /\ transfers[f][g].sent \in Nat /\ transfers[a][h].received \in Nat
          /\ Unsent(f, g) \in Nat
      BY <2>3, TransferHere, HandType DEF TransferType
    <2>8. CASE a = e /\ FrameMessage(e, h)
      <3>1. PICK n \in Sizes :
              /\ transfers'[e][h] = [transfers[e][h] EXCEPT !.received = @ + n]
              /\ (native_send_message(e, h, n) /\ UNCHANGED step) \/ Rejects(e, h)
        BY <2>8 DEF FrameMessage
      <3>2. ~Rejects(e, h)
        BY <1>0, <2>8 DEF Rejects, Resetting, Step
      <3>3. Listening(e) /\ peer_key(<<e, h>>) = <<f, g>>
        BY <2>1, <2>8 DEF FrameMessage, OnLink
      <3>4. Unsent(f, g)' = Unsent(f, g) + n /\ n \in Nat
        BY <3>1, <3>2, <3>3, UnsentGrows
      <3>5. transfers'[a][h].received = transfers[a][h].received + n
        BY <2>7, <2>8, <3>1 DEF TransferType
      <3>6. transfers'[f][g].sent = transfers[f][g].sent
        <4>1. ~(f = e /\ Delivering(e, g))
          BY <3>3, HandlesOneKind DEF Delivering
        <4> QED
          BY <1>0, <2>3, <4>1, CountsStay
      <3> QED
        BY <2>6, <2>7, <3>4, <3>5, <3>6
    <2>9. CASE f = e /\ Delivering(e, g)
      <3>1. on_message(e)
        BY <1>0, <2>9, DeliversMessage DEF Delivering
      <3>2. Unsent(f, g) = Unsent(f, g)' + EventOf(e).amount /\ EventOf(e).amount \in Nat
            /\ Unsent(f, g)' \in Nat
        BY <2>9, <3>1, UnsentShrinks
      <3>3. PICK t : t = [transfers[e][g] EXCEPT !.sent = @ + EventOf(e).amount]
        OBVIOUS
      <3>4. SetTransfer(e, g, t)
        <4>1. ~Then(e, Step("reset", 0, g, 0))
          BY <1>0, <2>9, StepMeans DEF Resetting, Step
        <4> QED
          BY <2>9, <3>1, <3>3, <4>1 DEF on_message, Delivering
      <3>5. transfers'[e][g] = t
        BY <3>4, SetIs
      <3>6. transfers'[f][g].sent = transfers[f][g].sent + EventOf(e).amount
        BY <2>7, <2>9, <3>3, <3>5 DEF TransferType
      <3>7. transfers'[a][h].received = transfers[a][h].received
        <4>1. ~FrameMessage(e, h)
          BY <2>9, HandlesOneKind DEF FrameMessage, Delivering
        <4> QED
          BY <1>0, <2>3, <4>1, CountsStay
      <3> QED
        BY <2>6, <2>7, <3>2, <3>6, <3>7
    <2>10. CASE ~(a = e /\ FrameMessage(e, h)) /\ ~(f = e /\ Delivering(e, g))
      <3>1. ~MessageOn(e, f, g)
        <4>1. ASSUME NEW w, NEW n, SendsMessage(e, w, n), <<e, w>> \in DOMAIN native_links,
                     peer_key(<<e, w>>) = <<f, g>>
              PROVE  FALSE
          <5>1. peer_key(<<f, g>>) = <<e, w>>
            BY <4>1, PeerIsLinked
          <5>2. a = e /\ h = w
            BY <2>2, <5>1 DEF OnLink
          <5> QED
            BY <2>10, <4>1, <5>2 DEF SendsMessage
        <4> QED
          BY <4>1 DEF MessageOn
      <3>2. Unsent(f, g)' = Unsent(f, g)
        BY <1>0, <2>4, <2>10, <3>1, UnsentStays
      <3>3. transfers'[a][h].received = transfers[a][h].received
        BY <1>0, <2>3, <2>10, CountsStay
      <3>4. transfers'[f][g].sent = transfers[f][g].sent
        BY <1>0, <2>3, <2>10, CountsStay
      <3> QED
        BY <2>6, <3>2, <3>3, <3>4
    <2> QED
      BY <2>8, <2>9, <2>10
  <1> QED
    BY <1>1, <1>2

LEMMA BytesMean ==
    ASSUME FabricInv, SessionShape, BytesInv
    PROVE  BytesConserved
  <1>1. ASSUME NEW e \in Endpoints, NEW h \in DOMAIN transfers[e], Linked(e, h), Announces(e, h),
               Running(e), NEW f, NEW g, peer_key(<<e, h>>) = <<f, g>>, Running(f), step[f] = Idle
        PROVE  transfers[e][h].received = transfers[f][g].sent + InFlight(f, g)
    <2>1. <<e, h>> \in DOMAIN native_links /\ g \in DOMAIN transfers[f] /\ f \in Endpoints
      BY <1>1, PeerIsLinked DEF Linked
    <2>2. ~Resetting(e, h) /\ ~Resetting(f, g)
      BY <1>1, StepValues DEF Announces, Resetting
    <2>3. Conserves(e, h, f, g)
      BY <2>1 DEF BytesInv
    <2>4. transfers[e][h].received = transfers[f][g].sent + Unsent(f, g)
      BY <1>1, <2>1, <2>2, <2>3 DEF Conserves, OnLink
    <2>5. InFlight(f, g) = Total(Inbound(f), g)
      BY DEF InFlight, Total, Amounts, Carries
    <2>6. CASE in_hand[f] = {}
      <3>1. Inbound(f) = events[f]
        BY <2>6 DEF Inbound
      <3>2. Unsent(f, g) = Total(events[f], g)
        BY <2>1, <2>6, HandType DEF Unsent, HandBytes
      <3> QED
        BY <2>4, <2>5, <3>1, <3>2
    <2>7. CASE in_hand[f] # {}
      <3>1. Inbound(f) = <<EventOf(f)>> \o events[f]
        BY <2>7 DEF Inbound, EventOf
      <3>2. EventOf(f) \in EventType /\ events[f] \in Seq(EventType)
        BY <2>1, <2>7, HandType DEF FabricInv, TypeOK, LanesTypeOK
      <3>3. PICK v, q : v = EventOf(f) /\ q = events[f]
        OBVIOUS
      <3>4. Total(<<v>> \o q, g) = Weight(v, g) + Total(q, g)
        BY <3>2, <3>3, TotalInFront
      <3>5. Unsent(f, g) = Weight(v, g) + Total(q, g)
        BY <1>1, <2>7, <3>3 DEF Unsent, HandBytes
      <3> QED
        BY <2>4, <2>5, <3>1, <3>3, <3>4, <3>5
    <2> QED
      BY <2>6, <2>7
  <1>2. \A e, h : \E f, g : peer_key(<<e, h>>) = <<f, g>>
    BY DEF peer_key
  <1> QED
    BY <1>1, <1>2 DEF BytesConserved

-----------------------------------------------------------------------------
(* The inductive invariant of the sessions.  SettlingInv and HandshakeEnds *)
(* stand behind every CONNECT; ClosedEnds and BackedInv behind every       *)
(* transfer; HandlesInv says that a handle names one channel only, without *)
(* which neither CreditInv nor BytesInv would survive a new link.          *)
SessionInv ==
    /\ FabricInv /\ LaneKinds
    /\ SessionShape /\ SessionLives
    /\ ResultsInv /\ SettlingInv /\ HandshakeEnds
    /\ ClosedEnds /\ BackedInv
    /\ HandlesInv /\ CreditInv /\ BytesInv

(* The sessions' invariants do not see the fabric's shutdown flag. *)
LEMMA InvUnseen ==
    ASSUME SessionInv, shutdown_fabric \/ UNCHANGED vars
    PROVE  ClosedEnds' /\ BackedInv' /\ HandlesInv' /\ CreditInv' /\ BytesInv'
  <1>1. /\ native_pending' = native_pending /\ native_links' = native_links
        /\ events' = events /\ terminal_events' = terminal_events /\ in_hand' = in_hand
        /\ session' = session /\ next_channel_handle' = next_channel_handle
        /\ transfers' = transfers /\ step' = step
    BY DEF shutdown_fabric, begin_shutdown, vars, locals, runtime, fabric, lanes
  <1>2. ClosedEnds'
    BY <1>1 DEF SessionInv, ClosedEnds, ClosedEnd, PeerCloses, CloseComing, IsClose, Unhandled, InQueue,
                Resetting, Running, peer_key
  <1>3. BackedInv'
    BY <1>1 DEF SessionInv, BackedInv, Backed, ResetComing, IsReset, AcceptIsBacked, AbortOf, IsAbort,
                LastClose, CloseComing, IsClose, Unhandled, InQueue, Resetting, Running
  <1>4. HandlesInv'
    BY <1>1 DEF SessionInv, HandlesInv, FreshHandles, PreparedHandles, PreparedFor, PreparedHandle,
                Unlinked, Queued
  <1>5. CreditInv'
    <2>1. PublishInv' /\ AcceptInv'
      BY <1>1 DEF SessionInv, CreditInv, PublishInv, Publishing, AcceptInv, AcceptLink, ProvisionalFor
    <2>2. CreditEvents' /\ CommitEvents' /\ CoversInv'
      BY <1>1 DEF SessionInv, CreditInv, CreditEvents, CommitEvents, CoversInv, Covers, CommitFor,
                  FlowCovers, OnLink, peer_key, Queued
    <2> QED
      BY <2>1, <2>2 DEF CreditInv
  <1>6. BytesInv'
    <2>1. ASSUME NEW f, NEW g PROVE HandBytes(f, g)' = HandBytes(f, g)
      BY <1>1 DEF HandBytes, Weight, EventOf
    <2>2. ASSUME NEW f, NEW g PROVE Total(events[f], g)' = Total(events[f], g)
      BY <1>1
    <2>3. ASSUME NEW f, NEW g PROVE Unsent(f, g)' = Unsent(f, g)
      BY <2>1, <2>2 DEF Unsent
    <2> QED
      BY <1>1, <2>3 DEF SessionInv, BytesInv, Conserves, OnLink, peer_key, Running, Resetting
  <1> QED
    BY <1>2, <1>3, <1>4, <1>5, <1>6

LEMMA SessionInvStep == SessionInv /\ [SessionNext]_vars => SessionInv'
  <1> SUFFICES ASSUME SessionInv, [SessionNext]_vars
               PROVE  SessionInv'
    OBVIOUS
  <1>0. /\ FabricInv /\ LaneKinds /\ SessionShape /\ SessionLives /\ ResultsInv /\ SettlingInv
        /\ HandshakeEnds /\ ClosedEnds /\ BackedInv /\ HandlesInv /\ CreditInv /\ BytesInv
    BY DEF SessionInv
  <1>1. [Next]_fabric
    BY <1>0, SessionCalls DEF FabricInv, TypeOK
  <1>2. FabricInv'
    BY <1>0, <1>1, NextInv
  <1>3. LaneKinds' /\ HandshakeEnds'
    BY <1>0, <1>1, <1>2, KindsStep, HandshakeStep
  <1>4. SessionShape'
    BY <1>0, <1>2, ShapeStep
  <1>5. SessionLives' /\ ResultsInv'
    BY <1>0, <1>2, <1>4, LivesStep, ResultsStep
  <1>6. SettlingInv'
    BY <1>0, <1>2, <1>4, <1>5, SettlingStep
  <1>7. ClosedEnds' /\ BackedInv' /\ HandlesInv' /\ CreditInv' /\ BytesInv'
    <2>1. CASE shutdown_fabric \/ UNCHANGED vars
      BY <2>1, InvUnseen
    <2>2. ASSUME SessionNext, NEW e \in Endpoints, Acts(e)
          PROVE  ClosedEnds' /\ BackedInv' /\ HandlesInv' /\ CreditInv' /\ BytesInv'
      <3>1. ClosedEnds' /\ BackedInv'
        BY <1>0, <1>2, <2>2, ClosedEndsStep, BackedStep
      <3>2. HandlesInv' /\ CreditInv'
        BY <1>0, <1>2, <1>4, <2>2, HandlesStep, CreditStep
      <3>3. ASSUME NEW a \in Endpoints, NEW f \in Endpoints, NEW h, NEW g
            PROVE  Conserves(a, h, f, g)'
        BY <1>0, <1>2, <1>4, <2>2, ConservesStep
      <3>4. BytesInv'
        BY <3>3 DEF BytesInv
      <3> QED
        BY <3>1, <3>2, <3>4
    <2> QED
      BY <2>1, <2>2, SessionActs
  <1> QED
    BY <1>2, <1>3, <1>4, <1>5, <1>6, <1>7 DEF SessionInv

LEMMA SessionInvInit == SessionInit => SessionInv
  <1> SUFFICES ASSUME SessionInit
               PROVE  SessionInv
    OBVIOUS
  <1>1. Init
    BY DEF SessionInit
  <1>2. /\ DOMAIN native_pending = {} /\ DOMAIN native_links = {} /\ next_native_connect = 1
        /\ \A e \in Endpoints : /\ events[e] = <<>> /\ terminal_events[e] = {} /\ in_hand[e] = {}
                                /\ endpoint_state[e] = "unused"
    BY <1>1 DEF Init, EmptyFunction
  <1>3. \A e \in Endpoints :
           /\ session[e] = "none" /\ pending_connects[e] = {} /\ DOMAIN transfers[e] = {}
           /\ step[e] = Idle /\ step[e].at = "idle" /\ next_channel_handle[e] = 1
    BY DEF SessionInit, EmptyFunction, Idle, Step
  <1>4. \A e \in Endpoints : InQueue(e) = {} /\ Queued(e) = {} /\ Unhandled(e) = {} /\ ~Running(e)
    <2>1. ASSUME NEW e \in Endpoints PROVE DOMAIN events[e] = {}
      BY <1>2
    <2> QED
      BY <1>2, <1>3, <2>1 DEF InQueue, Queued, Unhandled, Running
  <1>5. FabricInv /\ LaneKinds
    <2>1. FabricInv
      BY <1>1, InitInv
    <2>2. LaneKinds
      BY <1>2 DEF LaneKinds
    <2> QED
      BY <2>1, <2>2
  <1>6. SessionShape
    <2>1. TablesOK
      BY DEF SessionInit, TablesOK
    <2>2. TransfersOK
      BY <1>3 DEF SessionInit, TransfersOK
    <2>3. StepsOK
      BY <1>3 DEF SessionInit, StepsOK, StepType, Idle, Step
    <2> QED
      BY <1>2, <2>1, <2>2, <2>3 DEF SessionShape, HandsOK
  <1>7. SessionLives
    BY <1>2, <1>3 DEF SessionLives
  <1>8. ResultsInv
    BY <1>3 DEF SessionInit, ResultsInv, OneResult
  <1>9. SettlingInv
    BY <1>3, <1>4 DEF SettlingInv, RequestsAreOwned, AcceptsAreOwned, RequestsAreBacked, LoopbackHasTwo,
                      ProvisionalFor
  <1>10. HandshakeEnds /\ ClosedEnds /\ BackedInv
    BY <1>4 DEF HandshakeEnds, ClosedEnds, BackedInv
  <1>11. HandlesInv
    BY <1>2, <1>4 DEF HandlesInv, FreshHandles, Unlinked, PreparedHandles, PreparedFor
  <1>12. CreditInv
    BY <1>2, <1>3, <1>4 DEF CreditInv, PublishInv, AcceptInv, ProvisionalFor, CreditEvents,
                            CommitEvents, CoversInv, Covers
  <1>13. BytesInv
    BY <1>4 DEF BytesInv, Conserves
  <1> QED
    BY <1>5, <1>6, <1>7, <1>8, <1>9, <1>10, <1>11, <1>12, <1>13 DEF SessionInv

LEMMA SessionKeepsInv == SessionSpec => []SessionInv
  <1> QED
    BY SessionInvInit, SessionInvStep, PTL DEF SessionSpec

(* The runtime of every session keeps the types yas.rs declares, and each  *)
(* transfer its counters within its limits, however many sessions there    *)
(* are and in whatever order their handlers interleave.                    *)
THEOREM SessionTypesHold == SessionSpec => []SessionTypeOK
  <1>1. SessionInv => SessionTypeOK
    BY DEF SessionInv, SessionShape, TablesOK, TransfersOK, TransferOK, SessionTypeOK
  <1> QED
    BY <1>1, SessionKeepsInv, PTL

(* Sessions change the fabric only by its operations: every behaviour of   *)
(* the sessions is one of ChannelFabric, so everything proved of the       *)
(* fabric under arbitrary callers holds of it under these.                 *)
LEMMA SessionsUseFabric == SessionSpec => Spec
  <1>1. SessionInit => Init
    BY DEF SessionInit
  <1>2. SessionInv /\ [SessionNext]_vars => [Next]_fabric
    BY SessionCalls DEF SessionInv, FabricInv, TypeOK
  <1> QED
    BY <1>1, <1>2, SessionKeepsInv, PTL DEF SessionSpec, Spec

(* A CONNECT is answered at most once, whichever of the prepared event,    *)
(* the abort, the timer and CANCEL settles it, and a waiting one has not   *)
(* been answered.                                                          *)
THEOREM ConnectsAreAnsweredOnce == SessionSpec => []OneResult
  <1>1. SessionInv => OneResult
    BY DEF SessionInv, ResultsInv
  <1> QED
    BY <1>1, SessionKeepsInv, PTL

(* A running session's waiting CONNECT is still held by the fabric in its  *)
(* name, or its abort is on the way, or the handler in progress settles    *)
(* it: no request depends on its timer.                                    *)
THEOREM WaitingConnectsAreBacked == SessionSpec => []PendingIsBacked
  <1>1. SessionInv => PendingIsBacked
    BY SettlingBacks DEF SessionInv
  <1> QED
    BY <1>1, SessionKeepsInv, PTL

(* No transfer of a running session is stranded: it is linked, or pending  *)
(* in the fabric, or the event or step that retires it is on the way.      *)
THEOREM TransfersAreBacked == SessionSpec => []TransferIsBacked
  <1>1. SessionInv => TransferIsBacked
    BY BackedMeans DEF SessionInv
  <1> QED
    BY <1>1, SessionKeepsInv, PTL

(* Credit is never over-granted across the two sessions of a channel: what *)
(* the sending side may receive from its client is covered by what the     *)
(* other client has granted, and both advertise the item limit of the link.*)
THEOREM CreditStaysCovered == SessionSpec => []CreditIsCovered
  <1>1. SessionInv => CreditIsCovered
    BY CreditMeans DEF SessionInv
  <1> QED
    BY <1>1, SessionKeepsInv, PTL

(* Bytes are conserved: what one session accepted is what the other has    *)
(* sent plus what is in its lane, so the final length of a clean CLOSE     *)
(* always matches.                                                         *)
THEOREM BytesStayConserved == SessionSpec => []BytesConserved
  <1>1. SessionInv => BytesConserved
    BY BytesMean DEF SessionInv
  <1> QED
    BY <1>1, SessionKeepsInv, PTL
=============================================================================
