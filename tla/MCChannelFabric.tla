--------------------------- MODULE MCChannelFabric ---------------------------
(* ChannelFabric under arbitrary callers, for TLC.  Two instances share    *)
(* this module: one connect with every kind of traffic in a lane of two;   *)
(* and two concurrent connects on listeners that come, go and contend for  *)
(* a name, without message and credit traffic and without shutdown.        *)
EXTENDS ChannelFabric, TLC

Symmetry == Permutations(Endpoints) \union Permutations(ChannelHandles)

(* Registration without begin_shutdown. *)
Contention ==
    \/ \E e \in Endpoints : register_native_endpoint(e) \/ unregister_native_endpoint(e)
    \/ \E e \in Endpoints, n \in Names : native_listen(e, n)
    \/ \E e \in Endpoints, l, g \in ListenerHandles : native_close_listener(e, l, g)
AdmissionSpec == Init /\ [][Contention \/ Handshake \/ Ending \/ Receiving]_fabric
=============================================================================
