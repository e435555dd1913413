----------------------------- MODULE MCServices ------------------------------
(* Components that share no state, for TLC: the key-value store, server    *)
(* shutdown, the datagrams and the records of the uplink, the ingress      *)
(* loop, and a stream or a recording of the event journal.  A behaviour is *)
(* one of the component it starts with; the others stay in their initial   *)
(* states, where all their properties hold and no action with a fairness   *)
(* condition is enabled.                                                   *)
EXTENDS KvStore, MCServerShutdown, UplinkDatagram, UplinkStream, Ingress, EventStream,
        EventRecording

CONSTANTS k1, k2, v1, v2, o1, o2, w1

(* The requests clients make of the store: a durable put that is retried,  *)
(* and an operation id used for two requests, a delete of exactly what the *)
(* put stored and a batch that conflicts with it.                          *)
Anything == [kind |-> "Any", value |-> NoValue, revision |-> 0]
Absent == [kind |-> "Absent", value |-> NoValue, revision |-> 0]
Exactly(v, n) == [kind |-> "HashAndRevision", value |-> v, revision |-> n]
Put(k, v, p) == [kind |-> "Put", key |-> k, value |-> v, precondition |-> p]
Delete(k, p) == [kind |-> "Delete", key |-> k, value |-> NoValue, precondition |-> p]
MCKvRequests ==
    {[operation_id |-> o1, mutations |-> <<Put(k1, v1, Anything)>>, durable |-> TRUE],
     [operation_id |-> o2, mutations |-> <<Delete(k1, Exactly(v1, 2))>>, durable |-> FALSE],
     [operation_id |-> o2, durable |-> TRUE,
      mutations |-> <<Put(k1, v2, Absent), Put(k2, v2, Anything), Delete(k1, Anything)>>]}
MCNamespace == w1 :> {k1}

VARIABLE component

event_vars == <<log, stream, stream_state, recording>>
services_vars == <<component, kv_vars, shutdown_vars, datagram_vars, stream_vars, ingress_vars,
                   event_vars>>

ServicesInit ==
    /\ component \in {"kv", "shutdown", "datagram", "stream", "ingress", "follow", "record"}
    /\ KvInit /\ ShutdownInit /\ DatagramInit /\ StreamInit
    /\ IngressInit /\ (read_only => component = "ingress")
    /\ EventStreamInit /\ EventRecordingInit
ServicesNext ==
    /\ UNCHANGED component
    /\ IF component = "kv" THEN KvNext ELSE UNCHANGED kv_vars
    /\ IF component = "shutdown" THEN ShutdownNext ELSE UNCHANGED shutdown_vars
    /\ IF component = "datagram" THEN DatagramNext ELSE UNCHANGED datagram_vars
    /\ IF component = "stream" THEN StreamNext ELSE UNCHANGED stream_vars
    /\ IF component = "ingress" THEN IngressNext ELSE UNCHANGED ingress_vars
    /\ IF component = "follow" THEN EventStreamNext ELSE UNCHANGED <<stream, stream_state>>
    /\ IF component = "record" THEN EventRecordingNext ELSE UNCHANGED recording
    /\ component \notin {"follow", "record"} => UNCHANGED log

ServicesSpec == ServicesInit /\ [][ServicesNext]_services_vars /\ ShutdownFairness
=============================================================================
