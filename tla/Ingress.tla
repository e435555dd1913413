------------------------------- MODULE Ingress -------------------------------
(***************************************************************************)
(* How a local stream becomes a session: run_yas_accept_loop (and          *)
(* run_hosted_ingress, the same loop for streams of this process) of       *)
(* crates/server/src/lib.rs, and Pairing of crates/composite-transport.    *)
(* A task per stream reads what the stream is; the loop starts a session   *)
(* for a direct one, and keeps one half of a composite link until the      *)
(* other half comes or its time is over.                                   *)
(*                                                                         *)
(* An operator named Mut_... is a deliberately wrong variant of the        *)
(* definition after it, which no specification uses.                       *)
(***************************************************************************)
EXTENDS Naturals, FiniteSets

CONSTANTS
    Streams, Tokens, Maxima,
    NoStream,       \* Option::None
    MaxPending      \* MAX_PENDING_INGRESS

ASSUME IngressAssumption == MaxPending \in Nat \ {0} /\ NoStream \notin Streams

VARIABLES
    accepting,      \* the loop has not returned
    read_only,      \* the parameter of the loop
    classifying,    \* its count of streams that are being classified
    readers,        \* streams whose task is in classify
    classified,     \* what the tasks have sent to the loop: a stream and its kind
    pending,        \* Pairing: the halves that wait, by token
    sessions,       \* a session: its main stream, and the other half or none
    closed,         \* streams dropped
    kind            \* observation: what each stream turned out to be

pairing == <<pending, kind>>
ingress_vars == <<accepting, read_only, classifying, readers, classified, pending, sessions, closed,
                  kind>>

(* Ingress: direct, one half of a composite link, or an error. *)
Direct == [is |-> "direct"]
Invalid == [is |-> "invalid"]
Offers == [is : {"offer"}, role : {"Main", "Datagram"}, token : Tokens, max_datagram : Maxima]
Kinds == {Direct, Invalid} \union Offers

NoHalves == [t \in {} |-> {}]
Without(T) == [t \in DOMAIN pending \ T |-> pending[t]]
Halves(T) == (UNION {{pending[t].main, pending[t].datagram} : t \in T}) \ {NoStream}

IngressInit ==
    /\ accepting = TRUE
    /\ read_only \in BOOLEAN
    /\ classifying = 0
    /\ readers = {} /\ classified = {} /\ sessions = {} /\ closed = {}
    /\ pending = NoHalves
    /\ kind = [s \in Streams |-> Invalid]

Placed == readers \union {c.stream : c \in classified} \union Halves(DOMAIN pending) \union closed
          \union UNION {{p.main, p.datagram} : p \in sessions}

-----------------------------------------------------------------------------
(* listener.accept: refused at the limit, which counts the streams that    *)
(* are being classified and the halves that wait.                          *)
Room == classifying + Cardinality(DOMAIN pending) < MaxPending

accept(s) ==
    /\ accepting /\ s \notin Placed
    /\ \/ /\ Room
          /\ classifying' = classifying + 1 /\ readers' = readers \union {s}
          /\ UNCHANGED closed
       \/ ~Room /\ closed' = closed \union {s} /\ UNCHANGED <<classifying, readers>>
    /\ UNCHANGED <<accepting, read_only, classified, sessions, pairing>>

(* The task: classify within its timeout, or an error, and the send, whose *)
(* channel has MaxPending places.                                          *)
classify(s, k) ==
    /\ accepting /\ s \in readers /\ Cardinality(classified) < MaxPending
    /\ readers' = readers \ {s}
    /\ kind' = [kind EXCEPT ![s] = k]
    /\ classified' = classified \union {[stream |-> s, kind |-> k]}
    /\ UNCHANGED <<accepting, read_only, classifying, pending, sessions, closed>>

(* Pairing::insert: the half is refused, waits, or completes the link. *)
Slot(o) == IF o.role = "Main" THEN "main" ELSE "datagram"
Waits(o) == o.token \in DOMAIN pending
Refused(o) ==
    IF Waits(o)
    THEN \/ pending[o.token].max_datagram # o.max_datagram
         \/ pending[o.token][Slot(o)] # NoStream
    ELSE Cardinality(DOMAIN pending) >= MaxPending
Alone(o, s) ==
    [[max_datagram |-> o.max_datagram, main |-> NoStream, datagram |-> NoStream, overdue |-> FALSE]
        EXCEPT ![Slot(o)] = s]
Joined(o, s) == [pending[o.token] EXCEPT ![Slot(o)] = s]

insert(o, s) ==
    \/ Refused(o) /\ closed' = closed \union {s} /\ UNCHANGED <<pending, sessions>>
    \/ /\ ~Refused(o) /\ ~Waits(o)
       /\ pending' = [t \in DOMAIN pending \union {o.token} |->
                         IF t = o.token THEN Alone(o, s) ELSE pending[t]]
       /\ UNCHANGED <<sessions, closed>>
    \/ /\ ~Refused(o) /\ Waits(o)
       /\ pending' = Without({o.token})
       /\ LET pair == Joined(o, s)
          IN  sessions' = sessions \union {[main |-> pair.main, datagram |-> pair.datagram]}
       /\ UNCHANGED closed

(* classified_rx.recv.  The count goes down before the result is looked    *)
(* at.                                                                     *)
Mut_Count(c) == IF c.kind = Invalid THEN classifying ELSE classifying - 1
Count(c) == classifying - 1

receive(c) ==
    /\ accepting /\ classifying # 0 /\ c \in classified
    /\ classified' = classified \ {c}
    /\ classifying' = Count(c)
    /\ \/ c.kind = Invalid /\ closed' = closed \union {c.stream} /\ UNCHANGED <<pending, sessions>>
       \/ /\ c.kind = Direct
          /\ sessions' = sessions \union {[main |-> c.stream, datagram |-> NoStream]}
          /\ UNCHANGED <<pending, closed>>
       \/ /\ c.kind.is = "offer" /\ read_only
          /\ closed' = closed \union {c.stream} /\ UNCHANGED <<pending, sessions>>
       \/ c.kind.is = "offer" /\ ~read_only /\ insert(c.kind, c.stream)
    /\ UNCHANGED <<accepting, read_only, readers, kind>>

(* The time of a half is over; the next tick drops it, unless the other    *)
(* half comes first.                                                       *)
elapse(t) ==
    /\ accepting /\ t \in DOMAIN pending /\ ~pending[t].overdue
    /\ pending' = [pending EXCEPT ![t].overdue = TRUE]
    /\ UNCHANGED <<accepting, read_only, classifying, readers, classified, sessions, closed, kind>>
expire ==
    LET late == {t \in DOMAIN pending : pending[t].overdue}
    IN  /\ accepting /\ late # {}
        /\ pending' = Without(late)
        /\ closed' = closed \union Halves(late)
        /\ UNCHANGED <<accepting, read_only, classifying, readers, classified, sessions, kind>>

(* shutdown_started: the loop returns, and what it holds is dropped; a     *)
(* task that classifies on finds nobody to tell.                           *)
stop_accepting ==
    /\ accepting
    /\ accepting' = FALSE
    /\ closed' = closed \union readers \union {c.stream : c \in classified}
                        \union Halves(DOMAIN pending)
    /\ readers' = {} /\ classified' = {} /\ pending' = NoHalves
    /\ UNCHANGED <<read_only, classifying, sessions, kind>>

IngressNext ==
    \/ \E s \in Streams : accept(s) \/ \E k \in Kinds : classify(s, k)
    \/ \E c \in classified : receive(c)
    \/ \E t \in Tokens : elapse(t)
    \/ expire \/ stop_accepting

IngressSpec == IngressInit /\ [][IngressNext]_ingress_vars

-----------------------------------------------------------------------------
(* Properties. *)

(* Every accepted stream is in one place. *)
OnePlace ==
    /\ readers \intersect closed = {}
    /\ \A c \in classified : c.stream \notin readers \union closed
    /\ \A p, q \in sessions :
        /\ p.main \notin closed \union readers \union Halves(DOMAIN pending)
        /\ p.datagram \notin closed \union readers \union Halves(DOMAIN pending)
        /\ p # q => p.main # q.main /\ {p.datagram} \intersect {q.datagram} \subseteq {NoStream}
    /\ Halves(DOMAIN pending) \intersect (closed \union readers) = {}

(* The loop counts what its tasks work on exactly, however they end, so    *)
(* what is classified and what waits together stay within the limit, an    *)
(* admitted half is never refused for want of room, and the limit does not *)
(* silt up.  A token waits with one half, and a composite session is a     *)
(* main and a datagram stream that offered the same token and maximum.     *)
IngressExact ==
    /\ accepting => classifying = Cardinality(readers) + Cardinality(classified)
    /\ accepting => classifying + Cardinality(DOMAIN pending) <= MaxPending
    /\ \A t \in DOMAIN pending : Cardinality(Halves({t})) = 1
    /\ \A p \in sessions :
        \/ p.datagram = NoStream /\ kind[p.main] = Direct
        \/ /\ p.datagram # NoStream /\ kind[p.main].is = "offer"
           /\ kind[p.main].role = "Main"
           /\ kind[p.datagram] = [kind[p.main] EXCEPT !.role = "Datagram"]
    /\ OnePlace
=============================================================================
