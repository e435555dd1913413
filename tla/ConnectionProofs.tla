-------------------------- MODULE ConnectionProofs ---------------------------
(* Proofs about the connections of the server: about Ingress for every set *)
(* of streams, tokens and maxima and every limit, and about ServerShutdown *)
(* for every number of connections and every set of requests.              *)
EXTENDS Ingress, ServerShutdown, FiniteSetTheorems, TLAPS

-----------------------------------------------------------------------------
(* Ingress: the inductive invariant. *)

Half == [max_datagram : Maxima, main : Streams \union {NoStream},
         datagram : Streams \union {NoStream}, overdue : BOOLEAN]

IngressTypeOK ==
    /\ accepting \in BOOLEAN
    /\ classifying \in Nat
    /\ readers \subseteq Streams /\ closed \subseteq Streams
    /\ classified \subseteq [stream : Streams, kind : Kinds]
    /\ pending \in [DOMAIN pending -> Half]
    /\ sessions \subseteq [main : Streams, datagram : Streams \union {NoStream}]
    /\ kind \in [Streams -> Kinds]

(* Where a stream can be, besides readers and closed. *)
Told(s) == \E c \in classified : c.stream = s
WaitsIn(s) == \E t \in DOMAIN pending : s \in {pending[t].main, pending[t].datagram}
Serves(s) == \E p \in sessions : s \in {p.main, p.datagram}

(* A stream is in one place, and there once. *)
Apart ==
    /\ \A s \in Streams :
        /\ s \in readers => ~Told(s) /\ ~WaitsIn(s) /\ ~Serves(s) /\ s \notin closed
        /\ Told(s) => ~WaitsIn(s) /\ ~Serves(s) /\ s \notin closed
        /\ WaitsIn(s) => ~Serves(s) /\ s \notin closed
        /\ Serves(s) => s \notin closed
    /\ \A c, d \in classified : c.stream = d.stream => c = d
    /\ \A p, q \in sessions : p # q =>
        p.main # q.main /\ {p.datagram} \intersect {q.datagram} \subseteq {NoStream}

(* What the loop works with is what the streams have offered. *)
Offered(s, role, t, max) ==
    kind[s] = [is |-> "offer", role |-> role, token |-> t, max_datagram |-> max]
KindsKept == \A c \in classified : kind[c.stream] = c.kind
Expected(t, h) ==
    /\ h.main = NoStream <=> h.datagram # NoStream
    /\ h.main # NoStream => Offered(h.main, "Main", t, h.max_datagram)
    /\ h.datagram # NoStream => Offered(h.datagram, "Datagram", t, h.max_datagram)
HalvesKept == \A t \in DOMAIN pending : Expected(t, pending[t])
Paired(p) ==
    \/ p.datagram = NoStream /\ kind[p.main] = Direct
    \/ /\ p.datagram # NoStream
       /\ \E t, max : Offered(p.main, "Main", t, max) /\ Offered(p.datagram, "Datagram", t, max)
PairsKept == \A p \in sessions : Paired(p)

(* The count is exact and the limit is kept. *)
Counted ==
    /\ IsFiniteSet(readers) /\ IsFiniteSet(classified) /\ IsFiniteSet(DOMAIN pending)
    /\ accepting => classifying = Cardinality(readers) + Cardinality(classified)
    /\ accepting => classifying + Cardinality(DOMAIN pending) <= MaxPending

IngressInv ==
    IngressTypeOK /\ Apart /\ KindsKept /\ HalvesKept /\ PairsKept /\ Counted

-----------------------------------------------------------------------------

LEMMA IngressInitInv == IngressInit => IngressInv
<1> SUFFICES ASSUME IngressInit PROVE IngressInv
  OBVIOUS
<1>1. DOMAIN pending = {}
  BY DEF IngressInit, NoHalves
<1>2. IngressTypeOK
  BY DEF IngressInit, NoHalves, IngressTypeOK, Half, Kinds
<1>3. Apart /\ KindsKept /\ HalvesKept /\ PairsKept
  BY <1>1 DEF IngressInit, Apart, Told, WaitsIn, Serves, KindsKept, HalvesKept, Expected, PairsKept
<1>4. Counted
  BY <1>1, FS_EmptySet, IngressAssumption DEF IngressInit, Counted
<1> QED
  BY <1>2, <1>3, <1>4 DEF IngressInv

(* The halves that wait, one by one. *)
LEMMA HalvesAre ==
    ASSUME IngressInv, NEW T, T \subseteq DOMAIN pending
    PROVE  /\ \A s : s \in Halves(T) <=>
                  s # NoStream /\ \E t \in T : s \in {pending[t].main, pending[t].datagram}
           /\ Halves(T) \subseteq Streams
<1>1. \A s : s \in Halves(T) <=>
          s # NoStream /\ \E t \in T : s \in {pending[t].main, pending[t].datagram}
  BY DEF Halves
<1>2. \A t \in T : {pending[t].main, pending[t].datagram} \subseteq Streams \union {NoStream}
  BY DEF IngressInv, IngressTypeOK, Half
<1> QED
  BY <1>1, <1>2

(* IngressExact says what the invariant says of single streams about the   *)
(* sets they are in.                                                       *)
LEMMA ExactFollows == IngressInv => IngressExact
<1> SUFFICES ASSUME IngressInv PROVE IngressExact
  OBVIOUS
<1>1. \A t \in DOMAIN pending : Cardinality(Halves({t})) = 1
  <2> SUFFICES ASSUME NEW t \in DOMAIN pending PROVE Cardinality(Halves({t})) = 1
    OBVIOUS
  <2>1. \A s : s \in Halves({t}) <=> s # NoStream /\ s \in {pending[t].main, pending[t].datagram}
    BY HalvesAre
  <2>2. \E s : Halves({t}) = {s}
    <3>1. CASE pending[t].main = NoStream
      <4>1. Halves({t}) = {pending[t].datagram}
        BY <2>1, <3>1 DEF IngressInv, HalvesKept, Expected
      <4> QED
        BY <4>1
    <3>2. CASE pending[t].main # NoStream
      <4>1. pending[t].datagram = NoStream
        BY <3>2 DEF IngressInv, HalvesKept, Expected
      <4>2. Halves({t}) = {pending[t].main}
        BY <2>1, <3>2, <4>1
      <4> QED
        BY <4>2
    <3> QED
      BY <3>1, <3>2
  <2> QED
    BY <2>2, FS_Singleton
<1>2. ASSUME NEW p \in sessions
      PROVE  \/ p.datagram = NoStream /\ kind[p.main] = Direct
             \/ /\ p.datagram # NoStream /\ kind[p.main].is = "offer"
                /\ kind[p.main].role = "Main"
                /\ kind[p.datagram] = [kind[p.main] EXCEPT !.role = "Datagram"]
  <2>1. CASE p.datagram = NoStream
    BY <1>2, <2>1 DEF IngressInv, PairsKept, Paired
  <2>2. CASE p.datagram # NoStream
    <3>1. PICK t, max : Offered(p.main, "Main", t, max) /\ Offered(p.datagram, "Datagram", t, max)
      BY <1>2, <2>2 DEF IngressInv, PairsKept, Paired
    <3> QED
      BY <2>2, <3>1 DEF Offered
  <2> QED
    BY <2>1, <2>2
<1>3. OnePlace
  <2>1. \A s : s \in Halves(DOMAIN pending) => s \in Streams /\ WaitsIn(s)
    BY HalvesAre DEF WaitsIn
  <2>2. readers \intersect closed = {}
    BY DEF IngressInv, IngressTypeOK, Apart
  <2>3. \A c \in classified : c.stream \notin readers \union closed
    BY DEF IngressInv, IngressTypeOK, Apart, Told
  <2>4. Halves(DOMAIN pending) \intersect (closed \union readers) = {}
    BY <2>1 DEF IngressInv, IngressTypeOK, Apart
  <2>5. \A p \in sessions : /\ p.main \in Streams /\ Serves(p.main)
                            /\ p.datagram \in Streams => Serves(p.datagram)
                            /\ p.datagram \in Streams \union {NoStream}
    BY DEF IngressInv, IngressTypeOK, Serves
  <2>6. \A s \in Streams : Serves(s) => s \notin closed \union readers \union Halves(DOMAIN pending)
    BY <2>1 DEF IngressInv, Apart
  <2>7. NoStream \notin closed \union readers \union Halves(DOMAIN pending)
    BY <2>1, IngressAssumption DEF IngressInv, IngressTypeOK
  <2> QED
    BY <2>2, <2>3, <2>4, <2>5, <2>6, <2>7 DEF OnePlace, IngressInv, Apart
<1> QED
  BY <1>1, <1>2, <1>3 DEF IngressExact, IngressInv, Counted

-----------------------------------------------------------------------------
(* The steps. *)

(* No offer is forgotten as long as no stream is classified. *)
LEMMA OffersStand ==
    ASSUME kind' = kind
    PROVE  /\ \A t, h : Expected(t, h)' <=> Expected(t, h)
           /\ \A p : Paired(p)' <=> Paired(p)
           /\ \A x, role, t, max : Offered(x, role, t, max)' <=> Offered(x, role, t, max)
<1>1. \A t, h : Expected(t, h)' <=> Expected(t, h)
  BY DEF Expected, Offered
<1>2. ASSUME NEW p PROVE Paired(p)' <=> Paired(p)
  BY DEF Paired, Offered
<1>3. \A x, role, t, max : Offered(x, role, t, max)' <=> Offered(x, role, t, max)
  BY DEF Offered
<1> QED
  BY <1>1, <1>2, <1>3

LEMMA OffersUnchanged ==
    ASSUME IngressInv, UNCHANGED <<classified, pending, sessions, kind>>
    PROVE  (KindsKept /\ HalvesKept /\ PairsKept)'
<1>1. KindsKept'
  BY DEF IngressInv, KindsKept
<1>2. HalvesKept'
  BY DEF IngressInv, HalvesKept, Expected, Offered
<1>3. PairsKept'
  BY DEF IngressInv, PairsKept, Paired, Offered
<1> QED
  BY <1>1, <1>2, <1>3

LEMMA AcceptStep ==
    ASSUME IngressInv, NEW s \in Streams, accept(s)
    PROVE  IngressInv'
<1> USE DEF IngressInv
<1>1. s \notin readers /\ s \notin closed /\ ~Told(s) /\ ~WaitsIn(s) /\ ~Serves(s)
  <2>1. s \notin Placed
    BY DEF accept
  <2>2. ~WaitsIn(s)
    BY <2>1, HalvesAre, IngressAssumption DEF Placed, WaitsIn
  <2> QED
    BY <2>1, <2>2 DEF Placed, Told, Serves
<1>2. IngressTypeOK'
  BY DEF accept, pairing, IngressTypeOK, Half
<1>3. Apart'
  BY <1>1 DEF accept, pairing, Apart, Told, WaitsIn, Serves
<1>4. (KindsKept /\ HalvesKept /\ PairsKept)'
  <2>1. UNCHANGED <<classified, pending, sessions, kind>>
    BY DEF accept, pairing
  <2> QED
    BY <2>1, OffersUnchanged
<1>5. Counted'
  <2>1. CASE Room /\ classifying' = classifying + 1 /\ readers' = readers \union {s}
    <3>1. IsFiniteSet(readers') /\ Cardinality(readers') = Cardinality(readers) + 1
      BY <1>1, <2>1, FS_AddElement DEF Counted
    <3>2. Cardinality(readers) \in Nat /\ Cardinality(classified) \in Nat
          /\ Cardinality(DOMAIN pending) \in Nat
      BY FS_CardinalityType DEF Counted
    <3> QED
      BY <2>1, <3>1, <3>2, IngressAssumption DEF accept, pairing, Counted, Room, IngressTypeOK
  <2>2. CASE classifying' = classifying /\ readers' = readers
    BY <2>2 DEF accept, pairing, Counted
  <2> QED
    BY <2>1, <2>2 DEF accept
<1> QED
  BY <1>2, <1>3, <1>4, <1>5

LEMMA ClassifyStep ==
    ASSUME IngressInv, NEW s \in Streams, NEW k \in Kinds, classify(s, k)
    PROVE  IngressInv'
<1> USE DEF IngressInv
<1> DEFINE c == [stream |-> s, kind |-> k]
<1>1. s \in readers /\ s \notin closed /\ ~Told(s) /\ ~WaitsIn(s) /\ ~Serves(s)
  BY DEF classify, Apart
<1>2. classified' = classified \union {c} /\ readers' = readers \ {s}
  BY DEF classify
<1>a. c.stream = s /\ c.kind = k
  OBVIOUS
<1>3. kind'[s] = k /\ \A x \in Streams : x # s => kind'[x] = kind[x]
  BY DEF classify, IngressTypeOK
<1>4. IngressTypeOK'
  BY <1>2 DEF classify, IngressTypeOK, Half
<1>5. Apart'
  <2>1. \A x : Told(x)' <=> Told(x) \/ x = s
    <3> HIDE DEF c
    <3> QED
      BY <1>2, <1>a DEF Told
  <2>2. \A x : (WaitsIn(x)' <=> WaitsIn(x)) /\ (Serves(x)' <=> Serves(x))
    BY DEF classify, WaitsIn, Serves
  <2>3. \A d \in classified : d.stream # s
    BY <1>1 DEF Told
  <2>4. \A a, b \in classified' : a.stream = b.stream => a = b
    BY <1>2, <2>3 DEF Apart
  <2> QED
    BY <1>1, <1>2, <2>1, <2>2, <2>4 DEF classify, Apart
<1>6. KindsKept'
  BY <1>1, <1>2, <1>3 DEF KindsKept, Told, IngressTypeOK
<1>7. HalvesKept'
  <2>1. pending' = pending
    BY DEF classify
  <2>2. \A t \in DOMAIN pending : pending[t].main # s /\ pending[t].datagram # s
    BY <1>1 DEF WaitsIn
  <2>3. \A t \in DOMAIN pending : {pending[t].main, pending[t].datagram} \subseteq Streams \union {NoStream}
    BY DEF IngressTypeOK, Half
  <2> QED
    BY <1>3, <2>1, <2>2, <2>3 DEF HalvesKept, Expected, Offered
<1>8. PairsKept'
  <2>1. sessions' = sessions
    BY DEF classify
  <2>2. \A p \in sessions : p.main # s /\ p.datagram # s
    BY <1>1 DEF Serves
  <2>3. \A p \in sessions : p.main \in Streams /\ p.datagram \in Streams \union {NoStream}
    BY DEF IngressTypeOK
  <2>4. ASSUME NEW p \in sessions PROVE Paired(p)'
    <3>1. kind'[p.main] = kind[p.main] /\ (p.datagram # NoStream => kind'[p.datagram] = kind[p.datagram])
      BY <1>3, <2>2, <2>3
    <3>2. Paired(p)
      BY DEF PairsKept
    <3> QED
      BY <3>1, <3>2 DEF Paired, Offered
  <2> QED
    BY <2>1, <2>4 DEF PairsKept
<1>9. Counted'
  <2>1. c \notin classified
    BY <1>1 DEF Told
  <2>2. IsFiniteSet(readers') /\ Cardinality(readers') = Cardinality(readers) - 1
    BY <1>1, <1>2, FS_RemoveElement DEF Counted
  <2>3. IsFiniteSet(classified') /\ Cardinality(classified') = Cardinality(classified) + 1
    BY <1>2, <2>1, FS_AddElement DEF Counted
  <2>4. Cardinality(readers) \in Nat /\ Cardinality(classified) \in Nat
    BY FS_CardinalityType DEF Counted
  <2> QED
    BY <2>2, <2>3, <2>4 DEF classify, Counted
<1> QED
  BY <1>4, <1>5, <1>6, <1>7, <1>8, <1>9

(* What Pairing::insert makes of an offer. *)
LEMMA OfferParts ==
    ASSUME NEW o \in Kinds, o.is = "offer"
    PROVE  /\ o.role \in {"Main", "Datagram"} /\ o.token \in Tokens /\ o.max_datagram \in Maxima
           /\ o = [is |-> "offer", role |-> o.role, token |-> o.token,
                   max_datagram |-> o.max_datagram]
<1>1. o \in Offers
  BY DEF Kinds, Direct, Invalid
<1> QED
  BY <1>1 DEF Offers

LEMMA AloneParts ==
    ASSUME NEW o \in Kinds, o.is = "offer", NEW s \in Streams
    PROVE  /\ Alone(o, s) \in Half /\ Alone(o, s).max_datagram = o.max_datagram
           /\ \/ o.role = "Main" /\ Alone(o, s).main = s /\ Alone(o, s).datagram = NoStream
              \/ o.role = "Datagram" /\ Alone(o, s).datagram = s /\ Alone(o, s).main = NoStream
<1> DEFINE e == [max_datagram |-> o.max_datagram, main |-> NoStream, datagram |-> NoStream,
                 overdue |-> FALSE]
<1>1. /\ e \in Half /\ e.main = NoStream /\ e.datagram = NoStream
      /\ e.max_datagram = o.max_datagram
  BY OfferParts DEF Half
<1>2. Alone(o, s) = [e EXCEPT ![Slot(o)] = s]
  BY DEF Alone
<1> HIDE DEF e
<1>3. CASE o.role = "Main"
  <2>1. Alone(o, s) = [e EXCEPT !.main = s]
    BY <1>2, <1>3 DEF Slot
  <2> QED
    BY <1>1, <1>3, <2>1 DEF Half
<1>4. CASE o.role = "Datagram"
  <2>1. Alone(o, s) = [e EXCEPT !.datagram = s]
    BY <1>2, <1>4 DEF Slot
  <2> QED
    BY <1>1, <1>4, <2>1 DEF Half
<1> QED
  BY <1>3, <1>4, OfferParts

LEMMA JoinedParts ==
    ASSUME IngressInv, NEW s \in Streams, NEW o \in Kinds, o.is = "offer", kind[s] = o,
           Waits(o), ~Refused(o)
    PROVE  \E w \in Streams :
               /\ w \in {pending[o.token].main, pending[o.token].datagram}
               /\ \/ Joined(o, s).main = s /\ Joined(o, s).datagram = w
                  \/ Joined(o, s).main = w /\ Joined(o, s).datagram = s
               /\ Offered(Joined(o, s).main, "Main", o.token, o.max_datagram)
               /\ Offered(Joined(o, s).datagram, "Datagram", o.token, o.max_datagram)
<1> DEFINE h == pending[o.token]
<1>1. h \in Half /\ h.max_datagram = o.max_datagram
  BY DEF IngressInv, IngressTypeOK, Waits, Refused
<1>2. CASE o.role = "Main"
  <2>1. h.main = NoStream /\ h.datagram \in Streams
    BY <1>1, <1>2 DEF Refused, Waits, Slot, Half, IngressInv, HalvesKept, Expected
  <2>2. Joined(o, s).main = s /\ Joined(o, s).datagram = h.datagram
    BY <1>1, <1>2 DEF Joined, Slot, Half
  <2>3. Offered(h.datagram, "Datagram", o.token, o.max_datagram)
    BY <1>1, <2>1, IngressAssumption DEF IngressInv, HalvesKept, Expected, Waits
  <2>4. Offered(s, "Main", o.token, o.max_datagram)
    BY <1>2, OfferParts DEF Offered
  <2> QED
    BY <2>1, <2>2, <2>3, <2>4
<1>3. CASE o.role # "Main"
  <2>1. h.datagram = NoStream /\ h.main \in Streams
    BY <1>1, <1>3 DEF Refused, Waits, Slot, Half, IngressInv, HalvesKept, Expected
  <2>2. Joined(o, s).main = h.main /\ Joined(o, s).datagram = s
    BY <1>1, <1>3 DEF Joined, Slot, Half
  <2>3. Offered(h.main, "Main", o.token, o.max_datagram)
    BY <1>1, <2>1, IngressAssumption DEF IngressInv, HalvesKept, Expected, Waits
  <2>4. Offered(s, "Datagram", o.token, o.max_datagram)
    BY <1>3, OfferParts DEF Offered
  <2> QED
    BY <2>1, <2>2, <2>3, <2>4
<1> QED
  BY <1>2, <1>3
(* A stream leaves the loop's channel for a session, for the halves that   *)
(* wait or for nowhere; the channel and the count lose one.                *)
LEMMA ReceiveCommon ==
    ASSUME IngressInv, NEW c \in classified, receive(c)
    PROVE  /\ c.stream \in Streams /\ c.kind \in Kinds /\ kind[c.stream] = c.kind
           /\ c.stream \notin readers /\ c.stream \notin closed
           /\ Told(c.stream) /\ ~WaitsIn(c.stream) /\ ~Serves(c.stream)
           /\ \A x : Told(x)' <=> Told(x) /\ x # c.stream
           /\ \A a, b \in classified' : a.stream = b.stream => a = b
           /\ classified' \subseteq [stream : Streams, kind : Kinds]
           /\ KindsKept'
           /\ IsFiniteSet(classified') /\ Cardinality(classified') = Cardinality(classified) - 1
           /\ Cardinality(readers) \in Nat /\ Cardinality(classified) \in Nat
           /\ Cardinality(DOMAIN pending) \in Nat
           /\ classifying' = classifying - 1 /\ classifying' \in Nat
           /\ accepting /\ UNCHANGED <<accepting, readers, kind>>
<1> USE DEF IngressInv
<1>1. c.stream \in Streams /\ c.kind \in Kinds /\ kind[c.stream] = c.kind
  BY DEF IngressTypeOK, KindsKept
<1>2. Told(c.stream)
  BY DEF Told
<1>3. /\ c.stream \notin readers /\ c.stream \notin closed
      /\ ~WaitsIn(c.stream) /\ ~Serves(c.stream)
  BY <1>1, <1>2 DEF Apart
<1>4. /\ classified' = classified \ {c} /\ classifying' = classifying - 1
      /\ accepting /\ classifying # 0 /\ UNCHANGED <<accepting, readers, kind>>
  BY DEF receive, Count
<1>5. \A x : Told(x)' <=> Told(x) /\ x # c.stream
  BY <1>4 DEF Told, Apart
<1>6. KindsKept'
  BY <1>4 DEF KindsKept
<1>7. IsFiniteSet(classified') /\ Cardinality(classified') = Cardinality(classified) - 1
  BY <1>4, FS_RemoveElement DEF Counted
<1>8. /\ Cardinality(readers) \in Nat /\ Cardinality(classified) \in Nat
      /\ Cardinality(DOMAIN pending) \in Nat
  BY FS_CardinalityType DEF Counted
<1>9. classifying' \in Nat
  BY <1>4 DEF IngressTypeOK
<1>10. /\ \A a, b \in classified' : a.stream = b.stream => a = b
       /\ classified' \subseteq [stream : Streams, kind : Kinds]
  BY <1>4 DEF Apart, IngressTypeOK
<1> QED
  BY <1>1, <1>2, <1>3, <1>4, <1>5, <1>6, <1>7, <1>8, <1>9, <1>10

LEMMA ReceiveDropped ==
    ASSUME IngressInv, NEW c \in classified, receive(c),
           closed' = closed \union {c.stream}, UNCHANGED <<pending, sessions>>
    PROVE  IngressInv'
<1>1. IngressTypeOK'
  BY ReceiveCommon DEF IngressInv, IngressTypeOK, Half
<1>2. \A x : (WaitsIn(x)' <=> WaitsIn(x)) /\ (Serves(x)' <=> Serves(x))
  BY DEF WaitsIn, Serves
<1>3. Apart'
  BY <1>2, ReceiveCommon DEF IngressInv, Apart
<1>4. HalvesKept' /\ PairsKept'
  <2>1. kind' = kind
    BY ReceiveCommon
  <2> QED
    BY <2>1, OffersStand DEF IngressInv, HalvesKept, PairsKept
<1>5. Counted'
  <2>1. /\ Cardinality(classified') = Cardinality(classified) - 1 /\ IsFiniteSet(classified')
        /\ Cardinality(readers) \in Nat /\ Cardinality(classified) \in Nat
        /\ Cardinality(DOMAIN pending) \in Nat
        /\ classifying' = classifying - 1 /\ UNCHANGED <<accepting, readers>>
    BY ReceiveCommon
  <2> QED
    BY <2>1, IngressAssumption DEF IngressInv, Counted, IngressTypeOK
<1> QED
  BY <1>1, <1>3, <1>4, <1>5, ReceiveCommon DEF IngressInv

LEMMA ReceiveDirect ==
    ASSUME IngressInv, NEW c \in classified, receive(c), c.kind = Direct,
           sessions' = sessions \union {[main |-> c.stream, datagram |-> NoStream]},
           UNCHANGED <<pending, closed>>
    PROVE  IngressInv'
<1> DEFINE p == [main |-> c.stream, datagram |-> NoStream]
<1>1. p.main = c.stream /\ p.datagram = NoStream /\ sessions' = sessions \union {p}
  OBVIOUS
<1>2. p \in [main : Streams, datagram : Streams \union {NoStream}]
  BY ReceiveCommon
<1> HIDE DEF p
<1>3. IngressTypeOK'
  BY <1>1, <1>2, ReceiveCommon DEF IngressInv, IngressTypeOK, Half
<1>4. \A x \in Streams : (WaitsIn(x)' <=> WaitsIn(x)) /\ (Serves(x)' <=> Serves(x) \/ x = c.stream)
  BY <1>1, IngressAssumption DEF WaitsIn, Serves
<1>5. \A q \in sessions : q.main # p.main
  BY <1>1, ReceiveCommon DEF Serves
<1>6. Apart'
  BY <1>1, <1>4, <1>5, ReceiveCommon DEF IngressInv, Apart
<1>a. kind' = kind
  BY ReceiveCommon
<1>7. HalvesKept'
  BY <1>a, OffersStand DEF IngressInv, HalvesKept
<1>8. PairsKept'
  <2>1. Paired(p)'
    BY <1>1, ReceiveCommon DEF Paired
  <2>2. \A q \in sessions : Paired(q)'
    BY <1>a, OffersStand DEF IngressInv, PairsKept
  <2> QED
    BY <1>1, <2>1, <2>2 DEF PairsKept
<1>9. Counted'
  <2>1. /\ Cardinality(classified') = Cardinality(classified) - 1 /\ IsFiniteSet(classified')
        /\ Cardinality(readers) \in Nat /\ Cardinality(classified) \in Nat
        /\ Cardinality(DOMAIN pending) \in Nat
        /\ classifying' = classifying - 1 /\ UNCHANGED <<accepting, readers>>
    BY ReceiveCommon
  <2> QED
    BY <2>1, IngressAssumption DEF IngressInv, Counted, IngressTypeOK
<1> QED
  BY <1>3, <1>6, <1>7, <1>8, <1>9, ReceiveCommon DEF IngressInv

LEMMA ReceiveAlone ==
    ASSUME IngressInv, NEW c \in classified, receive(c), c.kind.is = "offer", ~Waits(c.kind),
           pending' = [t \in DOMAIN pending \union {c.kind.token} |->
                          IF t = c.kind.token THEN Alone(c.kind, c.stream) ELSE pending[t]],
           UNCHANGED <<sessions, closed>>
    PROVE  IngressInv'
<1> DEFINE o == c.kind
           a == Alone(c.kind, c.stream)
<1>1. c.stream \in Streams /\ o \in Kinds /\ c.stream # NoStream
  BY ReceiveCommon, IngressAssumption
<1>2. /\ a \in Half /\ a.max_datagram = o.max_datagram
      /\ \/ o.role = "Main" /\ a.main = c.stream /\ a.datagram = NoStream
         \/ o.role = "Datagram" /\ a.datagram = c.stream /\ a.main = NoStream
  BY <1>1, AloneParts
<1>3. /\ DOMAIN pending' = DOMAIN pending \union {o.token} /\ o.token \notin DOMAIN pending
      /\ pending'[o.token] = a
      /\ \A t \in DOMAIN pending : pending'[t] = pending[t]
  BY DEF Waits
<1>4. pending' \in [DOMAIN pending' -> Half]
  <2>1. \A t \in DOMAIN pending : pending[t] \in Half
    BY DEF IngressInv, IngressTypeOK
  <2> HIDE DEF a
  <2> QED
    BY <1>2, <1>3, <2>1
<1> HIDE DEF a
<1>5. IngressTypeOK'
  BY <1>4, ReceiveCommon DEF IngressInv, IngressTypeOK
<1>6. \A x \in Streams : (WaitsIn(x)' <=> WaitsIn(x) \/ x = c.stream) /\ (Serves(x)' <=> Serves(x))
  <2>1. \A x \in Streams : x \in {a.main, a.datagram} <=> x = c.stream
    BY <1>2, IngressAssumption
  <2>2. \A x \in Streams : Serves(x)' <=> Serves(x)
    BY DEF Serves
  <2>3. \A x : WaitsIn(x)' <=> WaitsIn(x) \/ x \in {a.main, a.datagram}
    BY <1>3 DEF WaitsIn
  <2> QED
    BY <2>1, <2>2, <2>3
<1>7. Apart'
  BY <1>6, ReceiveCommon DEF IngressInv, Apart
<1>a. kind' = kind
  BY ReceiveCommon
<1>8. HalvesKept'
  <2>1. Offered(c.stream, o.role, o.token, o.max_datagram)
    BY <1>1, OfferParts, ReceiveCommon DEF Offered
  <2>2. \A t \in DOMAIN pending : Expected(t, pending[t])
    BY DEF IngressInv, HalvesKept
  <2>3. Expected(o.token, a)
    BY <1>1, <1>2, <2>1 DEF Expected
  <2>4. \A t \in DOMAIN pending' : Expected(t, pending'[t])
    BY <1>3, <2>2, <2>3
  <2> QED
    BY <1>a, <2>4, OffersStand DEF HalvesKept
<1>9. PairsKept'
  BY <1>a, OffersStand DEF IngressInv, PairsKept
<1>10. Counted'
  <2>1. /\ IsFiniteSet(DOMAIN pending')
        /\ Cardinality(DOMAIN pending') = Cardinality(DOMAIN pending) + 1
    BY <1>3, FS_AddElement DEF IngressInv, Counted
  <2> QED
    BY <2>1, ReceiveCommon, IngressAssumption DEF IngressInv, Counted, IngressTypeOK
<1> QED
  BY <1>5, <1>7, <1>8, <1>9, <1>10, ReceiveCommon DEF IngressInv

LEMMA ReceiveJoined ==
    ASSUME IngressInv, NEW c \in classified, receive(c), c.kind.is = "offer",
           ~Refused(c.kind), Waits(c.kind), pending' = Without({c.kind.token}),
           sessions' = sessions \union {[main |-> Joined(c.kind, c.stream).main,
                                         datagram |-> Joined(c.kind, c.stream).datagram]},
           UNCHANGED closed
    PROVE  IngressInv'
<1> DEFINE o == c.kind
           j == Joined(c.kind, c.stream)
           p == [main |-> j.main, datagram |-> j.datagram]
<1>1. PICK w \in Streams :
          /\ w \in {pending[o.token].main, pending[o.token].datagram}
          /\ \/ j.main = c.stream /\ j.datagram = w
             \/ j.main = w /\ j.datagram = c.stream
          /\ Offered(j.main, "Main", o.token, o.max_datagram)
          /\ Offered(j.datagram, "Datagram", o.token, o.max_datagram)
  BY ReceiveCommon, JoinedParts
<1>2. p.main = j.main /\ p.datagram = j.datagram /\ sessions' = sessions \union {p}
  OBVIOUS
<1>3. p \in [main : Streams, datagram : Streams \union {NoStream}]
  BY <1>1, ReceiveCommon
<1> HIDE DEF p, j
<1>4. /\ o.token \in DOMAIN pending /\ DOMAIN pending' = DOMAIN pending \ {o.token}
      /\ \A t \in DOMAIN pending' : pending'[t] = pending[t]
      /\ pending' \in [DOMAIN pending' -> Half]
  BY DEF Waits, Without, IngressInv, IngressTypeOK
<1>5. IngressTypeOK'
  BY <1>2, <1>3, <1>4, ReceiveCommon DEF IngressInv, IngressTypeOK
<1>6. WaitsIn(w) /\ ~Serves(w) /\ ~Told(w) /\ w \notin closed /\ w \notin readers /\ w # c.stream
  <2>1. WaitsIn(w)
    BY <1>1, <1>4 DEF WaitsIn
  <2> QED
    BY <2>1, ReceiveCommon DEF IngressInv, Apart
<1>7. \A x \in Streams : WaitsIn(x)' => WaitsIn(x)
  BY <1>4 DEF WaitsIn
<1>8. ~WaitsIn(w)'
  <2> SUFFICES ASSUME NEW t \in DOMAIN pending', w \in {pending[t].main, pending[t].datagram}
               PROVE  FALSE
    BY <1>4 DEF WaitsIn
  <2>1. w # NoStream /\ t # o.token
    BY <1>4, IngressAssumption
  <2>2. Offered(w, "Main", t, pending[t].max_datagram)
        \/ Offered(w, "Datagram", t, pending[t].max_datagram)
    BY <1>4, <2>1 DEF IngressInv, HalvesKept, Expected
  <2>3. Offered(w, "Main", o.token, o.max_datagram) \/ Offered(w, "Datagram", o.token, o.max_datagram)
    BY <1>1, <1>4, <2>1 DEF IngressInv, HalvesKept, Expected, Refused, Waits
  <2>4. t = o.token
    BY <2>2, <2>3 DEF Offered
  <2> QED
    BY <2>1, <2>4
<1>9. \A x \in Streams : Serves(x)' <=> Serves(x) \/ x = c.stream \/ x = w
  BY <1>1, <1>2 DEF Serves
<1>10. \A q \in sessions : /\ q.main # c.stream /\ q.main # w
                           /\ q.datagram # c.stream /\ q.datagram # w
  BY <1>6, ReceiveCommon DEF Serves
<1>11. Apart'
  <2>1. \A q \in sessions : /\ q.main # p.main /\ q.datagram # p.datagram
    BY <1>1, <1>2, <1>10
  <2>2. \A q, r \in sessions' : q # r =>
            q.main # r.main /\ {q.datagram} \intersect {r.datagram} \subseteq {NoStream}
    BY <1>2, <2>1 DEF IngressInv, Apart
  <2> QED
    BY <1>6, <1>7, <1>8, <1>9, <2>2, ReceiveCommon DEF IngressInv, Apart
<1>a. kind' = kind
  BY ReceiveCommon
<1>12. HalvesKept'
  BY <1>4, <1>a, OffersStand DEF IngressInv, HalvesKept
<1>13. PairsKept'
  <2>1. p.datagram # NoStream
    BY <1>1, <1>2, ReceiveCommon, IngressAssumption
  <2>2. Paired(p)
    BY <1>1, <1>2, <2>1 DEF Paired
  <2>3. \A q \in sessions' : Paired(q)'
    BY <1>2, <1>a, <2>2, OffersStand DEF IngressInv, PairsKept
  <2> QED
    BY <2>3 DEF PairsKept
<1>14. Counted'
  <2>1. /\ IsFiniteSet(DOMAIN pending')
        /\ Cardinality(DOMAIN pending') = Cardinality(DOMAIN pending) - 1
    <3>1. PICK S, T, x : S = DOMAIN pending /\ T = DOMAIN pending' /\ x = o.token
      OBVIOUS
    <3>2. IsFiniteSet(S) /\ x \in S /\ T = S \ {x}
      BY <1>4, <3>1 DEF IngressInv, Counted
    <3>3. IsFiniteSet(T) /\ Cardinality(T) = Cardinality(S) - 1
      BY <3>2, FS_RemoveElement
    <3> QED
      BY <3>1, <3>3
  <2> QED
    BY <2>1, ReceiveCommon, IngressAssumption DEF IngressInv, Counted, IngressTypeOK
<1> QED
  BY <1>5, <1>11, <1>12, <1>13, <1>14, ReceiveCommon DEF IngressInv

LEMMA ReceiveStep ==
    ASSUME IngressInv, NEW c \in classified, receive(c)
    PROVE  IngressInv'
<1>1. CASE closed' = closed \union {c.stream} /\ UNCHANGED <<pending, sessions>>
  BY <1>1, ReceiveDropped
<1>2. CASE c.kind = Direct /\ sessions' = sessions \union {[main |-> c.stream, datagram |-> NoStream]}
           /\ UNCHANGED <<pending, closed>>
  BY <1>2, ReceiveDirect
<1>3. CASE c.kind.is = "offer" /\ insert(c.kind, c.stream)
  <2>1. CASE Refused(c.kind) /\ closed' = closed \union {c.stream} /\ UNCHANGED <<pending, sessions>>
    BY <1>1, <2>1
  <2>2. CASE /\ ~Refused(c.kind) /\ ~Waits(c.kind)
             /\ pending' = [t \in DOMAIN pending \union {c.kind.token} |->
                               IF t = c.kind.token THEN Alone(c.kind, c.stream) ELSE pending[t]]
             /\ UNCHANGED <<sessions, closed>>
    BY <1>3, <2>2, ReceiveAlone
  <2>3. CASE /\ ~Refused(c.kind) /\ Waits(c.kind) /\ pending' = Without({c.kind.token})
             /\ sessions' = sessions \union {[main |-> Joined(c.kind, c.stream).main,
                                              datagram |-> Joined(c.kind, c.stream).datagram]}
             /\ UNCHANGED closed
    BY <1>3, <2>3, ReceiveJoined
  <2> QED
    BY <1>3, <2>1, <2>2, <2>3 DEF insert
<1> QED
  BY <1>1, <1>2, <1>3 DEF receive

LEMMA ElapseStep ==
    ASSUME IngressInv, NEW t \in Tokens, elapse(t)
    PROVE  IngressInv'
<1>1. /\ DOMAIN pending' = DOMAIN pending
      /\ \A u \in DOMAIN pending : /\ pending'[u].main = pending[u].main
                                   /\ pending'[u].datagram = pending[u].datagram
                                   /\ pending'[u].max_datagram = pending[u].max_datagram
                                   /\ pending'[u] \in Half
      /\ pending' \in [DOMAIN pending' -> Half]
  BY DEF elapse, IngressInv, IngressTypeOK, Half
<1>2. UNCHANGED <<accepting, classifying, readers, classified, sessions, closed, kind>>
  BY DEF elapse
<1>3. IngressTypeOK'
  BY <1>1, <1>2 DEF IngressInv, IngressTypeOK
<1>4. \A x : /\ WaitsIn(x)' <=> WaitsIn(x)
             /\ Told(x)' <=> Told(x)
             /\ Serves(x)' <=> Serves(x)
  BY <1>1, <1>2 DEF WaitsIn, Told, Serves
<1>5. Apart'
  BY <1>2, <1>4 DEF IngressInv, Apart
<1>6. KindsKept' /\ PairsKept'
  BY <1>2 DEF IngressInv, KindsKept, PairsKept, Paired, Offered
<1>7. HalvesKept'
  BY <1>1, <1>2 DEF IngressInv, HalvesKept, Expected, Offered
<1>8. Counted'
  BY <1>1, <1>2 DEF IngressInv, Counted
<1> QED
  BY <1>3, <1>5, <1>6, <1>7, <1>8 DEF IngressInv

LEMMA ExpireStep ==
    ASSUME IngressInv, expire
    PROVE  IngressInv'
<1> DEFINE late == {t \in DOMAIN pending : pending[t].overdue}
<1>1. /\ pending' = Without(late) /\ closed' = closed \union Halves(late)
      /\ UNCHANGED <<accepting, classifying, readers, classified, sessions, kind>>
  BY DEF expire
<1>2. /\ late \subseteq DOMAIN pending /\ DOMAIN pending' = DOMAIN pending \ late
      /\ \A t \in DOMAIN pending' : pending'[t] = pending[t]
      /\ pending' \in [DOMAIN pending' -> Half]
  BY <1>1 DEF Without, IngressInv, IngressTypeOK
<1> HIDE DEF late
<1>3. Halves(late) \subseteq Streams /\ \A s \in Halves(late) : WaitsIn(s)
  BY <1>2, HalvesAre DEF WaitsIn
<1>4. IngressTypeOK'
  BY <1>1, <1>2, <1>3 DEF IngressInv, IngressTypeOK
<1>5. \A x : (Told(x)' <=> Told(x)) /\ (Serves(x)' <=> Serves(x)) /\ (WaitsIn(x)' => WaitsIn(x))
  BY <1>1, <1>2 DEF WaitsIn, Told, Serves
<1>6. ASSUME NEW s \in Halves(late) PROVE ~WaitsIn(s)'
  <2> SUFFICES ASSUME NEW t \in DOMAIN pending', s \in {pending[t].main, pending[t].datagram}
               PROVE  FALSE
    BY <1>2 DEF WaitsIn
  <2>1. PICK u \in late : s # NoStream /\ s \in {pending[u].main, pending[u].datagram}
    BY <1>2, HalvesAre
  <2>2. Expected(t, pending[t]) /\ Expected(u, pending[u])
    BY <1>2, <2>1 DEF IngressInv, HalvesKept
  <2>3. t = u
    BY <2>1, <2>2 DEF Expected, Offered
  <2> QED
    BY <1>2, <2>1, <2>3
<1>7. Apart'
  BY <1>1, <1>3, <1>5, <1>6 DEF IngressInv, Apart
<1>8. KindsKept' /\ PairsKept'
  BY <1>1 DEF IngressInv, KindsKept, PairsKept, Paired, Offered
<1>9. HalvesKept'
  BY <1>1, <1>2 DEF IngressInv, HalvesKept, Expected, Offered
<1>10. Counted'
  <2>1. /\ IsFiniteSet(DOMAIN pending') /\ Cardinality(DOMAIN pending') \in Nat
        /\ Cardinality(DOMAIN pending) \in Nat
        /\ Cardinality(DOMAIN pending') <= Cardinality(DOMAIN pending)
    BY <1>2, FS_Subset, FS_CardinalityType DEF IngressInv, Counted
  <2> QED
    BY <1>1, <2>1, IngressAssumption DEF IngressInv, Counted, IngressTypeOK
<1> QED
  BY <1>4, <1>7, <1>8, <1>9, <1>10 DEF IngressInv

LEMMA StopStep ==
    ASSUME IngressInv, stop_accepting
    PROVE  IngressInv'
<1>1. /\ accepting' = FALSE /\ readers' = {} /\ classified' = {} /\ pending' = NoHalves
      /\ closed' = closed \union readers \union {c.stream : c \in classified}
                          \union Halves(DOMAIN pending)
      /\ UNCHANGED <<classifying, sessions, kind>>
  BY DEF stop_accepting
<1>2. DOMAIN pending' = {} /\ pending' \in [DOMAIN pending' -> Half]
  BY <1>1 DEF NoHalves
<1>3. \A s : s \in Halves(DOMAIN pending) => s \in Streams /\ WaitsIn(s)
  BY HalvesAre DEF WaitsIn
<1>4. \A s \in {c.stream : c \in classified} : s \in Streams /\ Told(s)
  BY DEF Told, IngressInv, IngressTypeOK
<1>5. IngressTypeOK'
  BY <1>1, <1>2, <1>3, <1>4 DEF IngressInv, IngressTypeOK
<1>6. \A x : ~Told(x)' /\ ~WaitsIn(x)' /\ (Serves(x)' <=> Serves(x))
  BY <1>1, <1>2 DEF WaitsIn, Told, Serves
<1>7. Apart'
  BY <1>1, <1>3, <1>4, <1>6 DEF IngressInv, Apart
<1>8. KindsKept' /\ HalvesKept' /\ PairsKept'
  BY <1>1, <1>2, OffersStand DEF IngressInv, KindsKept, HalvesKept, PairsKept
<1>9. Counted'
  BY <1>1, <1>2, FS_EmptySet DEF IngressInv, Counted
<1> QED
  BY <1>5, <1>7, <1>8, <1>9 DEF IngressInv

-----------------------------------------------------------------------------

LEMMA NextInv == IngressInv /\ [IngressNext]_ingress_vars => IngressInv'
<1> SUFFICES ASSUME IngressInv, [IngressNext]_ingress_vars PROVE IngressInv'
  OBVIOUS
<1>1. ASSUME NEW s \in Streams, accept(s) PROVE IngressInv'
  BY <1>1, AcceptStep
<1>2. ASSUME NEW s \in Streams, NEW k \in Kinds, classify(s, k) PROVE IngressInv'
  BY <1>2, ClassifyStep
<1>3. ASSUME NEW c \in classified, receive(c) PROVE IngressInv'
  BY <1>3, ReceiveStep
<1>4. ASSUME NEW t \in Tokens, elapse(t) PROVE IngressInv'
  BY <1>4, ElapseStep
<1>5. CASE expire
  BY <1>5, ExpireStep
<1>6. CASE stop_accepting
  BY <1>6, StopStep
<1>7. CASE UNCHANGED ingress_vars
  <2> USE <1>7 DEF ingress_vars, IngressInv
  <2>1. IngressTypeOK' /\ Counted'
    BY DEF IngressTypeOK, Half, Counted
  <2>2. Apart'
    BY DEF Apart, Told, WaitsIn, Serves
  <2>3. KindsKept' /\ HalvesKept' /\ PairsKept'
    BY OffersUnchanged
  <2> QED
    BY <2>1, <2>2, <2>3
<1> QED
  BY <1>1, <1>2, <1>3, <1>4, <1>5, <1>6, <1>7 DEF IngressNext

(* Whatever streams come, whatever they turn out to be and whenever a half *)
(* expires: run_yas_accept_loop counts exactly the streams it is           *)
(* classifying, keeps them and the halves that wait within                 *)
(* MAX_PENDING_INGRESS, has every stream in one place, and starts a        *)
(* composite session only for two halves that offered the same token and   *)
(* maximum.                                                                *)
THEOREM IngressIsExact == IngressSpec => []IngressExact
<1>1. IngressInit => IngressInv
  BY IngressInitInv
<1>2. IngressInv /\ [IngressNext]_ingress_vars => IngressInv'
  BY NextInv
<1>3. IngressInv => IngressExact
  BY ExactFollows
<1> QED
  BY <1>1, <1>2, <1>3, PTL DEF IngressSpec

-----------------------------------------------------------------------------
(* ServerShutdown: the inductive invariant. *)

(* The part of handle_core_shutdown that only the owner of the preparation *)
(* reaches: from resolve's Started to the commit.                          *)
OwnerSteps == {"started", "confirming", "sealed"}

(* One session at a time is there, with the request that is prepared. *)
OwnerIsAlone ==
    /\ \A c \in Conns : handler[c].step \in OwnerSteps =>
        \E r \in ShutdownRequests : handler[c].request = {r} /\ phase = Preparing(r)
    /\ \A c, d \in Conns :
        handler[c].step \in OwnerSteps /\ handler[d].step \in OwnerSteps => c = d

(* Only the request that is prepared or scheduled was told Ok, and not     *)
(* before its Result was handed to the writer.                             *)
OnlyOwnerTold ==
    /\ told_ok \subseteq phase.request
    /\ \A c \in Conns : handler[c].step \in {"started", "confirming"} => told_ok = {}

(* Whoever serves after the commit has its notice. *)
EveryoneTold == is_scheduled => \A c \in Serving : c \in admission_closed /\ notice[c] # "none"

(* Both latches are closed before the connections are cancelled. *)
LatchesFirst ==
    \A p \in Cleaners :
        /\ cleaner[p] \in {"sealed", "claimed", "cancelled_all", "published"} => is_shutting_down
        /\ cleaner[p] \in {"claimed", "cancelled_all", "published"} => cleanup_started

ShutdownInv ==
    /\ ShutdownTypeOK
    /\ OwnerIsAlone
    /\ OnlyOwnerTold
    /\ EveryoneTold
    /\ LatchesFirst
    /\ NoneSurvivesCleanup

LEMMA OwnerFollows == ShutdownInv => OneOwner
<1> SUFFICES ASSUME ShutdownInv PROVE OneOwner
  OBVIOUS
<1>1. ASSUME NEW c \in Conns, NEW r \in ShutdownRequests,
             handler[c] \in {At("started", r), At("confirming", r), At("sealed", r)}
      PROVE  phase = Preparing(r)
  <2>1. handler[c].step \in OwnerSteps /\ handler[c].request = {r}
    BY <1>1 DEF At, OwnerSteps
  <2> QED
    BY <2>1 DEF ShutdownInv, OwnerIsAlone
<1>2. \E r : phase.request \subseteq {r}
  <2>1. phase = NotBegun \/ \E r \in ShutdownRequests : phase = Preparing(r) \/ phase = Scheduled(r)
    BY DEF ShutdownInv, ShutdownTypeOK
  <2>2. CASE phase = NotBegun
    BY <2>2 DEF NotBegun
  <2>3. ASSUME NEW r \in ShutdownRequests, phase = Preparing(r) \/ phase = Scheduled(r)
        PROVE  phase.request = {r}
    BY <2>3 DEF Preparing, Scheduled
  <2> QED
    BY <2>1, <2>2, <2>3
<1>3. \A a, b \in told_ok : a = b
  BY <1>2 DEF ShutdownInv, OnlyOwnerTold
<1> QED
  BY <1>1, <1>3 DEF ShutdownInv, EveryoneTold, OneOwner

LEMMA InitInv == ShutdownInit => ShutdownInv
<1> SUFFICES ASSUME ShutdownInit PROVE ShutdownInv
  OBVIOUS
<1> USE DEF ShutdownInit, AtRest, NotBegun
<1>1. ShutdownTypeOK
  BY DEF ShutdownTypeOK, Cleaners
<1>2. OwnerIsAlone /\ OnlyOwnerTold
  BY DEF OwnerIsAlone, OnlyOwnerTold, OwnerSteps
<1>3. EveryoneTold
  BY DEF EveryoneTold, is_scheduled
<1>4. LatchesFirst /\ NoneSurvivesCleanup
  BY DEF LatchesFirst, NoneSurvivesCleanup, Cleaners
<1> QED
  BY <1>1, <1>2, <1>3, <1>4 DEF ShutdownInv

LEMMA TypeStep ==
    ASSUME ShutdownInv, [ShutdownNext]_shutdown_vars PROVE ShutdownTypeOK'
<1> USE DEF ShutdownInv, ShutdownTypeOK, connections, coordinator, dispatch
<1>1. ASSUME NEW c \in Conns, register(c) PROVE ShutdownTypeOK'
  BY <1>1 DEF register
<1>2. ASSUME NEW c \in Conns, register_shutdown_retry(c) PROVE ShutdownTypeOK'
  BY <1>2 DEF register_shutdown_retry
<1>3. ASSUME NEW c \in Conns, coordinator_register(c) PROVE ShutdownTypeOK'
  <2>1. CASE is_scheduled
    BY <1>3, <2>1 DEF coordinator_register
  <2>2. CASE ~is_scheduled
    BY <1>3, <2>2 DEF coordinator_register
  <2> QED
    BY <2>1, <2>2
<1>4. ASSUME NEW c \in Conns, session_ends(c) PROVE ShutdownTypeOK'
  BY <1>4 DEF session_ends, Leave, AtRest
<1>5. ASSUME NEW c \in Conns, heartbeat_expires(c) PROVE ShutdownTypeOK'
  BY <1>5 DEF heartbeat_expires, Leave, AtRest
<1>6. ASSUME NEW c \in Conns, take_notice(c) PROVE ShutdownTypeOK'
  BY <1>6 DEF take_notice, AtRest
<1>7. ASSUME NEW c \in Conns, goaway_written(c) PROVE ShutdownTypeOK'
  BY <1>7 DEF goaway_written, AtRest
<1>8. ASSUME NEW c \in Conns, NEW r \in ShutdownRequests, read_shutdown(c, r) PROVE ShutdownTypeOK'
  BY <1>8 DEF read_shutdown
<1>9. ASSUME NEW c \in Conns, NEW r \in ShutdownRequests, take_shutdown(c, r) PROVE ShutdownTypeOK'
  BY <1>9 DEF take_shutdown, AtRest, At
<1>10. ASSUME NEW c \in Conns, NEW r \in ShutdownRequests, resolve(c, r) PROVE ShutdownTypeOK'
  <2>1. handler' \in [Conns -> [step : {"dispatch", "resolving", "started", "confirming", "sealed",
                                       "goaway"},
                               request : SUBSET ShutdownRequests]]
    BY <1>10 DEF resolve, At, AtRest
  <2>2. phase' = phase \/ phase' = Preparing(r)
    BY <1>10 DEF resolve
  <2>3. told_ok' \subseteq ShutdownRequests
    BY <1>10 DEF resolve
  <2>4. \A d \in Conns : d # c => handler'[d] = handler[d]
    BY <1>10 DEF resolve
  <2> QED
    BY <1>10, <2>1, <2>2, <2>3, <2>4 DEF resolve
<1>11. ASSUME NEW c \in Conns, NEW r \in ShutdownRequests, check_shutting_down(c, r)
       PROVE  ShutdownTypeOK'
  <2>1. handler' \in [Conns -> [step : {"dispatch", "resolving", "started", "confirming", "sealed",
                                       "goaway"},
                               request : SUBSET ShutdownRequests]]
    BY <1>11 DEF check_shutting_down, At, AtRest
  <2>2. phase' = phase \/ phase' = NotBegun
    BY <1>11 DEF check_shutting_down
  <2>3. \A d \in Conns : d # c => handler'[d] = handler[d]
    BY <1>11 DEF check_shutting_down
  <2> QED
    BY <1>11, <2>1, <2>2, <2>3 DEF check_shutting_down
<1>12. ASSUME NEW c \in Conns, NEW r \in ShutdownRequests, confirm(c, r) PROVE ShutdownTypeOK'
  BY <1>12 DEF confirm, At
<1>13. ASSUME NEW c \in Conns, NEW r \in ShutdownRequests, commit(c, r) PROVE ShutdownTypeOK'
  BY <1>13 DEF commit, AtRest, At, Scheduled, Serving
<1>14. ASSUME NEW p \in Cleaners, seal_shutdown(p) PROVE ShutdownTypeOK'
  BY <1>14 DEF seal_shutdown
<1>15. ASSUME NEW p \in Cleaners, begin_cleanup(p) PROVE ShutdownTypeOK'
  BY <1>15 DEF begin_cleanup
<1>16. ASSUME NEW p \in Cleaners, cancel_all(p) PROVE ShutdownTypeOK'
  BY <1>16 DEF cancel_all, Registered
<1>17. ASSUME NEW p \in Cleaners, publish_started(p) PROVE ShutdownTypeOK'
  BY <1>17 DEF publish_started
<1>18. ASSUME signal PROVE ShutdownTypeOK'
  BY <1>18 DEF signal
<1>19. ASSUME cancel_sessions PROVE ShutdownTypeOK'
  BY <1>19 DEF cancel_sessions, Serving
<1>20. ASSUME accept_loop_ends PROVE ShutdownTypeOK'
  BY <1>20 DEF accept_loop_ends
<1>21. ASSUME wait_empty_checks PROVE ShutdownTypeOK'
  BY <1>21 DEF wait_empty_checks
<1>22. ASSUME wait_empty_wakes PROVE ShutdownTypeOK'
  BY <1>22 DEF wait_empty_wakes
<1>23. ASSUME UNCHANGED shutdown_vars PROVE ShutdownTypeOK'
  BY <1>23 DEF shutdown_vars, connections, coordinator, dispatch
<1> QED
  BY <1>1, <1>2, <1>3, <1>4, <1>5, <1>6, <1>7, <1>8, <1>9, <1>10, <1>11, <1>12, <1>13, <1>14,
     <1>15, <1>16, <1>17, <1>18, <1>19, <1>20, <1>21, <1>22, <1>23
     DEF ShutdownNext, CoreShutdown, Cleanup, EndOfServe

LEMMA LatchStep ==
    ASSUME ShutdownInv, [ShutdownNext]_shutdown_vars PROVE LatchesFirst'
<1> USE DEF ShutdownInv, ShutdownTypeOK, LatchesFirst, connections, Cleaners
<1>1. ASSUME NEW c \in Conns, register(c) PROVE LatchesFirst'
  BY <1>1 DEF register
<1>2. ASSUME NEW c \in Conns, register_shutdown_retry(c) PROVE LatchesFirst'
  BY <1>2 DEF register_shutdown_retry
<1>3. ASSUME NEW c \in Conns, coordinator_register(c) PROVE LatchesFirst'
  BY <1>3 DEF coordinator_register
<1>4. ASSUME NEW c \in Conns, session_ends(c) PROVE LatchesFirst'
  BY <1>4 DEF session_ends, Leave
<1>5. ASSUME NEW c \in Conns, heartbeat_expires(c) PROVE LatchesFirst'
  BY <1>5 DEF heartbeat_expires, Leave
<1>6. ASSUME NEW c \in Conns, take_notice(c) PROVE LatchesFirst'
  BY <1>6 DEF take_notice
<1>7. ASSUME NEW c \in Conns, goaway_written(c) PROVE LatchesFirst'
  BY <1>7 DEF goaway_written
<1>8. ASSUME NEW c \in Conns, NEW r \in ShutdownRequests, read_shutdown(c, r) PROVE LatchesFirst'
  BY <1>8 DEF read_shutdown
<1>9. ASSUME NEW c \in Conns, NEW r \in ShutdownRequests, take_shutdown(c, r) PROVE LatchesFirst'
  BY <1>9 DEF take_shutdown
<1>10. ASSUME NEW c \in Conns, NEW r \in ShutdownRequests, resolve(c, r) PROVE LatchesFirst'
  BY <1>10 DEF resolve
<1>11. ASSUME NEW c \in Conns, NEW r \in ShutdownRequests, check_shutting_down(c, r)
       PROVE  LatchesFirst'
  BY <1>11 DEF check_shutting_down
<1>12. ASSUME NEW c \in Conns, NEW r \in ShutdownRequests, confirm(c, r) PROVE LatchesFirst'
  BY <1>12 DEF confirm
<1>13. ASSUME NEW c \in Conns, NEW r \in ShutdownRequests, commit(c, r) PROVE LatchesFirst'
  BY <1>13 DEF commit
<1>14. ASSUME NEW p \in Cleaners, seal_shutdown(p) PROVE LatchesFirst'
  BY <1>14 DEF seal_shutdown
<1>15. ASSUME NEW p \in Cleaners, begin_cleanup(p) PROVE LatchesFirst'
  BY <1>15 DEF begin_cleanup
<1>16. ASSUME NEW p \in Cleaners, cancel_all(p) PROVE LatchesFirst'
  BY <1>16 DEF cancel_all
<1>17. ASSUME NEW p \in Cleaners, publish_started(p) PROVE LatchesFirst'
  BY <1>17 DEF publish_started
<1>18. ASSUME signal PROVE LatchesFirst'
  BY <1>18 DEF signal
<1>19. ASSUME cancel_sessions PROVE LatchesFirst'
  BY <1>19 DEF cancel_sessions
<1>20. ASSUME accept_loop_ends PROVE LatchesFirst'
  BY <1>20 DEF accept_loop_ends
<1>21. ASSUME wait_empty_checks PROVE LatchesFirst'
  BY <1>21 DEF wait_empty_checks
<1>22. ASSUME wait_empty_wakes PROVE LatchesFirst'
  BY <1>22 DEF wait_empty_wakes
<1>23. ASSUME UNCHANGED shutdown_vars PROVE LatchesFirst'
  BY <1>23 DEF shutdown_vars, connections, coordinator, dispatch
<1> QED
  BY <1>1, <1>2, <1>3, <1>4, <1>5, <1>6, <1>7, <1>8, <1>9, <1>10, <1>11, <1>12, <1>13, <1>14,
     <1>15, <1>16, <1>17, <1>18, <1>19, <1>20, <1>21, <1>22, <1>23
     DEF ShutdownNext, CoreShutdown, Cleanup, EndOfServe

LEMMA SurviveStep ==
    ASSUME ShutdownInv, [ShutdownNext]_shutdown_vars PROVE NoneSurvivesCleanup'
<1> USE DEF ShutdownInv, ShutdownTypeOK, LatchesFirst, NoneSurvivesCleanup, Registered, connections,
            Cleaners
<1>1. ASSUME NEW c \in Conns, register(c) PROVE NoneSurvivesCleanup'
  BY <1>1 DEF register
<1>2. ASSUME NEW c \in Conns, register_shutdown_retry(c) PROVE NoneSurvivesCleanup'
  BY <1>2 DEF register_shutdown_retry
<1>3. ASSUME NEW c \in Conns, coordinator_register(c) PROVE NoneSurvivesCleanup'
  BY <1>3 DEF coordinator_register
<1>4. ASSUME NEW c \in Conns, session_ends(c) PROVE NoneSurvivesCleanup'
  BY <1>4 DEF session_ends, Leave
<1>5. ASSUME NEW c \in Conns, heartbeat_expires(c) PROVE NoneSurvivesCleanup'
  BY <1>5 DEF heartbeat_expires, Leave
<1>6. ASSUME NEW c \in Conns, take_notice(c) PROVE NoneSurvivesCleanup'
  BY <1>6 DEF take_notice
<1>7. ASSUME NEW c \in Conns, goaway_written(c) PROVE NoneSurvivesCleanup'
  BY <1>7 DEF goaway_written
<1>8. ASSUME NEW c \in Conns, NEW r \in ShutdownRequests, read_shutdown(c, r)
      PROVE  NoneSurvivesCleanup'
  BY <1>8 DEF read_shutdown
<1>9. ASSUME NEW c \in Conns, NEW r \in ShutdownRequests, take_shutdown(c, r)
      PROVE  NoneSurvivesCleanup'
  BY <1>9 DEF take_shutdown
<1>10. ASSUME NEW c \in Conns, NEW r \in ShutdownRequests, resolve(c, r) PROVE NoneSurvivesCleanup'
  BY <1>10 DEF resolve
<1>11. ASSUME NEW c \in Conns, NEW r \in ShutdownRequests, check_shutting_down(c, r)
       PROVE  NoneSurvivesCleanup'
  BY <1>11 DEF check_shutting_down
<1>12. ASSUME NEW c \in Conns, NEW r \in ShutdownRequests, confirm(c, r) PROVE NoneSurvivesCleanup'
  BY <1>12 DEF confirm
<1>13. ASSUME NEW c \in Conns, NEW r \in ShutdownRequests, commit(c, r) PROVE NoneSurvivesCleanup'
  BY <1>13 DEF commit
<1>14. ASSUME NEW p \in Cleaners, seal_shutdown(p) PROVE NoneSurvivesCleanup'
  BY <1>14 DEF seal_shutdown
<1>15. ASSUME NEW p \in Cleaners, begin_cleanup(p) PROVE NoneSurvivesCleanup'
  BY <1>15 DEF begin_cleanup
<1>16. ASSUME NEW p \in Cleaners, cancel_all(p) PROVE NoneSurvivesCleanup'
  BY <1>16 DEF cancel_all
<1>17. ASSUME NEW p \in Cleaners, publish_started(p) PROVE NoneSurvivesCleanup'
  BY <1>17 DEF publish_started
<1>18. ASSUME signal PROVE NoneSurvivesCleanup'
  BY <1>18 DEF signal
<1>19. ASSUME cancel_sessions PROVE NoneSurvivesCleanup'
  BY <1>19 DEF cancel_sessions
<1>20. ASSUME accept_loop_ends PROVE NoneSurvivesCleanup'
  BY <1>20 DEF accept_loop_ends
<1>21. ASSUME wait_empty_checks PROVE NoneSurvivesCleanup'
  BY <1>21 DEF wait_empty_checks
<1>22. ASSUME wait_empty_wakes PROVE NoneSurvivesCleanup'
  BY <1>22 DEF wait_empty_wakes
<1>23. ASSUME UNCHANGED shutdown_vars PROVE NoneSurvivesCleanup'
  BY <1>23 DEF shutdown_vars, connections, coordinator, dispatch
<1> QED
  BY <1>1, <1>2, <1>3, <1>4, <1>5, <1>6, <1>7, <1>8, <1>9, <1>10, <1>11, <1>12, <1>13, <1>14,
     <1>15, <1>16, <1>17, <1>18, <1>19, <1>20, <1>21, <1>22, <1>23
     DEF ShutdownNext, CoreShutdown, Cleanup, EndOfServe

LEMMA ToldStep ==
    ASSUME ShutdownInv, [ShutdownNext]_shutdown_vars PROVE EveryoneTold'
<1> USE DEF ShutdownInv, ShutdownTypeOK, EveryoneTold, Serving, is_scheduled, connections,
            coordinator,
            dispatch
<1>1. ASSUME NEW c \in Conns, register(c) PROVE EveryoneTold'
  BY <1>1 DEF register
<1>2. ASSUME NEW c \in Conns, register_shutdown_retry(c) PROVE EveryoneTold'
  BY <1>2 DEF register_shutdown_retry
<1>3. ASSUME NEW c \in Conns, coordinator_register(c) PROVE EveryoneTold'
  BY <1>3 DEF coordinator_register
<1>4. ASSUME NEW c \in Conns, session_ends(c) PROVE EveryoneTold'
  BY <1>4 DEF session_ends, Leave
<1>5. ASSUME NEW c \in Conns, heartbeat_expires(c) PROVE EveryoneTold'
  BY <1>5 DEF heartbeat_expires, Leave
<1>6. ASSUME NEW c \in Conns, take_notice(c) PROVE EveryoneTold'
  BY <1>6 DEF take_notice
<1>7. ASSUME NEW c \in Conns, goaway_written(c) PROVE EveryoneTold'
  BY <1>7 DEF goaway_written
<1>8. ASSUME NEW c \in Conns, NEW r \in ShutdownRequests, read_shutdown(c, r) PROVE EveryoneTold'
  BY <1>8 DEF read_shutdown
<1>9. ASSUME NEW c \in Conns, NEW r \in ShutdownRequests, take_shutdown(c, r) PROVE EveryoneTold'
  BY <1>9 DEF take_shutdown
<1>10. ASSUME NEW c \in Conns, NEW r \in ShutdownRequests, resolve(c, r) PROVE EveryoneTold'
  BY <1>10 DEF resolve, NotBegun, Preparing
<1>11. ASSUME NEW c \in Conns, NEW r \in ShutdownRequests, check_shutting_down(c, r)
       PROVE  EveryoneTold'
  BY <1>11 DEF check_shutting_down, NotBegun, Preparing
<1>12. ASSUME NEW c \in Conns, NEW r \in ShutdownRequests, confirm(c, r) PROVE EveryoneTold'
  BY <1>12 DEF confirm
<1>13. ASSUME NEW c \in Conns, NEW r \in ShutdownRequests, commit(c, r) PROVE EveryoneTold'
  BY <1>13 DEF commit, Scheduled
<1>14. ASSUME NEW p \in Cleaners, seal_shutdown(p) PROVE EveryoneTold'
  BY <1>14 DEF seal_shutdown
<1>15. ASSUME NEW p \in Cleaners, begin_cleanup(p) PROVE EveryoneTold'
  BY <1>15 DEF begin_cleanup
<1>16. ASSUME NEW p \in Cleaners, cancel_all(p) PROVE EveryoneTold'
  BY <1>16 DEF cancel_all
<1>17. ASSUME NEW p \in Cleaners, publish_started(p) PROVE EveryoneTold'
  BY <1>17 DEF publish_started
<1>18. ASSUME signal PROVE EveryoneTold'
  BY <1>18 DEF signal
<1>19. ASSUME cancel_sessions PROVE EveryoneTold'
  BY <1>19 DEF cancel_sessions
<1>20. ASSUME accept_loop_ends PROVE EveryoneTold'
  BY <1>20 DEF accept_loop_ends
<1>21. ASSUME wait_empty_checks PROVE EveryoneTold'
  BY <1>21 DEF wait_empty_checks
<1>22. ASSUME wait_empty_wakes PROVE EveryoneTold'
  BY <1>22 DEF wait_empty_wakes
<1>23. ASSUME UNCHANGED shutdown_vars PROVE EveryoneTold'
  BY <1>23 DEF shutdown_vars, connections, coordinator, dispatch
<1> QED
  BY <1>1, <1>2, <1>3, <1>4, <1>5, <1>6, <1>7, <1>8, <1>9, <1>10, <1>11, <1>12, <1>13, <1>14,
     <1>15, <1>16, <1>17, <1>18, <1>19, <1>20, <1>21, <1>22, <1>23
     DEF ShutdownNext, CoreShutdown, Cleanup, EndOfServe

(* A step that brings nobody into the owner's part keeps both. *)
LEMMA OwnerKept ==
    ASSUME ShutdownInv, phase' = phase, told_ok' = told_ok,
           \A d \in Conns : handler'[d] = handler[d] \/ handler'[d].step \notin OwnerSteps
    PROVE  (OwnerIsAlone /\ OnlyOwnerTold)'
<1>1. \A d \in Conns : handler'[d].step \in OwnerSteps => handler'[d] = handler[d]
  OBVIOUS
<1>2. OwnerIsAlone'
  BY <1>1 DEF ShutdownInv, OwnerIsAlone, Preparing
<1>3. OnlyOwnerTold'
  BY <1>1 DEF ShutdownInv, OnlyOwnerTold, OwnerSteps
<1> QED
  BY <1>2, <1>3

LEMMA OwnerStep ==
    ASSUME ShutdownInv, [ShutdownNext]_shutdown_vars PROVE (OwnerIsAlone /\ OnlyOwnerTold)'
<1> USE DEF ShutdownInv, ShutdownTypeOK, OwnerIsAlone, OnlyOwnerTold, OwnerSteps, is_scheduled,
            connections, coordinator, dispatch
<1>1. ASSUME NEW c \in Conns, register(c) PROVE (OwnerIsAlone /\ OnlyOwnerTold)'
  BY <1>1 DEF register
<1>2. ASSUME NEW c \in Conns, register_shutdown_retry(c) PROVE (OwnerIsAlone /\ OnlyOwnerTold)'
  BY <1>2 DEF register_shutdown_retry
<1>3. ASSUME NEW c \in Conns, coordinator_register(c) PROVE (OwnerIsAlone /\ OnlyOwnerTold)'
  BY <1>3 DEF coordinator_register
<1>4. ASSUME NEW c \in Conns, session_ends(c) PROVE (OwnerIsAlone /\ OnlyOwnerTold)'
  BY <1>4 DEF session_ends, Leave, AtRest
<1>5. ASSUME NEW c \in Conns, heartbeat_expires(c) PROVE (OwnerIsAlone /\ OnlyOwnerTold)'
  BY <1>5 DEF heartbeat_expires, Leave, AtRest
<1>6. ASSUME NEW c \in Conns, take_notice(c) PROVE (OwnerIsAlone /\ OnlyOwnerTold)'
  BY <1>6 DEF take_notice, AtRest
<1>7. ASSUME NEW c \in Conns, goaway_written(c) PROVE (OwnerIsAlone /\ OnlyOwnerTold)'
  BY <1>7 DEF goaway_written, AtRest
<1>8. ASSUME NEW c \in Conns, NEW r \in ShutdownRequests, read_shutdown(c, r)
      PROVE  (OwnerIsAlone /\ OnlyOwnerTold)'
  BY <1>8 DEF read_shutdown
<1>9. ASSUME NEW c \in Conns, NEW r \in ShutdownRequests, take_shutdown(c, r)
      PROVE  (OwnerIsAlone /\ OnlyOwnerTold)'
  <2>1. \A d \in Conns : handler'[d] = handler[d] \/ handler'[d].step = "resolving"
    BY <1>9 DEF take_shutdown, At
  <2>2. phase' = phase /\ told_ok' = told_ok
    BY <1>9 DEF take_shutdown
  <2> QED
    BY <2>1, <2>2, OwnerKept
<1>10. ASSUME NEW c \in Conns, NEW r \in ShutdownRequests, resolve(c, r)
       PROVE  (OwnerIsAlone /\ OnlyOwnerTold)'
  <2>1. \A d \in Conns : d # c => handler'[d] = handler[d]
    BY <1>10 DEF resolve
  <2>2. CASE phase = NotBegun /\ phase' = Preparing(r) /\ told_ok' = told_ok
    <3>1. handler'[c].step = "started" /\ handler'[c].request = {r}
      BY <1>10, <2>2 DEF resolve, At, NotBegun, Preparing
    <3>2. \A d \in Conns : handler[d].step \notin OwnerSteps
      BY <2>2 DEF NotBegun, Preparing
    <3>3. told_ok = {} /\ phase'.request = {r}
      BY <2>2 DEF NotBegun, Preparing
    <3> QED
      BY <2>1, <2>2, <3>1, <3>2, <3>3
  <2>3. CASE phase' = phase
    <3>1. handler'[c].step = "dispatch"
      BY <1>10, <2>3 DEF resolve, AtRest, NotBegun, Preparing
    <3>2. told_ok' \subseteq phase.request
      BY <1>10, <2>3 DEF resolve
    <3>3. told_ok' = told_ok \/ is_scheduled
      BY <1>10 DEF resolve
    <3>4. is_scheduled => \A d \in Conns : handler[d].step \notin OwnerSteps
      BY DEF Preparing
    <3>5. \A d \in Conns : handler'[d].step \in OwnerSteps => d # c /\ handler'[d] = handler[d]
      BY <2>1, <3>1
    <3>6. OwnerIsAlone'
      BY <2>3, <3>5
    <3>7. OnlyOwnerTold'
      BY <2>3, <3>2, <3>3, <3>4, <3>5
    <3> QED
      BY <3>6, <3>7
  <2> QED
    BY <1>10, <2>2, <2>3 DEF resolve
<1>11. ASSUME NEW c \in Conns, NEW r \in ShutdownRequests, check_shutting_down(c, r)
       PROVE  (OwnerIsAlone /\ OnlyOwnerTold)'
  <2>1. handler[c].step = "started" /\ handler[c].request = {r}
    BY <1>11 DEF check_shutting_down, At
  <2>2. told_ok = {} /\ phase = Preparing(r)
    BY <2>1
  <2>3. \A d \in Conns : d # c => handler[d].step \notin OwnerSteps /\ handler'[d] = handler[d]
    BY <1>11, <2>1 DEF check_shutting_down
  <2>4. \/ handler'[c].step = "dispatch"
        \/ handler'[c].step = "confirming" /\ handler'[c].request = {r} /\ phase' = phase
    BY <1>11 DEF check_shutting_down, At, AtRest
  <2>5. told_ok' = {}
    BY <1>11, <2>2 DEF check_shutting_down
  <2> QED
    BY <2>2, <2>3, <2>4, <2>5
<1>12. ASSUME NEW c \in Conns, NEW r \in ShutdownRequests, confirm(c, r)
       PROVE  (OwnerIsAlone /\ OnlyOwnerTold)'
  <2>1. handler[c].step = "confirming" /\ handler[c].request = {r}
    BY <1>12 DEF confirm, At
  <2>2. told_ok = {} /\ phase = Preparing(r)
    BY <2>1
  <2>3. \A d \in Conns : d # c => handler[d].step \notin OwnerSteps /\ handler'[d] = handler[d]
    BY <1>12, <2>1 DEF confirm
  <2>4. handler'[c].step = "sealed" /\ handler'[c].request = {r} /\ phase' = phase
    BY <1>12 DEF confirm, At
  <2>5. told_ok' = phase.request
    BY <1>12, <2>2 DEF confirm, Preparing
  <2> QED
    BY <2>2, <2>3, <2>4, <2>5
<1>13. ASSUME NEW c \in Conns, NEW r \in ShutdownRequests, commit(c, r)
       PROVE  (OwnerIsAlone /\ OnlyOwnerTold)'
  <2>1. handler[c].step = "sealed" /\ handler[c].request = {r}
    BY <1>13 DEF commit, At
  <2>2. phase.request = {r} /\ phase'.request = {r}
    <3>1. \E q \in ShutdownRequests : handler[c].request = {q} /\ phase = Preparing(q)
      BY <2>1
    <3>2. phase = Preparing(r)
      BY <2>1, <3>1
    <3>3. phase' = Scheduled(r)
      BY <1>13 DEF commit
    <3> QED
      BY <3>2, <3>3 DEF Preparing, Scheduled
  <2>3. \A d \in Conns : d # c => handler[d].step \notin OwnerSteps /\ handler'[d] = handler[d]
    BY <1>13, <2>1 DEF commit
  <2>4. handler'[c].step = "dispatch" /\ told_ok' = told_ok
    BY <1>13 DEF commit, AtRest
  <2> QED
    BY <2>2, <2>3, <2>4
<1>14. ASSUME NEW p \in Cleaners, seal_shutdown(p) PROVE (OwnerIsAlone /\ OnlyOwnerTold)'
  BY <1>14 DEF seal_shutdown
<1>15. ASSUME NEW p \in Cleaners, begin_cleanup(p) PROVE (OwnerIsAlone /\ OnlyOwnerTold)'
  BY <1>15 DEF begin_cleanup
<1>16. ASSUME NEW p \in Cleaners, cancel_all(p) PROVE (OwnerIsAlone /\ OnlyOwnerTold)'
  BY <1>16 DEF cancel_all
<1>17. ASSUME NEW p \in Cleaners, publish_started(p) PROVE (OwnerIsAlone /\ OnlyOwnerTold)'
  BY <1>17 DEF publish_started
<1>18. ASSUME signal PROVE (OwnerIsAlone /\ OnlyOwnerTold)'
  BY <1>18 DEF signal
<1>19. ASSUME cancel_sessions PROVE (OwnerIsAlone /\ OnlyOwnerTold)'
  BY <1>19 DEF cancel_sessions
<1>20. ASSUME accept_loop_ends PROVE (OwnerIsAlone /\ OnlyOwnerTold)'
  BY <1>20 DEF accept_loop_ends
<1>21. ASSUME wait_empty_checks PROVE (OwnerIsAlone /\ OnlyOwnerTold)'
  BY <1>21 DEF wait_empty_checks
<1>22. ASSUME wait_empty_wakes PROVE (OwnerIsAlone /\ OnlyOwnerTold)'
  BY <1>22 DEF wait_empty_wakes
<1>23. ASSUME UNCHANGED shutdown_vars PROVE (OwnerIsAlone /\ OnlyOwnerTold)'
  BY <1>23 DEF shutdown_vars, connections, coordinator, dispatch
<1> QED
  BY <1>1, <1>2, <1>3, <1>4, <1>5, <1>6, <1>7, <1>8, <1>9, <1>10, <1>11, <1>12, <1>13, <1>14,
     <1>15, <1>16, <1>17, <1>18, <1>19, <1>20, <1>21, <1>22, <1>23
     DEF ShutdownNext, CoreShutdown, Cleanup, EndOfServe

LEMMA ShutdownInvariant == ShutdownSpec => []ShutdownInv
<1>1. ShutdownInv /\ [ShutdownNext]_shutdown_vars => ShutdownInv'
  BY TypeStep, OwnerStep, ToldStep, LatchStep, SurviveStep DEF ShutdownInv
<1> QED
  BY <1>1, InitInv, PTL DEF ShutdownSpec

(* The state keeps its types, and a connection that is not served leaves   *)
(* no request, notice or admission mark behind, however it ended.          *)
THEOREM ShutdownTypeCorrect == ShutdownSpec => []ShutdownTypeOK
<1>1. ShutdownInv => ShutdownTypeOK
  BY DEF ShutdownInv
<1> QED
  BY <1>1, ShutdownInvariant, PTL

(* One SHUTDOWN operation owns the boot, among any number of connections   *)
(* and requests: only its handler commits, only it is told Ok, and every   *)
(* session that serves after the commit has been told to go away.          *)
THEOREM OneOperationOwnsTheBoot == ShutdownSpec => []OneOwner
<1> QED
  BY OwnerFollows, ShutdownInvariant, PTL

(* No connection, an ordinary one or a shutdown retry, slips past the      *)
(* snapshot that begin_server_shutdown cancels.                            *)
THEOREM CleanupReachesEveryone == ShutdownSpec => []NoneSurvivesCleanup
<1>1. ShutdownInv => NoneSurvivesCleanup
  BY DEF ShutdownInv
<1> QED
  BY <1>1, ShutdownInvariant, PTL
=============================================================================
