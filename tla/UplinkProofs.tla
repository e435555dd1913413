----------------------------- MODULE UplinkProofs -----------------------------
(***************************************************************************)
(* Proofs about the two layers of the uplink: UplinkDatagram for every     *)
(* counter width, window and rekey interval, and UplinkStream for every    *)
(* rekey interval and any number of items.                                 *)
(***************************************************************************)
EXTENDS UplinkDatagram, UplinkStream, TLAPS

-----------------------------------------------------------------------------
(* Datagrams. *)

(* What is known to have been delivered was sealed, and once. *)
SealedOnce ==
    \A n \in Counters :
        /\ delivered[n] <= 1
        /\ delivered[n] # 0 => \E text \in sealed : text.nonce = n

(* DeliveredOnce is inductive with the meaning of the window and with the  *)
(* key each text is sealed under.                                          *)
DatagramInv == DatagramTypeOK /\ WindowExact /\ NonceFresh /\ SealedOnce

LEMMA DeriveIsEpoch ==
    ASSUME NEW cached, NEW e PROVE derive(cached, e) = e
BY DEF derive

LEMMA EpochIsInt ==
    ASSUME NEW n \in Counters PROVE epoch(n) \in Int
BY DatagramAssumption DEF epoch, Counters

LEMMA DatagramInitInv == DatagramInit => DatagramInv
BY DatagramAssumption
   DEF DatagramInit, DatagramInv, DatagramTypeOK, WindowExact, NonceFresh, SealedOnce, Counters,
       Nothing

(* A packet that opens carries a text sealed for its counter, and that     *)
(* counter has not been delivered.                                         *)
LEMMA OpensFresh ==
    ASSUME DatagramInv, NEW n \in Counters, NEW text \in sealed, Opens(n, text)
    PROVE  text.nonce = n /\ delivered[n] = 0
<1>1. text.nonce = n
  BY DEF Opens, Authentic
<1>2. CASE highest = Nothing
  BY <1>1, <1>2 DEF DatagramInv, WindowExact
<1>3. CASE highest # Nothing /\ n > highest
  BY <1>1, <1>3 DEF DatagramInv, WindowExact
<1>4. CASE highest # Nothing /\ n <= highest
  BY <1>1, <1>4 DEF DatagramInv, WindowExact, Opens, NotReplayed
<1> QED
  BY <1>2, <1>3, <1>4 DEF DatagramInv, DatagramTypeOK, Counters, Nothing

(* The window says exactly which packets still open. *)
LEMMA OpensExactly ==
    ASSUME DatagramInv, NEW text \in sealed
    PROVE  Opens(text.nonce, text) <=>
               /\ delivered[text.nonce] = 0
               /\ highest # Nothing => text.nonce + WindowBits > highest
<1> DEFINE n == text.nonce
<1>1. n \in Counters /\ text = [key |-> epoch(n), nonce |-> n]
  BY DEF DatagramInv, DatagramTypeOK, NonceFresh
<1>2. Authentic(n, text)
  BY <1>1, DeriveIsEpoch DEF Authentic
<1>3. NotReplayed(n) <=> /\ delivered[n] = 0
                         /\ highest # Nothing => n + WindowBits > highest
  <2> USE <1>1, DatagramAssumption
  <2>1. CASE highest = Nothing
    BY <2>1 DEF DatagramInv, WindowExact, NotReplayed
  <2>2. CASE highest # Nothing /\ n > highest
    BY <2>2 DEF DatagramInv, DatagramTypeOK, WindowExact, NotReplayed, Counters, Nothing
  <2>3. CASE highest # Nothing /\ n <= highest
    <3>1. highest \in Counters
      BY <2>3 DEF DatagramInv, DatagramTypeOK
    <3>2. highest - n < WindowBits <=> n + WindowBits > highest
      BY <3>1 DEF Counters
    <3>3. highest - n < WindowBits => (highest - n \in window <=> delivered[n] # 0)
      BY <2>3 DEF DatagramInv, WindowExact
    <3> QED
      BY <2>3, <3>2, <3>3 DEF NotReplayed
  <2> QED
    BY <2>1, <2>2, <2>3 DEF DatagramInv, DatagramTypeOK, Counters, Nothing
<1> QED
  BY <1>2, <1>3 DEF Opens

LEMMA DatagramSealStep ==
    ASSUME DatagramInv, seal
    PROVE  DatagramInv'
<1> USE DatagramAssumption
<1> DEFINE new == [key |-> epoch(sequence), nonce |-> sequence]
<1>1. sequence \in Counters /\ sealed' = sealed \union {new}
  BY DeriveIsEpoch DEF seal, DatagramInv, DatagramTypeOK
<1>2. epoch(sequence) \in Int
  BY <1>1, EpochIsInt
<1>3. DatagramTypeOK'
  <2>1. sequence' \in Counters \union {Nothing}
    BY <1>1 DEF seal, next_sequence, Counters
  <2>2. sender_cached' \in Int
    BY <1>2, DeriveIsEpoch DEF seal
  <2>3. sealed' \subseteq [key : Int, nonce : Counters]
    BY <1>1, <1>2 DEF DatagramInv, DatagramTypeOK
  <2> QED
    BY <2>1, <2>2, <2>3 DEF seal, DatagramInv, DatagramTypeOK
<1>4. WindowExact'
  BY DEF seal, DatagramInv, WindowExact
<1>5. NonceFresh'
  <2>1. \A text \in sealed : text.nonce < sequence
    BY DEF seal, DatagramInv, NonceFresh
  <2>2. sequence' # Nothing => sequence' = sequence + 1
    BY DEF seal, next_sequence
  <2>3. sequence' # Nothing => \A text \in sealed' : text.nonce < sequence'
    BY <1>1, <2>1, <2>2 DEF DatagramInv, DatagramTypeOK, Counters
  <2>4. \A text \in sealed' : text.key = epoch(text.nonce)
    BY <1>1 DEF DatagramInv, NonceFresh
  <2> QED
    BY <2>3, <2>4 DEF NonceFresh, epoch
<1>6. SealedOnce'
  BY <1>1 DEF seal, DatagramInv, SealedOnce
<1> QED
  BY <1>3, <1>4, <1>5, <1>6 DEF DatagramInv

LEMMA DatagramOpenStep ==
    ASSUME DatagramInv, NEW n \in Counters, NEW text \in sealed, open(n, text)
    PROVE  DatagramInv'
<1> USE DatagramAssumption
<1>1. text.nonce = n /\ delivered[n] = 0
  BY OpensFresh DEF open
<1>2. delivered' = [delivered EXCEPT ![n] = 1]
  BY <1>1 DEF open, DatagramInv, DatagramTypeOK
<1>3. /\ delivered'[n] = 1
      /\ \A m \in Counters : m # n => delivered'[m] = delivered[m]
  BY <1>2 DEF DatagramInv, DatagramTypeOK
<1>4. DatagramTypeOK'
  <2>1. receiver_cached' \in Int
    BY DeriveIsEpoch, EpochIsInt DEF open
  <2>2. highest' \in Counters \union {Nothing}
    BY DEF open, DatagramInv, DatagramTypeOK
  <2>3. window' \subseteq 0 .. WindowBits - 1
    <3>1. CASE highest # Nothing /\ n <= highest
      <4>1. highest - n \in 0 .. WindowBits - 1
        BY <3>1 DEF open, Opens, NotReplayed, DatagramInv, DatagramTypeOK, Counters
      <4>2. window' = window \union {highest - n}
        BY <3>1 DEF open, DatagramInv, DatagramTypeOK, Counters
      <4>3. window \subseteq 0 .. WindowBits - 1
        BY DEF DatagramInv, DatagramTypeOK
      <4> QED
        BY <4>1, <4>2, <4>3
    <3>2. CASE highest # Nothing /\ n > highest
      BY <3>2 DEF open, Shifted, DatagramInv, DatagramTypeOK, Counters
    <3>3. CASE highest = Nothing
      BY <3>3 DEF open
    <3> QED
      BY <3>1, <3>2, <3>3 DEF DatagramInv, DatagramTypeOK, Counters, Nothing
  <2>4. delivered' \in [Counters -> Nat]
    BY <1>2 DEF DatagramInv, DatagramTypeOK
  <2> QED
    BY <2>1, <2>2, <2>3, <2>4 DEF open, DatagramInv, DatagramTypeOK
<1>5. WindowExact'
  <2>1. CASE highest # Nothing /\ n <= highest
    <3>1. highest' = highest /\ window' = window \union {highest - n}
      BY <2>1 DEF open, DatagramInv, DatagramTypeOK, Counters
    <3>2. highest \in Int
      BY <2>1 DEF DatagramInv, DatagramTypeOK, Counters
    <3>3. ASSUME NEW m \in Counters
          PROVE  /\ m > highest => delivered'[m] = 0
                 /\ m <= highest /\ highest - m < WindowBits =>
                        (highest - m \in window' <=> delivered'[m] # 0)
      <4>1. CASE m = n
        BY <1>3, <2>1, <3>1, <3>2, <4>1 DEF Counters
      <4>2. CASE m # n
        <5>1. highest - m # highest - n
          BY <3>2, <4>2 DEF Counters
        <5>2. delivered'[m] = delivered[m]
          BY <1>3, <4>2
        <5> QED
          BY <2>1, <3>1, <5>1, <5>2 DEF DatagramInv, WindowExact
      <4> QED
        BY <4>1, <4>2
    <3> QED
      BY <2>1, <3>1, <3>3 DEF WindowExact
  <2>2. CASE highest # Nothing /\ n > highest
    <3>1. highest' = n /\ window' = Shifted(window, n - highest) \union {0}
      BY <2>2 DEF open, DatagramInv, DatagramTypeOK, Counters
    <3>2. highest \in Int /\ n \in Int /\ window \subseteq 0 .. WindowBits - 1
      BY <2>2 DEF DatagramInv, DatagramTypeOK, Counters
    <3>3. ASSUME NEW m \in Counters
          PROVE  /\ m > n => delivered'[m] = 0
                 /\ m <= n /\ n - m < WindowBits => (n - m \in window' <=> delivered'[m] # 0)
      <4> m \in Int
        BY DEF Counters
      <4>1. CASE m = n
        BY <1>3, <3>1, <4>1 DEF Counters
      <4>2. CASE m > n
        <5>1. delivered'[m] = delivered[m]
          BY <1>3, <3>2, <4>2
        <5>2. m > highest
          BY <2>2, <3>2, <4>2
        <5> QED
          BY <2>2, <3>2, <4>2, <5>1, <5>2 DEF DatagramInv, WindowExact
      <4>3. CASE m < n
        <5>1. delivered'[m] = delivered[m]
          BY <1>3, <3>2, <4>3
        <5>2. SUFFICES ASSUME n - m < WindowBits
                       PROVE  n - m \in window' <=> delivered[m] # 0
          BY <3>2, <4>3, <5>1
        <5>3. n - m \in window' <=> highest - m \in window
          <6>1. n - m \in window' <=> n - m \in Shifted(window, n - highest)
            BY <3>1, <3>2, <4>3
          <6>2. n - m \in 0 .. WindowBits - 1
            BY <3>2, <4>3, <5>2
          <6>3. n - m \in Shifted(window, n - highest) <=>
                    \E i \in window : i + (n - highest) = n - m
            BY <6>2 DEF Shifted
          <6>4. (\E i \in window : i + (n - highest) = n - m) <=> highest - m \in window
            <7>1. \A i \in window : i \in Int
              BY <3>2
            <7>2. \A i \in Int : i + (n - highest) = n - m <=> i = highest - m
              BY <3>2
            <7>3. highest - m \in Int
              BY <3>2
            <7> QED
              BY <7>1, <7>2, <7>3
          <6> QED
            BY <6>1, <6>3, <6>4
        <5>4. CASE m <= highest
          <6>1. highest - m < WindowBits
            BY <2>2, <3>2, <5>2
          <6> QED
            BY <2>2, <5>3, <5>4, <6>1 DEF DatagramInv, WindowExact
        <5>5. CASE m > highest
          <6>1. highest - m \notin window
            BY <3>2, <5>5
          <6> QED
            BY <2>2, <5>3, <5>5, <6>1 DEF DatagramInv, WindowExact
        <5> QED
          BY <3>2, <5>4, <5>5
      <4> QED
        BY <3>2, <4>1, <4>2, <4>3
    <3>4. n # Nothing
      BY DEF Counters, Nothing
    <3> QED
      BY <3>1, <3>3, <3>4 DEF WindowExact
  <2>3. CASE highest = Nothing
    <3>1. highest' = n /\ window' = {0} /\ n # Nothing
      BY <2>3 DEF open, Counters, Nothing
    <3>2. \A m \in Counters : m # n => delivered'[m] = 0
      BY <1>3, <2>3 DEF DatagramInv, WindowExact
    <3>3. \A m \in Counters : n - m = 0 <=> m = n
      BY DEF Counters
    <3>4. \A m \in Counters : m > n => m # n
      BY DEF Counters
    <3> QED
      BY <1>3, <3>1, <3>2, <3>3, <3>4 DEF WindowExact
  <2> QED
    BY <2>1, <2>2, <2>3 DEF DatagramInv, DatagramTypeOK, Counters, Nothing
<1>6. NonceFresh'
  BY DEF open, DatagramInv, NonceFresh, epoch
<1>7. SealedOnce'
  <2>1. sealed' = sealed
    BY DEF open
  <2> QED
    BY <1>1, <1>3, <2>1 DEF DatagramInv, SealedOnce
<1> QED
  BY <1>4, <1>5, <1>6, <1>7 DEF DatagramInv

LEMMA StutterStep ==
    ASSUME DatagramInv, UNCHANGED datagram_vars
    PROVE  DatagramInv'
BY DEF datagram_vars, DatagramInv, DatagramTypeOK, WindowExact, NonceFresh, SealedOnce, epoch

LEMMA DatagramInvariant == DatagramSpec => []DatagramInv
<1>1. DatagramInv /\ [DatagramNext]_datagram_vars => DatagramInv'
  BY DatagramSealStep, DatagramOpenStep, StutterStep DEF DatagramNext
<1> QED
  BY <1>1, DatagramInitInv, PTL DEF DatagramSpec

(* seal never uses a counter twice with one key, whatever the width of the *)
(* counter and the rekey interval.                                         *)
THEOREM NoncesAreFresh == DatagramSpec => []NonceFresh
<1>1. DatagramInv => NonceFresh
  BY DEF DatagramInv
<1> QED
  BY <1>1, DatagramInvariant, PTL

(* open returns what was sealed, once, and an intact packet opens exactly  *)
(* when it is new and not a whole window late, under any loss, repetition  *)
(* and reordering.                                                         *)
THEOREM DatagramsAreDeliveredOnce == DatagramSpec => []DeliveredOnce
<1>1. DatagramInv => DeliveredOnce
  BY OpensExactly DEF DatagramInv, SealedOnce, DeliveredOnce
<1> QED
  BY <1>1, DatagramInvariant, PTL

-----------------------------------------------------------------------------
(* Records. *)

(* The key of a record is a function of its nonce. *)
KeyOf(nonce) == nonce \div RekeyEvery

TextPieces == [piece : {"text"}, key : Nat, nonce : Nat, kind : {"DATA", "FIN"}, item : Nat]
Pieces == {Header, Damaged} \union TextPieces
TransportState ==
    [sending_nonce : Nat, sending_key : Nat, receiving_nonce : Nat, receiving_key : Nat]

(* The types of the two streams and of the carrier. *)
EndsTypeOK ==
    /\ state \in [Ends -> TransportState]
    /\ outgoing \in [Ends -> Seq(Pieces)]
    /\ reading \in [Ends -> {"header", "text"}]
    /\ plaintext \in [Ends -> Seq(Nat)]
    /\ read_closed \subseteq Ends /\ write_closed \subseteq Ends /\ failed \subseteq Ends
CarrierTypeOK == wire \in [Ends -> Seq(Pieces)] /\ ended \subseteq Ends /\ disturbed \in BOOLEAN
ItemsTypeOK == written \in [Ends -> Nat] /\ received \in [Ends -> Seq(Nat)]
StreamTypeOK == EndsTypeOK /\ CarrierTypeOK /\ ItemsTypeOK

(* Both ends derive their keys from the nonces they are at, and an end has *)
(* sealed one record for each item, and one more for the shutdown.         *)
KeysFollow ==
    \A e \in Ends :
        /\ state[e].sending_key = KeyOf(state[e].sending_nonce)
        /\ state[e].receiving_key = KeyOf(state[e].receiving_nonce)
        /\ state[e].sending_nonce = IF e \in write_closed THEN written[e] + 1 ELSE written[e]

(* What a record under way says: the item of its nonce, or the end.        *)
GenuineOf(items, closed, x) ==
    x.piece = "text" =>
        /\ x.key = KeyOf(x.nonce)
        /\ x.kind = "DATA" => x.item = x.nonce + 1 /\ x.nonce < items
        /\ x.kind = "FIN" => closed /\ x.nonce = items
Genuine(e, x) == GenuineOf(written[e], e \in write_closed, x)
Sealed ==
    \A e \in Ends :
        /\ \A i \in DOMAIN wire[e] : Genuine(e, wire[e][i])
        /\ \A i \in DOMAIN outgoing[e] : Genuine(e, outgoing[e][i])

(* What an end has read is numbered on from 1 up to the nonce it is at; a  *)
(* FIN took one nonce more and there is nothing left to read.              *)
InOrder ==
    \A e \in Ends :
        /\ plaintext[e] = << >> \/ plaintext[e] = <<Len(received[e]) + 1>>
        /\ \A i \in DOMAIN received[e] : received[e][i] = i
        /\ Len(received[e]) + Len(plaintext[e]) <= written[Peer(e)]
        /\ e \notin read_closed =>
               state[e].receiving_nonce = Len(received[e]) + Len(plaintext[e])
        /\ e \in read_closed =>
               /\ Peer(e) \in write_closed /\ plaintext[e] = << >>
               /\ Len(received[e]) = written[Peer(e)]
               /\ state[e].receiving_nonce = written[Peer(e)] + 1

(* On an undisturbed carrier headers and texts alternate from where the    *)
(* reader is, the texts with every nonce from the reader's to the          *)
(* writer's, and an end that has shut the carrier has nothing to write.    *)
Offset(e) == IF reading[e] = "header" THEN 0 ELSE 1
PlacedAt(x, n, place) ==
    \/ x = Header /\ place % 2 = 1
    \/ x.piece = "text" /\ 2 * (x.nonce - n + 1) = place
Placed(q, n, offset) == \A i \in DOMAIN q : PlacedAt(q[i], n, offset + i)
Aligned(e) ==
    LET p == Peer(e)
        n == state[p].receiving_nonce
    IN  /\ Placed(wire[e], n, Offset(p))
        /\ Placed(outgoing[e], n, Offset(p) + Len(wire[e]))
        /\ Offset(p) + Len(wire[e]) + Len(outgoing[e]) = 2 * (state[e].sending_nonce - n)
Undisturbed ==
    ~disturbed => /\ failed = {}
                  /\ \A e \in Ends : Aligned(e)
                  /\ \A e \in ended : e \in write_closed /\ outgoing[e] = << >>

(* The inductive invariant of UplinkStream. *)
StreamInv == StreamTypeOK /\ KeysFollow /\ Sealed /\ InOrder /\ Undisturbed

LEMMA PeerIs == Ends = {"client", "server"} /\ Peer("client") = "server" /\ Peer("server") = "client"
  BY DEF Ends, Peer

LEMMA PeerFacts ==
    ASSUME NEW e \in Ends
    PROVE  /\ Peer(e) \in Ends /\ Peer(e) # e /\ Peer(Peer(e)) = e
           /\ \A p \in Ends : p = e \/ p = Peer(e)
  BY PeerIs

LEMMA KeyStep ==
    ASSUME NEW n \in Nat
    PROVE  /\ KeyOf(n) \in Nat /\ KeyOf(0) = 0
           /\ KeyOf(n + 1) = IF rekeys(n + 1) THEN KeyOf(n) + 1 ELSE KeyOf(n)
  <1>1. RekeyEvery \in Nat /\ RekeyEvery > 0
    BY StreamAssumption
  <1> QED
    BY <1>1 DEF KeyOf, rekeys

LEMMA StreamInitInv == StreamInit => StreamInv
  <1> SUFFICES ASSUME StreamInit
               PROVE  StreamInv
    OBVIOUS
  <1>1. StreamTypeOK
    <2>1. \A S : << >> \in Seq(S)
      OBVIOUS
    <2>2. state \in [Ends -> TransportState]
      BY DEF StreamInit, TransportState
    <2>3. EndsTypeOK
      BY <2>1, <2>2 DEF StreamInit, EndsTypeOK
    <2>4. CarrierTypeOK
      BY <2>1 DEF StreamInit, CarrierTypeOK
    <2>5. ItemsTypeOK
      BY <2>1 DEF StreamInit, ItemsTypeOK
    <2> QED
      BY <2>3, <2>4, <2>5 DEF StreamTypeOK
  <1>2. KeysFollow
    BY KeyStep DEF StreamInit, KeysFollow
  <1>3. Sealed /\ InOrder
    BY PeerFacts DEF StreamInit, Sealed, InOrder
  <1>4. Undisturbed
    BY PeerFacts DEF StreamInit, Undisturbed, Aligned, Placed, Offset
  <1> QED
    BY <1>1, <1>2, <1>3, <1>4 DEF StreamInv

-----------------------------------------------------------------------------
(* Sequences. *)

LEMMA AppendFacts ==
    ASSUME NEW S, NEW q \in Seq(S), NEW x \in S
    PROVE  /\ Append(q, x) \in Seq(S) /\ Len(Append(q, x)) = Len(q) + 1
           /\ \A i \in DOMAIN Append(q, x) :
                  \/ i \in DOMAIN q /\ Append(q, x)[i] = q[i]
                  \/ i = Len(q) + 1 /\ Append(q, x)[i] = x
  OBVIOUS

LEMMA TailFacts ==
    ASSUME NEW S, NEW q \in Seq(S), q # << >>
    PROVE  /\ 1 \in DOMAIN q /\ Head(q) = q[1] /\ Head(q) \in S
           /\ Tail(q) \in Seq(S) /\ Len(Tail(q)) = Len(q) - 1 /\ Len(q) \in Nat
           /\ \A i \in DOMAIN Tail(q) : i \in Nat /\ i + 1 \in DOMAIN q /\ Tail(q)[i] = q[i + 1]
  OBVIOUS

-----------------------------------------------------------------------------
(* Writing. *)

LEMMA DrainStep ==
    ASSUME StreamInv, NEW e \in Ends, drain(e)
    PROVE  StreamInv'
  <1> USE DEF StreamInv, StreamTypeOK, EndsTypeOK, CarrierTypeOK, ItemsTypeOK
  <1>1. outgoing[e] \in Seq(Pieces) /\ outgoing[e] # << >> /\ wire[e] \in Seq(Pieces)
    BY DEF drain
  <1>2. /\ UNCHANGED <<state, reading, plaintext, read_closed, write_closed, ended, disturbed,
                       written, received>>
        /\ e \notin failed
    BY DEF drain
  <1>3. KeysFollow' /\ InOrder'
    BY <1>2 DEF KeysFollow, InOrder
  <1>4. CASE e \notin ended
    <2> DEFINE h == Head(outgoing[e])
    <2>1. /\ wire' = [wire EXCEPT ![e] = Append(wire[e], h)]
          /\ outgoing' = [outgoing EXCEPT ![e] = Tail(outgoing[e])]
          /\ UNCHANGED failed
      BY <1>4 DEF drain
    <2>2. /\ 1 \in DOMAIN outgoing[e] /\ h = outgoing[e][1] /\ h \in Pieces
          /\ Tail(outgoing[e]) \in Seq(Pieces) /\ Len(Tail(outgoing[e])) = Len(outgoing[e]) - 1
          /\ Len(outgoing[e]) \in Nat
          /\ \A i \in DOMAIN Tail(outgoing[e]) : /\ i \in Nat /\ i + 1 \in DOMAIN outgoing[e]
                                                /\ Tail(outgoing[e])[i] = outgoing[e][i + 1]
      BY <1>1, TailFacts
    <2> HIDE DEF h
    <2>3. /\ Append(wire[e], h) \in Seq(Pieces) /\ Len(Append(wire[e], h)) = Len(wire[e]) + 1
          /\ \A i \in DOMAIN Append(wire[e], h) :
                  \/ i \in DOMAIN wire[e] /\ Append(wire[e], h)[i] = wire[e][i]
                  \/ i = Len(wire[e]) + 1 /\ Append(wire[e], h)[i] = h
      BY <1>1, <2>2, AppendFacts
    <2>4. StreamTypeOK'
      BY <1>2, <2>1, <2>2, <2>3
    <2>6. Sealed'
      <3>1. \A x \in Ends : \A y : Genuine(x, y)' <=> Genuine(x, y)
        BY <1>2 DEF Genuine
      <3>2. \A x \in Ends : x # e => wire'[x] = wire[x] /\ outgoing'[x] = outgoing[x]
        BY <2>1
      <3>3. wire'[e] = Append(wire[e], h) /\ outgoing'[e] = Tail(outgoing[e])
        BY <2>1
      <3>4. Genuine(e, h)
        BY <2>2 DEF Sealed
      <3>5. \A i \in DOMAIN wire'[e] : Genuine(e, wire'[e][i])
        BY <2>3, <3>3, <3>4 DEF Sealed
      <3>6. \A i \in DOMAIN outgoing'[e] : Genuine(e, outgoing'[e][i])
        BY <2>2, <3>3 DEF Sealed
      <3> QED
        BY <3>1, <3>2, <3>5, <3>6 DEF Sealed
    <2>7. Undisturbed'
      <3> SUFFICES ASSUME ~disturbed
                   PROVE  /\ failed' = {} /\ \A x \in Ends : Aligned(x)'
                          /\ \A x \in ended' : x \in write_closed' /\ outgoing'[x] = << >>
        BY <1>2 DEF Undisturbed
      <3>1. \A x \in ended : x # e
        BY <1>4
      <3>2. \A x \in Ends : x # e => Aligned(x)'
        BY <1>2, <2>1 DEF Undisturbed, Aligned, Offset
      <3>3. Aligned(e)'
        <4> DEFINE p == Peer(e)
                   n == state[p].receiving_nonce
                   o == Offset(p)
                   l == Len(wire[e])
        <4>1. /\ Placed(wire[e], n, o) /\ Placed(outgoing[e], n, o + l)
              /\ o + l + Len(outgoing[e]) = 2 * (state[e].sending_nonce - n)
          BY DEF Undisturbed, Aligned
        <4>2. o \in {0, 1} /\ l \in Nat /\ o' = o /\ n' = n /\ p' = p
          BY <1>1, <1>2 DEF Offset
        <4> HIDE DEF o, l, n, p
        <4>3. Placed(Append(wire[e], h), n, o)
          <5>1. o + (l + 1) = o + l + 1
            BY <4>2
          <5>2. PlacedAt(h, n, o + l + 1)
            BY <2>2, <4>1 DEF Placed
          <5> QED
            BY <2>3, <4>1, <5>1, <5>2 DEF Placed, l
        <4>4. Placed(Tail(outgoing[e]), n, o + (l + 1))
          <5> SUFFICES ASSUME NEW i \in DOMAIN Tail(outgoing[e])
                       PROVE  PlacedAt(Tail(outgoing[e])[i], n, o + (l + 1) + i)
            BY DEF Placed
          <5>1. o + (l + 1) + i = o + l + (i + 1)
            BY <2>2, <4>2
          <5> QED
            BY <2>2, <4>1, <5>1 DEF Placed
        <4>5. o + (l + 1) + Len(Tail(outgoing[e])) = 2 * (state[e].sending_nonce - n)
          BY <2>2, <4>1, <4>2
        <4>6. wire'[e] = Append(wire[e], h) /\ outgoing'[e] = Tail(outgoing[e]) /\ state' = state
              /\ Len(wire'[e]) = l + 1
          BY <1>2, <2>1, <2>3 DEF l
        <4> QED
          BY <4>2, <4>3, <4>4, <4>5, <4>6 DEF Aligned, n, o, p
      <3> QED
        BY <1>2, <2>1, <3>1, <3>2, <3>3 DEF Undisturbed
    <2> QED
      BY <1>3, <2>4, <2>6, <2>7
  <1>5. CASE e \in ended
    <2>1. failed' = failed \union {e} /\ UNCHANGED <<wire, outgoing>>
      BY <1>5 DEF drain
    <2>2. disturbed
      BY <1>1, <1>5 DEF Undisturbed
    <2> QED
      BY <1>2, <1>3, <2>1, <2>2 DEF Sealed, Genuine, Undisturbed
  <1> QED
    BY <1>4, <1>5

(* Sealing a record, for an item or for the shutdown. *)
Seals(e, kind, item) ==
    /\ outgoing[e] = << >> /\ e \notin write_closed
    /\ seal_record(e, kind, item)
    /\ \/ /\ kind = "DATA" /\ item = written[e] + 1
          /\ written' = [written EXCEPT ![e] = @ + 1] /\ UNCHANGED write_closed
       \/ /\ kind = "FIN" /\ item = 0
          /\ UNCHANGED written /\ write_closed' = write_closed \union {e}
    /\ UNCHANGED <<reading, plaintext, read_closed, failed, carrier, received>>

LEMMA SealStep ==
    ASSUME StreamInv, NEW e \in Ends, NEW kind, NEW item, Seals(e, kind, item)
    PROVE  StreamInv'
  <1> USE DEF StreamInv, StreamTypeOK, EndsTypeOK, CarrierTypeOK, ItemsTypeOK
  <1> DEFINE s == state[e]
             x == Text(s, kind, item)
             k == IF rekeys(s.sending_nonce + 1) THEN s.sending_key + 1 ELSE s.sending_key
             t == [s EXCEPT !.sending_nonce = s.sending_nonce + 1, !.sending_key = k]
  <1>1. /\ UNCHANGED <<reading, plaintext, read_closed, failed, wire, ended, disturbed, received>>
        /\ outgoing[e] = << >> /\ e \notin write_closed
        /\ outgoing' = [outgoing EXCEPT ![e] = <<Header, x>>]
        /\ state' = [state EXCEPT ![e] = t]
    BY DEF Seals, seal_record, AfterSending, carrier
  <1>2. s \in TransportState /\ written[e] \in Nat
    BY DEF EndsTypeOK
  <1>3. \/ /\ kind = "DATA" /\ item = written[e] + 1
           /\ written' = [written EXCEPT ![e] = @ + 1] /\ write_closed' = write_closed
        \/ /\ kind = "FIN" /\ item = 0
           /\ written' = written /\ write_closed' = write_closed \union {e}
    BY DEF Seals
  <1>4. /\ t \in TransportState /\ t.receiving_nonce = s.receiving_nonce
        /\ t.receiving_key = s.receiving_key /\ t.sending_nonce = s.sending_nonce + 1
        /\ t.sending_key = k
    <2>1. s.sending_nonce + 1 \in Nat /\ k \in Nat
      BY <1>2 DEF TransportState
    <2> HIDE DEF k, s
    <2> QED
      BY <1>2, <2>1 DEF TransportState
  <1>5. s.sending_key = KeyOf(s.sending_nonce) /\ s.sending_nonce = written[e]
        /\ s.sending_nonce \in Nat
    BY <1>1, <1>2 DEF KeysFollow, TransportState
  <1>6. /\ x \in TextPieces /\ x.piece = "text" /\ x.nonce = written[e] /\ x.key = KeyOf(written[e])
        /\ x.kind = kind /\ x.item = item
    BY <1>2, <1>3, <1>5 DEF Text, TextPieces, TransportState
  <1>7. /\ <<Header, x>> \in Seq(Pieces) /\ Len(<<Header, x>>) = 2
        /\ DOMAIN <<Header, x>> = {1, 2} /\ <<Header, x>>[1] = Header /\ <<Header, x>>[2] = x
    BY <1>6 DEF Pieces
  <1>8. /\ state'[e] = t /\ outgoing'[e] = <<Header, x>>
        /\ \A y \in Ends : y # e => state'[y] = state[y] /\ outgoing'[y] = outgoing[y]
    BY <1>1
  <1>9. /\ \A y \in Ends : y # e => written'[y] = written[y] /\ (y \in write_closed' <=> y \in write_closed)
        /\ written'[e] = (IF kind = "DATA" THEN written[e] + 1 ELSE written[e])
        /\ kind \in {"DATA", "FIN"} /\ (e \in write_closed' <=> kind = "FIN")
    BY <1>1, <1>3
  <1> HIDE DEF x, t, s, k
  <1>10. StreamTypeOK'
    <2>1. state' \in [Ends -> TransportState] /\ outgoing' \in [Ends -> Seq(Pieces)]
      BY <1>1, <1>4, <1>7
    <2>2. written' \in [Ends -> Nat] /\ write_closed' \subseteq Ends
      BY <1>3
    <2> QED
      BY <1>1, <2>1, <2>2
  <1>11. KeysFollow'
    <2>1. \A y \in Ends : y # e =>
              /\ state'[y].sending_key = KeyOf(state'[y].sending_nonce)
              /\ state'[y].receiving_key = KeyOf(state'[y].receiving_nonce)
              /\ state'[y].sending_nonce = IF y \in write_closed' THEN written'[y] + 1 ELSE written'[y]
      BY <1>8, <1>9 DEF KeysFollow
    <2>2. t.sending_key = KeyOf(t.sending_nonce)
      BY <1>4, <1>5, KeyStep DEF k
    <2>3. t.receiving_key = KeyOf(t.receiving_nonce)
      BY <1>4 DEF KeysFollow, s
    <2>4. t.sending_nonce = IF e \in write_closed' THEN written'[e] + 1 ELSE written'[e]
      BY <1>4, <1>5, <1>9
    <2> QED
      BY <1>8, <2>1, <2>2, <2>3, <2>4 DEF KeysFollow
  <1>12. Sealed'
    <2> DEFINE Now(y, z) == GenuineOf(written'[y], y \in write_closed', z)
    <2>1. \A y \in Ends : \A z : Genuine(y, z) => y = e \/ Now(y, z)
      BY <1>9 DEF Genuine, GenuineOf
    <2>2. \A z \in Pieces : Genuine(e, z) => Now(e, z)
      BY <1>1, <1>2, <1>9 DEF Genuine, GenuineOf, Pieces, TextPieces, Header, Damaged
    <2>3. Now(e, Header) /\ Now(e, x)
      BY <1>2, <1>3, <1>6, <1>9 DEF GenuineOf, Header
    <2> HIDE DEF Now
    <2>4. \A i \in DOMAIN outgoing'[e] : Now(e, outgoing'[e][i])
      BY <1>7, <1>8, <2>3
    <2>5. wire' = wire /\ \A y \in Ends : \A i \in DOMAIN wire[y] : wire[y][i] \in Pieces
      BY <1>1
    <2>6. \A y \in Ends : y # e => \A i \in DOMAIN outgoing'[y] : Now(y, outgoing'[y][i])
      BY <1>8, <2>1 DEF Sealed
    <2>7. \A y \in Ends : \A i \in DOMAIN wire'[y] : Now(y, wire'[y][i])
      BY <2>1, <2>2, <2>5 DEF Sealed
    <2> QED
      BY <2>4, <2>6, <2>7 DEF Sealed, Genuine, Now
  <1>13. InOrder'
    <2>1. \A y \in Ends : state'[y].receiving_nonce = state[y].receiving_nonce
      BY <1>4, <1>8 DEF s
    <2>2. \A y \in Ends : /\ Peer(y) \in Ends /\ written[Peer(y)] \in Nat
                          /\ written'[Peer(y)] \in {written[Peer(y)], written[Peer(y)] + 1}
                          /\ Peer(y) \in write_closed =>
                                 Peer(y) \in write_closed' /\ written'[Peer(y)] = written[Peer(y)]
      BY <1>1, <1>9, PeerFacts
    <2>3. \A y \in Ends : Len(received[y]) \in Nat /\ Len(plaintext[y]) \in Nat
      OBVIOUS
    <2>4. UNCHANGED <<plaintext, received, read_closed>>
      BY <1>1
    <2> SUFFICES ASSUME NEW y \in Ends
                 PROVE  /\ plaintext[y] = << >> \/ plaintext[y] = <<Len(received[y]) + 1>>
                        /\ \A i \in DOMAIN received[y] : received[y][i] = i
                        /\ Len(received[y]) + Len(plaintext[y]) <= written'[Peer(y)]
                        /\ y \notin read_closed =>
                               state[y].receiving_nonce = Len(received[y]) + Len(plaintext[y])
                        /\ y \in read_closed =>
                               /\ Peer(y) \in write_closed' /\ plaintext[y] = << >>
                               /\ Len(received[y]) = written'[Peer(y)]
                               /\ state[y].receiving_nonce = written'[Peer(y)] + 1
      BY <2>1, <2>4 DEF InOrder
    <2>5. /\ plaintext[y] = << >> \/ plaintext[y] = <<Len(received[y]) + 1>>
          /\ \A i \in DOMAIN received[y] : received[y][i] = i
          /\ y \notin read_closed =>
                 state[y].receiving_nonce = Len(received[y]) + Len(plaintext[y])
      BY DEF InOrder
    <2>6. Len(received[y]) + Len(plaintext[y]) <= written'[Peer(y)]
      <3>1. Len(received[y]) + Len(plaintext[y]) <= written[Peer(y)]
        BY DEF InOrder
      <3>2. written[Peer(y)] \in Nat /\ Len(received[y]) \in Nat /\ Len(plaintext[y]) \in Nat
            /\ written'[Peer(y)] \in {written[Peer(y)], written[Peer(y)] + 1}
        BY <2>2, <2>3
      <3>3. \A a, b, w \in Nat : a + b <= w => a + b <= w + 1
        OBVIOUS
      <3>4. Len(received[y]) + Len(plaintext[y]) <= written[Peer(y)] + 1
        BY <3>1, <3>2, <3>3
      <3> QED
        BY <3>1, <3>2, <3>4
    <2>7. y \in read_closed =>
               /\ Peer(y) \in write_closed' /\ plaintext[y] = << >>
               /\ Len(received[y]) = written'[Peer(y)]
               /\ state[y].receiving_nonce = written'[Peer(y)] + 1
      BY <2>2 DEF InOrder
    <2> QED
      BY <2>5, <2>6, <2>7
  <1>14. Undisturbed'
    <2> SUFFICES ASSUME ~disturbed
                 PROVE  /\ failed' = {} /\ \A y \in Ends : Aligned(y)'
                        /\ \A y \in ended' : y \in write_closed' /\ outgoing'[y] = << >>
      BY <1>1 DEF Undisturbed
    <2>1. failed' = {} /\ \A y \in ended' : y \in write_closed' /\ outgoing'[y] = << >>
      BY <1>1, <1>3, <1>8 DEF Undisturbed
    <2>2. \A y \in Ends : /\ state'[y].receiving_nonce = state[y].receiving_nonce
                          /\ Offset(y)' = Offset(y)
      BY <1>1, <1>4, <1>8 DEF Offset, s
    <2>3. \A y \in Ends : y # e => Aligned(y)'
      BY <1>1, <1>8, <2>2, PeerFacts DEF Undisturbed, Aligned
    <2>4. Aligned(e)'
      <3> DEFINE p == Peer(e)
                 n == state[p].receiving_nonce
                 o == Offset(p)
                 l == Len(wire[e])
      <3>0. p \in Ends
        BY PeerFacts
      <3>1. /\ Placed(wire[e], n, o) /\ o + l + Len(outgoing[e]) = 2 * (s.sending_nonce - n)
        BY DEF Undisturbed, Aligned, s
      <3>2. o \in {0, 1} /\ l \in Nat /\ Offset(p)' = o /\ state'[p].receiving_nonce = n /\ n \in Nat
        BY <2>2, <3>0 DEF Offset, TransportState
      <3>3. Len(outgoing[e]) = 0
        BY <1>1
      <3> HIDE DEF o, l, n, p
      <3>4. o + l = 2 * (written[e] - n)
        BY <1>5, <3>1, <3>2, <3>3
      <3>5. PlacedAt(Header, n, o + l + 1) /\ PlacedAt(x, n, o + l + 2)
        <4>1. (o + l + 1) % 2 = 1 /\ 2 * (written[e] - n + 1) = o + l + 2
          BY <1>2, <3>2, <3>4
        <4> QED
          BY <1>6, <4>1 DEF PlacedAt
      <3>6. Placed(<<Header, x>>, n, o + l)
        BY <1>7, <3>5 DEF Placed
      <3>7. o + l + 2 = 2 * (t.sending_nonce - n)
        <4>1. t.sending_nonce = written[e] + 1
          BY <1>4, <1>5
        <4> QED
          BY <1>2, <3>2, <3>4, <4>1
      <3>8. wire'[e] = wire[e]
        BY <1>1
      <3> QED
        BY <1>7, <1>8, <3>1, <3>2, <3>6, <3>7, <3>8 DEF Aligned, n, o, p, l
    <2> QED
      BY <2>1, <2>3, <2>4
  <1> QED
    BY <1>10, <1>11, <1>12, <1>13, <1>14

LEMMA ShutdownStep ==
    ASSUME StreamInv, NEW e \in Ends, poll_shutdown(e)
    PROVE  StreamInv'
  <1> USE DEF StreamInv, StreamTypeOK, EndsTypeOK, CarrierTypeOK, ItemsTypeOK
  <1>1. CASE e \notin write_closed
    <2>1. Seals(e, "FIN", 0)
      BY <1>1 DEF poll_shutdown, Seals, carrier
    <2> QED
      BY <2>1, SealStep
  <1>2. CASE e \in write_closed
    <2>1. /\ UNCHANGED <<state, outgoing, write_closed, reading, plaintext, read_closed, wire,
                         disturbed, written, received>>
          /\ outgoing[e] = << >>
          /\ \/ ended' = ended \union {e} /\ UNCHANGED failed
             \/ disturbed /\ failed' = failed \union {e} /\ UNCHANGED ended
      BY <1>2 DEF poll_shutdown
    <2>2. StreamTypeOK'
      BY <2>1
    <2>3. KeysFollow' /\ Sealed' /\ InOrder'
      BY <2>1 DEF KeysFollow, Sealed, Genuine, InOrder
    <2>4. \A x \in Ends : Aligned(x)' <=> Aligned(x)
      BY <2>1 DEF Aligned, Offset
    <2>5. Undisturbed'
      BY <1>2, <2>1, <2>4 DEF Undisturbed
    <2> QED
      BY <2>2, <2>3, <2>5
  <1> QED
    BY <1>1, <1>2

-----------------------------------------------------------------------------
(* Reading. *)

(* An end fails only on a disturbed carrier. *)
LEMMA FailStep ==
    ASSUME StreamInv, disturbed, NEW e \in Ends, failed' = failed \union {e},
           UNCHANGED <<state, outgoing, reading, plaintext, read_closed, write_closed, ended,
                       disturbed, written, received>>,
           wire' \in [Ends -> Seq(Pieces)],
           \A x \in Ends : \A i \in DOMAIN wire'[x] : Genuine(x, wire'[x][i])
    PROVE  StreamInv'
  <1> USE DEF StreamInv, StreamTypeOK, EndsTypeOK, CarrierTypeOK, ItemsTypeOK
  <1>1. StreamTypeOK'
    OBVIOUS
  <1>2. KeysFollow' /\ Sealed' /\ InOrder' /\ Undisturbed'
    BY DEF KeysFollow, Sealed, Genuine, InOrder, Undisturbed
  <1> QED
    BY <1>1, <1>2

LEMMA EofStep ==
    ASSUME StreamInv, NEW e \in Ends, unexpected_eof(e)
    PROVE  StreamInv'
  <1> USE DEF StreamInv, StreamTypeOK, EndsTypeOK, CarrierTypeOK, ItemsTypeOK
  <1> DEFINE p == Peer(e)
  <1>1. /\ UNCHANGED <<state, outgoing, reading, plaintext, read_closed, write_closed, wire, ended,
                       disturbed, written, received>>
        /\ failed' = failed \union {e}
        /\ e \notin read_closed /\ plaintext[e] = << >> /\ wire[p] = << >> /\ p \in ended
    BY DEF unexpected_eof, WantsRecord, carrier
  <1>2. p \in Ends /\ Peer(p) = e
    BY PeerFacts
  <1>3. disturbed
    <2> SUFFICES ASSUME ~disturbed
                 PROVE  FALSE
      OBVIOUS
    <2>1. Aligned(p) /\ p \in write_closed /\ outgoing[p] = << >>
      BY <1>1, <1>2 DEF Undisturbed
    <2>2. Offset(e) + Len(wire[p]) + Len(outgoing[p])
              = 2 * (state[p].sending_nonce - state[e].receiving_nonce)
      BY <1>2, <2>1 DEF Aligned
    <2>3. Len(wire[p]) = 0 /\ Len(outgoing[p]) = 0 /\ Offset(e) \in {0, 1}
      BY <1>1, <2>1 DEF Offset
    <2>4. /\ state[e].receiving_nonce \in Nat /\ written[p] \in Nat
          /\ state[e].receiving_nonce <= written[p]
      BY <1>1, <1>2 DEF InOrder, TransportState
    <2>5. state[p].sending_nonce = written[p] + 1
      BY <1>2, <2>1 DEF KeysFollow
    <2> QED
      BY <2>2, <2>3, <2>4, <2>5
  <1>4. wire' \in [Ends -> Seq(Pieces)]
        /\ \A x \in Ends : \A i \in DOMAIN wire'[x] : Genuine(x, wire'[x][i])
    BY <1>1 DEF Sealed
  <1> QED
    BY <1>1, <1>3, <1>4, FailStep

(* A piece is taken from the wire: the rest stays genuine. *)
LEMMA TakePiece ==
    ASSUME StreamInv, NEW p \in Ends, wire[p] # << >>,
           wire' = [wire EXCEPT ![p] = Tail(@)]
    PROVE  /\ wire' \in [Ends -> Seq(Pieces)] /\ wire'[p] = Tail(wire[p])
           /\ \A x \in Ends : x # p => wire'[x] = wire[x]
           /\ \A x \in Ends : \A i \in DOMAIN wire'[x] : Genuine(x, wire'[x][i])
           /\ Head(wire[p]) \in Pieces /\ Genuine(p, Head(wire[p]))
           /\ 1 \in DOMAIN wire[p] /\ Head(wire[p]) = wire[p][1]
           /\ Len(wire[p]) \in Nat /\ Len(wire'[p]) = Len(wire[p]) - 1
           /\ \A i \in DOMAIN wire'[p] :
                  i \in Nat /\ i + 1 \in DOMAIN wire[p] /\ wire'[p][i] = wire[p][i + 1]
  <1>1. wire \in [Ends -> Seq(Pieces)] /\ wire[p] \in Seq(Pieces)
    BY DEF StreamInv, StreamTypeOK, CarrierTypeOK
  <1>2. /\ 1 \in DOMAIN wire[p] /\ Head(wire[p]) = wire[p][1] /\ Head(wire[p]) \in Pieces
        /\ Tail(wire[p]) \in Seq(Pieces) /\ Len(Tail(wire[p])) = Len(wire[p]) - 1
        /\ Len(wire[p]) \in Nat
        /\ \A i \in DOMAIN Tail(wire[p]) :
               i \in Nat /\ i + 1 \in DOMAIN wire[p] /\ Tail(wire[p])[i] = wire[p][i + 1]
    BY <1>1, TailFacts
  <1>3. wire'[p] = Tail(wire[p]) /\ \A x \in Ends : x # p => wire'[x] = wire[x]
    BY <1>1
  <1>4. wire' \in [Ends -> Seq(Pieces)]
    BY <1>1, <1>2
  <1>5. \A x \in Ends : \A i \in DOMAIN wire[x] : Genuine(x, wire[x][i])
    BY DEF StreamInv, Sealed
  <1>6. \A x \in Ends : \A i \in DOMAIN wire'[x] : Genuine(x, wire'[x][i])
    BY <1>2, <1>3, <1>5
  <1> QED
    BY <1>2, <1>3, <1>4, <1>5, <1>6

LEMMA ReadHeaderStep ==
    ASSUME StreamInv, NEW e \in Ends, read_header(e)
    PROVE  StreamInv'
  <1> USE DEF StreamInv, StreamTypeOK, EndsTypeOK, CarrierTypeOK, ItemsTypeOK
  <1> DEFINE p == Peer(e)
             h == Head(wire[p])
  <1>1. /\ UNCHANGED <<state, outgoing, plaintext, read_closed, write_closed, ended, disturbed,
                       written, received>>
        /\ reading[e] = "header" /\ wire[p] # << >> /\ wire' = [wire EXCEPT ![p] = Tail(@)]
        /\ IF h = Header
           THEN reading' = [reading EXCEPT ![e] = "text"] /\ UNCHANGED failed
           ELSE failed' = failed \union {e} /\ UNCHANGED reading
    BY DEF read_header
  <1>2. p \in Ends /\ Peer(p) = e /\ p # e /\ \A x \in Ends : x = e \/ x = p
    BY PeerFacts
  <1>3. /\ wire' \in [Ends -> Seq(Pieces)]
        /\ \A x \in Ends : x # p => wire'[x] = wire[x]
        /\ \A x \in Ends : \A i \in DOMAIN wire'[x] : Genuine(x, wire'[x][i])
        /\ 1 \in DOMAIN wire[p] /\ h = wire[p][1]
        /\ Len(wire[p]) \in Nat /\ Len(wire'[p]) = Len(wire[p]) - 1
        /\ \A i \in DOMAIN wire'[p] :
               i \in Nat /\ i + 1 \in DOMAIN wire[p] /\ wire'[p][i] = wire[p][i + 1]
    BY <1>1, <1>2, TakePiece
  <1> DEFINE n == state[e].receiving_nonce
  <1>4. ASSUME ~disturbed
        PROVE  /\ Placed(wire[p], n, 0) /\ Placed(outgoing[p], n, 0 + Len(wire[p]))
               /\ 0 + Len(wire[p]) + Len(outgoing[p]) = 2 * (state[p].sending_nonce - n)
    BY <1>1, <1>2, <1>4 DEF Undisturbed, Aligned, Offset
  <1> HIDE DEF h, p
  <1>5. CASE h # Header
    <2>1. disturbed
      <3> SUFFICES ASSUME ~disturbed
                   PROVE  FALSE
        OBVIOUS
      <3>1. PlacedAt(h, n, 0 + 1)
        BY <1>3, <1>4 DEF Placed
      <3>2. n \in Nat /\ wire[p] \in Seq(Pieces)
        BY <1>2 DEF TransportState
      <3>3. h \in Pieces
        BY <1>3, <3>2
      <3>4. h \in TextPieces /\ 2 * (h.nonce - n + 1) = 0 + 1
        BY <1>5, <3>1, <3>3 DEF PlacedAt, Pieces, Damaged
      <3>5. h.nonce \in Nat
        BY <3>4 DEF TextPieces
      <3> QED
        BY <3>2, <3>4, <3>5
    <2> QED
      BY <1>1, <1>3, <1>5, <2>1, FailStep
  <1>6. CASE h = Header
    <2>1. reading' = [reading EXCEPT ![e] = "text"] /\ UNCHANGED failed
      BY <1>1, <1>6
    <2>2. StreamTypeOK'
      BY <1>1, <1>3, <2>1
    <2>3. KeysFollow' /\ Sealed' /\ InOrder'
      BY <1>1, <1>3 DEF KeysFollow, Sealed, Genuine, InOrder
    <2>4. Undisturbed'
      <3> SUFFICES ASSUME ~disturbed
                   PROVE  /\ failed' = {} /\ \A x \in Ends : Aligned(x)'
                          /\ \A x \in ended' : x \in write_closed' /\ outgoing'[x] = << >>
        BY <1>1 DEF Undisturbed
      <3>1. Aligned(e)'
        <4>1. Offset(p)' = Offset(p) /\ wire'[e] = wire[e] /\ Peer(e) = p
          BY <1>2, <1>3, <2>1 DEF Offset, p
        <4> QED
          BY <1>1, <4>1 DEF Undisturbed, Aligned
      <3>2. Aligned(p)'
        <4>1. Offset(e)' = 1 /\ state' = state /\ outgoing' = outgoing
          BY <1>1, <2>1 DEF Offset
        <4>2. Placed(wire'[p], n, 1)
          <5> SUFFICES ASSUME NEW i \in DOMAIN wire'[p]
                       PROVE  PlacedAt(wire'[p][i], n, 1 + i)
            BY DEF Placed
          <5>1. 0 + (i + 1) = 1 + i
            BY <1>3
          <5> QED
            BY <1>3, <1>4, <5>1 DEF Placed
        <4>3. 1 + Len(wire'[p]) = 0 + Len(wire[p])
          BY <1>3
        <4> QED
          BY <1>2, <1>4, <4>1, <4>2, <4>3 DEF Aligned, n
      <3> QED
        BY <1>1, <1>2, <2>1, <3>1, <3>2 DEF Undisturbed
    <2> QED
      BY <2>2, <2>3, <2>4
  <1> QED
    BY <1>5, <1>6

(* Places and nonces move together: two pieces to a record. *)
LEMMA PlaceArithmetic ==
    /\ \A a, b \in Nat : 2 * (a - b + 1) = 2 => a = b
    /\ \A a, b, j \in Nat : 2 * (a - b + 1) = j + 2 => 2 * (a - (b + 1) + 1) = j
  OBVIOUS

(* The record after which the reader is one nonce on. *)
LEMMA OpenStep ==
    ASSUME StreamInv, NEW e \in Ends, open_record(e)
    PROVE  StreamInv'
  <1> USE DEF StreamInv, StreamTypeOK, EndsTypeOK, CarrierTypeOK, ItemsTypeOK
  <1> DEFINE p == Peer(e)
             h == Head(wire[p])
             s == state[e]
             n == s.receiving_nonce
  <1>1. /\ UNCHANGED <<outgoing, write_closed, ended, disturbed, written, received>>
        /\ reading[e] = "text" /\ wire[p] # << >> /\ wire' = [wire EXCEPT ![p] = Tail(@)]
        /\ e \notin failed /\ e \notin read_closed /\ plaintext[e] = << >>
    BY DEF open_record, WantsRecord
  <1>2. p \in Ends /\ Peer(p) = e /\ p # e /\ \A x \in Ends : x = e \/ x = p
    BY PeerFacts
  <1>3. /\ wire' \in [Ends -> Seq(Pieces)]
        /\ \A x \in Ends : x # p => wire'[x] = wire[x]
        /\ \A x \in Ends : \A i \in DOMAIN wire'[x] : Genuine(x, wire'[x][i])
        /\ h \in Pieces /\ Genuine(p, h)
        /\ 1 \in DOMAIN wire[p] /\ h = wire[p][1]
        /\ Len(wire[p]) \in Nat /\ Len(wire'[p]) = Len(wire[p]) - 1
        /\ \A i \in DOMAIN wire'[p] :
               i \in Nat /\ i + 1 \in DOMAIN wire[p] /\ wire'[p][i] = wire[p][i + 1]
    BY <1>1, <1>2, TakePiece
  <1>4. ASSUME ~disturbed
        PROVE  /\ Placed(wire[p], n, 1) /\ Placed(outgoing[p], n, 1 + Len(wire[p]))
               /\ 1 + Len(wire[p]) + Len(outgoing[p]) = 2 * (state[p].sending_nonce - n)
    BY <1>1, <1>2, <1>4 DEF Undisturbed, Aligned, Offset
  <1>5. s \in TransportState /\ n \in Nat
    BY DEF TransportState
  <1>6. s.receiving_key = KeyOf(n) /\ n = Len(received[e]) /\ Len(received[e]) \in Nat
    BY <1>1, <1>5 DEF KeysFollow, InOrder
  <1>7. CASE ~Opened(e, h)
    <2>1. /\ failed' = failed \union {e}
          /\ UNCHANGED <<state, reading, plaintext, read_closed>>
      BY <1>7 DEF open_record
    <2>2. disturbed
      <3> SUFFICES ASSUME ~disturbed
                   PROVE  FALSE
        OBVIOUS
      <3>1. PlacedAt(h, n, 1 + 1)
        BY <1>3, <1>4 DEF Placed
      <3>2. h.piece = "text" /\ 2 * (h.nonce - n + 1) = 2
        BY <3>1 DEF PlacedAt
      <3>3. h \in TextPieces
        BY <1>3, <3>2 DEF Pieces, Header, Damaged
      <3>4. h.nonce = n
        <4>1. h.nonce \in Nat
          BY <3>3 DEF TextPieces
        <4> HIDE DEF h, n
        <4> QED
          BY <1>5, <3>2, <4>1, PlaceArithmetic
      <3>5. h.key = KeyOf(n)
        BY <1>3, <3>2, <3>4 DEF Genuine, GenuineOf
      <3> QED
        BY <1>6, <1>7, <3>2, <3>4, <3>5 DEF Opened
    <2> QED
      BY <1>1, <1>3, <2>1, <2>2, FailStep
  <1>8. CASE Opened(e, h)
    <2> DEFINE k == IF rekeys(n + 1) THEN s.receiving_key + 1 ELSE s.receiving_key
               t == [s EXCEPT !.receiving_nonce = n + 1, !.receiving_key = k]
    <2>1. /\ state' = [state EXCEPT ![e] = t]
          /\ reading' = [reading EXCEPT ![e] = "header"]
          /\ \/ /\ h.kind = "DATA"
                /\ plaintext' = [plaintext EXCEPT ![e] = <<h.item>>]
                /\ UNCHANGED read_closed
             \/ /\ h.kind = "FIN"
                /\ read_closed' = read_closed \union {e}
                /\ UNCHANGED plaintext
          /\ UNCHANGED failed
      BY <1>8 DEF open_record, AfterReceiving
    <2>2. h \in TextPieces /\ h.piece = "text" /\ h.nonce = n
      BY <1>3, <1>8 DEF Opened, Pieces, Header, Damaged
    <2>3. /\ h.kind \in {"DATA", "FIN"} /\ h.item \in Nat
          /\ h.kind = "DATA" => h.item = n + 1 /\ n < written[p]
          /\ h.kind = "FIN" => p \in write_closed /\ n = written[p]
      BY <1>3, <2>2 DEF Genuine, GenuineOf, TextPieces
    <2>4. /\ t \in TransportState /\ t.sending_nonce = s.sending_nonce
          /\ t.sending_key = s.sending_key /\ t.receiving_nonce = n + 1
          /\ t.receiving_key = k
      <3>1. n + 1 \in Nat /\ k \in Nat
        BY <1>5 DEF TransportState
      <3> HIDE DEF k, s, n
      <3> QED
        BY <1>5, <3>1 DEF TransportState
    <2>5. k = KeyOf(n + 1)
      BY <1>5, <1>6, KeyStep
    <2>6. state'[e] = t /\ \A x \in Ends : x # e => state'[x] = state[x]
      BY <2>1
    <2> HIDE DEF t, k, n, h, p
    <2>7. StreamTypeOK'
      <3>1. state' \in [Ends -> TransportState]
        BY <2>1, <2>4
      <3>2. <<h.item>> \in Seq(Nat)
        BY <2>3
      <3>3. plaintext' \in [Ends -> Seq(Nat)] /\ read_closed' \subseteq Ends
        BY <2>1, <3>2
      <3> QED
        BY <1>1, <1>3, <2>1, <3>1, <3>3
    <2>8. KeysFollow'
      <3>1. UNCHANGED <<write_closed, written>>
        BY <1>1
      <3>2. /\ t.sending_key = KeyOf(t.sending_nonce) /\ t.receiving_key = KeyOf(t.receiving_nonce)
            /\ t.sending_nonce = IF e \in write_closed THEN written[e] + 1 ELSE written[e]
        BY <2>4, <2>5 DEF KeysFollow
      <3> QED
        BY <2>6, <3>1, <3>2 DEF KeysFollow
    <2>9. Sealed'
      BY <1>1, <1>3 DEF Sealed, Genuine
    <2>10. InOrder'
      <3>1. ASSUME NEW x \in Ends, x # e
            PROVE  /\ plaintext'[x] = plaintext[x] /\ state'[x] = state[x]
                   /\ x \in read_closed' <=> x \in read_closed
        BY <2>1, <2>6, <3>1
      <3>2. UNCHANGED <<received, written, write_closed>>
        BY <1>1
      <3>3. CASE h.kind = "DATA"
        <4>1. /\ plaintext'[e] = <<Len(received[e]) + 1>> /\ e \notin read_closed'
              /\ Len(received[e]) + 1 <= written[p]
          BY <1>1, <1>2, <1>6, <2>1, <2>3, <3>3
        <4>2. Len(plaintext'[e]) = 1
          BY <4>1
        <4>3. state'[e].receiving_nonce = Len(received[e]) + 1
          BY <1>6, <2>4, <2>6
        <4>4. p = Peer(e)
          BY DEF p
        <4> QED
          BY <3>1, <3>2, <4>1, <4>2, <4>3, <4>4 DEF InOrder
      <3>4. CASE h.kind = "FIN"
        <4>1. /\ plaintext'[e] = << >> /\ p \in write_closed /\ Len(received[e]) = written[p]
              /\ e \in read_closed'
          BY <1>1, <1>6, <2>1, <2>3, <3>4
        <4>2. Len(plaintext'[e]) = 0 /\ Len(received[e]) + 0 <= written[p]
          BY <1>2, <4>1
        <4>3. state'[e].receiving_nonce = written[p] + 1
          BY <1>6, <2>4, <2>6, <4>1
        <4>4. p = Peer(e)
          BY DEF p
        <4> QED
          BY <3>1, <3>2, <4>1, <4>2, <4>3, <4>4 DEF InOrder
      <3> QED
        BY <2>3, <3>3, <3>4
    <2>11. Undisturbed'
      <3> SUFFICES ASSUME ~disturbed
                   PROVE  /\ failed' = {} /\ \A x \in Ends : Aligned(x)'
                          /\ \A x \in ended' : x \in write_closed' /\ outgoing'[x] = << >>
        BY <1>1 DEF Undisturbed
      <3>1. Aligned(e)'
        <4>1. Offset(p)' = Offset(p) /\ wire'[e] = wire[e] /\ Peer(e) = p
          BY <1>2, <1>3, <2>1 DEF Offset, p
        <4>2. state'[p] = state[p] /\ state'[e].sending_nonce = state[e].sending_nonce
          BY <1>2, <2>4, <2>6
        <4> QED
          BY <1>1, <4>1, <4>2 DEF Undisturbed, Aligned
      <3>2. Aligned(p)'
        <4>1. Offset(e)' = 0 /\ outgoing' = outgoing /\ state'[e].receiving_nonce = n + 1
              /\ state'[p] = state[p]
          BY <1>1, <1>2, <2>1, <2>4, <2>6 DEF Offset
        <4>2. ASSUME NEW x \in Pieces, NEW i \in Nat, NEW j \in Nat, PlacedAt(x, n, i), i = j + 2
              PROVE  PlacedAt(x, n + 1, j)
          <5>1. CASE x = Header /\ i % 2 = 1
            BY <4>2, <5>1 DEF PlacedAt
          <5>2. CASE x.piece = "text" /\ 2 * (x.nonce - n + 1) = i
            <6>1. x.nonce \in Nat
              BY <5>2 DEF Pieces, TextPieces, Header, Damaged
            <6>2. 2 * (x.nonce - (n + 1) + 1) = j
              <7>1. 2 * (x.nonce - n + 1) = j + 2 /\ n \in Nat /\ j \in Nat
                BY <1>5, <4>2, <5>2
              <7> QED
                BY <6>1, <7>1, PlaceArithmetic, Zenon
            <6> QED
              BY <5>2, <6>2 DEF PlacedAt
          <5> QED
            BY <4>2, <5>1, <5>2 DEF PlacedAt
        <4>3. Placed(wire'[p], n + 1, 0)
          <5> SUFFICES ASSUME NEW i \in DOMAIN wire'[p]
                       PROVE  PlacedAt(wire'[p][i], n + 1, 0 + i)
            BY DEF Placed
          <5>1. i \in Nat /\ i + 1 \in DOMAIN wire[p] /\ wire'[p][i] = wire[p][i + 1]
            BY <1>3
          <5>2. PlacedAt(wire[p][i + 1], n, 1 + (i + 1))
            BY <1>4, <5>1 DEF Placed
          <5>3. wire[p][i + 1] \in Pieces
            BY <1>2, <5>1
          <5>4. 1 + (i + 1) \in Nat /\ 0 + i \in Nat /\ 1 + (i + 1) = 0 + i + 2
            BY <5>1
          <5> QED
            BY <4>2, <5>1, <5>2, <5>3, <5>4
        <4>4. Placed(outgoing[p], n + 1, 0 + Len(wire'[p]))
          <5> SUFFICES ASSUME NEW i \in DOMAIN outgoing[p]
                       PROVE  PlacedAt(outgoing[p][i], n + 1, 0 + Len(wire'[p]) + i)
            BY DEF Placed
          <5>1. i \in Nat /\ outgoing[p][i] \in Pieces
            BY <1>2
          <5>2. PlacedAt(outgoing[p][i], n, 1 + Len(wire[p]) + i)
            BY <1>4 DEF Placed
          <5>3. Len(wire'[p]) \in Nat
            BY <1>2, <1>3
          <5>4. 1 + Len(wire[p]) + i \in Nat /\ 0 + Len(wire'[p]) + i \in Nat
                /\ 1 + Len(wire[p]) + i = 0 + Len(wire'[p]) + i + 2
            BY <1>3, <5>1, <5>3
          <5> QED
            BY <4>2, <5>1, <5>2, <5>4
        <4>5. 0 + Len(wire'[p]) + Len(outgoing[p]) = 2 * (state[p].sending_nonce - (n + 1))
          <5>1. state[p].sending_nonce \in Nat /\ Len(outgoing[p]) \in Nat
            BY <1>2 DEF TransportState
          <5> QED
            <6>1. /\ 1 + Len(wire[p]) + Len(outgoing[p]) = 2 * (state[p].sending_nonce - n)
                  /\ n \in Nat /\ Len(wire[p]) \in Nat /\ Len(wire'[p]) = Len(wire[p]) - 1
              BY <1>3, <1>4, <1>5
            <6> DEFINE l == Len(wire[p])
                       m == Len(outgoing[p])
                       a == state[p].sending_nonce
            <6>2. 0 + (l - 1) + m = 2 * (a - (n + 1))
              <7>1. l \in Nat /\ m \in Nat /\ a \in Nat /\ n \in Nat /\ 1 + l + m = 2 * (a - n)
                BY <5>1, <6>1
              <7> HIDE DEF l, m, a
              <7> QED
                BY ONLY <7>1
            <6> QED
              BY <6>1, <6>2, Zenon
        <4> QED
          BY <1>2, <4>1, <4>3, <4>4, <4>5 DEF Aligned
      <3> QED
        BY <1>1, <1>2, <2>1, <3>1, <3>2 DEF Undisturbed
    <2> QED
      BY <2>7, <2>8, <2>9, <2>10, <2>11
  <1> QED
    BY <1>7, <1>8

LEMMA PollReadStep ==
    ASSUME StreamInv, NEW e \in Ends, poll_read(e)
    PROVE  StreamInv'
  <1> USE DEF StreamInv, StreamTypeOK, EndsTypeOK, CarrierTypeOK, ItemsTypeOK
  <1> DEFINE q == received[e]
             a == Len(q) + 1
  <1>1. /\ UNCHANGED <<state, outgoing, reading, read_closed, write_closed, failed, wire, ended,
                       disturbed, written>>
        /\ e \notin read_closed /\ plaintext[e] # << >>
        /\ received' = [received EXCEPT ![e] = @ \o plaintext[e]]
        /\ plaintext' = [plaintext EXCEPT ![e] = << >>]
    BY DEF poll_read, carrier
  <1>2. /\ plaintext[e] = <<a>> /\ \A i \in DOMAIN q : q[i] = i
        /\ Len(q) + Len(plaintext[e]) <= written[Peer(e)]
        /\ state[e].receiving_nonce = Len(q) + Len(plaintext[e])
    BY <1>1 DEF InOrder
  <1>3. q \in Seq(Nat) /\ Len(q) \in Nat /\ a \in Nat /\ Len(<<a>>) = 1
    OBVIOUS
  <1>4. /\ q \o <<a>> \in Seq(Nat) /\ Len(q \o <<a>>) = Len(q) + 1
        /\ \A i \in DOMAIN (q \o <<a>>) : (q \o <<a>>)[i] = i
    <2>1. q \o <<a>> = Append(q, a)
      BY <1>3
    <2>2. /\ Append(q, a) \in Seq(Nat) /\ Len(Append(q, a)) = Len(q) + 1
          /\ \A i \in DOMAIN Append(q, a) : \/ i \in DOMAIN q /\ Append(q, a)[i] = q[i]
                                            \/ i = Len(q) + 1 /\ Append(q, a)[i] = a
      BY <1>3, AppendFacts
    <2> QED
      BY <1>2, <2>1, <2>2
  <1>5. /\ received'[e] = q \o <<a>> /\ plaintext'[e] = << >>
        /\ \A x \in Ends : x # e => received'[x] = received[x] /\ plaintext'[x] = plaintext[x]
    BY <1>1, <1>2
  <1>6. StreamTypeOK'
    <2>1. received' \in [Ends -> Seq(Nat)] /\ plaintext' \in [Ends -> Seq(Nat)]
      BY <1>1, <1>2, <1>4
    <2> QED
      BY <1>1, <2>1
  <1>7. KeysFollow' /\ Sealed'
    BY <1>1 DEF KeysFollow, Sealed, Genuine
  <1>8. InOrder'
    <2> HIDE DEF q, a
    <2>1. Len(received'[e]) + Len(plaintext'[e]) = Len(q) + Len(plaintext[e])
      BY <1>2, <1>3, <1>4, <1>5
    <2>2. UNCHANGED <<state, written, read_closed, write_closed>>
      BY <1>1
    <2>3. /\ Len(received'[e]) + Len(plaintext'[e]) <= written[Peer(e)]
          /\ state[e].receiving_nonce = Len(received'[e]) + Len(plaintext'[e])
      BY <1>2, <2>1 DEF q
    <2>4. plaintext'[e] = << >> /\ \A i \in DOMAIN received'[e] : received'[e][i] = i
      BY <1>4, <1>5
    <2> DEFINE Good(x) ==
            /\ plaintext'[x] = << >> \/ plaintext'[x] = <<Len(received'[x]) + 1>>
            /\ \A i \in DOMAIN received'[x] : received'[x][i] = i
            /\ Len(received'[x]) + Len(plaintext'[x]) <= written[Peer(x)]
            /\ x \notin read_closed =>
                   state[x].receiving_nonce = Len(received'[x]) + Len(plaintext'[x])
            /\ x \in read_closed =>
                   /\ Peer(x) \in write_closed /\ plaintext'[x] = << >>
                   /\ Len(received'[x]) = written[Peer(x)]
                   /\ state[x].receiving_nonce = written[Peer(x)] + 1
    <2>5. Good(e)
      BY <1>1, <2>3, <2>4
    <2>6. \A x \in Ends : x # e => Good(x)
      BY <1>5 DEF InOrder
    <2> QED
      BY <2>2, <2>5, <2>6, Zenon DEF InOrder
  <1>9. \A x \in Ends : Aligned(x)' <=> Aligned(x)
    BY <1>1 DEF Aligned, Offset
  <1>10. Undisturbed'
    BY <1>1, <1>9 DEF Undisturbed
  <1> QED
    BY <1>6, <1>7, <1>8, <1>10

-----------------------------------------------------------------------------
(* The relay. *)

LEMMA RelayStep ==
    ASSUME StreamInv, UNCHANGED <<stream_ends, written, received>>, disturbed' = TRUE,
           ended' \subseteq Ends, wire' \in [Ends -> Seq(Pieces)],
           \A x \in Ends : \A i \in DOMAIN wire'[x] :
               wire'[x][i] = Damaged \/ \E j \in DOMAIN wire[x] : wire'[x][i] = wire[x][j]
    PROVE  StreamInv'
  <1> USE DEF StreamInv, StreamTypeOK, EndsTypeOK, CarrierTypeOK, ItemsTypeOK, stream_ends
  <1>1. StreamTypeOK'
    OBVIOUS
  <1>2. KeysFollow' /\ InOrder'
    BY DEF KeysFollow, InOrder
  <1>3. Sealed'
    <2>1. \A x \in Ends : Genuine(x, Damaged)
      BY DEF Genuine, GenuineOf, Damaged
    <2>2. \A x \in Ends : \A z : Genuine(x, z) <=> GenuineOf(written'[x], x \in write_closed', z)
      BY DEF Genuine
    <2>3. \A x \in Ends : \A i \in DOMAIN wire'[x] : Genuine(x, wire'[x][i])
      BY <2>1 DEF Sealed
    <2>4. \A x \in Ends : \A i \in DOMAIN outgoing'[x] : Genuine(x, outgoing'[x][i])
      BY DEF Sealed
    <2> QED
      BY <2>2, <2>3, <2>4 DEF Sealed, Genuine
  <1>4. Undisturbed'
    BY DEF Undisturbed
  <1> QED
    BY <1>1, <1>2, <1>3, <1>4

LEMMA CutStep ==
    ASSUME StreamInv, relay_cuts
    PROVE  StreamInv'
  <1> DEFINE q == wire["client"]
             r == wire["server"]
  <1>1. PICK c \in 0 .. Len(q), s \in 0 .. Len(r) :
            wire' = [client |-> SubSeq(q, 1, c), server |-> SubSeq(r, 1, s)]
    BY DEF relay_cuts
  <1>2. q \in Seq(Pieces) /\ r \in Seq(Pieces)
    BY PeerIs DEF StreamInv, StreamTypeOK, CarrierTypeOK
  <1>3. ASSUME NEW w \in Seq(Pieces), NEW n \in 0 .. Len(w)
        PROVE  /\ SubSeq(w, 1, n) \in Seq(Pieces)
               /\ \A i \in DOMAIN SubSeq(w, 1, n) : i \in DOMAIN w /\ SubSeq(w, 1, n)[i] = w[i]
    BY <1>3
  <1>4. wire'["client"] = SubSeq(q, 1, c) /\ wire'["server"] = SubSeq(r, 1, s)
    BY <1>1
  <1>5. wire' \in [Ends -> Seq(Pieces)]
    <2>1. SubSeq(q, 1, c) \in Seq(Pieces) /\ SubSeq(r, 1, s) \in Seq(Pieces)
      BY <1>2, <1>3
    <2>2. DOMAIN wire' = Ends /\ wire' = [x \in Ends |-> wire'[x]]
      BY <1>1, PeerIs
    <2>3. \A x \in Ends : wire'[x] \in Seq(Pieces)
      BY <1>4, <2>1, PeerIs
    <2> QED
      BY <2>2, <2>3
  <1>6. \A x \in Ends : \A i \in DOMAIN wire'[x] : \E j \in DOMAIN wire[x] : wire'[x][i] = wire[x][j]
    BY <1>2, <1>3, <1>4, PeerIs
  <1>7. UNCHANGED <<stream_ends, written, received>> /\ disturbed' = TRUE /\ ended' \subseteq Ends
    BY DEF relay_cuts
  <1> QED
    BY <1>5, <1>6, <1>7, RelayStep

LEMMA DamageStep ==
    ASSUME StreamInv, NEW e \in Ends, relay_damages(e)
    PROVE  StreamInv'
  <1>1. PICK i \in DOMAIN wire[e] : wire' = [wire EXCEPT ![e][i] = Damaged]
    BY DEF relay_damages
  <1> DEFINE q == [wire[e] EXCEPT ![i] = Damaged]
  <1>2. wire \in [Ends -> Seq(Pieces)] /\ ended \subseteq Ends
    BY DEF StreamInv, StreamTypeOK, CarrierTypeOK
  <1>3. wire' = [wire EXCEPT ![e] = q]
    BY <1>1, <1>2
  <1>4. q \in Seq(Pieces) /\ \A j \in DOMAIN q : q[j] = Damaged \/ (j \in DOMAIN wire[e] /\ q[j] = wire[e][j])
    <2>1. wire[e] \in Seq(Pieces) /\ Damaged \in Pieces
      BY <1>2 DEF Pieces
    <2>2. Len(wire[e]) \in Nat /\ wire[e] \in [1 .. Len(wire[e]) -> Pieces]
      BY <2>1
    <2>3. q \in [1 .. Len(wire[e]) -> Pieces]
      BY <2>1, <2>2
    <2>4. q \in Seq(Pieces)
      BY <2>2, <2>3
    <2> QED
      BY <2>4
  <1> HIDE DEF q
  <1>5. wire' \in [Ends -> Seq(Pieces)] /\ wire'[e] = q /\ \A x \in Ends : x # e => wire'[x] = wire[x]
    BY <1>2, <1>3, <1>4
  <1>6. UNCHANGED <<stream_ends, written, received>> /\ disturbed' = TRUE /\ ended' \subseteq Ends
    BY <1>2 DEF relay_damages
  <1> QED
    BY <1>4, <1>5, <1>6, RelayStep

-----------------------------------------------------------------------------
LEMMA StreamNextInv == StreamInv /\ [StreamNext]_stream_vars => StreamInv'
  <1> SUFFICES ASSUME StreamInv, [StreamNext]_stream_vars
               PROVE  StreamInv'
    OBVIOUS
  <1>1. ASSUME NEW e \in Ends, poll_write(e)
        PROVE  StreamInv'
    <2>1. Seals(e, "DATA", written[e] + 1)
      BY <1>1 DEF poll_write, Seals, carrier
    <2> QED
      BY <2>1, SealStep
  <1>2. CASE UNCHANGED stream_vars
    <2>1. UNCHANGED <<state, outgoing, reading, plaintext, read_closed, write_closed, failed, wire,
                      ended, disturbed, written, received>>
      BY <1>2 DEF stream_vars, stream_ends, carrier
    <2> QED
      BY <2>1 DEF StreamInv, StreamTypeOK, EndsTypeOK, CarrierTypeOK, ItemsTypeOK, KeysFollow,
         Sealed, Genuine, InOrder, Undisturbed, Aligned, Offset
  <1> QED
    BY <1>1, <1>2, DrainStep, ShutdownStep, EofStep, ReadHeaderStep, OpenStep, PollReadStep,
       CutStep, DamageStep DEF StreamNext

(* What a NoiseStream has read is a gapless prefix of what its peer wrote, *)
(* it is told of the end only after all of it, and on a carrier the relay  *)
(* leaves alone neither end fails: for every rekey interval, and however   *)
(* the pieces of the records are written, read, cut and damaged.           *)
THEOREM StreamIsFaithful == StreamSpec => []StreamFaithful
  <1>1. StreamInv => StreamFaithful
    <2> SUFFICES ASSUME StreamInv
                 PROVE  StreamFaithful
      OBVIOUS
    <2>1. ASSUME NEW e \in Ends
          PROVE  /\ Len(received[e]) <= written[Peer(e)]
                 /\ \A i \in DOMAIN received[e] : received[e][i] = i
                 /\ e \in read_closed =>
                        Peer(e) \in write_closed /\ Len(received[e]) = written[Peer(e)]
      <3>1. /\ Len(received[e]) \in Nat /\ Len(plaintext[e]) \in Nat /\ written[Peer(e)] \in Nat
            /\ Len(received[e]) + Len(plaintext[e]) <= written[Peer(e)]
        BY PeerFacts DEF StreamInv, InOrder, StreamTypeOK, EndsTypeOK, ItemsTypeOK
      <3>2. \A a, b, w \in Nat : a + b <= w => a <= w
        OBVIOUS
      <3>3. Len(received[e]) <= written[Peer(e)]
        BY <3>1, <3>2, Zenon
      <3> QED
        BY <3>3 DEF StreamInv, InOrder
    <2>2. ~disturbed => failed = {}
      BY DEF StreamInv, Undisturbed
    <2> QED
      BY <2>1, <2>2 DEF StreamFaithful
  <1> QED
    BY <1>1, StreamInitInv, StreamNextInv, PTL DEF StreamSpec
===============================================================================
