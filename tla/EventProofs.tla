----------------------------- MODULE EventProofs ------------------------------
(***************************************************************************)
(* Proofs about the event journal: EventLog, and the two that follow it,   *)
(* EventStream and EventRecording.                                         *)
(*                                                                         *)
(* LogInv says that the ring is exact and in order.  RecordingInv adds     *)
(* that no item of a file reaches past the receiver, so that a gap covers  *)
(* numbers that no earlier gap covers.  StreamInv adds, of a live stream,  *)
(* that its items meet (what was made, the item in hand, the gap that was  *)
(* noted) and that what is still to come (the record that was set aside,   *)
(* the history, the channel) comes in order and from where the items end.  *)
(***************************************************************************)
EXTENDS EventStream, EventRecording, DataInduction, SequenceTheorems, TLAPS

-----------------------------------------------------------------------------
(* The bytes of a sequence of records. *)

Record == [sequence : Nat, size : Nat]
Size(s) == [i \in DOMAIN s |-> s[i].size]

LEMMA SizesAre ==
    ASSUME NEW s \in Seq(Record)
    PROVE  /\ DOMAIN s = 1 .. Len(s) /\ Len(s) \in Nat /\ IsFiniteSet(DOMAIN s)
           /\ \A i \in DOMAIN s : Size(s)[i] = s[i].size /\ Size(s)[i] \in Nat /\ s[i] \in Record
           /\ Bytes(s) = SumFunctionOnSet(Size(s), DOMAIN s) /\ Bytes(s) \in Nat
  <1>1. DOMAIN s = 1 .. Len(s) /\ Len(s) \in Nat
    OBVIOUS
  <1>2. IsFiniteSet(DOMAIN s)
    <2>1. 1 \in Int /\ Len(s) \in Int
      BY <1>1
    <2>2. IsFiniteSet(1 .. Len(s))
      BY <2>1, FS_Interval
    <2> QED
      BY <1>1, <2>2
  <1>3. \A i \in DOMAIN s : Size(s)[i] = s[i].size /\ Size(s)[i] \in Nat /\ s[i] \in Record
    <2>1. \A i \in DOMAIN s : s[i] \in Record
      OBVIOUS
    <2>2. \A r \in Record : r.size \in Nat
      BY DEF Record
    <2> QED
      BY <2>1, <2>2 DEF Size
  <1>4. Bytes(s) = SumFunctionOnSet(Size(s), DOMAIN s)
    BY DEF Bytes, Size
  <1>5. Bytes(s) \in Nat
    BY <1>2, <1>3, <1>4, SumType
  <1> QED
    BY <1>1, <1>2, <1>3, <1>4, <1>5

LEMMA NoBytes == Bytes(<<>>) = 0
  <1>1. <<>> \in Seq(Record) /\ DOMAIN <<>> = {}
    OBVIOUS
  <1> QED
    BY <1>1, SizesAre, SumEmpty

LEMMA BytesAppend ==
    ASSUME NEW s \in Seq(Record), NEW r \in Record
    PROVE  Bytes(Append(s, r)) = Bytes(s) + r.size
  <1>1. PICK t : t = Append(s, r)
    OBVIOUS
  <1>2. PICK n : n = Len(s) + 1
    OBVIOUS
  <1>3. /\ t \in Seq(Record) /\ DOMAIN t = 1 .. n /\ t[n] = r /\ \A i \in DOMAIN s : t[i] = s[i]
        /\ DOMAIN s = 1 .. Len(s) /\ Len(s) \in Nat
    BY <1>1, <1>2
  <1>4. DOMAIN t \ {n} = DOMAIN s /\ n \in DOMAIN t
    BY <1>2, <1>3
  <1>5. Bytes(t) = SumFunctionOnSet(Size(t), DOMAIN t)
    BY <1>3, SizesAre
  <1>6. IsFiniteSet(DOMAIN t) /\ \A i \in DOMAIN t : Size(t)[i] \in Nat
    BY <1>3, SizesAre
  <1>7. SumFunctionOnSet(Size(t), DOMAIN t) = Size(t)[n] + SumFunctionOnSet(Size(t), DOMAIN t \ {n})
    BY <1>4, <1>6, SumAny
  <1>8. Size(t)[n] = r.size /\ r.size \in Nat
    BY <1>3, <1>4, SizesAre DEF Record
  <1>9. \A i \in DOMAIN s : Size(s)[i] \in Nat /\ Size(s)[i] = Size(t)[i]
    BY <1>3, <1>4, SizesAre
  <1>10. IsFiniteSet(DOMAIN s) /\ Bytes(s) = SumFunctionOnSet(Size(s), DOMAIN s) /\ Bytes(s) \in Nat
    BY SizesAre
  <1>11. SumFunctionOnSet(Size(s), DOMAIN s) = SumFunctionOnSet(Size(t), DOMAIN s)
    BY <1>9, <1>10, SumSame
  <1> QED
    BY <1>1, <1>4, <1>5, <1>7, <1>8, <1>10, <1>11

(* What stays when the first n leave. *)
LEMMA BytesSplit ==
    ASSUME NEW s \in Seq(Record), NEW n \in 0 .. Len(s)
    PROVE  /\ SubSeq(s, 1, n) \in Seq(Record) /\ SubSeq(s, n + 1, Len(s)) \in Seq(Record)
           /\ Len(SubSeq(s, n + 1, Len(s))) = Len(s) - n
           /\ \A i \in 1 .. Len(s) - n : SubSeq(s, n + 1, Len(s))[i] = s[i + n]
           /\ Bytes(s) = Bytes(SubSeq(s, 1, n)) + Bytes(SubSeq(s, n + 1, Len(s)))
  <1>1. PICK a, b : a = SubSeq(s, 1, n) /\ b = SubSeq(s, n + 1, Len(s))
    OBVIOUS
  <1>2. /\ DOMAIN s = 1 .. Len(s) /\ Len(s) \in Nat /\ IsFiniteSet(DOMAIN s)
        /\ \A i \in DOMAIN s : Size(s)[i] = s[i].size /\ Size(s)[i] \in Nat /\ s[i] \in Record
    BY SizesAre
  <1>3. a \in Seq(Record) /\ DOMAIN a = 1 .. n /\ \A i \in 1 .. n : a[i] = s[i]
    <2>1. \A i \in 1 .. n : s[i] \in Record
      BY <1>2
    <2>2. /\ SubSeq(s, 1, n) \in Seq(Record) /\ Len(SubSeq(s, 1, n)) = (IF 1 <= n THEN n - 1 + 1 ELSE 0)
          /\ \A i \in 1 .. n - 1 + 1 : SubSeq(s, 1, n)[i] = s[1 + i - 1]
      BY <2>1, SubSeqProperties
    <2> QED
      BY <1>1, <2>2
  <1>4. /\ b \in Seq(Record) /\ Len(b) = Len(s) - n /\ DOMAIN b = 1 .. Len(s) - n
        /\ \A i \in 1 .. Len(s) - n : b[i] = s[i + n]
    <2>1. PICK m, l : m = n + 1 /\ l = Len(s)
      OBVIOUS
    <2>2. m \in Int /\ l \in Int /\ \A i \in m .. l : s[i] \in Record
      BY <1>2, <2>1
    <2>3. PICK c : c = SubSeq(s, m, l)
      OBVIOUS
    <2>4. /\ c \in Seq(Record) /\ Len(c) = (IF m <= l THEN l - m + 1 ELSE 0)
          /\ \A i \in 1 .. l - m + 1 : c[i] = s[m + i - 1]
      BY <2>2, <2>3, SubSeqProperties
    <2>5. n \in Nat /\ l \in Nat /\ n <= l /\ b = c
      BY <1>1, <1>2, <2>1, <2>3
    <2>6. l - m + 1 = l - n /\ (m <= l \/ l - n = 0)
      BY <2>1, <2>5
    <2>7. Len(c) = l - n
      BY <2>1, <2>4, <2>5, <2>6
    <2>8. \A i \in 1 .. l - n : c[i] = s[i + n]
      BY <2>1, <2>4, <2>5, <2>6
    <2> QED
      BY <2>1, <2>4, <2>5, <2>7, <2>8
  <1> DEFINE S == 1 .. n
             T == n + 1 .. Len(s)
  <1>5. /\ S \union T = DOMAIN s /\ S \intersect T = {} /\ IsFiniteSet(S) /\ IsFiniteSet(T)
        /\ DOMAIN a = S
    <2>1. S \union T = DOMAIN s /\ S \intersect T = {} /\ n + 1 \in Int
      BY <1>2
    <2>2. IsFiniteSet(S) /\ IsFiniteSet(T)
      <3>1. S \in SUBSET (DOMAIN s) /\ T \in SUBSET (DOMAIN s)
        BY <2>1
      <3> HIDE DEF S, T
      <3> QED
        BY <1>2, <3>1, FS_Subset
    <2> QED
      BY <1>3, <2>1, <2>2
  <1>6. Translated(T, DOMAIN b, n)
    <2>1. ASSUME NEW y PROVE y \in T <=> \E x \in DOMAIN b : y = x + n
      <3>1. ASSUME y \in T PROVE \E x \in DOMAIN b : y = x + n
        <4>1. y - n \in DOMAIN b /\ y = (y - n) + n
          BY <1>2, <1>4, <3>1
        <4> QED
          BY <4>1
      <3>2. ASSUME NEW x \in DOMAIN b, y = x + n PROVE y \in T
        BY <1>2, <1>4, <3>2
      <3> QED
        BY <3>1, <3>2
    <2> QED
      BY <2>1 DEF Translated
  <1>7. TermsTranslated(Size(s), Size(b), DOMAIN b, n)
    <2>1. ASSUME NEW x \in DOMAIN b PROVE Size(b)[x] \in Nat /\ Size(s)[x + n] = Size(b)[x]
      <3>1. x + n \in DOMAIN s /\ b[x] = s[x + n]
        BY <1>2, <1>4
      <3> QED
        BY <1>2, <1>4, <3>1, SizesAre
    <2> QED
      BY <2>1 DEF TermsTranslated
  <1> HIDE DEF S, T
  <1>8. SumFunctionOnSet(Size(s), DOMAIN s)
           = SumFunctionOnSet(Size(s), S) + SumFunctionOnSet(Size(s), T)
    <2>1. PICK f : f = Size(s)
      OBVIOUS
    <2>2. \A x \in S \union T : f[x] \in Nat
      BY <1>2, <1>5, <2>1
    <2>3. IsFiniteSet(S) /\ IsFiniteSet(T) /\ S \intersect T = {}
      BY <1>5
    <2>4. SumFunctionOnSet(f, S \union T) = SumFunctionOnSet(f, S) + SumFunctionOnSet(f, T)
      BY <2>2, <2>3, SumUnion
    <2> QED
      BY <1>5, <2>1, <2>4
  <1>9. SumFunctionOnSet(Size(s), T) = SumFunctionOnSet(Size(b), DOMAIN b)
    <2>1. DOMAIN b \in SUBSET Int /\ IsFiniteSet(DOMAIN b) /\ n \in Int
      BY <1>4, SizesAre
    <2> QED
      BY <1>6, <1>7, <2>1, SumMoved
  <1>10. SumFunctionOnSet(Size(s), S) = SumFunctionOnSet(Size(a), S)
    <2>1. \A i \in S : i \in DOMAIN s /\ i \in DOMAIN a /\ a[i] = s[i]
      BY <1>3, <1>5
    <2>2. \A i \in DOMAIN a : Size(a)[i] = a[i].size
      BY <1>3, SizesAre
    <2>3. \A i \in S : Size(s)[i] \in Nat /\ Size(s)[i] = Size(a)[i]
      BY <1>2, <2>1, <2>2
    <2> QED
      BY <1>5, <2>3, SumSame
  <1>11. Bytes(s) = Bytes(a) + Bytes(b)
    BY <1>3, <1>4, <1>5, <1>8, <1>9, <1>10, SizesAre
  <1> QED
    BY <1>1, <1>3, <1>4, <1>11

-----------------------------------------------------------------------------
(* The ring. *)

RingType == [kept : Seq(Record), used : Nat, records : Nat, dropped : Nat, capacity : Nat]
RingExact(ring) ==
    /\ ring.used = Bytes(ring.kept) /\ ring.used <= ring.capacity
    /\ ring.records = Len(ring.kept)
Rings(c) == {ring \in RingType : RingExact(ring) /\ ring.capacity = c}

(* In order and below n. *)
Ordered(s, n) ==
    /\ \A i, j \in DOMAIN s : i < j => s[i].sequence < s[j].sequence
    /\ \A i \in DOMAIN s : s[i].sequence < n

LEMMA MinIs ==
    ASSUME NEW S \in SUBSET Nat, IsFiniteSet(S), S # {}
    PROVE  Min(S) \in S /\ \A m \in S : Min(S) <= m
  <1>1. \E n \in S : \A m \in S : n <= m
    BY FiniteMin
  <1> QED
    BY <1>1 DEF Min

(* Enough records are evicted. *)
LEMMA EvictedFits ==
    ASSUME NEW c, NEW ring \in Rings(c), NEW size \in Nat, size <= ring.capacity
    PROVE  /\ Evicted(ring, size) \in 0 .. Len(ring.kept)
           /\ ring.capacity - (ring.used - Bytes(SubSeq(ring.kept, 1, Evicted(ring, size)))) >= size
  <1> DEFINE S == {n \in 0 .. Len(ring.kept) :
                     ring.capacity - (ring.used - Bytes(SubSeq(ring.kept, 1, n))) >= size}
  <1>1. ring.kept \in Seq(Record) /\ ring.used = Bytes(ring.kept) /\ ring.capacity \in Nat
    BY DEF Rings, RingType, RingExact
  <1>2. Len(ring.kept) \in Nat /\ Bytes(ring.kept) \in Nat
    BY <1>1, SizesAre
  <1>3. S \in SUBSET Nat /\ S \in SUBSET (0 .. Len(ring.kept))
    BY <1>2
  <1>4. Len(ring.kept) \in S
    <2>1. SubSeq(ring.kept, 1, Len(ring.kept)) = ring.kept
      BY <1>1, SubSeqFull
    <2>2. ring.capacity - (ring.used - Bytes(ring.kept)) >= size
      BY <1>1, <1>2
    <2>3. Len(ring.kept) \in 0 .. Len(ring.kept)
      BY <1>2
    <2> QED
      BY <2>1, <2>2, <2>3
  <1>5. IsFiniteSet(S)
    <2>1. IsFiniteSet(0 .. Len(ring.kept))
      BY <1>2, FS_Interval
    <2> HIDE DEF S
    <2> QED
      BY <1>3, <2>1, FS_Subset
  <1>6. Min(S) \in S
    <2> HIDE DEF S
    <2> QED
      BY <1>3, <1>4, <1>5, MinIs
  <1>7. Evicted(ring, size) = Min(S)
    BY DEF Evicted
  <1> QED
    BY <1>6, <1>7

(* What append leaves: the record is dropped, or follows what was not      *)
(* evicted.                                                                *)
Appended(ring, r, new) ==
    \/ new.kept = ring.kept
    \/ \E n \in 0 .. Len(ring.kept) : new.kept = Append(SubSeq(ring.kept, n + 1, Len(ring.kept)), r)

LEMMA AppendKeeps ==
    ASSUME NEW c \in Nat, NEW ring \in Rings(c), NEW r \in Record
    PROVE  /\ append(ring, r) \in Rings(c) /\ Appended(ring, r, append(ring, r))
           /\ append(ring, r).records + append(ring, r).dropped = ring.records + ring.dropped + 1
  <1>1. /\ ring \in RingType /\ ring.kept \in Seq(Record) /\ ring.used = Bytes(ring.kept)
        /\ ring.used \in Nat /\ ring.records \in Nat /\ ring.dropped \in Nat
        /\ ring.used <= ring.capacity /\ ring.records = Len(ring.kept) /\ ring.capacity = c
    BY DEF Rings, RingType, RingExact
  <1>2. r.size \in Nat
    BY DEF Record
  <1>3. CASE r.size > ring.capacity
    <2>1. append(ring, r) = [ring EXCEPT !.dropped = @ + 1]
      BY <1>3 DEF append
    <2>2. PICK new : new = append(ring, r)
      OBVIOUS
    <2>3. /\ new \in RingType /\ new.kept = ring.kept /\ new.used = ring.used
          /\ new.records = ring.records /\ new.capacity = ring.capacity /\ new.dropped = ring.dropped + 1
      BY <1>1, <2>1, <2>2 DEF RingType
    <2>4. new \in Rings(c)
      BY <1>1, <2>3 DEF Rings, RingExact
    <2> QED
      BY <1>1, <2>2, <2>3, <2>4 DEF Appended
  <1>4. CASE ~(r.size > ring.capacity)
    <2>1. PICK n : n = Evicted(ring, r.size)
      OBVIOUS
    <2>2. PICK a, b : a = SubSeq(ring.kept, 1, n) /\ b = SubSeq(ring.kept, n + 1, Len(ring.kept))
      OBVIOUS
    <2>3. n \in 0 .. Len(ring.kept) /\ c - (ring.used - Bytes(a)) >= r.size
      BY <1>1, <1>2, <1>4, <2>1, <2>2, EvictedFits
    <2>4. /\ a \in Seq(Record) /\ b \in Seq(Record) /\ Len(b) = Len(ring.kept) - n
          /\ Bytes(ring.kept) = Bytes(a) + Bytes(b)
      BY <1>1, <2>2, <2>3, BytesSplit
    <2>5. Bytes(a) \in Nat /\ Bytes(b) \in Nat /\ n \in Nat /\ Len(ring.kept) \in Nat
      BY <1>1, <2>3, <2>4, SizesAre
    <2>6. PICK k : k = Append(b, r)
      OBVIOUS
    <2>7. k \in Seq(Record) /\ Len(k) = Len(ring.kept) - n + 1 /\ Bytes(k) = Bytes(b) + r.size
      BY <2>4, <2>6, BytesAppend
    <2>8. append(ring, r) = [ring EXCEPT !.kept = k, !.used = ring.used - Bytes(a) + r.size,
                                         !.records = ring.records - n + 1,
                                         !.dropped = ring.dropped + n]
      BY <1>1, <1>4, <2>1, <2>2, <2>6 DEF append, RingType
    <2>9. PICK new : new = append(ring, r)
      OBVIOUS
    <2>10. /\ ring.used - Bytes(a) + r.size \in Nat /\ ring.used - Bytes(a) + r.size = Bytes(k)
           /\ ring.records - n + 1 \in Nat /\ ring.records - n + 1 = Len(k) /\ ring.dropped + n \in Nat
           /\ ring.used - Bytes(a) + r.size <= c
      <3>1. PICK u, x, y, z : u = ring.used /\ x = Bytes(a) /\ y = Bytes(b) /\ z = r.size
        OBVIOUS
      <3>2. u = x + y /\ x \in Nat /\ y \in Nat /\ z \in Nat /\ c \in Nat /\ c - (u - x) >= z
            /\ Bytes(k) = y + z
        BY <1>1, <1>2, <2>3, <2>4, <2>5, <2>7, <3>1
      <3>3. u - x + z \in Nat /\ u - x + z = Bytes(k) /\ u - x + z <= c
        BY <3>2
      <3>4. PICK l : l = Len(ring.kept)
        OBVIOUS
      <3>5. l \in Nat /\ n \in 0 .. l /\ ring.records = l /\ Len(k) = l - n + 1
        BY <1>1, <2>3, <2>5, <2>7, <3>4
      <3>6. l - n + 1 \in Nat
        BY <3>5
      <3> QED
        BY <1>1, <2>5, <3>1, <3>3, <3>5, <3>6
    <2>11. /\ new \in RingType /\ new.kept = k /\ new.used = Bytes(k) /\ new.records = Len(k)
           /\ new.capacity = c /\ new.dropped = ring.dropped + n /\ Bytes(k) <= c
      BY <1>1, <2>7, <2>8, <2>9, <2>10 DEF RingType
    <2>12. new \in Rings(c)
      BY <2>11 DEF Rings, RingExact
    <2>13. new.records + new.dropped = ring.records + ring.dropped + 1
      BY <1>1, <2>5, <2>7, <2>11
    <2>14. Appended(ring, r, new)
      BY <2>2, <2>3, <2>6, <2>11 DEF Appended
    <2> QED
      BY <2>9, <2>12, <2>13, <2>14
  <1> QED
    BY <1>3, <1>4

LEMMA AppendOrders ==
    ASSUME NEW ring, ring.kept \in Seq(Record), NEW r \in Record, NEW new, Appended(ring, r, new),
           Ordered(ring.kept, r.sequence), NEW n \in Nat, r.sequence < n
    PROVE  Ordered(new.kept, n)
  <1>1. PICK s : s = ring.kept
    OBVIOUS
  <1>2. /\ s \in Seq(Record) /\ DOMAIN s = 1 .. Len(s) /\ Len(s) \in Nat
        /\ \A i \in DOMAIN s : s[i].sequence \in Nat
    <2>1. \A x \in Record : x.sequence \in Nat
      BY DEF Record
    <2> QED
      BY <1>1, <2>1, SizesAre
  <1>3. r.sequence \in Nat
    BY DEF Record
  <1>4. CASE new.kept = s
    <2>1. \A i \in DOMAIN s : s[i].sequence < r.sequence
      BY <1>1 DEF Ordered
    <2>2. \A i \in DOMAIN s : s[i].sequence < n
      BY <1>2, <1>3, <2>1
    <2>3. \A i, j \in DOMAIN s : i < j => s[i].sequence < s[j].sequence
      BY <1>1 DEF Ordered
    <2> QED
      BY <1>4, <2>2, <2>3 DEF Ordered
  <1>5. ASSUME NEW k \in 0 .. Len(s), new.kept = Append(SubSeq(s, k + 1, Len(s)), r)
        PROVE  Ordered(new.kept, n)
    <2>1. PICK b, t : b = SubSeq(s, k + 1, Len(s)) /\ t = new.kept
      OBVIOUS
    <2>2. b \in Seq(Record) /\ Len(b) = Len(s) - k /\ \A i \in 1 .. Len(s) - k : b[i] = s[i + k]
      BY <1>2, <1>5, <2>1, BytesSplit
    <2>3. PICK l : l = Len(b)
      OBVIOUS
    <2>4. /\ l \in Nat /\ l = Len(s) - k /\ DOMAIN t = 1 .. l + 1 /\ t[l + 1] = r
          /\ \A i \in 1 .. l : t[i] = b[i]
      <3>1. t = Append(b, r)
        BY <1>5, <2>1
      <3>2. DOMAIN t = 1 .. Len(b) + 1 /\ t[Len(b) + 1] = r /\ \A i \in 1 .. Len(b) : t[i] = b[i]
        <4>1. b \in Seq(Record)
          BY <2>2
        <4> QED
          BY <3>1, <4>1
      <3>3. Len(b) \in Nat
        BY <2>2
      <3> QED
        BY <2>2, <2>3, <3>2, <3>3
    <2>5. k \in Nat /\ \A i \in 1 .. l : i + k \in DOMAIN s /\ t[i] = s[i + k]
      BY <1>2, <1>5, <2>2, <2>4
    <2>6. \A i \in 1 .. l : t[i].sequence < r.sequence /\ t[i].sequence \in Nat
      BY <1>1, <1>2, <2>5 DEF Ordered
    <2>7. \A i, j \in 1 .. l : i < j => t[i].sequence < t[j].sequence
      <3>1. ASSUME NEW i \in 1 .. l, NEW j \in 1 .. l, i < j PROVE t[i].sequence < t[j].sequence
        <4>1. i + k \in DOMAIN s /\ j + k \in DOMAIN s /\ t[i] = s[i + k] /\ t[j] = s[j + k]
          BY <2>5
        <4>2. i + k < j + k
          BY <2>4, <2>5, <3>1
        <4>3. s[i + k].sequence < s[j + k].sequence
          BY <1>1, <4>1, <4>2 DEF Ordered
        <4> QED
          BY <4>1, <4>3
      <3> QED
        BY <3>1
    <2>8. \A i \in 1 .. l + 1 : i \in 1 .. l \/ i = l + 1
      BY <2>4
    <2>9. \A i, j \in 1 .. l + 1 : i < j => i \in 1 .. l
      BY <2>4
    <2>10. ASSUME NEW i \in DOMAIN t PROVE t[i].sequence < n
      <3>1. CASE i \in 1 .. l
        <4>1. t[i].sequence < r.sequence /\ t[i].sequence \in Nat
          BY <2>6, <3>1
        <4> QED
          BY <1>3, <4>1
      <3>2. CASE i = l + 1
        BY <2>4, <3>2
      <3> QED
        BY <2>4, <2>8, <3>1, <3>2
    <2>11. ASSUME NEW i \in DOMAIN t, NEW j \in DOMAIN t, i < j PROVE t[i].sequence < t[j].sequence
      <3>1. i \in 1 .. l /\ (j \in 1 .. l \/ j = l + 1)
        BY <2>4, <2>8, <2>9, <2>11
      <3>2. CASE j \in 1 .. l
        BY <2>7, <2>11, <3>1, <3>2
      <3>3. CASE j = l + 1
        <4>1. t[j] = r
          BY <2>4, <3>3
        <4> QED
          BY <2>6, <3>1, <4>1
      <3> QED
        BY <3>1, <3>2, <3>3
    <2> QED
      BY <2>1, <2>10, <2>11 DEF Ordered
  <1> QED
    BY <1>1, <1>4, <1>5 DEF Appended

(* resize: what it computes record by record. *)
Refills(ring, c, g) ==
    g = [n \in 0 .. Len(ring.kept) |->
            IF n = 0 THEN Ring(c, ring.dropped) ELSE append(g[n - 1], ring.kept[n])]

LEMMA ResizeUnfolds ==
    ASSUME NEW ring, NEW c, c # ring.capacity
    PROVE  resize(ring, c) = (CHOOSE g : Refills(ring, c, g))[Len(ring.kept)]
  BY DEF resize, Refills

RefilledBy(ring, c, g) ==
    /\ g \in [0 .. Len(ring.kept) -> Rings(c)] /\ g[0] = Ring(c, ring.dropped)
    /\ \A n \in 1 .. Len(ring.kept) : g[n] = append(g[n - 1], ring.kept[n])

LEMMA EmptyRing ==
    ASSUME NEW c \in Nat, NEW d \in Nat
    PROVE  Ring(c, d) \in Rings(c)
  <1>1. <<>> \in Seq(Record) /\ Len(<<>>) = 0
    OBVIOUS
  <1> QED
    BY <1>1, NoBytes DEF Ring, Rings, RingType, RingExact

LEMMA ResizeSteps ==
    ASSUME NEW ring, ring.kept \in Seq(Record), ring.dropped \in Nat, NEW c \in Nat, c # ring.capacity
    PROVE  \E g : RefilledBy(ring, c, g) /\ resize(ring, c) = g[Len(ring.kept)]
  <1> DEFINE m == ring.kept
             n == Len(m)
             from == Ring(c, ring.dropped)
             S == Rings(c)
             step == [i \in 1 .. n |-> [x \in S |-> append(x, m[i])]]
             W == CHOOSE g : Refills(ring, c, g)
  <1>1. n \in Nat /\ \A i \in 1 .. n : m[i] \in Record
    OBVIOUS
  <1>2. from \in S
    BY EmptyRing
  <1>3. step \in [1 .. n -> [S -> S]]
    <2> SUFFICES ASSUME NEW i \in 1 .. n, NEW x \in S PROVE append(x, m[i]) \in S
      BY Zenon
    <2>1. m[i] \in Record
      BY <1>1
    <2> QED
      BY <2>1, AppendKeeps
  <1>4. PICK g \in [0 .. n -> S] : g[0] = from /\ \A i \in 1 .. n : g[i] = step[i][g[i - 1]]
    <2> HIDE DEF step, n, S, from
    <2>1. Iterated(S, from, n, step)
      BY <1>1, <1>2, <1>3, Iteration
    <2> QED
      BY <2>1 DEF Iterated
  <1> HIDE DEF S, from, m
  <1>5. \A i \in 1 .. n : g[i] = append(g[i - 1], m[i])
    <2> SUFFICES ASSUME NEW i \in 1 .. n PROVE g[i] = append(g[i - 1], m[i])
      OBVIOUS
    <2>1. g[i - 1] \in S
      BY <1>1, <1>4
    <2> QED
      BY <1>4, <2>1
  <1>6. Refills(ring, c, g)
    <2>1. g = [i \in 0 .. n |-> g[i]]
      BY <1>4
    <2>2. \A i \in 0 .. n : i # 0 => i \in 1 .. n
      BY <1>1
    <2>3. \A i \in 0 .. n : g[i] = IF i = 0 THEN from ELSE append(g[i - 1], m[i])
      BY <1>4, <1>5, <2>2, Zenon
    <2> QED
      BY <2>1, <2>3, Zenon DEF Refills, from, m
  <1>7. Refills(ring, c, W)
    BY <1>6, Zenon
  <1> HIDE DEF W, n
  <1>8. W[0] = from /\ \A i \in 1 .. n : W[i] = append(W[i - 1], m[i])
    <2>1. \A i \in 0 .. n : W[i] = IF i = 0 THEN from ELSE append(W[i - 1], m[i])
      BY <1>7 DEF Refills, from, m, n
    <2>2. 0 \in 0 .. n /\ \A i \in 1 .. n : i \in 0 .. n /\ i # 0
      BY <1>1
    <2> QED
      BY <2>1, <2>2, Zenon
  <1>9. \A i \in 0 .. n : W[i] \in S
    <2>1. W[0] \in S
      BY <1>2, <1>8
    <2>2. \A i \in 1 .. n : W[i - 1] \in S => W[i] \in S
      <3> SUFFICES ASSUME NEW i \in 1 .. n, W[i - 1] \in S PROVE W[i] \in S
        OBVIOUS
      <3>1. m[i] \in Record
        BY <1>1
      <3>2. append(W[i - 1], m[i]) \in S
        BY <3>1, AppendKeeps DEF S
      <3> QED
        BY <1>8, <3>2
    <2> QED
      BY <1>1, <2>1, <2>2, IterationIn
  <1>10. W \in [0 .. n -> S]
    <2>1. W = [i \in 0 .. n |-> IF i = 0 THEN from ELSE append(W[i - 1], m[i])]
      BY <1>7 DEF Refills, from, m, n
    <2>2. DOMAIN W = 0 .. n /\ W = [i \in DOMAIN W |-> W[i]]
      BY <2>1
    <2> QED
      BY <1>9, <2>2
  <1>11. RefilledBy(ring, c, W)
    BY <1>8, <1>10 DEF RefilledBy, n, m, S, from
  <1>12. resize(ring, c) = W[Len(ring.kept)]
    BY ResizeUnfolds DEF W
  <1> QED
    BY <1>11, <1>12

(* A resize keeps the ring exact and in order, and no event is forgotten. *)
LEMMA ResizeKeeps ==
    ASSUME NEW d \in Nat, NEW ring \in Rings(d), NEW c \in Nat, NEW next \in Nat,
           Ordered(ring.kept, next)
    PROVE  /\ resize(ring, c) \in Rings(c) /\ Ordered(resize(ring, c).kept, next)
           /\ resize(ring, c).records + resize(ring, c).dropped = ring.records + ring.dropped
  <1>1. /\ ring.kept \in Seq(Record) /\ ring.dropped \in Nat /\ ring.records = Len(ring.kept)
        /\ ring.capacity = d
    BY DEF Rings, RingType, RingExact
  <1>2. CASE c = d
    <2>1. resize(ring, c) = ring
      BY <1>1, <1>2 DEF resize
    <2> QED
      BY <1>2, <2>1
  <1>3. CASE c # d
    <2>1. PICK g : RefilledBy(ring, c, g) /\ resize(ring, c) = g[Len(ring.kept)]
      BY <1>1, <1>3, ResizeSteps
    <2>2. PICK m, n : m = ring.kept /\ n = Len(ring.kept)
      OBVIOUS
    <2>3. /\ m \in Seq(Record) /\ n \in Nat /\ DOMAIN m = 1 .. n /\ n = Len(m)
          /\ \A i \in 1 .. n : m[i] \in Record /\ m[i].sequence \in Nat
      <3>1. \A x \in Record : x.sequence \in Nat
        BY DEF Record
      <3> QED
        BY <1>1, <2>2, <3>1, SizesAre
    <2>4. /\ \A i \in 0 .. n : g[i] \in Rings(c)
          /\ g[0] = Ring(c, ring.dropped)
          /\ \A i \in 1 .. n : g[i] = append(g[i - 1], m[i])
      BY <2>1, <2>2 DEF RefilledBy
    <2> DEFINE Upto(i) == /\ g[i].records + g[i].dropped = i + ring.dropped
                          /\ Ordered(g[i].kept, next)
                          /\ \A j \in 1 .. n : i < j => Ordered(g[i].kept, m[j].sequence)
               F == {i \in 0 .. n : Upto(i)}
    <2>5. 0 \in F
      <3>1. g[0].records = 0 /\ g[0].dropped = ring.dropped /\ g[0].kept = <<>>
        BY <2>4 DEF Ring
      <3>2. \A k : Ordered(g[0].kept, k)
        BY <3>1 DEF Ordered
      <3> QED
        BY <1>1, <2>3, <3>1, <3>2
    <2>6. ASSUME NEW i \in 0 .. n, i # n /\ i \in F PROVE i + 1 \in F
      <3>1. i + 1 \in 1 .. n /\ i + 1 \in 0 .. n /\ (i + 1) - 1 = i /\ i \in Nat /\ i < i + 1
        <4>1. i # n /\ i \in 0 .. n /\ n \in Nat
          BY <2>3, <2>6
        <4> HIDE DEF F
        <4> QED
          BY <4>1
      <3>2. PICK a, b, r : a = g[i] /\ b = g[i + 1] /\ r = m[i + 1]
        OBVIOUS
      <3>3. a \in Rings(c) /\ r \in Record /\ b = append(a, r) /\ r.sequence \in Nat
        BY <2>3, <2>4, <3>1, <3>2
      <3>4. /\ b \in Rings(c) /\ Appended(a, r, b) /\ b.records + b.dropped = a.records + a.dropped + 1
        BY <3>3, AppendKeeps
      <3>5. a.records + a.dropped = i + ring.dropped /\ Ordered(a.kept, r.sequence)
        BY <2>6, <3>1, <3>2
      <3>6. a.kept \in Seq(Record)
        BY <3>3 DEF Rings, RingType
      <3>7. ASSUME NEW k \in Nat, r.sequence < k PROVE Ordered(b.kept, k)
        BY <3>3, <3>4, <3>5, <3>6, <3>7, AppendOrders
      <3>8. r.sequence < next /\ \A j \in 1 .. n : i + 1 < j => r.sequence < m[j].sequence
        BY <2>2, <2>3, <3>1, <3>2 DEF Ordered
      <3>9. Ordered(b.kept, next)
        BY <3>7, <3>8
      <3>10. \A j \in 1 .. n : i + 1 < j => Ordered(b.kept, m[j].sequence)
        BY <2>3, <3>7, <3>8
      <3>11. b.records + b.dropped = (i + 1) + ring.dropped
        BY <1>1, <3>1, <3>4, <3>5
      <3> QED
        BY <3>1, <3>2, <3>9, <3>10, <3>11
    <2>7. 0 .. n \subseteq F
      <3> HIDE DEF F
      <3> QED
        BY <2>3, <2>5, <2>6, UpTo
    <2>8. n \in 0 .. n
      BY <2>3
    <2>9. Upto(n)
      BY <2>7, <2>8
    <2> QED
      BY <1>1, <2>1, <2>2, <2>4, <2>8, <2>9
  <1> QED
    BY <1>2, <1>3

-----------------------------------------------------------------------------
(* The journal. *)
LogInv ==
    /\ log = [ring |-> log.ring, next_sequence |-> log.next_sequence]
    /\ log.next_sequence \in Nat
    /\ \E c \in Nat : log.ring \in Rings(c)
    /\ log.next_sequence = log.ring.records + log.ring.dropped
    /\ Ordered(log.ring.kept, log.next_sequence)

LEMMA LogInvInit == EventLogInit => LogInv
  <1> SUFFICES ASSUME EventLogInit PROVE LogInv
    OBVIOUS
  <1>1. DefaultRing \in Nat
    BY EventLogAssumption
  <1>2. Ring(DefaultRing, 0) \in Rings(DefaultRing)
    BY <1>1, EmptyRing
  <1>3. log.ring = Ring(DefaultRing, 0) /\ log.next_sequence = 0
        /\ log = [ring |-> log.ring, next_sequence |-> log.next_sequence]
    BY DEF EventLogInit
  <1>4. log.ring.records = 0 /\ log.ring.dropped = 0 /\ log.ring.kept = <<>>
    BY <1>3 DEF Ring
  <1> QED
    BY <1>1, <1>2, <1>3, <1>4 DEF LogInv, Ordered

LEMMA LogInvStep ==
    ASSUME LogInv, LogSteps \/ UNCHANGED log
    PROVE  LogInv' /\ log.next_sequence <= log'.next_sequence
  <1>1. PICK d \in Nat : log.ring \in Rings(d)
    BY DEF LogInv
  <1>2. /\ log.next_sequence \in Nat /\ log.next_sequence = log.ring.records + log.ring.dropped
        /\ Ordered(log.ring.kept, log.next_sequence)
        /\ log = [ring |-> log.ring, next_sequence |-> log.next_sequence]
    BY DEF LogInv
  <1>3. ASSUME NEW size \in RecordSizes, record(size)
        PROVE  LogInv' /\ log.next_sequence <= log'.next_sequence
    <2>1. PICK r : r = [sequence |-> log.next_sequence, size |-> size]
      OBVIOUS
    <2>2. r \in Record /\ r.sequence = log.next_sequence
      BY <1>2, <1>3, <2>1, EventLogAssumption DEF Record
    <2>3. PICK new : new = append(log.ring, r)
      OBVIOUS
    <2>4. new \in Rings(d) /\ Appended(log.ring, r, new)
          /\ new.records + new.dropped = log.ring.records + log.ring.dropped + 1
      BY <1>1, <2>2, <2>3, AppendKeeps
    <2>5. log' = [ring |-> new, next_sequence |-> log.next_sequence + 1]
      BY <1>3, <2>1, <2>3 DEF record
    <2>6. log.ring.kept \in Seq(Record)
      BY <1>1 DEF Rings, RingType
    <2>7. Ordered(new.kept, log.next_sequence + 1)
      <3>1. log.next_sequence + 1 \in Nat /\ r.sequence < log.next_sequence + 1
        BY <1>2, <2>2
      <3>2. Ordered(log.ring.kept, r.sequence)
        BY <1>2, <2>2
      <3> QED
        BY <2>2, <2>4, <2>6, <3>1, <3>2, AppendOrders
    <2> QED
      BY <1>2, <2>4, <2>5, <2>7 DEF LogInv
  <1>4. ASSUME NEW c \in Capacities, configure(c)
        PROVE  LogInv' /\ log.next_sequence <= log'.next_sequence
    <2>1. c \in Nat
      BY <1>4, EventLogAssumption
    <2>2. PICK new : new = resize(log.ring, c)
      OBVIOUS
    <2>3. /\ new \in Rings(c) /\ Ordered(new.kept, log.next_sequence)
          /\ new.records + new.dropped = log.ring.records + log.ring.dropped
      BY <1>1, <1>2, <2>1, <2>2, ResizeKeeps
    <2>4. log' = [ring |-> new, next_sequence |-> log.next_sequence]
      <3>1. PICK a, b : log = [ring |-> a, next_sequence |-> b]
        BY <1>2
      <3>2. log.ring = a /\ log.next_sequence = b
        BY <3>1
      <3>3. log' = [log EXCEPT !.ring = new]
        BY <1>4, <2>2 DEF configure
      <3>4. log' = [[ring |-> a, next_sequence |-> b] EXCEPT !.ring = new]
        BY <3>1, <3>3
      <3> QED
        BY <3>2, <3>4
    <2> QED
      BY <1>2, <2>1, <2>3, <2>4 DEF LogInv
  <1>5. CASE UNCHANGED log
    BY <1>2, <1>5 DEF LogInv
  <1> QED
    BY <1>3, <1>4, <1>5 DEF LogSteps

LEMMA LogIsExact ==
    ASSUME LogInv
    PROVE  LogExact
  BY DEF LogInv, LogExact, Rings, RingExact, Ordered

-----------------------------------------------------------------------------
(* Items and sequences of items. *)

ItemType == [what : {"records", "gap", "stopped"}, lo : Nat, hi : Nat]

LEMMA MaxTwo ==
    ASSUME NEW a \in Int, NEW b \in Int
    PROVE  Max({a, b}) = IF a >= b THEN a ELSE b
  <1>1. CASE a >= b
    <2>1. \A x \in {a, b} : (\A y \in {a, b} : x >= y) <=> x = a
      BY <1>1
    <2>2. a \in {a, b}
      OBVIOUS
    <2> QED
      BY <1>1, <2>1, <2>2 DEF Max
  <1>2. CASE ~(a >= b)
    <2>1. \A x \in {a, b} : (\A y \in {a, b} : x >= y) <=> x = b
      BY <1>2
    <2>2. b \in {a, b}
      OBVIOUS
    <2> QED
      BY <1>2, <2>1, <2>2 DEF Max
  <1> QED
    BY <1>1, <1>2

LEMMA LostIs ==
    ASSUME log.next_sequence \in Nat, NEW n \in Nat
    PROVE  Lost(n) \in Nat
  <1>1. LiveChannel \in Nat
    BY EventLogAssumption
  <1>2. log.next_sequence - LiveChannel - n \in Int /\ 0 \in Int
    BY <1>1
  <1>3. PICK a : a = log.next_sequence - LiveChannel - n
    OBVIOUS
  <1>4. Lost(n) = Max({0, a}) /\ a \in Int
    BY <1>2, <1>3 DEF Lost
  <1>5. Max({0, a}) = IF 0 >= a THEN 0 ELSE a
    BY <1>2, <1>4, MaxTwo
  <1> QED
    BY <1>4, <1>5

LEMMA AnItem ==
    ASSUME NEW what \in {"records", "gap", "stopped"}, NEW lo \in Nat, NEW hi \in Nat
    PROVE  /\ Item(what, lo, hi) \in ItemType
           /\ Item(what, lo, hi).what = what /\ Item(what, lo, hi).lo = lo /\ Item(what, lo, hi).hi = hi
  BY DEF Item, ItemType

LEMMA NumberIn ==
    ASSUME NEW items, NEW what, NEW k
    PROVE  k \in Numbers(items, what) <=>
              \E i \in DOMAIN items : items[i].what = what /\ k \in items[i].lo .. items[i].hi - 1
  BY DEF Numbers

LEMMA ItemFields ==
    ASSUME NEW item \in ItemType
    PROVE  item.lo \in Nat /\ item.hi \in Nat /\ item.what \in {"records", "gap", "stopped"}
  BY DEF ItemType

(* Appending one item. *)
LEMMA AppendIs ==
    ASSUME NEW s \in Seq(ItemType), NEW item \in ItemType
    PROVE  LET t == Append(s, item)
           IN  /\ t \in Seq(ItemType) /\ Len(t) = Len(s) + 1 /\ DOMAIN t = 1 .. Len(s) + 1
               /\ Len(s) \in Nat /\ DOMAIN s = 1 .. Len(s)
               /\ t[Len(s) + 1] = item /\ \A i \in 1 .. Len(s) : t[i] = s[i]
               /\ \A i \in DOMAIN t : i \in DOMAIN s \/ i = Len(s) + 1
               /\ t # <<>>
  OBVIOUS

LEMMA NumbersAppend ==
    ASSUME NEW s \in Seq(ItemType), NEW item \in ItemType, NEW what
    PROVE  Numbers(Append(s, item), what)
              = Numbers(s, what) \union (IF item.what = what THEN item.lo .. item.hi - 1 ELSE {})
  <1>1. PICK t, l : t = Append(s, item) /\ l = Len(s) + 1
    OBVIOUS
  <1>2. /\ t[l] = item /\ \A i \in DOMAIN s : i \in DOMAIN t /\ t[i] = s[i]
        /\ l \in DOMAIN t /\ \A i \in DOMAIN t : i \in DOMAIN s \/ i = l
    BY <1>1, AppendIs
  <1> DEFINE new == IF item.what = what THEN item.lo .. item.hi - 1 ELSE {}
  <1>3. ASSUME NEW k PROVE k \in Numbers(t, what) <=> k \in Numbers(s, what) \/ k \in new
    <2>1. k \in Numbers(t, what) <=>
             \E i \in DOMAIN t : t[i].what = what /\ k \in t[i].lo .. t[i].hi - 1
      BY NumberIn
    <2>2. k \in Numbers(s, what) <=>
             \E i \in DOMAIN s : s[i].what = what /\ k \in s[i].lo .. s[i].hi - 1
      BY NumberIn
    <2>3. k \in new <=> item.what = what /\ k \in item.lo .. item.hi - 1
      OBVIOUS
    <2> HIDE DEF new
    <2> QED
      BY <1>2, <2>1, <2>2, <2>3, Zenon
  <1> QED
    BY <1>1, <1>3

(* Items that begin at first and leave nothing out up to n. *)
Follows(items, first, n) ==
    /\ items \in Seq(ItemType)
    /\ \A i \in DOMAIN items : /\ items[i].lo < items[i].hi /\ items[i].what # "stopped"
                               /\ items[i].hi <= n
    /\ \A i \in 2 .. Len(items) : items[i].lo = items[i - 1].hi
    /\ items # <<>> => items[1].lo = first
    /\ Reach(items, first) = n

LEMMA NothingFollows == ASSUME NEW n PROVE Follows(<<>>, n, n)
  BY DEF Follows, Reach

LEMMA AppendReach ==
    ASSUME NEW s \in Seq(ItemType), NEW item \in ItemType, NEW first
    PROVE  Reach(Append(s, item), first) = item.hi
  BY AppendIs DEF Reach, Last

LEMMA FollowsAppend ==
    ASSUME NEW s, NEW first, NEW n \in Nat, Follows(s, first, n), NEW item \in ItemType,
           item.lo = n, item.lo < item.hi, item.what # "stopped"
    PROVE  Follows(Append(s, item), first, item.hi)
  <1>1. PICK t, l : t = Append(s, item) /\ l = Len(s)
    OBVIOUS
  <1>2. s \in Seq(ItemType)
    BY DEF Follows
  <1>3. /\ t \in Seq(ItemType) /\ Len(t) = l + 1 /\ DOMAIN t = 1 .. l + 1 /\ l \in Nat
        /\ DOMAIN s = 1 .. l /\ t[l + 1] = item /\ (\A i \in 1 .. l : t[i] = s[i]) /\ t # <<>>
        /\ \A i \in DOMAIN t : i \in DOMAIN s \/ i = l + 1
    BY <1>1, <1>2, AppendIs
  <1>4. item.hi \in Nat /\ n <= item.hi /\ \A i \in 1 .. l : s[i].hi \in Nat
    <2>1. \A i \in 1 .. l : s[i] \in ItemType
      BY <1>2, <1>3
    <2> QED
      BY <2>1, ItemFields
  <1>5. \A i \in DOMAIN t : t[i].lo < t[i].hi /\ t[i].what # "stopped" /\ t[i].hi <= item.hi
    <2>1. ASSUME NEW i \in DOMAIN s PROVE t[i].lo < t[i].hi /\ t[i].what # "stopped" /\ t[i].hi <= item.hi
      BY <1>3, <1>4 DEF Follows
    <2>2. t[l + 1].lo < t[l + 1].hi /\ t[l + 1].what # "stopped" /\ t[l + 1].hi <= item.hi
      BY <1>3, <1>4
    <2> QED
      BY <1>3, <2>1, <2>2
  <1>6. \A i \in 2 .. l + 1 : t[i].lo = t[i - 1].hi
    <2>1. ASSUME NEW i \in 2 .. l PROVE t[i].lo = t[i - 1].hi
      <3>1. i \in 1 .. l /\ i - 1 \in 1 .. l /\ i \in 2 .. Len(s)
        BY <1>1, <1>3
      <3> QED
        BY <1>3, <3>1 DEF Follows
    <2>2. ASSUME l >= 1 PROVE t[l + 1].lo = t[l].hi
      <3>1. s # <<>> /\ l \in 1 .. l
        BY <1>1, <1>3, <2>2
      <3>2. n = s[l].hi
        BY <1>1, <3>1 DEF Follows, Reach, Last
      <3> QED
        BY <1>3, <3>1, <3>2
    <2>3. \A i \in 2 .. l + 1 : i \in 2 .. l \/ (i = l + 1 /\ l >= 1 /\ i - 1 = l)
      BY <1>3
    <2> QED
      BY <2>1, <2>2, <2>3
  <1>7. t[1].lo = first
    <2>1. CASE s = <<>>
      <3>1. l = 0
        BY <1>1, <2>1
      <3>2. n = first
        BY <2>1 DEF Follows, Reach
      <3> QED
        BY <1>3, <3>1, <3>2
    <2>2. CASE s # <<>>
      <3>1. 1 \in 1 .. l
        BY <1>1, <1>2, <1>3, <2>2
      <3> QED
        BY <1>3, <2>2, <3>1 DEF Follows
    <2> QED
      BY <2>1, <2>2
  <1>8. Reach(t, first) = item.hi
    BY <1>1, <1>2, AppendReach
  <1> QED
    BY <1>1, <1>3, <1>5, <1>6, <1>7, <1>8 DEF Follows

(* What follows covers only numbers below its end. *)
LEMMA FollowsBelow ==
    ASSUME NEW s, NEW first, NEW n \in Nat, Follows(s, first, n), NEW what, NEW k \in Numbers(s, what)
    PROVE  k \in Nat /\ k < n
  <1>1. PICK i \in DOMAIN s : k \in s[i].lo .. s[i].hi - 1
    BY NumberIn
  <1>2. s[i] \in ItemType /\ s[i].hi <= n
    BY DEF Follows
  <1>3. s[i].lo \in Nat /\ s[i].hi \in Nat
    BY <1>2, ItemFields
  <1> QED
    BY <1>1, <1>2, <1>3

LEMMA FollowsChained ==
    ASSUME NEW s, NEW first, NEW n, Follows(s, first, n)
    PROVE  Chained(s) /\ (s # <<>> => s[1].lo = first) /\ Reach(s, first) = n
  BY DEF Follows, Chained

-----------------------------------------------------------------------------
(* Recordings. *)

States == {"none", "starting", "running", "refused", "draining", "stopped", "failed"}
RecordingType == [state : States, receiver : Nat, file : Seq(ItemType), records : Nat, lost : Nat,
                  since : Nat, stop_at : Nat]

(* No item reaches past the receiver: a gap that is added covers numbers   *)
(* that no earlier one covers.                                             *)
Recorded(x) ==
    /\ x \in RecordingType
    /\ \A i \in DOMAIN x.file : InPlace(x.file, i, x.since) /\ x.file[i].hi <= x.receiver
    /\ x.state # "failed" => x.receiver = Max({x.since, Reach(x.file, 0)})
    /\ x.records = Len(x.file)
    /\ x.lost = Cardinality(Numbers(x.file, "gap"))
    /\ x.state = "stopped" => x.receiver >= x.stop_at

RecordingInv ==
    /\ LogInv
    /\ DOMAIN recording = Recordings
    /\ \A r \in Recordings :
        /\ Recorded(recording[r])
        /\ recording[r].stop_at <= log.next_sequence

LEMMA NoNumbers == ASSUME NEW what PROVE Numbers(<<>>, what) = {}
  BY DEF Numbers

LEMMA NotRecordingIs ==
    /\ NotRecording \in RecordingType /\ Recorded(NotRecording) /\ NotRecording.stop_at = 0
    /\ NotRecording.lost = 0
  <1>1. NotRecording \in RecordingType
    <2>1. <<>> \in Seq(ItemType)
      OBVIOUS
    <2> QED
      BY <2>1 DEF NotRecording, RecordingType, States
  <1>2. Max({0, Reach(<<>>, 0)}) = 0
    <2>1. Max({0, 0}) = 0
      BY MaxTwo
    <2> QED
      BY <2>1 DEF Reach
  <1>3. Cardinality(Numbers(<<>>, "gap")) = 0
    BY NoNumbers, FS_EmptySet
  <1> QED
    BY <1>1, <1>2, <1>3 DEF NotRecording, Recorded

(* Writing an item that begins where the receiver is. *)
WroteNext(x, what, n) ==
    [Wrote(x, Item(what, x.receiver, x.receiver + n), IF what = "gap" THEN n ELSE 0)
        EXCEPT !.receiver = @ + n]

LEMMA WroteKeeps ==
    ASSUME NEW x, Recorded(x), x.state \in {"running", "draining"}, NEW what \in {"records", "gap"},
           NEW lost \in Nat, lost > 0, NEW y,
           y = WroteNext(x, what, lost)
    PROVE  Recorded(y) /\ y.stop_at = x.stop_at
  <1>1. /\ x \in RecordingType /\ x.receiver \in Nat /\ x.file \in Seq(ItemType) /\ x.records \in Nat
        /\ x.lost \in Nat /\ x.since \in Nat /\ x.stop_at \in Nat
    BY DEF Recorded, RecordingType
  <1>2. PICK n, item, l : n = x.receiver /\ item = Item(what, n, n + lost) /\ l = Len(x.file)
    OBVIOUS
  <1>3. item \in ItemType /\ item.lo = n /\ item.hi = n + lost /\ item.what = what /\ n \in Nat
        /\ n + lost \in Nat
    <2>1. n \in Nat /\ n + lost \in Nat /\ what \in {"records", "gap", "stopped"}
      BY <1>1, <1>2
    <2> QED
      BY <1>2, <2>1, AnItem
  <1>4. PICK more, file : more = (IF what = "gap" THEN lost ELSE 0) /\ file = Append(x.file, item)
    OBVIOUS
  <1>5. y = [x EXCEPT !.file = file, !.records = x.records + 1, !.lost = x.lost + more,
                      !.receiver = n + lost]
    BY <1>1, <1>2, <1>4 DEF Wrote, WroteNext, RecordingType
  <1>6. /\ file \in Seq(ItemType) /\ Len(file) = l + 1 /\ DOMAIN file = 1 .. l + 1 /\ l \in Nat
        /\ DOMAIN x.file = 1 .. l /\ file[l + 1] = item /\ \A i \in 1 .. l : file[i] = x.file[i]
        /\ \A i \in DOMAIN file : i \in DOMAIN x.file \/ i = l + 1
    BY <1>1, <1>2, <1>3, <1>4, AppendIs
  <1>7. /\ y \in RecordingType /\ y.file = file /\ y.records = x.records + 1 /\ y.lost = x.lost + more
        /\ y.receiver = n + lost /\ y.since = x.since /\ y.stop_at = x.stop_at /\ y.state = x.state
    <2>1. more \in Nat
      BY <1>4
    <2>2. x.records + 1 \in Nat /\ x.lost + more \in Nat
      BY <1>1, <2>1
    <2>3. PICK a, b, c : a = x.records + 1 /\ b = x.lost + more /\ c = n + lost
      OBVIOUS
    <2>4. a \in Nat /\ b \in Nat /\ c \in Nat /\ x \in RecordingType /\ file \in Seq(ItemType)
      BY <1>1, <1>3, <1>6, <2>2, <2>3
    <2>5. y = [x EXCEPT !.file = file, !.records = a, !.lost = b, !.receiver = c]
      BY <1>5, <2>3
    <2>6. /\ y \in RecordingType /\ y.file = file /\ y.records = a /\ y.lost = b
          /\ y.receiver = c /\ y.since = x.since /\ y.stop_at = x.stop_at /\ y.state = x.state
      BY <2>4, <2>5 DEF RecordingType
    <2> QED
      BY <2>3, <2>6
  <1>8. n = Max({x.since, Reach(x.file, 0)})
    BY <1>2 DEF Recorded
  <1>9. Reach(x.file, 0) \in Nat /\ (l > 0 => Reach(x.file, 0) = x.file[l].hi)
        /\ (l = 0 => Reach(x.file, 0) = 0)
    <2>1. CASE x.file = <<>>
      BY <1>2, <2>1 DEF Reach
    <2>2. CASE x.file # <<>>
      <3>1. l > 0 /\ l \in DOMAIN x.file
        BY <1>1, <1>2, <1>6, <2>2
      <3>2. Reach(x.file, 0) = x.file[l].hi /\ x.file[l] \in ItemType
        BY <1>1, <1>2, <2>2, <3>1 DEF Reach, Last
      <3> QED
        BY <1>6, <3>1, <3>2, ItemFields
    <2> QED
      BY <2>1, <2>2
  <1>10. PICK reach : reach = Reach(x.file, 0)
    OBVIOUS
  <1>11. n = IF x.since >= reach THEN x.since ELSE reach
    BY <1>1, <1>8, <1>9, <1>10, MaxTwo
  <1>12. n = Max({reach, x.since})
    <2>1. Max({reach, x.since}) = IF reach >= x.since THEN reach ELSE x.since
      BY <1>1, <1>9, <1>10, MaxTwo
    <2> QED
      BY <1>1, <1>9, <1>10, <1>11, <2>1
  <1>13. ASSUME NEW i \in DOMAIN file PROVE InPlace(file, i, x.since) /\ file[i].hi <= n + lost
    <2>1. CASE i \in DOMAIN x.file
      <3>1. InPlace(x.file, i, x.since) /\ x.file[i].hi <= n /\ file[i] = x.file[i]
        BY <1>2, <1>6, <2>1 DEF Recorded
      <3>2. i # 1 => file[i - 1] = x.file[i - 1]
        BY <1>6, <2>1
      <3>3. InPlace(file, i, x.since)
        BY <3>1, <3>2 DEF InPlace
      <3>4. x.file[i].hi \in Nat
        BY <1>1, <2>1, ItemFields
      <3> QED
        BY <1>3, <3>1, <3>3, <3>4
    <2>2. CASE i = l + 1
      <3>1. file[i] = item /\ item.lo < item.hi /\ ~(item.lo < x.since)
        BY <1>1, <1>3, <1>6, <1>9, <1>10, <1>11, <2>2
      <3>2. (IF i = 1 THEN 0 ELSE file[i - 1].hi) = reach
        <4>1. CASE l = 0
          BY <1>9, <1>10, <2>2, <4>1
        <4>2. CASE l > 0
          <5>1. i # 1 /\ i - 1 = l /\ l \in 1 .. l
            BY <1>6, <2>2, <4>2
          <5> QED
            BY <1>6, <1>9, <1>10, <4>2, <5>1
        <4> QED
          BY <1>6, <4>1, <4>2
      <3>3. item.lo = Max({reach, x.since})
        BY <1>3, <1>12
      <3>4. InPlace(file, i, x.since)
        BY <3>1, <3>2, <3>3 DEF InPlace
      <3> QED
        BY <1>3, <3>1, <3>4
    <2> QED
      BY <1>6, <2>1, <2>2
  <1>14. n + lost = Max({x.since, Reach(file, 0)})
    <2>1. Reach(file, 0) = n + lost
      BY <1>1, <1>3, <1>4, AppendReach
    <2>2. Max({x.since, n + lost}) = IF x.since >= n + lost THEN x.since ELSE n + lost
      <3>1. x.since \in Int /\ n + lost \in Int
        BY <1>1, <1>3
      <3> QED
        BY <3>1, MaxTwo
    <2>3. x.since <= n
      BY <1>1, <1>9, <1>10, <1>11
    <2>4. ~(x.since >= n + lost)
      BY <1>1, <1>3, <2>3
    <2> QED
      BY <2>1, <2>2, <2>4
  <1>15. x.lost + more = Cardinality(Numbers(file, "gap"))
    <2>1. PICK old, new : old = Numbers(x.file, "gap")
                          /\ new = (IF what = "gap" THEN n .. n + lost - 1 ELSE {})
      OBVIOUS
    <2>2. Numbers(file, "gap") = old \union new
      <3>1. Numbers(file, "gap")
               = old \union (IF item.what = "gap" THEN item.lo .. item.hi - 1 ELSE {})
        BY <1>1, <1>3, <1>4, <2>1, NumbersAppend
      <3>2. item.lo .. item.hi - 1 = n .. n + lost - 1 /\ item.what = what
        BY <1>3
      <3> QED
        BY <2>1, <3>1, <3>2
    <2>3. old \in SUBSET (0 .. n)  /\ old \intersect new = {}
      <3>1. ASSUME NEW k \in old PROVE k \in Nat /\ k < n
        <4>1. PICK i \in DOMAIN x.file : k \in x.file[i].lo .. x.file[i].hi - 1
          BY <2>1, <3>1, NumberIn
        <4>2. x.file[i] \in ItemType /\ x.file[i].hi <= n
          BY <1>1, <1>2 DEF Recorded
        <4> QED
          BY <1>3, <4>1, <4>2, ItemFields
      <3>2. \A k \in new : k >= n
        BY <1>3, <2>1
      <3> QED
        BY <1>3, <3>1, <3>2
    <2>4. IsFiniteSet(old)
      <3>1. 0 \in Int /\ n \in Int
        BY <1>3
      <3>2. IsFiniteSet(0 .. n)
        BY <3>1, FS_Interval
      <3> QED
        BY <2>3, <3>2, FS_Subset
    <2>5. IsFiniteSet(new) /\ Cardinality(new) = more
      <3>1. CASE what = "gap"
        <4>1. n \in Int /\ n + lost - 1 \in Int /\ n <= n + lost - 1
          BY <1>3
        <4>2. IsFiniteSet(n .. n + lost - 1)
              /\ Cardinality(n .. n + lost - 1) = (n + lost - 1) - n + 1
          BY <4>1, FS_Interval
        <4> QED
          BY <1>3, <1>4, <2>1, <3>1, <4>2
      <3>2. CASE what # "gap"
        BY <1>4, <2>1, <3>2, FS_EmptySet
      <3> QED
        BY <3>1, <3>2
    <2>6. Cardinality(old \union new)
             = Cardinality(old) + Cardinality(new) - Cardinality(old \intersect new)
      BY <2>4, <2>5, FS_Union
    <2>7. Cardinality(old \intersect new) = 0
      BY <2>3, FS_EmptySet
    <2>8. Cardinality(old) = x.lost
      BY <2>1 DEF Recorded
    <2>9. more \in Nat
      BY <1>4
    <2>10. PICK all, a, b, c : /\ all = Cardinality(old \union new) /\ a = Cardinality(old)
                               /\ b = Cardinality(new) /\ c = Cardinality(old \intersect new)
      OBVIOUS
    <2>11. all = a + b - c /\ a = x.lost /\ b = more /\ c = 0 /\ a \in Nat /\ b \in Nat
      BY <1>1, <2>5, <2>6, <2>7, <2>8, <2>9, <2>10
    <2>12. all = a + b
      BY <2>11
    <2> QED
      BY <2>2, <2>10, <2>11, <2>12
  <1>16. y.state # "stopped" /\ y.records = Len(y.file)
    <2>1. x.records = l
      BY <1>2 DEF Recorded
    <2> QED
      BY <1>6, <1>7, <2>1
  <1> QED
    BY <1>7, <1>13, <1>14, <1>15, <1>16 DEF Recorded

(* The snapshot. *)
Snapshot(history, dump) ==
    [NotRecording EXCEPT
        !.state = "starting", !.receiver = log.next_sequence, !.since = log.next_sequence,
        !.file = [i \in DOMAIN dump |-> Single(dump[i])],
        !.records = IF history THEN log.ring.records ELSE 0]

LEMMA SnapshotRecorded ==
    ASSUME LogInv, NEW history \in BOOLEAN, NEW dump, dump = (IF history THEN Dump ELSE <<>>), NEW y,
           y = Snapshot(history, dump)
    PROVE  Recorded(y) /\ y.stop_at = 0
  <1>1. PICK next, kept : next = log.next_sequence /\ kept = log.ring.kept
    OBVIOUS
  <1>2. next \in Nat /\ kept \in Seq(Record) /\ log.ring.records = Len(kept) /\ Ordered(kept, next)
        /\ log.ring.records \in Nat
    BY <1>1 DEF LogInv, Rings, RingType, RingExact
  <1>3. PICK l : l = (IF history THEN Len(kept) ELSE 0)
    OBVIOUS
  <1>4. /\ l \in Nat /\ DOMAIN dump = 1 .. l /\ \A i \in 1 .. l : dump[i] \in Nat /\ dump[i] < next
        /\ \A i, j \in 1 .. l : i < j => dump[i] < dump[j]
    <2>1. CASE history
      <3>1. /\ DOMAIN kept = 1 .. Len(kept) /\ Len(kept) \in Nat
            /\ \A i \in DOMAIN kept : kept[i].sequence \in Nat
        <4>1. \A x \in Record : x.sequence \in Nat
          BY DEF Record
        <4> QED
          BY <1>2, <4>1, SizesAre
      <3>2. DOMAIN dump = DOMAIN kept /\ \A i \in DOMAIN kept : dump[i] = kept[i].sequence
        BY <1>1, <2>1 DEF Dump
      <3>3. l = Len(kept) /\ DOMAIN kept = 1 .. l
        BY <1>3, <2>1, <3>1
      <3>4. \A i \in 1 .. l : dump[i] = kept[i].sequence /\ dump[i] \in Nat
        BY <3>1, <3>2, <3>3
      <3>5. /\ \A i \in 1 .. l : kept[i].sequence < next
            /\ \A i, j \in 1 .. l : i < j => kept[i].sequence < kept[j].sequence
        BY <1>2, <3>3 DEF Ordered
      <3> QED
        BY <3>1, <3>2, <3>3, <3>4, <3>5
    <2>2. CASE ~history
      <3>1. l = 0 /\ dump = <<>>
        BY <1>3, <2>2
      <3> QED
        BY <3>1
    <2> QED
      BY <2>1, <2>2
  <1>5. PICK file : file = [i \in DOMAIN dump |-> Single(dump[i])]
    OBVIOUS
  <1>6. \A i \in 1 .. l : /\ file[i] \in ItemType /\ file[i].what = "records"
                          /\ file[i].lo = dump[i] /\ file[i].hi = dump[i] + 1
    <2>1. ASSUME NEW i \in 1 .. l
          PROVE  /\ file[i] \in ItemType /\ file[i].what = "records"
                 /\ file[i].lo = dump[i] /\ file[i].hi = dump[i] + 1
      <3>1. file[i] = Item("records", dump[i], dump[i] + 1) /\ dump[i] \in Nat /\ dump[i] + 1 \in Nat
        BY <1>4, <1>5 DEF Single
      <3> QED
        BY <3>1, AnItem
    <2> QED
      BY <2>1
  <1>7. file \in Seq(ItemType) /\ Len(file) = l /\ DOMAIN file = 1 .. l
    <2>1. file \in [1 .. l -> ItemType]
      BY <1>4, <1>5, <1>6
    <2> QED
      BY <1>4, <2>1
  <1>8. /\ y \in RecordingType /\ y.state = "starting" /\ y.receiver = next /\ y.since = next
        /\ y.file = file /\ y.records = l /\ y.lost = 0 /\ y.stop_at = 0
    <2>1. y = [NotRecording EXCEPT !.state = "starting", !.receiver = next, !.since = next,
                                   !.file = file, !.records = l]
      BY <1>1, <1>2, <1>3, <1>5 DEF Snapshot
    <2>2. NotRecording \in RecordingType /\ NotRecording.lost = 0 /\ NotRecording.stop_at = 0
      BY NotRecordingIs
    <2>3. "starting" \in States
      BY DEF States
    <2> QED
      BY <1>2, <1>4, <1>7, <2>1, <2>2, <2>3 DEF RecordingType
  <1>9. ASSUME NEW i \in 1 .. l PROVE InPlace(file, i, next) /\ file[i].hi <= next
    <2>1. dump[i] \in Nat /\ dump[i] < next /\ file[i].lo = dump[i] /\ file[i].hi = dump[i] + 1
      BY <1>4, <1>6
    <2>2. (IF i = 1 THEN 0 ELSE file[i - 1].hi) <= file[i].lo
      <3>1. CASE i = 1
        BY <2>1, <3>1
      <3>2. CASE i # 1
        <4>1. i - 1 \in 1 .. l /\ i - 1 < i
          BY <1>4, <3>2
        <4>2. dump[i - 1] \in Nat /\ dump[i - 1] < dump[i] /\ file[i - 1].hi = dump[i - 1] + 1
          BY <1>4, <1>6, <4>1
        <4> QED
          BY <2>1, <3>2, <4>2
      <3> QED
        BY <3>1, <3>2
    <2> QED
      BY <1>2, <2>1, <2>2 DEF InPlace
  <1>10. next = Max({next, Reach(file, 0)})
    <2>1. Reach(file, 0) \in Nat /\ Reach(file, 0) <= next
      <3>1. CASE file = <<>>
        BY <1>2, <3>1 DEF Reach
      <3>2. CASE file # <<>>
        <4>1. l \in 1 .. l
          BY <1>7, <3>2
        <4>2. Reach(file, 0) = file[l].hi /\ file[l].hi <= next /\ file[l].hi \in Nat
          BY <1>6, <1>7, <1>9, <3>2, <4>1, ItemFields DEF Reach, Last
        <4> QED
          BY <4>2
      <3> QED
        BY <3>1, <3>2
    <2>2. Max({next, Reach(file, 0)}) = IF next >= Reach(file, 0) THEN next ELSE Reach(file, 0)
      BY <1>2, <2>1, MaxTwo
    <2> QED
      BY <1>2, <2>1, <2>2
  <1>11. Cardinality(Numbers(file, "gap")) = 0
    <2>1. ASSUME NEW k \in Numbers(file, "gap") PROVE FALSE
      <3>1. PICK i \in DOMAIN file : file[i].what = "gap"
        BY NumberIn
      <3> QED
        BY <1>6, <1>7, <3>1
    <2>2. Numbers(file, "gap") = {}
      BY <2>1
    <2> QED
      BY <2>2, FS_EmptySet
  <1> QED
    BY <1>7, <1>8, <1>9, <1>10, <1>11 DEF Recorded

(* A change of state alone. *)
Turned(x, state, at) == [x EXCEPT !.state = state, !.stop_at = at]

LEMMA StateKeeps ==
    ASSUME NEW x, Recorded(x), x.state # "failed", NEW state \in States \ {"stopped"},
           NEW at \in Nat
    PROVE  /\ Recorded([x EXCEPT !.state = state])
           /\ Recorded(Turned(x, state, at)) /\ Turned(x, state, at).stop_at = at
           /\ [x EXCEPT !.state = state].stop_at = x.stop_at
  <1>1. x \in RecordingType
    BY DEF Recorded
  <1>2. PICK y, z : y = [x EXCEPT !.state = state] /\ z = Turned(x, state, at)
    OBVIOUS
  <1>3. /\ y \in RecordingType /\ y.state = state /\ y.receiver = x.receiver /\ y.file = x.file
        /\ y.records = x.records /\ y.lost = x.lost /\ y.since = x.since /\ y.stop_at = x.stop_at
    BY <1>1, <1>2 DEF RecordingType
  <1>4. /\ z \in RecordingType /\ z.state = state /\ z.receiver = x.receiver /\ z.file = x.file
        /\ z.records = x.records /\ z.lost = x.lost /\ z.since = x.since /\ z.stop_at = at
    BY <1>1, <1>2 DEF RecordingType, Turned
  <1>5. Recorded(y)
    BY <1>3 DEF Recorded
  <1>6. Recorded(z)
    BY <1>4 DEF Recorded
  <1> QED
    BY <1>2, <1>3, <1>4, <1>5, <1>6

LEMMA FailedKeeps ==
    ASSUME NEW x, Recorded(x), NEW n \in Nat
    PROVE  LET y == [[x EXCEPT !.state = "failed"] EXCEPT !.receiver = @ + n]
           IN  Recorded(y) /\ y.stop_at = x.stop_at
  <1>1. /\ x \in RecordingType /\ x.receiver \in Nat /\ x.file \in Seq(ItemType)
        /\ \A i \in DOMAIN x.file : x.file[i].hi \in Nat
    <2>1. x \in RecordingType /\ x.receiver \in Nat /\ x.file \in Seq(ItemType)
      BY DEF Recorded, RecordingType
    <2>2. \A i \in DOMAIN x.file : x.file[i] \in ItemType
      BY <2>1
    <2> QED
      BY <2>1, <2>2, ItemFields
  <1>2. PICK y : y = [[x EXCEPT !.state = "failed"] EXCEPT !.receiver = @ + n]
    OBVIOUS
  <1>3. /\ y \in RecordingType /\ y.state = "failed" /\ y.receiver = x.receiver + n /\ y.file = x.file
        /\ y.records = x.records /\ y.lost = x.lost /\ y.since = x.since /\ y.stop_at = x.stop_at
    <2>1. PICK c : c = x.receiver + n
      OBVIOUS
    <2>2. c \in Nat /\ "failed" \in States /\ x \in RecordingType
      BY <1>1, <2>1 DEF States
    <2>3. y = [x EXCEPT !.state = "failed", !.receiver = c]
      BY <1>1, <1>2, <2>1 DEF RecordingType
    <2>4. /\ y \in RecordingType /\ y.state = "failed" /\ y.receiver = c /\ y.file = x.file
          /\ y.records = x.records /\ y.lost = x.lost /\ y.since = x.since /\ y.stop_at = x.stop_at
      BY <2>2, <2>3 DEF RecordingType
    <2> QED
      BY <2>1, <2>4
  <1>4. \A i \in DOMAIN y.file : InPlace(y.file, i, y.since) /\ y.file[i].hi <= y.receiver
    BY <1>1, <1>3 DEF Recorded
  <1>5. Recorded(y)
    BY <1>3, <1>4 DEF Recorded
  <1> QED
    BY <1>2, <1>3, <1>5

LEMMA RecordingInvInit == EventRecordingInit => RecordingInv
  <1> SUFFICES ASSUME EventRecordingInit PROVE RecordingInv
    OBVIOUS
  <1>1. LogInv
    BY LogInvInit DEF EventRecordingInit
  <1>2. log.next_sequence \in Nat
    BY <1>1 DEF LogInv
  <1>3. DOMAIN recording = Recordings /\ \A r \in Recordings : recording[r] = NotRecording
    BY DEF EventRecordingInit
  <1> QED
    BY <1>1, <1>2, <1>3, NotRecordingIs DEF RecordingInv

LEMMA BecomesKeeps ==
    ASSUME RecordingInv, NEW r \in Recordings, NEW y, Becomes(r, y), Recorded(y),
           y.stop_at <= log.next_sequence
    PROVE  RecordingInv'
  <1>1. log' = log /\ recording' = [recording EXCEPT ![r] = y]
    BY DEF Becomes
  <1>2. DOMAIN recording' = Recordings
        /\ \A q \in Recordings : recording'[q] = IF q = r THEN y ELSE recording[q]
    BY <1>1 DEF RecordingInv
  <1>3. LogInv'
    BY <1>1 DEF RecordingInv, LogInv
  <1>4. \A q \in Recordings : Recorded(recording'[q]) /\ recording'[q].stop_at <= log'.next_sequence
    BY <1>1, <1>2 DEF RecordingInv
  <1>5. \A q \in Recordings : Recorded(recording[q])'
    BY <1>4 DEF Recorded
  <1> QED
    BY <1>2, <1>3, <1>4, <1>5 DEF RecordingInv

LEMMA RecordingInvStep ==
    ASSUME RecordingInv, [EventRecordingNext]_event_recording_vars
    PROVE  RecordingInv'
  <1>1. LogInv /\ log.next_sequence \in Nat /\ DOMAIN recording = Recordings
        /\ \A r \in Recordings : Recorded(recording[r]) /\ recording[r].stop_at <= log.next_sequence
    BY DEF RecordingInv, LogInv
  <1>2. ASSUME recording' = recording, LogSteps \/ UNCHANGED log PROVE RecordingInv'
    <2>1. LogInv' /\ log.next_sequence <= log'.next_sequence
      BY <1>1, <1>2, LogInvStep
    <2>2. log'.next_sequence \in Nat
      BY <2>1 DEF LogInv
    <2>3. \A r \in Recordings : recording[r].stop_at \in Nat
      BY <1>1 DEF Recorded, RecordingType
    <2>4. \A r \in Recordings : recording'[r].stop_at <= log'.next_sequence
      BY <1>1, <1>2, <2>1, <2>2, <2>3
    <2>5. \A r \in Recordings : Recorded(recording[r])'
      BY <1>1, <1>2 DEF Recorded
    <2> QED
      BY <1>1, <1>2, <2>1, <2>4, <2>5 DEF RecordingInv
  <1>3. ASSUME NEW r \in Recordings PROVE recording[r].receiver \in Nat /\ Lost(recording[r].receiver) \in Nat
                                           /\ recording[r].stop_at \in Nat
    <2>1. recording[r].receiver \in Nat /\ recording[r].stop_at \in Nat
      BY <1>1 DEF Recorded, RecordingType
    <2> QED
      BY <1>1, <2>1, LostIs
  <1>4. ASSUME NEW r \in Recordings, NEW history \in BOOLEAN, start_file_stream(r, history)
        PROVE  RecordingInv'
    <2>1. PICK dump : dump = IF history THEN Dump ELSE <<>>
      OBVIOUS
    <2>2. PICK y : y = Snapshot(history, dump)
      OBVIOUS
    <2>3. Becomes(r, y)
      BY <1>4, <2>1, <2>2, Zenon DEF start_file_stream, Snapshot
    <2>4. Recorded(y) /\ y.stop_at = 0
      BY <1>1, <2>1, <2>2, SnapshotRecorded
    <2>5. y.stop_at <= log.next_sequence
      BY <1>1, <2>4
    <2> QED
      BY <2>3, <2>4, <2>5, BecomesKeeps
  <1>5. ASSUME NEW r \in Recordings, started(r) PROVE RecordingInv'
    <2>1. PICK state \in {"running", "refused"} : Becomes(r, [recording[r] EXCEPT !.state = state])
      BY <1>5 DEF started
    <2>2. recording[r].state # "failed" /\ state \in States \ {"stopped"} /\ 0 \in Nat
      BY <1>5 DEF started, In, States
    <2>3. PICK y : y = [recording[r] EXCEPT !.state = state]
      OBVIOUS
    <2>4. Recorded(y) /\ y.stop_at = recording[r].stop_at
      BY <1>1, <2>2, <2>3, StateKeeps
    <2>5. y.stop_at <= log.next_sequence /\ Becomes(r, y)
      BY <1>1, <2>1, <2>3, <2>4
    <2> QED
      BY <2>4, <2>5, BecomesKeeps
  <1>6. ASSUME NEW r \in Recordings, stop_file_stream(r) PROVE RecordingInv'
    <2>1. recording[r].state # "failed" /\ "draining" \in States \ {"stopped"}
      BY <1>6 DEF stop_file_stream, In, States
    <2>2. PICK y : y = Turned(recording[r], "draining", log.next_sequence)
      OBVIOUS
    <2>3. Becomes(r, y)
      BY <1>6, <2>2 DEF stop_file_stream, Turned
    <2>4. Recorded(y) /\ y.stop_at = log.next_sequence
      BY <1>1, <2>1, <2>2, StateKeeps
    <2>5. y.stop_at <= log.next_sequence
      BY <1>1, <2>4
    <2> QED
      BY <2>3, <2>4, <2>5, BecomesKeeps
  <1>7. ASSUME NEW r \in Recordings, Active(r), NEW what \in {"records", "gap"}, NEW n \in Nat, n > 0,
               NEW y \in {Wrote(recording[r], Item(what, recording[r].receiver, recording[r].receiver + n),
                                IF what = "gap" THEN n ELSE 0),
                          [recording[r] EXCEPT !.state = "failed"]},
               Becomes(r, [y EXCEPT !.receiver = @ + n])
        PROVE  RecordingInv'
    <2>1. PICK x, z : x = recording[r] /\ z = [y EXCEPT !.receiver = @ + n]
      OBVIOUS
    <2>2. Recorded(x) /\ x.state \in {"running", "draining"} /\ x.stop_at <= log.next_sequence
      BY <1>1, <1>7, <2>1 DEF Active, In
    <2>3. Recorded(z) /\ z.stop_at = x.stop_at
      <3>1. CASE y = Wrote(x, Item(what, x.receiver, x.receiver + n), IF what = "gap" THEN n ELSE 0)
        <4>1. z = WroteNext(x, what, n)
          BY <2>1, <3>1, Zenon DEF WroteNext
        <4> QED
          BY <1>7, <2>2, <4>1, WroteKeeps
      <3>2. CASE y = [x EXCEPT !.state = "failed"]
        <4>1. z = [[x EXCEPT !.state = "failed"] EXCEPT !.receiver = @ + n]
          BY <2>1, <3>2, Zenon
        <4> QED
          BY <2>2, <4>1, FailedKeeps, Zenon
      <3> QED
        BY <1>7, <2>1, <3>1, <3>2, Zenon
    <2>4. Becomes(r, z) /\ z.stop_at <= log.next_sequence
      BY <1>7, <2>1, <2>2, <2>3, Zenon
    <2> QED
      BY <2>3, <2>4, BecomesKeeps
  <1>8. ASSUME NEW r \in Recordings, write_record(r) PROVE RecordingInv'
    <2>1. PICK n : n = recording[r].receiver
      OBVIOUS
    <2>2. PICK y \in {Wrote(recording[r], Single(n), 0), [recording[r] EXCEPT !.state = "failed"]} :
             Becomes(r, [y EXCEPT !.receiver = @ + 1])
      BY <1>8, <2>1, Zenon DEF write_record
    <2>3. Single(n) = Item("records", n, n + 1) /\ Active(r)
      BY <1>8 DEF Single, write_record
    <2>4. (IF "records" = "gap" THEN 1 ELSE 0) = 0 /\ 1 \in Nat /\ 1 > 0 /\ "records" \in {"records", "gap"}
      OBVIOUS
    <2>5. y \in {Wrote(recording[r], Item("records", recording[r].receiver, recording[r].receiver + 1),
                       IF "records" = "gap" THEN 1 ELSE 0),
                 [recording[r] EXCEPT !.state = "failed"]}
      BY <2>1, <2>2, <2>3, <2>4, Zenon
    <2> QED
      BY <1>7, <2>2, <2>3, <2>4, <2>5, Zenon
  <1>9. ASSUME NEW r \in Recordings, write_gap(r) PROVE RecordingInv'
    <2>1. PICK n, lost : n = recording[r].receiver /\ lost = Lost(n)
      OBVIOUS
    <2>2. PICK y \in {Wrote(recording[r], Item("gap", n, n + lost), lost),
                      [recording[r] EXCEPT !.state = "failed"]} :
             Becomes(r, [y EXCEPT !.receiver = @ + lost])
      BY <1>9, <2>1, Zenon DEF write_gap
    <2>3. Active(r) /\ lost > 0 /\ lost \in Nat
      BY <1>3, <1>9, <2>1 DEF write_gap
    <2>4. (IF "gap" = "gap" THEN lost ELSE 0) = lost /\ "gap" \in {"records", "gap"}
      OBVIOUS
    <2>5. y \in {Wrote(recording[r], Item("gap", recording[r].receiver, recording[r].receiver + lost),
                       IF "gap" = "gap" THEN lost ELSE 0),
                 [recording[r] EXCEPT !.state = "failed"]}
      BY <2>1, <2>2, <2>4, Zenon
    <2> QED
      BY <1>7, <2>2, <2>3, <2>4, <2>5, Zenon
  <1>10. ASSUME NEW r \in Recordings, file_drained(r) PROVE RecordingInv'
    <2>1. PICK state \in {"stopped", "failed"} : Becomes(r, [recording[r] EXCEPT !.state = state])
      BY <1>10 DEF file_drained
    <2>2. recording[r].state = "draining" /\ recording[r].receiver = log.next_sequence
      BY <1>10 DEF file_drained, Drained
    <2>3. PICK x, y : x = recording[r] /\ y = [recording[r] EXCEPT !.state = state]
      OBVIOUS
    <2>4. x \in RecordingType /\ state \in States /\ Recorded(x)
      BY <1>1, <2>3 DEF Recorded, States
    <2>5. /\ y \in RecordingType /\ y.state = state /\ y.receiver = x.receiver /\ y.file = x.file
          /\ y.records = x.records /\ y.lost = x.lost /\ y.since = x.since /\ y.stop_at = x.stop_at
      BY <2>3, <2>4 DEF RecordingType
    <2>6. x.receiver >= x.stop_at /\ x.state # "failed"
      BY <1>1, <1>3, <2>2, <2>3
    <2>7. Recorded(y)
      BY <2>4, <2>5, <2>6 DEF Recorded
    <2>8. y.stop_at <= log.next_sequence /\ Becomes(r, y)
      BY <1>1, <2>1, <2>3, <2>5
    <2> QED
      BY <2>7, <2>8, BecomesKeeps
  <1>11. CASE UNCHANGED event_recording_vars
    BY <1>2, <1>11 DEF event_recording_vars
  <1>12. CASE LogSteps /\ UNCHANGED recording
    BY <1>2, <1>12
  <1> QED
    BY <1>4, <1>5, <1>6, <1>8, <1>9, <1>10, <1>11, <1>12 DEF EventRecordingNext

(* The counters and the contents of a file are exact, and a recording that *)
(* was stopped holds all that was recorded before the stop.                *)
THEOREM RecordingsAreExact == EventRecordingSpec => []RecordingExact
  <1>1. EventRecordingInit => RecordingInv
    BY RecordingInvInit
  <1>2. RecordingInv /\ [EventRecordingNext]_event_recording_vars => RecordingInv'
    BY RecordingInvStep
  <1>3. RecordingInv => RecordingExact
    <2> SUFFICES ASSUME RecordingInv PROVE RecordingExact
      OBVIOUS
    <2>1. LogExact
      BY LogIsExact DEF RecordingInv
    <2> QED
      BY <2>1 DEF RecordingInv, Recorded, RecordingExact
  <1> QED
    BY <1>1, <1>2, <1>3, PTL DEF EventRecordingSpec

-----------------------------------------------------------------------------
(* A live stream. *)

LiveAt == {"starting", "waiting", "next", "batching", "sending"}
StreamType ==
    [at : LiveAt \union {"none", "ended"}, requested : Nat, expected_sequence : Nat,
     history : Seq(Nat), receiver : Nat, pending_record : Nat \union {NoRecord},
     pending_gap : ItemType \union {NoGap}, item : ItemType, given : SUBSET Nat]

Busy(x) == x.at \in {"batching", "sending"}
Base(x) == IF Busy(x) THEN x.item.lo ELSE x.expected_sequence
Cursor(x) == IF x.pending_gap = NoGap THEN x.expected_sequence ELSE x.pending_gap.hi
Held(x) == IF Busy(x) /\ x.item.what = "records" THEN x.item.lo .. x.item.hi - 1 ELSE {}

(* What was made reaches the item in hand, the item reaches the number     *)
(* that is expected, and a gap begins there.                               *)
ItemsMeet(x, line) ==
    /\ Follows(line, x.requested, Base(x))
    /\ Busy(x) => /\ x.item.lo < x.item.hi /\ x.item.hi = x.expected_sequence
                  /\ x.item.what # "stopped"
    /\ x.at = "batching" => x.item.what = "records" /\ x.pending_gap = NoGap
    /\ x.pending_gap # NoGap => /\ x.pending_gap.what = "gap" /\ x.pending_gap.lo < x.pending_gap.hi
                                /\ x.pending_gap.lo = x.expected_sequence

(* A sequence whose elements increase, between two numbers. *)
Rising(s, low, high) ==
    /\ \A i \in DOMAIN s : low < s[i] /\ s[i] < high
    /\ \A i, j \in DOMAIN s : i < j => s[i] < s[j]

(* What is still to come is in order: the record that was set aside, then  *)
(* the history, then the channel, and none is below the cursor.            *)
ComesInOrder(x) ==
    /\ Rising(x.history, x.pending_record, x.receiver)
    /\ \A i \in DOMAIN x.history : Cursor(x) <= x.history[i]
    /\ Cursor(x) <= x.receiver /\ x.pending_record < x.receiver
    /\ x.pending_record # NoRecord => x.pending_record \in x.given /\ Cursor(x) <= x.pending_record

Live(x, line) ==
    /\ x \in StreamType
    /\ ItemsMeet(x, line)
    /\ ComesInOrder(x)
    /\ x.given \ {x.pending_record} = Numbers(line, "records") \union Held(x)

LEMMA GapIsOne == ASSUME NEW item \in ItemType PROVE item # NoGap
  <1>1. "lo" \in DOMAIN item
    BY DEF ItemType
  <1>2. DOMAIN <<>> = {}
    OBVIOUS
  <1> QED
    BY <1>1, <1>2 DEF NoGap

LEMMA StreamFields ==
    ASSUME NEW x \in StreamType
    PROVE  /\ x.requested \in Nat /\ x.expected_sequence \in Nat /\ x.history \in Seq(Nat)
           /\ x.receiver \in Nat /\ x.pending_record \in Nat \union {NoRecord}
           /\ x.pending_gap \in ItemType \union {NoGap} /\ x.item \in ItemType
           /\ x.given \in SUBSET Nat /\ x.pending_record \in Int /\ NoRecord = -1
           /\ x.item.lo \in Nat /\ x.item.hi \in Nat
           /\ (x.pending_gap # NoGap => x.pending_gap \in ItemType /\ x.pending_gap.lo \in Nat
                                        /\ x.pending_gap.hi \in Nat)
  <1>1. /\ x.requested \in Nat /\ x.expected_sequence \in Nat /\ x.history \in Seq(Nat)
        /\ x.receiver \in Nat /\ x.pending_record \in Nat \union {NoRecord}
        /\ x.pending_gap \in ItemType \union {NoGap} /\ x.item \in ItemType
        /\ x.given \in SUBSET Nat
    BY DEF StreamType
  <1>2. NoRecord = -1 /\ x.pending_record \in Int
    BY <1>1 DEF NoRecord
  <1> QED
    BY <1>1, <1>2, ItemFields

(* All that was kept is below the number that is expected. *)
LEMMA KeptBelow ==
    ASSUME NEW x, NEW line, Live(x, line), NEW k \in x.given \ {x.pending_record}
    PROVE  k \in Nat /\ k < x.expected_sequence
  <1>1. x \in StreamType /\ Follows(line, x.requested, Base(x))
    BY DEF Live, ItemsMeet
  <1>2. /\ x.expected_sequence \in Nat /\ x.item.lo \in Nat /\ x.item.hi \in Nat
    BY <1>1, StreamFields
  <1>3. Base(x) \in Nat /\ Base(x) <= x.expected_sequence
    BY <1>2 DEF Live, ItemsMeet, Base
  <1>4. CASE k \in Numbers(line, "records")
    <2>1. k \in Nat /\ k < Base(x)
      BY <1>1, <1>3, <1>4, FollowsBelow
    <2> QED
      BY <1>2, <1>3, <2>1
  <1>5. CASE k \in Held(x)
    <2>1. Busy(x) /\ k \in x.item.lo .. x.item.hi - 1
      BY <1>5 DEF Held
    <2>2. x.item.hi = x.expected_sequence
      BY <2>1 DEF Live, ItemsMeet
    <2> QED
      BY <1>2, <2>1, <2>2
  <1> QED
    BY <1>4, <1>5 DEF Live

(* The next record, taken. *)
Taken(x, y, n) ==
    /\ n \in Nat /\ x.expected_sequence <= n
    /\ y \in StreamType
    /\ y.at = x.at /\ y.requested = x.requested /\ y.expected_sequence = x.expected_sequence
    /\ y.pending_gap = x.pending_gap /\ y.item = x.item /\ y.pending_record = NoRecord
    /\ Rising(y.history, n, y.receiver) /\ n < y.receiver
    /\ n \in y.given /\ y.given \ {n} = x.given \ {x.pending_record}

LEMMA TakeNext ==
    ASSUME NEW x, NEW line, Live(x, line), x.pending_gap = NoGap, HasNext(x)
    PROVE  Taken(x, Took(x), NextRecord(x))
  <1>1. x \in StreamType /\ ComesInOrder(x) /\ Cursor(x) = x.expected_sequence
    BY DEF Live, Cursor
  <1>2. /\ x.requested \in Nat /\ x.expected_sequence \in Nat /\ x.history \in Seq(Nat)
        /\ x.receiver \in Nat /\ x.pending_record \in Nat \union {NoRecord}
        /\ x.given \in SUBSET Nat /\ x.pending_record \in Int /\ NoRecord = -1
    BY <1>1, StreamFields
  <1>3. PICK y, n : y = Took(x) /\ n = NextRecord(x)
    OBVIOUS
  <1>4. CASE x.pending_record # NoRecord
    <2>1. n = x.pending_record /\ n \in Nat /\ y = [x EXCEPT !.pending_record = NoRecord]
      BY <1>2, <1>3, <1>4 DEF NextRecord, Took
    <2>2. /\ y \in StreamType /\ y.at = x.at /\ y.requested = x.requested
          /\ y.expected_sequence = x.expected_sequence /\ y.pending_gap = x.pending_gap
          /\ y.item = x.item /\ y.pending_record = NoRecord /\ y.history = x.history
          /\ y.receiver = x.receiver /\ y.given = x.given
      BY <1>1, <2>1 DEF StreamType
    <2> QED
      BY <1>1, <1>3, <1>4, <2>1, <2>2 DEF Taken, ComesInOrder
  <1>5. ASSUME x.pending_record = NoRecord, n \in Nat, x.expected_sequence <= n
        PROVE  n \notin x.given /\ (x.given \union {n}) \ {n} = x.given \ {x.pending_record}
    <2>1. x.pending_record \notin x.given
      BY <1>2, <1>5
    <2>2. n \notin x.given
      <3> SUFFICES ASSUME n \in x.given PROVE FALSE
        OBVIOUS
      <3>1. n \in x.given \ {x.pending_record}
        BY <2>1
      <3>2. n < x.expected_sequence
        BY <3>1, KeptBelow
      <3> QED
        BY <1>2, <1>5, <3>2
    <2> QED
      BY <2>1, <2>2
  <1>6. CASE x.pending_record = NoRecord /\ x.history # <<>>
    <2>1. n = Head(x.history)
      BY <1>3, <1>6 DEF NextRecord
    <2>2. y = [x EXCEPT !.history = Tail(x.history), !.given = x.given \union {n}]
      BY <1>1, <1>3, <1>6 DEF Took, StreamType
    <2>3. PICK h, t : h = x.history /\ t = Tail(x.history)
      OBVIOUS
    <2>4. h \in Seq(Nat) /\ h # <<>>
      BY <1>2, <1>6, <2>3
    <2>5. /\ t \in Seq(Nat) /\ Len(t) = Len(h) - 1 /\ DOMAIN t = 1 .. Len(h) - 1 /\ Len(h) \in Nat \ {0}
          /\ DOMAIN h = 1 .. Len(h) /\ n = h[1] /\ \A i \in 1 .. Len(h) - 1 : t[i] = h[i + 1]
      <3>1. t = Tail(h) /\ n = Head(h)
        BY <2>1, <2>3
      <3> QED
        BY <2>4, <3>1
    <2>6. \A i \in DOMAIN t : i + 1 \in DOMAIN h /\ 1 \in DOMAIN h /\ 1 < i + 1 /\ t[i] = h[i + 1]
      BY <2>5
    <2>7. 1 \in DOMAIN h /\ h[1] \in Nat
      BY <2>4, <2>5
    <2>8. n \in Nat /\ x.expected_sequence <= n /\ n < x.receiver
      BY <1>1, <2>3, <2>5, <2>7 DEF ComesInOrder, Rising
    <2>9. /\ y \in StreamType /\ y.at = x.at /\ y.requested = x.requested
          /\ y.expected_sequence = x.expected_sequence /\ y.pending_gap = x.pending_gap
          /\ y.item = x.item /\ y.pending_record = x.pending_record /\ y.history = t
          /\ y.receiver = x.receiver /\ y.given = x.given \union {n}
      <3>1. x.given \union {n} \in SUBSET Nat /\ t \in Seq(Nat)
        BY <1>2, <2>5, <2>8
      <3> QED
        BY <1>1, <2>2, <2>3, <3>1 DEF StreamType
    <2>10. Rising(t, n, x.receiver)
      <3>1. ASSUME NEW i \in DOMAIN t PROVE n < t[i] /\ t[i] < x.receiver
        <4>1. i + 1 \in DOMAIN h /\ 1 \in DOMAIN h /\ 1 < i + 1 /\ t[i] = h[i + 1]
          BY <2>6
        <4>2. h[1] < h[i + 1] /\ h[i + 1] < x.receiver
          BY <1>1, <2>3, <4>1 DEF ComesInOrder, Rising
        <4> QED
          BY <2>5, <4>1, <4>2
      <3>2. ASSUME NEW i \in DOMAIN t, NEW j \in DOMAIN t, i < j PROVE t[i] < t[j]
        <4>1. i + 1 \in DOMAIN h /\ j + 1 \in DOMAIN h /\ t[i] = h[i + 1] /\ t[j] = h[j + 1]
          BY <2>6
        <4>2. i + 1 < j + 1
          BY <2>5, <3>2
        <4> QED
          BY <1>1, <2>3, <4>1, <4>2 DEF ComesInOrder, Rising
      <3> QED
        BY <3>1, <3>2 DEF Rising
    <2>11. (x.given \union {n}) \ {n} = x.given \ {x.pending_record}
      BY <1>5, <1>6, <2>8
    <2> QED
      BY <1>3, <1>6, <2>8, <2>9, <2>10, <2>11 DEF Taken
  <1>7. CASE x.pending_record = NoRecord /\ x.history = <<>>
    <2>1. n = x.receiver /\ n \in Nat /\ x.expected_sequence <= n
      BY <1>1, <1>2, <1>3, <1>7 DEF NextRecord, ComesInOrder
    <2>2. y = [x EXCEPT !.receiver = x.receiver + 1, !.given = x.given \union {n}]
      BY <1>1, <1>3, <1>7 DEF Took, StreamType
    <2>3. PICK m : m = x.receiver + 1
      OBVIOUS
    <2>4. m \in Nat /\ n < m /\ x.given \union {n} \in SUBSET Nat
      BY <1>2, <2>1, <2>3
    <2>5. /\ y \in StreamType /\ y.at = x.at /\ y.requested = x.requested
          /\ y.expected_sequence = x.expected_sequence /\ y.pending_gap = x.pending_gap
          /\ y.item = x.item /\ y.pending_record = x.pending_record /\ y.history = <<>>
          /\ y.receiver = m /\ y.given = x.given \union {n}
      BY <1>1, <1>7, <2>2, <2>3, <2>4 DEF StreamType
    <2>6. Rising(<<>>, n, m)
      BY DEF Rising
    <2>7. (x.given \union {n}) \ {n} = x.given \ {x.pending_record}
      BY <1>5, <1>7, <2>1
    <2> QED
      BY <1>3, <1>7, <2>1, <2>4, <2>5, <2>6, <2>7 DEF Taken
  <1> QED
    BY <1>3, <1>4, <1>6, <1>7

(* The record is set aside behind the item that is sent before it: behind  *)
(* a gap that ends at it, or behind the batch it no longer belongs to.     *)
SetAside(y, n, item) ==
    [y EXCEPT !.at = "sending", !.pending_record = n, !.item = item, !.expected_sequence = item.hi]

LEMMA RisingFields ==
    ASSUME NEW y \in StreamType, NEW n \in Nat, Rising(y.history, n, y.receiver)
    PROVE  \A i \in DOMAIN y.history :
              y.history[i] \in Nat /\ n < y.history[i] /\ n + 1 <= y.history[i] /\ NoRecord < y.history[i]
  <1>1. y.history \in Seq(Nat) /\ NoRecord = -1
    BY StreamFields
  <1>2. ASSUME NEW i \in DOMAIN y.history
        PROVE  y.history[i] \in Nat /\ n < y.history[i] /\ n + 1 <= y.history[i] /\ NoRecord < y.history[i]
    <2>1. y.history[i] \in Nat /\ n < y.history[i]
      BY <1>1 DEF Rising
    <2> QED
      BY <1>1, <2>1
  <1> QED
    BY <1>2

LEMMA SetAsideKeeps ==
    ASSUME NEW x, NEW line, Live(x, line), x.pending_gap = NoGap, NEW y, NEW n, Taken(x, y, n),
           NEW item \in ItemType, item.lo < item.hi, item.hi <= n, item.what # "stopped",
           item.lo = Base(x), Held(x) = IF item.what = "records" THEN item.lo .. item.hi - 1 ELSE {}
    PROVE  Live(SetAside(y, n, item), line)
  <1>1. PICK z : z = SetAside(y, n, item)
    OBVIOUS
  <1>2. y \in StreamType /\ n \in Nat /\ item.hi \in Nat
    BY ItemFields DEF Taken
  <1>3. /\ z \in StreamType /\ z.at = "sending" /\ z.requested = y.requested
        /\ z.expected_sequence = item.hi /\ z.pending_gap = y.pending_gap
        /\ z.item = item /\ z.pending_record = n /\ z.history = y.history
        /\ z.receiver = y.receiver /\ z.given = y.given
    BY <1>1, <1>2 DEF SetAside, StreamType, LiveAt
  <1>4. z.requested = x.requested /\ z.pending_gap = NoGap
    BY <1>3 DEF Taken
  <1>5. Busy(z) /\ Base(z) = Base(x) /\ Cursor(z) = item.hi /\ Held(z) = Held(x)
    BY <1>3, <1>4 DEF Busy, Base, Cursor, Held
  <1>6. ItemsMeet(z, line)
    BY <1>3, <1>4, <1>5 DEF Live, ItemsMeet
  <1>7. ComesInOrder(z)
    <2>1. \A i \in DOMAIN y.history : y.history[i] \in Nat /\ n < y.history[i]
      BY <1>2, RisingFields DEF Taken
    <2>2. \A i \in DOMAIN z.history : Cursor(z) <= z.history[i]
      BY <1>2, <1>3, <1>5, <2>1
    <2>3. Rising(z.history, z.pending_record, z.receiver) /\ n < y.receiver /\ n \in z.given
      BY <1>3 DEF Taken
    <2>4. y.receiver \in Nat
      BY <1>2, StreamFields
    <2>5. Cursor(z) <= z.receiver /\ z.pending_record < z.receiver
      BY <1>2, <1>3, <1>5, <2>3, <2>4
    <2> QED
      BY <1>3, <1>5, <2>2, <2>3, <2>5 DEF ComesInOrder
  <1>8. z.given \ {z.pending_record} = Numbers(line, "records") \union Held(z)
    BY <1>3, <1>5 DEF Live, Taken
  <1> QED
    BY <1>1, <1>3, <1>6, <1>7, <1>8 DEF Live

(* The record is put into the item in hand. *)
PutIn(y, n, item) ==
    [y EXCEPT !.at = "batching", !.item = item, !.expected_sequence = n + 1]

LEMMA PutInKeeps ==
    ASSUME NEW x, NEW line, Live(x, line), x.pending_gap = NoGap, NEW y, NEW n, Taken(x, y, n),
           n = x.expected_sequence,
           NEW item \in ItemType, item.lo < item.hi, item.hi = n + 1, item.what = "records",
           item.lo = Base(x), item.lo .. item.hi - 1 = Held(x) \union {n}
    PROVE  Live(PutIn(y, n, item), line)
  <1>1. PICK z, m : z = PutIn(y, n, item) /\ m = n + 1
    OBVIOUS
  <1>2. y \in StreamType /\ n \in Nat /\ m \in Nat /\ item.hi = m
    BY <1>1 DEF Taken
  <1>3. /\ z \in StreamType /\ z.at = "batching" /\ z.requested = y.requested
        /\ z.expected_sequence = m /\ z.pending_gap = y.pending_gap
        /\ z.item = item /\ z.pending_record = y.pending_record /\ z.history = y.history
        /\ z.receiver = y.receiver /\ z.given = y.given
    BY <1>1, <1>2 DEF PutIn, StreamType, LiveAt
  <1>4. z.requested = x.requested /\ z.pending_gap = NoGap /\ z.pending_record = NoRecord
    BY <1>3 DEF Taken
  <1>5. Busy(z) /\ Base(z) = Base(x) /\ Cursor(z) = m /\ Held(z) = Held(x) \union {n}
    BY <1>3, <1>4 DEF Busy, Base, Cursor, Held
  <1>6. ItemsMeet(z, line)
    BY <1>2, <1>3, <1>4, <1>5 DEF Live, ItemsMeet
  <1>7. ComesInOrder(z)
    <2>1. \A i \in DOMAIN y.history :
             y.history[i] \in Nat /\ n + 1 <= y.history[i] /\ NoRecord < y.history[i]
      BY <1>2, RisingFields DEF Taken
    <2>2. \A i \in DOMAIN z.history : Cursor(z) <= z.history[i]
      BY <1>1, <1>3, <1>5, <2>1
    <2>3. Rising(z.history, z.pending_record, z.receiver) /\ n < y.receiver
      BY <1>3, <1>4, <2>1 DEF Taken, Rising
    <2>4. y.receiver \in Nat /\ NoRecord = -1
      BY <1>2, StreamFields
    <2>5. Cursor(z) <= z.receiver /\ z.pending_record < z.receiver
      BY <1>1, <1>2, <1>3, <1>4, <1>5, <2>3, <2>4
    <2> QED
      BY <1>4, <2>2, <2>3, <2>5 DEF ComesInOrder
  <1>8. z.given \ {z.pending_record} = Numbers(line, "records") \union Held(z)
    <2>1. z.given \ {NoRecord} = z.given
      BY <1>2, <1>3, StreamFields
    <2>2. z.given = (y.given \ {n}) \union {n}
      BY <1>3 DEF Taken
    <2>3. y.given \ {n} = Numbers(line, "records") \union Held(x)
      BY DEF Live, Taken
    <2> QED
      BY <1>4, <1>5, <2>1, <2>2, <2>3
  <1> QED
    BY <1>1, <1>3, <1>6, <1>7, <1>8 DEF Live

(* LiveStream::next, up to the item it returns or begins. *)
LEMMA FirstRecordKeeps ==
    ASSUME NEW x, NEW line, Live(x, line), x.at = "next", x.pending_gap = NoGap, HasNext(x)
    PROVE  /\ Live(FirstRecord(x, NextRecord(x), Took(x)), line)
           /\ FirstRecord(x, NextRecord(x), Took(x)).at \in {"batching", "sending"}
  <1>1. PICK y, n, e : y = Took(x) /\ n = NextRecord(x) /\ e = x.expected_sequence
    OBVIOUS
  <1>2. Taken(x, y, n)
    BY <1>1, TakeNext
  <1>3. x \in StreamType /\ e \in Nat /\ n \in Nat /\ e <= n /\ y \in StreamType
    <2>1. x \in StreamType
      BY DEF Live
    <2>2. x.expected_sequence \in Nat
      BY <2>1, StreamFields
    <2> QED
      BY <1>1, <1>2, <2>1, <2>2 DEF Taken
  <1>4. ~Busy(x) /\ Base(x) = e /\ Held(x) = {}
    BY <1>1 DEF Busy, Base, Held
  <1>5. CASE n > e
    <2>1. PICK item : item = Item("gap", e, n)
      OBVIOUS
    <2>2. item \in ItemType /\ item.what = "gap" /\ item.lo = e /\ item.hi = n
      BY <1>3, <2>1, AnItem
    <2>3. FirstRecord(x, n, y) = SetAside(y, n, item)
      <3>1. FirstRecord(x, n, y)
              = Emit([y EXCEPT !.pending_record = n, !.expected_sequence = n], item)
        BY <1>1, <1>5, <2>1 DEF FirstRecord
      <3>2. @ = [y EXCEPT !.at = "sending", !.pending_record = n, !.item = item,
                          !.expected_sequence = n]
        BY <1>3 DEF Emit, StreamType
      <3> QED
        BY <2>2, <3>1, <3>2 DEF SetAside
    <2>4. Live(SetAside(y, n, item), line)
      <3>1. item.lo < item.hi /\ item.hi <= n
        BY <1>3, <1>5, <2>2
      <3>2. Held(x) = IF item.what = "records" THEN item.lo .. item.hi - 1 ELSE {}
        BY <1>4, <2>2
      <3> QED
        BY <1>2, <1>4, <2>2, <3>1, <3>2, SetAsideKeeps
    <2>5. SetAside(y, n, item).at = "sending"
      BY <1>3 DEF SetAside, StreamType
    <2> QED
      BY <1>1, <2>3, <2>4, <2>5
  <1>6. CASE n = e
    <2>1. PICK item : item = Item("records", n, n + 1)
      OBVIOUS
    <2>2. item \in ItemType /\ item.what = "records" /\ item.lo = n /\ item.hi = n + 1
      <3>1. n + 1 \in Nat
        BY <1>3
      <3> QED
        BY <1>3, <2>1, <3>1, AnItem
    <2>3. FirstRecord(x, n, y) = PutIn(y, n, item)
      <3>1. ~(n > e) /\ ~(n < e)
        BY <1>3, <1>6
      <3> QED
        BY <1>1, <2>1, <3>1 DEF FirstRecord, PutIn
    <2>4. Live(PutIn(y, n, item), line)
      <3>1. item.lo < item.hi /\ n .. (n + 1) - 1 = {n}
        BY <1>3, <2>2
      <3>2. item.lo .. item.hi - 1 = Held(x) \union {n}
        BY <1>4, <2>2, <3>1
      <3> QED
        BY <1>1, <1>2, <1>4, <1>6, <2>2, <3>1, <3>2, PutInKeeps
    <2>5. PutIn(y, n, item).at = "batching"
      BY <1>3 DEF PutIn, StreamType
    <2> QED
      BY <1>1, <2>3, <2>4, <2>5
  <1> QED
    BY <1>3, <1>5, <1>6

(* A batch grows by the record that follows, or leaves it for later. *)
Grown(y, n) == [y EXCEPT !.item.hi = n + 1, !.expected_sequence = n + 1]
Left(y, n) == [y EXCEPT !.at = "sending", !.pending_record = n]

LEMMA BatchKeeps ==
    ASSUME NEW x, NEW line, Live(x, line), x.at = "batching", HasNext(x), NEW n, n = NextRecord(x)
    PROVE  /\ n = x.expected_sequence =>
                Live(Grown(Took(x), n), line) /\ Grown(Took(x), n).at = "batching"
           /\ Live(Left(Took(x), n), line) /\ Left(Took(x), n).at = "sending"
  <1>1. PICK y, e, old : y = Took(x) /\ e = x.expected_sequence /\ old = x.item
    OBVIOUS
  <1>2. x.pending_gap = NoGap /\ old.what = "records" /\ old.lo < old.hi /\ old.hi = e /\ Busy(x)
    BY <1>1 DEF Live, ItemsMeet, Busy
  <1>3. Taken(x, y, n)
    BY <1>1, <1>2, TakeNext
  <1>4. /\ x \in StreamType /\ e \in Nat /\ n \in Nat /\ e <= n /\ y \in StreamType
        /\ old \in ItemType /\ old.lo \in Nat /\ old.hi \in Nat /\ y.item = old /\ y.at = "batching"
        /\ y.expected_sequence = e
    <2>1. x \in StreamType
      BY DEF Live
    <2>2. x.expected_sequence \in Nat /\ old \in ItemType /\ old.lo \in Nat /\ old.hi \in Nat
      BY <1>1, <2>1, StreamFields
    <2> QED
      BY <1>1, <1>3, <2>1, <2>2 DEF Taken
  <1>5. Base(x) = old.lo /\ Held(x) = old.lo .. old.hi - 1
    BY <1>1, <1>2 DEF Base, Held
  <1>6. ASSUME n = e PROVE Live(Grown(y, n), line) /\ Grown(y, n).at = "batching"
    <2>1. PICK item, z, m : /\ item = [old EXCEPT !.hi = n + 1] /\ m = n + 1
                            /\ z = Grown(y, n)
      OBVIOUS
    <2>2. m \in Nat
      BY <1>4, <2>1
    <2>3. item \in ItemType /\ item.what = "records" /\ item.lo = old.lo /\ item.hi = m
      BY <1>2, <1>4, <2>1, <2>2 DEF ItemType
    <2>4. z = PutIn(y, n, item)
      <3>1. z = [y EXCEPT !.item = [y.item EXCEPT !.hi = n + 1], !.expected_sequence = n + 1]
        BY <2>1 DEF Grown
      <3>2. z = [y EXCEPT !.item = item, !.expected_sequence = n + 1]
        BY <1>4, <2>1, <3>1
      <3>3. [y EXCEPT !.at = "batching", !.item = item, !.expected_sequence = n + 1]
               = [y EXCEPT !.item = item, !.expected_sequence = n + 1]
        BY <1>4 DEF StreamType
      <3> QED
        BY <3>2, <3>3 DEF PutIn
    <2>5. item.lo < item.hi
      BY <1>2, <1>4, <1>6, <2>1, <2>2, <2>3
    <2>6. item.lo .. item.hi - 1 = Held(x) \union {n}
      <3>1. old.lo .. m - 1 = old.lo .. n
        BY <1>4, <2>1
      <3>2. old.lo .. n = (old.lo .. n - 1) \union {n}
        BY <1>2, <1>4, <1>6
      <3> QED
        BY <1>2, <1>5, <1>6, <2>3, <3>1, <3>2
    <2>7. Live(PutIn(y, n, item), line)
      BY <1>1, <1>2, <1>3, <1>5, <1>6, <2>1, <2>3, <2>5, <2>6, PutInKeeps
    <2>8. z.at = "batching"
      BY <1>4, <2>4 DEF PutIn, StreamType
    <2> QED
      BY <2>1, <2>4, <2>7, <2>8
  <1>7. Live(Left(y, n), line) /\ Left(y, n).at = "sending"
    <2>1. PICK z : z = Left(y, n)
      OBVIOUS
    <2>2. z = SetAside(y, n, old)
      BY <1>2, <1>4, <2>1 DEF SetAside, Left, StreamType
    <2>3. Live(SetAside(y, n, old), line)
      <3>1. old.hi <= n /\ Held(x) = IF old.what = "records" THEN old.lo .. old.hi - 1 ELSE {}
        BY <1>2, <1>4, <1>5
      <3>2. old.what # "stopped"
        BY <1>2
      <3> QED
        BY <1>2, <1>3, <1>4, <1>5, <3>1, <3>2, SetAsideKeeps
    <2>4. z.at = "sending"
      BY <1>4, <2>1 DEF Left, StreamType
    <2> QED
      BY <2>1, <2>2, <2>3, <2>4
  <1> QED
    BY <1>1, <1>6, <1>7

(* The receiver has lagged: the gap begins at what is expected. *)
LEMMA LagKeeps ==
    ASSUME log.next_sequence \in Nat, NEW x, NEW line, Live(x, line), Lagging(x), x.pending_gap = NoGap,
           NEW at \in LiveAt, (x.at = "next" /\ at = "next") \/ (x.at = "batching" /\ at = "sending"),
           NEW z, z = [Lag(x) EXCEPT !.at = at]
    PROVE  Live(z, line) /\ z.at = at
  <1>1. /\ x \in StreamType /\ x.pending_record = NoRecord /\ x.history = <<>>
        /\ Lost(x.receiver) > 0
    BY DEF Live, Lagging
  <1>2. PICK e, n, lost : e = x.expected_sequence /\ n = x.receiver /\ lost = Lost(x.receiver)
    OBVIOUS
  <1>3. e \in Nat /\ n \in Nat /\ NoRecord = -1
    BY <1>1, <1>2, StreamFields
  <1>4. lost \in Nat /\ lost > 0 /\ e <= n
    BY <1>1, <1>2, <1>3, LostIs DEF Live, ComesInOrder, Cursor
  <1>5. PICK gap, m : gap = Item("gap", e, e + lost) /\ m = n + lost
    OBVIOUS
  <1>6. gap \in ItemType /\ gap.what = "gap" /\ gap.lo = e /\ gap.hi = e + lost /\ m \in Nat
    <2>1. e + lost \in Nat /\ m \in Nat
      BY <1>3, <1>4, <1>5
    <2> QED
      BY <1>3, <1>5, <2>1, AnItem
  <1>7. Lag(x) = [x EXCEPT !.receiver = m, !.pending_gap = gap]
    <2>1. FirstAvailable(x) = e + lost /\ (e + lost) - lost = e
      BY <1>2, <1>3, <1>4 DEF FirstAvailable
    <2> QED
      BY <1>1, <1>2, <1>5, <2>1 DEF Lag, StreamType
  <1>8. /\ z \in StreamType /\ z.at = at /\ z.requested = x.requested
        /\ z.expected_sequence = e /\ z.pending_gap = gap
        /\ z.item = x.item /\ z.pending_record = x.pending_record /\ z.history = x.history
        /\ z.receiver = m /\ z.given = x.given
    BY <1>1, <1>2, <1>6, <1>7 DEF StreamType
  <1>9. gap # NoGap
    BY <1>6, GapIsOne
  <1>10. Busy(z) = Busy(x) /\ Base(z) = Base(x) /\ Held(z) = Held(x) /\ Cursor(z) = e + lost
    <2>1. Busy(z) <=> Busy(x)
      BY <1>8 DEF Busy
    <2>2. Busy(z) = Busy(x)
      BY <1>8 DEF Busy
    <2> QED
      BY <1>2, <1>6, <1>8, <1>9, <2>1, <2>2 DEF Base, Held, Cursor
  <1>11. ItemsMeet(z, line)
    <2>1. z.at # "batching"
      BY <1>8
    <2>2. Follows(line, z.requested, Base(z))
      BY <1>8, <1>10 DEF Live, ItemsMeet
    <2>3. Busy(z) => z.item.lo < z.item.hi /\ z.item.hi = z.expected_sequence /\ z.item.what # "stopped"
      BY <1>2, <1>8, <1>10 DEF Live, ItemsMeet
    <2>4. z.pending_gap.what = "gap" /\ z.pending_gap.lo < z.pending_gap.hi
          /\ z.pending_gap.lo = z.expected_sequence
      BY <1>3, <1>4, <1>6, <1>8
    <2> QED
      BY <2>1, <2>2, <2>3, <2>4 DEF ItemsMeet
  <1>12. ComesInOrder(z)
    <2>1. Cursor(z) <= z.receiver /\ z.pending_record < z.receiver /\ z.pending_record = NoRecord
      BY <1>1, <1>3, <1>4, <1>5, <1>6, <1>8, <1>10
    <2>2. z.history = <<>>
      BY <1>1, <1>8
    <2>3. Rising(z.history, z.pending_record, z.receiver)
      BY <2>2 DEF Rising
    <2>4. \A i \in DOMAIN z.history : Cursor(z) <= z.history[i]
      BY <2>2
    <2> QED
      BY <2>1, <2>3, <2>4 DEF ComesInOrder
  <1>13. z.given \ {z.pending_record} = Numbers(line, "records") \union Held(z)
    BY <1>8, <1>10 DEF Live
  <1> QED
    BY <1>8, <1>11, <1>12, <1>13 DEF Live

(* Only where the task is changes. *)
LEMMA MoveKeeps ==
    ASSUME NEW x, NEW line, Live(x, line), NEW at \in LiveAt,
           \/ x.at \in {"starting", "waiting"} /\ at \in {"waiting", "next"}
           \/ x.at = "batching" /\ at = "sending",
           NEW z, z = [x EXCEPT !.at = at]
    PROVE  Live(z, line) /\ z.at = at
  <1>1. x \in StreamType
    BY DEF Live
  <1>2. /\ z \in StreamType /\ z.at = at /\ z.requested = x.requested
        /\ z.expected_sequence = x.expected_sequence /\ z.pending_gap = x.pending_gap
        /\ z.item = x.item /\ z.pending_record = x.pending_record /\ z.history = x.history
        /\ z.receiver = x.receiver /\ z.given = x.given
    BY <1>1 DEF StreamType
  <1>3. (Busy(z) <=> Busy(x)) /\ at # "batching"
    BY <1>2 DEF Busy
  <1>4. Base(z) = Base(x) /\ Held(z) = Held(x) /\ Cursor(z) = Cursor(x)
    BY <1>2, <1>3 DEF Base, Held, Cursor
  <1>5. ItemsMeet(z, line)
    BY <1>2, <1>3, <1>4 DEF Live, ItemsMeet
  <1>6. ComesInOrder(z)
    BY <1>2, <1>4 DEF Live, ComesInOrder
  <1>7. z.given \ {z.pending_record} = Numbers(line, "records") \union Held(z)
    BY <1>2, <1>4 DEF Live
  <1> QED
    BY <1>2, <1>5, <1>6, <1>7 DEF Live

(* The gap that was noted is the next item. *)
LEMMA GapKeeps ==
    ASSUME NEW x, NEW line, Live(x, line), x.at = "next", x.pending_gap # NoGap,
           NEW z, z = Emit([x EXCEPT !.pending_gap = NoGap, !.expected_sequence = x.pending_gap.hi],
                           x.pending_gap)
    PROVE  Live(z, line) /\ z.at = "sending"
  <1>1. PICK gap, n : gap = x.pending_gap /\ n = gap.hi
    OBVIOUS
  <1>2. x \in StreamType /\ gap \in ItemType /\ n \in Nat
    <2>1. x \in StreamType
      BY DEF Live
    <2> QED
      BY <1>1, <2>1, StreamFields
  <1>3. gap.what = "gap" /\ gap.lo < gap.hi /\ gap.lo = x.expected_sequence
    BY <1>1 DEF Live, ItemsMeet
  <1>4. /\ z \in StreamType /\ z.at = "sending" /\ z.requested = x.requested
        /\ z.expected_sequence = n /\ z.pending_gap = NoGap
        /\ z.item = gap /\ z.pending_record = x.pending_record /\ z.history = x.history
        /\ z.receiver = x.receiver /\ z.given = x.given
    BY <1>1, <1>2 DEF StreamType, Emit, LiveAt
  <1>5. ~Busy(x) /\ Busy(z) /\ Base(z) = Base(x) /\ Held(z) = {} /\ Held(x) = {} /\ Cursor(z) = Cursor(x)
    BY <1>1, <1>3, <1>4 DEF Busy, Base, Held, Cursor
  <1>6. ItemsMeet(z, line)
    BY <1>1, <1>3, <1>4, <1>5 DEF Live, ItemsMeet
  <1>7. ComesInOrder(z)
    BY <1>4, <1>5 DEF Live, ComesInOrder
  <1>8. z.given \ {z.pending_record} = Numbers(line, "records") \union Held(z)
    BY <1>4, <1>5 DEF Live
  <1> QED
    BY <1>4, <1>6, <1>7, <1>8 DEF Live

(* The item is handed over. *)
LEMMA HandKeeps ==
    ASSUME NEW x, NEW line, Live(x, line), x.at = "sending", NEW z, z = [x EXCEPT !.at = "next"]
    PROVE  Live(z, Append(line, x.item)) /\ z.at = "next"
  <1>1. PICK item, t : item = x.item /\ t = Append(line, item)
    OBVIOUS
  <1>2. x \in StreamType /\ item \in ItemType /\ item.lo \in Nat /\ item.hi \in Nat
    <2>1. x \in StreamType
      BY DEF Live
    <2> QED
      BY <1>1, <2>1, StreamFields
  <1>3. /\ z \in StreamType /\ z.at = "next" /\ z.requested = x.requested
        /\ z.expected_sequence = x.expected_sequence /\ z.pending_gap = x.pending_gap
        /\ z.item = x.item /\ z.pending_record = x.pending_record /\ z.history = x.history
        /\ z.receiver = x.receiver /\ z.given = x.given
    BY <1>2 DEF StreamType, LiveAt
  <1>4. /\ Busy(x) /\ ~Busy(z) /\ Base(x) = item.lo /\ Base(z) = x.expected_sequence /\ Held(z) = {}
        /\ Cursor(z) = Cursor(x)
        /\ Held(x) = IF item.what = "records" THEN item.lo .. item.hi - 1 ELSE {}
    BY <1>1, <1>3 DEF Busy, Base, Held, Cursor
  <1>5. item.lo < item.hi /\ item.hi = x.expected_sequence /\ item.what # "stopped"
        /\ Follows(line, x.requested, item.lo)
    BY <1>1, <1>4 DEF Live, ItemsMeet
  <1>6. Follows(t, x.requested, item.hi)
    BY <1>1, <1>2, <1>5, FollowsAppend
  <1>7. ItemsMeet(z, t)
    BY <1>3, <1>4, <1>5, <1>6 DEF Live, ItemsMeet
  <1>8. ComesInOrder(z)
    BY <1>3, <1>4 DEF Live, ComesInOrder
  <1>9. Numbers(t, "records") = Numbers(line, "records") \union Held(x)
    <2>1. line \in Seq(ItemType)
      BY <1>5 DEF Follows
    <2> QED
      BY <1>1, <1>2, <1>4, <2>1, NumbersAppend
  <1>10. z.given \ {z.pending_record} = Numbers(t, "records") \union Held(z)
    BY <1>3, <1>4, <1>9 DEF Live
  <1> QED
    BY <1>1, <1>3, <1>7, <1>8, <1>10 DEF Live

-----------------------------------------------------------------------------
(* The start. *)

LEMMA FromIs ==
    ASSUME NEW dump \in Seq(Nat), NEW n \in Nat, NEW next \in Nat, Rising(dump, -1, next)
    PROVE  /\ From(dump, n) \in Seq(Nat) /\ Rising(From(dump, n), -1, next)
           /\ \A i \in DOMAIN From(dump, n) : n <= From(dump, n)[i]
  <1> DEFINE S == {i \in 0 .. Len(dump) : i < Len(dump) => dump[i + 1] >= n}
  <1>1. PICK l : l = Len(dump)
    OBVIOUS
  <1>2. l \in Nat /\ DOMAIN dump = 1 .. l /\ \A i \in 1 .. l : dump[i] \in Nat
    BY <1>1
  <1>3. S \in SUBSET Nat /\ S \in SUBSET (0 .. l) /\ l \in S
    BY <1>1, <1>2
  <1>4. IsFiniteSet(S)
    <2>1. 0 \in Int /\ l \in Int
      BY <1>2
    <2>2. IsFiniteSet(0 .. l)
      BY <2>1, FS_Interval
    <2> HIDE DEF S
    <2> QED
      BY <1>3, <2>2, FS_Subset
  <1>5. Min(S) \in S
    <2> HIDE DEF S
    <2> QED
      BY <1>3, <1>4, MinIs
  <1>6. PICK k, t : k = Min(S) /\ t = From(dump, n)
    OBVIOUS
  <1>7. k \in 0 .. l /\ (k < l => dump[k + 1] >= n) /\ k \in Nat
    BY <1>1, <1>2, <1>5, <1>6
  <1>8. t = SubSeq(dump, k + 1, l)
    BY <1>1, <1>6 DEF From
  <1>9. t \in Seq(Nat) /\ DOMAIN t = 1 .. l - k /\ \A i \in 1 .. l - k : t[i] = dump[i + k]
    <2>1. PICK m : m = k + 1
      OBVIOUS
    <2>2. m \in Int /\ l \in Int /\ \A i \in m .. l : dump[i] \in Nat
      BY <1>2, <1>7, <2>1
    <2>3. PICK c : c = SubSeq(dump, m, l)
      OBVIOUS
    <2>4. /\ c \in Seq(Nat) /\ Len(c) = (IF m <= l THEN l - m + 1 ELSE 0)
          /\ \A i \in 1 .. l - m + 1 : c[i] = dump[m + i - 1]
      BY <2>2, <2>3, SubSeqProperties
    <2>5. l - m + 1 = l - k /\ (m <= l \/ l - k = 0)
      BY <1>2, <1>7, <2>1
    <2>6. Len(c) = l - k
      BY <1>2, <1>7, <2>1, <2>4, <2>5
    <2>7. \A i \in 1 .. l - k : c[i] = dump[i + k]
      BY <1>2, <1>7, <2>1, <2>4, <2>5
    <2> QED
      BY <1>8, <2>1, <2>3, <2>4, <2>6, <2>7
  <1>10. \A i \in 1 .. l - k : i + k \in 1 .. l /\ k + 1 \in 1 .. l /\ k < l /\ k + 1 <= i + k
    BY <1>2, <1>7
  <1>11. \A i \in 1 .. l - k : n <= t[i] /\ -1 < t[i] /\ t[i] < next
    <2>1. ASSUME NEW i \in 1 .. l - k PROVE n <= t[i] /\ -1 < t[i] /\ t[i] < next
      <3>1. i + k \in 1 .. l /\ k + 1 \in 1 .. l /\ k < l /\ k + 1 <= i + k /\ t[i] = dump[i + k]
        BY <1>9, <1>10
      <3>2. k + 1 = i + k \/ k + 1 < i + k
        BY <1>2, <1>7, <3>1
      <3>3. dump[k + 1] <= dump[i + k] /\ -1 < dump[i + k] /\ dump[i + k] < next
        BY <1>2, <3>1, <3>2 DEF Rising
      <3>4. dump[k + 1] \in Nat /\ dump[i + k] \in Nat /\ dump[k + 1] >= n
        BY <1>2, <1>7, <3>1
      <3> QED
        BY <3>1, <3>3, <3>4
    <2> QED
      BY <2>1
  <1>12. \A i, j \in 1 .. l - k : i < j => t[i] < t[j]
    <2>1. ASSUME NEW i \in 1 .. l - k, NEW j \in 1 .. l - k, i < j PROVE t[i] < t[j]
      <3>1. i + k \in 1 .. l /\ j + k \in 1 .. l /\ t[i] = dump[i + k] /\ t[j] = dump[j + k]
        BY <1>9, <1>10
      <3>2. i + k < j + k
        BY <1>2, <1>7, <2>1
      <3> QED
        BY <1>2, <3>1, <3>2 DEF Rising
    <2> QED
      BY <2>1
  <1> QED
    BY <1>6, <1>9, <1>11, <1>12 DEF Rising

(* start_stream: the snapshot and the channel meet, and the gap before     *)
(* what is retained begins where the client asked.                         *)
Started(dump, requested) ==
    LET next == log.next_sequence
        records == From(dump, requested)
        first_sequence == IF records = <<>> THEN next ELSE Head(records)
    IN  [NotStarted EXCEPT
            !.at = "starting", !.requested = requested, !.expected_sequence = requested,
            !.history = records, !.receiver = next,
            !.pending_gap = IF requested < first_sequence
                            THEN Item("gap", requested, first_sequence) ELSE NoGap]

LEMMA NotStartedIs == NotStarted \in StreamType
  <1>1. Stopped \in ItemType
    BY AnItem DEF Stopped
  <1>2. <<>> \in Seq(Nat)
    OBVIOUS
  <1> QED
    BY <1>1, <1>2 DEF NotStarted, StreamType, LiveAt

LEMMA StartedLive ==
    ASSUME log.next_sequence \in Nat, NEW dump \in Seq(Nat), Rising(dump, -1, log.next_sequence),
           NEW requested \in Nat, requested <= log.next_sequence
    PROVE  Live(Started(dump, requested), <<>>) /\ Started(dump, requested).at = "starting"
  <1>1. PICK next, records : next = log.next_sequence /\ records = From(dump, requested)
    OBVIOUS
  <1>2. PICK first : first = IF records = <<>> THEN next ELSE Head(records)
    OBVIOUS
  <1>3. next \in Nat
    BY <1>1
  <1>4. records \in Seq(Nat) /\ Rising(records, -1, next) /\ \A i \in DOMAIN records : requested <= records[i]
    BY <1>1, <1>3, FromIs
  <1>5. /\ first \in Nat /\ requested <= first /\ first <= next
        /\ \A i \in DOMAIN records : first <= records[i]
    <2>1. CASE records = <<>>
      BY <1>1, <1>2, <1>3, <2>1
    <2>2. CASE records # <<>>
      <3>1. first = records[1] /\ 1 \in DOMAIN records /\ DOMAIN records = 1 .. Len(records)
            /\ \A i \in DOMAIN records : records[i] \in Nat
        BY <1>2, <1>4, <2>2
      <3>2. first \in Nat /\ requested <= first /\ first < next
        BY <1>4, <3>1 DEF Rising
      <3>3. \A i \in DOMAIN records : i = 1 \/ 1 < i
        BY <1>4, <3>1
      <3>4. \A i \in DOMAIN records : first <= records[i]
        <4>1. ASSUME NEW i \in DOMAIN records PROVE first <= records[i]
          <5>1. CASE i = 1
            BY <3>1, <3>2, <5>1
          <5>2. CASE 1 < i
            <6>1. records[1] < records[i]
              BY <1>4, <3>1, <5>2 DEF Rising
            <6>2. records[i] \in Nat
              BY <3>1
            <6> QED
              BY <3>1, <3>2, <6>1, <6>2
          <5> QED
            BY <3>3, <5>1, <5>2
        <4> QED
          BY <4>1
      <3> QED
        BY <1>3, <3>2, <3>4
    <2> QED
      BY <2>1, <2>2
  <1>6. PICK gap : gap = IF requested < first THEN Item("gap", requested, first) ELSE NoGap
    OBVIOUS
  <1>7. PICK z : z = Started(dump, requested)
    OBVIOUS
  <1>8. z = [NotStarted EXCEPT
               !.at = "starting", !.requested = requested, !.expected_sequence = requested,
               !.history = records, !.receiver = next, !.pending_gap = gap]
    BY <1>1, <1>2, <1>6, <1>7 DEF Started
  <1>9. gap \in ItemType \union {NoGap}
    BY <1>5, <1>6, AnItem
  <1>10. NotStarted \in StreamType /\ NotStarted.pending_record = NoRecord /\ NotStarted.given = {}
    BY NotStartedIs DEF NotStarted
  <1>11. /\ z \in StreamType /\ z.at = "starting" /\ z.requested = requested
         /\ z.expected_sequence = requested /\ z.pending_gap = gap
         /\ z.pending_record = NoRecord /\ z.history = records
         /\ z.receiver = next /\ z.given = {}
    BY <1>3, <1>4, <1>8, <1>9, <1>10 DEF StreamType, LiveAt
  <1>12. ~Busy(z) /\ Base(z) = requested /\ Held(z) = {}
    BY <1>11 DEF Busy, Base, Held
  <1>13. gap # NoGap => gap.what = "gap" /\ gap.lo < gap.hi /\ gap.lo = requested /\ gap.hi = first
    BY <1>5, <1>6, AnItem
  <1>14. Cursor(z) = first
    <2>1. CASE requested < first
      <3>1. gap # NoGap
        BY <1>5, <1>6, <2>1, AnItem, GapIsOne
      <3> QED
        BY <1>11, <1>13, <3>1 DEF Cursor
    <2>2. CASE ~(requested < first)
      <3>1. gap = NoGap /\ requested = first
        BY <1>5, <1>6, <2>2
      <3> QED
        BY <1>11, <3>1 DEF Cursor
    <2> QED
      BY <2>1, <2>2
  <1>15. ItemsMeet(z, <<>>)
    BY <1>11, <1>12, <1>13, NothingFollows DEF ItemsMeet
  <1>16. ComesInOrder(z)
    <2>1. NoRecord = -1 /\ z.pending_record < z.receiver /\ Rising(z.history, z.pending_record, z.receiver)
      BY <1>3, <1>4, <1>11 DEF NoRecord
    <2> QED
      BY <1>5, <1>11, <1>14, <2>1 DEF ComesInOrder
  <1>17. z.given \ {z.pending_record} = Numbers(<<>>, "records") \union Held(z)
    BY <1>11, <1>12, NoNumbers
  <1> QED
    BY <1>7, <1>11, <1>15, <1>16, <1>17 DEF Live

LEMMA DumpRises ==
    ASSUME LogInv
    PROVE  Dump \in Seq(Nat) /\ Rising(Dump, -1, log.next_sequence)
  <1>1. PICK next, kept, dump : next = log.next_sequence /\ kept = log.ring.kept /\ dump = Dump
    OBVIOUS
  <1>2. next \in Nat /\ kept \in Seq(Record) /\ Ordered(kept, next)
    BY <1>1 DEF LogInv, Rings, RingType
  <1>3. /\ DOMAIN kept = 1 .. Len(kept) /\ Len(kept) \in Nat
        /\ \A i \in DOMAIN kept : kept[i].sequence \in Nat
    <2>1. \A x \in Record : x.sequence \in Nat
      BY DEF Record
    <2> QED
      BY <1>2, <2>1, SizesAre
  <1>4. dump = [i \in DOMAIN kept |-> kept[i].sequence]
    BY <1>1 DEF Dump
  <1>5. DOMAIN dump = DOMAIN kept /\ \A i \in DOMAIN kept : dump[i] = kept[i].sequence
    BY <1>4
  <1>6. dump \in Seq(Nat)
    <2>1. dump \in [1 .. Len(kept) -> Nat]
      BY <1>3, <1>4
    <2> QED
      BY <1>3, <2>1
  <1>7. \A i \in DOMAIN dump : -1 < dump[i] /\ dump[i] < next
    BY <1>2, <1>3, <1>5 DEF Ordered
  <1>8. \A i, j \in DOMAIN dump : i < j => dump[i] < dump[j]
    BY <1>2, <1>5 DEF Ordered
  <1> QED
    BY <1>1, <1>6, <1>7, <1>8 DEF Rising

-----------------------------------------------------------------------------
(* What is on its way and what was sent are one line. *)

LEMMA EmptyBehind == ASSUME NEW s \in Seq(ItemType) PROVE s \o <<>> = s
  OBVIOUS

LEMMA OneBehind ==
    ASSUME NEW s \in Seq(ItemType), NEW item \in ItemType
    PROVE  s \o <<item>> = Append(s, item)
  OBVIOUS

LEMMA AppendBehind ==
    ASSUME NEW t \in Seq(ItemType), NEW i \in Seq(ItemType), NEW item \in ItemType
    PROVE  t \o Append(i, item) = Append(t \o i, item)
  <1>1. PICK a, b : a = t \o Append(i, item) /\ b = Append(t \o i, item)
    OBVIOUS
  <1>2. a \in Seq(ItemType) /\ b \in Seq(ItemType) /\ Len(a) = Len(t) + Len(i) + 1 /\ Len(b) = Len(a)
    BY <1>1
  <1>3. \A k \in 1 .. Len(a) : a[k] = b[k]
    BY <1>1, <1>2
  <1> QED
    BY <1>1, <1>2, <1>3, SeqEqual

LEMMA HeadMoves ==
    ASSUME NEW t \in Seq(ItemType), NEW i \in Seq(ItemType), i # <<>>
    PROVE  /\ Head(i) \in ItemType /\ Tail(i) \in Seq(ItemType) /\ Append(t, Head(i)) \in Seq(ItemType)
           /\ Append(t, Head(i)) \o Tail(i) = t \o i
  <1>1. PICK h, r : h = Head(i) /\ r = Tail(i)
    OBVIOUS
  <1>2. h \in ItemType /\ r \in Seq(ItemType) /\ <<h>> \in Seq(ItemType)
    BY <1>1
  <1>3. <<h>> \o r = i
    <2>1. PICK a : a = <<h>> \o r
      OBVIOUS
    <2>2. a \in Seq(ItemType) /\ Len(a) = Len(i) /\ a[1] = h /\ \A k \in 2 .. Len(i) : a[k] = r[k - 1]
      BY <1>1, <1>2, <2>1
    <2>3. \A k \in 1 .. Len(a) : a[k] = i[k]
      BY <1>1, <1>2, <2>2
    <2> QED
      BY <2>1, <2>2, <2>3, SeqEqual
  <1>4. Append(t, h) = t \o <<h>> /\ Append(t, h) \in Seq(ItemType)
    BY <1>2, OneBehind
  <1>5. (t \o <<h>>) \o r = t \o (<<h>> \o r)
    BY <1>2, ConcatAssociative
  <1> QED
    BY <1>1, <1>2, <1>3, <1>4, <1>5

(* The items made for a live stream are exact. *)
LEMMA LiveIsExact ==
    ASSUME NEW x, NEW line, Live(x, line), NEW made,
           made = line \o (IF Busy(x) THEN <<x.item>> ELSE <<>>)
                       \o (IF x.pending_gap = NoGap THEN <<>> ELSE <<x.pending_gap>>)
    PROVE  /\ Follows(made, x.requested, Cursor(x))
           /\ x.given \ {x.pending_record} = Numbers(made, "records")
           /\ x.pending_record \notin Numbers(made, "gap")
  <1>1. x \in StreamType /\ line \in Seq(ItemType)
    BY DEF Live, ItemsMeet, Follows
  <1>2. /\ x.expected_sequence \in Nat /\ x.item \in ItemType /\ x.item.lo \in Nat /\ x.item.hi \in Nat
        /\ x.pending_record \in Int /\ NoRecord = -1
        /\ (x.pending_gap # NoGap => x.pending_gap \in ItemType /\ x.pending_gap.lo \in Nat
                                     /\ x.pending_gap.hi \in Nat)
    BY <1>1, StreamFields
  <1>3. PICK a : a = line \o (IF Busy(x) THEN <<x.item>> ELSE <<>>)
    OBVIOUS
  <1>4. /\ Follows(a, x.requested, x.expected_sequence)
        /\ Numbers(a, "records") = Numbers(line, "records") \union Held(x)
    <2>1. CASE Busy(x)
      <3>1. a = Append(line, x.item)
        BY <1>1, <1>2, <1>3, <2>1, OneBehind
      <3>2. x.item.lo < x.item.hi /\ x.item.hi = x.expected_sequence /\ x.item.what # "stopped"
            /\ Follows(line, x.requested, x.item.lo)
        BY <2>1 DEF Live, ItemsMeet, Base
      <3>3. Follows(a, x.requested, x.expected_sequence)
        BY <1>2, <3>1, <3>2, FollowsAppend
      <3>4. Held(x) = IF x.item.what = "records" THEN x.item.lo .. x.item.hi - 1 ELSE {}
        BY <2>1 DEF Held
      <3> QED
        BY <1>1, <1>2, <3>1, <3>3, <3>4, NumbersAppend
    <2>2. CASE ~Busy(x)
      <3>1. a = line
        BY <1>1, <1>3, <2>2, EmptyBehind
      <3> QED
        BY <2>2, <3>1 DEF Live, ItemsMeet, Base, Held
    <2> QED
      BY <2>1, <2>2
  <1>5. a \in Seq(ItemType)
    BY <1>4 DEF Follows
  <1>6. Follows(made, x.requested, Cursor(x)) /\ Numbers(made, "records") = Numbers(a, "records")
    <2>1. CASE x.pending_gap # NoGap
      <3>1. made = Append(a, x.pending_gap)
        BY <1>2, <1>3, <1>5, <2>1, OneBehind
      <3>2. x.pending_gap.what = "gap" /\ x.pending_gap.lo < x.pending_gap.hi
            /\ x.pending_gap.lo = x.expected_sequence /\ Cursor(x) = x.pending_gap.hi
        BY <2>1 DEF Live, ItemsMeet, Cursor
      <3>3. Follows(made, x.requested, Cursor(x))
        <4>1. PICK gap : gap = x.pending_gap
          OBVIOUS
        <4>2. gap \in ItemType /\ gap.lo = x.expected_sequence /\ gap.lo < gap.hi
              /\ gap.what # "stopped" /\ gap.lo \in Nat
          BY <1>2, <2>1, <3>2, <4>1
        <4>3. Follows(a, x.requested, gap.lo)
          BY <1>4, <4>2
        <4>4. Follows(Append(a, gap), x.requested, gap.hi)
          BY <4>2, <4>3, FollowsAppend
        <4> QED
          BY <3>1, <3>2, <4>1, <4>4
      <3>4. Numbers(made, "records") = Numbers(a, "records")
        <4>1. PICK gap : gap = x.pending_gap
          OBVIOUS
        <4>2. gap \in ItemType /\ gap.what # "records"
          BY <1>2, <2>1, <3>2, <4>1
        <4>3. Numbers(Append(a, gap), "records") = Numbers(a, "records") \union {}
          BY <1>5, <4>2, NumbersAppend
        <4> QED
          BY <3>1, <4>1, <4>3
      <3> QED
        BY <3>3, <3>4
    <2>2. CASE x.pending_gap = NoGap
      <3>1. made = a
        BY <1>3, <1>5, <2>2, EmptyBehind
      <3> QED
        BY <1>4, <2>2, <3>1 DEF Cursor
    <2> QED
      BY <2>1, <2>2
  <1>7. Cursor(x) \in Nat
    BY <1>2 DEF Cursor
  <1>8. x.pending_record \notin Numbers(made, "gap")
    <2> SUFFICES ASSUME x.pending_record \in Numbers(made, "gap") PROVE FALSE
      OBVIOUS
    <2>1. x.pending_record \in Nat /\ x.pending_record < Cursor(x)
      BY <1>6, <1>7, FollowsBelow
    <2>2. x.pending_record # NoRecord
      BY <1>2, <2>1
    <2>3. Cursor(x) <= x.pending_record
      BY <2>2 DEF Live, ComesInOrder
    <2> QED
      BY <1>7, <2>1, <2>3
  <1> QED
    BY <1>4, <1>6, <1>8 DEF Live

-----------------------------------------------------------------------------
(* The streams of a session. *)

RegisteredAt == {"waiting", "next", "batching", "sending"}

StoppedLast(t) == \A i \in 1 .. Len(t) - 1 : t[i] # Stopped

Following(x, i, t) ==
    /\ x \in StreamType /\ i \in Seq(ItemType) /\ t \in Seq(ItemType)
    /\ x.at \in {"none", "starting"} => i = <<>> /\ t = <<>>
    /\ x.at \in LiveAt => Live(x, t \o i)
    /\ StoppedLast(t)

StreamInv ==
    /\ LogInv
    /\ stream \in [Followers -> StreamType]
    /\ internal \in [Followers -> Seq(ItemType)] /\ told \in [Followers -> Seq(ItemType)]
    /\ registered \subseteq Followers
    /\ \A s \in Followers : /\ s \in registered <=> stream[s].at \in RegisteredAt
                            /\ Following(stream[s], internal[s], told[s])

LEMMA StreamInvInit == EventStreamInit => StreamInv
  <1> SUFFICES ASSUME EventStreamInit PROVE StreamInv
    OBVIOUS
  <1>1. LogInv
    BY LogInvInit DEF EventStreamInit
  <1>2. NotStarted \in StreamType /\ NotStarted.at = "none" /\ <<>> \in Seq(ItemType)
    BY NotStartedIs DEF NotStarted
  <1>3. stream \in [Followers -> StreamType] /\ \A s \in Followers : stream[s] = NotStarted
    BY <1>2 DEF EventStreamInit
  <1>4. /\ internal \in [Followers -> Seq(ItemType)] /\ told \in [Followers -> Seq(ItemType)]
        /\ \A s \in Followers : internal[s] = <<>> /\ told[s] = <<>>
    BY <1>2 DEF EventStreamInit
  <1>5. StoppedLast(<<>>)
    BY DEF StoppedLast
  <1>6. Following(NotStarted, <<>>, <<>>)
    BY <1>2, <1>5 DEF Following, LiveAt
  <1>7. registered = {} /\ NotStarted.at \notin RegisteredAt
    BY <1>2 DEF EventStreamInit, RegisteredAt
  <1> QED
    BY <1>1, <1>3, <1>4, <1>6, <1>7 DEF StreamInv

(* A step of one stream. *)
LEMMA OneStreamKeeps ==
    ASSUME StreamInv, NEW s \in Followers, log' = log, NEW y, NEW i, NEW t, Following(y, i, t),
           stream' = [stream EXCEPT ![s] = y], internal' = [internal EXCEPT ![s] = i],
           told' = [told EXCEPT ![s] = t],
           registered' \subseteq Followers, s \in registered' <=> y.at \in RegisteredAt,
           \A q \in Followers : q # s => (q \in registered' <=> q \in registered)
    PROVE  StreamInv'
  <1>1. LogInv'
    BY DEF StreamInv, LogInv
  <1>2. y \in StreamType /\ i \in Seq(ItemType) /\ t \in Seq(ItemType)
    BY DEF Following
  <1>3. /\ stream' \in [Followers -> StreamType]
        /\ \A q \in Followers : stream'[q] = IF q = s THEN y ELSE stream[q]
    BY <1>2 DEF StreamInv
  <1>4. /\ internal' \in [Followers -> Seq(ItemType)]
        /\ \A q \in Followers : internal'[q] = IF q = s THEN i ELSE internal[q]
    BY <1>2 DEF StreamInv
  <1>5. /\ told' \in [Followers -> Seq(ItemType)]
        /\ \A q \in Followers : told'[q] = IF q = s THEN t ELSE told[q]
    BY <1>2 DEF StreamInv
  <1>6. ASSUME NEW q \in Followers
        PROVE  /\ q \in registered' <=> stream'[q].at \in RegisteredAt
               /\ Following(stream'[q], internal'[q], told'[q])
    <2>1. CASE q = s
      BY <1>3, <1>4, <1>5, <2>1
    <2>2. CASE q # s
      BY <1>3, <1>4, <1>5, <2>2 DEF StreamInv
    <2> QED
      BY <2>1, <2>2
  <1>7. \A q \in Followers : Following(stream[q], internal[q], told[q])'
    BY <1>6 DEF Following
  <1> QED
    BY <1>1, <1>3, <1>4, <1>5, <1>6, <1>7 DEF StreamInv

(* A step of the task alone. *)
LEMMA TaskKeeps ==
    ASSUME StreamInv, NEW s \in Followers, NEW y, Step(s, y), internal' = internal, told' = told,
           y \in StreamType,
           stream[s].at = "starting" => y.at # "none",
           y.at \in {"none", "starting"} => stream[s].at \in {"none", "starting"},
           y.at \in LiveAt => Live(y, told[s] \o internal[s]),
           registered' \subseteq Followers, s \in registered' <=> y.at \in RegisteredAt,
           \A q \in Followers : q # s => (q \in registered' <=> q \in registered)
    PROVE  StreamInv'
  <1>1. PICK i, t : i = internal[s] /\ t = told[s]
    OBVIOUS
  <1>2. Following(stream[s], i, t)
    BY <1>1 DEF StreamInv
  <1>3. Following(y, i, t)
    BY <1>1, <1>2 DEF Following
  <1>4. internal' = [internal EXCEPT ![s] = i] /\ told' = [told EXCEPT ![s] = t]
    <2>1. internal = [internal EXCEPT ![s] = internal[s]] /\ told = [told EXCEPT ![s] = told[s]]
      BY DEF StreamInv
    <2> QED
      BY <1>1, <2>1
  <1>5. log' = log /\ stream' = [stream EXCEPT ![s] = y]
    BY DEF Step
  <1> QED
    BY <1>3, <1>4, <1>5, OneStreamKeeps

(* One that leaves the registry alone and stays a registered, live stream. *)
LEMMA LiveTaskKeeps ==
    ASSUME StreamInv, NEW s \in Followers, NEW y, Step(s, y), UNCHANGED stream_state,
           stream[s].at \in RegisteredAt, y.at \in RegisteredAt,
           Live(y, told[s] \o internal[s])
    PROVE  StreamInv'
  <1>1. registered' = registered /\ internal' = internal /\ told' = told
    BY DEF stream_state
  <1>2. y \in StreamType /\ stream[s].at # "starting" /\ y.at \notin {"none", "starting"}
    BY DEF Live, RegisteredAt
  <1>3. registered' \subseteq Followers /\ (s \in registered' <=> y.at \in RegisteredAt)
    BY <1>1 DEF StreamInv
  <1> QED
    BY <1>1, <1>2, <1>3, TaskKeeps

LEMMA LiveNow ==
    ASSUME StreamInv, NEW s \in Followers, stream[s].at \in LiveAt
    PROVE  /\ Live(stream[s], told[s] \o internal[s]) /\ stream[s] \in StreamType
           /\ log.next_sequence \in Nat
  BY DEF StreamInv, Following, LogInv

LEMMA StartKeeps ==
    ASSUME StreamInv, NEW s \in Followers, NEW history \in BOOLEAN, NEW start \in 0 .. MaxEvents,
           start_stream(s, history, start)
    PROVE  StreamInv'
  <1>1. PICK next, dump : next = log.next_sequence /\ dump = IF history THEN Dump ELSE <<>>
    OBVIOUS
  <1>2. PICK oldest : oldest = IF dump = <<>> THEN next ELSE Head(dump)
    OBVIOUS
  <1>3. PICK requested : requested = IF history /\ start # 0 THEN start ELSE oldest
    OBVIOUS
  <1>4. LogInv /\ next \in Nat /\ start \in Nat
    <2>1. MaxEvents \in Nat
      BY EventLogAssumption
    <2> QED
      BY <1>1, <2>1 DEF StreamInv, LogInv
  <1>5. dump \in Seq(Nat) /\ Rising(dump, -1, next)
    <2>1. CASE history
      BY <1>1, <1>4, <2>1, DumpRises
    <2>2. CASE ~history
      <3>1. dump = <<>>
        BY <1>1, <2>2
      <3> QED
        BY <3>1 DEF Rising
    <2> QED
      BY <2>1, <2>2
  <1>6. oldest \in Nat /\ oldest <= next
    <2>1. CASE dump = <<>>
      BY <1>2, <1>4, <2>1
    <2>2. CASE dump # <<>>
      <3>1. 1 \in DOMAIN dump /\ dump[1] \in Nat /\ oldest = dump[1]
        BY <1>2, <1>5, <2>2
      <3> QED
        BY <1>4, <1>5, <3>1 DEF Rising
    <2> QED
      BY <2>1, <2>2
  <1>7. stream[s].at = "none" /\ start <= next /\ UNCHANGED stream_state
    BY <1>1 DEF start_stream, TaskAt
  <1>8. requested \in Nat /\ requested <= next
    BY <1>3, <1>4, <1>6, <1>7
  <1>9. PICK y : y = Started(dump, requested)
    OBVIOUS
  <1>10. Step(s, y)
    BY <1>1, <1>2, <1>3, <1>9, Zenon DEF start_stream, Started
  <1>11. Live(y, <<>>) /\ y.at = "starting"
    BY <1>1, <1>4, <1>5, <1>8, <1>9, StartedLive
  <1>12. internal[s] = <<>> /\ told[s] = <<>>
    BY <1>7 DEF StreamInv, Following
  <1>13. Live(y, told[s] \o internal[s]) /\ y \in StreamType
    <2>1. <<>> \o <<>> = <<>>
      OBVIOUS
    <2> QED
      BY <1>11, <1>12, <2>1 DEF Live
  <1>14. /\ registered' = registered /\ internal' = internal /\ told' = told
         /\ registered \subseteq Followers /\ s \notin registered /\ y.at \notin RegisteredAt
    BY <1>7, <1>11 DEF stream_state, StreamInv, RegisteredAt
  <1> QED
    BY <1>7, <1>10, <1>11, <1>13, <1>14, TaskKeeps

(* The task ends, and the stream is no longer registered. *)
LEMMA EndKeeps ==
    ASSUME StreamInv, NEW s \in Followers, Step(s, [stream[s] EXCEPT !.at = "ended"]),
           registered' = registered \ {s}, internal' = internal, told' = told
    PROVE  StreamInv'
  <1>1. PICK y : y = [stream[s] EXCEPT !.at = "ended"]
    OBVIOUS
  <1>2. stream[s] \in StreamType
    BY DEF StreamInv
  <1>3. y \in StreamType /\ y.at = "ended"
    BY <1>1, <1>2 DEF StreamType
  <1>4. /\ registered' \subseteq Followers /\ s \notin registered'
        /\ \A q \in Followers : q # s => (q \in registered' <=> q \in registered)
    BY DEF StreamInv
  <1>5. y.at \notin RegisteredAt /\ y.at \notin LiveAt /\ y.at \notin {"none", "starting"} /\ y.at # "none"
    BY <1>3 DEF RegisteredAt, LiveAt
  <1>6. Step(s, y)
    BY <1>1
  <1> QED
    BY <1>3, <1>4, <1>5, <1>6, TaskKeeps

LEMMA StartCompleteKeeps ==
    ASSUME StreamInv, NEW s \in Followers, start_complete(s)
    PROVE  StreamInv'
  <1>1. stream[s].at = "starting" /\ internal' = internal /\ told' = told
    BY DEF start_complete, TaskAt
  <1>2. s \notin registered /\ registered \subseteq Followers
    BY <1>1 DEF StreamInv, RegisteredAt
  <1>3. CASE Step(s, [stream[s] EXCEPT !.at = "waiting"]) /\ registered' = registered \union {s}
    <2>1. PICK y : y = [stream[s] EXCEPT !.at = "waiting"]
      OBVIOUS
    <2>2. stream[s].at \in LiveAt /\ "waiting" \in LiveAt /\ "waiting" \in RegisteredAt
      BY <1>1 DEF LiveAt, RegisteredAt
    <2>3. Live(stream[s], told[s] \o internal[s])
      BY <2>2, LiveNow
    <2>4. Live(y, told[s] \o internal[s]) /\ y.at = "waiting"
      BY <1>1, <2>1, <2>2, <2>3, MoveKeeps
    <2>5. y \in StreamType /\ Step(s, y)
      BY <1>3, <2>1, <2>4 DEF Live
    <2>6. /\ registered' \subseteq Followers /\ s \in registered'
          /\ \A q \in Followers : q # s => (q \in registered' <=> q \in registered)
      BY <1>2, <1>3
    <2> QED
      BY <1>1, <2>2, <2>4, <2>5, <2>6, TaskKeeps
  <1>4. CASE Step(s, [stream[s] EXCEPT !.at = "ended"]) /\ UNCHANGED registered
    <2>1. registered' = registered \ {s}
      BY <1>2, <1>4
    <2> QED
      BY <1>1, <1>4, <2>1, EndKeeps
  <1> QED
    BY <1>3, <1>4 DEF start_complete

LEMMA PublicationKeeps ==
    ASSUME StreamInv, NEW s \in Followers, publication_complete(s)
    PROVE  StreamInv'
  <1>1. stream[s].at = "waiting" /\ internal' = internal /\ told' = told
    BY DEF publication_complete, TaskAt
  <1>2. CASE Step(s, [stream[s] EXCEPT !.at = "next"]) /\ UNCHANGED registered
    <2>1. PICK y : y = [stream[s] EXCEPT !.at = "next"]
      OBVIOUS
    <2>2. stream[s].at \in LiveAt /\ "next" \in LiveAt /\ "next" \in RegisteredAt
          /\ stream[s].at \in RegisteredAt
      BY <1>1 DEF LiveAt, RegisteredAt
    <2>3. Live(stream[s], told[s] \o internal[s])
      BY <2>2, LiveNow
    <2>4. Live(y, told[s] \o internal[s]) /\ y.at = "next"
      BY <1>1, <2>1, <2>2, <2>3, MoveKeeps
    <2>5. Step(s, y) /\ UNCHANGED stream_state
      BY <1>1, <1>2, <2>1 DEF stream_state
    <2> QED
      BY <2>2, <2>4, <2>5, LiveTaskKeeps
  <1>3. CASE Step(s, [stream[s] EXCEPT !.at = "ended"]) /\ registered' = registered \ {s}
    BY <1>1, <1>3, EndKeeps
  <1> QED
    BY <1>2, <1>3 DEF publication_complete

LEMMA NextGapKeeps ==
    ASSUME StreamInv, NEW s \in Followers, next_gap(s)
    PROVE  StreamInv'
  <1>1. PICK x, y : /\ x = stream[s]
                    /\ y = Emit([x EXCEPT !.pending_gap = NoGap, !.expected_sequence = x.pending_gap.hi],
                                x.pending_gap)
    OBVIOUS
  <1>2. x.at = "next" /\ x.pending_gap # NoGap /\ Step(s, y) /\ UNCHANGED stream_state
    BY <1>1, Zenon DEF next_gap, TaskAt
  <1>3. x.at \in LiveAt /\ x.at \in RegisteredAt /\ "sending" \in RegisteredAt
    BY <1>2 DEF LiveAt, RegisteredAt
  <1>4. Live(x, told[s] \o internal[s])
    BY <1>1, <1>3, LiveNow
  <1>5. Live(y, told[s] \o internal[s]) /\ y.at = "sending"
    BY <1>1, <1>2, <1>4, GapKeeps
  <1> QED
    BY <1>1, <1>2, <1>3, <1>5, LiveTaskKeeps

LEMMA NextLaggedKeeps ==
    ASSUME StreamInv, NEW s \in Followers, next_lagged(s)
    PROVE  StreamInv'
  <1>1. PICK x, y, z : x = stream[s] /\ y = Lag(x) /\ z = [Lag(x) EXCEPT !.at = "next"]
    OBVIOUS
  <1>2. x.at = "next" /\ x.pending_gap = NoGap /\ Lagging(x) /\ Step(s, y) /\ UNCHANGED stream_state
    BY <1>1, Zenon DEF next_lagged, TaskAt
  <1>3. x.at \in LiveAt /\ x.at \in RegisteredAt /\ "next" \in LiveAt
    BY <1>2 DEF LiveAt, RegisteredAt
  <1>4. Live(x, told[s] \o internal[s]) /\ x \in StreamType /\ log.next_sequence \in Nat
    BY <1>1, <1>3, LiveNow
  <1>5. Live(z, told[s] \o internal[s]) /\ z.at = "next"
    BY <1>1, <1>2, <1>3, <1>4, LagKeeps
  <1>6. z = y
    <2>1. PICK a, b : y = [x EXCEPT !.receiver = a, !.pending_gap = b]
      BY <1>1 DEF Lag
    <2>2. z = [y EXCEPT !.at = "next"]
      BY <1>1
    <2> QED
      BY <1>2, <1>4, <2>1, <2>2 DEF StreamType
  <1> QED
    BY <1>1, <1>2, <1>3, <1>5, <1>6, LiveTaskKeeps

LEMMA NextRecordKeeps ==
    ASSUME StreamInv, NEW s \in Followers, next_record(s)
    PROVE  StreamInv'
  <1>1. PICK x, y : x = stream[s] /\ y = FirstRecord(x, NextRecord(x), Took(x))
    OBVIOUS
  <1>2. x.at = "next" /\ x.pending_gap = NoGap /\ HasNext(x) /\ Step(s, y) /\ UNCHANGED stream_state
    BY <1>1, Zenon DEF next_record, TaskAt
  <1>3. x.at \in LiveAt /\ x.at \in RegisteredAt
    BY <1>2 DEF LiveAt, RegisteredAt
  <1>4. Live(x, told[s] \o internal[s])
    BY <1>1, <1>3, LiveNow
  <1>5. Live(y, told[s] \o internal[s]) /\ y.at \in {"batching", "sending"}
    BY <1>1, <1>2, <1>4, FirstRecordKeeps
  <1>6. y.at \in RegisteredAt
    BY <1>5 DEF RegisteredAt
  <1> QED
    BY <1>1, <1>2, <1>3, <1>5, <1>6, LiveTaskKeeps

LEMMA BatchMoreKeeps ==
    ASSUME StreamInv, NEW s \in Followers, batch_more(s)
    PROVE  StreamInv'
  <1>1. PICK x, n, line : x = stream[s] /\ n = NextRecord(x) /\ line = told[s] \o internal[s]
    OBVIOUS
  <1>2. x.at = "batching" /\ UNCHANGED stream_state
    BY <1>1 DEF batch_more, TaskAt
  <1>3. x.at \in LiveAt /\ x.at \in RegisteredAt /\ "sending" \in LiveAt
    BY <1>2 DEF LiveAt, RegisteredAt
  <1>4. Live(x, line) /\ log.next_sequence \in Nat
    BY <1>1, <1>3, LiveNow
  <1>5. x.pending_gap = NoGap
    BY <1>2, <1>4 DEF Live, ItemsMeet
  <1>6. ASSUME NEW y, Step(s, y), Live(y, line), y.at \in {"batching", "sending"} PROVE StreamInv'
    <2>1. y.at \in RegisteredAt
      BY <1>6 DEF RegisteredAt
    <2> QED
      BY <1>1, <1>2, <1>3, <1>6, <2>1, LiveTaskKeeps
  <1>7. CASE HasNext(x) /\ n = x.expected_sequence
             /\ Step(s, [Took(x) EXCEPT !.item.hi = n + 1, !.expected_sequence = n + 1])
    <2>1. PICK y : y = Grown(Took(x), n)
      OBVIOUS
    <2>2. Live(y, line) /\ y.at = "batching"
      BY <1>1, <1>2, <1>4, <1>7, <2>1, BatchKeeps
    <2>3. Step(s, y) /\ y.at \in {"batching", "sending"}
      BY <1>7, <2>1, <2>2, Zenon DEF Grown
    <2> QED
      BY <1>6, <2>2, <2>3
  <1>8. CASE HasNext(x) /\ Step(s, [Took(x) EXCEPT !.at = "sending", !.pending_record = n])
    <2>1. PICK y : y = Left(Took(x), n)
      OBVIOUS
    <2>2. Live(y, line) /\ y.at = "sending"
      BY <1>1, <1>2, <1>4, <1>8, <2>1, BatchKeeps
    <2>3. Step(s, y) /\ y.at \in {"batching", "sending"}
      BY <1>8, <2>1, <2>2, Zenon DEF Left
    <2> QED
      BY <1>6, <2>2, <2>3
  <1>9. CASE Lagging(x) /\ Step(s, [Lag(x) EXCEPT !.at = "sending"])
    <2>1. PICK y : y = [Lag(x) EXCEPT !.at = "sending"]
      OBVIOUS
    <2>2. Live(y, line) /\ y.at = "sending"
      BY <1>2, <1>3, <1>4, <1>5, <1>9, <2>1, LagKeeps
    <2>3. Step(s, y) /\ y.at \in {"batching", "sending"}
      BY <1>9, <2>1, <2>2, Zenon
    <2> QED
      BY <1>6, <2>2, <2>3
  <1>10. CASE Step(s, [x EXCEPT !.at = "sending"])
    <2>1. PICK y : y = [x EXCEPT !.at = "sending"]
      OBVIOUS
    <2>2. Live(y, line) /\ y.at = "sending"
      BY <1>2, <1>3, <1>4, <2>1, MoveKeeps
    <2>3. Step(s, y) /\ y.at \in {"batching", "sending"}
      BY <1>10, <2>1, <2>2, Zenon
    <2> QED
      BY <1>6, <2>2, <2>3
  <1> QED
    BY <1>1, <1>7, <1>8, <1>9, <1>10, Zenon DEF batch_more

LEMMA SendKeeps ==
    ASSUME StreamInv, NEW s \in Followers, send(s)
    PROVE  StreamInv'
  <1>1. PICK x, i, t : x = stream[s] /\ i = internal[s] /\ t = told[s]
    OBVIOUS
  <1>2. /\ x.at = "sending" /\ internal' = [internal EXCEPT ![s] = Append(i, x.item)]
        /\ Step(s, [x EXCEPT !.at = IF x.item = Stopped THEN "ended" ELSE "next"])
        /\ registered' = registered /\ told' = told
    BY <1>1 DEF send, TaskAt, StreamInv
  <1>3. x.at \in LiveAt /\ x.at \in RegisteredAt /\ "next" \in RegisteredAt
    BY <1>2 DEF LiveAt, RegisteredAt
  <1>4. Live(x, t \o i) /\ x \in StreamType
    BY <1>1, <1>3, LiveNow
  <1>5. x.item \in ItemType /\ x.item # Stopped
    <2>1. x.item \in ItemType /\ x.item.what # "stopped"
      <3>1. Busy(x)
        BY <1>2 DEF Busy
      <3> QED
        BY <1>4, <3>1, StreamFields DEF Live, ItemsMeet
    <2>2. Stopped.what = "stopped"
      BY AnItem DEF Stopped
    <2> QED
      BY <2>1, <2>2
  <1>6. PICK y, j : y = [x EXCEPT !.at = "next"] /\ j = Append(i, x.item)
    OBVIOUS
  <1>7. Step(s, y)
    BY <1>2, <1>5, <1>6
  <1>8. i \in Seq(ItemType) /\ t \in Seq(ItemType) /\ StoppedLast(t)
    BY <1>1 DEF StreamInv, Following
  <1>9. t \o j = Append(t \o i, x.item) /\ j \in Seq(ItemType)
    BY <1>5, <1>6, <1>8, AppendBehind
  <1>10. Live(y, t \o j) /\ y.at = "next"
    BY <1>2, <1>4, <1>6, <1>9, HandKeeps
  <1>11. Following(y, j, t)
    BY <1>8, <1>9, <1>10 DEF Following, Live
  <1>12. told' = [told EXCEPT ![s] = t] /\ internal' = [internal EXCEPT ![s] = j]
    <2>1. told = [told EXCEPT ![s] = told[s]]
      BY DEF StreamInv
    <2> QED
      BY <1>1, <1>2, <1>6, <2>1
  <1>13. log' = log /\ stream' = [stream EXCEPT ![s] = y]
    BY <1>7 DEF Step
  <1>14. registered' \subseteq Followers /\ s \in registered' /\ y.at \in RegisteredAt
    BY <1>1, <1>2, <1>3, <1>10 DEF StreamInv
  <1> QED
    BY <1>2, <1>11, <1>12, <1>13, <1>14, OneStreamKeeps

(* An item that comes before the stop is not STREAM_STOPPED. *)
LEMMA LineGoesOn ==
    ASSUME NEW x, NEW i \in Seq(ItemType), NEW t \in Seq(ItemType), Live(x, t \o i)
    PROVE  /\ \A k \in 1 .. Len(t) : t[k] # Stopped
           /\ i # <<>> => Head(i) # Stopped
  <1>1. PICK line : line = t \o i
    OBVIOUS
  <1>2. /\ \A k \in DOMAIN line : line[k].what # "stopped" /\ Stopped.what = "stopped"
    BY <1>1, AnItem DEF Live, ItemsMeet, Follows, Stopped
  <1>3. \A k \in 1 .. Len(t) : k \in DOMAIN line /\ line[k] = t[k]
    BY <1>1
  <1>4. ASSUME i # <<>> PROVE Len(t) + 1 \in DOMAIN line /\ line[Len(t) + 1] = Head(i)
    BY <1>1, <1>4
  <1> QED
    BY <1>2, <1>3, <1>4

LEMMA AppendStops ==
    ASSUME NEW t \in Seq(ItemType), NEW item \in ItemType, \A k \in 1 .. Len(t) : t[k] # Stopped
    PROVE  StoppedLast(Append(t, item)) /\ Append(t, item) \in Seq(ItemType)
  <1>1. PICK u : u = Append(t, item)
    OBVIOUS
  <1>2. Len(u) - 1 = Len(t) /\ u \in Seq(ItemType) /\ \A k \in 1 .. Len(t) : u[k] = t[k]
    BY <1>1
  <1> QED
    BY <1>1, <1>2 DEF StoppedLast

LEMMA StreamItemKeeps ==
    ASSUME StreamInv, NEW s \in Followers, stream_item(s)
    PROVE  StreamInv'
  <1>1. PICK x, i, t : x = stream[s] /\ i = internal[s] /\ t = told[s]
    OBVIOUS
  <1>2. PICK item : item = Head(i)
    OBVIOUS
  <1>3. /\ i # <<>> /\ internal' = [internal EXCEPT ![s] = Tail(i)]
        /\ told' = (IF s \in registered THEN [told EXCEPT ![s] = Append(t, item)] ELSE told)
        /\ registered' = (IF item = Stopped THEN registered \ {s} ELSE registered)
        /\ log' = log /\ stream' = stream
    BY <1>1, <1>2 DEF stream_item, StreamInv
  <1>4. Following(x, i, t) /\ x \in StreamType /\ i \in Seq(ItemType) /\ t \in Seq(ItemType)
    BY <1>1 DEF StreamInv, Following
  <1>5. stream' = [stream EXCEPT ![s] = x] /\ told = [told EXCEPT ![s] = t]
    BY <1>1, <1>3 DEF StreamInv
  <1>6. /\ item \in ItemType /\ Tail(i) \in Seq(ItemType) /\ Append(t, item) \in Seq(ItemType)
        /\ Append(t, item) \o Tail(i) = t \o i
    BY <1>2, <1>3, <1>4, HeadMoves
  <1>7. x.at \notin {"none", "starting"}
    BY <1>3, <1>4 DEF Following
  <1>8. CASE s \in registered
    <2>1. x.at \in RegisteredAt /\ x.at \in LiveAt
      BY <1>1, <1>8 DEF StreamInv, RegisteredAt, LiveAt
    <2>2. Live(x, t \o i)
      BY <1>4, <2>1 DEF Following
    <2>3. (\A k \in 1 .. Len(t) : t[k] # Stopped) /\ item # Stopped
      BY <1>2, <1>3, <1>4, <2>2, LineGoesOn
    <2>4. StoppedLast(Append(t, item))
      BY <1>4, <1>6, <2>3, AppendStops
    <2>5. Following(x, Tail(i), Append(t, item))
      BY <1>4, <1>6, <1>7, <2>2, <2>4 DEF Following
    <2>6. told' = [told EXCEPT ![s] = Append(t, item)] /\ registered' = registered
      BY <1>3, <1>8, <2>3
    <2>7. registered' \subseteq Followers
      BY <2>6 DEF StreamInv
    <2> QED
      BY <1>3, <1>5, <1>8, <2>1, <2>5, <2>6, <2>7, OneStreamKeeps
  <1>9. CASE s \notin registered
    <2>1. x.at \notin RegisteredAt /\ x.at \notin LiveAt
      BY <1>1, <1>7, <1>9 DEF StreamInv, RegisteredAt, LiveAt
    <2>2. Following(x, Tail(i), t)
      BY <1>4, <1>6, <1>7, <2>1 DEF Following
    <2>3. told' = [told EXCEPT ![s] = t] /\ registered' = registered
      BY <1>3, <1>5, <1>9
    <2>4. registered' \subseteq Followers
      BY <2>3 DEF StreamInv
    <2> QED
      BY <1>3, <1>5, <1>9, <2>1, <2>2, <2>3, <2>4, OneStreamKeeps
  <1> QED
    BY <1>8, <1>9

LEMMA StopKeeps ==
    ASSUME StreamInv, NEW s \in Followers, stop_stream(s)
    PROVE  StreamInv'
  <1>1. PICK x, y, i, t : /\ x = stream[s] /\ y = [stream[s] EXCEPT !.at = "ended"]
                          /\ i = internal[s] /\ t = told[s]
    OBVIOUS
  <1>2. /\ s \in registered /\ registered' = registered \ {s} /\ internal' = internal
        /\ told' = [told EXCEPT ![s] = Append(t, Stopped)] /\ Step(s, y)
    BY <1>1 DEF stop_stream, StreamInv
  <1>3. Following(x, i, t) /\ x \in StreamType /\ i \in Seq(ItemType) /\ t \in Seq(ItemType)
    BY <1>1 DEF StreamInv, Following
  <1>4. x.at \in LiveAt
    BY <1>1, <1>2 DEF StreamInv, RegisteredAt, LiveAt
  <1>5. \A k \in 1 .. Len(t) : t[k] # Stopped
    BY <1>3, <1>4, LineGoesOn DEF Following
  <1>6. Stopped \in ItemType
    BY AnItem DEF Stopped
  <1>7. StoppedLast(Append(t, Stopped)) /\ Append(t, Stopped) \in Seq(ItemType)
    BY <1>3, <1>5, <1>6, AppendStops
  <1>8. y \in StreamType /\ y.at = "ended"
    BY <1>1, <1>3 DEF StreamType
  <1>9. Following(y, i, Append(t, Stopped)) /\ y.at \notin RegisteredAt
    BY <1>3, <1>7, <1>8 DEF Following, LiveAt, RegisteredAt
  <1>10. internal' = [internal EXCEPT ![s] = i] /\ log' = log /\ stream' = [stream EXCEPT ![s] = y]
    <2>1. internal = [internal EXCEPT ![s] = internal[s]]
      BY DEF StreamInv
    <2> QED
      BY <1>1, <1>2, <2>1 DEF Step
  <1>11. /\ registered' \subseteq Followers /\ s \notin registered'
         /\ \A q \in Followers : q # s => (q \in registered' <=> q \in registered)
    BY <1>2 DEF StreamInv
  <1> QED
    BY <1>2, <1>9, <1>10, <1>11, OneStreamKeeps

LEMMA StreamInvStep ==
    ASSUME StreamInv, [EventStreamNext]_event_stream_vars
    PROVE  StreamInv'
  <1>1. ASSUME LogSteps \/ UNCHANGED log, UNCHANGED <<stream, stream_state>> PROVE StreamInv'
    <2>1. LogInv'
      BY <1>1, LogInvStep DEF StreamInv
    <2>2. stream' = stream /\ registered' = registered /\ internal' = internal /\ told' = told
      BY <1>1 DEF stream_state
    <2>3. \A s \in Followers : Following(stream[s], internal[s], told[s])'
      BY <2>2 DEF StreamInv, Following
    <2> QED
      BY <2>1, <2>2, <2>3 DEF StreamInv
  <1>2. CASE UNCHANGED event_stream_vars
    BY <1>1, <1>2 DEF event_stream_vars
  <1>3. CASE LogSteps /\ UNCHANGED <<stream, stream_state>>
    BY <1>1, <1>3
  <1>4. ASSUME NEW s \in Followers,
               \/ \E history \in BOOLEAN, n \in 0 .. MaxEvents : start_stream(s, history, n)
               \/ start_complete(s) \/ publication_complete(s) \/ next_gap(s) \/ next_lagged(s)
               \/ next_record(s) \/ batch_more(s) \/ send(s) \/ stream_item(s) \/ stop_stream(s)
        PROVE  StreamInv'
    BY <1>4, StartKeeps, StartCompleteKeeps, PublicationKeeps, NextGapKeeps, NextLaggedKeeps,
       NextRecordKeeps, BatchMoreKeeps, SendKeeps, StreamItemKeeps, StopKeeps
  <1> QED
    BY <1>2, <1>3, <1>4 DEF EventStreamNext

(* What a client of a live stream is sent begins where it asked, leaves    *)
(* out no sequence number and repeats none, and a gap covers no record     *)
(* that the stream was given.                                              *)
THEOREM StreamsAreExact == EventStreamSpec => []StreamExact
  <1>1. EventStreamInit => StreamInv
    BY StreamInvInit
  <1>2. StreamInv /\ [EventStreamNext]_event_stream_vars => StreamInv'
    BY StreamInvStep
  <1>3. StreamInv => StreamExact
    <2> SUFFICES ASSUME StreamInv PROVE StreamExact
      OBVIOUS
    <2>1. LogExact
      BY LogIsExact DEF StreamInv
    <2>2. ASSUME NEW s \in registered
          PROVE  LET x == stream[s]
                     made == Made(s)
                     kept == x.given \ {x.pending_record}
                 IN  /\ Chained(made)
                     /\ made # <<>> => made[1].lo = x.requested
                     /\ x.pending_gap = NoGap => Reach(made, x.requested) = x.expected_sequence
                     /\ kept = Numbers(made, "records")
                     /\ x.pending_record \notin Numbers(made, "gap")
      <3>1. PICK x, line, made : x = stream[s] /\ line = told[s] \o internal[s] /\ made = Made(s)
        OBVIOUS
      <3>2. s \in Followers /\ x.at \in LiveAt
        BY <2>2, <3>1 DEF StreamInv, RegisteredAt, LiveAt
      <3>3. Live(x, line)
        BY <3>1, <3>2, LiveNow
      <3>4. made = line \o (IF Busy(x) THEN <<x.item>> ELSE <<>>)
                        \o (IF x.pending_gap = NoGap THEN <<>> ELSE <<x.pending_gap>>)
        BY <3>1, Zenon DEF Made, Busy
      <3>5. /\ Follows(made, x.requested, Cursor(x))
            /\ x.given \ {x.pending_record} = Numbers(made, "records")
            /\ x.pending_record \notin Numbers(made, "gap")
        BY <3>3, <3>4, LiveIsExact
      <3>6. Chained(made) /\ (made # <<>> => made[1].lo = x.requested)
            /\ Reach(made, x.requested) = Cursor(x)
        BY <3>5, FollowsChained
      <3>7. x.pending_gap = NoGap => Cursor(x) = x.expected_sequence
        BY DEF Cursor
      <3> QED
        BY <3>1, <3>5, <3>6, <3>7
    <2>3. \A s \in Followers : \A i \in 1 .. Len(told[s]) - 1 : told[s][i] # Stopped
      BY DEF StreamInv, Following, StoppedLast
    <2> QED
      BY <2>1, <2>2, <2>3 DEF StreamExact
  <1> QED
    BY <1>1, <1>2, <1>3, PTL DEF EventStreamSpec
=============================================================================
