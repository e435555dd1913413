------------------------------ MODULE EventLog -------------------------------
(***************************************************************************)
(* The event journal of crates/server/src/events.rs: one ring of records   *)
(* with a byte capacity and one bounded broadcast channel, both fed under  *)
(* the ring's mutex.  EventStream and EventRecording are what follows it.  *)
(*                                                                         *)
(* A record is its sequence number and its size.  record sends to the      *)
(* channel whenever there is a receiver, so a receiver is the sequence     *)
(* number it reads next, and what the channel holds for it is the last     *)
(* LiveChannel records.                                                    *)
(*                                                                         *)
(* An operator named Mut_... is a deliberately wrong variant of the        *)
(* definition after it, which no specification uses.                       *)
(***************************************************************************)
EXTENDS Integers, FiniteSets, Sequences, SequencesExt, FiniteSetsExt, Functions

CONSTANTS
    RecordSizes,
    Capacities,     \* ring sizes that may be configured,
    DefaultRing,    \* and the one at the start
    LiveChannel,    \* LIVE_CHANNEL_RECORDS
    MaxEvents       \* bound: events recorded

ASSUME EventLogAssumption ==
    /\ RecordSizes \union Capacities \subseteq Nat \ {0} /\ DefaultRing \in Capacities
    /\ {LiveChannel, MaxEvents} \subseteq Nat \ {0}

VARIABLE log    \* Ring, and EventLog.next_sequence

Bytes(s) == SumFunctionOnSet([i \in DOMAIN s |-> s[i].size], DOMAIN s)
Ring(c, dropped) == [kept |-> <<>>, used |-> 0, records |-> 0, dropped |-> dropped, capacity |-> c]

EventLogInit == log = [ring |-> Ring(DefaultRing, 0), next_sequence |-> 0]

(* Ring::append_parts: one that does not fit at all is only counted; else  *)
(* the oldest make room.                                                   *)
Evicted(ring, size) ==
    Min({n \in 0 .. Len(ring.kept) :
            ring.capacity - (ring.used - Bytes(SubSeq(ring.kept, 1, n))) >= size})
append(ring, r) ==
    IF r.size > ring.capacity THEN [ring EXCEPT !.dropped = @ + 1]
    ELSE LET n == Evicted(ring, r.size)
         IN  [ring EXCEPT !.kept = Append(SubSeq(@, n + 1, Len(@)), r),
                          !.used = @ - Bytes(SubSeq(ring.kept, 1, n)) + r.size,
                          !.records = @ - n + 1, !.dropped = @ + n]

(* What is retained is appended to an empty ring, record by record. *)
resize(ring, c) ==
    LET refilled[n \in 0 .. Len(ring.kept)] ==
            IF n = 0 THEN Ring(c, ring.dropped) ELSE append(refilled[n - 1], ring.kept[n])
    IN  IF c = ring.capacity THEN ring ELSE refilled[Len(ring.kept)]

(* record, by any thread, and configure, whose revision and activations    *)
(* decide only who may configure and what is recorded.                     *)
record(size) ==
    /\ log.next_sequence < MaxEvents
    /\ log' = [ring |-> append(log.ring, [sequence |-> log.next_sequence, size |-> size]),
               next_sequence |-> log.next_sequence + 1]
configure(c) == log' = [log EXCEPT !.ring = resize(@, c)]

LogSteps == (\E size \in RecordSizes : record(size)) \/ (\E c \in Capacities : configure(c))

(* dump_locked: the records that are retained, oldest first. *)
Dump == [i \in DOMAIN log.ring.kept |-> log.ring.kept[i].sequence]

(* tokio::sync::broadcast: a receiver at n that is more than the channel's *)
(* size behind is told how many it has missed and goes on at the oldest.   *)
Lost(n) == Max({0, log.next_sequence - LiveChannel - n})
Available(n) == Lost(n) = 0 /\ n < log.next_sequence

-----------------------------------------------------------------------------
(* An item that a follower is given: records or a gap, from lo up to but   *)
(* not including hi.                                                       *)
Item(what, lo, hi) == [what |-> what, lo |-> lo, hi |-> hi]
Numbers(items, what) ==
    UNION {items[i].lo .. items[i].hi - 1 : i \in {j \in DOMAIN items : items[j].what = what}}

(* Each item begins where the one before ends. *)
Chained(items) ==
    /\ \A i \in DOMAIN items : items[i].lo < items[i].hi
    /\ \A i \in 2 .. Len(items) : items[i].lo = items[i - 1].hi

(* How far items reach that begin at first. *)
Reach(items, first) == IF items = <<>> THEN first ELSE Last(items).hi

(* The ring's counters are exact: it holds what it says it holds, within   *)
(* its capacity, and every event ever recorded is in it or counted as      *)
(* dropped, also across a resize.                                          *)
LogExact ==
    LET ring == log.ring
    IN  /\ ring.used = Bytes(ring.kept) /\ ring.used <= ring.capacity
        /\ ring.records = Len(ring.kept)
        /\ log.next_sequence = ring.records + ring.dropped
        /\ \A i, j \in DOMAIN ring.kept : i < j => ring.kept[i].sequence < ring.kept[j].sequence
=============================================================================
