--------------------------- MODULE UplinkDatagram ----------------------------
(* One direction of the sealed datagrams of the uplink                     *)
(* (crates/uplink/src/datagram.rs): DatagramSender::seal and               *)
(* DatagramReceiver::open over a relay that may lose, repeat, reorder and  *)
(* damage packets.                                                         *)
(*                                                                         *)
(* The cipher is external: a sealed text opens under the key and the nonce *)
(* it was sealed with and under no other.  A key is the epoch it is        *)
(* derived from (root, token and direction are fixed for one sender), and  *)
(* the 128 bits of the replay window are the set of those that are 1.      *)
(*                                                                         *)
(* An operator named Mut_... is a deliberately wrong variant of the        *)
(* definition after it, which no specification uses.                       *)
EXTENDS Integers

CONSTANTS
    MaxCounter,     \* u64::MAX
    WindowBits,     \* u128::BITS
    RekeyInterval   \* REKEY_INTERVAL

ASSUME DatagramAssumption ==
    MaxCounter \in Nat /\ WindowBits \in Nat \ {0} /\ RekeyInterval \in Nat \ {0}

VARIABLES
    sequence,       \* DatagramSender: the next counter
    sender_cached,  \*   and the epoch of the cached key
    highest, window, receiver_cached,       \* DatagramReceiver
    sealed,         \* every text sealed so far
    delivered       \* how often open returned the text of each counter

datagram_vars == <<sequence, sender_cached, highest, window, receiver_cached, sealed, delivered>>

Counters == 0 .. MaxCounter
Nothing == -1       \* Option::None
epoch(n) == n \div RekeyInterval

DatagramInit ==
    /\ sequence = 0 /\ sender_cached = Nothing
    /\ highest = Nothing /\ window = {} /\ receiver_cached = Nothing
    /\ sealed = {}
    /\ delivered = [n \in Counters |-> 0]

(* checked_add: after the last counter there is none. *)
Mut_next_sequence(n) == (n + 1) % (MaxCounter + 1)
next_sequence(n) == IF n = MaxCounter THEN Nothing ELSE n + 1
(* A cached key is used for the epoch it was derived for only. *)
derive(cached, e) == IF cached # e THEN e ELSE cached

seal ==
    /\ sequence # Nothing
    /\ sequence' = next_sequence(sequence)
    /\ sender_cached' = derive(sender_cached, epoch(sequence))
    /\ sealed' = sealed \union {[key |-> sender_cached', nonce |-> sequence]}
    /\ UNCHANGED <<highest, window, receiver_cached, delivered>>

(* The check of the replay window before the text is authenticated. *)
Mut_NotReplayed(n) ==
    highest # Nothing /\ n <= highest =>
        highest - n <= WindowBits /\ highest - n \notin window
NotReplayed(n) ==
    highest # Nothing /\ n <= highest =>
        highest - n < WindowBits /\ highest - n \notin window
Authentic(n, text) ==
    text = [key |-> derive(receiver_cached, epoch(n)), nonce |-> n]
Opens(n, text) == NotReplayed(n) /\ Authentic(n, text)

(* checked_shl drops what leaves the window. *)
Shifted(bits, by) == {i + by : i \in bits} \intersect 0 .. WindowBits - 1

(* A packet with counter n in its header and the sealed text arrives.  If  *)
(* it does not open nothing changes.                                       *)
open(n, text) ==
    /\ Opens(n, text)
    /\ receiver_cached' = derive(receiver_cached, epoch(n))
    /\ \/ /\ highest # Nothing /\ n <= highest
          /\ window' = window \union {highest - n}
          /\ UNCHANGED highest
       \/ /\ highest # Nothing /\ n > highest
          /\ window' = Shifted(window, n - highest) \union {0}
          /\ highest' = n
       \/ /\ highest = Nothing
          /\ window' = {0} /\ highest' = n
    /\ delivered' = [delivered EXCEPT ![n] = @ + 1]
    /\ UNCHANGED <<sequence, sender_cached, sealed>>

(* Every text may arrive at any time, any number of times or never, under  *)
(* the header it was sent with or a damaged one.                           *)
DatagramNext == seal \/ \E n \in Counters, text \in sealed : open(n, text)

DatagramSpec == DatagramInit /\ [][DatagramNext]_datagram_vars

-----------------------------------------------------------------------------
(* Properties. *)

(* The types of the state. *)
DatagramTypeOK ==
    /\ sequence \in Counters \union {Nothing}
    /\ sender_cached \in Int /\ receiver_cached \in Int
    /\ highest \in Counters \union {Nothing}
    /\ window \subseteq 0 .. WindowBits - 1
    /\ sealed \subseteq [key : Int, nonce : Counters]
    /\ delivered \in [Counters -> Nat]

(* The bits of the window are the deliveries they stand for, and nothing   *)
(* above the highest counter has been delivered.                           *)
WindowExact ==
    /\ highest = Nothing => \A n \in Counters : delivered[n] = 0
    /\ highest # Nothing =>
        /\ \A n \in Counters : n > highest => delivered[n] = 0
        /\ \A n \in Counters : n <= highest /\ highest - n < WindowBits =>
               (highest - n \in window <=> delivered[n] # 0)

(* No counter is used twice with one key, also when they run out: all that *)
(* was sealed lies below the next counter, each under its own epoch's key. *)
NonceFresh ==
    /\ sequence # Nothing => \A text \in sealed : text.nonce < sequence
    /\ \A text \in sealed : text.key = epoch(text.nonce)

(* What open returns was sealed and is returned once; and loss, lateness   *)
(* and changes of epoch never block a packet: an intact one opens exactly  *)
(* when it was not delivered before and is not a whole window late.        *)
DeliveredOnce ==
    /\ \A n \in Counters :
        /\ delivered[n] <= 1
        /\ delivered[n] # 0 => \E text \in sealed : text.nonce = n
    /\ \A text \in sealed :
        Opens(text.nonce, text) <=>
            /\ delivered[text.nonce] = 0
            /\ highest # Nothing => text.nonce + WindowBits > highest
=============================================================================
