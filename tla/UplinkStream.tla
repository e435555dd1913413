---------------------------- MODULE UplinkStream -----------------------------
(* The reliable records of the uplink (crates/uplink/src/stream.rs): two   *)
(* NoiseStreams, client and server, over one carrier whose relay may cut   *)
(* it at any point or damage what it carries.                              *)
(*                                                                         *)
(* snow is external: a record opens under the key and the nonce it was     *)
(* sealed with, and a key is the number of times it was changed.  A record *)
(* crosses the carrier in two pieces, its header and its text, so that it  *)
(* can be cut inside; a piece is never smaller, and the plaintext of a     *)
(* record is one item, numbered in the order of writing.                   *)
(*                                                                         *)
(* An operator named Mut_... is a deliberately wrong variant of the        *)
(* definition after it, which no specification uses.                       *)
EXTENDS Naturals, Sequences

CONSTANTS
    RekeyEvery,     \* REKEY_INTERVAL
    MaxItems        \* bound of the model: items written by each end

ASSUME StreamAssumption == RekeyEvery \in Nat \ {0} /\ MaxItems \in Nat

Ends == {"client", "server"}
Peer(e) == CHOOSE p \in Ends : p # e

VARIABLES
    state,          \* snow::TransportState of each end: nonces and keys
    outgoing,       \* pieces of the sealed record that are not written yet
    reading,        \* "header" or "text": the piece read_record wants next
    plaintext,      \* the opened record that is not read yet
    read_closed, write_closed, failed,
    wire,           \* pieces sent by each end that its peer has not read
    ended,          \* ends whose side of the carrier is shut
    disturbed,      \* the relay has cut or damaged something
    written, received      \* items accepted by write, and returned by read

stream_ends == <<state, outgoing, reading, plaintext, read_closed, write_closed, failed>>
carrier == <<wire, ended, disturbed>>
stream_vars == <<stream_ends, carrier, written, received>>

StreamInit ==
    /\ state = [e \in Ends |-> [sending_nonce |-> 0, sending_key |-> 0,
                                receiving_nonce |-> 0, receiving_key |-> 0]]
    /\ outgoing = [e \in Ends |-> <<>>] /\ reading = [e \in Ends |-> "header"]
    /\ plaintext = [e \in Ends |-> <<>>]
    /\ read_closed = {} /\ write_closed = {} /\ failed = {}
    /\ wire = [e \in Ends |-> <<>>] /\ ended = {} /\ disturbed = FALSE
    /\ written = [e \in Ends |-> 0] /\ received = [e \in Ends |-> <<>>]

(* One more record in a direction: the nonce counts on, the key changes at *)
(* every multiple of the interval.                                         *)
rekeys(nonce) == nonce % RekeyEvery = 0
AfterSending(s) ==
    [s EXCEPT !.sending_nonce = @ + 1,
              !.sending_key = IF rekeys(s.sending_nonce + 1) THEN @ + 1 ELSE @]
AfterReceiving(s) ==
    [s EXCEPT !.receiving_nonce = @ + 1,
              !.receiving_key = IF rekeys(s.receiving_nonce + 1) THEN @ + 1 ELSE @]

Header == [piece |-> "header"]
Text(s, kind, item) ==
    [piece |-> "text", key |-> s.sending_key, nonce |-> s.sending_nonce,
     kind |-> kind, item |-> item]
Damaged == [piece |-> "damaged"]

seal_record(e, kind, item) ==
    /\ outgoing' = [outgoing EXCEPT ![e] = <<Header, Text(state[e], kind, item)>>]
    /\ state' = [state EXCEPT ![e] = AfterSending(@)]

-----------------------------------------------------------------------------
(* AsyncWrite. *)

(* A step of drain, in any of the three polls: the carrier takes a piece,  *)
(* or it is gone and the stream fails.                                     *)
drain(e) ==
    /\ e \notin failed /\ outgoing[e] # <<>>
    /\ \/ /\ e \notin ended
          /\ wire' = [wire EXCEPT ![e] = Append(@, Head(outgoing[e]))]
          /\ outgoing' = [outgoing EXCEPT ![e] = Tail(@)]
          /\ UNCHANGED failed
       \/ /\ e \in ended
          /\ failed' = failed \union {e}
          /\ UNCHANGED <<wire, outgoing>>
    /\ UNCHANGED <<state, reading, plaintext, read_closed, write_closed, ended, disturbed,
                   written, received>>

poll_write(e) ==
    /\ e \notin failed /\ e \notin write_closed /\ outgoing[e] = <<>>
    /\ written[e] < MaxItems
    /\ seal_record(e, "DATA", written[e] + 1)
    /\ written' = [written EXCEPT ![e] = @ + 1]
    /\ UNCHANGED <<reading, plaintext, read_closed, write_closed, failed, carrier, received>>

(* poll_shutdown: a FIN record first, then, once it is drained, the        *)
(* carrier's own shutdown, which fails on a carrier that is gone.          *)
poll_shutdown(e) ==
    /\ e \notin failed /\ outgoing[e] = <<>>
    /\ \/ /\ e \notin write_closed
          /\ seal_record(e, "FIN", 0)
          /\ write_closed' = write_closed \union {e}
          /\ UNCHANGED <<failed, ended>>
       \/ /\ e \in write_closed
          /\ \/ ended' = ended \union {e} /\ UNCHANGED failed
             \/ disturbed /\ failed' = failed \union {e} /\ UNCHANGED ended
          /\ UNCHANGED <<state, outgoing, write_closed>>
    /\ UNCHANGED <<reading, plaintext, read_closed, wire, disturbed, written, received>>

-----------------------------------------------------------------------------
(* AsyncRead. *)

WantsRecord(e) == e \notin failed /\ e \notin read_closed /\ plaintext[e] = <<>>

(* read_record meets the end of the carrier, before or inside a record. *)
Mut_unexpected_eof(e) ==
    /\ WantsRecord(e)
    /\ wire[Peer(e)] = <<>> /\ Peer(e) \in ended
    /\ read_closed' = read_closed \union {e}
    /\ UNCHANGED <<state, outgoing, reading, plaintext, write_closed, failed, carrier,
                   written, received>>
unexpected_eof(e) ==
    /\ WantsRecord(e)
    /\ wire[Peer(e)] = <<>> /\ Peer(e) \in ended
    /\ failed' = failed \union {e}
    /\ UNCHANGED <<state, outgoing, reading, plaintext, read_closed, write_closed, carrier,
                   written, received>>

read_header(e) ==
    /\ WantsRecord(e) /\ reading[e] = "header" /\ wire[Peer(e)] # <<>>
    /\ wire' = [wire EXCEPT ![Peer(e)] = Tail(@)]
    /\ IF Head(wire[Peer(e)]) = Header
       THEN reading' = [reading EXCEPT ![e] = "text"] /\ UNCHANGED failed
       ELSE failed' = failed \union {e} /\ UNCHANGED reading
    /\ UNCHANGED <<state, outgoing, plaintext, read_closed, write_closed, ended, disturbed,
                   written, received>>

Opened(e, text) ==
    /\ text.piece = "text"
    /\ text.key = state[e].receiving_key /\ text.nonce = state[e].receiving_nonce

open_record(e) ==
    /\ WantsRecord(e) /\ reading[e] = "text" /\ wire[Peer(e)] # <<>>
    /\ wire' = [wire EXCEPT ![Peer(e)] = Tail(@)]
    /\ LET text == Head(wire[Peer(e)])
       IN \/ /\ ~Opened(e, text)
             /\ failed' = failed \union {e}
             /\ UNCHANGED <<state, reading, plaintext, read_closed>>
          \/ /\ Opened(e, text)
             /\ state' = [state EXCEPT ![e] = AfterReceiving(@)]
             /\ reading' = [reading EXCEPT ![e] = "header"]
             /\ \/ /\ text.kind = "DATA"
                   /\ plaintext' = [plaintext EXCEPT ![e] = <<text.item>>]
                   /\ UNCHANGED read_closed
                \/ /\ text.kind = "FIN"
                   /\ read_closed' = read_closed \union {e}
                   /\ UNCHANGED plaintext
             /\ UNCHANGED failed
    /\ UNCHANGED <<outgoing, write_closed, ended, disturbed, written, received>>

(* What is buffered is returned before another record is read. *)
poll_read(e) ==
    /\ e \notin failed /\ e \notin read_closed /\ plaintext[e] # <<>>
    /\ received' = [received EXCEPT ![e] = @ \o plaintext[e]]
    /\ plaintext' = [plaintext EXCEPT ![e] = <<>>]
    /\ UNCHANGED <<state, outgoing, reading, read_closed, write_closed, failed, carrier, written>>

-----------------------------------------------------------------------------
(* The relay. *)

(* It closes both directions, and a suffix of each is lost. *)
relay_cuts ==
    /\ ~disturbed
    /\ disturbed' = TRUE /\ ended' = Ends
    /\ \E c \in 0 .. Len(wire["client"]), s \in 0 .. Len(wire["server"]) :
        wire' = [client |-> SubSeq(wire["client"], 1, c), server |-> SubSeq(wire["server"], 1, s)]
    /\ UNCHANGED <<stream_ends, written, received>>
relay_damages(e) ==
    /\ ~disturbed /\ wire[e] # <<>>
    /\ disturbed' = TRUE
    /\ \E i \in DOMAIN wire[e] : wire' = [wire EXCEPT ![e][i] = Damaged]
    /\ UNCHANGED <<stream_ends, ended, written, received>>

StreamNext ==
    \/ \E e \in Ends : \/ drain(e) \/ poll_write(e) \/ poll_shutdown(e)
                       \/ unexpected_eof(e) \/ read_header(e) \/ open_record(e) \/ poll_read(e)
                       \/ relay_damages(e)
    \/ relay_cuts

StreamSpec == StreamInit /\ [][StreamNext]_stream_vars

-----------------------------------------------------------------------------
(* Properties. *)

(* Half-close is authenticated: what an end has read is, in order and      *)
(* without a gap, a prefix of what its peer wrote, and it is told of the   *)
(* end only after its peer has shut down and all of it was read.  While    *)
(* the relay leaves the carrier alone neither end fails: both change keys  *)
(* at the same record, and closing one direction leaves the other usable.  *)
StreamFaithful ==
    /\ \A e \in Ends :
        /\ Len(received[e]) <= written[Peer(e)]
        /\ \A i \in DOMAIN received[e] : received[e][i] = i
        /\ e \in read_closed =>
            Peer(e) \in write_closed /\ Len(received[e]) = written[Peer(e)]
    /\ ~disturbed => failed = {}
=============================================================================
