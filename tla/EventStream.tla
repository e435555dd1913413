----------------------------- MODULE EventStream -----------------------------
(***************************************************************************)
(* Live streams of the event journal: Runtime::start_stream and LiveStream *)
(* of crates/server/src/yas_events.rs, and the session that owns them,     *)
(* crates/server/src/yas.rs: the handlers of START_STREAM and STOP_STREAM, *)
(* the task spawn_events_stream starts, and the session's internal queue.  *)
(***************************************************************************)
EXTENDS EventLog

CONSTANTS
    Followers,          \* streams of the session
    InternalItems       \* places in the session's internal queue

ASSUME EventStreamAssumption == InternalItems \in Nat \ {0}

VARIABLES
    stream,         \* LiveStream, and where its task is
    registered,     \* EventsRuntime.streams
    internal,       \* items on their way to the session, of each stream
    told            \* what the client has been sent

stream_state == <<registered, internal, told>>
event_stream_vars == <<log, stream, stream_state>>

Stopped == Item("stopped", 0, 0)
NoGap == <<>>
NoRecord == -1

NotStarted == [at |-> "none", requested |-> 0, expected_sequence |-> 0, history |-> <<>>,
               receiver |-> 0, pending_record |-> NoRecord, pending_gap |-> NoGap,
               item |-> Stopped, given |-> {}]

EventStreamInit ==
    /\ EventLogInit
    /\ stream = [s \in Followers |-> NotStarted]
    /\ registered = {}
    /\ internal = [s \in Followers |-> <<>>]
    /\ told = [s \in Followers |-> <<>>]

TaskAt(s, at) == stream[s].at = at
Step(s, new) == stream' = [stream EXCEPT ![s] = new] /\ UNCHANGED log

(* Records are dropped from the front as long as they are below n. *)
From(dump, n) ==
    LET below == Min({i \in 0 .. Len(dump) : i < Len(dump) => dump[i + 1] >= n})
    IN  SubSeq(dump, below + 1, Len(dump))

-----------------------------------------------------------------------------
(* start_stream.  The snapshot and the subscription are one critical       *)
(* section; a start in the future is an error and starts nothing.          *)
start_stream(s, history, start_sequence) ==
    LET dump == IF history THEN Dump ELSE <<>>
        next == log.next_sequence
        oldest == IF dump = <<>> THEN next ELSE Head(dump)
        requested == IF history /\ start_sequence # 0 THEN start_sequence ELSE oldest
        records == From(dump, requested)
        first_sequence == IF records = <<>> THEN next ELSE Head(records)
    IN  /\ TaskAt(s, "none") /\ start_sequence <= next
        /\ Step(s, [NotStarted EXCEPT
                !.at = "starting", !.requested = requested, !.expected_sequence = requested,
                !.history = records, !.receiver = next,
                !.pending_gap = IF requested < first_sequence
                                THEN Item("gap", requested, first_sequence) ELSE NoGap])
        /\ UNCHANGED stream_state

(* EventsStreamStartComplete: the stream is registered, and its task waits *)
(* until the Result is written; or the request was cancelled, or there is  *)
(* no handle left for it.                                                  *)
start_complete(s) ==
    /\ TaskAt(s, "starting")
    /\ \/ Step(s, [stream[s] EXCEPT !.at = "waiting"]) /\ registered' = registered \union {s}
       \/ Step(s, [stream[s] EXCEPT !.at = "ended"]) /\ UNCHANGED registered
    /\ UNCHANGED <<internal, told>>

(* settle_events_stream_publication *)
publication_complete(s) ==
    /\ TaskAt(s, "waiting") /\ s \in registered
    /\ \/ Step(s, [stream[s] EXCEPT !.at = "next"]) /\ UNCHANGED registered
       \/ Step(s, [stream[s] EXCEPT !.at = "ended"]) /\ registered' = registered \ {s}
    /\ UNCHANGED <<internal, told>>

-----------------------------------------------------------------------------
(* LiveStream::next. *)

(* next_record and try_next_record: the record that was set aside, then    *)
(* history, then the channel.                                              *)
HasNext(x) == x.pending_record # NoRecord \/ x.history # <<>> \/ Available(x.receiver)
NextRecord(x) ==
    IF x.pending_record # NoRecord THEN x.pending_record
    ELSE IF x.history # <<>> THEN Head(x.history) ELSE x.receiver
Took(x) ==
    IF x.pending_record # NoRecord THEN [x EXCEPT !.pending_record = NoRecord]
    ELSE [(IF x.history # <<>> THEN [x EXCEPT !.history = Tail(@)]
           ELSE [x EXCEPT !.receiver = @ + 1]) EXCEPT !.given = @ \union {NextRecord(x)}]
Lagging(x) == x.pending_record = NoRecord /\ x.history = <<>> /\ Lost(x.receiver) > 0
Mut_FirstAvailable(x) == x.receiver + Lost(x.receiver)
FirstAvailable(x) == x.expected_sequence + Lost(x.receiver)
Lag(x) ==
    LET first_available == FirstAvailable(x)
    IN  [x EXCEPT !.receiver = @ + Lost(x.receiver),
                  !.pending_gap = Item("gap", first_available - Lost(x.receiver), first_available)]

Emit(x, item) == [x EXCEPT !.at = "sending", !.item = item]

next_gap(s) ==
    LET gap == stream[s].pending_gap
    IN  /\ TaskAt(s, "next") /\ gap # NoGap
        /\ Step(s, Emit([stream[s] EXCEPT !.pending_gap = NoGap,
                                          !.expected_sequence = gap.hi], gap))
        /\ UNCHANGED stream_state

next_lagged(s) ==
    /\ TaskAt(s, "next") /\ stream[s].pending_gap = NoGap /\ Lagging(stream[s])
    /\ Step(s, Lag(stream[s]))
    /\ UNCHANGED stream_state

(* The first record: after a gap of its own if one is missing before it,   *)
(* an error if it was had already, else the start of a batch.              *)
FirstRecord(x, n, y) ==
    LET expected == x.expected_sequence
    IN  IF n > expected
           THEN Emit([y EXCEPT !.pending_record = n, !.expected_sequence = n],
                     Item("gap", expected, n))
        ELSE IF n < expected THEN Emit(y, Stopped)
        ELSE [y EXCEPT !.at = "batching", !.item = Item("records", n, n + 1),
                       !.expected_sequence = n + 1]
next_record(s) ==
    LET x == stream[s]
    IN  /\ TaskAt(s, "next") /\ x.pending_gap = NoGap /\ HasNext(x)
        /\ Step(s, FirstRecord(x, NextRecord(x), Took(x)))
        /\ UNCHANGED stream_state

(* More records as long as they follow, are there and fit; max_batch_bytes *)
(* may be reached at any record.                                           *)
batch_more(s) ==
    LET x == stream[s]
        n == NextRecord(x)
    IN  /\ TaskAt(s, "batching")
        /\ \/ HasNext(x) /\ n = x.expected_sequence
              /\ Step(s, [Took(x) EXCEPT !.item.hi = n + 1, !.expected_sequence = n + 1])
           \/ HasNext(x) /\ Step(s, [Took(x) EXCEPT !.at = "sending", !.pending_record = n])
           \/ Lagging(x) /\ Step(s, [Lag(x) EXCEPT !.at = "sending"])
           \/ ~HasNext(x) /\ ~Lagging(x) /\ Step(s, [x EXCEPT !.at = "sending"])
        /\ UNCHANGED stream_state

-----------------------------------------------------------------------------
(* The task and the session. *)

(* internal.send, which waits while the queue is full. *)
send(s) ==
    LET x == stream[s]
    IN  /\ TaskAt(s, "sending") /\ Len(internal[s]) < InternalItems
        /\ internal' = [internal EXCEPT ![s] = Append(@, x.item)]
        /\ Step(s, [x EXCEPT !.at = IF x.item = Stopped THEN "ended" ELSE "next"])
        /\ UNCHANGED <<registered, told>>

(* EventsStreamItem and EventsStreamStopped: nothing is sent of a stream   *)
(* that is no longer registered.                                           *)
stream_item(s) ==
    LET item == Head(internal[s])
    IN  /\ internal[s] # <<>>
        /\ internal' = [internal EXCEPT ![s] = Tail(@)]
        /\ told' = IF s \in registered THEN [told EXCEPT ![s] = Append(@, item)] ELSE told
        /\ registered' = IF item = Stopped THEN registered \ {s} ELSE registered
        /\ UNCHANGED <<log, stream>>

(* STOP_STREAM: the task is cancelled wherever it is. *)
stop_stream(s) ==
    /\ s \in registered
    /\ registered' = registered \ {s}
    /\ told' = [told EXCEPT ![s] = Append(@, Stopped)]
    /\ Step(s, [stream[s] EXCEPT !.at = "ended"])
    /\ UNCHANGED internal

EventStreamNext ==
    \/ LogSteps /\ UNCHANGED <<stream, stream_state>>
    \/ \E s \in Followers :
        \/ \E history \in BOOLEAN, n \in 0 .. MaxEvents : start_stream(s, history, n)
        \/ start_complete(s) \/ publication_complete(s) \/ next_gap(s) \/ next_lagged(s)
        \/ next_record(s) \/ batch_more(s) \/ send(s) \/ stream_item(s) \/ stop_stream(s)

EventStreamSpec == EventStreamInit /\ [][EventStreamNext]_event_stream_vars

-----------------------------------------------------------------------------
(* Properties. *)

(* The items made for a stream so far, in order. *)
Made(s) ==
    LET x == stream[s]
        now == IF x.at \in {"batching", "sending"} THEN <<x.item>> ELSE <<>>
        gap == IF x.pending_gap = NoGap THEN <<>> ELSE <<x.pending_gap>>
    IN  told[s] \o internal[s] \o now \o gap

(* "a concurrent record is in exactly one of the initial dump or the live  *)
(* stream, never silently between them", and "a slow consumer receives GAP *)
(* with the exact lost count": what the client is sent, in the order in    *)
(* which it is sent, begins where it asked and leaves out no sequence      *)
(* number and repeats none; a gap covers no record that the stream was     *)
(* given; and STREAM_STOPPED comes last.                                   *)
StreamExact ==
    /\ LogExact
    /\ \A s \in registered :
        LET x == stream[s]
            made == Made(s)
            kept == x.given \ {x.pending_record}
        IN  /\ Chained(made)
            /\ made # <<>> => made[1].lo = x.requested
            /\ x.pending_gap = NoGap => Reach(made, x.requested) = x.expected_sequence
            /\ kept = Numbers(made, "records")
            /\ x.pending_record \notin Numbers(made, "gap")
    /\ \A s \in Followers : \A i \in 1 .. Len(told[s]) - 1 : told[s][i] # Stopped
=============================================================================
