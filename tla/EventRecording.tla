--------------------------- MODULE EventRecording ----------------------------
(***************************************************************************)
(* Recordings of the event journal, crates/server/src/events.rs: the task  *)
(* that start_file_stream leaves behind writes what is retained and then   *)
(* what is recorded to a file, until stop_file_stream_with_info or         *)
(* shutdown_file_streams stops it.                                         *)
(***************************************************************************)
EXTENDS EventLog

CONSTANT Recordings

VARIABLE recording      \* FileStreamProgress, the receiver and the file of each

event_recording_vars == <<log, recording>>

(* The file holds items; since is where the live part starts, and          *)
(* stop_at what was recorded when the stop was asked for.                  *)
NotRecording == [state |-> "none", receiver |-> 0, file |-> <<>>, records |-> 0, lost |-> 0,
                 since |-> 0, stop_at |-> 0]

EventRecordingInit == EventLogInit /\ recording = [r \in Recordings |-> NotRecording]

In(r, state) == recording[r].state = state
Becomes(r, new) == recording' = [recording EXCEPT ![r] = new] /\ UNCHANGED log
Single(n) == Item("records", n, n + 1)

(* snapshot_and_subscribe, after the file was opened. *)
start_file_stream(r, history) ==
    LET dump == IF history THEN Dump ELSE <<>>
    IN  /\ In(r, "none")
        /\ Becomes(r, [NotRecording EXCEPT
               !.state = "starting", !.receiver = log.next_sequence, !.since = log.next_sequence,
               !.file = [i \in DOMAIN dump |-> Single(dump[i])],
               !.records = IF history THEN log.ring.records ELSE 0])

(* The first write and its flush, which the Result waits for; when they    *)
(* fail there is no recording.                                             *)
started(r) ==
    /\ In(r, "starting")
    /\ \/ Becomes(r, [recording[r] EXCEPT !.state = "running"])
       \/ Becomes(r, [recording[r] EXCEPT !.state = "refused"])

(* write_stream_bytes counts what was written. *)
Wrote(x, item, lost) ==
    [x EXCEPT !.file = Append(@, item), !.records = @ + 1, !.lost = @ + lost]

(* The loop and, once stopped, the drain: the record or the gap that comes *)
(* next, or a write that fails.                                            *)
Active(r) == In(r, "running") \/ In(r, "draining")
write_record(r) ==
    LET x == recording[r]
    IN  /\ Active(r) /\ Available(x.receiver)
        /\ \E y \in {Wrote(x, Single(x.receiver), 0), [x EXCEPT !.state = "failed"]} :
              Becomes(r, [y EXCEPT !.receiver = @ + 1])
write_gap(r) ==
    LET x == recording[r]
        lost == Lost(x.receiver)
    IN  /\ Active(r) /\ lost > 0
        /\ \E y \in {Wrote(x, Item("gap", x.receiver, x.receiver + lost), lost),
                     [x EXCEPT !.state = "failed"]} :
              Becomes(r, [y EXCEPT !.receiver = @ + lost])

(* stop.send: the loop takes it before the next record. *)
stop_file_stream(r) ==
    /\ In(r, "running")
    /\ Becomes(r, [recording[r] EXCEPT !.state = "draining", !.stop_at = log.next_sequence])

(* try_recv finds nothing more, and the flush. *)
Mut_Drained(x) == x.state = "draining"
Drained(x) == x.state = "draining" /\ x.receiver = log.next_sequence
file_drained(r) ==
    /\ Drained(recording[r])
    /\ \E state \in {"stopped", "failed"} : Becomes(r, [recording[r] EXCEPT !.state = state])

EventRecordingNext ==
    \/ LogSteps /\ UNCHANGED recording
    \/ \E r \in Recordings :
        \/ \E history \in BOOLEAN : start_file_stream(r, history)
        \/ started(r) \/ write_record(r) \/ write_gap(r) \/ stop_file_stream(r) \/ file_drained(r)

EventRecordingSpec == EventRecordingInit /\ [][EventRecordingNext]_event_recording_vars

-----------------------------------------------------------------------------
(* Properties. *)

(* An item of a file is a retained one, somewhere after the one before, or *)
(* a live one, which follows the last live one or else begins at since.    *)
InPlace(file, n, since) ==
    LET item == file[n]
        before == IF n = 1 THEN 0 ELSE file[n - 1].hi
    IN  /\ item.lo < item.hi
        /\ IF item.lo < since THEN before <= item.lo /\ item.hi <= since
                              ELSE item.lo = Max({before, since})

(* File tasks "drain already-queued live records (including a final gap    *)
(* marker if necessary), and flush before shutdown returns": a recording   *)
(* holds what was retained and then, record by record or as a gap, every   *)
(* event from its start, once and in order; its counters say how many      *)
(* records it holds and how many events it lost; and one that was stopped  *)
(* holds all that was recorded before the stop.                            *)
RecordingExact ==
    /\ LogExact
    /\ \A r \in Recordings :
        LET x == recording[r]
        IN  /\ \A i \in DOMAIN x.file : InPlace(x.file, i, x.since)
            /\ x.state # "failed" => x.receiver = Max({x.since, Reach(x.file, 0)})
            /\ x.records = Len(x.file)
            /\ x.lost = Cardinality(Numbers(x.file, "gap"))
            /\ x.state = "stopped" => x.receiver >= x.stop_at
=============================================================================
