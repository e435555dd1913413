----------------------------- MODULE CreditFlow ------------------------------
(***************************************************************************)
(* Outbound Transfer credit of one native session, crates/server/src/      *)
(* yas.rs: the CreditBudget that all outbound flows of a session lease     *)
(* from, the FlowControl of each, and the two tasks that work on it.  The  *)
(* session task grants and cancels; the task spawned for the transfer      *)
(* waits for credit, sends, and records what it sent.  The runtime is      *)
(* multi-threaded and the state is atomics, so an action is one atomic     *)
(* access, with what no access of another task can come between.           *)
(*                                                                         *)
(* An operator named Mut_... is a deliberately wrong variant of the        *)
(* definition after it, which no specification uses.                       *)
(***************************************************************************)
EXTENDS Integers, FiniteSets, Functions

CONSTANTS
    Flows,
    Items,       \* the flows that send items of ItemBytes with wait_through;
    ItemBytes,   \* the others send what available() gives them
    Maximum,     \* CreditBudget.maximum, the peer's receive_max_buffered
    Total,       \* bytes a transfer has to send
    MaxGrant,    \* bound on the limits the client grants
    U64          \* 2^64: reserved wraps

ASSUME CreditAssumption ==
    /\ IsFiniteSet(Flows) /\ Items \subseteq Flows
    /\ {ItemBytes, Maximum, Total, MaxGrant, U64} \subseteq Nat \ {0}
    /\ Maximum < U64
    /\ Total % ItemBytes = 0

VARIABLES
    reserved,    \* CreditBudget.reserved
    flow,        \* FlowControl and CreditLease of each flow
    task,        \* what the session task is in the middle of, in which flow
    sender,      \* what the spawned task of each flow is in the middle of
    overlapped   \* history: a grant read sent or the lease, and before it was
                 \* done with what it read the transfer's own task changed it

vars == <<reserved, flow, task, sender, overlapped>>

(* status: "none", "open" (the session holds it) or "removed". *)
FlowControl ==
    [status : {"none", "open", "removed"}, limit : Nat, requested_limit : Nat, sent : Nat,
     lease : Nat, cancelled : BOOLEAN]

(* Where a task is and what it has read: asked and sent as grant and       *)
(* refresh_reservation load them, the window they arrive at, and bytes to  *)
(* reserve, add, consume or give back.                                     *)
Places == {"none", "idle", "sent", "lease", "store", "release", "grow", "reserve", "add", "limit",
           "freed", "check", "load", "wait", "waiting", "consume", "done"}
Work == [at : Places, asked : Nat, sent : Nat, window : Nat, bytes : Nat]
At(at) == [at |-> at, asked |-> 0, sent |-> 0, window |-> 0, bytes |-> 0]

Least(a, b) == IF a < b THEN a ELSE b
Most(a, b) == IF a < b THEN b ELSE a
Mut_SatSub(a, b) == a - b
SatSub(a, b) == IF a < b THEN 0 ELSE a - b
Here(f, at) == sender[f].at = at
Granting == {"lease", "store", "release", "grow", "reserve", "add", "limit"}
Open(f) == flow[f].status = "open"
Set(f, field, v) == flow' = [flow EXCEPT ![f] = [@ EXCEPT ![field] = v]]
Task(f, w) == task' = [f |-> f, w |-> w]
IdleTask == [f |-> "none", w |-> At("idle")]
Sender(f, w) == sender' = [sender EXCEPT ![f] = w]

(* notify_waiters wakes the futures that exist, and leaves no permit. *)
Woken(F, s) == [f \in Flows |-> IF f \in F /\ s[f].at = "waiting" THEN At("check") ELSE s[f]]

(* CreditBudget::reserve, a compare-and-swap loop, and release. *)
Allocation(requested) == Least(requested, SatSub(Maximum, reserved))
release(bytes) == reserved' = (reserved - bytes) % U64
Freed(bytes) == IF bytes = 0 THEN {} ELSE Flows

-----------------------------------------------------------------------------
(* CreditLease::grow_to, from either task: load, reserve, add.             *)
(* permitted is what grant and refresh_reservation make of the window.     *)
Grow(f, w) ==
    LET current == flow[f].lease
    IN  IF w.window <= current
           THEN [w EXCEPT !.at = "limit", !.window = current]
           ELSE [w EXCEPT !.at = "reserve", !.window = current, !.bytes = w.window - current]
Reserved(w) ==
    LET n == Allocation(w.bytes)
    IN  [w EXCEPT !.at = IF n = 0 THEN "limit" ELSE "add", !.window = @ + n, !.bytes = n]
Mut_Permitted(w) == w.sent + w.window
Permitted(w) == Least(w.sent + w.window, w.asked)
Mut_RaiseLimit(f, w) == Permitted(w)
RaiseLimit(f, w) == Most(flow[f].limit, Permitted(w))

-----------------------------------------------------------------------------
(* The session task. *)

(* FlowControl::new. *)
new(f, requested) ==
    LET n == Allocation(requested)
    IN  /\ task.w.at = "idle" /\ flow[f].status = "none"
        /\ reserved' = reserved + n
        /\ flow' = [flow EXCEPT ![f] =
               [status |-> "open", limit |-> n, requested_limit |-> n, sent |-> 0, lease |-> n,
                cancelled |-> FALSE]]
        /\ Sender(f, At("check"))
        /\ UNCHANGED <<task, overlapped>>

(* FlowControl::grant.  A limit below the last one fails, and the session  *)
(* resets the transfer: that is cancel.  The same limit does nothing.      *)
grant(f, cumulative_limit) ==
    /\ task.w.at = "idle" /\ Open(f)
    /\ cumulative_limit > flow[f].requested_limit
    /\ Set(f, "requested_limit", cumulative_limit)
    /\ Task(f, [At("sent") EXCEPT !.asked = cumulative_limit])
    /\ UNCHANGED <<reserved, sender, overlapped>>

grant_sent(f) ==
    LET w == task.w
        sent == flow[f].sent
    IN  /\ task.f = f /\ w.at = "sent"
        /\ Task(f, [w EXCEPT !.at = "lease", !.sent = sent, !.window = SatSub(w.asked, sent)])
        /\ overlapped' = (overlapped \/ Here(f, "consume"))
        /\ UNCHANGED <<reserved, flow, sender>>

(* resize_on_grant: shrink, when the lease is larger than what was asked,  *)
(* or grow.                                                                *)
resize_on_grant(f) ==
    LET w == task.w
        current == flow[f].lease
    IN  /\ task.f = f /\ w.at = "lease"
        /\ IF w.window < current
              THEN Task(f, [w EXCEPT !.at = "store", !.bytes = current - w.window])
              ELSE Task(f, [w EXCEPT !.at = "grow"])
        /\ UNCHANGED <<reserved, flow, sender, overlapped>>

grant_store(f) ==
    /\ task.f = f /\ task.w.at = "store"
    /\ Set(f, "lease", task.w.window)
    /\ Task(f, [task.w EXCEPT !.at = "release"])
    /\ UNCHANGED <<reserved, sender, overlapped>>

grant_release(f) ==
    /\ task.f = f /\ task.w.at = "release"
    /\ release(task.w.bytes)
    /\ sender' = Woken(Freed(task.w.bytes), sender)
    /\ Task(f, [task.w EXCEPT !.at = "limit"])
    /\ UNCHANGED <<flow, overlapped>>

grant_grow(f) ==
    /\ task.f = f /\ task.w.at = "grow"
    /\ Task(f, Grow(f, task.w))
    /\ UNCHANGED <<reserved, flow, sender, overlapped>>

grant_reserve(f) ==
    /\ task.f = f /\ task.w.at = "reserve"
    /\ reserved' = reserved + Allocation(task.w.bytes)
    /\ Task(f, Reserved(task.w))
    /\ UNCHANGED <<flow, sender, overlapped>>

grant_add(f) ==
    /\ task.f = f /\ task.w.at = "add"
    /\ Set(f, "lease", flow[f].lease + task.w.bytes)
    /\ Task(f, [task.w EXCEPT !.at = "limit"])
    /\ UNCHANGED <<reserved, sender, overlapped>>

(* fetch_max, and notify_waiters when the limit went up. *)
grant_limit(f) ==
    /\ task.f = f /\ task.w.at = "limit"
    /\ Set(f, "limit", RaiseLimit(f, task.w))
    /\ sender' = Woken(IF Permitted(task.w) > flow[f].limit THEN {f} ELSE {}, sender)
    /\ task' = IdleTask
    /\ UNCHANGED <<reserved, overlapped>>

(* RESET, an invalid grant, TransferFinished: the session forgets the flow *)
(* and cancels it.  The lease is swapped out before it is given back.      *)
Mut_cancel(f) ==
    /\ task.w.at = "idle" /\ Open(f)
    /\ flow' = [flow EXCEPT ![f].status = "removed", ![f].cancelled = TRUE]
    /\ Task(f, [At("freed") EXCEPT !.bytes = flow[f].lease])
    /\ UNCHANGED <<reserved, sender, overlapped>>
cancel(f) ==
    /\ task.w.at = "idle" /\ Open(f)
    /\ flow' = [flow EXCEPT ![f].status = "removed", ![f].cancelled = TRUE, ![f].lease = 0]
    /\ Task(f, [At("freed") EXCEPT !.bytes = flow[f].lease])
    /\ UNCHANGED <<reserved, sender, overlapped>>

cancel_release(f) ==
    /\ task.f = f /\ task.w.at = "freed"
    /\ release(task.w.bytes)
    /\ sender' = Woken(Freed(task.w.bytes) \union {f}, sender)
    /\ task' = IdleTask
    /\ UNCHANGED <<flow, overlapped>>

-----------------------------------------------------------------------------
(* The task spawned for a transfer. *)

(* The top of the loop of available and wait_through: stop when cancelled, *)
(* else refresh_reservation.  sent is this task's own.                     *)
check(f) ==
    LET c == flow[f]
    IN  /\ Here(f, "check")
        /\ Sender(f, IF c.cancelled \/ c.sent = Total THEN At("done")
                     ELSE [At("grow") EXCEPT !.asked = c.requested_limit, !.sent = c.sent,
                                             !.window = SatSub(c.requested_limit, c.sent)])
        /\ UNCHANGED <<reserved, flow, task, overlapped>>

refresh_grow(f) ==
    /\ Here(f, "grow")
    /\ Sender(f, Grow(f, sender[f]))
    /\ UNCHANGED <<reserved, flow, task, overlapped>>

refresh_reserve(f) ==
    /\ Here(f, "reserve")
    /\ reserved' = reserved + Allocation(sender[f].bytes)
    /\ Sender(f, Reserved(sender[f]))
    /\ UNCHANGED <<flow, task, overlapped>>

refresh_add(f) ==
    /\ Here(f, "add")
    /\ Set(f, "lease", flow[f].lease + sender[f].bytes)
    /\ Sender(f, [sender[f] EXCEPT !.at = "limit"])
    /\ overlapped' = (overlapped \/ (task.f = f /\ task.w.at = "store"))
    /\ UNCHANGED <<reserved, task>>

refresh_limit(f) ==
    /\ Here(f, "limit")
    /\ Set(f, "limit", RaiseLimit(f, sender[f]))
    /\ Sender(f, At("load"))
    /\ UNCHANGED <<reserved, task, overlapped>>

(* Enough credit: a chunk or the item goes to the writer, and record_sent  *)
(* raises sent, then takes it from the lease, then gives it back to the    *)
(* budget.                                                                 *)
Chunks(f) ==
    LET room == Least(flow[f].limit, Total) - flow[f].sent
    IN  IF f \in Items THEN {n \in {ItemBytes} : n <= room} ELSE 1 .. room
record_sent(f) ==
    /\ Here(f, "load")
    /\ \E n \in Chunks(f) :
          /\ Set(f, "sent", flow[f].sent + n)
          /\ Sender(f, [At("consume") EXCEPT !.bytes = n])
    /\ overlapped' = (overlapped \/ (task.f = f /\ task.w.at \in Granting))
    /\ UNCHANGED <<reserved, task>>

(* Not enough: the futures to wait on are created after the limit is read. *)
blocked(f) ==
    /\ Here(f, "load") /\ Chunks(f) = {}
    /\ Sender(f, At("wait"))
    /\ UNCHANGED <<reserved, flow, task, overlapped>>

notified(f) ==
    /\ Here(f, "wait")
    /\ Sender(f, At("waiting"))
    /\ UNCHANGED <<reserved, flow, task, overlapped>>

consume(f) ==
    LET n == sender[f].bytes
    IN  /\ Here(f, "consume")
        /\ \/ n > flow[f].lease /\ Sender(f, At("done")) /\ UNCHANGED flow
           \/ /\ n <= flow[f].lease
              /\ Set(f, "lease", flow[f].lease - n)
              /\ Sender(f, [sender[f] EXCEPT !.at = "release"])
        /\ UNCHANGED <<reserved, task, overlapped>>

consume_release(f) ==
    /\ Here(f, "release")
    /\ release(sender[f].bytes)
    /\ sender' = Woken(Flows, [sender EXCEPT ![f] = At("check")])
    /\ UNCHANGED <<flow, task, overlapped>>

(* Both tasks have let go: Drop for CreditLease. *)
drop(f) ==
    /\ Here(f, "done") /\ flow[f].status = "removed" /\ task.f # f
    /\ release(flow[f].lease)
    /\ Set(f, "lease", 0)
    /\ sender' = Woken(Freed(flow[f].lease), [sender EXCEPT ![f] = At("none")])
    /\ UNCHANGED <<task, overlapped>>

-----------------------------------------------------------------------------
Init ==
    /\ reserved = 0
    /\ flow = [f \in Flows |-> [status |-> "none", limit |-> 0, requested_limit |-> 0, sent |-> 0,
                                lease |-> 0, cancelled |-> FALSE]]
    /\ task = IdleTask
    /\ sender = [f \in Flows |-> At("none")]
    /\ overlapped = FALSE

GrantSteps(f) ==
    \/ grant_sent(f) \/ resize_on_grant(f) \/ grant_store(f) \/ grant_release(f) \/ grant_grow(f)
    \/ grant_reserve(f) \/ grant_add(f) \/ grant_limit(f)
SenderSteps(f) ==
    \/ check(f) \/ refresh_grow(f) \/ refresh_reserve(f) \/ refresh_add(f) \/ refresh_limit(f)
    \/ record_sent(f) \/ blocked(f) \/ notified(f) \/ consume(f) \/ consume_release(f) \/ drop(f)
Next ==
    \E f \in Flows :
        \/ \E n \in 0 .. MaxGrant : new(f, n) \/ grant(f, n)
        \/ cancel(f) \/ GrantSteps(f) \/ cancel_release(f) \/ SenderSteps(f)

Spec == Init /\ [][Next]_vars

(* Both tasks are polled when they can run; the client need not grant. *)
FairSpec ==
    /\ Spec
    /\ \A f \in Flows : WF_vars(GrantSteps(f) \/ cancel_release(f)) /\ WF_vars(SenderSteps(f))

-----------------------------------------------------------------------------
(* Properties. *)

(* The atomics and the tasks' local values keep their types. *)
CreditTypeOK ==
    /\ reserved \in 0 .. U64 - 1
    /\ flow \in [Flows -> FlowControl]
    /\ task \in [f : Flows \union {"none"}, w : Work]
    /\ sender \in [Flows -> Work]
    /\ overlapped \in BOOLEAN

(* A transfer never sends past its limit, nor is its limit ever beyond     *)
(* what the client granted, whatever the two tasks read of each other.     *)
WithinGrant ==
    \A f \in Flows : flow[f].sent <= flow[f].limit /\ flow[f].limit <= flow[f].requested_limit

(* "must not revoke already granted credit": the limit of a flow never     *)
(* goes down, although grant and refresh_reservation may both hold a       *)
(* window computed from values that are no longer current.                 *)
NotRevoked == [][\A f \in Flows : flow'[f].limit >= flow[f].limit]_vars

(* Bytes that are reserved but in no lease: just reserved, or about to be  *)
(* given back.                                                             *)
Moving(w) == IF w.at \in {"add", "release", "freed"} THEN w.bytes ELSE 0
Held(f) == flow[f].lease + Moving(sender[f])
Moved == SumFunctionOnSet([f \in Flows |-> Held(f)], Flows) + Moving(task.w)

(* The budget counts the leases exactly: nothing is leaked and nothing is  *)
(* returned twice.                                                         *)
Exact == reserved = Moved

(* All that the flows of a session may still send fits the budget. *)
Capped == SumFunctionOnSet([f \in Flows |-> flow[f].limit - flow[f].sent],
                           {f \in Flows : ~flow[f].cancelled}) <= Maximum

(* record_sent finds what it consumes in the lease, so a transfer that is  *)
(* not cancelled is not cut short.                                         *)
Covered ==
    \A f \in Flows : Here(f, "consume") /\ ~flow[f].cancelled => sender[f].bytes <= flow[f].lease

(* Keeping only the outstanding window in the lease "is what makes the     *)
(* negotiated max_buffered limit aggregate": through every interleaving of *)
(* grants, refreshes, sends, cancels and drops of all flows the accounting *)
(* is exact, the aggregate stays within the budget and no transfer fails,  *)
(* unless a grant overlaps the record_sent of its own flow, or shrinks the *)
(* lease while a refresh_reservation adds to it.                           *)
SoundUnlessOverlapped == ~overlapped => Exact /\ Capped /\ Covered

(* debug_assert!(previous >= bytes) in CreditBudget::release. *)
ReleaseCovered ==
    /\ task.w.at \in {"release", "freed"} => task.w.bytes <= reserved
    /\ \A f \in Flows : Here(f, "release") => sender[f].bytes <= reserved

(* "Chunks follow the receiver's credit, so a window smaller than          *)
(* TRANSFER_CHUNK still makes progress": a transfer whose client has       *)
(* granted all of it is sent, or cancelled.                                *)
GrantedIsSent ==
    \A f \in Flows :
        Open(f) /\ flow[f].requested_limit >= Total
            ~> flow[f].sent = Total \/ flow[f].cancelled
=============================================================================
