--------------------------- MODULE CreditFlowProofs ---------------------------
(***************************************************************************)
(* Proofs about CreditFlow for any flows, budget, item size and grants:    *)
(* types, WithinGrant, NotRevoked and SoundUnlessOverlapped.               *)
(*                                                                         *)
(* The invariant CreditInv is per flow: FlowOK always holds of its         *)
(* FlowControl and what its two tasks have read, CoverOK until something   *)
(* overlaps.  Every operation works on one flow, so each lemma ..._Keeps   *)
(* shows Kept(f), which speaks of that flow and says the others are left   *)
(* alone.  BudgetExact adds the sum over all flows: each lemma             *)
(* ..._Balances shows that the step moves bytes between the budget and f   *)
(* only, and one term of a sum changes by as much as the sum.              *)
(***************************************************************************)
EXTENDS CreditFlow, DataInduction, TLAPS

(* The constants, one by one. *)
LEMMA Constants ==
    /\ Maximum \in Nat /\ U64 \in Nat /\ U64 > 0 /\ Maximum < U64
    /\ ItemBytes \in Nat /\ ItemBytes > 0 /\ Total \in Nat /\ MaxGrant \in Nat
  BY CreditAssumption

(* What CreditBudget::reserve gives: never more than asked, and never past *)
(* the maximum.                                                            *)
LEMMA AllocationFits ==
    ASSUME reserved \in 0 .. U64 - 1, NEW n \in Nat
    PROVE  /\ Allocation(n) \in Nat /\ Allocation(n) <= n
           /\ reserved + Allocation(n) \in 0 .. U64 - 1
  BY Constants DEF Allocation, Least, SatSub

(* CreditBudget::release wraps within 64 bits. *)
LEMMA ReleaseWraps ==
    ASSUME reserved \in 0 .. U64 - 1, NEW n \in Nat, release(n)
    PROVE  reserved' \in 0 .. U64 - 1
  <1>1. reserved - n \in Int /\ U64 \in Nat /\ U64 > 0
    BY Constants
  <1>2. (reserved - n) % U64 \in 0 .. U64 - 1
    BY <1>1
  <1> QED
    BY <1>2 DEF release

(* Changing one field of one flow. *)
LEMMA SetField ==
    ASSUME flow \in [Flows -> FlowControl], NEW f \in Flows, NEW v \in Nat,
           NEW field \in {"limit", "requested_limit", "sent", "lease"}, Set(f, field, v)
    PROVE  /\ flow' \in [Flows -> FlowControl]
           /\ \A g \in Flows : g # f => flow'[g] = flow[g]
           /\ flow'[f].status = flow[f].status /\ flow'[f].cancelled = flow[f].cancelled
           /\ flow'[f].limit = IF field = "limit" THEN v ELSE flow[f].limit
           /\ flow'[f].requested_limit =
                  IF field = "requested_limit" THEN v ELSE flow[f].requested_limit
           /\ flow'[f].sent = IF field = "sent" THEN v ELSE flow[f].sent
           /\ flow'[f].lease = IF field = "lease" THEN v ELSE flow[f].lease
  <1> DEFINE r == [flow[f] EXCEPT ![field] = v]
  <1>1. flow[f] \in FlowControl /\ flow' = [flow EXCEPT ![f] = r]
    BY DEF Set
  <1>2. /\ r \in FlowControl
        /\ r.status = flow[f].status /\ r.cancelled = flow[f].cancelled
        /\ r.limit = IF field = "limit" THEN v ELSE flow[f].limit
        /\ r.requested_limit = IF field = "requested_limit" THEN v ELSE flow[f].requested_limit
        /\ r.sent = IF field = "sent" THEN v ELSE flow[f].sent
        /\ r.lease = IF field = "lease" THEN v ELSE flow[f].lease
    <2>1. CASE field = "limit"
      BY <1>1, <2>1 DEF FlowControl
    <2>2. CASE field = "requested_limit"
      BY <1>1, <2>2 DEF FlowControl
    <2>3. CASE field = "sent"
      BY <1>1, <2>3 DEF FlowControl
    <2>4. CASE field = "lease"
      BY <1>1, <2>4 DEF FlowControl
    <2> QED
      BY <2>1, <2>2, <2>3, <2>4
  <1> HIDE DEF r
  <1> QED
    BY <1>1, <1>2

-----------------------------------------------------------------------------
(* The inductive invariant. *)

(* The session task, as far as it is at work on f. *)
TaskOf(f) == IF task.f = f THEN task.w ELSE At("idle")

(* Whatever either task has read, it asks for no more than was granted.    *)
FlowOK(c, w, t) ==
    /\ c.sent <= c.limit /\ c.limit <= c.requested_limit
    /\ w.asked <= c.requested_limit /\ t.asked <= c.requested_limit
    /\ t.at = "idle" => t.asked = 0
    /\ c.status = "none" => c.limit = 0 /\ c.lease = 0 /\ w.at = "none" /\ t.at = "idle"
    /\ c.status = "open" => ~c.cancelled
    /\ t.at \notin {"idle", "freed"} => c.status = "open"
    /\ c.status = "removed" => c.cancelled

(* Unless a grant and a record_sent overlapped, the lease holds all that   *)
(* may still be sent and all that either task is about to permit, with     *)
(* what it is about to add.                                                *)
InFlight(w) == IF w.at = "consume" THEN w.bytes ELSE 0
Reaches(c, w) ==
    /\ w.at \in {"reserve", "limit"} => Permitted(w) <= c.lease + c.sent
    /\ w.at = "add" => Permitted(w) <= c.lease + c.sent + w.bytes
CoverOK(c, w, t) ==
    ~c.cancelled =>
        /\ c.limit + InFlight(w) <= c.lease + c.sent
        /\ w.at \in {"grow", "reserve", "add", "limit"} => w.sent = c.sent
        /\ Reaches(c, w) /\ Reaches(c, t)
        /\ t.at = "release" => Permitted(t) <= c.lease + c.sent
        /\ t.at = "sent" => t.asked = c.requested_limit
        /\ t.at \in Granting => /\ t.asked = c.requested_limit /\ t.sent = c.sent
                                /\ w.at # "consume"
        /\ t.at \in {"lease", "store"} => t.sent + t.window = t.asked
        /\ t.at = "store" => c.lease = t.window + t.bytes

FlowsOK == \A f \in Flows : FlowOK(flow[f], sender[f], TaskOf(f))
FlowsCovered == ~overlapped => \A f \in Flows : CoverOK(flow[f], sender[f], TaskOf(f))
CreditInv == CreditTypeOK /\ FlowsOK /\ FlowsCovered

-----------------------------------------------------------------------------
(* What a step of either task does to a flow, and to the others. *)

LEMMA AtWork ==
    ASSUME NEW p \in Places
    PROVE  /\ At(p) \in Work /\ At(p).at = p /\ At(p).asked = 0 /\ At(p).bytes = 0
           /\ At(p).sent = 0 /\ At(p).window = 0
  BY DEF At, Work, Places

(* notify_waiters only ever sends a waiting task back to its check. *)
Stirred(v, w) == v = w \/ (w.at = "waiting" /\ v = At("check"))

LEMMA WokenStirs ==
    ASSUME NEW s \in [Flows -> Work], NEW F, sender' = Woken(F, s)
    PROVE  sender' \in [Flows -> Work] /\ \A g \in Flows : Stirred(sender'[g], s[g])
  <1>1. At("check") \in Work
    BY AtWork DEF Places
  <1> HIDE DEF Work
  <1> QED
    BY <1>1 DEF Woken, Stirred

LEMMA StirredKeeps ==
    ASSUME NEW c \in FlowControl, NEW w \in Work, NEW t \in Work, NEW v, Stirred(v, w)
    PROVE  /\ FlowOK(c, w, t) => FlowOK(c, v, t)
           /\ CoverOK(c, w, t) => CoverOK(c, v, t)
  <1>1. At("check") \in Work /\ At("check").at = "check" /\ At("check").asked = 0
    BY AtWork DEF Places
  <1> QED
    BY <1>1 DEF Stirred, FlowOK, CoverOK, InFlight, Reaches, FlowControl, Work

LEMMA IdleKeeps ==
    ASSUME NEW c \in FlowControl, NEW w \in Work, NEW t \in Work
    PROVE  /\ FlowOK(c, w, t) => FlowOK(c, w, At("idle"))
           /\ CoverOK(c, w, t) => CoverOK(c, w, At("idle"))
  <1>1. At("idle") \in Work /\ At("idle").at = "idle" /\ At("idle").asked = 0
    BY AtWork DEF Places
  <1> QED
    BY <1>1 DEF FlowOK, CoverOK, InFlight, Reaches, FlowControl, Work, Granting

LEMMA TaskWork ==
    ASSUME CreditTypeOK
    PROVE  \A f : TaskOf(f) \in Work
  <1>1. task.w \in Work /\ At("idle") \in Work
    BY AtWork DEF CreditTypeOK, Places
  <1> QED
    BY <1>1 DEF TaskOf

(* A step on f: the other flows are as they were, but for a waiting task   *)
(* woken and the session task turned away from them.                       *)
Others(f) ==
    \A g \in Flows : g # f =>
        /\ flow'[g] = flow[g] /\ Stirred(sender'[g], sender[g])
        /\ TaskOf(g)' \in {TaskOf(g), At("idle")}
Kept(f) ==
    /\ CreditTypeOK' /\ Others(f) /\ (overlapped => overlapped')
    /\ FlowOK(flow'[f], sender'[f], TaskOf(f)')
    /\ overlapped' \/ CoverOK(flow'[f], sender'[f], TaskOf(f)')

LEMMA KeptIsEnough ==
    ASSUME CreditInv, NEW f \in Flows, Kept(f)
    PROVE  CreditInv'
  <1>1. CreditTypeOK /\ CreditTypeOK' /\ \A g : TaskOf(g) \in Work
    BY TaskWork DEF CreditInv, Kept
  <1>2. ASSUME NEW g \in Flows, g # f
        PROVE  /\ FlowOK(flow'[g], sender'[g], TaskOf(g)')
               /\ overlapped' \/ CoverOK(flow'[g], sender'[g], TaskOf(g)')
    <2>1. /\ flow[g] \in FlowControl /\ sender[g] \in Work /\ TaskOf(g) \in Work
          /\ sender'[g] \in Work
      BY <1>1 DEF CreditTypeOK
    <2>2. /\ flow'[g] = flow[g] /\ Stirred(sender'[g], sender[g])
          /\ TaskOf(g)' \in {TaskOf(g), At("idle")}
      BY <1>2 DEF Kept, Others
    <2>3. /\ FlowOK(flow[g], sender[g], TaskOf(g))
          /\ overlapped \/ CoverOK(flow[g], sender[g], TaskOf(g))
      BY DEF CreditInv, FlowsOK, FlowsCovered
    <2>4. /\ FlowOK(flow[g], sender'[g], TaskOf(g))
          /\ overlapped \/ CoverOK(flow[g], sender'[g], TaskOf(g))
      BY <2>1, <2>2, <2>3, StirredKeeps
    <2>5. /\ FlowOK(flow[g], sender'[g], At("idle"))
          /\ overlapped \/ CoverOK(flow[g], sender'[g], At("idle"))
      BY <2>1, <2>4, IdleKeeps
    <2> QED
      BY <2>2, <2>4, <2>5, Zenon DEF Kept
  <1>3. FlowsOK'
    BY <1>2, Zenon DEF Kept, FlowsOK
  <1>4. FlowsCovered'
    BY <1>2, Zenon DEF Kept, FlowsCovered
  <1> QED
    BY <1>1, <1>3, <1>4 DEF CreditInv

-----------------------------------------------------------------------------
(* One lemma per operation: it keeps the invariant. *)

LEMMA Here0 ==
    ASSUME CreditInv, NEW f \in Flows
    PROVE  /\ flow \in [Flows -> FlowControl] /\ sender \in [Flows -> Work]
           /\ task \in [f : Flows \union {"none"}, w : Work]
           /\ flow[f] \in FlowControl /\ sender[f] \in Work /\ TaskOf(f) \in Work
           /\ reserved \in 0 .. U64 - 1 /\ overlapped \in BOOLEAN
           /\ FlowOK(flow[f], sender[f], TaskOf(f))
           /\ overlapped \/ CoverOK(flow[f], sender[f], TaskOf(f))
  BY TaskWork DEF CreditInv, CreditTypeOK, FlowsOK, FlowsCovered

(* The session task moves on in f, or is done with it. *)
LEMMA TaskMoves ==
    ASSUME NEW f \in Flows, NEW w \in Work, Task(f, w), task.f = f \/ task.w.at = "idle"
    PROVE  /\ task' \in [f : Flows \union {"none"}, w : Work] /\ TaskOf(f)' = w
           /\ \A g \in Flows : g # f => TaskOf(g)' = At("idle")
  BY DEF Task, TaskOf

LEMMA TaskRests ==
    ASSUME task' = IdleTask
    PROVE  /\ task' \in [f : Flows \union {"none"}, w : Work]
           /\ \A g \in Flows : TaskOf(g)' = At("idle")
  <1>1. At("idle") \in Work
    BY AtWork DEF Places
  <1> QED
    BY <1>1 DEF IdleTask, TaskOf

LEMMA SenderMoves ==
    ASSUME NEW f \in Flows, sender \in [Flows -> Work], NEW w \in Work, Sender(f, w)
    PROVE  /\ sender' \in [Flows -> Work] /\ sender'[f] = w
           /\ \A g \in Flows : g # f => sender'[g] = sender[g]
  BY DEF Sender

LEMMA new_Keeps ==
    ASSUME CreditInv, NEW f \in Flows, NEW n \in 0 .. MaxGrant, new(f, n)
    PROVE  Kept(f)
  <1> DEFINE a == Allocation(n)
  <1> DEFINE c == [status |-> "open", limit |-> a, requested_limit |-> a, sent |-> 0, lease |-> a,
                   cancelled |-> FALSE]
  <1>1. n \in Nat /\ a \in Nat /\ reserved + a \in 0 .. U64 - 1
    BY Here0, AllocationFits, Constants
  <1>2. /\ c \in FlowControl /\ c.limit = a /\ c.requested_limit = a /\ c.sent = 0 /\ c.lease = a
        /\ c.status = "open" /\ ~c.cancelled
    BY <1>1 DEF FlowControl
  <1>3. /\ reserved' = reserved + a /\ flow' = [flow EXCEPT ![f] = c] /\ Sender(f, At("check"))
        /\ UNCHANGED <<task, overlapped>> /\ task.w.at = "idle"
    BY DEF new
  <1> HIDE DEF c, a
  <1>4. At("check") \in Work /\ At("check").at = "check" /\ At("check").asked = 0
    BY AtWork DEF Places
  <1>5. /\ sender' \in [Flows -> Work] /\ sender'[f] = At("check")
        /\ \A g \in Flows : g # f => sender'[g] = sender[g]
    BY <1>3, <1>4, Here0, SenderMoves
  <1>6. /\ flow' \in [Flows -> FlowControl] /\ flow'[f] = c
        /\ \A g \in Flows : g # f => flow'[g] = flow[g]
    BY <1>2, <1>3, Here0
  <1>7. \A g : TaskOf(g)' = TaskOf(g)
    BY <1>3 DEF TaskOf
  <1>8. CreditTypeOK'
    BY <1>1, <1>3, <1>5, <1>6, Here0 DEF CreditTypeOK
  <1>9. TaskOf(f) \in Work /\ TaskOf(f).at = "idle" /\ TaskOf(f).asked = 0
    <2>1. TaskOf(f).at = "idle"
      BY <1>3 DEF TaskOf, At
    <2> QED
      BY <2>1, Here0 DEF FlowOK
  <1>10. FlowOK(c, At("check"), TaskOf(f)) /\ CoverOK(c, At("check"), TaskOf(f))
    BY <1>1, <1>2, <1>4, <1>9 DEF FlowOK, CoverOK, InFlight, Reaches, Granting
  <1>11. Others(f)
    BY <1>5, <1>6, <1>7 DEF Others, Stirred
  <1> QED
    BY <1>3, <1>5, <1>6, <1>7, <1>8, <1>10, <1>11 DEF Kept

(* Whatever becomes of f, the other flows and tasks are left alone. *)
LEMMA SessionStep ==
    ASSUME CreditInv, NEW f \in Flows, NEW w \in Work, Task(f, w),
           task.f = f \/ task.w.at = "idle",
           reserved' \in 0 .. U64 - 1, flow' \in [Flows -> FlowControl],
           \A g \in Flows : g # f => flow'[g] = flow[g],
           sender' \in [Flows -> Work], \A g \in Flows : Stirred(sender'[g], sender[g]),
           overlapped' \in BOOLEAN, overlapped => overlapped',
           FlowOK(flow'[f], sender[f], w), overlapped' \/ CoverOK(flow'[f], sender[f], w)
    PROVE  Kept(f)
  <1>1. /\ task' \in [f : Flows \union {"none"}, w : Work] /\ TaskOf(f)' = w
        /\ \A g \in Flows : g # f => TaskOf(g)' = At("idle")
    BY TaskMoves
  <1>2. CreditTypeOK'
    BY <1>1 DEF CreditTypeOK
  <1>3. Others(f)
    BY <1>1 DEF Others
  <1>4. /\ FlowOK(flow'[f], sender'[f], w)
        /\ overlapped' \/ CoverOK(flow'[f], sender'[f], w)
    BY Here0, StirredKeeps
  <1> QED
    BY <1>1, <1>2, <1>3, <1>4 DEF Kept

LEMMA SessionLast ==
    ASSUME CreditInv, NEW f \in Flows, task' = IdleTask,
           reserved' \in 0 .. U64 - 1, flow' \in [Flows -> FlowControl],
           \A g \in Flows : g # f => flow'[g] = flow[g],
           sender' \in [Flows -> Work], \A g \in Flows : Stirred(sender'[g], sender[g]),
           UNCHANGED overlapped,
           FlowOK(flow'[f], sender[f], At("idle")),
           overlapped \/ CoverOK(flow'[f], sender[f], At("idle"))
    PROVE  Kept(f)
  <1>1. /\ task' \in [f : Flows \union {"none"}, w : Work]
        /\ \A g \in Flows : TaskOf(g)' = At("idle")
    BY TaskRests
  <1>2. CreditTypeOK'
    BY <1>1, Here0 DEF CreditTypeOK
  <1>3. Others(f)
    BY <1>1 DEF Others
  <1>4. /\ At("idle") \in Work /\ FlowOK(flow'[f], sender'[f], At("idle"))
        /\ overlapped \/ CoverOK(flow'[f], sender'[f], At("idle"))
    BY Here0, StirredKeeps, AtWork DEF Places
  <1> QED
    BY <1>1, <1>2, <1>3, <1>4 DEF Kept

LEMMA SenderStep ==
    ASSUME CreditInv, NEW f \in Flows, NEW s \in [Flows -> Work], NEW w \in Work,
           s = [sender EXCEPT ![f] = w],
           sender' \in [Flows -> Work], \A g \in Flows : Stirred(sender'[g], s[g]),
           UNCHANGED task,
           reserved' \in 0 .. U64 - 1, flow' \in [Flows -> FlowControl],
           \A g \in Flows : g # f => flow'[g] = flow[g],
           overlapped' \in BOOLEAN, overlapped => overlapped',
           FlowOK(flow'[f], w, TaskOf(f)), overlapped' \/ CoverOK(flow'[f], w, TaskOf(f))
    PROVE  Kept(f)
  <1>1. \A g : TaskOf(g)' = TaskOf(g)
    BY DEF TaskOf
  <1>2. CreditTypeOK'
    BY Here0 DEF CreditTypeOK
  <1>3. Others(f)
    BY <1>1, Here0 DEF Others
  <1>4. /\ FlowOK(flow'[f], sender'[f], TaskOf(f))
        /\ overlapped' \/ CoverOK(flow'[f], sender'[f], TaskOf(f))
    BY Here0, StirredKeeps
  <1> QED
    BY <1>1, <1>2, <1>3, <1>4 DEF Kept

LEMMA Unstirred ==
    \A s : s \in [Flows -> Work] => \A g \in Flows : Stirred(s[g], s[g])
  BY DEF Stirred

(* FlowControl::grant and what follows it. *)
LEMMA grant_Keeps ==
    ASSUME CreditInv, NEW f \in Flows, NEW n \in 0 .. MaxGrant, grant(f, n)
    PROVE  Kept(f)
  <1> DEFINE w == [At("sent") EXCEPT !.asked = n]
  <1>1. /\ w \in Work /\ w.at = "sent" /\ w.asked = n /\ n \in Nat
    BY Constants DEF At, Work, Places
  <1>2. /\ task.w.at = "idle" /\ n > flow[f].requested_limit /\ Set(f, "requested_limit", n)
        /\ Task(f, w) /\ UNCHANGED <<reserved, sender, overlapped>> /\ flow[f].status = "open"
    BY DEF grant, Open
  <1> HIDE DEF w
  <1>3. /\ flow' \in [Flows -> FlowControl] /\ \A g \in Flows : g # f => flow'[g] = flow[g]
        /\ flow'[f].status = flow[f].status /\ flow'[f].cancelled = flow[f].cancelled
        /\ flow'[f].limit = flow[f].limit /\ flow'[f].requested_limit = n
        /\ flow'[f].sent = flow[f].sent /\ flow'[f].lease = flow[f].lease
    BY <1>1, <1>2, Here0, SetField
  <1>4. flow[f] \in FlowControl /\ flow'[f] \in FlowControl /\ sender[f] \in Work
    BY <1>3, Here0
  <1>5. FlowOK(flow'[f], sender[f], w)
    <2>1. FlowOK(flow[f], sender[f], TaskOf(f))
      BY Here0
    <2> QED
      BY <1>1, <1>2, <1>3, <1>4, <2>1 DEF FlowOK, FlowControl, Work
  <1>6. overlapped \/ CoverOK(flow'[f], sender[f], w)
    <2>1. overlapped \/ CoverOK(flow[f], sender[f], TaskOf(f))
      BY Here0
    <2> QED
      BY <1>1, <1>3, <1>4, <2>1 DEF CoverOK, InFlight, Reaches, Granting
  <1>7. \A g \in Flows : Stirred(sender'[g], sender[g])
    BY <1>2, Here0, Unstirred
  <1> QED
    BY <1>1, <1>2, <1>3, <1>5, <1>6, <1>7, Here0, SessionStep

(* The session task only looks, and decides what to do next. *)
LEMMA SessionLooks ==
    ASSUME CreditInv, NEW f \in Flows, NEW w \in Work, task.f = f, Task(f, w),
           UNCHANGED <<flow, sender>>, reserved' \in 0 .. U64 - 1,
           overlapped' \in BOOLEAN, overlapped => overlapped',
           w.asked = task.w.asked, w.at # "idle", task.w.at \notin {"idle", "freed"},
           overlapped' \/ CoverOK(flow[f], sender[f], w)
    PROVE  Kept(f)
  <1>1. FlowOK(flow[f], sender[f], w)
    <2>1. FlowOK(flow[f], sender[f], TaskOf(f)) /\ TaskOf(f) = task.w
      BY Here0 DEF TaskOf
    <2> QED
      BY <2>1 DEF FlowOK
  <1>2. \A g \in Flows : Stirred(sender'[g], sender[g])
    BY Here0, Unstirred
  <1> QED
    BY <1>1, <1>2, Here0, SessionStep

LEMMA TaskHere ==
    ASSUME CreditInv, NEW f \in Flows, task.f = f
    PROVE  /\ flow[f] \in FlowControl /\ sender[f] \in Work /\ task.w \in Work
           /\ TaskOf(f) = task.w
           /\ FlowOK(flow[f], sender[f], task.w)
           /\ overlapped \/ CoverOK(flow[f], sender[f], task.w)
  <1>1. TaskOf(f) = task.w
    BY DEF TaskOf
  <1> QED
    BY <1>1, Here0

LEMMA grant_sent_Keeps ==
    ASSUME CreditInv, NEW f \in Flows, grant_sent(f)
    PROVE  Kept(f)
  <1> DEFINE t == task.w
             c == flow[f]
             w == [t EXCEPT !.at = "lease", !.sent = c.sent, !.window = SatSub(t.asked, c.sent)]
  <1>1. /\ c \in FlowControl /\ sender[f] \in Work /\ t \in Work
        /\ FlowOK(c, sender[f], t) /\ (overlapped \/ CoverOK(c, sender[f], t))
    BY TaskHere DEF grant_sent
  <1>2. c.sent \in Nat /\ t.asked \in Nat /\ SatSub(t.asked, c.sent) \in Nat
        /\ (c.sent <= t.asked => c.sent + SatSub(t.asked, c.sent) = t.asked)
    BY <1>1 DEF FlowControl, Work, SatSub
  <1>3. /\ w \in Work /\ w.at = "lease" /\ w.asked = t.asked /\ w.sent = c.sent
        /\ w.window = SatSub(t.asked, c.sent)
    BY <1>1, <1>2 DEF Work, Places
  <1>4. /\ task.f = f /\ t.at = "sent" /\ Task(f, w)
        /\ overlapped' = (overlapped \/ sender[f].at = "consume")
        /\ UNCHANGED <<reserved, flow, sender>>
    BY DEF grant_sent, Here
  <1> HIDE DEF w, t, c
  <1>5. overlapped' \/ CoverOK(c, sender[f], w)
    <2>1. c.sent <= c.limit /\ c.limit <= c.requested_limit
      BY <1>1 DEF FlowOK
    <2>2. c.limit \in Nat /\ c.requested_limit \in Nat
      BY <1>1 DEF FlowControl
    <2>3. c.sent <= c.requested_limit
      BY <1>2, <2>1, <2>2
    <2> QED
      BY <1>1, <1>2, <1>3, <1>4, <2>3 DEF CoverOK, InFlight, Reaches, Granting
  <1>6. /\ reserved' \in 0 .. U64 - 1 /\ overlapped' \in BOOLEAN /\ (overlapped => overlapped')
    BY <1>4, Here0
  <1> QED
    BY <1>3, <1>4, <1>5, <1>6, SessionLooks DEF c, t

LEMMA resize_on_grant_Keeps ==
    ASSUME CreditInv, NEW f \in Flows, resize_on_grant(f)
    PROVE  Kept(f)
  <1> DEFINE t == task.w
             c == flow[f]
             v == [t EXCEPT !.at = "store", !.bytes = c.lease - t.window]
             w == [t EXCEPT !.at = "grow"]
  <1>1. /\ c \in FlowControl /\ sender[f] \in Work /\ t \in Work
        /\ FlowOK(c, sender[f], t) /\ (overlapped \/ CoverOK(c, sender[f], t))
    BY TaskHere DEF resize_on_grant
  <1>2. /\ task.f = f /\ t.at = "lease" /\ UNCHANGED <<reserved, flow, sender, overlapped>>
        /\ IF t.window < c.lease THEN Task(f, v) ELSE Task(f, w)
    BY DEF resize_on_grant
  <1>3. /\ w \in Work /\ w.at = "grow" /\ w.asked = t.asked /\ w.sent = t.sent
        /\ w.window = t.window
    BY <1>1 DEF Work, Places
  <1>4. ASSUME t.window < c.lease
        PROVE  /\ v \in Work /\ v.at = "store" /\ v.asked = t.asked /\ v.sent = t.sent
               /\ v.window = t.window /\ c.lease = v.window + v.bytes
    <2>1. c.lease \in Nat /\ t.window \in Nat
      BY <1>1 DEF Work, FlowControl
    <2>2. c.lease - t.window \in Nat /\ c.lease = t.window + (c.lease - t.window)
      BY <1>4, <2>1
    <2> QED
      BY <1>1, <2>2 DEF Work, Places
  <1> HIDE DEF w, t, c, v
  <1>5. overlapped \/ CoverOK(c, sender[f], w)
    BY <1>1, <1>2, <1>3 DEF CoverOK, InFlight, Reaches, Granting
  <1>6. /\ reserved' \in 0 .. U64 - 1 /\ overlapped' \in BOOLEAN /\ (overlapped => overlapped')
        /\ overlapped' = overlapped
    BY <1>2, Here0
  <1>7. CASE t.window < c.lease
    <2>1. overlapped \/ CoverOK(c, sender[f], v)
      BY <1>1, <1>2, <1>4, <1>7 DEF CoverOK, InFlight, Reaches, Granting
    <2> QED
      BY <1>2, <1>4, <1>6, <1>7, <2>1, SessionLooks DEF c, t
  <1>8. CASE ~(t.window < c.lease)
    BY <1>2, <1>3, <1>5, <1>6, <1>8, SessionLooks DEF c, t
  <1> QED
    BY <1>7, <1>8

(* Storing a smaller lease leaves it as large as what was asked for. *)
LEMMA grant_store_Keeps ==
    ASSUME CreditInv, NEW f \in Flows, grant_store(f)
    PROVE  Kept(f)
  <1> DEFINE t == task.w
             w == [t EXCEPT !.at = "release"]
  <1>1. /\ flow[f] \in FlowControl /\ sender[f] \in Work /\ t \in Work
        /\ FlowOK(flow[f], sender[f], t) /\ (overlapped \/ CoverOK(flow[f], sender[f], t))
    BY TaskHere DEF grant_store
  <1>2. /\ task.f = f /\ t.at = "store" /\ Set(f, "lease", t.window) /\ Task(f, w)
        /\ UNCHANGED <<reserved, sender, overlapped>>
    BY DEF grant_store
  <1>3. /\ w \in Work /\ w.at = "release" /\ w.asked = t.asked /\ w.sent = t.sent
        /\ w.window = t.window /\ t.window \in Nat /\ t.asked \in Nat /\ t.sent \in Nat
    BY <1>1 DEF Work, Places
  <1> HIDE DEF w, t
  <1>4. /\ flow' \in [Flows -> FlowControl] /\ \A g \in Flows : g # f => flow'[g] = flow[g]
        /\ flow'[f].status = flow[f].status /\ flow'[f].cancelled = flow[f].cancelled
        /\ flow'[f].limit = flow[f].limit /\ flow'[f].requested_limit = flow[f].requested_limit
        /\ flow'[f].sent = flow[f].sent /\ flow'[f].lease = t.window
    BY <1>2, <1>3, Here0, SetField
  <1> DEFINE c == flow[f]
             d == flow'[f]
             s == sender[f]
  <1>5. c \in FlowControl /\ d \in FlowControl
    BY <1>1, <1>4
  <1> HIDE DEF c, d, s
  <1>6. /\ d.status = c.status /\ d.cancelled = c.cancelled /\ d.limit = c.limit
        /\ d.requested_limit = c.requested_limit /\ d.sent = c.sent /\ d.lease = t.window
        /\ s \in Work /\ FlowOK(c, s, t) /\ (overlapped \/ CoverOK(c, s, t))
    BY <1>1, <1>4 DEF c, d, s
  <1>7. FlowOK(d, s, w)
    BY <1>2, <1>3, <1>5, <1>6 DEF FlowOK
  <1>8. ASSUME ~overlapped PROVE CoverOK(d, s, w)
    <2> SUFFICES ASSUME ~d.cancelled PROVE CoverOK(d, s, w)
      BY DEF CoverOK
    <2>1. /\ t.asked = c.requested_limit /\ t.sent = c.sent /\ s.at # "consume"
          /\ t.sent + t.window = t.asked
          /\ s.at \in {"grow", "reserve", "add", "limit"} => s.sent = c.sent
      BY <1>2, <1>6, <1>8 DEF CoverOK, Granting
    <2>2. d.lease + d.sent = d.requested_limit
      BY <1>3, <1>6, <2>1
    <2>3. /\ d.limit \in Nat /\ d.requested_limit \in Nat /\ d.lease \in Nat /\ d.sent \in Nat
          /\ s.asked \in Nat /\ s.sent \in Nat /\ s.window \in Nat /\ s.bytes \in Nat
          /\ d.limit <= d.requested_limit /\ s.asked <= d.requested_limit
      BY <1>5, <1>6 DEF FlowControl, Work, FlowOK
    <2>4. Permitted(s) \in Nat /\ Permitted(s) <= d.lease + d.sent
          /\ Permitted(w) <= d.lease + d.sent
      BY <1>3, <1>6, <2>1, <2>2, <2>3 DEF Permitted, Least
    <2>5. InFlight(s) = 0 /\ Reaches(d, s)
      BY <2>1, <2>3, <2>4 DEF InFlight, Reaches
    <2>6. d.limit + InFlight(s) <= d.lease + d.sent
      BY <2>2, <2>3, <2>5
    <2> QED
      BY <1>3, <1>6, <2>1, <2>4, <2>5, <2>6 DEF CoverOK, Reaches
  <1>9. /\ \A g \in Flows : Stirred(sender'[g], sender[g])
        /\ reserved' \in 0 .. U64 - 1 /\ overlapped' \in BOOLEAN /\ (overlapped => overlapped')
        /\ sender' \in [Flows -> Work]
    BY <1>2, Here0, Unstirred
  <1>10. FlowOK(flow'[f], sender[f], w) /\ (overlapped' \/ CoverOK(flow'[f], sender[f], w))
    BY <1>2, <1>7, <1>8 DEF d, s
  <1> QED
    BY <1>2, <1>3, <1>4, <1>9, <1>10, SessionStep

LEMMA grant_release_Keeps ==
    ASSUME CreditInv, NEW f \in Flows, grant_release(f)
    PROVE  Kept(f)
  <1> DEFINE t == task.w
             c == flow[f]
             w == [t EXCEPT !.at = "limit"]
  <1>1. /\ c \in FlowControl /\ sender[f] \in Work /\ t \in Work
        /\ FlowOK(c, sender[f], t) /\ (overlapped \/ CoverOK(c, sender[f], t))
    BY TaskHere DEF grant_release
  <1>2. /\ task.f = f /\ t.at = "release" /\ release(t.bytes) /\ Task(f, w)
        /\ sender' = Woken(Freed(t.bytes), sender) /\ UNCHANGED <<flow, overlapped>>
    BY DEF grant_release
  <1>3. /\ w \in Work /\ w.at = "limit" /\ w.asked = t.asked /\ w.sent = t.sent
        /\ w.window = t.window /\ t.bytes \in Nat
    BY <1>1 DEF Work, Places
  <1> HIDE DEF w, t, c
  <1>4. Permitted(w) = Permitted(t)
    BY <1>3 DEF Permitted
  <1>5. FlowOK(c, sender[f], w) /\ (overlapped \/ CoverOK(c, sender[f], w))
    BY <1>1, <1>2, <1>3, <1>4 DEF FlowOK, CoverOK, Reaches, Granting
  <1>6. reserved' \in 0 .. U64 - 1
    BY <1>2, <1>3, Here0, ReleaseWraps
  <1>7. sender' \in [Flows -> Work] /\ \A g \in Flows : Stirred(sender'[g], sender[g])
    BY <1>2, Here0, WokenStirs
  <1>8. FlowOK(flow'[f], sender[f], w) /\ (overlapped' \/ CoverOK(flow'[f], sender[f], w))
    BY <1>2, <1>5 DEF c
  <1>9. /\ flow' \in [Flows -> FlowControl] /\ \A g \in Flows : g # f => flow'[g] = flow[g]
        /\ overlapped' \in BOOLEAN /\ (overlapped => overlapped')
    BY <1>2, Here0
  <1> QED
    BY <1>2, <1>3, <1>6, <1>7, <1>8, <1>9, SessionStep

(* CreditLease::grow_to, whichever task runs it. *)
LEMMA GrowFits ==
    ASSUME NEW f \in Flows, flow[f] \in FlowControl, NEW w \in Work
    PROVE  /\ Grow(f, w) \in Work /\ Grow(f, w).at \in {"limit", "reserve"}
           /\ Grow(f, w).asked = w.asked /\ Grow(f, w).sent = w.sent
           /\ Grow(f, w).window = flow[f].lease
  <1> DEFINE l == flow[f].lease
             u == [w EXCEPT !.at = "limit", !.window = l]
             v == [w EXCEPT !.at = "reserve", !.window = l, !.bytes = w.window - l]
  <1>1. l \in Nat /\ w.window \in Nat
    BY DEF FlowControl, Work
  <1>2. Grow(f, w) = IF w.window <= l THEN u ELSE v
    BY DEF Grow
  <1> HIDE DEF l
  <1>3. /\ u \in Work /\ u.at = "limit" /\ u.asked = w.asked /\ u.sent = w.sent /\ u.window = l
    BY <1>1 DEF Work, Places
  <1>4. ASSUME ~(w.window <= l)
        PROVE  /\ v \in Work /\ v.at = "reserve" /\ v.asked = w.asked /\ v.sent = w.sent
               /\ v.window = l
    <2>1. w.window - l \in Nat
      BY <1>1, <1>4
    <2> QED
      BY <1>1, <2>1 DEF Work, Places
  <1> HIDE DEF u, v
  <1> QED
    BY <1>2, <1>3, <1>4 DEF l

LEMMA ReservedFits ==
    ASSUME NEW w \in Work, reserved \in 0 .. U64 - 1
    PROVE  /\ Reserved(w) \in Work /\ Reserved(w).at \in {"limit", "add"}
           /\ Reserved(w).asked = w.asked /\ Reserved(w).sent = w.sent
           /\ Reserved(w).window = w.window + Reserved(w).bytes
           /\ Reserved(w).at = "limit" => Reserved(w).bytes = 0
           /\ reserved + Allocation(w.bytes) \in 0 .. U64 - 1
  <1> DEFINE n == Allocation(w.bytes)
             v == [w EXCEPT !.at = IF n = 0 THEN "limit" ELSE "add", !.window = @ + n, !.bytes = n]
  <1>1. w.bytes \in Nat /\ w.window \in Nat
    BY DEF Work
  <1>2. n \in Nat /\ reserved + n \in 0 .. U64 - 1
    BY <1>1, AllocationFits
  <1>3. Reserved(w) = v
    BY DEF Reserved
  <1> HIDE DEF n
  <1>4. w.window + n \in Nat
    BY <1>1, <1>2
  <1>5. /\ v \in Work /\ v.at = (IF n = 0 THEN "limit" ELSE "add") /\ v.asked = w.asked
        /\ v.sent = w.sent /\ v.window = w.window + n /\ v.bytes = n
    BY <1>2, <1>4 DEF Work, Places
  <1> HIDE DEF v
  <1>6. n = 0 \/ n # 0
    OBVIOUS
  <1>7. v.at \in {"limit", "add"} /\ (v.at = "limit" => n = 0)
    BY <1>5
  <1> QED
    BY <1>2, <1>3, <1>5, <1>7 DEF n

(* What it permits stays within the lease it read and what it adds to it.  *)
LEMMA GrowReaches ==
    ASSUME NEW c \in FlowControl, NEW w \in Work, w.sent = c.sent, w.window = c.lease,
           w.at \in {"limit", "reserve"}
    PROVE  Reaches(c, w)
  <1>1. c.sent \in Nat /\ c.lease \in Nat /\ w.asked \in Nat
    BY DEF FlowControl, Work
  <1>2. \A a, b, e \in Nat : Least(a + b, e) <= b + a
    BY DEF Least
  <1>3. Permitted(w) <= c.lease + c.sent
    BY <1>1, <1>2 DEF Permitted
  <1> QED
    BY <1>3 DEF Reaches

LEMMA ReserveReaches ==
    ASSUME NEW c \in FlowControl, NEW w \in Work, NEW v \in Work, w.at = "reserve", Reaches(c, w),
           v.at \in {"limit", "add"}, v.asked = w.asked, v.sent = w.sent,
           v.window = w.window + v.bytes, v.at = "limit" => v.bytes = 0
    PROVE  Reaches(c, v)
  <1>1. /\ c.sent \in Nat /\ c.lease \in Nat /\ w.asked \in Nat /\ w.sent \in Nat
        /\ w.window \in Nat /\ v.bytes \in Nat /\ v.window \in Nat
    BY DEF FlowControl, Work
  <1>2. Permitted(w) <= c.lease + c.sent
    BY DEF Reaches
  <1>3. \A a, b, e, n, x \in Nat : Least(a + b, e) <= x => Least(a + (b + n), e) <= x + n
    BY DEF Least
  <1>4. Permitted(v) <= c.lease + c.sent + v.bytes
    <2>1. c.lease + c.sent \in Nat
      BY <1>1
    <2>2. /\ Permitted(w) = Least(w.sent + w.window, w.asked)
          /\ Permitted(v) = Least(w.sent + (w.window + v.bytes), w.asked)
      BY DEF Permitted
    <2>3. \A n, x \in Nat : Least(w.sent + w.window, w.asked) <= x
                => Least(w.sent + (w.window + n), w.asked) <= x + n
      BY <1>1, <1>3, Zenon
    <2> QED
      BY <1>1, <1>2, <2>1, <2>2, <2>3, Zenon
  <1>5. v.at = "limit" => Permitted(v) <= c.lease + c.sent
    BY <1>1, <1>4
  <1> QED
    BY <1>4, <1>5 DEF Reaches

(* A larger lease covers what the smaller one covered. *)
LEMMA AddReaches ==
    ASSUME NEW c \in FlowControl, NEW d \in FlowControl, NEW n \in Nat, d.sent = c.sent,
           d.lease = c.lease + n, NEW v \in Work, Reaches(c, v)
    PROVE  Reaches(d, v)
  <1>1. /\ c.sent \in Nat /\ c.lease \in Nat /\ v.asked \in Nat /\ v.sent \in Nat
        /\ v.window \in Nat /\ v.bytes \in Nat
    BY DEF FlowControl, Work
  <1>2. Permitted(v) \in Nat
    BY <1>1 DEF Permitted, Least
  <1> QED
    BY <1>1, <1>2 DEF Reaches

LEMMA AddedReaches ==
    ASSUME NEW c \in FlowControl, NEW d \in FlowControl, NEW w \in Work, NEW v \in Work,
           d.sent = c.sent, w.at = "add", d.lease = c.lease + w.bytes, Reaches(c, w),
           v.at = "limit", v.asked = w.asked, v.sent = w.sent, v.window = w.window
    PROVE  Reaches(d, v)
  <1>1. /\ c.sent \in Nat /\ c.lease \in Nat /\ w.bytes \in Nat
    BY DEF FlowControl, Work
  <1>2. Permitted(w) <= c.lease + c.sent + w.bytes /\ Permitted(v) = Permitted(w)
    BY DEF Reaches, Permitted
  <1>3. c.lease + c.sent + w.bytes = d.lease + d.sent
    BY <1>1
  <1> QED
    BY <1>2, <1>3 DEF Reaches

(* Grow, reserve and add keep the cover, from the session task ... *)
LEMMA TaskGrows ==
    ASSUME NEW c \in FlowControl, NEW s \in Work, NEW t \in Work, NEW w \in Work,
           CoverOK(c, s, t), t.at \in Granting, w.at \in {"limit", "reserve", "add"},
           w.asked = t.asked, w.sent = t.sent,
           ~c.cancelled /\ Reaches(c, t) /\ t.sent = c.sent => Reaches(c, w)
    PROVE  CoverOK(c, s, w)
  BY DEF CoverOK, Granting

LEMMA grant_grow_Keeps ==
    ASSUME CreditInv, NEW f \in Flows, grant_grow(f)
    PROVE  Kept(f)
  <1> DEFINE t == task.w
             w == Grow(f, t)
  <1>1. /\ flow[f] \in FlowControl /\ sender[f] \in Work /\ t \in Work
        /\ (overlapped \/ CoverOK(flow[f], sender[f], t))
    BY TaskHere DEF grant_grow
  <1>2. /\ task.f = f /\ t.at = "grow" /\ Task(f, w)
        /\ UNCHANGED <<reserved, flow, sender, overlapped>>
    BY DEF grant_grow
  <1>3. /\ w \in Work /\ w.at \in {"limit", "reserve"} /\ w.asked = t.asked /\ w.sent = t.sent
        /\ w.window = flow[f].lease
    BY <1>1, GrowFits
  <1> HIDE DEF t, w
  <1>4. overlapped \/ CoverOK(flow[f], sender[f], w)
    <2>1. t.sent = flow[f].sent => Reaches(flow[f], w)
      BY <1>1, <1>3, GrowReaches
    <2>2. t.at \in Granting /\ w.at \in {"limit", "reserve", "add"}
      BY <1>2, <1>3 DEF Granting
    <2> QED
      BY <1>1, <1>3, <2>1, <2>2, TaskGrows
  <1>5. /\ reserved' \in 0 .. U64 - 1 /\ overlapped' \in BOOLEAN /\ (overlapped => overlapped')
        /\ w.at # "idle" /\ t.at \notin {"idle", "freed"}
    BY <1>2, <1>3, Here0
  <1> QED
    BY <1>2, <1>3, <1>4, <1>5, SessionLooks DEF t

LEMMA grant_reserve_Keeps ==
    ASSUME CreditInv, NEW f \in Flows, grant_reserve(f)
    PROVE  Kept(f)
  <1> DEFINE t == task.w
             w == Reserved(t)
  <1>1. /\ flow[f] \in FlowControl /\ sender[f] \in Work /\ t \in Work
        /\ (overlapped \/ CoverOK(flow[f], sender[f], t))
    BY TaskHere DEF grant_reserve
  <1>2. /\ task.f = f /\ t.at = "reserve" /\ Task(f, w)
        /\ reserved' = reserved + Allocation(t.bytes) /\ UNCHANGED <<flow, sender, overlapped>>
    BY DEF grant_reserve
  <1>3. /\ w \in Work /\ w.at \in {"limit", "add"} /\ w.asked = t.asked /\ w.sent = t.sent
        /\ w.window = t.window + w.bytes /\ (w.at = "limit" => w.bytes = 0)
        /\ reserved + Allocation(t.bytes) \in 0 .. U64 - 1
    BY <1>1, Here0, ReservedFits
  <1> HIDE DEF t, w
  <1>4. overlapped \/ CoverOK(flow[f], sender[f], w)
    <2>1. Reaches(flow[f], t) => Reaches(flow[f], w)
      BY <1>1, <1>2, <1>3, ReserveReaches
    <2>2. t.at \in Granting /\ w.at \in {"limit", "reserve", "add"}
      BY <1>2, <1>3 DEF Granting
    <2> QED
      BY <1>1, <1>3, <2>1, <2>2, TaskGrows
  <1>5. /\ reserved' \in 0 .. U64 - 1 /\ overlapped' \in BOOLEAN /\ (overlapped => overlapped')
        /\ w.at # "idle" /\ t.at \notin {"idle", "freed"}
    BY <1>2, <1>3, Here0
  <1> QED
    BY <1>2, <1>3, <1>4, <1>5, SessionLooks DEF t

(* A lease grown by one of the tasks, as the other sees it. *)
LEMMA LeaseGrows ==
    ASSUME NEW c \in FlowControl, NEW d \in FlowControl, NEW n \in Nat, NEW s \in Work,
           NEW t \in Work, CoverOK(c, s, t), t.at # "store",
           d.cancelled = c.cancelled, d.limit = c.limit, d.requested_limit = c.requested_limit,
           d.sent = c.sent, d.lease = c.lease + n
    PROVE  CoverOK(d, s, t)
  <1> SUFFICES ASSUME ~d.cancelled PROVE CoverOK(d, s, t)
    BY DEF CoverOK
  <1>1. Reaches(d, s) /\ Reaches(d, t)
    BY AddReaches DEF CoverOK
  <1>2. /\ c.limit \in Nat /\ c.lease \in Nat /\ c.sent \in Nat /\ InFlight(s) \in Nat
        /\ Permitted(t) \in Nat
    BY DEF FlowControl, Work, InFlight, Permitted, Least
  <1>3. \A a, b, l, x \in Nat : a + b <= l + x => a + b <= l + n + x
    OBVIOUS
  <1>4. d.limit + InFlight(s) <= d.lease + d.sent
    BY <1>2, <1>3, Zenon DEF CoverOK
  <1>5. \A a, l, x \in Nat : a <= l + x => a <= l + n + x
    OBVIOUS
  <1>6. t.at = "release" => Permitted(t) <= d.lease + d.sent
    BY <1>2, <1>5, Zenon DEF CoverOK
  <1> QED
    BY <1>1, <1>4, <1>6 DEF CoverOK

LEMMA LeaseAdded ==
    ASSUME CreditInv, NEW f \in Flows, NEW n \in Nat, Set(f, "lease", flow[f].lease + n)
    PROVE  /\ flow' \in [Flows -> FlowControl] /\ \A g \in Flows : g # f => flow'[g] = flow[g]
           /\ flow'[f] \in FlowControl
           /\ flow'[f].status = flow[f].status /\ flow'[f].cancelled = flow[f].cancelled
           /\ flow'[f].limit = flow[f].limit
           /\ flow'[f].requested_limit = flow[f].requested_limit
           /\ flow'[f].sent = flow[f].sent /\ flow'[f].lease = flow[f].lease + n
  <1>1. flow[f].lease \in Nat
    BY Here0 DEF FlowControl
  <1>2. flow[f].lease + n \in Nat
    BY <1>1
  <1>3. flow \in [Flows -> FlowControl]
    BY Here0
  <1> QED
    BY <1>2, <1>3, SetField

LEMMA grant_add_Keeps ==
    ASSUME CreditInv, NEW f \in Flows, grant_add(f)
    PROVE  Kept(f)
  <1> DEFINE t == task.w
             w == [t EXCEPT !.at = "limit"]
             c == flow[f]
             d == flow'[f]
             s == sender[f]
  <1>1. /\ c \in FlowControl /\ s \in Work /\ t \in Work
        /\ FlowOK(c, s, t) /\ (overlapped \/ CoverOK(c, s, t))
    BY TaskHere DEF grant_add
  <1>2. /\ task.f = f /\ t.at = "add" /\ Set(f, "lease", flow[f].lease + t.bytes) /\ Task(f, w)
        /\ UNCHANGED <<reserved, sender, overlapped>>
    BY DEF grant_add
  <1>3. /\ w \in Work /\ w.at = "limit" /\ w.asked = t.asked /\ w.sent = t.sent
        /\ w.window = t.window /\ t.bytes \in Nat
    BY <1>1 DEF Work, Places
  <1> HIDE DEF t, w
  <1>4. /\ flow' \in [Flows -> FlowControl] /\ \A g \in Flows : g # f => flow'[g] = flow[g]
        /\ d \in FlowControl /\ d.status = c.status /\ d.cancelled = c.cancelled
        /\ d.limit = c.limit /\ d.requested_limit = c.requested_limit
        /\ d.sent = c.sent /\ d.lease = c.lease + t.bytes
    BY <1>2, <1>3, LeaseAdded
  <1> HIDE DEF c, d, s
  <1>5. FlowOK(d, s, w)
    BY <1>1, <1>2, <1>3, <1>4 DEF FlowOK
  <1>6. ASSUME ~overlapped PROVE CoverOK(d, s, w)
    <2>1. CoverOK(c, s, t) /\ CoverOK(d, s, t)
      BY <1>1, <1>2, <1>3, <1>4, <1>6, LeaseGrows
    <2>2. t.at \in Granting /\ w.at \in {"limit", "reserve", "add"}
      BY <1>2, <1>3 DEF Granting
    <2>3. ~d.cancelled => Reaches(c, t)
      BY <1>4, <2>1 DEF CoverOK
    <2>4. ~d.cancelled => Reaches(d, w)
      BY <1>1, <1>2, <1>3, <1>4, <2>3, AddedReaches
    <2> QED
      BY <1>1, <1>3, <1>4, <2>1, <2>2, <2>4, TaskGrows
  <1>7. /\ \A g \in Flows : Stirred(sender'[g], sender[g])
        /\ reserved' \in 0 .. U64 - 1 /\ overlapped' \in BOOLEAN /\ (overlapped => overlapped')
        /\ sender' \in [Flows -> Work]
    BY <1>2, Here0, Unstirred
  <1>8. FlowOK(flow'[f], sender[f], w) /\ (overlapped' \/ CoverOK(flow'[f], sender[f], w))
    BY <1>2, <1>5, <1>6 DEF d, s
  <1> QED
    BY <1>2, <1>3, <1>4, <1>7, <1>8, SessionStep

(* fetch_max on the limit, whichever task does it. *)
LEMMA LimitSet ==
    ASSUME CreditInv, NEW f \in Flows, NEW w \in Work, Set(f, "limit", RaiseLimit(f, w))
    PROVE  /\ flow' \in [Flows -> FlowControl] /\ \A g \in Flows : g # f => flow'[g] = flow[g]
           /\ flow'[f] \in FlowControl
           /\ flow'[f].status = flow[f].status /\ flow'[f].cancelled = flow[f].cancelled
           /\ flow'[f].limit = Most(flow[f].limit, Permitted(w))
           /\ flow'[f].requested_limit = flow[f].requested_limit
           /\ flow'[f].sent = flow[f].sent /\ flow'[f].lease = flow[f].lease
  <1>1. flow[f].limit \in Nat /\ flow \in [Flows -> FlowControl]
    BY Here0 DEF FlowControl
  <1>2. Permitted(w) \in Nat
    BY DEF Permitted, Least, Work
  <1>3. RaiseLimit(f, w) \in Nat /\ RaiseLimit(f, w) = Most(flow[f].limit, Permitted(w))
    BY <1>1, <1>2 DEF RaiseLimit, Most
  <1> QED
    BY <1>1, <1>3, SetField

LEMMA LimitRises ==
    ASSUME NEW c \in FlowControl, NEW d \in FlowControl, NEW w \in Work,
           c.sent <= c.limit, c.limit <= c.requested_limit, w.asked <= c.requested_limit,
           d.limit = Most(c.limit, Permitted(w)), d.requested_limit = c.requested_limit,
           d.sent = c.sent, d.lease = c.lease
    PROVE  /\ c.limit <= d.limit /\ d.sent <= d.limit /\ d.limit <= d.requested_limit
           /\ c.limit <= c.lease + c.sent /\ Permitted(w) <= c.lease + c.sent
                  => d.limit <= d.lease + d.sent
  <1>1. /\ c.sent \in Nat /\ c.limit \in Nat /\ c.requested_limit \in Nat /\ c.lease \in Nat
        /\ w.asked \in Nat /\ w.sent \in Nat /\ w.window \in Nat /\ w.sent + w.window \in Nat
    BY DEF FlowControl, Work
  <1>2. Permitted(w) \in Nat /\ Permitted(w) <= w.asked
    BY <1>1 DEF Permitted, Least
  <1> DEFINE p == Permitted(w)
  <1> HIDE DEF p
  <1>3. p \in Nat /\ p <= c.requested_limit /\ d.limit = Most(c.limit, p)
    BY <1>1, <1>2 DEF p
  <1>4. d.limit = c.limit \/ d.limit = p
    BY <1>3 DEF Most
  <1>5. c.limit <= d.limit
    BY <1>1, <1>3 DEF Most
  <1> QED
    BY <1>1, <1>3, <1>4, <1>5 DEF p

LEMMA grant_limit_Keeps ==
    ASSUME CreditInv, NEW f \in Flows, grant_limit(f)
    PROVE  Kept(f)
  <1> DEFINE t == task.w
             i == At("idle")
             c == flow[f]
             d == flow'[f]
             s == sender[f]
  <1>1. /\ c \in FlowControl /\ s \in Work /\ t \in Work
        /\ FlowOK(c, s, t) /\ (overlapped \/ CoverOK(c, s, t))
    BY TaskHere DEF grant_limit
  <1>2. /\ task.f = f /\ t.at = "limit" /\ Set(f, "limit", RaiseLimit(f, t)) /\ task' = IdleTask
        /\ sender' = Woken(IF Permitted(t) > flow[f].limit THEN {f} ELSE {}, sender)
        /\ UNCHANGED <<reserved, overlapped>>
    BY DEF grant_limit
  <1>3. /\ i \in Work /\ i.at = "idle" /\ i.asked = 0
    BY AtWork DEF Places
  <1> HIDE DEF t, i
  <1>4. /\ flow' \in [Flows -> FlowControl] /\ \A g \in Flows : g # f => flow'[g] = flow[g]
        /\ d \in FlowControl /\ d.status = c.status /\ d.cancelled = c.cancelled
        /\ d.limit = Most(c.limit, Permitted(t)) /\ d.requested_limit = c.requested_limit
        /\ d.sent = c.sent /\ d.lease = c.lease
    BY <1>1, <1>2, LimitSet
  <1> HIDE DEF c, d, s
  <1>5. c.sent <= c.limit /\ c.limit <= c.requested_limit /\ t.asked <= c.requested_limit
    BY <1>1 DEF FlowOK
  <1>6. /\ c.limit <= d.limit /\ d.sent <= d.limit /\ d.limit <= d.requested_limit
        /\ c.limit <= c.lease + c.sent /\ Permitted(t) <= c.lease + c.sent
               => d.limit <= d.lease + d.sent
    BY <1>1, <1>4, <1>5, LimitRises
  <1>7. FlowOK(d, s, i)
    <2>1. d.requested_limit \in Nat
      BY <1>4 DEF FlowControl
    <2> QED
      BY <1>1, <1>2, <1>3, <1>4, <1>6, <2>1 DEF FlowOK
  <1>8. ASSUME ~overlapped PROVE CoverOK(d, s, i)
    <2> SUFFICES ASSUME ~d.cancelled PROVE CoverOK(d, s, i)
      BY DEF CoverOK
    <2>1. /\ s.at # "consume" /\ c.limit + InFlight(s) <= c.lease + c.sent
          /\ Permitted(t) <= c.lease + c.sent /\ Reaches(c, s)
          /\ s.at \in {"grow", "reserve", "add", "limit"} => s.sent = c.sent
      BY <1>1, <1>2, <1>4, <1>8 DEF CoverOK, Granting, Reaches
    <2>2. InFlight(s) = 0 /\ c.limit \in Nat /\ d.limit \in Nat
      BY <1>1, <1>4, <2>1 DEF InFlight, FlowControl
    <2>3. c.limit <= c.lease + c.sent
      BY <2>1, <2>2
    <2>4. d.limit + InFlight(s) <= d.lease + d.sent
      BY <1>6, <2>1, <2>2, <2>3
    <2> QED
      BY <1>3, <1>4, <2>1, <2>4 DEF CoverOK, Granting, Reaches
  <1>9. sender' \in [Flows -> Work] /\ \A g \in Flows : Stirred(sender'[g], sender[g])
    BY <1>2, Here0, WokenStirs
  <1>10. reserved' \in 0 .. U64 - 1
    BY <1>2, Here0
  <1>11. FlowOK(flow'[f], sender[f], At("idle"))
         /\ (overlapped \/ CoverOK(flow'[f], sender[f], At("idle")))
    BY <1>7, <1>8 DEF d, s, i
  <1> QED
    BY <1>2, <1>4, <1>9, <1>10, <1>11, SessionLast

(* A cancelled flow promises nothing more. *)
LEMMA cancel_Keeps ==
    ASSUME CreditInv, NEW f \in Flows, cancel(f)
    PROVE  Kept(f)
  <1> DEFINE w == [At("freed") EXCEPT !.bytes = flow[f].lease]
             d == [flow[f] EXCEPT !.status = "removed", !.cancelled = TRUE, !.lease = 0]
  <1>1. flow \in [Flows -> FlowControl] /\ flow[f] \in FlowControl /\ flow[f].lease \in Nat
    BY Here0 DEF FlowControl
  <1>2. /\ w \in Work /\ w.at = "freed" /\ w.asked = 0
    BY <1>1 DEF At, Work, Places
  <1>3. /\ d \in FlowControl /\ d.status = "removed" /\ d.cancelled /\ d.limit = flow[f].limit
        /\ d.requested_limit = flow[f].requested_limit /\ d.sent = flow[f].sent
    BY <1>1 DEF FlowControl
  <1>4. /\ task.w.at = "idle" /\ Task(f, w) /\ UNCHANGED <<reserved, sender, overlapped>>
        /\ flow' = [flow EXCEPT ![f] = d]
    BY DEF cancel
  <1> HIDE DEF w, d
  <1>5. /\ flow' \in [Flows -> FlowControl] /\ \A g \in Flows : g # f => flow'[g] = flow[g]
        /\ flow'[f] = d
    BY <1>1, <1>3, <1>4
  <1>6. FlowOK(d, sender[f], w) /\ CoverOK(d, sender[f], w)
    <2>1. FlowOK(flow[f], sender[f], TaskOf(f)) /\ d.requested_limit \in Nat
      BY <1>1, <1>3, Here0 DEF FlowControl
    <2> QED
      BY <1>2, <1>3, <2>1 DEF FlowOK, CoverOK
  <1>7. /\ \A g \in Flows : Stirred(sender'[g], sender[g])
        /\ reserved' \in 0 .. U64 - 1 /\ overlapped' \in BOOLEAN /\ (overlapped => overlapped')
        /\ sender' \in [Flows -> Work]
    BY <1>4, Here0, Unstirred
  <1> QED
    BY <1>2, <1>4, <1>5, <1>6, <1>7, SessionStep

LEMMA cancel_release_Keeps ==
    ASSUME CreditInv, NEW f \in Flows, cancel_release(f)
    PROVE  Kept(f)
  <1>1. /\ task.f = f /\ task.w.at = "freed" /\ release(task.w.bytes) /\ task' = IdleTask
        /\ sender' = Woken(Freed(task.w.bytes) \union {f}, sender)
        /\ UNCHANGED <<flow, overlapped>>
    BY DEF cancel_release
  <1>2. /\ flow[f] \in FlowControl /\ sender[f] \in Work /\ task.w \in Work
        /\ FlowOK(flow[f], sender[f], task.w)
        /\ (overlapped \/ CoverOK(flow[f], sender[f], task.w))
    BY <1>1, TaskHere
  <1>3. task.w.bytes \in Nat
    BY <1>2 DEF Work
  <1>4. reserved' \in 0 .. U64 - 1
    BY <1>1, <1>3, Here0, ReleaseWraps
  <1>5. sender' \in [Flows -> Work] /\ \A g \in Flows : Stirred(sender'[g], sender[g])
    BY <1>1, Here0, WokenStirs
  <1>6. FlowOK(flow'[f], sender[f], At("idle"))
        /\ (overlapped \/ CoverOK(flow'[f], sender[f], At("idle")))
    BY <1>1, <1>2, IdleKeeps
  <1>7. flow' \in [Flows -> FlowControl] /\ \A g \in Flows : g # f => flow'[g] = flow[g]
    BY <1>1, Here0
  <1> QED
    BY <1>1, <1>4, <1>5, <1>6, <1>7, SessionLast

(* ... and from the task of the transfer. *)
LEMMA SenderActs ==
    ASSUME CreditInv, NEW f \in Flows, NEW w \in Work, Sender(f, w), UNCHANGED task,
           reserved' \in 0 .. U64 - 1, flow' \in [Flows -> FlowControl],
           \A g \in Flows : g # f => flow'[g] = flow[g],
           overlapped' \in BOOLEAN, overlapped => overlapped',
           FlowOK(flow'[f], w, TaskOf(f)), overlapped' \/ CoverOK(flow'[f], w, TaskOf(f))
    PROVE  Kept(f)
  <1>1. sender' \in [Flows -> Work] /\ sender' = [sender EXCEPT ![f] = w]
    BY Here0, SenderMoves DEF Sender
  <1>2. \A g \in Flows : Stirred(sender'[g], sender'[g])
    BY <1>1, Unstirred
  <1> QED
    BY <1>1, <1>2, SenderStep

LEMMA SenderLooks ==
    ASSUME CreditInv, NEW f \in Flows, NEW w \in Work, Sender(f, w), UNCHANGED <<flow, task>>,
           UNCHANGED overlapped, reserved' \in 0 .. U64 - 1,
           w.asked <= flow[f].requested_limit, sender[f].at # "none",
           overlapped \/ CoverOK(flow[f], w, TaskOf(f))
    PROVE  Kept(f)
  <1>1. FlowOK(flow[f], sender[f], TaskOf(f))
    BY Here0
  <1>2. FlowOK(flow[f], w, TaskOf(f))
    BY <1>1 DEF FlowOK
  <1>3. /\ flow' \in [Flows -> FlowControl] /\ \A g \in Flows : g # f => flow'[g] = flow[g]
        /\ overlapped' \in BOOLEAN /\ (overlapped => overlapped')
    BY Here0
  <1> QED
    BY <1>2, <1>3, SenderActs

(* A task of a transfer that holds nothing of what it has read. *)
LEMMA SenderLetsGo ==
    ASSUME NEW c \in FlowControl, NEW s \in Work, NEW t \in Work, NEW w \in Work, CoverOK(c, s, t),
           w.at \notin {"grow", "reserve", "add", "limit", "consume"}
    PROVE  CoverOK(c, w, t)
  <1>1. InFlight(s) \in Nat /\ InFlight(w) = 0
    BY DEF InFlight, Work
  <1>2. c.limit \in Nat /\ c.lease + c.sent \in Nat
    BY DEF FlowControl
  <1>3. \A a, b, l \in Nat : a + b <= l => a + 0 <= l
    OBVIOUS
  <1>4. Reaches(c, w)
    BY DEF Reaches
  <1>5. ~c.cancelled => c.limit + InFlight(w) <= c.lease + c.sent
    BY <1>1, <1>2, <1>3, Zenon DEF CoverOK
  <1> QED
    BY <1>4, <1>5 DEF CoverOK

LEMMA SenderIdles ==
    ASSUME CreditInv, NEW f \in Flows, NEW p \in Places, Sender(f, At(p)),
           p \notin {"grow", "reserve", "add", "limit", "consume"}, sender[f].at # "none",
           UNCHANGED <<reserved, flow, task, overlapped>>
    PROVE  Kept(f)
  <1>1. At(p) \in Work /\ At(p).at = p /\ At(p).asked = 0
    BY AtWork
  <1>2. flow[f].requested_limit \in Nat
    BY Here0 DEF FlowControl
  <1>3. At(p).asked <= flow[f].requested_limit
    BY <1>1, <1>2
  <1>4. overlapped \/ CoverOK(flow[f], At(p), TaskOf(f))
    BY <1>1, Here0, SenderLetsGo
  <1>5. reserved' \in 0 .. U64 - 1
    BY Here0
  <1> QED
    BY <1>1, <1>3, <1>4, <1>5, SenderLooks

LEMMA check_Keeps ==
    ASSUME CreditInv, NEW f \in Flows, check(f)
    PROVE  Kept(f)
  <1> DEFINE c == flow[f]
             w == [At("grow") EXCEPT !.asked = c.requested_limit, !.sent = c.sent,
                                     !.window = SatSub(c.requested_limit, c.sent)]
  <1>1. /\ sender[f].at = "check" /\ UNCHANGED <<reserved, flow, task, overlapped>>
        /\ Sender(f, IF c.cancelled \/ c.sent = Total THEN At("done") ELSE w)
    BY DEF check, Here
  <1>2. CASE c.cancelled \/ c.sent = Total
    <2>1. Sender(f, At("done")) /\ "done" \in Places
      BY <1>1, <1>2 DEF Places
    <2> QED
      BY <1>1, <2>1, SenderIdles
  <1>3. CASE ~(c.cancelled \/ c.sent = Total)
    <2>1. c \in FlowControl /\ c.requested_limit \in Nat /\ c.sent \in Nat
      BY Here0 DEF FlowControl
    <2>2. SatSub(c.requested_limit, c.sent) \in Nat
      BY <2>1 DEF SatSub
    <2>3. /\ w \in Work /\ w.at = "grow" /\ w.asked = c.requested_limit /\ w.sent = c.sent
      BY <2>1, <2>2 DEF At, Work, Places
    <2>4. Sender(f, w)
      BY <1>1, <1>3
    <2> HIDE DEF w
    <2>5. overlapped \/ CoverOK(c, w, TaskOf(f))
      <3>1. overlapped \/ CoverOK(c, sender[f], TaskOf(f))
        BY Here0
      <3>2. InFlight(w) = 0 /\ InFlight(sender[f]) = 0 /\ Reaches(c, w)
        BY <1>1, <2>3 DEF InFlight, Reaches
      <3> QED
        BY <2>3, <3>1, <3>2 DEF CoverOK
    <2>6. w.asked <= c.requested_limit /\ reserved' \in 0 .. U64 - 1 /\ sender[f].at # "none"
      BY <1>1, <2>1, <2>3, Here0
    <2> QED
      BY <1>1, <2>3, <2>4, <2>5, <2>6, SenderLooks
  <1> QED
    BY <1>2, <1>3

LEMMA SenderGrows ==
    ASSUME NEW c \in FlowControl, NEW s \in Work, NEW t \in Work, NEW w \in Work,
           CoverOK(c, s, t), s.at \in {"grow", "reserve", "add"},
           w.at \in {"limit", "reserve", "add"}, w.sent = s.sent,
           ~c.cancelled /\ Reaches(c, s) /\ s.sent = c.sent => Reaches(c, w)
    PROVE  CoverOK(c, w, t)
  <1>1. InFlight(w) = 0 /\ InFlight(s) = 0
    BY DEF InFlight
  <1> QED
    BY <1>1 DEF CoverOK

LEMMA refresh_grow_Keeps ==
    ASSUME CreditInv, NEW f \in Flows, refresh_grow(f)
    PROVE  Kept(f)
  <1> DEFINE s == sender[f]
             c == flow[f]
             w == Grow(f, s)
  <1>1. /\ c \in FlowControl /\ s \in Work /\ TaskOf(f) \in Work
        /\ FlowOK(c, s, TaskOf(f)) /\ (overlapped \/ CoverOK(c, s, TaskOf(f)))
    BY Here0
  <1>2. /\ s.at = "grow" /\ Sender(f, w) /\ UNCHANGED <<reserved, flow, task, overlapped>>
    BY DEF refresh_grow, Here
  <1>3. /\ w \in Work /\ w.at \in {"limit", "reserve"} /\ w.asked = s.asked /\ w.sent = s.sent
        /\ w.window = c.lease
    BY <1>1, GrowFits
  <1> HIDE DEF w, s, c
  <1>4. s.sent = c.sent => Reaches(c, w)
    BY <1>1, <1>3, GrowReaches
  <1>5. overlapped \/ CoverOK(c, w, TaskOf(f))
    BY <1>1, <1>2, <1>3, <1>4, SenderGrows
  <1>6. w.asked <= c.requested_limit /\ reserved' \in 0 .. U64 - 1 /\ s.at # "none"
    BY <1>1, <1>2, <1>3, Here0 DEF FlowOK
  <1> QED
    BY <1>2, <1>3, <1>5, <1>6, SenderLooks DEF c, s

LEMMA refresh_reserve_Keeps ==
    ASSUME CreditInv, NEW f \in Flows, refresh_reserve(f)
    PROVE  Kept(f)
  <1> DEFINE s == sender[f]
             c == flow[f]
             w == Reserved(s)
  <1>1. /\ c \in FlowControl /\ s \in Work /\ TaskOf(f) \in Work
        /\ FlowOK(c, s, TaskOf(f)) /\ (overlapped \/ CoverOK(c, s, TaskOf(f)))
    BY Here0
  <1>2. /\ s.at = "reserve" /\ Sender(f, w) /\ UNCHANGED <<flow, task, overlapped>>
        /\ reserved' = reserved + Allocation(s.bytes)
    BY DEF refresh_reserve, Here
  <1>3. /\ w \in Work /\ w.at \in {"limit", "add"} /\ w.asked = s.asked /\ w.sent = s.sent
        /\ w.window = s.window + w.bytes /\ (w.at = "limit" => w.bytes = 0)
        /\ reserved + Allocation(s.bytes) \in 0 .. U64 - 1
    BY <1>1, Here0, ReservedFits
  <1> HIDE DEF w, s, c
  <1>4. Reaches(c, s) => Reaches(c, w)
    BY <1>1, <1>2, <1>3, ReserveReaches
  <1>5. overlapped \/ CoverOK(c, w, TaskOf(f))
    BY <1>1, <1>2, <1>3, <1>4, SenderGrows
  <1>6. w.asked <= c.requested_limit /\ reserved' \in 0 .. U64 - 1 /\ s.at # "none"
    BY <1>1, <1>2, <1>3 DEF FlowOK
  <1> QED
    BY <1>2, <1>3, <1>5, <1>6, SenderLooks DEF c, s

LEMMA refresh_add_Keeps ==
    ASSUME CreditInv, NEW f \in Flows, refresh_add(f)
    PROVE  Kept(f)
  <1> DEFINE s == sender[f]
             w == [s EXCEPT !.at = "limit"]
             c == flow[f]
             d == flow'[f]
             t == TaskOf(f)
  <1>1. /\ c \in FlowControl /\ s \in Work /\ t \in Work
        /\ FlowOK(c, s, t) /\ (overlapped \/ CoverOK(c, s, t))
    BY Here0
  <1>2. /\ s.at = "add" /\ Set(f, "lease", flow[f].lease + s.bytes) /\ Sender(f, w)
        /\ UNCHANGED <<reserved, task>>
        /\ overlapped' = (overlapped \/ (task.f = f /\ task.w.at = "store"))
    BY DEF refresh_add, Here
  <1>2a. t.at = "store" => overlapped'
    <2>1. At("idle").at # "store"
      BY DEF At
    <2> QED
      BY <1>2, <2>1 DEF TaskOf
  <1>3. /\ w \in Work /\ w.at = "limit" /\ w.asked = s.asked /\ w.sent = s.sent
        /\ w.window = s.window /\ s.bytes \in Nat
    BY <1>1 DEF Work, Places
  <1> HIDE DEF t, w, s
  <1>4. /\ flow' \in [Flows -> FlowControl] /\ \A g \in Flows : g # f => flow'[g] = flow[g]
        /\ d \in FlowControl /\ d.status = c.status /\ d.cancelled = c.cancelled
        /\ d.limit = c.limit /\ d.requested_limit = c.requested_limit
        /\ d.sent = c.sent /\ d.lease = c.lease + s.bytes
    BY <1>2, <1>3, LeaseAdded
  <1> HIDE DEF c, d
  <1>5. FlowOK(d, w, t)
    BY <1>1, <1>2, <1>3, <1>4 DEF FlowOK
  <1>6. ASSUME ~overlapped' PROVE CoverOK(d, w, t)
    <2>1. CoverOK(c, s, t) /\ CoverOK(d, s, t)
      <3>1. ~overlapped /\ t.at # "store"
        BY <1>2a, <1>2, <1>6
      <3> QED
        BY <1>1, <1>3, <1>4, <3>1, LeaseGrows
    <2>2. ~d.cancelled => Reaches(c, s)
      BY <1>4, <2>1 DEF CoverOK
    <2>3. ~d.cancelled => Reaches(d, w)
      BY <1>1, <1>2, <1>3, <1>4, <2>2, AddedReaches
    <2> QED
      BY <1>1, <1>2, <1>3, <1>4, <2>1, <2>3, SenderGrows
  <1>7. reserved' \in 0 .. U64 - 1 /\ overlapped' \in BOOLEAN /\ (overlapped => overlapped')
    BY <1>2, Here0
  <1>8. FlowOK(flow'[f], w, TaskOf(f)) /\ (overlapped' \/ CoverOK(flow'[f], w, TaskOf(f)))
    BY <1>5, <1>6 DEF d, t
  <1> QED
    BY <1>2, <1>3, <1>4, <1>7, <1>8, SenderActs

LEMMA refresh_limit_Keeps ==
    ASSUME CreditInv, NEW f \in Flows, refresh_limit(f)
    PROVE  Kept(f)
  <1> DEFINE s == sender[f]
             w == At("load")
             c == flow[f]
             d == flow'[f]
             t == TaskOf(f)
  <1>1. /\ c \in FlowControl /\ s \in Work /\ t \in Work
        /\ FlowOK(c, s, t) /\ (overlapped \/ CoverOK(c, s, t))
    BY Here0
  <1>2. /\ s.at = "limit" /\ Set(f, "limit", RaiseLimit(f, s)) /\ Sender(f, w)
        /\ UNCHANGED <<reserved, task, overlapped>>
    BY DEF refresh_limit, Here
  <1>3. /\ w \in Work /\ w.at = "load" /\ w.asked = 0
    BY AtWork DEF Places
  <1> HIDE DEF t, w, s
  <1>4. /\ flow' \in [Flows -> FlowControl] /\ \A g \in Flows : g # f => flow'[g] = flow[g]
        /\ d \in FlowControl /\ d.status = c.status /\ d.cancelled = c.cancelled
        /\ d.limit = Most(c.limit, Permitted(s)) /\ d.requested_limit = c.requested_limit
        /\ d.sent = c.sent /\ d.lease = c.lease
    BY <1>1, <1>2, LimitSet
  <1> HIDE DEF c, d
  <1>5. c.sent <= c.limit /\ c.limit <= c.requested_limit /\ s.asked <= c.requested_limit
    BY <1>1 DEF FlowOK
  <1>6. /\ c.limit <= d.limit /\ d.sent <= d.limit /\ d.limit <= d.requested_limit
        /\ c.limit <= c.lease + c.sent /\ Permitted(s) <= c.lease + c.sent
               => d.limit <= d.lease + d.sent
    BY <1>1, <1>4, <1>5, LimitRises
  <1>7. FlowOK(d, w, t)
    <2>1. d.requested_limit \in Nat
      BY <1>4 DEF FlowControl
    <2> QED
      BY <1>1, <1>2, <1>3, <1>4, <1>6, <2>1 DEF FlowOK
  <1>8. ASSUME ~overlapped PROVE CoverOK(d, w, t)
    <2> SUFFICES ASSUME ~d.cancelled PROVE CoverOK(d, w, t)
      BY DEF CoverOK
    <2>1. InFlight(s) = 0 /\ InFlight(w) = 0 /\ c.limit \in Nat /\ d.limit \in Nat
      BY <1>1, <1>2, <1>3, <1>4 DEF InFlight, FlowControl
    <2>2. /\ c.limit + InFlight(s) <= c.lease + c.sent /\ Permitted(s) <= c.lease + c.sent
          /\ Reaches(c, t)
      BY <1>1, <1>2, <1>4, <1>8 DEF CoverOK, Reaches
    <2>3. c.limit <= c.lease + c.sent
      BY <2>1, <2>2
    <2>4. d.limit + InFlight(w) <= d.lease + d.sent
      BY <1>6, <2>1, <2>2, <2>3
    <2>5. Reaches(d, t) /\ Reaches(d, w)
      BY <1>3, <1>4, <2>2 DEF Reaches
    <2> QED
      BY <1>1, <1>3, <1>4, <1>8, <2>4, <2>5 DEF CoverOK
  <1>9. reserved' \in 0 .. U64 - 1 /\ overlapped' \in BOOLEAN /\ (overlapped => overlapped')
    BY <1>2, Here0
  <1>10. FlowOK(flow'[f], w, TaskOf(f)) /\ (overlapped' \/ CoverOK(flow'[f], w, TaskOf(f)))
    BY <1>2, <1>7, <1>8 DEF d, t
  <1> QED
    BY <1>2, <1>3, <1>4, <1>9, <1>10, SenderActs

(* What is sent fits the limit. *)
LEMMA ChunksFit ==
    ASSUME CreditInv, NEW f \in Flows, NEW n \in Chunks(f)
    PROVE  n \in Nat /\ flow[f].sent + n \in Nat /\ flow[f].sent + n <= flow[f].limit
  <1>1. flow[f].sent \in Nat /\ flow[f].limit \in Nat
    BY Here0 DEF FlowControl
  <1> DEFINE room == Least(flow[f].limit, Total) - flow[f].sent
  <1>2. room \in Int /\ flow[f].sent + room <= flow[f].limit
    BY <1>1, Constants DEF Least
  <1>3. n \in Nat /\ n <= room
    <2> HIDE DEF room
    <2>1. Chunks(f) = IF f \in Items THEN {m \in {ItemBytes} : m <= room} ELSE 1 .. room
      BY DEF Chunks, room
    <2>2. CASE f \in Items
      BY <2>1, <2>2, Constants
    <2>3. CASE f \notin Items
      BY <1>2, <2>1, <2>3
    <2> QED
      BY <2>2, <2>3
  <1> HIDE DEF room
  <1> QED
    BY <1>1, <1>2, <1>3

LEMMA record_sent_Keeps ==
    ASSUME CreditInv, NEW f \in Flows, record_sent(f)
    PROVE  Kept(f)
  <1>1. PICK n \in Chunks(f) : /\ Set(f, "sent", flow[f].sent + n)
                               /\ Sender(f, [At("consume") EXCEPT !.bytes = n])
    BY DEF record_sent
  <1> DEFINE s == sender[f]
             w == [At("consume") EXCEPT !.bytes = n]
             c == flow[f]
             d == flow'[f]
             t == TaskOf(f)
  <1>2. n \in Nat /\ c.sent + n \in Nat /\ c.sent + n <= c.limit
    BY ChunksFit
  <1>3. /\ c \in FlowControl /\ s \in Work /\ t \in Work
        /\ FlowOK(c, s, t) /\ (overlapped \/ CoverOK(c, s, t))
    BY Here0
  <1>4. /\ w \in Work /\ w.at = "consume" /\ w.asked = 0 /\ w.bytes = n
    BY <1>2 DEF At, Work, Places
  <1>5. /\ s.at = "load" /\ Sender(f, w) /\ UNCHANGED <<reserved, task>>
        /\ overlapped' = (overlapped \/ (task.f = f /\ task.w.at \in Granting))
    BY <1>1 DEF record_sent, Here
  <1>6. t.at \in Granting => overlapped'
    <2>1. At("idle").at \notin Granting
      BY DEF At, Granting
    <2> QED
      BY <1>5, <2>1 DEF TaskOf
  <1> HIDE DEF t, w, s
  <1>7. /\ flow' \in [Flows -> FlowControl] /\ \A g \in Flows : g # f => flow'[g] = flow[g]
        /\ d \in FlowControl /\ d.status = c.status /\ d.cancelled = c.cancelled
        /\ d.limit = c.limit /\ d.requested_limit = c.requested_limit
        /\ d.sent = c.sent + n /\ d.lease = c.lease
    <2>1. flow \in [Flows -> FlowControl]
      BY Here0
    <2> QED
      BY <1>1, <1>2, <2>1, SetField
  <1> HIDE DEF c, d
  <1>8. FlowOK(d, w, t)
    <2>1. d.requested_limit \in Nat
      BY <1>7 DEF FlowControl
    <2> QED
      BY <1>2, <1>3, <1>4, <1>5, <1>7, <2>1 DEF FlowOK
  <1>9. ASSUME ~overlapped' PROVE CoverOK(d, w, t)
    <2> SUFFICES ASSUME ~d.cancelled PROVE CoverOK(d, w, t)
      BY DEF CoverOK
    <2>1. ~overlapped /\ t.at \notin Granting
      BY <1>5, <1>6, <1>9
    <2>2. InFlight(s) = 0 /\ InFlight(w) = n
      BY <1>4, <1>5 DEF InFlight
    <2>3. c.limit \in Nat /\ c.lease \in Nat /\ c.sent \in Nat
      BY <1>3 DEF FlowControl
    <2>4. c.limit + 0 <= c.lease + c.sent /\ (t.at = "sent" => t.asked = c.requested_limit)
      BY <1>3, <1>7, <2>1, <2>2 DEF CoverOK
    <2>5. c.limit + n <= c.lease + (c.sent + n)
      BY <1>2, <2>3, <2>4
    <2>6. Reaches(d, w) /\ Reaches(d, t)
      BY <1>4, <2>1 DEF Reaches, Granting
    <2> QED
      BY <1>4, <1>7, <2>1, <2>2, <2>4, <2>5, <2>6 DEF CoverOK, Granting
  <1>10. reserved' \in 0 .. U64 - 1 /\ overlapped' \in BOOLEAN /\ (overlapped => overlapped')
    BY <1>5, Here0
  <1>11. FlowOK(flow'[f], w, TaskOf(f)) /\ (overlapped' \/ CoverOK(flow'[f], w, TaskOf(f)))
    BY <1>8, <1>9 DEF d, t
  <1> QED
    BY <1>4, <1>5, <1>7, <1>10, <1>11, SenderActs

LEMMA blocked_Keeps ==
    ASSUME CreditInv, NEW f \in Flows, blocked(f) \/ notified(f)
    PROVE  Kept(f)
  <1>1. "wait" \in Places /\ "waiting" \in Places
    BY DEF Places
  <1>2. CASE blocked(f)
    <2>1. /\ sender[f].at = "load" /\ Sender(f, At("wait"))
          /\ UNCHANGED <<reserved, flow, task, overlapped>>
      BY <1>2 DEF blocked, Here
    <2> QED
      BY <1>1, <2>1, SenderIdles
  <1>3. CASE notified(f)
    <2>1. /\ sender[f].at = "wait" /\ Sender(f, At("waiting"))
          /\ UNCHANGED <<reserved, flow, task, overlapped>>
      BY <1>3 DEF notified, Here
    <2> QED
      BY <1>1, <2>1, SenderIdles
  <1> QED
    BY <1>2, <1>3

LEMMA consume_Keeps ==
    ASSUME CreditInv, NEW f \in Flows, consume(f)
    PROVE  Kept(f)
  <1> DEFINE s == sender[f]
             n == s.bytes
             c == flow[f]
             d == flow'[f]
             t == TaskOf(f)
             w == [s EXCEPT !.at = "release"]
  <1>1. /\ c \in FlowControl /\ s \in Work /\ t \in Work
        /\ FlowOK(c, s, t) /\ (overlapped \/ CoverOK(c, s, t))
    BY Here0
  <1>2. s.at = "consume" /\ UNCHANGED <<reserved, task, overlapped>>
    BY DEF consume, Here
  <1>3. CASE n > c.lease /\ Sender(f, At("done")) /\ UNCHANGED flow
    <2>1. "done" \in Places
      BY DEF Places
    <2> QED
      BY <1>2, <1>3, <2>1, SenderIdles
  <1>4. CASE n <= c.lease /\ Set(f, "lease", c.lease - n) /\ Sender(f, w)
    <2>1. n \in Nat /\ c.lease \in Nat /\ c.limit \in Nat /\ c.sent \in Nat
      BY <1>1 DEF FlowControl, Work
    <2>2. c.lease - n \in Nat
      BY <1>4, <2>1
    <2>3. /\ w \in Work /\ w.at = "release" /\ w.asked = s.asked
      BY <1>1 DEF Work, Places
    <2>4. /\ flow' \in [Flows -> FlowControl] /\ \A g \in Flows : g # f => flow'[g] = flow[g]
          /\ d \in FlowControl /\ d.status = c.status /\ d.cancelled = c.cancelled
          /\ d.limit = c.limit /\ d.requested_limit = c.requested_limit
          /\ d.sent = c.sent /\ d.lease = c.lease - n
      <3>1. flow \in [Flows -> FlowControl]
        BY Here0
      <3> QED
        BY <1>4, <2>2, <3>1, SetField
    <2>5. InFlight(s) = n /\ InFlight(w) = 0
      BY <1>2, <2>3 DEF InFlight
    <2> HIDE DEF t, w, s, c, d, n
    <2>6. FlowOK(d, w, t)
      BY <1>1, <1>2, <2>3, <2>4 DEF FlowOK
    <2>7. ASSUME ~overlapped PROVE CoverOK(d, w, t)
      <3> SUFFICES ASSUME ~d.cancelled PROVE CoverOK(d, w, t)
        BY DEF CoverOK
      <3>1. /\ c.limit + n <= c.lease + c.sent /\ t.at \notin Granting
            /\ t.at = "sent" => t.asked = c.requested_limit
        BY <1>1, <1>2, <2>4, <2>5, <2>7 DEF CoverOK
      <3>2. c.limit + 0 <= (c.lease - n) + c.sent
        BY <2>1, <3>1
      <3>3. Reaches(d, w) /\ Reaches(d, t)
        BY <2>3, <3>1 DEF Reaches, Granting
      <3> QED
        BY <2>3, <2>4, <2>5, <3>1, <3>2, <3>3 DEF CoverOK, Granting
    <2>8. reserved' \in 0 .. U64 - 1 /\ overlapped' \in BOOLEAN /\ (overlapped => overlapped')
      BY <1>2, Here0
    <2>9. FlowOK(flow'[f], w, TaskOf(f)) /\ (overlapped' \/ CoverOK(flow'[f], w, TaskOf(f)))
      BY <1>2, <2>6, <2>7 DEF d, t
    <2> QED
      BY <1>2, <1>4, <2>3, <2>4, <2>8, <2>9, SenderActs
  <1> QED
    BY <1>3, <1>4 DEF consume

LEMMA consume_release_Keeps ==
    ASSUME CreditInv, NEW f \in Flows, consume_release(f)
    PROVE  Kept(f)
  <1> DEFINE w == At("check")
             s == [sender EXCEPT ![f] = w]
  <1>1. /\ sender[f].at = "release" /\ release(sender[f].bytes) /\ sender' = Woken(Flows, s)
        /\ UNCHANGED <<flow, task, overlapped>>
    BY DEF consume_release, Here
  <1>2. w \in Work /\ w.at = "check" /\ w.asked = 0
    BY AtWork DEF Places
  <1> HIDE DEF w
  <1>3. s \in [Flows -> Work] /\ sender[f].bytes \in Nat /\ flow[f].requested_limit \in Nat
    BY <1>2, Here0 DEF Work, FlowControl
  <1>4. reserved' \in 0 .. U64 - 1
    BY <1>1, <1>3, Here0, ReleaseWraps
  <1>5. sender' \in [Flows -> Work] /\ \A g \in Flows : Stirred(sender'[g], s[g])
    BY <1>1, <1>3, WokenStirs
  <1>6. overlapped \/ CoverOK(flow[f], w, TaskOf(f))
    BY <1>2, Here0, SenderLetsGo
  <1>7. FlowOK(flow[f], w, TaskOf(f))
    <2>1. FlowOK(flow[f], sender[f], TaskOf(f))
      BY Here0
    <2> QED
      BY <1>1, <1>2, <1>3, <2>1 DEF FlowOK
  <1>8. /\ flow' \in [Flows -> FlowControl] /\ \A g \in Flows : g # f => flow'[g] = flow[g]
        /\ overlapped' \in BOOLEAN /\ (overlapped => overlapped')
        /\ FlowOK(flow'[f], w, TaskOf(f)) /\ (overlapped' \/ CoverOK(flow'[f], w, TaskOf(f)))
    BY <1>1, <1>6, <1>7, Here0
  <1> QED
    BY <1>1, <1>2, <1>3, <1>4, <1>5, <1>8, SenderStep

(* CreditLease is dropped once its flow is cancelled and forgotten. *)
LEMMA drop_Keeps ==
    ASSUME CreditInv, NEW f \in Flows, drop(f)
    PROVE  Kept(f)
  <1> DEFINE w == At("none")
             s == [sender EXCEPT ![f] = w]
             c == flow[f]
             d == flow'[f]
             t == TaskOf(f)
  <1>1. /\ sender[f].at = "done" /\ flow[f].status = "removed" /\ release(flow[f].lease)
        /\ Set(f, "lease", 0) /\ sender' = Woken(Freed(flow[f].lease), s)
        /\ UNCHANGED <<task, overlapped>>
    BY DEF drop, Here
  <1>2. w \in Work /\ w.at = "none" /\ w.asked = 0
    BY AtWork DEF Places
  <1> HIDE DEF w, t
  <1>3. s \in [Flows -> Work] /\ c.lease \in Nat /\ c.requested_limit \in Nat
    BY <1>2, Here0 DEF FlowControl
  <1>4. reserved' \in 0 .. U64 - 1
    BY <1>1, <1>3, Here0, ReleaseWraps
  <1>5. sender' \in [Flows -> Work] /\ \A g \in Flows : Stirred(sender'[g], s[g])
    BY <1>1, <1>3, WokenStirs
  <1>6. /\ flow' \in [Flows -> FlowControl] /\ \A g \in Flows : g # f => flow'[g] = flow[g]
        /\ d.status = c.status /\ d.cancelled = c.cancelled
        /\ d.limit = c.limit /\ d.requested_limit = c.requested_limit
        /\ d.sent = c.sent
    <2>1. flow \in [Flows -> FlowControl] /\ 0 \in Nat
      BY Here0
    <2> QED
      BY <1>1, <2>1, SetField
  <1>7. FlowOK(c, sender[f], t)
    BY Here0 DEF t
  <1> HIDE DEF c, d
  <1>8. FlowOK(d, w, t) /\ CoverOK(d, w, t)
    BY <1>1, <1>2, <1>3, <1>6, <1>7 DEF FlowOK, CoverOK, c
  <1>9. /\ overlapped' \in BOOLEAN /\ (overlapped => overlapped')
        /\ FlowOK(flow'[f], w, TaskOf(f)) /\ (overlapped' \/ CoverOK(flow'[f], w, TaskOf(f)))
    BY <1>1, <1>8, Here0 DEF d, t
  <1> QED
    BY <1>1, <1>2, <1>3, <1>4, <1>5, <1>6, <1>9, SenderStep

LEMMA CreditNext ==
    ASSUME CreditInv, [Next]_vars
    PROVE  CreditInv'
  <1>1. ASSUME NEW f \in Flows, GrantSteps(f)
        PROVE  Kept(f)
    BY <1>1, grant_sent_Keeps, resize_on_grant_Keeps, grant_store_Keeps, grant_release_Keeps,
       grant_grow_Keeps, grant_reserve_Keeps, grant_add_Keeps, grant_limit_Keeps DEF GrantSteps
  <1>2. ASSUME NEW f \in Flows, SenderSteps(f)
        PROVE  Kept(f)
    BY <1>2, check_Keeps, refresh_grow_Keeps, refresh_reserve_Keeps, refresh_add_Keeps,
       refresh_limit_Keeps, record_sent_Keeps, blocked_Keeps, consume_Keeps, consume_release_Keeps,
       drop_Keeps DEF SenderSteps
  <1>3. CASE Next
    <2>1. PICK f \in Flows :
              \/ \E n \in 0 .. MaxGrant : new(f, n) \/ grant(f, n)
              \/ cancel(f) \/ GrantSteps(f) \/ cancel_release(f) \/ SenderSteps(f)
      BY <1>3 DEF Next
    <2>2. Kept(f)
      BY <1>1, <1>2, <2>1, new_Keeps, grant_Keeps, cancel_Keeps, cancel_release_Keeps
    <2> QED
      BY <2>2, KeptIsEnough
  <1>4. CASE UNCHANGED vars
    <2>1. CreditTypeOK' /\ \A g : TaskOf(g)' = TaskOf(g)
      BY <1>4 DEF vars, CreditInv, CreditTypeOK, TaskOf
    <2>2. UNCHANGED <<flow, sender, overlapped>>
      BY <1>4 DEF vars
    <2>3. FlowsOK' /\ FlowsCovered'
      BY <2>1, <2>2, Zenon DEF CreditInv, FlowsOK, FlowsCovered
    <2> QED
      BY <2>1, <2>3 DEF CreditInv
  <1> QED
    BY <1>3, <1>4

LEMMA CreditInit == Init => CreditInv
  <1> SUFFICES ASSUME Init PROVE CreditInv
    OBVIOUS
  <1> DEFINE c == [status |-> "none", limit |-> 0, requested_limit |-> 0, sent |-> 0, lease |-> 0,
                   cancelled |-> FALSE]
  <1>1. /\ At("none") \in Work /\ At("none").at = "none" /\ At("none").asked = 0
        /\ At("idle") \in Work /\ At("idle").at = "idle" /\ At("idle").asked = 0
    BY AtWork DEF Places
  <1>2. c \in FlowControl /\ flow = [f \in Flows |-> c] /\ sender = [f \in Flows |-> At("none")]
    BY DEF Init, FlowControl
  <1>3. task = [f |-> "none", w |-> At("idle")] /\ reserved = 0 /\ overlapped = FALSE
    BY DEF Init, IdleTask
  <1>4. \A f \in Flows : TaskOf(f) = At("idle")
    BY <1>3 DEF TaskOf
  <1>5. CreditTypeOK
    <2> HIDE DEF c
    <2>1. flow \in [Flows -> FlowControl] /\ sender \in [Flows -> Work]
      BY <1>1, <1>2
    <2>2. task \in [f : Flows \union {"none"}, w : Work] /\ overlapped \in BOOLEAN
      BY <1>1, <1>3
    <2>3. reserved \in 0 .. U64 - 1
      BY <1>3, Constants
    <2> QED
      BY <2>1, <2>2, <2>3 DEF CreditTypeOK
  <1>6. FlowOK(c, At("none"), At("idle")) /\ CoverOK(c, At("none"), At("idle"))
    BY <1>1 DEF FlowOK, CoverOK, InFlight, Reaches, Granting
  <1> HIDE DEF c
  <1>7. \A f \in Flows : flow[f] = c /\ sender[f] = At("none")
    BY <1>2
  <1> QED
    BY <1>4, <1>5, <1>6, <1>7, Zenon DEF CreditInv, FlowsOK, FlowsCovered

-----------------------------------------------------------------------------
(* The theorems. *)

LEMMA CreditCorrect == Spec => []CreditInv
  BY CreditInit, CreditNext, PTL DEF Spec

(* The atomics and the tasks' local values keep their types; reserved, in  *)
(* particular, stays within 64 bits whatever is released.                  *)
THEOREM CreditTypes == Spec => []CreditTypeOK
  <1>1. CreditInv => CreditTypeOK
    BY DEF CreditInv
  <1> QED
    BY <1>1, CreditCorrect, PTL

(* No transfer sends past its limit and no limit passes what the client    *)
(* granted, however the grants of the session task and the refreshes of    *)
(* the transfer's own task interleave.                                     *)
THEOREM TransfersStayWithinGrant == Spec => []WithinGrant
  <1>1. CreditInv => WithinGrant
    BY DEF CreditInv, FlowsOK, FlowOK, WithinGrant
  <1> QED
    BY <1>1, CreditCorrect, PTL

(* The limit of a flow, and of no other, may go up. *)
Risen(f) ==
    /\ flow[f].limit <= flow'[f].limit
    /\ \A g \in Flows : g # f => flow'[g] = flow[g]

LEMMA LimitsTyped ==
    ASSUME CreditInv
    PROVE  /\ flow \in [Flows -> FlowControl] /\ \A g \in Flows : flow[g].limit <= flow[g].limit
  <1>1. \A g \in Flows : flow[g].limit \in Nat
    BY Here0 DEF FlowControl
  <1>2. flow \in [Flows -> FlowControl]
    BY DEF CreditInv, CreditTypeOK
  <1> QED
    BY <1>1, <1>2

(* Setting any other field leaves it. *)
LEMMA OtherField ==
    ASSUME CreditInv, NEW f \in Flows, NEW v \in Nat,
           NEW field \in {"requested_limit", "sent", "lease"}, Set(f, field, v)
    PROVE  Risen(f)
  BY LimitsTyped, SetField DEF Risen

LEMMA RaisedField ==
    ASSUME CreditInv, NEW f \in Flows, NEW w \in Work, w.asked <= flow[f].requested_limit,
           Set(f, "limit", RaiseLimit(f, w))
    PROVE  Risen(f)
  <1>1. flow[f] \in FlowControl /\ FlowOK(flow[f], sender[f], TaskOf(f))
    BY Here0
  <1>2. flow[f].sent <= flow[f].limit /\ flow[f].limit <= flow[f].requested_limit
    BY <1>1 DEF FlowOK
  <1>3. flow[f].limit <= flow'[f].limit
    BY <1>1, <1>2, LimitSet, LimitRises
  <1> QED
    BY <1>3, LimitSet DEF Risen

LEMMA SessionRises ==
    ASSUME CreditInv, NEW f \in Flows,
           \/ \E n \in 0 .. MaxGrant : new(f, n) \/ grant(f, n)
           \/ cancel(f) \/ GrantSteps(f) \/ cancel_release(f)
    PROVE  Risen(f)
  <1>1. ASSUME UNCHANGED flow PROVE Risen(f)
    BY <1>1, LimitsTyped DEF Risen
  <1>2. ASSUME NEW n \in 0 .. MaxGrant, new(f, n) PROVE Risen(f)
    <2>1. n \in Nat /\ Allocation(n) \in Nat
      BY Here0, AllocationFits, Constants
    <2>2. flow[f].status = "none" /\ FlowOK(flow[f], sender[f], TaskOf(f))
      BY <1>2, Here0 DEF new
    <2>3. flow[f].limit = 0
      BY <2>2 DEF FlowOK
    <2>4. flow'[f].limit = Allocation(n) /\ \A g \in Flows : g # f => flow'[g] = flow[g]
      BY <1>2, LimitsTyped DEF new
    <2> QED
      BY <2>1, <2>3, <2>4 DEF Risen
  <1>3. ASSUME NEW n \in 0 .. MaxGrant, grant(f, n) PROVE Risen(f)
    <2>1. n \in Nat /\ Set(f, "requested_limit", n)
      BY <1>3, Constants DEF grant
    <2> QED
      BY <2>1, OtherField
  <1>4. ASSUME cancel(f) PROVE Risen(f)
    <2>1. flow'[f].limit = flow[f].limit /\ \A g \in Flows : g # f => flow'[g] = flow[g]
      BY <1>4, LimitsTyped DEF cancel, FlowControl
    <2> QED
      BY <2>1, LimitsTyped DEF Risen
  <1>5. ASSUME grant_store(f) PROVE Risen(f)
    <2>1. task.f = f /\ Set(f, "lease", task.w.window)
      BY <1>5 DEF grant_store
    <2>2. task.w.window \in Nat
      BY <2>1, TaskHere DEF Work
    <2> QED
      BY <2>1, <2>2, OtherField
  <1>6. ASSUME grant_add(f) PROVE Risen(f)
    <2>1. task.f = f /\ Set(f, "lease", flow[f].lease + task.w.bytes)
      BY <1>6 DEF grant_add
    <2>2. task.w.bytes \in Nat /\ flow[f].lease \in Nat
      BY <2>1, TaskHere DEF Work, FlowControl
    <2>3. flow[f].lease + task.w.bytes \in Nat
      BY <2>2
    <2> QED
      BY <2>1, <2>3, OtherField
  <1>7. ASSUME grant_limit(f) PROVE Risen(f)
    <2>1. task.f = f /\ Set(f, "limit", RaiseLimit(f, task.w))
      BY <1>7 DEF grant_limit
    <2>2. task.w \in Work /\ task.w.asked <= flow[f].requested_limit
      BY <2>1, TaskHere DEF FlowOK
    <2> QED
      BY <2>1, <2>2, RaisedField
  <1>8. ASSUME grant_sent(f) \/ resize_on_grant(f) \/ grant_release(f) \/ grant_grow(f)
               \/ grant_reserve(f) \/ cancel_release(f)
        PROVE  UNCHANGED flow
    BY <1>8 DEF grant_sent, resize_on_grant, grant_release, grant_grow, grant_reserve,
       cancel_release
  <1> QED
    BY <1>1, <1>2, <1>3, <1>4, <1>5, <1>6, <1>7, <1>8 DEF GrantSteps

LEMMA SenderRises ==
    ASSUME CreditInv, NEW f \in Flows, SenderSteps(f)
    PROVE  Risen(f)
  <1>0. flow[f] \in FlowControl /\ sender[f] \in Work
    BY Here0
  <1>1. ASSUME UNCHANGED flow PROVE Risen(f)
    BY <1>1, LimitsTyped DEF Risen
  <1>2. ASSUME refresh_add(f) PROVE Risen(f)
    <2>1. Set(f, "lease", flow[f].lease + sender[f].bytes)
      BY <1>2 DEF refresh_add
    <2>2. sender[f].bytes \in Nat /\ flow[f].lease \in Nat
      BY <1>0 DEF Work, FlowControl
    <2>3. flow[f].lease + sender[f].bytes \in Nat
      BY <2>2
    <2> QED
      BY <2>1, <2>3, OtherField
  <1>3. ASSUME refresh_limit(f) PROVE Risen(f)
    <2>1. Set(f, "limit", RaiseLimit(f, sender[f]))
      BY <1>3 DEF refresh_limit
    <2>2. sender[f].asked <= flow[f].requested_limit
      BY Here0 DEF FlowOK
    <2> QED
      BY <1>0, <2>1, <2>2, RaisedField
  <1>4. ASSUME record_sent(f) PROVE Risen(f)
    <2>1. PICK n \in Chunks(f) : Set(f, "sent", flow[f].sent + n)
      BY <1>4 DEF record_sent
    <2>2. flow[f].sent + n \in Nat
      BY ChunksFit
    <2> QED
      BY <2>1, <2>2, OtherField
  <1>5. ASSUME consume(f) PROVE Risen(f)
    <2>1. sender[f].bytes \in Nat /\ flow[f].lease \in Nat
      BY <1>0 DEF Work, FlowControl
    <2>2. \/ UNCHANGED flow
          \/ sender[f].bytes <= flow[f].lease /\ Set(f, "lease", flow[f].lease - sender[f].bytes)
      BY <1>5 DEF consume
    <2>3. sender[f].bytes <= flow[f].lease => flow[f].lease - sender[f].bytes \in Nat
      BY <2>1
    <2> QED
      BY <1>1, <2>2, <2>3, OtherField
  <1>6. ASSUME drop(f) PROVE Risen(f)
    <2>1. Set(f, "lease", 0) /\ 0 \in Nat
      BY <1>6 DEF drop
    <2> QED
      BY <2>1, OtherField
  <1>7. ASSUME check(f) \/ refresh_grow(f) \/ refresh_reserve(f) \/ blocked(f) \/ notified(f)
               \/ consume_release(f)
        PROVE  UNCHANGED flow
    BY <1>7 DEF check, refresh_grow, refresh_reserve, blocked, notified, consume_release
  <1> QED
    BY <1>1, <1>2, <1>3, <1>4, <1>5, <1>6, <1>7 DEF SenderSteps

(* Credit that was granted is never revoked: no step of either task lowers *)
(* the limit of a flow, although both may hold a window computed from      *)
(* values that are no longer current.                                      *)
THEOREM CreditIsNotRevoked == Spec => NotRevoked
  <1> DEFINE NoneLower == \A f \in Flows : flow'[f].limit >= flow[f].limit
  <1>1. ASSUME CreditInv, [Next]_vars PROVE [NoneLower]_vars
    <2>1. CASE UNCHANGED vars
      BY <2>1
    <2>2. CASE Next
      <3>1. PICK f \in Flows :
              \/ \E n \in 0 .. MaxGrant : new(f, n) \/ grant(f, n)
              \/ cancel(f) \/ GrantSteps(f) \/ cancel_release(f) \/ SenderSteps(f)
        BY <2>2 DEF Next
      <3>2. Risen(f)
        BY <1>1, <3>1, SessionRises, SenderRises
      <3>3. CreditInv'
        BY <1>1, CreditNext
      <3>4. \A g \in Flows : flow[g].limit \in Nat /\ flow'[g].limit \in Nat
        BY <1>1, <3>3 DEF CreditInv, CreditTypeOK, FlowControl
      <3> QED
        BY <3>2, <3>4 DEF Risen
    <2> QED
      BY <1>1, <2>1, <2>2
  <1> QED
    BY <1>1, CreditCorrect, PTL DEF Spec, NotRevoked

-----------------------------------------------------------------------------
(* The sums over all flows. *)

(* A step on f moves bytes between the budget, the lease of f and what its *)
(* tasks have in hand, and neither makes nor loses any.                    *)
Balanced(f) ==
    /\ reserved' + (Held(f) + Moving(task.w)) = reserved + (Held(f)' + Moving(task'.w))
    /\ reserved' <= Maximum
BudgetExact == ~overlapped => Exact /\ reserved <= Maximum

LEMMA MovingType == \A w \in Work : Moving(w) \in Nat
  BY DEF Moving, Work

HeldTypeOK ==
    /\ Moving(task.w) \in Nat /\ reserved \in Nat
    /\ \A f \in Flows : flow[f].lease \in Nat /\ Moving(sender[f]) \in Nat /\ Held(f) \in Nat

LEMMA HeldType == CreditTypeOK => HeldTypeOK
  <1> SUFFICES ASSUME CreditTypeOK PROVE HeldTypeOK
    OBVIOUS
  <1>1. Moving(task.w) \in Nat /\ reserved \in Nat
    BY MovingType, Constants DEF CreditTypeOK
  <1>2. ASSUME NEW f \in Flows
        PROVE  flow[f].lease \in Nat /\ Moving(sender[f]) \in Nat
    BY MovingType DEF CreditTypeOK, FlowControl
  <1> QED
    BY <1>1, <1>2 DEF Held, HeldTypeOK

LEMMA HeldTypeNext == CreditTypeOK' => HeldTypeOK'
  BY HeldType, PTL

(* What a flow holds is part of the budget. *)
LEMMA HeldFits ==
    ASSUME CreditTypeOK, Exact, NEW f \in Flows
    PROVE  Held(f) + Moving(task.w) <= reserved
  <1> DEFINE H == [g \in Flows |-> Held(g)]
             s == SumFunctionOnSet(H, Flows)
  <1>1. IsFiniteSet(Flows) /\ \A g \in Flows : H[g] = Held(g) /\ H[g] \in Nat
    BY CreditAssumption, HeldType DEF HeldTypeOK
  <1>2. reserved = s + Moving(task.w)
    BY DEF Exact, Moved
  <1>3. s \in Nat /\ H[f] <= s
    <2> HIDE DEF H
    <2> QED
      BY <1>1, SumChange
  <1>4. H[f] \in Nat /\ H[f] = Held(f) /\ Moving(task.w) \in Nat
    BY <1>1, HeldType DEF HeldTypeOK
  <1> HIDE DEF s, H
  <1> QED
    BY <1>2, <1>3, <1>4

LEMMA StirredHolds ==
    ASSUME NEW w, NEW v, Stirred(v, w)
    PROVE  Moving(v) = Moving(w)
  BY DEF Stirred, Moving, At

LEMMA BalancedIsEnough ==
    ASSUME CreditTypeOK, CreditTypeOK', NEW f \in Flows, Others(f), Exact, Balanced(f)
    PROVE  Exact'
  <1> DEFINE H == [g \in Flows |-> Held(g)]
             J == [g \in Flows |-> Held(g)']
             s == SumFunctionOnSet(H, Flows)
             r == SumFunctionOnSet(J, Flows)
             m == Moving(task.w)
             n == Moving(task'.w)
  <1>1. m \in Nat /\ reserved \in Nat /\ \A g \in Flows : H[g] \in Nat /\ H[g] = Held(g)
    BY HeldType DEF HeldTypeOK
  <1>2. n \in Nat /\ reserved' \in Nat /\ \A g \in Flows : J[g] \in Nat /\ J[g] = Held(g)'
    BY HeldTypeNext DEF HeldTypeOK
  <1>3. ASSUME NEW g \in Flows, g # f PROVE H[g] = J[g]
    <2>1. flow'[g] = flow[g] /\ Moving(sender'[g]) = Moving(sender[g])
      BY <1>3, StirredHolds DEF Others
    <2> QED
      BY <2>1 DEF Held
  <1>4. s + J[f] = r + H[f] /\ s \in Nat /\ r \in Nat
    <2>1. IsFiniteSet(Flows)
      BY CreditAssumption
    <2> HIDE DEF H, J
    <2> QED
      BY <1>1, <1>2, <1>3, <2>1, SumChange
  <1>5. reserved = s + m
    BY DEF Exact, Moved
  <1>6. reserved' + (H[f] + m) = reserved + (J[f] + n) /\ H[f] \in Nat /\ J[f] \in Nat
    BY <1>1, <1>2 DEF Balanced
  <1>7. Moved' = r + n
    BY DEF Moved
  <1> HIDE DEF s, r, m, n, H, J
  <1>8. reserved' = r + n
    BY <1>1, <1>2, <1>4, <1>5, <1>6
  <1> QED
    BY <1>7, <1>8 DEF Exact

(* A step that leaves the bytes where they are. *)
LEMMA StillBalances ==
    ASSUME CreditTypeOK, NEW f \in Flows, reserved <= Maximum, UNCHANGED reserved,
           flow'[f].lease = flow[f].lease, Moving(sender'[f]) = Moving(sender[f]),
           Moving(task'.w) = Moving(task.w)
    PROVE  Balanced(f)
  BY HeldType DEF HeldTypeOK, Held, Balanced

(* A place where a task has no bytes in hand. *)
Empty == Places \ {"add", "release", "freed"}

LEMMA EmptyHanded == \A w : w.at \in Empty => Moving(w) = 0
  BY DEF Moving, Empty

LEMMA SetKeepsLease ==
    ASSUME CreditTypeOK, NEW f \in Flows, NEW v \in Nat,
           NEW field \in {"limit", "requested_limit", "sent"}, Set(f, field, v)
    PROVE  flow'[f].lease = flow[f].lease
  <1>1. flow \in [Flows -> FlowControl]
    BY DEF CreditTypeOK
  <1> QED
    BY <1>1, SetField

LEMMA LeaseSet ==
    ASSUME CreditTypeOK, NEW f \in Flows, NEW v \in Nat, Set(f, "lease", v)
    PROVE  flow'[f].lease = v
  <1>1. flow \in [Flows -> FlowControl]
    BY DEF CreditTypeOK
  <1> QED
    BY <1>1, SetField

(* Giving bytes back does not wrap when the budget has them. *)
LEMMA ReleaseExact ==
    ASSUME reserved \in 0 .. U64 - 1, NEW n \in Nat, n <= reserved, release(n)
    PROVE  reserved' = reserved - n
  <1>1. \A a, u \in Nat : a < u => a % u = a
    OBVIOUS
  <1>2. reserved - n \in Nat /\ reserved - n < U64 /\ U64 \in Nat
    BY Constants
  <1>3. (reserved - n) % U64 = reserved - n
    BY <1>1, <1>2, Zenon
  <1> QED
    BY <1>3 DEF release

(* Nor does the budget give more than it has. *)
LEMMA AllocationCapped ==
    ASSUME reserved \in Nat, reserved <= Maximum, NEW n \in Nat
    PROVE  Allocation(n) \in Nat /\ reserved + Allocation(n) <= Maximum
  BY Constants DEF Allocation, Least, SatSub

(* The bytes, as a step finds them until something overlaps. *)
Undisturbed == CreditInv /\ ~overlapped /\ Exact /\ reserved <= Maximum

LEMMA UndisturbedFacts ==
    ASSUME Undisturbed, NEW f \in Flows
    PROVE  /\ CreditTypeOK /\ reserved \in Nat /\ reserved <= Maximum /\ reserved \in 0 .. U64 - 1
           /\ flow[f] \in FlowControl /\ flow[f].lease \in Nat /\ flow[f].sent \in Nat
           /\ sender[f] \in Work /\ task.w \in Work /\ sender \in [Flows -> Work]
           /\ Moving(task.w) \in Nat /\ Moving(sender[f]) \in Nat
           /\ flow[f].lease + Moving(sender[f]) + Moving(task.w) <= reserved
  <1>1. CreditTypeOK /\ Exact /\ reserved <= Maximum
    BY DEF Undisturbed, CreditInv
  <1>2. /\ flow[f] \in FlowControl /\ sender[f] \in Work /\ task.w \in Work
        /\ sender \in [Flows -> Work] /\ reserved \in 0 .. U64 - 1
    BY <1>1 DEF CreditTypeOK
  <1>3. Held(f) + Moving(task.w) <= reserved
    BY <1>1, HeldFits
  <1>4. flow[f].sent \in Nat
    BY <1>2 DEF FlowControl
  <1> QED
    BY <1>1, <1>2, <1>3, <1>4, HeldType DEF HeldTypeOK, Held

LEMMA grant_Balances ==
    ASSUME Undisturbed, NEW f \in Flows, NEW n \in 0 .. MaxGrant, grant(f, n)
    PROVE  Balanced(f)
  <1>1. n \in Nat /\ Set(f, "requested_limit", n) /\ UNCHANGED <<reserved, sender>>
    BY Constants DEF grant
  <1>2. task.w.at \in Empty /\ task'.w.at \in Empty
    BY DEF grant, Task, At, Empty, Places
  <1> QED
    BY <1>1, <1>2, UndisturbedFacts, EmptyHanded, SetKeepsLease, StillBalances

(* The steps of a grant that only look. *)
LEMMA grant_Looks ==
    ASSUME Undisturbed, NEW f \in Flows, grant_sent(f) \/ resize_on_grant(f) \/ grant_grow(f)
    PROVE  Balanced(f)
  <1>1. UNCHANGED <<reserved, flow, sender>>
    BY DEF grant_sent, resize_on_grant, grant_grow
  <1>2. task.w.at \in Empty
    BY DEF grant_sent, resize_on_grant, grant_grow, Empty, Places
  <1>3. task'.w.at \in Empty
    <2>1. task.w \in Work /\ flow[f] \in FlowControl
      BY UndisturbedFacts
    <2>2. CASE grant_sent(f)
      <3> DEFINE n == SatSub(task.w.asked, flow[f].sent)
      <3>1. task'.w = [task.w EXCEPT !.at = "lease", !.sent = flow[f].sent, !.window = n]
        BY <2>2 DEF grant_sent, Task
      <3> HIDE DEF n
      <3> QED
        BY <2>1, <3>1 DEF Empty, Places, Work
    <2>3. CASE resize_on_grant(f)
      <3> DEFINE n == flow[f].lease - task.w.window
      <3>1. \/ task'.w = [task.w EXCEPT !.at = "store", !.bytes = n]
            \/ task'.w = [task.w EXCEPT !.at = "grow"]
        BY <2>3 DEF resize_on_grant, Task
      <3> HIDE DEF n
      <3> QED
        BY <2>1, <3>1 DEF Empty, Places, Work
    <2>4. CASE grant_grow(f)
      <3>1. Grow(f, task.w).at \in Empty
        BY <2>1, GrowFits DEF Empty, Places
      <3> QED
        BY <2>4, <3>1 DEF grant_grow, Task
    <2> QED
      BY <2>2, <2>3, <2>4
  <1> QED
    BY <1>1, <1>2, <1>3, UndisturbedFacts, EmptyHanded, StillBalances

LEMMA grant_limit_Balances ==
    ASSUME Undisturbed, NEW f \in Flows, grant_limit(f)
    PROVE  Balanced(f)
  <1> DEFINE F == IF Permitted(task.w) > flow[f].limit THEN {f} ELSE {}
  <1>1. /\ UNCHANGED reserved /\ Set(f, "limit", RaiseLimit(f, task.w))
        /\ sender' = Woken(F, sender)
    BY DEF grant_limit
  <1>2. task.w.at \in Empty /\ task'.w.at \in Empty
    BY DEF grant_limit, IdleTask, At, Empty, Places
  <1>3. RaiseLimit(f, task.w) \in Nat
    <2>1. /\ task.w.sent \in Nat /\ task.w.window \in Nat /\ task.w.asked \in Nat
          /\ flow[f].limit \in Nat
      BY UndisturbedFacts DEF Work, FlowControl
    <2> QED
      BY <2>1 DEF RaiseLimit, Permitted, Least, Most
  <1>4. Moving(sender'[f]) = Moving(sender[f])
    <2> HIDE DEF F
    <2>1. \A g \in Flows : Stirred(sender'[g], sender[g])
      BY <1>1, UndisturbedFacts, WokenStirs
    <2> QED
      BY <2>1, StirredHolds
  <1> QED
    BY <1>1, <1>2, <1>3, <1>4, UndisturbedFacts, EmptyHanded, SetKeepsLease, StillBalances

LEMMA grant_store_Balances ==
    ASSUME Undisturbed, NEW f \in Flows, grant_store(f)
    PROVE  Balanced(f)
  <1> DEFINE t == task.w
             b == Moving(sender[f])
             l == flow[f].lease
  <1>1. /\ task.f = f /\ t.at = "store" /\ Set(f, "lease", t.window)
        /\ UNCHANGED <<reserved, sender>> /\ task'.w = [t EXCEPT !.at = "release"]
    BY DEF grant_store, Task
  <1>2. t.window \in Nat /\ t.bytes \in Nat /\ task'.w.at = "release" /\ task'.w.bytes = t.bytes
    BY <1>1, UndisturbedFacts DEF Work
  <1>3. flow'[f].lease = t.window
    BY <1>1, <1>2, UndisturbedFacts, LeaseSet
  <1>4. l = t.window + t.bytes
    <2>1. FlowOK(flow[f], sender[f], t) /\ CoverOK(flow[f], sender[f], t)
      BY <1>1, TaskHere DEF Undisturbed
    <2>2. ~flow[f].cancelled
      BY <1>1, <2>1 DEF FlowOK
    <2> QED
      BY <1>1, <2>1, <2>2 DEF CoverOK
  <1>5. Moving(t) = 0 /\ Moving(task'.w) = t.bytes
    BY <1>1, <1>2 DEF Moving
  <1>6. reserved \in Nat /\ b \in Nat /\ reserved <= Maximum
    BY UndisturbedFacts
  <1>7. Held(f) = l + b /\ Held(f)' = t.window + b
    BY <1>1, <1>3 DEF Held
  <1> HIDE DEF l, b
  <1> QED
    BY <1>1, <1>2, <1>4, <1>5, <1>6, <1>7 DEF Balanced

LEMMA grant_release_Balances ==
    ASSUME Undisturbed, NEW f \in Flows, grant_release(f)
    PROVE  Balanced(f)
  <1> DEFINE t == task.w
             b == Moving(sender[f])
             l == flow[f].lease
  <1>1. /\ t.at = "release" /\ release(t.bytes) /\ UNCHANGED flow
        /\ sender' = Woken(Freed(t.bytes), sender) /\ task'.w = [t EXCEPT !.at = "limit"]
    BY DEF grant_release, Task
  <1>2. t.bytes \in Nat /\ task'.w.at = "limit"
    BY <1>1, UndisturbedFacts DEF Work
  <1>3. Moving(t) = t.bytes /\ Moving(task'.w) = 0
    BY <1>1, <1>2 DEF Moving
  <1>4. /\ reserved \in 0 .. U64 - 1 /\ reserved \in Nat /\ b \in Nat /\ l \in Nat
        /\ reserved <= Maximum /\ l + b + t.bytes <= reserved
    BY <1>3, UndisturbedFacts
  <1>5. t.bytes <= reserved
    BY <1>2, <1>4
  <1>6. reserved' = reserved - t.bytes
    BY <1>1, <1>2, <1>4, <1>5, ReleaseExact
  <1>7. Moving(sender'[f]) = b
    <2>1. \A g \in Flows : Stirred(sender'[g], sender[g])
      BY <1>1, UndisturbedFacts, WokenStirs
    <2> QED
      BY <2>1, StirredHolds
  <1>8. Held(f) = l + b /\ Held(f)' = l + b
    BY <1>1, <1>7 DEF Held
  <1> HIDE DEF l, b, t
  <1>9. reserved' + ((l + b) + t.bytes) = reserved + ((l + b) + 0) /\ reserved' <= Maximum
    BY <1>2, <1>4, <1>5, <1>6, Constants
  <1> QED
    BY <1>3, <1>8, <1>9 DEF Balanced, t

(* Bytes newly reserved are in the hand of the task that asked. *)
LEMMA ReservedMoves ==
    ASSUME NEW w \in Work, reserved \in 0 .. U64 - 1
    PROVE  Moving(Reserved(w)) = Allocation(w.bytes)
  <1> DEFINE n == Allocation(w.bytes)
             v == [w EXCEPT !.at = IF n = 0 THEN "limit" ELSE "add", !.window = @ + n, !.bytes = n]
  <1>1. w.bytes \in Nat /\ w.window \in Nat
    BY DEF Work
  <1>2. n \in Nat
    BY <1>1, AllocationFits
  <1>3. Reserved(w) = v
    BY DEF Reserved
  <1> HIDE DEF n
  <1>4. v.at = (IF n = 0 THEN "limit" ELSE "add") /\ v.bytes = n
    BY <1>1, <1>2 DEF Work
  <1> HIDE DEF v
  <1>5. CASE n = 0
    <2>1. v.at = "limit"
      BY <1>4, <1>5
    <2> QED
      BY <1>3, <1>5, <2>1 DEF Moving, n
  <1>6. CASE n # 0
    <2>1. v.at = "add"
      BY <1>4, <1>6
    <2> QED
      BY <1>3, <1>4, <2>1 DEF Moving, n
  <1> QED
    BY <1>5, <1>6

LEMMA grant_reserve_Balances ==
    ASSUME Undisturbed, NEW f \in Flows, grant_reserve(f)
    PROVE  Balanced(f)
  <1> DEFINE n == Allocation(task.w.bytes)
             h == Held(f)
  <1>1. /\ task.w.at = "reserve" /\ reserved' = reserved + n /\ UNCHANGED <<flow, sender>>
        /\ task'.w = Reserved(task.w)
    BY DEF grant_reserve, Task
  <1>2. task.w \in Work /\ task.w.bytes \in Nat /\ reserved \in 0 .. U64 - 1
    BY UndisturbedFacts DEF Work
  <1>3. n \in Nat /\ reserved \in Nat /\ reserved + n <= Maximum
    BY <1>2, UndisturbedFacts, AllocationCapped
  <1>4. Moving(task.w) = 0 /\ Moving(task'.w) = n
    BY <1>1, <1>2, ReservedMoves DEF Moving
  <1>5. h \in Nat /\ Held(f)' = h
    BY <1>1, UndisturbedFacts DEF Held
  <1> HIDE DEF n
  <1> QED
    BY <1>1, <1>3, <1>4, <1>5 DEF Balanced

LEMMA grant_add_Balances ==
    ASSUME Undisturbed, NEW f \in Flows, grant_add(f)
    PROVE  Balanced(f)
  <1> DEFINE t == task.w
             b == Moving(sender[f])
             l == flow[f].lease
  <1>1. /\ t.at = "add" /\ Set(f, "lease", l + t.bytes) /\ UNCHANGED <<reserved, sender>>
        /\ task'.w = [t EXCEPT !.at = "limit"]
    BY DEF grant_add, Task
  <1>2. /\ t.bytes \in Nat /\ task'.w.at = "limit" /\ l \in Nat /\ b \in Nat /\ reserved \in Nat
        /\ reserved <= Maximum
    BY <1>1, UndisturbedFacts DEF Work
  <1>3. Moving(t) = t.bytes /\ Moving(task'.w) = 0
    BY <1>1, <1>2 DEF Moving
  <1>4. flow'[f].lease = l + t.bytes
    <2>1. l + t.bytes \in Nat
      BY <1>2
    <2> QED
      BY <1>1, <2>1, UndisturbedFacts, LeaseSet
  <1>5. Held(f) = l + b /\ Held(f)' = (l + t.bytes) + b
    BY <1>1, <1>4 DEF Held
  <1> HIDE DEF l, b
  <1> QED
    BY <1>1, <1>2, <1>3, <1>5 DEF Balanced

LEMMA new_Balances ==
    ASSUME Undisturbed, NEW f \in Flows, NEW n \in 0 .. MaxGrant, new(f, n)
    PROVE  Balanced(f)
  <1> DEFINE a == Allocation(n)
  <1>1. /\ reserved' = reserved + a /\ UNCHANGED task /\ sender'[f] = At("check")
        /\ flow'[f].lease = a /\ flow[f].status = "none"
    <2>1. flow \in [Flows -> FlowControl] /\ sender \in [Flows -> Work]
      BY UndisturbedFacts DEF CreditTypeOK
    <2> QED
      BY <2>1 DEF new, Sender
  <1>2. FlowOK(flow[f], sender[f], TaskOf(f))
    BY Here0 DEF Undisturbed
  <1>3. flow[f].lease = 0 /\ Moving(sender[f]) = 0 /\ Moving(sender'[f]) = 0
    BY <1>1, <1>2 DEF FlowOK, Moving, At
  <1>4. a \in Nat /\ reserved \in Nat /\ reserved + a <= Maximum /\ Moving(task.w) \in Nat
    <2>1. n \in Nat
      BY Constants
    <2> QED
      BY <2>1, UndisturbedFacts, AllocationCapped
  <1>5. Held(f) = 0 /\ Held(f)' = a
    BY <1>1, <1>3, <1>4 DEF Held
  <1> HIDE DEF a
  <1> QED
    BY <1>1, <1>4, <1>5 DEF Balanced

LEMMA cancel_Balances ==
    ASSUME Undisturbed, NEW f \in Flows, cancel(f)
    PROVE  Balanced(f)
  <1> DEFINE b == Moving(sender[f])
             l == flow[f].lease
  <1>1. /\ UNCHANGED <<reserved, sender>> /\ task.w.at = "idle"
        /\ task'.w = [At("freed") EXCEPT !.bytes = l]
        /\ flow' = [flow EXCEPT ![f].status = "removed", ![f].cancelled = TRUE, ![f].lease = 0]
    BY DEF cancel, Task
  <1>2. flow'[f].lease = 0
    <2>1. flow \in [Flows -> FlowControl]
      BY UndisturbedFacts DEF CreditTypeOK
    <2> QED
      BY <1>1, <2>1 DEF FlowControl
  <1>3. Moving(task.w) = 0 /\ Moving(task'.w) = l
    <2>1. task'.w.at = "freed" /\ task'.w.bytes = l
      BY <1>1 DEF At
    <2> QED
      BY <1>1, <2>1 DEF Moving
  <1>4. l \in Nat /\ b \in Nat /\ reserved \in Nat /\ reserved <= Maximum
    BY UndisturbedFacts
  <1>5. Held(f) = l + b /\ Held(f)' = b
    BY <1>1, <1>2, <1>4 DEF Held
  <1> HIDE DEF l, b
  <1> QED
    BY <1>1, <1>3, <1>4, <1>5 DEF Balanced

LEMMA cancel_release_Balances ==
    ASSUME Undisturbed, NEW f \in Flows, cancel_release(f)
    PROVE  Balanced(f)
  <1> DEFINE t == task.w
             b == Moving(sender[f])
             l == flow[f].lease
  <1>1. /\ t.at = "freed" /\ release(t.bytes) /\ UNCHANGED flow
        /\ sender' = Woken(Freed(t.bytes) \union {f}, sender) /\ task'.w = At("idle")
    BY DEF cancel_release, IdleTask
  <1>2. t.bytes \in Nat
    BY UndisturbedFacts DEF Work
  <1>3. Moving(t) = t.bytes /\ Moving(task'.w) = 0
    BY <1>1 DEF Moving, At
  <1>4. /\ reserved \in 0 .. U64 - 1 /\ reserved \in Nat /\ b \in Nat /\ l \in Nat
        /\ reserved <= Maximum /\ l + b + t.bytes <= reserved
    BY <1>3, UndisturbedFacts
  <1>5. t.bytes <= reserved
    BY <1>2, <1>4
  <1>6. reserved' = reserved - t.bytes
    BY <1>1, <1>2, <1>4, <1>5, ReleaseExact
  <1>7. Moving(sender'[f]) = b
    <2>1. \A g \in Flows : Stirred(sender'[g], sender[g])
      BY <1>1, UndisturbedFacts, WokenStirs
    <2> QED
      BY <2>1, StirredHolds
  <1>8. Held(f) = l + b /\ Held(f)' = l + b
    BY <1>1, <1>7 DEF Held
  <1> HIDE DEF l, b, t
  <1>9. reserved' + ((l + b) + t.bytes) = reserved + ((l + b) + 0) /\ reserved' <= Maximum
    BY <1>2, <1>4, <1>5, <1>6, Constants
  <1> QED
    BY <1>3, <1>8, <1>9 DEF Balanced, t

(* The steps of a transfer's own task that only look or send. *)
LEMMA SenderQuiet ==
    ASSUME Undisturbed, NEW f \in Flows, NEW w, Sender(f, w),
           sender[f].at \in Empty, w.at \in Empty, UNCHANGED <<reserved, task>>,
           flow'[f].lease = flow[f].lease
    PROVE  Balanced(f)
  <1>1. sender'[f] = w
    BY UndisturbedFacts DEF Sender
  <1> QED
    BY <1>1, UndisturbedFacts, EmptyHanded, StillBalances

LEMMA check_Balances ==
    ASSUME Undisturbed, NEW f \in Flows, check(f)
    PROVE  Balanced(f)
  <1> DEFINE c == flow[f]
             w == IF c.cancelled \/ c.sent = Total THEN At("done")
                  ELSE [At("grow") EXCEPT !.asked = c.requested_limit, !.sent = c.sent,
                                          !.window = SatSub(c.requested_limit, c.sent)]
  <1>1. sender[f].at = "check" /\ Sender(f, w) /\ UNCHANGED <<reserved, flow, task>>
    BY DEF check, Here
  <1>2. w.at \in {"done", "grow"}
    BY DEF At
  <1> HIDE DEF w
  <1>3. sender[f].at \in Empty /\ w.at \in Empty
    BY <1>1, <1>2 DEF Empty, Places
  <1> QED
    BY <1>1, <1>3, SenderQuiet

LEMMA refresh_grow_Balances ==
    ASSUME Undisturbed, NEW f \in Flows, refresh_grow(f)
    PROVE  Balanced(f)
  <1> DEFINE w == Grow(f, sender[f])
  <1>1. sender[f].at = "grow" /\ Sender(f, w) /\ UNCHANGED <<reserved, flow, task>>
    BY DEF refresh_grow, Here
  <1>2. w.at \in {"limit", "reserve"}
    BY UndisturbedFacts, GrowFits
  <1> HIDE DEF w
  <1>3. sender[f].at \in Empty /\ w.at \in Empty
    BY <1>1, <1>2 DEF Empty, Places
  <1> QED
    BY <1>1, <1>3, SenderQuiet

LEMMA refresh_limit_Balances ==
    ASSUME Undisturbed, NEW f \in Flows, refresh_limit(f)
    PROVE  Balanced(f)
  <1> DEFINE s == sender[f]
  <1>1. /\ s.at = "limit" /\ Set(f, "limit", RaiseLimit(f, s)) /\ Sender(f, At("load"))
        /\ UNCHANGED <<reserved, task>>
    BY DEF refresh_limit, Here
  <1>2. s.at \in Empty /\ At("load").at \in Empty
    BY <1>1 DEF Empty, Places, At
  <1>3. RaiseLimit(f, s) \in Nat
    <2>1. s.sent \in Nat /\ s.window \in Nat /\ s.asked \in Nat /\ flow[f].limit \in Nat
      BY UndisturbedFacts DEF Work, FlowControl
    <2> QED
      BY <2>1 DEF RaiseLimit, Permitted, Least, Most
  <1>4. flow'[f].lease = flow[f].lease
    BY <1>1, <1>3, UndisturbedFacts, SetKeepsLease
  <1> QED
    BY <1>1, <1>2, <1>4, SenderQuiet

LEMMA record_sent_Balances ==
    ASSUME Undisturbed, NEW f \in Flows, record_sent(f)
    PROVE  Balanced(f)
  <1>1. PICK n \in Chunks(f) : /\ Set(f, "sent", flow[f].sent + n)
                               /\ Sender(f, [At("consume") EXCEPT !.bytes = n])
    BY DEF record_sent
  <1> DEFINE w == [At("consume") EXCEPT !.bytes = n]
  <1>2. sender[f].at = "load" /\ UNCHANGED <<reserved, task>> /\ w.at = "consume"
    BY DEF record_sent, Here, At
  <1>3. flow[f].sent + n \in Nat
    BY ChunksFit DEF Undisturbed
  <1>4. flow'[f].lease = flow[f].lease
    BY <1>1, <1>3, UndisturbedFacts, SetKeepsLease
  <1> HIDE DEF w
  <1>5. sender[f].at \in Empty /\ w.at \in Empty
    BY <1>2 DEF Empty, Places
  <1> QED
    BY <1>1, <1>2, <1>4, <1>5, SenderQuiet DEF w

LEMMA blocked_Balances ==
    ASSUME Undisturbed, NEW f \in Flows, blocked(f) \/ notified(f)
    PROVE  Balanced(f)
  <1>1. /\ sender[f].at \in {"load", "wait"} /\ UNCHANGED <<reserved, flow, task>>
        /\ Sender(f, At("wait")) \/ Sender(f, At("waiting"))
    BY DEF blocked, notified, Here
  <1>2. sender[f].at \in Empty /\ At("wait").at \in Empty /\ At("waiting").at \in Empty
    BY <1>1 DEF Empty, Places, At
  <1> QED
    BY <1>1, <1>2, SenderQuiet

LEMMA refresh_reserve_Balances ==
    ASSUME Undisturbed, NEW f \in Flows, refresh_reserve(f)
    PROVE  Balanced(f)
  <1> DEFINE s == sender[f]
             n == Allocation(s.bytes)
             l == flow[f].lease
             m == Moving(task.w)
  <1>1. /\ s.at = "reserve" /\ reserved' = reserved + n /\ UNCHANGED <<flow, task>>
        /\ Sender(f, Reserved(s))
    BY DEF refresh_reserve, Here
  <1>2. s \in Work /\ s.bytes \in Nat /\ reserved \in 0 .. U64 - 1
    BY UndisturbedFacts DEF Work
  <1>3. n \in Nat /\ reserved \in Nat /\ reserved + n <= Maximum /\ l \in Nat /\ m \in Nat
    BY <1>2, UndisturbedFacts, AllocationCapped
  <1>4. Moving(s) = 0 /\ Moving(sender'[f]) = n
    <2>1. sender'[f] = Reserved(s)
      BY <1>1, UndisturbedFacts DEF Sender
    <2> QED
      BY <1>1, <1>2, <2>1, ReservedMoves DEF Moving
  <1>5. Held(f) = l + 0 /\ Held(f)' = l + n /\ Moving(task'.w) = m
    BY <1>1, <1>4 DEF Held
  <1> HIDE DEF n, l, m
  <1> QED
    BY <1>1, <1>3, <1>5 DEF Balanced, m

LEMMA refresh_add_Balances ==
    ASSUME Undisturbed, NEW f \in Flows, refresh_add(f)
    PROVE  Balanced(f)
  <1> DEFINE s == sender[f]
             l == flow[f].lease
             m == Moving(task.w)
             w == [s EXCEPT !.at = "limit"]
  <1>1. /\ s.at = "add" /\ Set(f, "lease", l + s.bytes) /\ Sender(f, w)
        /\ UNCHANGED <<reserved, task>>
    BY DEF refresh_add, Here
  <1>2. /\ s.bytes \in Nat /\ w.at = "limit" /\ l \in Nat /\ m \in Nat /\ reserved \in Nat
        /\ reserved <= Maximum
    BY UndisturbedFacts DEF Work
  <1>3. Moving(s) = s.bytes /\ Moving(sender'[f]) = 0
    <2>1. sender'[f] = w
      BY <1>1, UndisturbedFacts DEF Sender
    <2> QED
      BY <1>1, <1>2, <2>1 DEF Moving
  <1>4. flow'[f].lease = l + s.bytes
    <2>1. l + s.bytes \in Nat
      BY <1>2
    <2> QED
      BY <1>1, <2>1, UndisturbedFacts, LeaseSet
  <1>5. Held(f) = l + s.bytes /\ Held(f)' = (l + s.bytes) + 0 /\ Moving(task'.w) = m
    BY <1>1, <1>3, <1>4 DEF Held
  <1> HIDE DEF l, m
  <1> QED
    BY <1>1, <1>2, <1>5 DEF Balanced, m

LEMMA consume_Balances ==
    ASSUME Undisturbed, NEW f \in Flows, consume(f)
    PROVE  Balanced(f)
  <1> DEFINE s == sender[f]
             n == s.bytes
             l == flow[f].lease
             m == Moving(task.w)
             w == [s EXCEPT !.at = "release"]
  <1>1. s.at = "consume" /\ UNCHANGED <<reserved, task>>
    BY DEF consume, Here
  <1>2. CASE Sender(f, At("done")) /\ UNCHANGED flow
    <2>1. s.at \in Empty /\ At("done").at \in Empty
      BY <1>1 DEF Empty, Places, At
    <2> QED
      BY <1>1, <1>2, <2>1, SenderQuiet
  <1>3. CASE n <= l /\ Set(f, "lease", l - n) /\ Sender(f, w)
    <2>1. /\ n \in Nat /\ w.at = "release" /\ w.bytes = n /\ l \in Nat /\ m \in Nat
          /\ reserved \in Nat /\ reserved <= Maximum
      BY UndisturbedFacts DEF Work
    <2>2. Moving(s) = 0 /\ Moving(sender'[f]) = n
      <3>1. sender'[f] = w
        BY <1>3, UndisturbedFacts DEF Sender
      <3> QED
        BY <1>1, <2>1, <3>1 DEF Moving
    <2>3. flow'[f].lease = l - n
      <3>1. l - n \in Nat
        BY <1>3, <2>1
      <3> QED
        BY <1>3, <3>1, UndisturbedFacts, LeaseSet
    <2>4. Held(f) = l + 0 /\ Held(f)' = (l - n) + n /\ Moving(task'.w) = m
      BY <1>1, <2>2, <2>3 DEF Held
    <2> HIDE DEF l, m, n
    <2> QED
      BY <1>1, <2>1, <2>4 DEF Balanced, m
  <1> QED
    BY <1>2, <1>3 DEF consume

LEMMA consume_release_Balances ==
    ASSUME Undisturbed, NEW f \in Flows, consume_release(f)
    PROVE  Balanced(f)
  <1> DEFINE n == sender[f].bytes
             l == flow[f].lease
             m == Moving(task.w)
             s == [sender EXCEPT ![f] = At("check")]
  <1>1. /\ sender[f].at = "release" /\ release(n) /\ sender' = Woken(Flows, s)
        /\ UNCHANGED <<flow, task>>
    BY DEF consume_release, Here
  <1>2. n \in Nat /\ Moving(sender[f]) = n
    BY <1>1, UndisturbedFacts DEF Work, Moving
  <1>3. /\ reserved \in 0 .. U64 - 1 /\ reserved \in Nat /\ m \in Nat /\ l \in Nat
        /\ reserved <= Maximum /\ l + n + m <= reserved
    BY <1>2, UndisturbedFacts
  <1>4. n <= reserved
    BY <1>2, <1>3
  <1>5. reserved' = reserved - n
    BY <1>1, <1>2, <1>3, <1>4, ReleaseExact
  <1>6. Moving(sender'[f]) = 0
    <2>1. At("check") \in Work /\ At("check").at = "check"
      BY AtWork DEF Places
    <2>2. s \in [Flows -> Work] /\ s[f] = At("check")
      BY <2>1, UndisturbedFacts
    <2>3. \A g \in Flows : Stirred(sender'[g], s[g])
      BY <1>1, <2>2, WokenStirs
    <2>4. Moving(sender'[f]) = Moving(At("check"))
      BY <2>2, <2>3, StirredHolds
    <2> QED
      BY <2>1, <2>4 DEF Moving
  <1>7. Held(f) = l + n /\ Held(f)' = l + 0 /\ Moving(task'.w) = m
    BY <1>1, <1>2, <1>6 DEF Held
  <1> HIDE DEF l, m, n
  <1>8. reserved' + ((l + n) + m) = reserved + ((l + 0) + m) /\ reserved' <= Maximum
    BY <1>2, <1>3, <1>4, <1>5, Constants
  <1> QED
    BY <1>7, <1>8 DEF Balanced, m

LEMMA drop_Balances ==
    ASSUME Undisturbed, NEW f \in Flows, drop(f)
    PROVE  Balanced(f)
  <1> DEFINE l == flow[f].lease
             m == Moving(task.w)
             s == [sender EXCEPT ![f] = At("none")]
  <1>1. /\ sender[f].at = "done" /\ release(l) /\ Set(f, "lease", 0)
        /\ sender' = Woken(Freed(l), s) /\ UNCHANGED task
    BY DEF drop, Here
  <1>2. Moving(sender[f]) = 0
    BY <1>1 DEF Moving
  <1>3. /\ reserved \in 0 .. U64 - 1 /\ reserved \in Nat /\ m \in Nat /\ l \in Nat
        /\ reserved <= Maximum /\ l + 0 + m <= reserved
    BY <1>2, UndisturbedFacts
  <1>4. l <= reserved
    BY <1>3
  <1>5. reserved' = reserved - l
    BY <1>1, <1>3, <1>4, ReleaseExact
  <1>6. Moving(sender'[f]) = 0
    <2>1. At("none") \in Work /\ At("none").at = "none"
      BY AtWork DEF Places
    <2>2. s \in [Flows -> Work] /\ s[f] = At("none")
      BY <2>1, UndisturbedFacts
    <2>3. \A g \in Flows : Stirred(sender'[g], s[g])
      BY <1>1, <2>2, WokenStirs
    <2>4. Moving(sender'[f]) = Moving(At("none"))
      BY <2>2, <2>3, StirredHolds
    <2> QED
      BY <2>1, <2>4 DEF Moving
  <1>7. flow'[f].lease = 0
    BY <1>1, UndisturbedFacts, LeaseSet
  <1>8. Held(f) = l + 0 /\ Held(f)' = 0 /\ Moving(task'.w) = m
    BY <1>1, <1>2, <1>6, <1>7 DEF Held
  <1> HIDE DEF l, m
  <1>9. reserved' + ((l + 0) + m) = reserved + (0 + m) /\ reserved' <= Maximum
    BY <1>3, <1>4, <1>5, Constants
  <1> QED
    BY <1>8, <1>9 DEF Balanced, m

(* Until something overlaps, the accounting is exact and within the budget. *)
LEMMA SoundNext ==
    ASSUME CreditInv, BudgetExact, [Next]_vars
    PROVE  BudgetExact'
  <1> SUFFICES ASSUME ~overlapped' PROVE Exact' /\ reserved' <= Maximum
    BY DEF BudgetExact
  <1>1. ASSUME NEW f \in Flows, Kept(f), Undisturbed => Balanced(f)
        PROVE  Exact' /\ reserved' <= Maximum
    <2>1. Undisturbed
      BY <1>1 DEF Kept, BudgetExact, Undisturbed
    <2>2. CreditTypeOK /\ CreditTypeOK' /\ Others(f) /\ Exact /\ Balanced(f)
      BY <1>1, <2>1 DEF Undisturbed, CreditInv, Kept
    <2> QED
      BY <2>2, BalancedIsEnough DEF Balanced
  <1>2. ASSUME NEW f \in Flows, GrantSteps(f)
        PROVE  Kept(f) /\ (Undisturbed => Balanced(f))
    <2>1. Kept(f)
      BY <1>2, grant_sent_Keeps, resize_on_grant_Keeps, grant_store_Keeps, grant_release_Keeps,
         grant_grow_Keeps, grant_reserve_Keeps, grant_add_Keeps, grant_limit_Keeps DEF GrantSteps
    <2>2. Undisturbed => Balanced(f)
      BY <1>2, grant_Looks, grant_store_Balances, grant_release_Balances, grant_reserve_Balances,
         grant_add_Balances, grant_limit_Balances DEF GrantSteps
    <2> QED
      BY <2>1, <2>2
  <1>3. ASSUME NEW f \in Flows, SenderSteps(f)
        PROVE  Kept(f) /\ (Undisturbed => Balanced(f))
    <2>1. Kept(f)
      BY <1>3, check_Keeps, refresh_grow_Keeps, refresh_reserve_Keeps, refresh_add_Keeps,
         refresh_limit_Keeps, record_sent_Keeps, blocked_Keeps, consume_Keeps,
         consume_release_Keeps, drop_Keeps DEF SenderSteps
    <2>2. Undisturbed => Balanced(f)
      BY <1>3, check_Balances, refresh_grow_Balances, refresh_reserve_Balances,
         refresh_add_Balances, refresh_limit_Balances, record_sent_Balances, blocked_Balances,
         consume_Balances, consume_release_Balances, drop_Balances DEF SenderSteps
    <2> QED
      BY <2>1, <2>2
  <1>4. CASE Next
    <2>1. PICK f \in Flows :
              \/ \E n \in 0 .. MaxGrant : new(f, n) \/ grant(f, n)
              \/ cancel(f) \/ GrantSteps(f) \/ cancel_release(f) \/ SenderSteps(f)
      BY <1>4 DEF Next
    <2>2. CASE \E n \in 0 .. MaxGrant : new(f, n) \/ grant(f, n)
      BY <1>1, <2>2, new_Keeps, grant_Keeps, new_Balances, grant_Balances
    <2>3. CASE cancel(f) \/ cancel_release(f)
      BY <1>1, <2>3, cancel_Keeps, cancel_release_Keeps, cancel_Balances, cancel_release_Balances
    <2> QED
      BY <1>1, <1>2, <1>3, <2>1, <2>2, <2>3
  <1>5. CASE UNCHANGED vars
    <2>1. UNCHANGED <<reserved, flow, task, sender, overlapped>>
      BY <1>5 DEF vars
    <2>2. Exact /\ reserved <= Maximum
      BY <2>1 DEF BudgetExact
    <2>3. \A f \in Flows : Held(f)' = Held(f)
      BY <2>1 DEF Held
    <2>4. [f \in Flows |-> Held(f)'] = [f \in Flows |-> Held(f)]
      BY <2>3
    <2>5. Moved' = Moved
      BY <2>1, <2>4 DEF Moved
    <2> QED
      BY <2>1, <2>2, <2>5 DEF Exact
  <1> QED
    BY <1>4, <1>5

LEMMA SoundInit == Init => BudgetExact
  <1> SUFFICES ASSUME Init PROVE Exact /\ reserved <= Maximum
    BY DEF BudgetExact
  <1> DEFINE H == [f \in Flows |-> Held(f)]
  <1>1. reserved = 0 /\ 0 <= Maximum /\ Moving(task.w) = 0
    BY Constants DEF Init, IdleTask, At, Moving
  <1>2. ASSUME NEW f \in Flows PROVE H[f] = 0
    BY DEF Init, Held, Moving, At
  <1>3. IsFiniteSet(Flows)
    BY CreditAssumption
  <1>4. SumFunctionOnSet(H, Flows) = 0
    <2> HIDE DEF H
    <2> QED
      BY <1>2, <1>3, SumZero
  <1> QED
    BY <1>1, <1>4 DEF Exact, Moved

(* Of what the flows may still send, each has its share in its lease. *)
LEMMA CoverCaps ==
    ASSUME CreditInv, ~overlapped, Exact, reserved <= Maximum
    PROVE  Capped
  <1> DEFINE H == [f \in Flows |-> Held(f)]
             L == [f \in Flows |-> flow[f].limit - flow[f].sent]
             T == {f \in Flows : ~flow[f].cancelled}
             a == SumFunctionOnSet(L, T)
             b == SumFunctionOnSet(H, Flows)
  <1>1. IsFiniteSet(Flows) /\ T \in SUBSET Flows
    BY CreditAssumption
  <1>2. HeldTypeOK
    BY HeldType DEF CreditInv
  <1>3. \A f \in Flows : H[f] \in Nat
    BY <1>2 DEF HeldTypeOK
  <1>4. ASSUME NEW f \in T PROVE L[f] \in Nat /\ L[f] <= H[f]
    <2> DEFINE c == flow[f]
               m == Moving(sender[f])
               i == InFlight(sender[f])
    <2>1. /\ c \in FlowControl /\ sender[f] \in Work /\ ~c.cancelled
          /\ FlowOK(c, sender[f], TaskOf(f)) /\ CoverOK(c, sender[f], TaskOf(f))
      BY Here0
    <2>2. c.limit \in Nat /\ c.sent \in Nat /\ c.lease \in Nat /\ m \in Nat /\ i \in Nat
      BY <2>1, MovingType DEF FlowControl, InFlight, Work
    <2>3. c.sent <= c.limit /\ c.limit + i <= c.lease + c.sent
      BY <2>1 DEF FlowOK, CoverOK
    <2>4. L[f] = c.limit - c.sent /\ H[f] = c.lease + m
      BY DEF Held
    <2> HIDE DEF c, m, i, L, H
    <2> QED
      BY <2>2, <2>3, <2>4
  <1>5. a <= b
    <2> HIDE DEF L, H, T
    <2> QED
      BY <1>1, <1>3, <1>4, SumLeq
  <1>6. a \in Nat /\ b \in Nat
    <2>1. IsFiniteSet(T)
      BY <1>1, FS_Subset
    <2> HIDE DEF L, H, T
    <2> QED
      BY <1>1, <1>3, <1>4, <2>1, SumType
  <1>7. reserved = b + Moving(task.w) /\ Moving(task.w) \in Nat
    BY <1>2 DEF Exact, Moved, HeldTypeOK
  <1> HIDE DEF a, b, L, H, T
  <1>8. a <= Maximum
    BY <1>5, <1>6, <1>7, Constants
  <1> QED
    BY <1>8 DEF Capped, a, L, T

(* record_sent finds in the lease what it consumes. *)
LEMMA CoverCovers ==
    ASSUME CreditInv, ~overlapped
    PROVE  Covered
  <1> SUFFICES ASSUME NEW f \in Flows, Here(f, "consume"), ~flow[f].cancelled
               PROVE  sender[f].bytes <= flow[f].lease
    BY DEF Covered
  <1> DEFINE c == flow[f]
             n == sender[f].bytes
  <1>1. c \in FlowControl /\ sender[f] \in Work /\ FlowOK(c, sender[f], TaskOf(f))
        /\ CoverOK(c, sender[f], TaskOf(f))
    BY Here0
  <1>2. c.limit \in Nat /\ c.sent \in Nat /\ c.lease \in Nat /\ n \in Nat
    BY <1>1 DEF FlowControl, Work
  <1>3. InFlight(sender[f]) = n
    BY DEF InFlight, Here
  <1>4. c.sent <= c.limit /\ c.limit + n <= c.lease + c.sent
    BY <1>1, <1>3 DEF FlowOK, CoverOK
  <1> HIDE DEF c, n
  <1>5. n <= c.lease
    BY <1>2, <1>4
  <1> QED
    BY <1>5 DEF c, n

LEMMA BudgetCorrect == Spec => [](CreditInv /\ BudgetExact)
  <1>1. CreditInv /\ BudgetExact /\ [Next]_vars => BudgetExact'
    BY SoundNext
  <1> QED
    BY <1>1, CreditCorrect, SoundInit, PTL DEF Spec

(* Through every interleaving of grants, refreshes, sends, cancels and     *)
(* drops of any number of flows CreditBudget counts what is leased         *)
(* exactly, what the flows may still send fits it, and record_sent finds   *)
(* what it consumes: unless a grant overlaps its own flow's record_sent,   *)
(* or a shrinking one its refresh_reservation.                             *)
THEOREM AccountingIsSound == Spec => []SoundUnlessOverlapped
  <1>1. CreditInv /\ BudgetExact => SoundUnlessOverlapped
    BY CoverCaps, CoverCovers DEF BudgetExact, SoundUnlessOverlapped
  <1> QED
    BY <1>1, BudgetCorrect, PTL
====
