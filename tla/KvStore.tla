------------------------------- MODULE KvStore -------------------------------
(* The key-value store of the server (crates/server/src/kv.rs) with the    *)
(* part of a native session that calls it (mutate_kv, watch_kv and         *)
(* run_kv_watch in crates/server/src/yas.rs).                              *)
(*                                                                         *)
(* The map in memory is the truth; every settled operation is queued, in   *)
(* mutation order, to one writer thread that commits whole batches to      *)
(* disk.  The process may crash at any step and reopens from disk.  A      *)
(* content hash stands for its value, a fingerprint for the request it     *)
(* digests, and sizes in bytes are not kept: the byte limits refuse in the *)
(* same places as the counts that are.                                     *)
(*                                                                         *)
(* An operator named Mut_... is a deliberately wrong variant of the        *)
(* definition after it, which no specification uses.                       *)
EXTENDS Naturals, Sequences, FiniteSets

CONSTANTS
    Keys, Values,
    NoValue,            \* the value of a key that is not stored
    Requests,           \* what clients ask for: [operation_id, mutations, durable]
    Callers,            \* sessions that mutate
    Subscribers,        \* subscriptions, each to the keys of its namespace
    Namespace,
    MaxEntries,
    MaxPendingWrites,
    MaxRecentReplays,   \* MAX_RECENT_OPERATION_REPLAYS
    ChangeQueue,        \* NATIVE_CHANGE_QUEUE
    MaxSequence,        \* bound of the model: operations settled
    MaxRestarts         \* bound of the model: crashes

Preconditions ==
    [kind : {"Any", "Absent", "Hash", "Revision", "HashAndRevision"},
     value : Values \union {NoValue}, revision : Nat]
Mutations == [kind : {"Put", "Delete"}, key : Keys, value : Values \union {NoValue},
              precondition : Preconditions]

ASSUME KvAssumption ==
    /\ IsFiniteSet(Keys)         \* of at most MAX_KEY_BYTES
    /\ NoValue \notin Values
    /\ \A r \in Requests :
        /\ DOMAIN r = {"operation_id", "mutations", "durable"}
        /\ r.mutations \in Seq(Mutations) /\ r.mutations # <<>>
        /\ r.durable \in BOOLEAN
    /\ Namespace \in [Subscribers -> SUBSET Keys]
    /\ {MaxEntries, MaxPendingWrites, MaxRecentReplays, ChangeQueue} \subseteq Nat \ {0}
    /\ {MaxSequence, MaxRestarts} \subseteq Nat

VARIABLES
    entries, operations, next_operation_sequence, revision, writer,   \* Store
    queue, batch, writer_thread,        \* the channel and the writer thread
    disk,                               \* what redb holds
    call,                               \* the mutation each session is serving
    watch,                              \* run_kv_watch of each subscription
    restarts, acked, replays_lost       \* observations, not program state

store == <<entries, operations, next_operation_sequence, revision, writer>>
persistence == <<queue, batch, writer_thread, disk>>
observed == <<restarts, acked, replays_lost>>
kv_vars == <<store, persistence, call, watch, observed>>

(* Revisions are never zero, so a key that is absent has revision 0. *)
NoEntry == [value |-> NoValue, modification_revision |-> 0]
EmptyStore == [k \in Keys |-> NoEntry]
LargestOf(S) == CHOOSE n \in S : \A m \in S : m <= n

fingerprint(r) == [mutations |-> r.mutations, durable |-> r.durable]
OperationIds == {r.operation_id : r \in Requests}
Written(r) == {r.mutations[i].key : i \in DOMAIN r.mutations}

-----------------------------------------------------------------------------
(* Evaluation of a request on a working copy. *)

precondition_matches(p, e) ==
    /\ p.kind = "Absent" => e = NoEntry
    /\ p.kind \in {"Hash", "Revision", "HashAndRevision"} => e # NoEntry
    /\ p.kind \in {"Hash", "HashAndRevision"} => e.value = p.value
    /\ p.kind \in {"Revision", "HashAndRevision"} => e.modification_revision = p.revision

(* The copy after the first i mutations of r. *)
WorkingAfter(r, from, commit_revision) ==
    LET m == r.mutations
        W[i \in 0 .. Len(m)] ==
            IF i = 0 THEN from
            ELSE [W[i - 1] EXCEPT ![m[i].key] =
                    IF m[i].kind = "Put"
                    THEN [value |-> m[i].value, modification_revision |-> commit_revision]
                    ELSE NoEntry]
    IN W
Working(r, from, commit_revision) ==
    WorkingAfter(r, from, commit_revision)[Len(r.mutations)]
Conflicts(r, from, commit_revision) ==
    \E i \in DOMAIN r.mutations :
        LET m == r.mutations[i]
        IN ~precondition_matches(m.precondition,
                                 WorkingAfter(r, from, commit_revision)[i - 1][m.key])

-----------------------------------------------------------------------------
(* Operation replays: what is kept of the outcomes of settled operations.  *)
(* The order of operation_order is that of the settlement sequence.        *)

LiveRevisions(es) == {es[k].modification_revision : k \in Keys} \ {0}
Mut_operation_pins_live_entry(o, es) == o.store_revision \in LiveRevisions(es)
operation_pins_live_entry(o, es) == o.ok /\ o.store_revision \in LiveRevisions(es)

Recent(ops) ==
    {o \in ops : Cardinality({p \in ops : p.settlement_sequence > o.settlement_sequence})
                 < MaxRecentReplays}
Pinned(ops, es) ==
    {o \in ops :
        /\ operation_pins_live_entry(o, es)
        /\ \A p \in ops :
            operation_pins_live_entry(p, es) /\ p.store_revision = o.store_revision
                => p.settlement_sequence <= o.settlement_sequence}

(* prune_operation_replays while running, retain_operation_candidate and   *)
(* finish_retained_operations when a database is loaded.                   *)
Retained(ops, es) == Recent(ops) \union Pinned(ops, es)

-----------------------------------------------------------------------------
(* The database. *)

(* One job inside the transaction: its rows, then its operation record,    *)
(* then the records it evicts.                                             *)
ApplyJob(d, job) ==
    [entries |-> [k \in Keys |-> IF k \in DOMAIN job.mutations THEN job.mutations[k]
                                 ELSE d.entries[k]],
     operations |->
        {o \in {p \in d.operations : p.operation_id # job.operation.operation_id}
                   \union {job.operation} : o.operation_id \notin job.evicted}]
ApplyEach(d, jobs) ==
    LET D[i \in 0 .. Len(jobs)] == IF i = 0 THEN d ELSE ApplyJob(D[i - 1], jobs[i])
    IN D
ApplyJobs(d, jobs) == ApplyEach(d, jobs)[Len(jobs)]

(* The revision is not stored: open takes it from the rows that are. *)
Mut_loaded_revision(d) == LargestOf({1} \union LiveRevisions(d.entries))
loaded_revision(d) ==
    LargestOf({1} \union LiveRevisions(d.entries)
                  \union {o.store_revision : o \in d.operations})
Mut_loaded_sequence(d) == LargestOf({0} \union {o.settlement_sequence : o \in d.operations})
loaded_sequence(d) == LargestOf({0} \union {o.settlement_sequence : o \in d.operations}) + 1

-----------------------------------------------------------------------------
(* Subscriptions: a broadcast receiver of bounded length and what the      *)
(* events sent so far say about the subscription's namespace.              *)

Unsubscribed == [on |-> FALSE, revision |-> 0, view |-> EmptyStore, changes |-> <<>>,
                 lagged |-> FALSE]
Visible(w, es) == [k \in Keys |-> IF k \in Namespace[w] THEN es[k] ELSE NoEntry]
ApplyChange(w, view, c) ==
    [k \in Keys |-> IF k \in DOMAIN c.records /\ k \in Namespace[w] THEN c.records[k]
                    ELSE view[k]]

(* A receiver that is full loses its oldest change and will be told so. *)
Mut_Receive(w, c) ==
    IF ~w.on THEN w
    ELSE IF Len(w.changes) < ChangeQueue THEN [w EXCEPT !.changes = Append(@, c)]
    ELSE [w EXCEPT !.changes = Append(Tail(@), c)]
Receive(w, c) ==
    IF ~w.on THEN w
    ELSE IF Len(w.changes) < ChangeQueue THEN [w EXCEPT !.changes = Append(@, c)]
    ELSE [w EXCEPT !.changes = Append(Tail(@), c), !.lagged = TRUE]
broadcast(c) == watch' = [w \in Subscribers |-> Receive(watch[w], c)]

(* Subscribing and copying the snapshot happen under one lock. *)
native_watch(w) ==
    [on |-> TRUE, revision |-> revision, view |-> Visible(w, entries), changes |-> <<>>,
     lagged |-> FALSE]

-----------------------------------------------------------------------------
Idle == [phase |-> "idle", request |-> {}, outcome |-> {}]
Calling(phase, r, outcome) == [phase |-> phase, request |-> {r}, outcome |-> outcome]

KvInit ==
    /\ entries = EmptyStore /\ operations = {} /\ next_operation_sequence = 1
    /\ revision = 1 /\ writer = TRUE
    /\ queue = <<>> /\ batch = <<>> /\ writer_thread = "receiving"
    /\ disk = [entries |-> EmptyStore, operations |-> {}]
    /\ call = [s \in Callers |-> Idle]
    /\ watch = [w \in Subscribers |-> Unsubscribed]
    /\ restarts = 0 /\ acked = {} /\ replays_lost = FALSE

Unseen(r) == \A o \in operations : o.operation_id # r.operation_id

(* The first half of mutate_kv, under a lock of its own: native_replay.    *)
(* The recorded outcome of the same request is answered at once and that   *)
(* of another one is Status::Conflict; neither changes anything.           *)
native_replay(s, r) ==
    /\ call[s] = Idle /\ Unseen(r)
    /\ call' = [call EXCEPT ![s] = Calling("missed", r, {})]
    /\ UNCHANGED <<store, persistence, watch, observed>>

(* The second half under the lock of native_mutate: an operation that      *)
(* another session settled in between is replayed here.                    *)
replay_late(s, r) ==
    /\ call[s] = Calling("missed", r, {})
    /\ ~Unseen(r)
    /\ call' = [call EXCEPT ![s] = Idle]
    /\ UNCHANGED <<store, persistence, watch, observed>>

Permit == writer => Len(queue) + Len(batch) < MaxPendingWrites
TooLarge(es) == Cardinality({k \in Keys : es[k] # NoEntry}) > MaxEntries

(* An outcome is recorded, its job queued (or the writer found gone), and  *)
(* the session either answers or waits for the writer.                     *)
settle(s, r, es, rev, ok, written) ==
    LET o == [operation_id |-> r.operation_id, fingerprint |-> fingerprint(r),
              store_revision |-> rev, settlement_sequence |-> next_operation_sequence,
              ok |-> ok]
        ops == operations \union {o}
        job == [mutations |-> written, operation |-> o,
                evicted |-> {p.operation_id : p \in ops \ Retained(ops, es)}]
        queued == writer /\ writer_thread # "exited"
    IN /\ operations' = Retained(ops, es)
       /\ next_operation_sequence' = next_operation_sequence + 1
       /\ entries' = es /\ revision' = rev
       /\ queue' = IF queued THEN Append(queue, job) ELSE queue
       /\ writer' = queued
       /\ call' = [call EXCEPT ![s] =
                    IF r.durable /\ queued
                    THEN Calling("waiting", r, {o})
                    ELSE Idle]

native_mutate(s, r) ==
    LET commit_revision == revision + 1
        working == Working(r, entries, commit_revision)
        written == [k \in Written(r) |-> working[k]]
        refused == /\ call' = [call EXCEPT ![s] = Idle]      \* Status::ResourceExhausted
                   /\ UNCHANGED <<store, queue, watch>>
    IN /\ call[s] = Calling("missed", r, {})
       /\ Unseen(r)
       /\ next_operation_sequence <= MaxSequence
       /\ \/ /\ Conflicts(r, entries, commit_revision)
             /\ \/ Permit /\ settle(s, r, entries, revision, FALSE, <<>>) /\ UNCHANGED watch
                \/ ~Permit /\ refused
          \/ /\ ~Conflicts(r, entries, commit_revision)
             /\ \/ /\ ~TooLarge(working) /\ Permit
                   /\ settle(s, r, working, commit_revision, TRUE, written)
                   /\ broadcast([from_revision |-> revision, to_revision |-> commit_revision,
                                 records |-> written])
                \/ (TooLarge(working) \/ ~Permit) /\ refused
       /\ UNCHANGED <<batch, writer_thread, disk, observed>>

(* Internal::KvDurableComplete: the session answers a durable request. *)
durable_complete(s) ==
    /\ call[s].phase \in {"persisted", "failed"}
    /\ \E r \in call[s].request, o \in call[s].outcome :
        acked' = IF call[s].phase = "persisted" /\ o.ok         \* Status::Ok
                 THEN acked \union {[request |-> r, revision |-> o.store_revision]}
                 ELSE acked                                    \* a conflict, or Status::Io
    /\ call' = [call EXCEPT ![s] = Idle]
    /\ UNCHANGED <<store, persistence, watch, restarts, replays_lost>>

(* The session ends while it waits: the task is aborted. *)
abandon(s) ==
    /\ call[s].phase \in {"waiting", "persisted", "failed"}
    /\ call' = [call EXCEPT ![s] = Idle]
    /\ UNCHANGED <<store, persistence, watch, observed>>

-----------------------------------------------------------------------------
(* writer_loop. *)

Reply(jobs, phase) ==
    call' = [s \in Callers |->
        IF /\ call[s].phase = "waiting"
           /\ \E i \in DOMAIN jobs : jobs[i].operation \in call[s].outcome
        THEN [call[s] EXCEPT !.phase = phase] ELSE call[s]]

Mut_writer_receive ==
    /\ writer_thread = "receiving" /\ queue # <<>>
    /\ Reply(queue, "persisted")
    /\ batch' = queue /\ queue' = <<>> /\ writer_thread' = "committing"
    /\ UNCHANGED <<store, disk, watch, observed>>
writer_receive ==
    /\ writer_thread = "receiving" /\ queue # <<>>
    /\ batch' = queue /\ queue' = <<>> /\ writer_thread' = "committing"
    /\ UNCHANGED <<store, disk, call, watch, observed>>

writer_commit ==
    /\ writer_thread = "committing"
    /\ disk' = ApplyJobs(disk, batch)
    /\ Reply(batch, "persisted")
    /\ batch' = <<>> /\ writer_thread' = "receiving"
    /\ UNCHANGED <<store, queue, watch, observed>>

(* The transaction fails: the thread never commits again. *)
writer_fail ==
    /\ writer_thread = "committing"
    /\ Reply(batch, "failed")
    /\ batch' = <<>> /\ writer_thread' = "draining"
    /\ UNCHANGED <<store, queue, disk, watch, observed>>

(* What is still queued fails, and what arrives before the receiver is     *)
(* dropped loses its reply with it, which the session reads as a failure.  *)
Mut_writer_exit ==
    /\ writer_thread = "draining"
    /\ queue' = <<>> /\ writer_thread' = "exited"
    /\ UNCHANGED <<store, batch, disk, call, watch, observed>>
writer_exit ==
    /\ writer_thread = "draining"
    /\ Reply(queue, "failed")
    /\ queue' = <<>> /\ writer_thread' = "exited"
    /\ UNCHANGED <<store, batch, disk, watch, observed>>

(* A crash and Store::open.  The database opens and loads, with its replay *)
(* records or, if they cannot be read, without them; or it cannot be used  *)
(* and the store starts empty.  In that case, and when the writer thread   *)
(* cannot be started, the store is memory-only.                            *)
load(ops, rev, sequence_number) ==
    /\ entries' = disk.entries /\ operations' = ops /\ revision' = rev
    /\ next_operation_sequence' = sequence_number
    /\ \/ writer' = TRUE /\ writer_thread' = "receiving"
       \/ writer' = FALSE /\ writer_thread' = "exited"

Restart ==
    /\ restarts < MaxRestarts
    /\ restarts' = restarts + 1
    /\ \/ LET kept == Retained(disk.operations, disk.entries)
          IN /\ load(kept, loaded_revision(disk), loaded_sequence(disk))
             /\ \E left \in SUBSET (disk.operations \ kept) :    \* pruning may fail
                    disk' = [disk EXCEPT !.operations = kept \union left]
             /\ UNCHANGED replays_lost
       \/ /\ load({}, LargestOf({1} \union LiveRevisions(disk.entries)), 1)
          /\ replays_lost' = TRUE
          /\ UNCHANGED disk
       \/ /\ entries' = EmptyStore /\ operations' = {} /\ revision' = 1
          /\ next_operation_sequence' = 1
          /\ writer' = FALSE /\ writer_thread' = "exited"
          /\ UNCHANGED <<disk, replays_lost>>
    /\ queue' = <<>> /\ batch' = <<>>
    /\ call' = [s \in Callers |-> Idle]
    /\ watch' = [w \in Subscribers |-> Unsubscribed]
    /\ UNCHANGED acked

-----------------------------------------------------------------------------
(* Watching. *)

watch_kv(w) ==
    /\ ~watch[w].on
    /\ watch' = [watch EXCEPT ![w] = native_watch(w)]
    /\ UNCHANGED <<store, persistence, call, observed>>

(* UNWATCH, CLOSE of the namespace or the end of the session. *)
unwatch(w) ==
    /\ watch[w].on
    /\ watch' = [watch EXCEPT ![w] = Unsubscribed]
    /\ UNCHANGED <<store, persistence, call, observed>>

(* A change is received: skipped when the snapshot already holds it, else  *)
(* sent as a delta.                                                        *)
Deliver(w, c) ==
    IF c.to_revision <= watch[w].revision THEN [watch[w] EXCEPT !.changes = Tail(@)]
    ELSE [watch[w] EXCEPT !.revision = c.to_revision,
                          !.view = ApplyChange(w, @, c),
                          !.changes = Tail(@)]
watch_delta(w) ==
    /\ watch[w].on /\ ~watch[w].lagged /\ watch[w].changes # <<>>
    /\ watch' = [watch EXCEPT ![w] = Deliver(w, Head(@.changes))]
    /\ UNCHANGED <<store, persistence, call, observed>>

(* A delta too large for the subscription is replaced by a reset and a     *)
(* fresh snapshot.                                                         *)
watch_reset(w) ==
    /\ watch[w].on /\ ~watch[w].lagged /\ watch[w].changes # <<>>
    /\ Head(watch[w].changes).to_revision > watch[w].revision
    /\ watch' = [watch EXCEPT ![w] = native_watch(w)]
    /\ UNCHANGED <<store, persistence, call, observed>>

(* RecvError::Lagged. *)
watch_lagged(w) ==
    /\ watch[w].on /\ watch[w].lagged
    /\ watch' = [watch EXCEPT ![w] = native_watch(w)]
    /\ UNCHANGED <<store, persistence, call, observed>>

KvNext ==
    \/ \E s \in Callers : \/ \E r \in Requests : \/ native_replay(s, r)
                                                \/ replay_late(s, r)
                                                \/ native_mutate(s, r)
                         \/ durable_complete(s) \/ abandon(s)
    \/ writer_receive \/ writer_commit \/ writer_fail \/ writer_exit
    \/ Restart
    \/ \E w \in Subscribers : \/ watch_kv(w) \/ unwatch(w) \/ watch_delta(w)
                             \/ watch_reset(w) \/ watch_lagged(w)

KvSpec == KvInit /\ [][KvNext]_kv_vars

-----------------------------------------------------------------------------
(* Properties. *)

EntryType == [value : Values \union {NoValue}, modification_revision : Nat]
OperationType ==
    [operation_id : OperationIds, fingerprint : {fingerprint(r) : r \in Requests},
     store_revision : Nat \ {0}, settlement_sequence : Nat \ {0}, ok : BOOLEAN]
JobOK(j) ==
    /\ DOMAIN j.mutations \subseteq Keys
    /\ \A k \in DOMAIN j.mutations : j.mutations[k] \in EntryType
    /\ j.operation \in OperationType /\ j.evicted \subseteq OperationIds
Jobs(q) == {q[i] : i \in DOMAIN q}

(* The types of the state. *)
KvTypeOK ==
    /\ entries \in [Keys -> EntryType] /\ operations \subseteq OperationType
    /\ next_operation_sequence \in Nat \ {0} /\ revision \in Nat \ {0}
    /\ writer \in BOOLEAN
    /\ \A j \in Jobs(queue) \union Jobs(batch) : JobOK(j)
    /\ writer_thread \in {"receiving", "committing", "draining", "exited"}
    /\ disk.entries \in [Keys -> EntryType] /\ disk.operations \subseteq OperationType
    /\ \A s \in Callers :
        /\ call[s].phase \in {"idle", "missed", "waiting", "persisted", "failed"}
        /\ call[s].request \subseteq Requests /\ call[s].outcome \subseteq OperationType
    /\ \A w \in Subscribers : watch[w].view \in [Keys -> EntryType]
    /\ restarts \in 0 .. MaxRestarts
    /\ acked \subseteq [request : Requests, revision : Nat \ {0}]
    /\ replays_lost \in BOOLEAN

(* While the writer works, opening what the disk will hold once it has     *)
(* written all it was given would bring back exactly what is in memory:    *)
(* the rows, the replay records that are retained, and also the revision   *)
(* and the sequence, which are not written but found again from the rows   *)
(* that are.  So a crash loses a suffix of the mutations and nothing else, *)
(* and no revision that is on disk is given out twice, as long as no start *)
(* had to do without the replay records.                                   *)
WriteBehind ==
    writer /\ writer_thread \in {"receiving", "committing"} /\ ~replays_lost =>
        LET d == ApplyJobs(disk, batch \o queue)
        IN /\ d.entries = entries /\ Retained(d.operations, d.entries) = operations
           /\ loaded_revision(d) = revision
           /\ loaded_sequence(d) = next_operation_sequence

(* Every value in memory can be traced to the one recorded operation that  *)
(* put it there, however many operations have been settled since and also  *)
(* after a restart: a client that retries the operation while its value is *)
(* still stored gets the recorded outcome and does not write again.        *)
LiveIsReplayable ==
    /\ \A k \in Keys : entries[k] # NoEntry /\ ~replays_lost =>
        \E o \in operations :
            /\ o.ok /\ o.store_revision = entries[k].modification_revision
            /\ \E i \in DOMAIN o.fingerprint.mutations :
                /\ o.fingerprint.mutations[i].key = k
                /\ o.fingerprint.mutations[i].value = entries[k].value
    /\ \A o, p \in operations : o.operation_id = p.operation_id => o = p

(* A session that waits for the disk is always waiting for a job the       *)
(* writer still holds, so it is answered whether the writer commits, fails *)
(* or exits, and no permit outlives its job.                               *)
WaiterIsBacked ==
    /\ \A s \in Callers : call[s].phase = "waiting" =>
        \E j \in Jobs(queue) \union Jobs(batch) : call[s].outcome = {j.operation}
    /\ writer_thread = "exited" => queue = <<>>
    /\ writer_thread # "committing" => batch = <<>>
    /\ Len(queue) + Len(batch) <= MaxPendingWrites

(* What redb holds still shows the outcome a, or something later.          *)
OnDisk(a) ==
    /\ loaded_revision(disk) >= a.revision
    /\ \A k \in Written(a.request) :
        \/ disk.entries[k] = Working(a.request, EmptyStore, a.revision)[k]
        \/ /\ loaded_revision(disk) > a.revision
           /\ \/ disk.entries[k] = NoEntry
              \/ disk.entries[k].modification_revision > a.revision

(* A DURABLE mutation that the session which carried it out has answered   *)
(* Ok is on disk, across crashes, writer failures and memory-only starts.  *)
(* A retry is another matter: it is answered from the replay table at once,*)
(* also while the commit of the operation is pending or after it failed.   *)
DurableSurvives == ~replays_lost => \A a \in acked : OnDisk(a)

(* What a client that has been sent view is told by each of the changes c. *)
ViewsAfter(w, view, c) ==
    LET V[i \in 0 .. Len(c)] == IF i = 0 THEN view ELSE ApplyChange(w, V[i - 1], c[i])
    IN V

(* A subscription that has not lagged is exactly its queued changes behind *)
(* the store: they follow its revision without a gap up to the store's,    *)
(* and applied to what the client has been sent they give what is stored.  *)
WatchExact ==
    \A w \in Subscribers : watch[w].on /\ ~watch[w].lagged =>
        LET c == watch[w].changes
            R(i) == IF i = 0 THEN watch[w].revision ELSE c[i].to_revision
        IN /\ \A i \in DOMAIN c : c[i].from_revision = R(i - 1)
           /\ R(Len(c)) = revision
           /\ ViewsAfter(w, watch[w].view, c)[Len(c)] = Visible(w, entries)
=============================================================================
