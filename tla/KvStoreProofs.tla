---------------------------- MODULE KvStoreProofs -----------------------------
(***************************************************************************)
(* Proofs about KvStore for any keys, values, requests, sessions,          *)
(* subscriptions and limits: all that the run checks of it.                *)
(*                                                                         *)
(* Three computations are iterations: the working copy over the mutations  *)
(* of a request (WorkingIs: the last mutation of a key decides), the       *)
(* database over a batch (ApplySteps, Stages...) and the view of a client  *)
(* over the queued changes (ViewSteps).  DataInduction gives the steps.    *)
(*                                                                         *)
(* WatchExact holds by AllFollow, where the queued changes of every        *)
(* subscription carry consecutive revisions, lagged ones included.         *)
(* WriteBehind and LiveIsReplayable hold by Traced: the records in memory  *)
(* and those of every stage the database will go through are in the order  *)
(* of their sequence and their revisions, and each row is explained by     *)
(* one.  SettlingKeepsRetained is why what was dropped never matters       *)
(* again.  DurableSurvives holds by Promised: a job writes the rows of its *)
(* request, and a stage shows all that an earlier one showed.              *)
(***************************************************************************)
EXTENDS KvStore, DataInduction, SequenceTheorems, TLAPS

Entries == [Keys -> EntryType]

(* The row a mutation leaves behind. *)
RowOf(m, commit_revision) ==
    IF m.kind = "Put" THEN [value |-> m.value, modification_revision |-> commit_revision]
    ELSE NoEntry

LEMMA NoEntryType == NoEntry \in EntryType
  BY DEF NoEntry, EntryType

LEMMA RowType ==
    ASSUME NEW m \in Mutations, NEW rev \in Nat
    PROVE  RowOf(m, rev) \in EntryType
  BY NoEntryType DEF RowOf, EntryType, Mutations

Solving(m, from, rev, g) ==
    g = [i \in 0 .. Len(m) |-> IF i = 0 THEN from ELSE [g[i - 1] EXCEPT ![m[i].key] = RowOf(m[i], rev)]]

LEMMA WorkingUnfolds ==
    ASSUME NEW r, NEW from, NEW rev
    PROVE  WorkingAfter(r, from, rev) = CHOOSE g : Solving(r.mutations, from, rev, g)
  BY DEF WorkingAfter, Solving, RowOf

WorkingRuns(m, from, rev, W) ==
    /\ W \in [0 .. Len(m) -> Entries] /\ W[0] = from
    /\ \A i \in 1 .. Len(m) : W[i] = [W[i - 1] EXCEPT ![m[i].key] = RowOf(m[i], rev)]

(* Evaluating a request, one mutation at a time. *)
LEMMA WorkingSteps ==
    ASSUME NEW r, r.mutations \in Seq(Mutations), NEW from \in Entries, NEW rev \in Nat
    PROVE  WorkingRuns(r.mutations, from, rev, WorkingAfter(r, from, rev))
  <1> DEFINE m == r.mutations
             n == Len(m)
             step == [i \in 1 .. n |-> [e \in Entries |-> [e EXCEPT ![m[i].key] = RowOf(m[i], rev)]]]
             W == WorkingAfter(r, from, rev)
  <1>1. n \in Nat /\ \A i \in 1 .. n : m[i] \in Mutations
    OBVIOUS
  <1>2. step \in [1 .. n -> [Entries -> Entries]]
    <2> SUFFICES ASSUME NEW i \in 1 .. n, NEW e \in Entries
                 PROVE  [e EXCEPT ![m[i].key] = RowOf(m[i], rev)] \in Entries
      BY Zenon
    <2>1. RowOf(m[i], rev) \in EntryType
      BY <1>1, RowType
    <2> QED
      BY <2>1 DEF Entries
  <1>3. PICK g \in [0 .. n -> Entries] : g[0] = from /\ \A i \in 1 .. n : g[i] = step[i][g[i - 1]]
    <2> HIDE DEF step, n
    <2>1. Iterated(Entries, from, n, step)
      BY <1>1, <1>2, Iteration
    <2> QED
      BY <2>1 DEF Iterated
  <1>4. \A i \in 1 .. n : g[i] = [g[i - 1] EXCEPT ![m[i].key] = RowOf(m[i], rev)]
    <2> SUFFICES ASSUME NEW i \in 1 .. n PROVE g[i] = [g[i - 1] EXCEPT ![m[i].key] = RowOf(m[i], rev)]
      OBVIOUS
    <2>1. g[i - 1] \in Entries
      BY <1>1, <1>3
    <2> QED
      BY <1>3, <2>1
  <1>5. Solving(m, from, rev, g)
    <2>1. g = [i \in 0 .. n |-> g[i]]
      BY <1>3
    <2>2. \A i \in 0 .. n : i # 0 => i \in 1 .. n
      BY <1>1
    <2>3. \A i \in 0 .. n :
             g[i] = IF i = 0 THEN from ELSE [g[i - 1] EXCEPT ![m[i].key] = RowOf(m[i], rev)]
      BY <1>3, <1>4, <2>2, Zenon
    <2> QED
      BY <2>1, <2>3, Zenon DEF Solving
  <1>6. Solving(m, from, rev, W)
    BY <1>5, WorkingUnfolds, Zenon
  <1>7. /\ W[0] = from
        /\ \A i \in 1 .. n : W[i] = [W[i - 1] EXCEPT ![m[i].key] = RowOf(m[i], rev)]
    <2> HIDE DEF W, m
    <2>1. \A i \in 0 .. n :
             W[i] = IF i = 0 THEN from ELSE [W[i - 1] EXCEPT ![m[i].key] = RowOf(m[i], rev)]
      BY <1>6 DEF Solving
    <2>2. 0 \in 0 .. n /\ \A i \in 1 .. n : i \in 0 .. n /\ i # 0
      BY <1>1
    <2> QED
      BY <2>1, <2>2, Zenon
  <1>8. W = [i \in 0 .. n |-> W[i]]
    <2> HIDE DEF W, m
    <2> QED
      BY <1>6 DEF Solving
  <1>9. \A i \in 0 .. n : W[i] \in Entries
    <2>1. ASSUME NEW i \in 1 .. n, W[i - 1] \in Entries PROVE W[i] \in Entries
      <3>1. RowOf(m[i], rev) \in EntryType
        BY <1>1, RowType
      <3> HIDE DEF W, m
      <3> QED
        BY <1>7, <2>1, <3>1 DEF Entries
    <2> HIDE DEF W, m, n
    <2> QED
      BY <1>1, <1>7, <2>1, IterationIn
  <1>10. W \in [0 .. n -> Entries]
    <2> HIDE DEF W, m, n
    <2> QED
      BY <1>8, <1>9
  <1> HIDE DEF W, m
  <1> QED
    BY <1>7, <1>10, Zenon DEF WorkingRuns, W, m

-----------------------------------------------------------------------------
(* The types of all that the store keeps. *)

RowsType == UNION {[K -> EntryType] : K \in SUBSET Keys}
JobType == [mutations : RowsType, operation : OperationType, evicted : SUBSET OperationIds]
FiniteOperations == {O \in SUBSET OperationType : IsFiniteSet(O)}
DiskType == [entries : Entries, operations : FiniteOperations]
ChangeType == [from_revision : Nat, to_revision : Nat, records : RowsType]
CallType == [phase : {"idle", "missed", "waiting", "persisted", "failed"},
             request : SUBSET Requests, outcome : SUBSET OperationType]
WatchType == [on : BOOLEAN, revision : Nat, view : Entries, changes : Seq(ChangeType),
              lagged : BOOLEAN]

StoreTyped ==
    /\ entries \in Entries /\ operations \in FiniteOperations
    /\ next_operation_sequence \in Nat \ {0} /\ revision \in Nat \ {0} /\ writer \in BOOLEAN
QueueTyped ==
    /\ queue \in Seq(JobType) /\ batch \in Seq(JobType)
    /\ writer_thread \in {"receiving", "committing", "draining", "exited"}
DiskTyped == disk \in DiskType
CallTyped == call \in [Callers -> CallType]
WatchTyped == watch \in [Subscribers -> WatchType]
ObservedTyped ==
    /\ restarts \in 0 .. MaxRestarts /\ acked \subseteq [request : Requests, revision : Nat \ {0}]
    /\ replays_lost \in BOOLEAN
KvTyped == StoreTyped /\ QueueTyped /\ DiskTyped /\ CallTyped /\ WatchTyped /\ ObservedTyped

LEMMA TypedIsTypeOK == KvTyped => KvTypeOK
  <1> SUFFICES ASSUME KvTyped PROVE KvTypeOK
    OBVIOUS
  <1>1. ASSUME NEW j \in JobType PROVE JobOK(j)
    <2>1. PICK K \in SUBSET Keys : j.mutations \in [K -> EntryType]
      BY DEF JobType, RowsType
    <2> QED
      BY <2>1 DEF JobType, JobOK
  <1>2. \A j \in Jobs(queue) \union Jobs(batch) : JobOK(j)
    <2>1. \A j \in Jobs(queue) \union Jobs(batch) : j \in JobType
      BY DEF KvTyped, QueueTyped, Jobs
    <2> QED
      BY <1>1, <2>1
  <1>3. \A s \in Callers :
          /\ call[s].phase \in {"idle", "missed", "waiting", "persisted", "failed"}
          /\ call[s].request \subseteq Requests /\ call[s].outcome \subseteq OperationType
    BY DEF KvTyped, CallTyped, CallType
  <1>4. \A w \in Subscribers : watch[w].view \in Entries
    BY DEF KvTyped, WatchTyped, WatchType
  <1>5. disk.entries \in Entries /\ disk.operations \subseteq OperationType
    BY DEF KvTyped, DiskTyped, DiskType, FiniteOperations
  <1> QED
    BY <1>2, <1>3, <1>4, <1>5
       DEF KvTyped, KvTypeOK, StoreTyped, QueueTyped, ObservedTyped, Entries, FiniteOperations

(* One job inside the transaction. *)
LEMMA JobApplies ==
    ASSUME NEW d \in DiskType, NEW j \in JobType
    PROVE  ApplyJob(d, j) \in DiskType
  <1> DEFINE es == [k \in Keys |-> IF k \in DOMAIN j.mutations THEN j.mutations[k] ELSE d.entries[k]]
             ops == {o \in {p \in d.operations : p.operation_id # j.operation.operation_id}
                          \union {j.operation} : o.operation_id \notin j.evicted}
  <1>1. PICK K \in SUBSET Keys : j.mutations \in [K -> EntryType]
    BY DEF JobType, RowsType
  <1>2. d.entries \in [Keys -> EntryType] /\ d.operations \in FiniteOperations
    BY DEF DiskType, Entries
  <1>3. es \in Entries
    BY <1>1, <1>2 DEF Entries
  <1>4. ops \in FiniteOperations
    <2>1. ops \subseteq d.operations \union {j.operation} /\ ops \subseteq OperationType
      BY <1>2 DEF FiniteOperations, JobType
    <2>2. IsFiniteSet(d.operations \union {j.operation})
      BY <1>2, FS_AddElement DEF FiniteOperations
    <2>3. IsFiniteSet(ops)
      BY <2>1, <2>2, FS_Subset
    <2> QED
      BY <2>1, <2>3 DEF FiniteOperations
  <1>5. ApplyJob(d, j) = [entries |-> es, operations |-> ops]
    BY DEF ApplyJob
  <1> HIDE DEF es, ops
  <1> QED
    BY <1>3, <1>4, <1>5 DEF DiskType

ApplySolving(d, jobs, g) ==
    g = [i \in 0 .. Len(jobs) |-> IF i = 0 THEN d ELSE ApplyJob(g[i - 1], jobs[i])]

LEMMA ApplyUnfolds ==
    ASSUME NEW d, NEW jobs
    PROVE  ApplyEach(d, jobs) = CHOOSE g : ApplySolving(d, jobs, g)
  BY DEF ApplyEach, ApplySolving

ApplyRuns(d, jobs, D) ==
    /\ D \in [0 .. Len(jobs) -> DiskType] /\ D[0] = d
    /\ \A i \in 1 .. Len(jobs) : D[i] = ApplyJob(D[i - 1], jobs[i])

(* Writing jobs to the database, one at a time. *)
LEMMA ApplySteps ==
    ASSUME NEW d \in DiskType, NEW jobs \in Seq(JobType)
    PROVE  ApplyRuns(d, jobs, ApplyEach(d, jobs))
  <1> DEFINE n == Len(jobs)
             step == [i \in 1 .. n |-> [e \in DiskType |-> ApplyJob(e, jobs[i])]]
             D == ApplyEach(d, jobs)
  <1>1. n \in Nat /\ \A i \in 1 .. n : jobs[i] \in JobType
    OBVIOUS
  <1>2. step \in [1 .. n -> [DiskType -> DiskType]]
    <2>1. ASSUME NEW i \in 1 .. n, NEW e \in DiskType PROVE ApplyJob(e, jobs[i]) \in DiskType
      BY <1>1, JobApplies
    <2> QED
      BY <2>1, Zenon
  <1>3. PICK g \in [0 .. n -> DiskType] : g[0] = d /\ \A i \in 1 .. n : g[i] = step[i][g[i - 1]]
    <2> HIDE DEF step, n
    <2>1. n \in Nat /\ d \in DiskType
      BY <1>1
    <2>2. Iterated(DiskType, d, n, step)
      BY <1>2, <2>1, Iteration
    <2> QED
      BY <2>2 DEF Iterated
  <1>4. \A i \in 1 .. n : g[i] = ApplyJob(g[i - 1], jobs[i])
    <2> SUFFICES ASSUME NEW i \in 1 .. n PROVE g[i] = ApplyJob(g[i - 1], jobs[i])
      OBVIOUS
    <2>1. g[i - 1] \in DiskType
      BY <1>1, <1>3
    <2> QED
      BY <1>3, <2>1, Zenon
  <1>5. ApplySolving(d, jobs, g)
    <2>1. g = [i \in 0 .. n |-> g[i]]
      BY <1>3
    <2>2. \A i \in 0 .. n : i # 0 => i \in 1 .. n
      BY <1>1
    <2>3. \A i \in 0 .. n : g[i] = IF i = 0 THEN d ELSE ApplyJob(g[i - 1], jobs[i])
      BY <1>3, <1>4, <2>2, Zenon
    <2> QED
      BY <2>1, <2>3, Zenon DEF ApplySolving
  <1>6. ApplySolving(d, jobs, D)
    BY <1>5, ApplyUnfolds, Zenon
  <1> HIDE DEF D
  <1>7. D[0] = d /\ \A i \in 1 .. n : D[i] = ApplyJob(D[i - 1], jobs[i])
    <2>1. \A i \in 0 .. n : D[i] = IF i = 0 THEN d ELSE ApplyJob(D[i - 1], jobs[i])
      BY <1>6 DEF ApplySolving
    <2>2. 0 \in 0 .. n /\ \A i \in 1 .. n : i \in 0 .. n /\ i # 0
      BY <1>1
    <2> QED
      BY <2>1, <2>2, Zenon
  <1>8. D = [i \in 0 .. n |-> D[i]]
    BY <1>6 DEF ApplySolving
  <1>9. \A i \in 0 .. n : D[i] \in DiskType
    <2>1. ASSUME NEW i \in 1 .. n, D[i - 1] \in DiskType PROVE D[i] \in DiskType
      BY <1>1, <1>7, <2>1, JobApplies
    <2> HIDE DEF n
    <2> QED
      BY <1>1, <1>7, <2>1, IterationIn
  <1>10. D \in [0 .. n -> DiskType]
    <2> HIDE DEF n
    <2> QED
      BY <1>8, <1>9
  <1> QED
    BY <1>7, <1>10 DEF ApplyRuns, D

-----------------------------------------------------------------------------
(* Requests and what they write. *)

LEMMA RequestFacts ==
    ASSUME NEW r \in Requests
    PROVE  /\ r.mutations \in Seq(Mutations) /\ Len(r.mutations) \in Nat
           /\ DOMAIN r.mutations = 1 .. Len(r.mutations)
           /\ \A i \in 1 .. Len(r.mutations) : r.mutations[i] \in Mutations
           /\ r.durable \in BOOLEAN /\ r.operation_id \in OperationIds
           /\ fingerprint(r) \in {fingerprint(q) : q \in Requests}
           /\ Written(r) \in SUBSET Keys
  <1>1. r.mutations \in Seq(Mutations) /\ r.durable \in BOOLEAN
    BY KvAssumption
  <1>2. /\ Len(r.mutations) \in Nat /\ DOMAIN r.mutations = 1 .. Len(r.mutations)
        /\ \A i \in 1 .. Len(r.mutations) : r.mutations[i] \in Mutations
    BY <1>1
  <1>3. \A m \in Mutations : m.key \in Keys
    BY DEF Mutations
  <1>4. Written(r) \in SUBSET Keys
    BY <1>2, <1>3 DEF Written
  <1> QED
    BY <1>1, <1>2, <1>4 DEF OperationIds

(* The last of the first n mutations that touches k decides what k holds. *)
LastOf(m, n, k, j) == j \in 1 .. n /\ m[j].key = k /\ \A l \in j + 1 .. n : m[l].key # k
Decided(m, n, from, rev, e) ==
    \A k \in Keys :
        \/ (\A j \in 1 .. n : m[j].key # k) /\ e[k] = from[k]
        \/ \E j \in 1 .. n : LastOf(m, n, k, j) /\ e[k] = RowOf(m[j], rev)

LEMMA DecidedStep ==
    ASSUME NEW m \in Seq(Mutations), NEW i \in 0 .. Len(m), i # Len(m), NEW from, NEW rev \in Nat,
           NEW e \in Entries, Decided(m, i, from, rev, e)
    PROVE  Decided(m, i + 1, from, rev, [e EXCEPT ![m[i + 1].key] = RowOf(m[i + 1], rev)])
  <1> DEFINE f == [e EXCEPT ![m[i + 1].key] = RowOf(m[i + 1], rev)]
  <1> SUFFICES ASSUME NEW k \in Keys
               PROVE  \/ (\A j \in 1 .. i + 1 : m[j].key # k) /\ f[k] = from[k]
                      \/ \E j \in 1 .. i + 1 : LastOf(m, i + 1, k, j) /\ f[k] = RowOf(m[j], rev)
    BY DEF Decided
  <1>1. i \in Nat /\ i + 1 \in 1 .. Len(m) /\ i + 1 \in 1 .. i + 1
    OBVIOUS
  <1>2. \A j \in 1 .. i + 1 : j \in 1 .. i \/ j = i + 1
    BY <1>1
  <1>3. CASE k = m[i + 1].key
    <2>1. f[k] = RowOf(m[i + 1], rev)
      BY <1>3 DEF Entries
    <2>2. LastOf(m, i + 1, k, i + 1)
      BY <1>1, <1>3 DEF LastOf
    <2> HIDE DEF f
    <2> QED
      BY <1>1, <2>1, <2>2
  <1>4. CASE k # m[i + 1].key
    <2>1. f[k] = e[k]
      BY <1>4 DEF Entries
    <2> HIDE DEF f
    <2>2. CASE (\A j \in 1 .. i : m[j].key # k) /\ e[k] = from[k]
      BY <1>2, <1>4, <2>1, <2>2
    <2>3. ASSUME NEW j \in 1 .. i, LastOf(m, i, k, j), e[k] = RowOf(m[j], rev)
          PROVE  \E l \in 1 .. i + 1 : LastOf(m, i + 1, k, l) /\ f[k] = RowOf(m[l], rev)
      <3>1. j \in 1 .. i + 1 /\ \A l \in j + 1 .. i + 1 : l \in j + 1 .. i \/ l = i + 1
        BY <1>1
      <3>2. LastOf(m, i + 1, k, j)
        BY <1>4, <2>3, <3>1 DEF LastOf
      <3> QED
        BY <2>1, <2>3, <3>1, <3>2
    <2> QED
      BY <2>2, <2>3 DEF Decided
  <1> QED
    BY <1>3, <1>4

(* What a whole request leaves in each row. *)
LEMMA WorkingIs ==
    ASSUME NEW r \in Requests, NEW from \in Entries, NEW rev \in Nat
    PROVE  /\ Working(r, from, rev) \in Entries
           /\ Decided(r.mutations, Len(r.mutations), from, rev, Working(r, from, rev))
  <1> DEFINE m == r.mutations
             n == Len(m)
             W == WorkingAfter(r, from, rev)
             F == {i \in 0 .. n : Decided(m, i, from, rev, W[i])}
  <1>1. m \in Seq(Mutations) /\ n \in Nat
    BY RequestFacts
  <1>2. /\ W \in [0 .. n -> Entries] /\ W[0] = from
        /\ \A i \in 1 .. n : W[i] = [W[i - 1] EXCEPT ![m[i].key] = RowOf(m[i], rev)]
    <2>1. WorkingRuns(m, from, rev, W)
      BY <1>1, WorkingSteps
    <2> HIDE DEF W, m
    <2> QED
      BY <2>1 DEF WorkingRuns
  <1>3. Working(r, from, rev) = W[n]
    BY DEF Working
  <1> HIDE DEF W, m
  <1>4. 0 \in F
    <2>1. 1 .. 0 = {} /\ 0 \in 0 .. n
      BY <1>1
    <2> QED
      BY <1>2, <2>1 DEF Decided
  <1>5. ASSUME NEW i \in 0 .. n, i # n /\ i \in F PROVE i + 1 \in F
    <2>1. i + 1 \in 1 .. n /\ i + 1 \in 0 .. n /\ (i + 1) - 1 = i
      BY <1>1, <1>5
    <2>2. W[i] \in Entries /\ Decided(m, i, from, rev, W[i])
      BY <1>2, <1>5
    <2>3. Decided(m, i + 1, from, rev, [W[i] EXCEPT ![m[i + 1].key] = RowOf(m[i + 1], rev)])
      BY <1>1, <1>5, <2>2, DecidedStep
    <2>4. W[i + 1] = [W[i] EXCEPT ![m[i + 1].key] = RowOf(m[i + 1], rev)]
      BY <1>2, <2>1
    <2> QED
      BY <2>1, <2>3, <2>4
  <1>6. 0 .. n \subseteq F
    <2> HIDE DEF F, n
    <2> QED
      BY <1>1, <1>4, <1>5, UpTo
  <1>7. n \in 0 .. n
    BY <1>1
  <1> QED
    BY <1>2, <1>3, <1>6, <1>7 DEF m

-----------------------------------------------------------------------------
(* Finite sets of revisions and sequence numbers, and their largest. *)

LEMMA ImageFinite ==
    ASSUME NEW S, IsFiniteSet(S), NEW f
    PROVE  IsFiniteSet({f[x] : x \in S})
  <1> DEFINE T == {f[x] : x \in S}
             g == [x \in S |-> f[x]]
  <1>1. g \in Surjection(S, T)
    BY DEF Surjection
  <1> HIDE DEF T, g
  <1> QED
    BY <1>1, FS_Surjection DEF T

IsLargest(n, S) == S \in SUBSET Nat /\ n \in S /\ \A m \in S : m <= n

LEMMA LargestIs ==
    ASSUME NEW S \in SUBSET Nat, IsFiniteSet(S), S # {}
    PROVE  IsLargest(LargestOf(S), S)
  <1>1. \E n \in S : \A m \in S : m <= n
    BY FiniteMax
  <1> QED
    BY <1>1 DEF LargestOf, IsLargest

RevisionsOf(ops) == {o.store_revision : o \in ops}
SequencesOf(ops) == {o.settlement_sequence : o \in ops}

LEMMA LiveFinite ==
    ASSUME NEW es \in Entries
    PROVE  LiveRevisions(es) \in SUBSET (Nat \ {0}) /\ IsFiniteSet(LiveRevisions(es))
  <1> DEFINE f == [k \in Keys |-> es[k].modification_revision]
             T == {f[k] : k \in Keys}
  <1>1. LiveRevisions(es) \subseteq T /\ T \subseteq Nat /\ LiveRevisions(es) \subseteq T \ {0}
    BY DEF LiveRevisions, Entries, EntryType
  <1>2. IsFiniteSet(T)
    <2> HIDE DEF f
    <2> QED
      BY KvAssumption, ImageFinite
  <1> HIDE DEF T
  <1> QED
    BY <1>1, <1>2, FS_Subset

LEMMA RecordsFinite ==
    ASSUME NEW ops \in FiniteOperations
    PROVE  /\ RevisionsOf(ops) \in SUBSET (Nat \ {0}) /\ IsFiniteSet(RevisionsOf(ops))
           /\ SequencesOf(ops) \in SUBSET (Nat \ {0}) /\ IsFiniteSet(SequencesOf(ops))
  <1> DEFINE f == [o \in ops |-> o.store_revision]
             g == [o \in ops |-> o.settlement_sequence]
  <1>1. IsFiniteSet(ops) /\ \A o \in ops : o \in OperationType
    BY DEF FiniteOperations
  <1>2. RevisionsOf(ops) = {f[o] : o \in ops} /\ SequencesOf(ops) = {g[o] : o \in ops}
    BY DEF RevisionsOf, SequencesOf
  <1>3. RevisionsOf(ops) \in SUBSET (Nat \ {0}) /\ SequencesOf(ops) \in SUBSET (Nat \ {0})
    BY <1>1 DEF RevisionsOf, SequencesOf, OperationType
  <1>4. IsFiniteSet({f[o] : o \in ops}) /\ IsFiniteSet({g[o] : o \in ops})
    <2> HIDE DEF f, g
    <2> QED
      BY <1>1, ImageFinite
  <1> QED
    BY <1>2, <1>3, <1>4

(* What Store::open finds again: at least 1, and at least all that is on   *)
(* disk.                                                                   *)
LEMMA LoadedIs ==
    ASSUME NEW d \in DiskType
    PROVE  /\ IsLargest(LargestOf({1} \union LiveRevisions(d.entries)),
                        {1} \union LiveRevisions(d.entries))
           /\ IsLargest(loaded_revision(d), {1} \union LiveRevisions(d.entries)
                                               \union RevisionsOf(d.operations))
           /\ loaded_sequence(d) \in Nat \ {0}
           /\ IsLargest(loaded_sequence(d) - 1, {0} \union SequencesOf(d.operations))
  <1> DEFINE S == {1} \union LiveRevisions(d.entries)
             T == S \union RevisionsOf(d.operations)
             Q == {0} \union SequencesOf(d.operations)
  <1>1. d.entries \in Entries /\ d.operations \in FiniteOperations
    BY DEF DiskType
  <1>2. /\ LiveRevisions(d.entries) \in SUBSET (Nat \ {0}) /\ IsFiniteSet(LiveRevisions(d.entries))
        /\ RevisionsOf(d.operations) \in SUBSET (Nat \ {0}) /\ IsFiniteSet(RevisionsOf(d.operations))
        /\ SequencesOf(d.operations) \in SUBSET (Nat \ {0}) /\ IsFiniteSet(SequencesOf(d.operations))
    BY <1>1, LiveFinite, RecordsFinite
  <1>3. S \in SUBSET Nat /\ T \in SUBSET Nat /\ Q \in SUBSET Nat /\ S # {} /\ T # {} /\ Q # {}
    BY <1>2
  <1>4. IsFiniteSet(S) /\ IsFiniteSet(T) /\ IsFiniteSet(Q)
    BY <1>2, FS_Singleton, FS_Union
  <1>5. loaded_revision(d) = LargestOf(T) /\ loaded_sequence(d) = LargestOf(Q) + 1
    BY DEF loaded_revision, loaded_sequence, RevisionsOf, SequencesOf
  <1> HIDE DEF S, T, Q
  <1>6. IsLargest(LargestOf(S), S) /\ IsLargest(LargestOf(T), T) /\ IsLargest(LargestOf(Q), Q)
    BY <1>3, <1>4, LargestIs
  <1>7. LargestOf(Q) \in Nat
    BY <1>6 DEF IsLargest
  <1>8. loaded_sequence(d) \in Nat \ {0} /\ loaded_sequence(d) - 1 = LargestOf(Q)
    BY <1>5, <1>7
  <1> QED
    BY <1>5, <1>6, <1>8 DEF S, T, Q

-----------------------------------------------------------------------------
(* The critical section that settles an operation, in parts. *)

OutcomeOf(r, rev, ok) ==
    [operation_id |-> r.operation_id, fingerprint |-> fingerprint(r), store_revision |-> rev,
     settlement_sequence |-> next_operation_sequence, ok |-> ok]
OperationsWith(o) == operations \union {o}
EvictedBy(o, es) == {p.operation_id : p \in OperationsWith(o) \ Retained(OperationsWith(o), es)}
JobOf(o, es, written) ==
    [mutations |-> written, operation |-> o, evicted |-> EvictedBy(o, es)]
Queued == writer /\ writer_thread # "exited"
Settled(s, r, o, es, rev, written) ==
    /\ operations' = Retained(OperationsWith(o), es)
    /\ next_operation_sequence' = next_operation_sequence + 1
    /\ entries' = es /\ revision' = rev
    /\ queue' = IF Queued THEN Append(queue, JobOf(o, es, written)) ELSE queue
    /\ writer' = Queued
    /\ call' = [call EXCEPT ![s] = IF r.durable /\ Queued THEN Calling("waiting", r, {o}) ELSE Idle]

LEMMA SettleIs ==
    ASSUME NEW s, NEW r, NEW es, NEW rev, NEW ok, NEW written, settle(s, r, es, rev, ok, written)
    PROVE  Settled(s, r, OutcomeOf(r, rev, ok), es, rev, written)
  BY DEF settle, Settled, OutcomeOf, OperationsWith, EvictedBy, JobOf, Queued

LEMMA OutcomeType ==
    ASSUME StoreTyped, NEW r \in Requests, NEW rev \in Nat \ {0}, NEW ok \in BOOLEAN
    PROVE  OutcomeOf(r, rev, ok) \in OperationType
  <1>1. r.operation_id \in OperationIds /\ fingerprint(r) \in {fingerprint(q) : q \in Requests}
    BY RequestFacts
  <1>2. next_operation_sequence \in Nat \ {0}
    BY DEF StoreTyped
  <1> HIDE DEF fingerprint
  <1> QED
    BY <1>1, <1>2 DEF OutcomeOf, OperationType

LEMMA RetainedIn ==
    ASSUME NEW ops, NEW es
    PROVE  Retained(ops, es) \subseteq ops
  BY DEF Retained, Recent, Pinned

LEMMA RetainedFinite ==
    ASSUME NEW ops \in FiniteOperations, NEW es
    PROVE  Retained(ops, es) \in FiniteOperations
  BY RetainedIn, FS_Subset DEF FiniteOperations

LEMMA CallingType ==
    ASSUME NEW r \in Requests, NEW O \in SUBSET OperationType
    PROVE  /\ Idle \in CallType
           /\ Calling("missed", r, O) \in CallType /\ Calling("waiting", r, O) \in CallType
  BY DEF Idle, Calling, CallType

(* A mutation is settled with a new state of the rows. *)
LEMMA SettleTypes ==
    ASSUME KvTyped, NEW s \in Callers, NEW r \in Requests, NEW o \in OperationType,
           NEW es \in Entries, NEW rev \in Nat \ {0}, NEW written \in RowsType,
           Settled(s, r, o, es, rev, written)
    PROVE  /\ StoreTyped' /\ queue' \in Seq(JobType) /\ CallTyped'
           /\ JobOf(o, es, written) \in JobType
  <1>1. OperationsWith(o) \in FiniteOperations
    <2>1. operations \in SUBSET OperationType /\ IsFiniteSet(operations)
      BY DEF KvTyped, StoreTyped, FiniteOperations
    <2> QED
      BY <2>1, FS_AddElement DEF OperationsWith, FiniteOperations
  <1>2. Retained(OperationsWith(o), es) \in FiniteOperations
    BY <1>1, RetainedFinite
  <1>3. next_operation_sequence \in Nat \ {0} /\ next_operation_sequence + 1 \in Nat \ {0}
    BY DEF KvTyped, StoreTyped
  <1>4. Queued \in BOOLEAN
    BY DEF Queued
  <1>5. StoreTyped'
    BY <1>2, <1>3, <1>4 DEF StoreTyped, Settled
  <1>6. EvictedBy(o, es) \in SUBSET OperationIds
    <2>1. \A p \in OperationsWith(o) : p.operation_id \in OperationIds
      BY <1>1 DEF FiniteOperations, OperationType
    <2> QED
      BY <2>1 DEF EvictedBy
  <1>7. JobOf(o, es, written) \in JobType
    BY <1>6 DEF JobOf, JobType
  <1>8. queue' \in Seq(JobType)
    <2>1. queue \in Seq(JobType)
      BY DEF KvTyped, QueueTyped
    <2>2. queue' = Append(queue, JobOf(o, es, written)) \/ queue' = queue
      BY DEF Settled
    <2> HIDE DEF JobType
    <2> QED
      BY <1>7, <2>1, <2>2
  <1>9. CallTyped'
    <2>1. Calling("waiting", r, {o}) \in CallType /\ Idle \in CallType
      BY CallingType
    <2>2. call \in [Callers -> CallType]
      BY DEF KvTyped, CallTyped
    <2>3. \E c \in CallType : call' = [call EXCEPT ![s] = c]
      BY <2>1 DEF Settled
    <2> HIDE DEF CallType
    <2> QED
      BY <2>2, <2>3 DEF CallTyped
  <1> QED
    BY <1>5, <1>7, <1>8, <1>9

LEMMA ReplyTypes ==
    ASSUME CallTyped, NEW jobs, NEW phase \in {"persisted", "failed"}, Reply(jobs, phase)
    PROVE  CallTyped'
  <1>1. \A c \in CallType : [c EXCEPT !.phase = phase] \in CallType
    BY DEF CallType
  <1> HIDE DEF CallType
  <1> QED
    BY <1>1 DEF CallTyped, Reply

LEMMA RowsWritten ==
    ASSUME NEW r \in Requests, NEW es \in Entries
    PROVE  [k \in Written(r) |-> es[k]] \in RowsType
  <1>1. Written(r) \in SUBSET Keys
    BY RequestFacts
  <1>2. [k \in Written(r) |-> es[k]] \in [Written(r) -> EntryType]
    BY <1>1 DEF Entries
  <1> QED
    BY <1>1, <1>2 DEF RowsType

LEMMA NoRows == << >> \in RowsType
  <1>1. << >> \in [{} -> EntryType]
    OBVIOUS
  <1> QED
    BY <1>1 DEF RowsType

LEMMA ReceiveType ==
    ASSUME NEW w \in WatchType, NEW c \in ChangeType
    PROVE  Receive(w, c) \in WatchType
  <1>1. w.changes \in Seq(ChangeType) /\ Len(w.changes) \in Nat
    BY DEF WatchType
  <1>2. Append(w.changes, c) \in Seq(ChangeType)
    BY <1>1
  <1>3. ASSUME ~(Len(w.changes) < ChangeQueue)
        PROVE  Append(Tail(w.changes), c) \in Seq(ChangeType)
    <2>1. w.changes # << >>
      BY <1>1, <1>3, KvAssumption
    <2> QED
      BY <1>1, <2>1
  <1> QED
    BY <1>2, <1>3 DEF Receive, WatchType

(* What native_mutate comes to: a refusal, a recorded conflict or a commit. *)
NewEntries(r) == Working(r, entries, revision + 1)
NewRows(r) == [k \in Written(r) |-> NewEntries(r)[k]]
NewChange(r) ==
    [from_revision |-> revision, to_revision |-> revision + 1, records |-> NewRows(r)]
Refuses(s) == call' = [call EXCEPT ![s] = Idle] /\ UNCHANGED <<store, queue, watch>>
SettlesConflict(s, r) ==
    Settled(s, r, OutcomeOf(r, revision, FALSE), entries, revision, << >>) /\ UNCHANGED watch
SettlesCommit(s, r) ==
    /\ Settled(s, r, OutcomeOf(r, revision + 1, TRUE), NewEntries(r), revision + 1, NewRows(r))
    /\ broadcast(NewChange(r))

LEMMA MutateIs ==
    ASSUME NEW s, NEW r, native_mutate(s, r)
    PROVE  /\ call[s] = Calling("missed", r, {}) /\ Unseen(r)
           /\ UNCHANGED <<batch, writer_thread, disk, observed>>
           /\ \/ Refuses(s)
              \/ Permit /\ SettlesConflict(s, r)
              \/ Permit /\ ~TooLarge(NewEntries(r)) /\ SettlesCommit(s, r)
  <1> DEFINE rev == revision + 1
             written == [k \in Written(r) |-> NewEntries(r)[k]]
  <1>1. ASSUME settle(s, r, entries, revision, FALSE, << >>), UNCHANGED watch
        PROVE  SettlesConflict(s, r)
    BY <1>1, SettleIs, Zenon DEF SettlesConflict
  <1>2. ASSUME settle(s, r, NewEntries(r), rev, TRUE, written),
               broadcast([from_revision |-> revision, to_revision |-> rev, records |-> written])
        PROVE  SettlesCommit(s, r)
    BY <1>2, SettleIs, Zenon DEF SettlesCommit, NewChange, NewRows
  <1>3. \/ Refuses(s)
        \/ Permit /\ settle(s, r, entries, revision, FALSE, << >>) /\ UNCHANGED watch
        \/ /\ Permit /\ ~TooLarge(NewEntries(r))
           /\ settle(s, r, NewEntries(r), rev, TRUE, written)
           /\ broadcast([from_revision |-> revision, to_revision |-> rev, records |-> written])
    BY Zenon DEF native_mutate, Refuses, NewEntries
  <1>4. /\ call[s] = Calling("missed", r, {}) /\ Unseen(r)
        /\ UNCHANGED <<batch, writer_thread, disk, observed>>
    BY Zenon DEF native_mutate
  <1> QED
    BY <1>1, <1>2, <1>3, <1>4, Zenon

LEMMA NewEntriesType ==
    ASSUME StoreTyped, NEW r \in Requests
    PROVE  NewEntries(r) \in Entries /\ NewRows(r) \in RowsType /\ NewChange(r) \in ChangeType
  <1>1. entries \in Entries /\ revision \in Nat /\ revision + 1 \in Nat
    BY DEF StoreTyped
  <1>2. NewEntries(r) \in Entries
    BY <1>1, WorkingIs DEF NewEntries
  <1>3. NewRows(r) \in RowsType
    BY <1>2, RowsWritten DEF NewRows
  <1> QED
    BY <1>1, <1>2, <1>3 DEF NewChange, ChangeType

LEMMA MutateTypes ==
    ASSUME KvTyped, NEW s \in Callers, NEW r \in Requests, native_mutate(s, r)
    PROVE  KvTyped'
  <1>1. UNCHANGED <<batch, writer_thread, disk, observed>>
    BY MutateIs
  <1>2. DiskTyped' /\ ObservedTyped'
    BY <1>1 DEF KvTyped, DiskTyped, ObservedTyped, observed
  <1>3. \A c \in CallType : [call EXCEPT ![s] = c] \in [Callers -> CallType]
    BY DEF KvTyped, CallTyped
  <1>4. CASE Refuses(s)
    <2>1. CallTyped'
      BY <1>3, <1>4, CallingType, Zenon DEF Refuses, CallTyped
    <2>2. StoreTyped' /\ QueueTyped' /\ WatchTyped'
      BY <1>1, <1>4 DEF Refuses, KvTyped, StoreTyped, QueueTyped, WatchTyped, store
    <2> QED
      BY <1>2, <2>1, <2>2 DEF KvTyped
  <1>5. CASE SettlesConflict(s, r)
    <2>1. revision \in Nat \ {0} /\ entries \in Entries
      BY DEF KvTyped, StoreTyped
    <2>2. OutcomeOf(r, revision, FALSE) \in OperationType
      BY <2>1, OutcomeType DEF KvTyped
    <2>3. StoreTyped' /\ queue' \in Seq(JobType) /\ CallTyped'
      BY <1>5, <2>1, <2>2, NoRows, SettleTypes DEF SettlesConflict
    <2>4. WatchTyped' /\ QueueTyped'
      BY <1>1, <1>5, <2>3 DEF SettlesConflict, KvTyped, WatchTyped, QueueTyped
    <2> QED
      BY <1>2, <2>3, <2>4 DEF KvTyped
  <1>6. CASE SettlesCommit(s, r)
    <2>1. revision + 1 \in Nat \ {0} /\ NewEntries(r) \in Entries /\ NewRows(r) \in RowsType
          /\ NewChange(r) \in ChangeType
      BY NewEntriesType DEF KvTyped, StoreTyped
    <2>2. OutcomeOf(r, revision + 1, TRUE) \in OperationType
      BY <2>1, OutcomeType DEF KvTyped
    <2>3. StoreTyped' /\ queue' \in Seq(JobType) /\ CallTyped'
      BY <1>6, <2>1, <2>2, SettleTypes DEF SettlesCommit
    <2>4. WatchTyped'
      <3>1. \A w \in Subscribers : Receive(watch[w], NewChange(r)) \in WatchType
        BY <2>1, ReceiveType DEF KvTyped, WatchTyped
      <3> QED
        BY <1>6, <3>1 DEF SettlesCommit, broadcast, WatchTyped
    <2>5. QueueTyped'
      BY <1>1, <2>3 DEF KvTyped, QueueTyped
    <2> QED
      BY <1>2, <2>3, <2>4, <2>5 DEF KvTyped
  <1> QED
    BY <1>4, <1>5, <1>6, MutateIs

(* The other steps of a session. *)
LEMMA CallerTypes ==
    ASSUME KvTyped, NEW s \in Callers,
           \/ \E r \in Requests : native_replay(s, r) \/ replay_late(s, r)
           \/ durable_complete(s) \/ abandon(s)
    PROVE  KvTyped'
  <1>1. UNCHANGED <<store, persistence, watch, restarts, replays_lost>>
    BY DEF native_replay, replay_late, durable_complete, abandon, observed
  <1>2. StoreTyped' /\ QueueTyped' /\ DiskTyped' /\ WatchTyped'
    BY <1>1 DEF KvTyped, StoreTyped, QueueTyped, DiskTyped, WatchTyped, store, persistence
  <1>3. \E c \in CallType : call' = [call EXCEPT ![s] = c]
    <2>1. Idle \in CallType
      BY DEF Idle, CallType
    <2>2. \A r \in Requests : Calling("missed", r, {}) \in CallType
      BY CallingType
    <2> QED
      BY <2>1, <2>2, Zenon DEF native_replay, replay_late, durable_complete, abandon
  <1>4. CallTyped'
    BY <1>3 DEF KvTyped, CallTyped
  <1>5. acked' = acked \/ durable_complete(s)
    BY DEF native_replay, replay_late, abandon, observed
  <1>6. acked' \subseteq [request : Requests, revision : Nat \ {0}]
    <2>1. call[s].request \subseteq Requests /\ call[s].outcome \subseteq OperationType
      BY DEF KvTyped, CallTyped, CallType
    <2>2. \A r \in Requests, o \in OperationType :
             [request |-> r, revision |-> o.store_revision] \in [request : Requests, revision : Nat \ {0}]
      BY DEF OperationType
    <2> QED
      BY <1>5, <2>1, <2>2 DEF KvTyped, ObservedTyped, durable_complete
  <1> QED
    BY <1>1, <1>2, <1>4, <1>6 DEF KvTyped, ObservedTyped

(* The writer thread. *)
LEMMA WriterTypes ==
    ASSUME KvTyped, writer_receive \/ writer_commit \/ writer_fail \/ writer_exit
    PROVE  KvTyped'
  <1>1. UNCHANGED <<store, watch, observed>>
    BY DEF writer_receive, writer_commit, writer_fail, writer_exit
  <1>2. StoreTyped' /\ WatchTyped' /\ ObservedTyped'
    BY <1>1 DEF KvTyped, StoreTyped, WatchTyped, ObservedTyped, store, observed
  <1>3. CallTyped'
    <2>1. call' = call \/ Reply(batch, "persisted") \/ Reply(batch, "failed") \/ Reply(queue, "failed")
      BY DEF writer_receive, writer_commit, writer_fail, writer_exit
    <2>2. CASE call' = call
      BY <2>2 DEF KvTyped, CallTyped
    <2> QED
      BY <2>1, <2>2, ReplyTypes DEF KvTyped
  <1>4. QueueTyped'
    <2>1. << >> \in Seq(JobType)
      OBVIOUS
    <2> QED
      BY <2>1 DEF KvTyped, QueueTyped, writer_receive, writer_commit, writer_fail, writer_exit
  <1>5. DiskTyped'
    <2>1. CASE writer_commit
      <3>1. ApplyRuns(disk, batch, ApplyEach(disk, batch))
        BY ApplySteps DEF KvTyped, DiskTyped, QueueTyped
      <3>2. Len(batch) \in 0 .. Len(batch)
        BY DEF KvTyped, QueueTyped
      <3> QED
        BY <2>1, <3>1, <3>2 DEF ApplyRuns, ApplyJobs, writer_commit, DiskTyped
    <2> QED
      BY <2>1 DEF KvTyped, DiskTyped, writer_receive, writer_fail, writer_exit
  <1> QED
    BY <1>2, <1>3, <1>4, <1>5 DEF KvTyped

LEMMA EmptyStoreType == EmptyStore \in Entries
  BY NoEntryType DEF EmptyStore, Entries

LEMMA UnsubscribedType == Unsubscribed \in WatchType
  BY EmptyStoreType DEF Unsubscribed, WatchType

LEMMA VisibleType ==
    ASSUME NEW w, NEW es \in Entries
    PROVE  Visible(w, es) \in Entries
  BY NoEntryType DEF Visible, Entries

LEMMA SnapshotType ==
    ASSUME StoreTyped, NEW w PROVE native_watch(w) \in WatchType
  <1>1. Visible(w, entries) \in Entries /\ revision \in Nat
    BY VisibleType DEF StoreTyped
  <1> QED
    BY <1>1 DEF native_watch, WatchType

LEMMA DeliverType ==
    ASSUME WatchTyped, NEW w \in Subscribers, NEW c \in ChangeType, watch[w].changes # << >>
    PROVE  Deliver(w, c) \in WatchType
  <1>1. watch[w] \in WatchType /\ watch[w].changes \in Seq(ChangeType) /\ watch[w].view \in Entries
    BY DEF WatchTyped, WatchType
  <1>2. Tail(watch[w].changes) \in Seq(ChangeType)
    BY <1>1
  <1>3. ApplyChange(w, watch[w].view, c) \in Entries
    <2>1. PICK K \in SUBSET Keys : c.records \in [K -> EntryType]
      BY DEF ChangeType, RowsType
    <2> QED
      BY <1>1, <2>1 DEF ApplyChange, Entries
  <1>4. c.to_revision \in Nat
    BY DEF ChangeType
  <1> QED
    BY <1>1, <1>2, <1>3, <1>4 DEF Deliver, WatchType

LEMMA WatcherTypes ==
    ASSUME KvTyped, NEW w \in Subscribers,
           watch_kv(w) \/ unwatch(w) \/ watch_delta(w) \/ watch_reset(w) \/ watch_lagged(w)
    PROVE  KvTyped'
  <1>1. UNCHANGED <<store, persistence, call, observed>>
    BY DEF watch_kv, unwatch, watch_delta, watch_reset, watch_lagged
  <1>2. StoreTyped' /\ QueueTyped' /\ DiskTyped' /\ CallTyped' /\ ObservedTyped'
    BY <1>1 DEF KvTyped, StoreTyped, QueueTyped, DiskTyped, CallTyped, ObservedTyped, store,
                persistence, observed
  <1>3. ASSUME watch_delta(w)
        PROVE  /\ Deliver(w, Head(watch[w].changes)) \in WatchType
               /\ watch' = [watch EXCEPT ![w] = Deliver(w, Head(watch[w].changes))]
    <2>1. watch[w].changes # << >> /\ watch[w].changes \in Seq(ChangeType)
      BY <1>3 DEF watch_delta, KvTyped, WatchTyped, WatchType
    <2>2. Head(watch[w].changes) \in ChangeType
      BY <2>1
    <2>3. watch' = [watch EXCEPT ![w] = Deliver(w, Head(watch[w].changes))]
      BY <1>3, Zenon DEF watch_delta
    <2> QED
      BY <2>1, <2>2, <2>3, DeliverType DEF KvTyped
  <1>4. \E v \in WatchType : watch' = [watch EXCEPT ![w] = v]
    <2>1. native_watch(w) \in WatchType /\ Unsubscribed \in WatchType
      BY SnapshotType, UnsubscribedType DEF KvTyped
    <2> QED
      BY <1>3, <2>1, Zenon DEF watch_kv, unwatch, watch_reset, watch_lagged
  <1>5. WatchTyped'
    BY <1>4 DEF KvTyped, WatchTyped
  <1> QED
    BY <1>2, <1>5 DEF KvTyped

(* A crash and Store::open. *)
LEMMA RestartTypes ==
    ASSUME KvTyped, Restart
    PROVE  KvTyped'
  <1>1. disk \in DiskType /\ disk.entries \in Entries /\ disk.operations \in FiniteOperations
    BY DEF KvTyped, DiskTyped, DiskType
  <1>2. /\ LargestOf({1} \union LiveRevisions(disk.entries)) \in Nat \ {0}
        /\ loaded_revision(disk) \in Nat \ {0} /\ loaded_sequence(disk) \in Nat \ {0}
    <2>1. /\ LiveRevisions(disk.entries) \in SUBSET (Nat \ {0})
          /\ RevisionsOf(disk.operations) \in SUBSET (Nat \ {0})
      BY <1>1, LiveFinite, RecordsFinite
    <2>2. /\ IsLargest(LargestOf({1} \union LiveRevisions(disk.entries)),
                       {1} \union LiveRevisions(disk.entries))
          /\ IsLargest(loaded_revision(disk), {1} \union LiveRevisions(disk.entries)
                                                 \union RevisionsOf(disk.operations))
      BY <1>1, LoadedIs, Zenon
    <2>3. loaded_sequence(disk) \in Nat \ {0}
      BY <1>1, LoadedIs, Zenon
    <2> QED
      BY <2>1, <2>2, <2>3 DEF IsLargest
  <1>3. {} \in FiniteOperations
    BY FS_EmptySet DEF FiniteOperations
  <1>4. queue' = << >> /\ batch' = << >> /\ call' = [s \in Callers |-> Idle]
        /\ watch' = [w \in Subscribers |-> Unsubscribed] /\ acked' = acked
        /\ restarts < MaxRestarts /\ restarts' = restarts + 1
    BY DEF Restart
  <1>5. WatchTyped' /\ CallTyped'
    <2>1. Idle \in CallType
      BY DEF Idle, CallType
    <2> QED
      BY <1>4, <2>1, UnsubscribedType DEF WatchTyped, CallTyped
  <1>6. restarts' \in 0 .. MaxRestarts
    <2>1. restarts \in Nat /\ MaxRestarts \in Nat
      BY KvAssumption DEF KvTyped, ObservedTyped
    <2> QED
      BY <1>4, <2>1
  <1>7. << >> \in Seq(JobType)
    OBVIOUS
  <1>8. ASSUME NEW left \in SUBSET disk.operations,
               disk' = [disk EXCEPT !.operations = Retained(disk.operations, disk.entries) \union left]
        PROVE  disk' \in DiskType
    <2> DEFINE O == Retained(disk.operations, disk.entries) \union left
    <2>1. O \subseteq disk.operations
      BY RetainedIn
    <2>2. O \in FiniteOperations
      BY <1>1, <2>1, FS_Subset DEF FiniteOperations
    <2> HIDE DEF O
    <2>3. disk' = [disk EXCEPT !.operations = O]
      BY <1>8 DEF O
    <2> QED
      BY <1>1, <2>2, <2>3 DEF DiskType
  <1>9. disk' \in DiskType
    BY <1>1, <1>8 DEF Restart
  <1>10. /\ entries' \in Entries /\ operations' \in FiniteOperations
         /\ revision' \in Nat \ {0} /\ next_operation_sequence' \in Nat \ {0}
    <2>1. Retained(disk.operations, disk.entries) \in FiniteOperations
      BY <1>1, RetainedFinite
    <2>2. 1 \in Nat \ {0}
      OBVIOUS
    <2> QED
      BY <1>1, <1>2, <1>3, <2>1, <2>2, EmptyStoreType, Zenon DEF Restart, load
  <1>11. writer' \in BOOLEAN /\ writer_thread' \in {"receiving", "exited"}
    BY DEF Restart, load
  <1>12. replays_lost' \in BOOLEAN
    BY DEF Restart, KvTyped, ObservedTyped
  <1> QED
    BY <1>4, <1>5, <1>6, <1>7, <1>9, <1>10, <1>11, <1>12
       DEF KvTyped, StoreTyped, QueueTyped, DiskTyped, ObservedTyped

LEMMA InitTyped == KvInit => KvTyped
  <1> SUFFICES ASSUME KvInit PROVE KvTyped
    OBVIOUS
  <1>1. {} \in FiniteOperations /\ << >> \in Seq(JobType)
    BY FS_EmptySet DEF FiniteOperations
  <1>2. Idle \in CallType
    BY DEF Idle, CallType
  <1>3. disk \in DiskType
    BY <1>1, EmptyStoreType DEF KvInit, DiskType
  <1>4. StoreTyped /\ QueueTyped /\ DiskTyped
    BY <1>1, <1>3, EmptyStoreType DEF KvInit, StoreTyped, QueueTyped, DiskTyped
  <1>5. CallTyped /\ WatchTyped
    BY <1>2, UnsubscribedType DEF KvInit, CallTyped, WatchTyped
  <1>6. ObservedTyped
    <2>1. MaxRestarts \in Nat
      BY KvAssumption
    <2>2. 0 \in 0 .. MaxRestarts
      BY <2>1
    <2> QED
      BY <2>2 DEF KvInit, ObservedTyped
  <1> QED
    BY <1>4, <1>5, <1>6 DEF KvTyped

LEMMA NextTyped == KvTyped /\ [KvNext]_kv_vars => KvTyped'
  <1> SUFFICES ASSUME KvTyped, [KvNext]_kv_vars PROVE KvTyped'
    OBVIOUS
  <1>1. CASE UNCHANGED kv_vars
    BY <1>1 DEF kv_vars, store, persistence, observed, KvTyped, StoreTyped, QueueTyped, DiskTyped,
                CallTyped, WatchTyped, ObservedTyped
  <1>2. CASE KvNext
    BY <1>2, MutateTypes, CallerTypes, WriterTypes, RestartTypes, WatcherTypes, Zenon DEF KvNext
  <1> QED
    BY <1>1, <1>2

LEMMA AlwaysTyped == KvSpec => []KvTyped
  BY InitTyped, NextTyped, PTL DEF KvSpec

(* Type correctness of the store, the writer thread, the database, the     *)
(* sessions that mutate and those that watch, for any keys, values,        *)
(* requests and limits.                                                    *)
THEOREM KvTypeCorrect == KvSpec => []KvTypeOK
  BY AlwaysTyped, TypedIsTypeOK, PTL

-----------------------------------------------------------------------------
(* Sessions that wait for the writer. *)

Backed ==
    \A s \in Callers : call[s].phase = "waiting" =>
        \E j \in Jobs(queue) \union Jobs(batch) : call[s].outcome = {j.operation}
WriterQueues ==
    /\ writer_thread = "exited" => queue = << >>
    /\ writer_thread # "committing" => batch = << >>
    /\ Len(queue) + Len(batch) <= MaxPendingWrites

LEMMA JobsAppended ==
    ASSUME NEW q \in Seq(JobType), NEW j \in JobType
    PROVE  Jobs(Append(q, j)) = Jobs(q) \union {j} /\ Len(Append(q, j)) = Len(q) + 1
  <1>1. Len(q) \in Nat /\ Len(Append(q, j)) = Len(q) + 1
    OBVIOUS
  <1>2. \A i \in 1 .. Len(q) : Append(q, j)[i] = q[i]
    OBVIOUS
  <1>3. Append(q, j)[Len(q) + 1] = j
    OBVIOUS
  <1>4. DOMAIN q = 1 .. Len(q) /\ DOMAIN Append(q, j) = 1 .. Len(q) + 1
    OBVIOUS
  <1>5. \A i \in 1 .. Len(q) + 1 : i \in 1 .. Len(q) \/ i = Len(q) + 1
    BY <1>1
  <1>6. 1 .. Len(q) \subseteq 1 .. Len(q) + 1 /\ Len(q) + 1 \in 1 .. Len(q) + 1
    BY <1>1
  <1> DEFINE p == Append(q, j)
  <1> HIDE DEF p
  <1>7. {p[i] : i \in 1 .. Len(q) + 1} = {q[i] : i \in 1 .. Len(q)} \union {j}
    BY <1>2, <1>3, <1>5, <1>6 DEF p
  <1> QED
    BY <1>1, <1>4, <1>7 DEF Jobs, p

LEMMA NoJobs == Jobs(<< >>) = {} /\ Len(<< >>) = 0
  BY DEF Jobs

(* A job is settled while the writer holds a permit for it. *)
LEMMA SettleBacks ==
    ASSUME KvTyped, KvTyped', Backed, WriterQueues, Permit, UNCHANGED <<batch, writer_thread>>,
           NEW s \in Callers, NEW r \in Requests, NEW o, NEW es, NEW rev, NEW written,
           JobOf(o, es, written) \in JobType, Settled(s, r, o, es, rev, written)
    PROVE  Backed' /\ WriterQueues'
  <1> DEFINE j == JobOf(o, es, written)
  <1>1. queue \in Seq(JobType) /\ batch \in Seq(JobType) /\ Len(queue) \in Nat /\ Len(batch) \in Nat
    BY DEF KvTyped, QueueTyped
  <1>2. j.operation = o
    BY DEF JobOf
  <1>3. MaxPendingWrites \in Nat
    BY KvAssumption
  <1>4. call \in [Callers -> CallType]
    BY DEF KvTyped, CallTyped
  <1>5. Calling("waiting", r, {o}).outcome = {o} /\ Idle.phase # "waiting"
    BY DEF Calling, Idle
  <1>6. CASE Queued
    <2>1. queue' = Append(queue, j)
      BY <1>6, Zenon DEF Settled
    <2> HIDE DEF j
    <2>2. Jobs(queue') = Jobs(queue) \union {j} /\ Len(queue') = Len(queue) + 1
      BY <1>1, <2>1, JobsAppended DEF j
    <2>3. Len(queue) + Len(batch) < MaxPendingWrites /\ writer_thread # "exited"
      BY <1>6 DEF Queued, Permit
    <2>4. WriterQueues'
      BY <1>1, <1>3, <2>2, <2>3 DEF WriterQueues
    <2>5. \A p \in Callers : p # s => call'[p] = call[p]
      BY <1>4 DEF Settled
    <2>6. call'[s] = Calling("waiting", r, {o}) \/ call'[s] = Idle
      BY <1>4 DEF Settled
    <2>7. Jobs(batch') = Jobs(batch)
      BY DEF Jobs
    <2>8. Backed'
      BY <1>2, <1>5, <2>2, <2>5, <2>6, <2>7 DEF Backed
    <2> QED
      BY <2>4, <2>8
  <1>7. CASE ~Queued
    <2>1. queue' = queue /\ call' = [call EXCEPT ![s] = Idle]
      BY <1>7, Zenon DEF Settled
    <2>2. \A p \in Callers : call'[p] = call[p] \/ call'[p] = Idle
      BY <1>4, <2>1
    <2>3. Backed'
      BY <1>5, <2>1, <2>2 DEF Backed
    <2>4. WriterQueues'
      BY <2>1 DEF WriterQueues
    <2> QED
      BY <2>3, <2>4
  <1> QED
    BY <1>6, <1>7

LEMMA MutateBacks ==
    ASSUME KvTyped, KvTyped', Backed, WriterQueues, NEW s \in Callers, NEW r \in Requests,
           native_mutate(s, r)
    PROVE  Backed' /\ WriterQueues'
  <1>1. UNCHANGED <<batch, writer_thread>>
    BY MutateIs
  <1>2. revision \in Nat \ {0} /\ entries \in Entries /\ revision + 1 \in Nat \ {0}
    BY DEF KvTyped, StoreTyped
  <1>3. CASE Refuses(s)
    <2>1. \A p \in Callers : call'[p] = call[p] \/ call'[p] = Idle
      BY <1>3 DEF Refuses, KvTyped, CallTyped
    <2>2. Idle.phase # "waiting"
      BY DEF Idle
    <2>3. queue' = queue
      BY <1>3 DEF Refuses
    <2> QED
      BY <1>1, <2>1, <2>2, <2>3 DEF Backed, WriterQueues
  <1>4. CASE Permit /\ SettlesConflict(s, r)
    <2>1. OutcomeOf(r, revision, FALSE) \in OperationType
      BY <1>2, OutcomeType DEF KvTyped
    <2>2. JobOf(OutcomeOf(r, revision, FALSE), entries, << >>) \in JobType
      BY <1>2, <1>4, <2>1, NoRows, SettleTypes DEF SettlesConflict
    <2> QED
      BY <1>1, <1>4, <2>2, SettleBacks DEF SettlesConflict
  <1>5. CASE Permit /\ SettlesCommit(s, r)
    <2>1. NewEntries(r) \in Entries /\ NewRows(r) \in RowsType
      BY NewEntriesType DEF KvTyped
    <2>2. OutcomeOf(r, revision + 1, TRUE) \in OperationType
      BY <1>2, OutcomeType DEF KvTyped
    <2>3. JobOf(OutcomeOf(r, revision + 1, TRUE), NewEntries(r), NewRows(r)) \in JobType
      BY <1>2, <1>5, <2>1, <2>2, SettleTypes DEF SettlesCommit
    <2> QED
      BY <1>1, <1>5, <2>3, SettleBacks DEF SettlesCommit
  <1> QED
    BY <1>3, <1>4, <1>5, MutateIs

(* A reply reaches whoever waits for one of the jobs. *)
LEMMA ReplyAnswers ==
    ASSUME CallTyped, NEW jobs, NEW phase \in {"persisted", "failed"}, Reply(jobs, phase),
           NEW s \in Callers, call'[s].phase = "waiting"
    PROVE  call'[s] = call[s] /\ \A j \in Jobs(jobs) : call[s].outcome # {j.operation}
  <1>1. call[s] \in CallType
    BY DEF CallTyped
  <1>2. CASE call[s].phase = "waiting" /\ \E i \in DOMAIN jobs : jobs[i].operation \in call[s].outcome
    <2>1. call'[s] = [call[s] EXCEPT !.phase = phase]
      BY <1>2 DEF Reply
    <2>2. call'[s].phase = phase
      BY <1>1, <2>1 DEF CallType
    <2> QED
      BY <2>2
  <1>3. CASE ~(call[s].phase = "waiting" /\ \E i \in DOMAIN jobs : jobs[i].operation \in call[s].outcome)
    <2>1. call'[s] = call[s]
      BY <1>3 DEF Reply
    <2> QED
      BY <1>3, <2>1 DEF Jobs
  <1> QED
    BY <1>2, <1>3

LEMMA WriterBacks ==
    ASSUME KvTyped, KvTyped', Backed, WriterQueues,
           writer_receive \/ writer_commit \/ writer_fail \/ writer_exit
    PROVE  Backed' /\ WriterQueues'
  <1>1. Len(queue) \in Nat /\ Len(batch) \in Nat /\ MaxPendingWrites \in Nat
    BY KvAssumption DEF KvTyped, QueueTyped
  <1>2. CASE writer_receive
    <2>1. batch = << >> /\ batch' = queue /\ queue' = << >> /\ call' = call
          /\ writer_thread' = "committing"
      BY <1>2 DEF writer_receive, WriterQueues
    <2>2. Backed'
      BY <2>1, NoJobs DEF Backed
    <2>3. WriterQueues'
      BY <1>1, <2>1, NoJobs DEF WriterQueues
    <2> QED
      BY <2>2, <2>3
  <1>3. ASSUME NEW phase \in {"persisted", "failed"}, Reply(batch, phase), batch' = << >>,
               queue' = queue, writer_thread' \in {"receiving", "draining"}
        PROVE  Backed' /\ WriterQueues'
    <2>1. WriterQueues'
      BY <1>1, <1>3, NoJobs DEF WriterQueues
    <2>2. \A s \in Callers : call'[s].phase = "waiting" =>
             call'[s] = call[s] /\ \A j \in Jobs(batch) : call[s].outcome # {j.operation}
      BY <1>3, ReplyAnswers DEF KvTyped
    <2>3. Backed'
      BY <1>3, <2>2 DEF Backed
    <2> QED
      BY <2>1, <2>3
  <1>4. CASE writer_exit
    <2>1. batch' = << >> /\ batch = << >> /\ queue' = << >> /\ Reply(queue, "failed")
          /\ writer_thread' = "exited"
      BY <1>4 DEF writer_exit, WriterQueues
    <2>2. \A s \in Callers : call'[s].phase = "waiting" =>
             call'[s] = call[s] /\ \A j \in Jobs(queue) : call[s].outcome # {j.operation}
      BY <2>1, ReplyAnswers DEF KvTyped
    <2>3. Backed'
      BY <2>1, <2>2, NoJobs DEF Backed
    <2>4. WriterQueues'
      BY <1>1, <2>1, NoJobs DEF WriterQueues
    <2> QED
      BY <2>3, <2>4
  <1> QED
    BY <1>2, <1>3, <1>4 DEF writer_commit, writer_fail

LEMMA NextBacked ==
    KvTyped /\ KvTyped' /\ Backed /\ WriterQueues /\ [KvNext]_kv_vars => Backed' /\ WriterQueues'
  <1> SUFFICES ASSUME KvTyped, KvTyped', Backed, WriterQueues, [KvNext]_kv_vars
               PROVE  Backed' /\ WriterQueues'
    OBVIOUS
  <1>1. ASSUME UNCHANGED <<queue, batch, writer_thread>>,
               \A s \in Callers : call'[s] = call[s] \/ call'[s].phase # "waiting"
        PROVE  Backed' /\ WriterQueues'
    BY <1>1 DEF Backed, WriterQueues
  <1>2. Idle.phase # "waiting" /\ \A r, O : Calling("missed", r, O).phase # "waiting"
    BY DEF Idle, Calling
  <1>3. call \in [Callers -> CallType]
    BY DEF KvTyped, CallTyped
  <1>4. CASE UNCHANGED kv_vars
    BY <1>1, <1>4 DEF kv_vars, persistence
  <1>5. ASSUME NEW s \in Callers, NEW r \in Requests, native_replay(s, r) \/ replay_late(s, r)
        PROVE  Backed' /\ WriterQueues'
    BY <1>1, <1>2, <1>3, <1>5 DEF native_replay, replay_late, persistence
  <1>6. ASSUME NEW s \in Callers, durable_complete(s) \/ abandon(s)
        PROVE  Backed' /\ WriterQueues'
    BY <1>1, <1>2, <1>3, <1>6 DEF durable_complete, abandon, persistence
  <1>7. CASE Restart
    <2>1. queue' = << >> /\ batch' = << >> /\ call' = [s \in Callers |-> Idle]
      BY <1>7 DEF Restart
    <2>2. MaxPendingWrites \in Nat
      BY KvAssumption
    <2> QED
      BY <1>2, <2>1, <2>2, NoJobs DEF Backed, WriterQueues
  <1>8. ASSUME NEW w \in Subscribers,
               watch_kv(w) \/ unwatch(w) \/ watch_delta(w) \/ watch_reset(w) \/ watch_lagged(w)
        PROVE  Backed' /\ WriterQueues'
    BY <1>1, <1>8 DEF watch_kv, unwatch, watch_delta, watch_reset, watch_lagged, persistence
  <1> QED
    BY <1>4, <1>5, <1>6, <1>7, <1>8, MutateBacks, WriterBacks, Zenon DEF KvNext

LEMMA AlwaysQueues == KvSpec => [](Backed /\ WriterQueues)
  <1>1. KvInit => Backed /\ WriterQueues
    <2> SUFFICES ASSUME KvInit PROVE Backed /\ WriterQueues
      OBVIOUS
    <2>1. Idle.phase # "waiting" /\ MaxPendingWrites \in Nat
      BY KvAssumption DEF Idle
    <2> QED
      BY <2>1, NoJobs DEF KvInit, Backed, WriterQueues
  <1> QED
    BY <1>1, NextBacked, AlwaysTyped, PTL DEF KvSpec

(* A session that waits for the disk waits for a job the writer holds, and *)
(* so gets an answer from whatever the writer does next; the writer never  *)
(* holds more jobs than there are permits.                                 *)
THEOREM WaitersAreBacked == KvSpec => []WaiterIsBacked
  <1>1. Backed /\ WriterQueues => WaiterIsBacked
    BY DEF Backed, WriterQueues, WaiterIsBacked
  <1> QED
    BY <1>1, AlwaysQueues, PTL

-----------------------------------------------------------------------------
(* Subscriptions. *)

ViewRuns(w, view, c, V) ==
    /\ V \in [0 .. Len(c) -> Entries] /\ V[0] = view
    /\ \A i \in 1 .. Len(c) : V[i] = ApplyChange(w, V[i - 1], c[i])
ViewSolving(w, view, c, g) ==
    g = [i \in 0 .. Len(c) |-> IF i = 0 THEN view ELSE ApplyChange(w, g[i - 1], c[i])]

LEMMA ViewUnfolds ==
    ASSUME NEW w, NEW view, NEW c
    PROVE  ViewsAfter(w, view, c) = CHOOSE g : ViewSolving(w, view, c, g)
  BY DEF ViewsAfter, ViewSolving

LEMMA ChangeApplies ==
    ASSUME NEW w, NEW view \in Entries, NEW c \in ChangeType
    PROVE  ApplyChange(w, view, c) \in Entries
  <1>1. PICK K \in SUBSET Keys : c.records \in [K -> EntryType]
    BY DEF ChangeType, RowsType
  <1> QED
    BY <1>1 DEF ApplyChange, Entries

(* What a client is told, one change at a time. *)
LEMMA ViewSteps ==
    ASSUME NEW w, NEW view \in Entries, NEW c \in Seq(ChangeType)
    PROVE  ViewRuns(w, view, c, ViewsAfter(w, view, c))
  <1> DEFINE n == Len(c)
             step == [i \in 1 .. n |-> [e \in Entries |-> ApplyChange(w, e, c[i])]]
             V == ViewsAfter(w, view, c)
  <1>1. n \in Nat /\ \A i \in 1 .. n : c[i] \in ChangeType
    OBVIOUS
  <1>2. step \in [1 .. n -> [Entries -> Entries]]
    <2>1. ASSUME NEW i \in 1 .. n, NEW e \in Entries PROVE ApplyChange(w, e, c[i]) \in Entries
      BY <1>1, ChangeApplies
    <2> QED
      BY <2>1, Zenon
  <1>3. PICK g \in [0 .. n -> Entries] : g[0] = view /\ \A i \in 1 .. n : g[i] = step[i][g[i - 1]]
    <2> HIDE DEF step, n
    <2>1. n \in Nat /\ view \in Entries
      BY <1>1
    <2>2. Iterated(Entries, view, n, step)
      BY <1>2, <2>1, Iteration
    <2> QED
      BY <2>2 DEF Iterated
  <1>4. \A i \in 1 .. n : g[i] = ApplyChange(w, g[i - 1], c[i])
    <2> SUFFICES ASSUME NEW i \in 1 .. n PROVE g[i] = ApplyChange(w, g[i - 1], c[i])
      OBVIOUS
    <2>1. g[i - 1] \in Entries
      BY <1>1, <1>3
    <2> QED
      BY <1>3, <2>1, Zenon
  <1>5. ViewSolving(w, view, c, g)
    <2>1. g = [i \in 0 .. n |-> g[i]]
      BY <1>3
    <2>2. \A i \in 0 .. n : i # 0 => i \in 1 .. n
      BY <1>1
    <2>3. \A i \in 0 .. n : g[i] = IF i = 0 THEN view ELSE ApplyChange(w, g[i - 1], c[i])
      BY <1>3, <1>4, <2>2, Zenon
    <2> QED
      BY <2>1, <2>3, Zenon DEF ViewSolving
  <1>6. ViewSolving(w, view, c, V)
    BY <1>5, ViewUnfolds, Zenon
  <1> HIDE DEF V
  <1>7. V[0] = view /\ \A i \in 1 .. n : V[i] = ApplyChange(w, V[i - 1], c[i])
    <2>1. \A i \in 0 .. n : V[i] = IF i = 0 THEN view ELSE ApplyChange(w, V[i - 1], c[i])
      BY <1>6 DEF ViewSolving
    <2>2. 0 \in 0 .. n /\ \A i \in 1 .. n : i \in 0 .. n /\ i # 0
      BY <1>1
    <2> QED
      BY <2>1, <2>2, Zenon
  <1>8. V = [i \in 0 .. n |-> V[i]]
    BY <1>6 DEF ViewSolving
  <1>9. \A i \in 0 .. n : V[i] \in Entries
    <2>1. ASSUME NEW i \in 1 .. n, V[i - 1] \in Entries PROVE V[i] \in Entries
      BY <1>1, <1>7, <2>1, ChangeApplies
    <2> HIDE DEF n
    <2> QED
      BY <1>1, <1>7, <2>1, IterationIn
  <1>10. V \in [0 .. n -> Entries]
    <2> HIDE DEF n
    <2> QED
      BY <1>8, <1>9
  <1> QED
    BY <1>7, <1>10 DEF ViewRuns, V

FinalView(w, view, c) == ViewsAfter(w, view, c)[Len(c)]

LEMMA ViewAppended ==
    ASSUME NEW w, NEW view \in Entries, NEW c \in Seq(ChangeType), NEW x \in ChangeType
    PROVE  FinalView(w, view, Append(c, x)) = ApplyChange(w, FinalView(w, view, c), x)
  <1> DEFINE d == Append(c, x)
             n == Len(c)
             G == ViewsAfter(w, view, d)
             H == ViewsAfter(w, view, c)
  <1>1. n \in Nat /\ d \in Seq(ChangeType) /\ Len(d) = n + 1 /\ d[n + 1] = x
        /\ \A i \in 1 .. n : d[i] = c[i]
    OBVIOUS
  <1>2. ViewRuns(w, view, d, G) /\ ViewRuns(w, view, c, H)
    BY <1>1, ViewSteps
  <1> HIDE DEF d, n, G, H
  <1>3. G[0] = H[0]
    BY <1>2 DEF ViewRuns
  <1>4. ASSUME NEW i \in 1 .. n, G[i - 1] = H[i - 1] PROVE G[i] = H[i]
    <2>1. i \in 1 .. n + 1 /\ d[i] = c[i]
      BY <1>1
    <2>2. G[i] = ApplyChange(w, G[i - 1], d[i])
      BY <1>1, <1>2, <2>1 DEF ViewRuns
    <2>3. H[i] = ApplyChange(w, H[i - 1], c[i])
      BY <1>2 DEF ViewRuns, n
    <2> QED
      BY <1>4, <2>1, <2>2, <2>3
  <1>5. G[n] = H[n]
    <2>1. StepAlike(n, G, H)
      BY <1>4 DEF StepAlike
    <2>2. Alike(n, G, H)
      BY <1>1, <1>3, <2>1, SameIteration
    <2> QED
      BY <1>1, <2>2 DEF Alike
  <1>6. G[n + 1] = ApplyChange(w, G[n], x)
    <2>1. n + 1 \in 1 .. n + 1 /\ (n + 1) - 1 = n
      BY <1>1
    <2> QED
      BY <1>1, <1>2, <2>1 DEF ViewRuns
  <1> QED
    BY <1>1, <1>5, <1>6 DEF FinalView, G, H, d, n

LEMMA ViewAdvanced ==
    ASSUME NEW w, NEW view \in Entries, NEW c \in Seq(ChangeType), c # << >>
    PROVE  FinalView(w, ApplyChange(w, view, Head(c)), Tail(c)) = FinalView(w, view, c)
  <1> DEFINE d == Tail(c)
             n == Len(d)
             v == ApplyChange(w, view, Head(c))
             G == ViewsAfter(w, v, d)
             H == ViewsAfter(w, view, c)
             K == [i \in 0 .. n |-> H[i + 1]]
  <1>1. n \in Nat /\ d \in Seq(ChangeType) /\ Len(c) = n + 1 /\ Head(c) = c[1] /\ c[1] \in ChangeType
        /\ \A i \in 1 .. n : d[i] = c[i + 1]
    OBVIOUS
  <1>2. v \in Entries
    BY <1>1, ChangeApplies
  <1> HIDE DEF v
  <1>3. ViewRuns(w, v, d, G) /\ ViewRuns(w, view, c, H)
    BY <1>1, <1>2, ViewSteps
  <1>4. v = ApplyChange(w, view, c[1])
    BY <1>1 DEF v
  <1> HIDE DEF d, n, G, H
  <1>5. G[0] = K[0]
    <2>1. 0 \in 0 .. n /\ 1 \in 1 .. Len(c) /\ 0 + 1 = 1 /\ 1 - 1 = 0
      BY <1>1
    <2>2. H[1] = ApplyChange(w, H[1 - 1], c[1]) /\ H[0] = view /\ G[0] = v
      BY <1>3, <2>1 DEF ViewRuns
    <2> QED
      BY <1>4, <2>1, <2>2
  <1>6. ASSUME NEW i \in 1 .. n, G[i - 1] = K[i - 1] PROVE G[i] = K[i]
    <2>1. i + 1 \in 1 .. Len(c) /\ (i + 1) - 1 = i /\ i - 1 \in 0 .. n /\ i \in 0 .. n
          /\ (i - 1) + 1 = i
      BY <1>1
    <2>2. G[i] = ApplyChange(w, G[i - 1], d[i])
      BY <1>3 DEF ViewRuns, n
    <2>3. H[i + 1] = ApplyChange(w, H[i], c[i + 1])
      BY <1>3, <2>1 DEF ViewRuns
    <2>4. K[i] = H[i + 1] /\ K[i - 1] = H[i]
      BY <2>1
    <2> QED
      BY <1>1, <1>6, <2>2, <2>3, <2>4
  <1> HIDE DEF K
  <1>7. G[n] = K[n]
    <2>1. StepAlike(n, G, K)
      BY <1>6 DEF StepAlike
    <2>2. Alike(n, G, K)
      BY <1>1, <1>5, <2>1, SameIteration
    <2> QED
      BY <1>1, <2>2 DEF Alike
  <1>8. K[n] = H[n + 1]
    BY <1>1 DEF K
  <1> QED
    BY <1>1, <1>7, <1>8 DEF FinalView, G, H, d, n, v

LEMMA ViewOfNone ==
    ASSUME NEW w, NEW view \in Entries
    PROVE  FinalView(w, view, << >>) = view
  <1>1. << >> \in Seq(ChangeType) /\ Len(<< >>) = 0
    OBVIOUS
  <1> QED
    BY <1>1, ViewSteps DEF ViewRuns, FinalView

(* A subscription v of w that follows the store at a revision and rows:    *)
(* its changes are numbered on from its revision, one by one.  The numbers *)
(* matter: run_kv_watch skips a change that its snapshot already holds.    *)
Numbered(v) ==
    \A i \in 1 .. Len(v.changes) : /\ v.changes[i].from_revision = v.revision + (i - 1)
                                  /\ v.changes[i].to_revision = v.revision + i
Follows(w, v, rev, es) ==
    v.on /\ ~v.lagged => /\ Numbered(v)
                         /\ rev = v.revision + Len(v.changes)
                         /\ FinalView(w, v.view, v.changes) = Visible(w, es)
AllFollow == \A w \in Subscribers : Follows(w, watch[w], revision, entries)

LEMMA WatchFacts ==
    ASSUME NEW v \in WatchType
    PROVE  /\ v.on \in BOOLEAN /\ v.lagged \in BOOLEAN /\ v.revision \in Nat /\ v.view \in Entries
           /\ v.changes \in Seq(ChangeType) /\ Len(v.changes) \in Nat
           /\ \A i \in 1 .. Len(v.changes) : v.changes[i] \in ChangeType
  BY DEF WatchType

LEMMA FollowingIsExact == KvTyped /\ AllFollow => WatchExact
  <1> SUFFICES ASSUME KvTyped, AllFollow, NEW w \in Subscribers, watch[w].on, ~watch[w].lagged
               PROVE  LET c == watch[w].changes
                          R(i) == IF i = 0 THEN watch[w].revision ELSE c[i].to_revision
                      IN /\ \A i \in DOMAIN c : c[i].from_revision = R(i - 1)
                         /\ R(Len(c)) = revision
                         /\ ViewsAfter(w, watch[w].view, c)[Len(c)] = Visible(w, entries)
    BY DEF WatchExact
  <1> DEFINE c == watch[w].changes
             R(i) == IF i = 0 THEN watch[w].revision ELSE c[i].to_revision
  <1>1. watch[w].revision \in Nat /\ c \in Seq(ChangeType) /\ Len(c) \in Nat
    BY WatchFacts DEF KvTyped, WatchTyped
  <1>2. /\ Numbered(watch[w]) /\ revision = watch[w].revision + Len(c)
        /\ FinalView(w, watch[w].view, c) = Visible(w, entries)
    BY DEF AllFollow, Follows
  <1>3. \A i \in 1 .. Len(c) : c[i].from_revision = watch[w].revision + (i - 1)
                              /\ c[i].to_revision = watch[w].revision + i
    BY <1>2 DEF Numbered
  <1>4. \A i \in 0 .. Len(c) : R(i) = watch[w].revision + i
    BY <1>1, <1>3
  <1>5. \A i \in DOMAIN c : c[i].from_revision = R(i - 1)
    <2>1. \A i \in DOMAIN c : i \in 1 .. Len(c) /\ i - 1 \in 0 .. Len(c)
      BY <1>1
    <2> HIDE DEF R, c
    <2> QED
      BY <1>3, <1>4, <2>1
  <1>6. R(Len(c)) = revision
    <2> HIDE DEF R, c
    <2> QED
      BY <1>1, <1>2, <1>4
  <1> QED
    BY <1>2, <1>5, <1>6 DEF FinalView

(* The rows outside Written(r) are left alone, so telling a client the     *)
(* rows written makes its view that of the new state.                      *)
LEMMA Untouched ==
    ASSUME StoreTyped, NEW r \in Requests, NEW k \in Keys, k \notin Written(r)
    PROVE  NewEntries(r)[k] = entries[k]
  <1> DEFINE m == r.mutations
             n == Len(m)
  <1>1. Decided(m, n, entries, revision + 1, NewEntries(r))
    BY WorkingIs DEF NewEntries, StoreTyped
  <1>2. \A j \in 1 .. n : m[j].key # k
    BY RequestFacts DEF Written
  <1> HIDE DEF m, n
  <1> QED
    BY <1>1, <1>2 DEF Decided, LastOf

LEMMA ChangeTells ==
    ASSUME StoreTyped, NEW r \in Requests, NEW w
    PROVE  ApplyChange(w, Visible(w, entries), NewChange(r)) = Visible(w, NewEntries(r))
  <1> DEFINE c == NewChange(r)
  <1>1. c.records = NewRows(r)
    BY DEF NewChange
  <1>2. DOMAIN c.records = Written(r) /\ \A k \in Written(r) : c.records[k] = NewEntries(r)[k]
    BY <1>1 DEF NewRows
  <1>3. \A k \in Keys : k \notin Written(r) => NewEntries(r)[k] = entries[k]
    BY Untouched
  <1> HIDE DEF c
  <1>4. \A k \in Keys :
           (IF k \in DOMAIN c.records /\ k \in Namespace[w] THEN c.records[k] ELSE Visible(w, entries)[k])
           = (IF k \in Namespace[w] THEN NewEntries(r)[k] ELSE NoEntry)
    BY <1>2, <1>3 DEF Visible
  <1> QED
    BY <1>4 DEF ApplyChange, Visible, c

LEMMA ReceiveFollows ==
    ASSUME KvTyped, NEW r \in Requests, NEW w \in Subscribers,
           Follows(w, watch[w], revision, entries)
    PROVE  Follows(w, Receive(watch[w], NewChange(r)), revision + 1, NewEntries(r))
  <1> DEFINE v == watch[w]
             x == NewChange(r)
             u == Receive(v, x)
             d == Append(v.changes, x)
  <1>1. v \in WatchType /\ v.revision \in Nat /\ v.view \in Entries /\ v.changes \in Seq(ChangeType)
        /\ Len(v.changes) \in Nat
    BY WatchFacts DEF KvTyped, WatchTyped
  <1>2. x \in ChangeType /\ x.from_revision = revision /\ x.to_revision = revision + 1
        /\ revision \in Nat /\ ChangeQueue \in Nat
    BY NewEntriesType, KvAssumption DEF KvTyped, StoreTyped, NewChange
  <1>3. CASE ~v.on
    <2>1. u = v
      BY <1>3 DEF Receive
    <2> QED
      BY <1>3, <2>1 DEF Follows
  <1>4. CASE v.on /\ ~(Len(v.changes) < ChangeQueue)
    <2>1. u = [v EXCEPT !.changes = Append(Tail(@), x), !.lagged = TRUE]
      BY <1>4 DEF Receive
    <2>2. u.lagged
      BY <1>1, <2>1 DEF WatchType
    <2> QED
      BY <2>2 DEF Follows
  <1>5. CASE v.on /\ Len(v.changes) < ChangeQueue
    <2>1. u = [v EXCEPT !.changes = d]
      BY <1>5 DEF Receive
    <2>2. u.changes = d /\ u.revision = v.revision /\ u.view = v.view /\ u.on = v.on /\ u.lagged = v.lagged
      BY <1>1, <2>1 DEF WatchType
    <2>3. ASSUME u.on, ~u.lagged
          PROVE  Numbered(u) /\ revision + 1 = u.revision + Len(u.changes)
                 /\ FinalView(w, u.view, u.changes) = Visible(w, NewEntries(r))
      <3>1. /\ Numbered(v) /\ revision = v.revision + Len(v.changes)
            /\ FinalView(w, v.view, v.changes) = Visible(w, entries)
        BY <2>2, <2>3 DEF Follows
      <3>2. Len(d) = Len(v.changes) + 1 /\ d[Len(v.changes) + 1] = x
            /\ \A i \in 1 .. Len(v.changes) : d[i] = v.changes[i]
        BY <1>1, <1>2
      <3>3. FinalView(w, v.view, d) = ApplyChange(w, Visible(w, entries), x)
        BY <1>1, <1>2, <3>1, ViewAppended
      <3>4. FinalView(w, v.view, d) = Visible(w, NewEntries(r))
        BY <3>3, ChangeTells DEF KvTyped
      <3> HIDE DEF d, x
      <3>5. \A i \in 1 .. Len(d) : d[i].from_revision = v.revision + (i - 1) /\ d[i].to_revision = v.revision + i
        <4>1. \A i \in 1 .. Len(v.changes) : v.changes[i].from_revision = v.revision + (i - 1)
                                            /\ v.changes[i].to_revision = v.revision + i
          BY <3>1 DEF Numbered
        <4>2. \A i \in 1 .. Len(d) : i \in 1 .. Len(v.changes) \/ i = Len(v.changes) + 1
          BY <1>1, <3>2
        <4>3. (Len(v.changes) + 1) - 1 = Len(v.changes)
          BY <1>1
        <4>4. revision + 1 = v.revision + (Len(v.changes) + 1)
          BY <1>1, <1>2, <3>1
        <4> QED
          BY <1>2, <3>1, <3>2, <4>1, <4>2, <4>3, <4>4
      <3>6. revision + 1 = v.revision + Len(d)
        BY <1>1, <1>2, <3>1, <3>2
      <3> QED
        BY <2>2, <3>4, <3>5, <3>6 DEF Numbered
    <2> QED
      BY <2>3 DEF Follows
  <1> QED
    BY <1>3, <1>4, <1>5

LEMMA SnapshotFollows ==
    ASSUME StoreTyped, NEW w
    PROVE  Follows(w, native_watch(w), revision, entries)
  <1>1. revision \in Nat /\ Visible(w, entries) \in Entries
    BY VisibleType DEF StoreTyped
  <1>2. FinalView(w, Visible(w, entries), << >>) = Visible(w, entries)
    BY <1>1, ViewOfNone
  <1>3. Len(<< >>) = 0 /\ 1 .. 0 = {} /\ revision = revision + 0
    BY <1>1
  <1> QED
    BY <1>2, <1>3 DEF Follows, Numbered, native_watch

LEMMA DeliverFollows ==
    ASSUME KvTyped, NEW w \in Subscribers, watch_delta(w), Follows(w, watch[w], revision, entries)
    PROVE  Follows(w, Deliver(w, Head(watch[w].changes)), revision, entries)
  <1> DEFINE v == watch[w]
             x == Head(v.changes)
             d == Tail(v.changes)
             u == Deliver(w, x)
  <1>1. v \in WatchType /\ v.revision \in Nat /\ v.view \in Entries /\ v.changes \in Seq(ChangeType)
        /\ Len(v.changes) \in Nat
    BY WatchFacts DEF KvTyped, WatchTyped
  <1>2. v.on /\ ~v.lagged /\ v.changes # << >>
    BY DEF watch_delta
  <1>3. Numbered(v) /\ revision = v.revision + Len(v.changes)
        /\ FinalView(w, v.view, v.changes) = Visible(w, entries)
    BY <1>2 DEF Follows
  <1>4. x = v.changes[1] /\ 1 \in 1 .. Len(v.changes) /\ Len(v.changes) = Len(d) + 1
        /\ Len(d) \in Nat /\ \A i \in 1 .. Len(d) : d[i] = v.changes[i + 1]
    BY <1>1, <1>2
  <1>5. x.to_revision = v.revision + 1
    BY <1>3, <1>4 DEF Numbered
  <1>6. ~(x.to_revision <= v.revision)
    BY <1>1, <1>5
  <1>7. u = [v EXCEPT !.revision = x.to_revision, !.view = ApplyChange(w, @, x), !.changes = d]
    BY <1>6, Zenon DEF Deliver
  <1>8. u.revision = v.revision + 1 /\ u.view = ApplyChange(w, v.view, x) /\ u.changes = d
    BY <1>1, <1>5, <1>7 DEF WatchType
  <1>9. FinalView(w, u.view, d) = Visible(w, entries)
    BY <1>1, <1>2, <1>3, <1>8, ViewAdvanced
  <1> HIDE DEF d, u
  <1>10. ASSUME NEW i \in 1 .. Len(d)
         PROVE  /\ d[i].from_revision = (v.revision + 1) + (i - 1)
                /\ d[i].to_revision = (v.revision + 1) + i
    <2>1. i + 1 \in 1 .. Len(v.changes) /\ (i + 1) - 1 = i
      BY <1>4
    <2>2. d[i].from_revision = v.revision + i /\ d[i].to_revision = v.revision + (i + 1)
      BY <1>3, <1>4, <2>1 DEF Numbered
    <2>3. v.revision + i = (v.revision + 1) + (i - 1) /\ v.revision + (i + 1) = (v.revision + 1) + i
      BY <1>1
    <2> QED
      BY <2>2, <2>3
  <1>11. revision = (v.revision + 1) + Len(d)
    <2> DEFINE a == v.revision
               b == Len(d)
    <2>1. a \in Nat /\ b \in Nat /\ revision = a + (b + 1)
      BY <1>1, <1>3, <1>4
    <2> HIDE DEF a, b
    <2>2. revision = (a + 1) + b
      BY <2>1
    <2> QED
      BY <2>2 DEF a, b
  <1> QED
    BY <1>8, <1>9, <1>10, <1>11 DEF Follows, Numbered, u

LEMMA NextFollows == KvTyped /\ AllFollow /\ [KvNext]_kv_vars => AllFollow'
  <1> SUFFICES ASSUME KvTyped, AllFollow, [KvNext]_kv_vars PROVE AllFollow'
    OBVIOUS
  <1>1. ASSUME UNCHANGED <<watch, revision, entries>> PROVE AllFollow'
    BY <1>1 DEF AllFollow
  <1>2. CASE UNCHANGED kv_vars
    BY <1>1, <1>2 DEF kv_vars, store
  <1>3. ASSUME NEW s \in Callers, NEW r \in Requests, native_replay(s, r) \/ replay_late(s, r)
        PROVE  AllFollow'
    BY <1>1, <1>3 DEF native_replay, replay_late, store
  <1>4. ASSUME NEW s \in Callers, durable_complete(s) \/ abandon(s) PROVE AllFollow'
    BY <1>1, <1>4 DEF durable_complete, abandon, store
  <1>5. CASE writer_receive \/ writer_commit \/ writer_fail \/ writer_exit
    BY <1>1, <1>5 DEF writer_receive, writer_commit, writer_fail, writer_exit, store
  <1>6. ASSUME NEW s \in Callers, NEW r \in Requests, native_mutate(s, r) PROVE AllFollow'
    <2>1. CASE Refuses(s)
      BY <1>1, <2>1 DEF Refuses, store
    <2>2. CASE SettlesConflict(s, r)
      BY <1>1, <2>2 DEF SettlesConflict, Settled
    <2>3. CASE SettlesCommit(s, r)
      <3>1. /\ revision' = revision + 1 /\ entries' = NewEntries(r)
            /\ \A w \in Subscribers : watch'[w] = Receive(watch[w], NewChange(r))
        BY <2>3 DEF SettlesCommit, Settled, broadcast
      <3>2. \A w \in Subscribers :
               Follows(w, Receive(watch[w], NewChange(r)), revision + 1, NewEntries(r))
        BY ReceiveFollows DEF AllFollow
      <3>3. \A w \in Subscribers : Follows(w, watch'[w], revision', entries')
        BY <3>1, <3>2, Zenon
      <3> QED
        BY <3>3 DEF AllFollow
    <2> QED
      BY <1>6, <2>1, <2>2, <2>3, MutateIs
  <1>7. CASE Restart
    <2>1. \A w \in Subscribers : watch'[w] = Unsubscribed
      BY <1>7 DEF Restart
    <2>2. ~Unsubscribed.on
      BY DEF Unsubscribed
    <2> QED
      BY <2>1, <2>2 DEF AllFollow, Follows
  <1>8. ASSUME NEW w \in Subscribers,
               watch_kv(w) \/ unwatch(w) \/ watch_delta(w) \/ watch_reset(w) \/ watch_lagged(w)
        PROVE  AllFollow'
    <2>1. revision' = revision /\ entries' = entries
      BY <1>8 DEF watch_kv, unwatch, watch_delta, watch_reset, watch_lagged, store
    <2>2. PICK v : watch' = [watch EXCEPT ![w] = v] /\ Follows(w, v, revision, entries)
      <3>1. Follows(w, native_watch(w), revision, entries)
        BY SnapshotFollows DEF KvTyped
      <3>2. Follows(w, Unsubscribed, revision, entries)
        BY DEF Follows, Unsubscribed
      <3>3. ASSUME watch_delta(w)
            PROVE  /\ watch' = [watch EXCEPT ![w] = Deliver(w, Head(watch[w].changes))]
                   /\ Follows(w, Deliver(w, Head(watch[w].changes)), revision, entries)
        <4>1. watch' = [watch EXCEPT ![w] = Deliver(w, Head(watch[w].changes))]
          BY <3>3, Zenon DEF watch_delta
        <4> QED
          BY <3>3, <4>1, DeliverFollows DEF AllFollow
      <3> QED
        BY <1>8, <3>1, <3>2, <3>3, Zenon DEF watch_kv, unwatch, watch_reset, watch_lagged
    <2>3. watch \in [Subscribers -> WatchType]
      BY DEF KvTyped, WatchTyped
    <2>4. \A p \in Subscribers : watch'[p] = IF p = w THEN v ELSE watch[p]
      BY <2>2, <2>3
    <2>5. \A p \in Subscribers : Follows(p, watch'[p], revision', entries')
      BY <2>1, <2>2, <2>4 DEF AllFollow
    <2> QED
      BY <2>5 DEF AllFollow
  <1> QED
    BY <1>2, <1>3, <1>4, <1>5, <1>6, <1>7, <1>8, Zenon DEF KvNext

(* Whoever watches a namespace and has not lagged misses nothing: its      *)
(* queued changes follow its revision without a gap up to the store's, and *)
(* lead from what it was sent to what is stored, for any requests and any  *)
(* length of the change queue.                                             *)
THEOREM WatchesAreExact == KvSpec => []WatchExact
  <1>1. KvInit => AllFollow
    BY DEF KvInit, AllFollow, Follows, Unsubscribed
  <1> QED
    BY <1>1, NextFollows, FollowingIsExact, AlwaysTyped, PTL DEF KvSpec

-----------------------------------------------------------------------------
(* Replay records.  They are in sequence: of two records the later one has *)
(* no smaller revision, and a larger one if it is that of a commit.        *)

Before(o, p) ==
    /\ o.settlement_sequence < p.settlement_sequence /\ o.store_revision <= p.store_revision
    /\ p.ok => o.store_revision < p.store_revision
InSequence(ops) == \A o, p \in ops : o = p \/ Before(o, p) \/ Before(p, o)
UniqueIds(ops) == \A o, p \in ops : o.operation_id = p.operation_id => o = p
Later(ops, o) == {p \in ops : p.settlement_sequence > o.settlement_sequence}

LEMMA OperationFacts ==
    ASSUME NEW o \in OperationType
    PROVE  /\ o.store_revision \in Nat /\ o.store_revision > 0 /\ o.settlement_sequence \in Nat
           /\ o.settlement_sequence > 0 /\ o.ok \in BOOLEAN /\ o.operation_id \in OperationIds
           /\ o.fingerprint \in {fingerprint(r) : r \in Requests}
  BY DEF OperationType

LEMMA LaterFinite ==
    ASSUME NEW ops \in FiniteOperations, NEW o
    PROVE  IsFiniteSet(Later(ops, o)) /\ Cardinality(Later(ops, o)) \in Nat
  <1>1. Later(ops, o) \subseteq ops /\ IsFiniteSet(ops)
    BY DEF Later, FiniteOperations
  <1> QED
    BY <1>1, FS_Subset, FS_CardinalityType

LEMMA RecentIs ==
    ASSUME NEW ops
    PROVE  Recent(ops) = {o \in ops : Cardinality(Later(ops, o)) < MaxRecentReplays}
  BY DEF Recent, Later

LEMMA SequencesDiffer ==
    ASSUME NEW ops \in FiniteOperations, InSequence(ops), NEW o \in ops, NEW p \in ops, o # p
    PROVE  /\ o.settlement_sequence \in Nat /\ p.settlement_sequence \in Nat
           /\ o.settlement_sequence < p.settlement_sequence
              \/ p.settlement_sequence < o.settlement_sequence
  BY OperationFacts DEF InSequence, Before, FiniteOperations

(* The recent ones are the last ones. *)
LEMMA RecentAreLast ==
    ASSUME NEW ops \in FiniteOperations, InSequence(ops), NEW x \in ops \ Recent(ops),
           NEW y \in Recent(ops)
    PROVE  x.settlement_sequence < y.settlement_sequence
  <1> SUFFICES ASSUME ~(x.settlement_sequence < y.settlement_sequence) PROVE FALSE
    OBVIOUS
  <1>1. x \in ops /\ y \in ops /\ x # y /\ ~(Cardinality(Later(ops, x)) < MaxRecentReplays)
        /\ Cardinality(Later(ops, y)) < MaxRecentReplays
    BY RecentIs
  <1>2. y.settlement_sequence < x.settlement_sequence /\ x.settlement_sequence \in Nat
        /\ y.settlement_sequence \in Nat
    BY <1>1, SequencesDiffer
  <1>3. Later(ops, x) \subseteq Later(ops, y)
    <2>1. \A p \in ops : p.settlement_sequence \in Nat
      BY OperationFacts DEF FiniteOperations
    <2> QED
      BY <1>2, <2>1 DEF Later
  <1>4. IsFiniteSet(Later(ops, y)) /\ Cardinality(Later(ops, y)) \in Nat
        /\ Cardinality(Later(ops, x)) \in Nat
    BY LaterFinite
  <1>5. Cardinality(Later(ops, x)) <= Cardinality(Later(ops, y))
    BY <1>3, <1>4, FS_Subset
  <1>6. MaxRecentReplays \in Nat
    BY KvAssumption
  <1> DEFINE a == Cardinality(Later(ops, x))
             b == Cardinality(Later(ops, y))
  <1>7. a \in Nat /\ b \in Nat /\ a <= b /\ b < MaxRecentReplays /\ ~(a < MaxRecentReplays)
    BY <1>1, <1>4, <1>5
  <1> HIDE DEF a, b
  <1> QED
    BY <1>6, <1>7

(* Where some are not recent, as many are as may be. *)
LEMMA RecentAreMany ==
    ASSUME NEW ops \in FiniteOperations, InSequence(ops), ops \ Recent(ops) # {}
    PROVE  /\ IsFiniteSet(Recent(ops)) /\ Cardinality(Recent(ops)) \in Nat
           /\ Cardinality(Recent(ops)) >= MaxRecentReplays
  <1> DEFINE old == ops \ Recent(ops)
  <1>1. old \in FiniteOperations /\ Recent(ops) \in FiniteOperations
    <2>1. old \subseteq ops /\ Recent(ops) \subseteq ops
      BY DEF Recent
    <2> QED
      BY <2>1, FS_Subset DEF FiniteOperations
  <1>2. IsFiniteSet(Recent(ops)) /\ Cardinality(Recent(ops)) \in Nat
    BY <1>1, FS_CardinalityType DEF FiniteOperations
  <1>3. SequencesOf(old) \in SUBSET Nat /\ IsFiniteSet(SequencesOf(old))
    <2> HIDE DEF old
    <2> QED
      BY <1>1, RecordsFinite
  <1>4. SequencesOf(old) # {}
    BY DEF SequencesOf
  <1>5. PICK n \in SequencesOf(old) : \A m \in SequencesOf(old) : m <= n
    <2> HIDE DEF old
    <2> QED
      BY <1>3, <1>4, FiniteMax
  <1>6. PICK y \in old : y.settlement_sequence = n
    BY DEF SequencesOf
  <1>7. Later(ops, y) \subseteq Recent(ops)
    <2> SUFFICES ASSUME NEW p \in ops, p.settlement_sequence > y.settlement_sequence,
                        p \notin Recent(ops)
                 PROVE  FALSE
      BY DEF Later
    <2>1. p \in old
      OBVIOUS
    <2>2. p.settlement_sequence <= n
      BY <1>5, <2>1 DEF SequencesOf
    <2>3. p.settlement_sequence \in Nat /\ n \in Nat
      BY <1>3, OperationFacts DEF FiniteOperations
    <2> QED
      BY <1>6, <2>2, <2>3
  <1>8. Cardinality(Later(ops, y)) <= Cardinality(Recent(ops))
    BY <1>2, <1>7, FS_Subset
  <1>9. ~(Cardinality(Later(ops, y)) < MaxRecentReplays) /\ Cardinality(Later(ops, y)) \in Nat
    BY RecentIs, LaterFinite
  <1>10. MaxRecentReplays \in Nat
    BY KvAssumption
  <1> DEFINE a == Cardinality(Later(ops, y))
             b == Cardinality(Recent(ops))
  <1>11. a \in Nat /\ b \in Nat /\ a <= b /\ ~(a < MaxRecentReplays)
    BY <1>2, <1>8, <1>9
  <1> HIDE DEF a, b
  <1>12. b >= MaxRecentReplays
    BY <1>10, <1>11
  <1> QED
    BY <1>2, <1>12 DEF b

(* A revision is that of one commit, so every record that pins is kept.    *)
LEMMA PinnedIs ==
    ASSUME NEW ops \in FiniteOperations, InSequence(ops), NEW es
    PROVE  Pinned(ops, es) = {o \in ops : operation_pins_live_entry(o, es)}
  <1> SUFFICES ASSUME NEW o \in ops, operation_pins_live_entry(o, es), NEW p \in ops,
                      operation_pins_live_entry(p, es), p.store_revision = o.store_revision
               PROVE  p.settlement_sequence <= o.settlement_sequence
    BY DEF Pinned
  <1>1. o \in OperationType /\ p \in OperationType
    BY DEF FiniteOperations
  <1>2. o.ok /\ p.ok
    BY DEF operation_pins_live_entry
  <1>3. o = p
    BY <1>1, <1>2, OperationFacts DEF InSequence, Before
  <1> QED
    BY <1>1, <1>3, OperationFacts

LEMMA SubsetInSequence ==
    ASSUME NEW ops \in FiniteOperations, InSequence(ops), NEW T \in SUBSET ops
    PROVE  T \in FiniteOperations /\ InSequence(T)
  <1>1. T \in FiniteOperations
    BY FS_Subset DEF FiniteOperations
  <1> QED
    BY <1>1 DEF InSequence

(* Records that are retained stay so beside others that are older and pin  *)
(* nothing: what is left on disk does not change what a start would load.  *)
OldBeside(X, A, es) ==
    /\ \A x \in X : ~operation_pins_live_entry(x, es)
    /\ \A x \in X : \A y \in Recent(A) : x.settlement_sequence < y.settlement_sequence
    /\ X # {} => Cardinality(Recent(A)) >= MaxRecentReplays

LEMMA OldRecordsDoNotMatter ==
    ASSUME NEW S \in FiniteOperations, InSequence(S), NEW A \in SUBSET S, NEW X \in SUBSET S, NEW es,
           OldBeside(X, A, es)
    PROVE  Retained(Retained(A, es) \union X, es) = Retained(A, es)
  <1> USE DEF OldBeside
  <1> DEFINE R == Retained(A, es)
             T == R \union X
  <1>1. R \subseteq A /\ Recent(A) \subseteq R /\ Pinned(A, es) \subseteq R
        /\ \A y \in R : y \in Recent(A) \/ y \in Pinned(A, es)
    BY RetainedIn DEF Retained
  <1> HIDE DEF R
  <1>2. T \in SUBSET S
    BY <1>1
  <1>3. /\ A \in FiniteOperations /\ InSequence(A) /\ T \in FiniteOperations /\ InSequence(T)
    BY <1>2, SubsetInSequence
  <1>4. MaxRecentReplays \in Nat
    BY KvAssumption
  <1>5. ASSUME NEW x \in X PROVE x \notin Recent(T)
    <2>1. Recent(A) \subseteq Later(T, x)
      <3>1. \A p \in S : p.settlement_sequence \in Nat
        BY OperationFacts DEF FiniteOperations
      <3>2. \A y \in Recent(A) : y \in T /\ y.settlement_sequence > x.settlement_sequence
        BY <1>1, <1>2, <3>1
      <3> QED
        BY <3>2 DEF Later
    <2>2. IsFiniteSet(Later(T, x)) /\ Cardinality(Later(T, x)) \in Nat
      BY <1>3, LaterFinite
    <2>3. Cardinality(Recent(A)) <= Cardinality(Later(T, x)) /\ Cardinality(Recent(A)) \in Nat
      BY <2>1, <2>2, FS_Subset, FS_CardinalityType
    <2> DEFINE a == Cardinality(Recent(A))
               b == Cardinality(Later(T, x))
    <2>4. a \in Nat /\ b \in Nat /\ a <= b /\ a >= MaxRecentReplays
      BY <2>2, <2>3
    <2> HIDE DEF a, b
    <2>5. ~(b < MaxRecentReplays)
      BY <1>4, <2>4
    <2> QED
      BY <2>5, RecentIs DEF b
  <1>6. ASSUME NEW y \in Recent(A) PROVE y \in Recent(T)
    <2>1. y \in T /\ y \in A
      BY <1>1
    <2>2. Later(T, y) \subseteq Later(A, y)
      <3> SUFFICES ASSUME NEW p \in T, p.settlement_sequence > y.settlement_sequence PROVE p \in A
        BY DEF Later
      <3>1. \A q \in S : q.settlement_sequence \in Nat
        BY OperationFacts DEF FiniteOperations
      <3>2. p \notin X
        BY <1>2, <2>1, <3>1
      <3> QED
        BY <1>1, <3>2
    <2>3. IsFiniteSet(Later(A, y)) /\ Cardinality(Later(A, y)) \in Nat
          /\ Cardinality(Later(T, y)) \in Nat
      BY <1>3, LaterFinite
    <2>4. Cardinality(Later(T, y)) <= Cardinality(Later(A, y))
      BY <2>2, <2>3, FS_Subset
    <2>5. Cardinality(Later(A, y)) < MaxRecentReplays
      BY RecentIs
    <2> DEFINE a == Cardinality(Later(T, y))
               b == Cardinality(Later(A, y))
    <2>6. a \in Nat /\ b \in Nat /\ a <= b /\ b < MaxRecentReplays
      BY <2>3, <2>4, <2>5
    <2> HIDE DEF a, b
    <2>7. a < MaxRecentReplays
      BY <1>4, <2>6
    <2> QED
      BY <2>1, <2>7, RecentIs DEF a
  <1>7. /\ Pinned(T, es) = {o \in T : operation_pins_live_entry(o, es)}
        /\ Pinned(A, es) = {o \in A : operation_pins_live_entry(o, es)}
    BY <1>3, PinnedIs
  <1>8. Recent(T) \subseteq T
    BY DEF Recent
  <1>9. Recent(T) \union Pinned(T, es) = R
    BY <1>1, <1>5, <1>6, <1>7, <1>8
  <1> QED
    BY <1>9 DEF Retained, R

(* A start that fails to prune the database finds the same again. *)
LEMMA PruningMayFail ==
    ASSUME NEW ops \in FiniteOperations, InSequence(ops), NEW es,
           NEW X \in SUBSET (ops \ Retained(ops, es))
    PROVE  Retained(Retained(ops, es) \union X, es) = Retained(ops, es)
  <1>1. \A x \in X : x \in ops /\ x \notin Recent(ops) /\ x \notin Pinned(ops, es)
    BY DEF Retained
  <1>2. \A x \in X : ~operation_pins_live_entry(x, es)
    BY <1>1, PinnedIs
  <1>3. \A x \in X : \A y \in Recent(ops) : x.settlement_sequence < y.settlement_sequence
    BY <1>1, RecentAreLast
  <1>4. X # {} => Cardinality(Recent(ops)) >= MaxRecentReplays
    BY <1>1, RecentAreMany
  <1>5. ops \in SUBSET ops /\ X \in SUBSET ops
    BY <1>1
  <1>6. OldBeside(X, ops, es)
    BY <1>2, <1>3, <1>4 DEF OldBeside
  <1> QED
    BY <1>5, <1>6, OldRecordsDoNotMatter

(* Nor does a record that is settled make an older one matter again: new   *)
(* rows only ever carry the new revision.                                  *)
KeepsBeside(A, X, es) == Retained(Retained(A, es) \union X, es) = Retained(A, es)
NewerThan(o, D, es, fs) ==
    \A p \in D : /\ Before(p, o)
                 /\ operation_pins_live_entry(p, fs) => operation_pins_live_entry(p, es)

LEMMA SettlingKeepsRetained ==
    ASSUME NEW D \in FiniteOperations, InSequence(D), NEW o \in OperationType, NEW es, NEW fs,
           NewerThan(o, D, es, fs), NEW X \in SUBSET (D \ Retained(D, es))
    PROVE  KeepsBeside(Retained(D, es) \union {o}, X, fs)
  <1> USE DEF NewerThan
  <1> DEFINE S == D \union {o}
             B == Retained(D, es)
             A == B \union {o}
  <1>1. B \subseteq D /\ Recent(D) \subseteq B
        /\ \A x \in X : x \in D /\ x \notin Recent(D) /\ x \notin Pinned(D, es)
    BY RetainedIn DEF Retained
  <1> HIDE DEF B
  <1>2. S \in FiniteOperations /\ InSequence(S)
    <2>1. S \in FiniteOperations
      BY FS_AddElement DEF FiniteOperations
    <2> QED
      BY <2>1 DEF InSequence
  <1>3. A \in SUBSET S /\ X \in SUBSET S
    BY <1>1
  <1>4. A \in FiniteOperations /\ InSequence(A)
    BY <1>2, <1>3, SubsetInSequence
  <1>5. \A p \in S : p.settlement_sequence \in Nat
    BY <1>2, OperationFacts DEF FiniteOperations
  <1>6. MaxRecentReplays \in Nat
    BY KvAssumption
  <1>7. \A x \in X : ~operation_pins_live_entry(x, fs)
    BY <1>1, PinnedIs
  <1>8. ASSUME NEW x \in X PROVE Cardinality(Recent(A)) >= MaxRecentReplays
    <2>1. /\ IsFiniteSet(Recent(D)) /\ Cardinality(Recent(D)) \in Nat
          /\ Cardinality(Recent(D)) >= MaxRecentReplays
      BY <1>1, <1>8, RecentAreMany
    <2>2. CASE A \ Recent(A) # {}
      BY <1>4, <2>2, RecentAreMany
    <2>3. CASE A \ Recent(A) = {}
      <3>1. Recent(A) = A
        BY <2>3 DEF Recent
      <3>2. IsFiniteSet(A) /\ Recent(D) \subseteq A
        BY <1>1, <1>4 DEF FiniteOperations
      <3>3. Cardinality(Recent(D)) <= Cardinality(A) /\ Cardinality(A) \in Nat
        BY <3>2, FS_Subset, FS_CardinalityType
      <3> DEFINE a == Cardinality(Recent(D))
                 b == Cardinality(A)
      <3>4. a \in Nat /\ b \in Nat /\ a <= b /\ a >= MaxRecentReplays
        BY <2>1, <3>3
      <3> HIDE DEF a, b
      <3>5. b >= MaxRecentReplays
        BY <1>6, <3>4
      <3> QED
        BY <3>1, <3>5 DEF b
    <2> QED
      BY <2>2, <2>3
  <1>9. ASSUME NEW x \in X, NEW y \in Recent(A) PROVE x.settlement_sequence < y.settlement_sequence
    <2>1. y \in A /\ Cardinality(Later(A, y)) < MaxRecentReplays
      BY RecentIs
    <2>2. CASE y = o
      BY <1>1, <2>2 DEF Before
    <2>3. CASE y \in B /\ y \notin Recent(D)
      <3>1. \A q \in Recent(D) : y.settlement_sequence < q.settlement_sequence
        BY <1>1, <2>3, RecentAreLast
      <3>2. Recent(D) \subseteq Later(A, y)
        <4>1. \A q \in Recent(D) : q \in A /\ q \in S /\ y \in S
          BY <1>1, <2>1, <1>3
        <4> QED
          BY <1>5, <3>1, <4>1 DEF Later
      <3>3. IsFiniteSet(Later(A, y)) /\ Cardinality(Later(A, y)) \in Nat
        BY <1>4, LaterFinite
      <3>4. /\ Cardinality(Recent(D)) \in Nat /\ Cardinality(Recent(D)) >= MaxRecentReplays
        BY <1>1, <1>9, RecentAreMany
      <3>5. Cardinality(Recent(D)) <= Cardinality(Later(A, y))
        BY <3>2, <3>3, FS_Subset
      <3> DEFINE a == Cardinality(Recent(D))
                 b == Cardinality(Later(A, y))
      <3>6. a \in Nat /\ b \in Nat /\ a <= b /\ a >= MaxRecentReplays /\ b < MaxRecentReplays
        BY <2>1, <3>3, <3>4, <3>5
      <3> HIDE DEF a, b
      <3> QED
        BY <1>6, <3>6
    <2>4. CASE y \in Recent(D)
      BY <1>1, <2>4, RecentAreLast
    <2> QED
      BY <2>1, <2>2, <2>3, <2>4
  <1> HIDE DEF A, S
  <1>10. Retained(Retained(A, fs) \union X, fs) = Retained(A, fs)
    <2>1. \A x \in X : \A y \in Recent(A) : x.settlement_sequence < y.settlement_sequence
      BY <1>9
    <2>2. X # {} => Cardinality(Recent(A)) >= MaxRecentReplays
      BY <1>8
    <2>3. OldBeside(X, A, fs)
      BY <1>7, <2>1, <2>2 DEF OldBeside
    <2> QED
      BY <1>2, <1>3, <2>3, OldRecordsDoNotMatter
  <1> QED
    BY <1>10 DEF A, B, KeepsBeside

-----------------------------------------------------------------------------
(* One settled operation, in memory and on disk. *)

Explains(o, k, e) ==
    /\ o.ok /\ o.store_revision = e.modification_revision
    /\ \E i \in DOMAIN o.fingerprint.mutations :
        o.fingerprint.mutations[i].key = k /\ o.fingerprint.mutations[i].value = e.value
Explained(es, ops) == \A k \in Keys : es[k] # NoEntry => \E o \in ops : Explains(o, k, es[k])
Recorded(es, ops) == InSequence(ops) /\ Explained(es, ops)
Bounded(es, ops, rev, next) ==
    /\ \A n \in LiveRevisions(es) : n <= rev
    /\ \A o \in ops : o.store_revision <= rev /\ o.settlement_sequence < next

(* o takes the rows from es to fs: a conflict changes nothing, a commit    *)
(* gives every row it leaves the next revision.                            *)
TakesConflict(o, es, fs, rev, written) ==
    ~o.ok /\ o.store_revision = rev /\ fs = es /\ DOMAIN written = {}
TakesCommit(o, es, fs, rev, written) ==
    /\ o.ok /\ o.store_revision = rev + 1
    /\ \A k \in Keys : k \notin DOMAIN written => fs[k] = es[k]
    /\ \A k \in DOMAIN written : written[k] = fs[k] /\ (fs[k] = NoEntry \/ Explains(o, k, fs[k]))
Takes(o, es, fs, rev, next, written) ==
    /\ o \in OperationType /\ o.settlement_sequence = next
    /\ fs \in Entries /\ written \in RowsType
    /\ TakesConflict(o, es, fs, rev, written) \/ TakesCommit(o, es, fs, rev, written)

LEMMA RowsDomain ==
    ASSUME NEW rows \in RowsType
    PROVE  DOMAIN rows \subseteq Keys /\ \A k \in DOMAIN rows : rows[k] \in EntryType
  <1>1. PICK K \in SUBSET Keys : rows \in [K -> EntryType]
    BY DEF RowsType
  <1> QED
    BY <1>1

(* Every revision of the new rows is an old one or that of the commit. *)
LEMMA TakesRevisions ==
    ASSUME NEW es \in Entries, NEW o, NEW fs, NEW rev \in Nat, NEW next, NEW written,
           Takes(o, es, fs, rev, next, written), NEW n \in LiveRevisions(fs)
    PROVE  n \in LiveRevisions(es) \/ (o.ok /\ n = o.store_revision)
  <1>1. PICK k \in Keys : fs[k].modification_revision = n /\ n # 0
    BY DEF LiveRevisions
  <1>2. CASE fs[k] = es[k]
    BY <1>1, <1>2 DEF LiveRevisions
  <1>3. CASE fs[k] # es[k]
    <2>1. o.ok /\ k \in DOMAIN written /\ (fs[k] = NoEntry \/ Explains(o, k, fs[k]))
      BY <1>3 DEF Takes, TakesConflict, TakesCommit
    <2>2. fs[k] # NoEntry
      BY <1>1 DEF NoEntry
    <2> QED
      BY <1>1, <2>1, <2>2 DEF Explains
  <1> QED
    BY <1>2, <1>3

LEMMA TakesIsLast ==
    ASSUME NEW es \in Entries, NEW ops \in FiniteOperations, NEW rev \in Nat, NEW next \in Nat,
           Bounded(es, ops, rev, next), NEW o, NEW fs, NEW written,
           Takes(o, es, fs, rev, next, written), InSequence(ops)
    PROVE  /\ \A p \in ops : Before(p, o)
           /\ ops \union {o} \in FiniteOperations /\ InSequence(ops \union {o})
           /\ o \in Retained(ops \union {o}, fs)
           /\ Bounded(fs, ops \union {o}, o.store_revision, next + 1)
           /\ \A p \in ops : operation_pins_live_entry(p, fs) => operation_pins_live_entry(p, es)
  <1>1. o \in OperationType /\ o.settlement_sequence = next /\ o.store_revision \in Nat
        /\ rev <= o.store_revision /\ (o.ok => rev < o.store_revision)
    BY OperationFacts DEF Takes, TakesConflict, TakesCommit
  <1>2. \A p \in ops : p \in OperationType /\ p.store_revision \in Nat /\ p.settlement_sequence \in Nat
                       /\ p.store_revision <= rev /\ p.settlement_sequence < next
    BY OperationFacts DEF FiniteOperations, Bounded
  <1>3. \A p \in ops : Before(p, o)
    BY <1>1, <1>2 DEF Before
  <1>4. ops \union {o} \in FiniteOperations
    BY <1>1, FS_AddElement DEF FiniteOperations
  <1>5. InSequence(ops \union {o})
    BY <1>3 DEF InSequence
  <1>6. o \in Retained(ops \union {o}, fs)
    <2>1. Later(ops \union {o}, o) = {}
      BY <1>1, <1>2 DEF Later
    <2>2. Cardinality({}) = 0 /\ MaxRecentReplays \in Nat /\ 0 < MaxRecentReplays
      BY FS_EmptySet, KvAssumption
    <2> QED
      BY <2>1, <2>2, RecentIs DEF Retained
  <1>7. Bounded(fs, ops \union {o}, o.store_revision, next + 1)
    <2>1. \A n \in LiveRevisions(es) : n \in Nat /\ n <= rev
      BY LiveFinite DEF Bounded
    <2>2. \A n \in LiveRevisions(fs) : n <= o.store_revision
      BY <1>1, <2>1, TakesRevisions
    <2>3. \A p \in ops \union {o} :
             p.store_revision <= o.store_revision /\ p.settlement_sequence < next + 1
      BY <1>1, <1>2
    <2> QED
      BY <2>2, <2>3 DEF Bounded
  <1>8. ASSUME NEW p \in ops, operation_pins_live_entry(p, fs) PROVE operation_pins_live_entry(p, es)
    <2>1. p.ok /\ p.store_revision \in LiveRevisions(fs)
      BY <1>8 DEF operation_pins_live_entry
    <2>2. ~(o.ok /\ p.store_revision = o.store_revision)
      BY <1>1, <1>2
    <2>3. p.store_revision \in LiveRevisions(es)
      BY <2>1, <2>2, TakesRevisions
    <2> QED
      BY <2>1, <2>3 DEF operation_pins_live_entry
  <1> QED
    BY <1>3, <1>4, <1>5, <1>6, <1>7, <1>8

(* What explains a row pins it, and so is retained. *)
LEMMA RetainedExplains ==
    ASSUME NEW ops \in FiniteOperations, InSequence(ops), NEW es, Explained(es, ops)
    PROVE  Explained(es, Retained(ops, es))
  <1> SUFFICES ASSUME NEW k \in Keys, es[k] # NoEntry
               PROVE  \E o \in Retained(ops, es) : Explains(o, k, es[k])
    BY DEF Explained
  <1>1. PICK o \in ops : Explains(o, k, es[k])
    BY DEF Explained
  <1>2. o.store_revision > 0 /\ o.store_revision \in Nat
    BY OperationFacts DEF FiniteOperations
  <1>3. o.store_revision \in LiveRevisions(es)
    BY <1>1, <1>2 DEF Explains, LiveRevisions
  <1>4. operation_pins_live_entry(o, es)
    BY <1>1, <1>3 DEF Explains, operation_pins_live_entry
  <1>5. o \in Pinned(ops, es)
    BY <1>4, PinnedIs
  <1> QED
    BY <1>1, <1>5 DEF Retained

LEMMA MemorySettles ==
    ASSUME NEW es \in Entries, NEW ops \in FiniteOperations, NEW rev \in Nat, NEW next \in Nat,
           Bounded(es, ops, rev, next), NEW o, NEW fs, NEW written,
           Takes(o, es, fs, rev, next, written), Recorded(es, ops)
    PROVE  /\ Recorded(fs, Retained(ops \union {o}, fs))
           /\ Bounded(fs, Retained(ops \union {o}, fs), o.store_revision, next + 1)
  <1> DEFINE S == ops \union {o}
  <1>1. /\ S \in FiniteOperations /\ InSequence(S) /\ Bounded(fs, S, o.store_revision, next + 1)
    BY TakesIsLast DEF Recorded
  <1>2. Explained(fs, S)
    <2> SUFFICES ASSUME NEW k \in Keys, fs[k] # NoEntry PROVE \E p \in S : Explains(p, k, fs[k])
      BY DEF Explained
    <2>1. CASE fs[k] = es[k]
      BY <2>1 DEF Recorded, Explained
    <2>2. CASE fs[k] # es[k]
      BY <2>2 DEF Takes, TakesConflict, TakesCommit
    <2> QED
      BY <2>1, <2>2
  <1> HIDE DEF S
  <1>3. Explained(fs, Retained(S, fs))
    BY <1>1, <1>2, RetainedExplains
  <1>4. Retained(S, fs) \subseteq S
    BY RetainedIn
  <1>5. InSequence(Retained(S, fs)) /\ Bounded(fs, Retained(S, fs), o.store_revision, next + 1)
    BY <1>1, <1>4 DEF InSequence, Bounded
  <1> QED
    BY <1>3, <1>5 DEF Recorded, S

LEMMA LoadedBounds ==
    ASSUME NEW d \in DiskType
    PROVE  /\ Bounded(d.entries, d.operations, loaded_revision(d), loaded_sequence(d))
           /\ loaded_revision(d) \in Nat /\ loaded_revision(d) > 0 /\ loaded_sequence(d) \in Nat \ {0}
           /\ d.entries \in Entries /\ d.operations \in FiniteOperations
  <1>1. /\ IsLargest(loaded_revision(d), {1} \union LiveRevisions(d.entries)
                                            \union RevisionsOf(d.operations))
        /\ loaded_sequence(d) \in Nat \ {0}
        /\ IsLargest(loaded_sequence(d) - 1, {0} \union SequencesOf(d.operations))
    BY LoadedIs
  <1>2. loaded_revision(d) \in Nat /\ loaded_revision(d) > 0
    BY <1>1 DEF IsLargest
  <1>3. d.entries \in Entries /\ d.operations \in FiniteOperations
    BY DEF DiskType
  <1>4. \A n \in LiveRevisions(d.entries) : n <= loaded_revision(d)
    BY <1>1 DEF IsLargest
  <1>5. ASSUME NEW p \in d.operations
        PROVE  p.store_revision <= loaded_revision(d) /\ p.settlement_sequence < loaded_sequence(d)
    <2>1. p.store_revision \in RevisionsOf(d.operations)
          /\ p.settlement_sequence \in SequencesOf(d.operations)
      BY DEF RevisionsOf, SequencesOf
    <2>2. p.store_revision <= loaded_revision(d)
      BY <1>1, <2>1 DEF IsLargest
    <2>3. p.settlement_sequence <= loaded_sequence(d) - 1
      BY <1>1, <2>1 DEF IsLargest
    <2>4. p.settlement_sequence \in Nat
      BY <1>3, OperationFacts DEF FiniteOperations
    <2> QED
      BY <1>1, <2>2, <2>3, <2>4
  <1> QED
    BY <1>1, <1>2, <1>3, <1>4, <1>5 DEF Bounded

(* The newest record says what the revision and the sequence are. *)
LEMMA LoadedFromLast ==
    ASSUME NEW d \in DiskType, NEW o \in d.operations, NEW rev \in Nat, NEW next \in Nat,
           o.store_revision = rev, o.settlement_sequence = next,
           Bounded(d.entries, d.operations, rev, next + 1)
    PROVE  loaded_revision(d) = rev /\ loaded_sequence(d) = next + 1
  <1> DEFINE T == {1} \union LiveRevisions(d.entries) \union RevisionsOf(d.operations)
             Q == {0} \union SequencesOf(d.operations)
             a == loaded_revision(d)
             b == loaded_sequence(d)
  <1>1. IsLargest(a, T) /\ b \in Nat \ {0} /\ IsLargest(b - 1, Q)
    BY LoadedIs
  <1>2. rev > 0
    BY OperationFacts DEF DiskType, FiniteOperations
  <1>3. rev \in T /\ next \in Q
    BY DEF RevisionsOf, SequencesOf
  <1>4. \A p \in d.operations : p.settlement_sequence \in Nat
    BY OperationFacts DEF DiskType, FiniteOperations
  <1>5. (\A n \in T : n <= rev) /\ (\A n \in Q : n <= next)
    BY <1>2, <1>4 DEF RevisionsOf, SequencesOf, Bounded
  <1> HIDE DEF T, Q, a, b
  <1>6. a \in T /\ a \in Nat /\ rev <= a /\ b - 1 \in Q /\ b - 1 \in Nat /\ next <= b - 1
    BY <1>1, <1>3 DEF IsLargest
  <1>7. a = rev /\ b = next + 1
    BY <1>1, <1>5, <1>6
  <1> QED
    BY <1>7 DEF a, b

JobFor(job, o, A, fs, written) ==
    /\ job \in JobType /\ job.mutations = written /\ job.operation = o
    /\ job.evicted = {p.operation_id : p \in (A \union {o}) \ Retained(A \union {o}, fs)}
Reaches(e, fs, ops, rev, next) ==
    /\ e.entries = fs /\ Retained(e.operations, fs) = ops
    /\ loaded_revision(e) = rev /\ loaded_sequence(e) = next

LEMMA DiskSettles ==
    ASSUME NEW d \in DiskType, Recorded(d.entries, d.operations), UniqueIds(d.operations),
           NEW o, NEW fs, NEW written,
           Takes(o, d.entries, fs, loaded_revision(d), loaded_sequence(d), written),
           \A p \in Retained(d.operations, d.entries) : p.operation_id # o.operation_id,
           NEW job, JobFor(job, o, Retained(d.operations, d.entries), fs, written)
    PROVE  /\ Reaches(ApplyJob(d, job), fs,
                      Retained(Retained(d.operations, d.entries) \union {o}, fs),
                      o.store_revision, loaded_sequence(d) + 1)
           /\ Recorded(fs, ApplyJob(d, job).operations)
  <1> DEFINE D == d.operations
             es == d.entries
             A == Retained(D, es)
             R == Retained(A \union {o}, fs)
             e == ApplyJob(d, job)
             X == {x \in D \ A : x.operation_id # o.operation_id}
             rev == loaded_revision(d)
             next == loaded_sequence(d)
  <1>1. /\ Bounded(es, D, rev, next) /\ rev \in Nat /\ next \in Nat
        /\ es \in Entries /\ D \in FiniteOperations
    BY LoadedBounds
  <1>2. InSequence(D) /\ Explained(es, D)
    BY DEF Recorded
  <1>3. o \in OperationType /\ fs \in Entries /\ written \in RowsType
        /\ o.settlement_sequence = next /\ o.store_revision \in Nat
    BY OperationFacts DEF Takes
  <1> HIDE DEF rev, next
  <1>4. Takes(o, es, fs, rev, next, written)
    BY DEF rev, next
  <1>5. A \subseteq D
    BY RetainedIn
  <1>6. A \in FiniteOperations /\ InSequence(A) /\ Bounded(es, A, rev, next) /\ Recorded(es, A)
    BY <1>1, <1>2, <1>5, SubsetInSequence, RetainedExplains DEF Bounded, Recorded
  <1> HIDE DEF D, es, A
  <1>7. /\ \A p \in D : Before(p, o)
        /\ D \union {o} \in FiniteOperations /\ InSequence(D \union {o})
        /\ Bounded(fs, D \union {o}, o.store_revision, next + 1)
        /\ \A p \in D : operation_pins_live_entry(p, fs) => operation_pins_live_entry(p, es)
    BY <1>1, <1>2, <1>4, TakesIsLast
  <1>8. o \in R /\ Recorded(fs, R)
    BY <1>1, <1>4, <1>6, TakesIsLast, MemorySettles
  <1>9. R \subseteq A \union {o}
    BY RetainedIn
  <1>10. X \in SUBSET (D \ A)
    OBVIOUS
  <1>11. Retained(R \union X, fs) = R
    <2>1. NewerThan(o, D, es, fs)
      BY <1>7 DEF NewerThan
    <2>2. X \in SUBSET (D \ Retained(D, es))
      BY <1>10 DEF A
    <2> HIDE DEF X
    <2>3. D \in FiniteOperations /\ InSequence(D) /\ o \in OperationType
      BY <1>1, <1>2, <1>3
    <2>4. KeepsBeside(Retained(D, es) \union {o}, X, fs)
      BY <2>1, <2>2, <2>3, SettlingKeepsRetained
    <2> QED
      BY <2>4 DEF A, KeepsBeside
  <1> HIDE DEF R
  <1>12. e.entries = fs
    <2>1. DOMAIN written \subseteq Keys
      BY <1>3, RowsDomain
    <2>2. e.entries = [k \in Keys |-> IF k \in DOMAIN written THEN written[k] ELSE es[k]]
      BY DEF ApplyJob, JobFor, es
    <2>3. \A k \in Keys : (IF k \in DOMAIN written THEN written[k] ELSE es[k]) = fs[k]
      BY <1>4 DEF Takes, TakesConflict, TakesCommit
    <2>4. fs = [k \in Keys |-> fs[k]]
      BY <1>3 DEF Entries
    <2> QED
      BY <2>2, <2>3, <2>4
  <1>13. e.operations = R \union X
    <2>1. e.operations = {x \in {p \in D : p.operation_id # o.operation_id} \union {o} :
                              x.operation_id \notin job.evicted}
      BY DEF ApplyJob, JobFor, D
    <2>2. job.evicted = {p.operation_id : p \in (A \union {o}) \ R}
      BY DEF JobFor, R, A, D, es
    <2>3. \A p \in A : p.operation_id # o.operation_id
      BY DEF A, D, es
    <2>4. \A p, q \in D : p.operation_id = q.operation_id => p = q
      BY DEF UniqueIds, D
    <2> HIDE DEF e
    <2>5. ASSUME NEW x \in R \union X PROVE x \in e.operations
      <3>1. x = o \/ (x \in D /\ x.operation_id # o.operation_id)
        BY <1>5, <1>9, <2>3
      <3>2. ASSUME NEW p \in (A \union {o}) \ R PROVE x.operation_id # p.operation_id
        <4>1. p \in A /\ p \in D
          BY <1>5, <1>8
        <4>2. CASE x = o
          BY <2>3, <4>1, <4>2
        <4>3. CASE x \in D
          BY <2>4, <4>1, <4>3, <1>9
        <4> QED
          BY <3>1, <4>2, <4>3
      <3> QED
        BY <2>1, <2>2, <3>1, <3>2
    <2>6. ASSUME NEW x \in e.operations PROVE x \in R \union X
      <3>1. (x = o \/ (x \in D /\ x.operation_id # o.operation_id)) /\ x.operation_id \notin job.evicted
        BY <2>1
      <3>2. x \in A => x \in R
        BY <2>2, <3>1
      <3> QED
        BY <1>8, <3>1, <3>2
    <2> QED
      BY <2>5, <2>6
  <1>14. e \in DiskType
    BY JobApplies DEF JobFor
  <1>15. R \union X \subseteq D \union {o}
    BY <1>5, <1>9
  <1> HIDE DEF e, X
  <1>16. InSequence(e.operations) /\ Explained(fs, e.operations)
    BY <1>7, <1>8, <1>13, <1>15 DEF InSequence, Recorded, Explained
  <1>17. Bounded(fs, e.operations, o.store_revision, next + 1)
    BY <1>7, <1>13, <1>15 DEF Bounded
  <1>18. loaded_revision(e) = o.store_revision /\ loaded_sequence(e) = next + 1
    BY <1>1, <1>3, <1>8, <1>12, <1>13, <1>14, <1>17, LoadedFromLast
  <1>19. Retained(e.operations, fs) = R
    BY <1>11, <1>13
  <1> QED
    BY <1>12, <1>16, <1>18, <1>19 DEF Reaches, Recorded, e, R, A, D, es, next

-----------------------------------------------------------------------------
(* The stages of the database while jobs are written, and how they go on.  *)

LEMMA StagesBefore ==
    ASSUME NEW d \in DiskType, NEW p \in Seq(JobType), NEW q \in Seq(JobType), NEW i \in 0 .. Len(p)
    PROVE  ApplyEach(d, p \o q)[i] = ApplyEach(d, p)[i]
  <1> DEFINE j == p \o q
             n == Len(p)
             G == ApplyEach(d, j)
             H == ApplyEach(d, p)
  <1>1. j \in Seq(JobType) /\ Len(j) = n + Len(q) /\ n \in Nat /\ Len(q) \in Nat
        /\ \A l \in 1 .. n : j[l] = p[l]
    OBVIOUS
  <1>2. ApplyRuns(d, j, G) /\ ApplyRuns(d, p, H)
    BY <1>1, ApplySteps
  <1> HIDE DEF j, G, H, n
  <1>3. G[0] = H[0]
    BY <1>2 DEF ApplyRuns
  <1>4. StepAlike(n, G, H)
    <2> SUFFICES ASSUME NEW l \in 1 .. n, G[l - 1] = H[l - 1] PROVE G[l] = H[l]
      BY DEF StepAlike
    <2>1. l \in 1 .. Len(j)
      BY <1>1
    <2>2. G[l] = ApplyJob(G[l - 1], j[l])
      BY <1>2, <2>1 DEF ApplyRuns
    <2>3. H[l] = ApplyJob(H[l - 1], p[l])
      BY <1>2 DEF ApplyRuns, n
    <2> QED
      BY <1>1, <2>2, <2>3
  <1>5. Alike(n, G, H)
    BY <1>1, <1>3, <1>4, SameIteration
  <1> QED
    BY <1>5 DEF Alike, G, H, j, n

LEMMA StagesAfter ==
    ASSUME NEW d \in DiskType, NEW p \in Seq(JobType), NEW q \in Seq(JobType), NEW i \in 0 .. Len(q)
    PROVE  ApplyEach(ApplyJobs(d, p), q)[i] = ApplyEach(d, p \o q)[Len(p) + i]
  <1> DEFINE j == p \o q
             m == Len(p)
             n == Len(q)
             c == ApplyJobs(d, p)
             G == ApplyEach(c, q)
             H == ApplyEach(d, j)
             K == [l \in 0 .. n |-> H[m + l]]
  <1>1. j \in Seq(JobType) /\ Len(j) = m + n /\ m \in Nat /\ n \in Nat
        /\ \A l \in 1 .. n : j[m + l] = q[l]
    OBVIOUS
  <1>2. c \in DiskType /\ c = ApplyEach(d, p)[m] /\ H[m] = ApplyEach(d, p)[m]
    <2>1. m \in 0 .. m
      BY <1>1
    <2>2. ApplyRuns(d, p, ApplyEach(d, p))
      BY ApplySteps
    <2>3. H[m] = ApplyEach(d, p)[m]
      BY <2>1, StagesBefore
    <2> QED
      BY <2>1, <2>2, <2>3 DEF ApplyRuns, ApplyJobs
  <1> HIDE DEF c
  <1>3. ApplyRuns(c, q, G) /\ ApplyRuns(d, j, H)
    BY <1>1, <1>2, ApplySteps
  <1> HIDE DEF j, G, H, n, m
  <1>4. G[0] = K[0]
    <2>1. 0 \in 0 .. n /\ m + 0 = m
      BY <1>1
    <2> QED
      BY <1>2, <1>3, <2>1 DEF ApplyRuns
  <1>5. StepAlike(n, G, K)
    <2> SUFFICES ASSUME NEW l \in 1 .. n, G[l - 1] = K[l - 1] PROVE G[l] = K[l]
      BY DEF StepAlike
    <2>1. m + l \in 1 .. Len(j) /\ (m + l) - 1 = m + (l - 1) /\ l - 1 \in 0 .. n /\ l \in 0 .. n
      BY <1>1
    <2>2. G[l] = ApplyJob(G[l - 1], q[l])
      BY <1>3 DEF ApplyRuns, n
    <2>3. H[m + l] = ApplyJob(H[(m + l) - 1], j[m + l])
      BY <1>3, <2>1 DEF ApplyRuns
    <2>4. K[l] = H[m + l] /\ K[l - 1] = H[m + (l - 1)]
      BY <2>1
    <2> QED
      BY <1>1, <2>1, <2>2, <2>3, <2>4
  <1> HIDE DEF K
  <1>6. Alike(n, G, K)
    BY <1>1, <1>4, <1>5, SameIteration
  <1>7. G[i] = K[i]
    BY <1>6 DEF Alike, n
  <1>8. K[i] = H[m + i]
    BY DEF K, n
  <1> QED
    BY <1>7, <1>8 DEF G, H, j, m, c

LEMMA StageType ==
    ASSUME NEW d \in DiskType, NEW p \in Seq(JobType), NEW i \in 0 .. Len(p)
    PROVE  ApplyEach(d, p)[i] \in DiskType
  BY ApplySteps DEF ApplyRuns

LEMMA NoStages ==
    ASSUME NEW d \in DiskType
    PROVE  ApplyEach(d, << >>)[0] = d /\ ApplyJobs(d, << >>) = d
  <1>1. << >> \in Seq(JobType) /\ Len(<< >>) = 0
    OBVIOUS
  <1> QED
    BY <1>1, ApplySteps DEF ApplyRuns, ApplyJobs

(* Every stage is one a start could find, and every job goes on from the   *)
(* stage before it: its revision is the newest, and so is that of the rows *)
(* it writes.                                                              *)
StageOK(d) == Recorded(d.entries, d.operations) /\ UniqueIds(d.operations)
GoesOn(d, j) ==
    /\ loaded_revision(d) <= j.operation.store_revision
    /\ j.operation.ok => loaded_revision(d) < j.operation.store_revision
    /\ loaded_revision(ApplyJob(d, j)) = j.operation.store_revision
    /\ ~j.operation.ok => DOMAIN j.mutations = {}
    /\ \A k \in DOMAIN j.mutations :
        j.mutations[k] = NoEntry \/ j.mutations[k].modification_revision = j.operation.store_revision
StagesOK(d, jobs) ==
    /\ \A i \in 0 .. Len(jobs) : StageOK(ApplyEach(d, jobs)[i])
    /\ \A i \in 1 .. Len(jobs) : GoesOn(ApplyEach(d, jobs)[i - 1], jobs[i])

LEMMA StagesAppended ==
    ASSUME NEW d \in DiskType, NEW jobs \in Seq(JobType), NEW j \in JobType, StagesOK(d, jobs),
           StageOK(ApplyJob(ApplyJobs(d, jobs), j)), GoesOn(ApplyJobs(d, jobs), j)
    PROVE  /\ StagesOK(d, Append(jobs, j))
           /\ ApplyJobs(d, Append(jobs, j)) = ApplyJob(ApplyJobs(d, jobs), j)
  <1> DEFINE n == Len(jobs)
             p == Append(jobs, j)
             G == ApplyEach(d, p)
             H == ApplyEach(d, jobs)
  <1>1. n \in Nat /\ p \in Seq(JobType) /\ Len(p) = n + 1 /\ p[n + 1] = j
        /\ \A i \in 1 .. n : p[i] = jobs[i]
    OBVIOUS
  <1>2. \A i \in 0 .. n : G[i] = H[i]
    <2>1. p = jobs \o <<j>> /\ <<j>> \in Seq(JobType)
      BY AppendIsConcat
    <2> HIDE DEF p
    <2> QED
      BY <2>1, StagesBefore
  <1>3. G[n + 1] = ApplyJob(H[n], j)
    <2>1. ApplyRuns(d, p, G)
      BY <1>1, ApplySteps
    <2> HIDE DEF p, G, H, n
    <2>2. n + 1 \in 1 .. Len(p) /\ (n + 1) - 1 = n /\ n \in 0 .. n
      BY <1>1
    <2>3. G[n + 1] = ApplyJob(G[(n + 1) - 1], p[n + 1])
      BY <2>1, <2>2 DEF ApplyRuns
    <2> QED
      BY <1>1, <1>2, <2>2, <2>3
  <1>4. ApplyJobs(d, jobs) = H[n] /\ ApplyJobs(d, p) = G[n + 1]
    BY <1>1 DEF ApplyJobs
  <1> HIDE DEF p, G, H, n
  <1>5. ASSUME NEW i \in 0 .. n + 1 PROVE StageOK(G[i])
    <2>1. CASE i = n + 1
      BY <1>3, <1>4, <2>1 DEF p
    <2>2. CASE i # n + 1
      <3>1. i \in 0 .. n
        BY <1>1, <2>2
      <3> QED
        BY <1>2, <3>1 DEF StagesOK, H, n
    <2> QED
      BY <2>1, <2>2
  <1>6. ASSUME NEW i \in 1 .. n + 1 PROVE GoesOn(G[i - 1], p[i])
    <2>1. CASE i = n + 1
      <3>1. i - 1 = n /\ n \in 0 .. n
        BY <1>1, <2>1
      <3> QED
        BY <1>1, <1>2, <1>4, <2>1, <3>1
    <2>2. CASE i # n + 1
      <3>1. i \in 1 .. n /\ i - 1 \in 0 .. n
        BY <1>1, <2>2
      <3> QED
        BY <1>1, <1>2, <3>1 DEF StagesOK, H, n
    <2> QED
      BY <2>1, <2>2
  <1> QED
    BY <1>1, <1>3, <1>4, <1>5, <1>6 DEF StagesOK, G, p

LEMMA StagesCommitted ==
    ASSUME NEW d \in DiskType, NEW p \in Seq(JobType), NEW q \in Seq(JobType), StagesOK(d, p \o q)
    PROVE  /\ StagesOK(ApplyJobs(d, p), q) /\ StageOK(ApplyJobs(d, p)) /\ StagesOK(d, p)
           /\ ApplyJobs(ApplyJobs(d, p), q) = ApplyJobs(d, p \o q)
  <1> DEFINE j == p \o q
             m == Len(p)
             n == Len(q)
             c == ApplyJobs(d, p)
             G == ApplyEach(c, q)
             H == ApplyEach(d, j)
             F == ApplyEach(d, p)
  <1>1. j \in Seq(JobType) /\ Len(j) = m + n /\ m \in Nat /\ n \in Nat
        /\ (\A l \in 1 .. n : j[m + l] = q[l]) /\ \A l \in 1 .. m : j[l] = p[l]
    OBVIOUS
  <1>2. (\A i \in 0 .. n : G[i] = H[m + i]) /\ \A i \in 0 .. m : H[i] = F[i]
    BY StagesBefore, StagesAfter
  <1>3. ApplyJobs(c, q) = G[n] /\ ApplyJobs(d, j) = H[m + n] /\ c = F[m]
    BY <1>1 DEF ApplyJobs
  <1>4. /\ \A i \in 0 .. m + n : StageOK(H[i])
        /\ \A i \in 1 .. m + n : GoesOn(H[i - 1], j[i])
    BY <1>1 DEF StagesOK
  <1> HIDE DEF j, m, n, c, G, H, F
  <1>5. ASSUME NEW i \in 0 .. n PROVE StageOK(G[i])
    <2>1. m + i \in 0 .. m + n
      BY <1>1
    <2> QED
      BY <1>2, <1>4, <2>1
  <1>6. ASSUME NEW i \in 1 .. n PROVE GoesOn(G[i - 1], q[i])
    <2>1. m + i \in 1 .. m + n /\ (m + i) - 1 = m + (i - 1) /\ i - 1 \in 0 .. n
      BY <1>1
    <2> QED
      BY <1>1, <1>2, <1>4, <2>1
  <1>7. ASSUME NEW i \in 0 .. m PROVE StageOK(F[i])
    <2>1. i \in 0 .. m + n
      BY <1>1
    <2> QED
      BY <1>2, <1>4, <2>1
  <1>8. ASSUME NEW i \in 1 .. m PROVE GoesOn(F[i - 1], p[i])
    <2>1. i \in 1 .. m + n /\ i - 1 \in 0 .. m
      BY <1>1
    <2> QED
      BY <1>1, <1>2, <1>4, <2>1
  <1>9. StagesOK(c, q) /\ StagesOK(d, p)
    BY <1>5, <1>6, <1>7, <1>8 DEF StagesOK, G, F, n, m
  <1>10. StageOK(c)
    BY <1>1, <1>3, <1>7
  <1>11. ApplyJobs(c, q) = ApplyJobs(d, j)
    BY <1>1, <1>2, <1>3
  <1> QED
    BY <1>9, <1>10, <1>11 DEF c, j

LEMMA StagesOfNone ==
    ASSUME NEW d \in DiskType, StageOK(d)
    PROVE  StagesOK(d, << >>)
  <1>1. ApplyEach(d, << >>)[0] = d
    BY NoStages
  <1>2. Len(<< >>) = 0 /\ 0 .. 0 = {0} /\ 1 .. 0 = {}
    OBVIOUS
  <1> QED
    BY <1>1, <1>2 DEF StagesOK

-----------------------------------------------------------------------------
(* The store and what its writer still has to write. *)

LEMMA ConflictTakes ==
    ASSUME StoreTyped, NEW r \in Requests
    PROVE  Takes(OutcomeOf(r, revision, FALSE), entries, entries, revision,
                 next_operation_sequence, << >>)
  <1> DEFINE o == OutcomeOf(r, revision, FALSE)
  <1>1. revision \in Nat \ {0} /\ entries \in Entries
    BY DEF StoreTyped
  <1>2. o \in OperationType
    BY <1>1, OutcomeType
  <1>3. o.ok = FALSE /\ o.store_revision = revision
        /\ o.settlement_sequence = next_operation_sequence
    BY DEF OutcomeOf
  <1>4. DOMAIN << >> = {}
    OBVIOUS
  <1> HIDE DEF o
  <1> QED
    BY <1>1, <1>2, <1>3, <1>4, NoRows DEF Takes, TakesConflict, o

LEMMA CommitTakes ==
    ASSUME StoreTyped, NEW r \in Requests
    PROVE  Takes(OutcomeOf(r, revision + 1, TRUE), entries, NewEntries(r), revision,
                 next_operation_sequence, NewRows(r))
  <1> DEFINE o == OutcomeOf(r, revision + 1, TRUE)
             m == r.mutations
             n == Len(m)
             fs == NewEntries(r)
             rev == revision + 1
  <1>1. rev \in Nat \ {0} /\ entries \in Entries
    BY DEF StoreTyped
  <1>2. o \in OperationType
    BY <1>1, OutcomeType
  <1>3. o.ok = TRUE /\ o.store_revision = rev /\ o.fingerprint.mutations = m
        /\ o.settlement_sequence = next_operation_sequence
    BY DEF OutcomeOf, fingerprint
  <1>4. fs \in Entries /\ NewRows(r) \in RowsType
    BY NewEntriesType
  <1>5. DOMAIN NewRows(r) = Written(r) /\ \A k \in Written(r) : NewRows(r)[k] = fs[k]
    BY DEF NewRows
  <1>6. \A k \in Keys : k \notin Written(r) => fs[k] = entries[k]
    BY Untouched
  <1>7. Decided(m, n, entries, rev, fs)
    BY WorkingIs DEF NewEntries, StoreTyped
  <1>8. DOMAIN m = 1 .. n /\ Written(r) \in SUBSET Keys
    BY RequestFacts
  <1>9. Written(r) = {m[i].key : i \in 1 .. n}
    BY <1>8 DEF Written
  <1> HIDE DEF o, m, n, fs, rev
  <1>10. ASSUME NEW k \in Written(r) PROVE fs[k] = NoEntry \/ Explains(o, k, fs[k])
    <2>1. k \in Keys /\ \E i \in 1 .. n : m[i].key = k
      BY <1>8, <1>9
    <2>2. PICK j \in 1 .. n : LastOf(m, n, k, j) /\ fs[k] = RowOf(m[j], rev)
      BY <1>7, <2>1 DEF Decided
    <2>3. m[j].key = k
      BY <2>2 DEF LastOf
    <2>4. CASE m[j].kind = "Put"
      <3>1. fs[k] = [value |-> m[j].value, modification_revision |-> rev]
        BY <2>2, <2>4 DEF RowOf
      <3>2. fs[k].value = m[j].value /\ fs[k].modification_revision = rev
        BY <3>1
      <3> QED
        BY <1>3, <1>8, <2>3, <3>2 DEF Explains
    <2>5. CASE m[j].kind # "Put"
      BY <2>2, <2>5 DEF RowOf
    <2> QED
      BY <2>4, <2>5
  <1>11. TakesCommit(o, entries, fs, revision, NewRows(r))
    BY <1>3, <1>5, <1>6, <1>10 DEF TakesCommit, rev
  <1> QED
    BY <1>2, <1>3, <1>4, <1>11 DEF Takes, o, fs, rev

LEMMA JobKeepsIds ==
    ASSUME NEW d, NEW j, UniqueIds(d.operations)
    PROVE  UniqueIds(ApplyJob(d, j).operations)
  BY DEF UniqueIds, ApplyJob

LEMMA JobsKeepIds ==
    ASSUME NEW d \in DiskType, NEW jobs \in Seq(JobType), UniqueIds(d.operations)
    PROVE  UniqueIds(ApplyJobs(d, jobs).operations)
  <1> DEFINE n == Len(jobs)
             D == ApplyEach(d, jobs)
             S == {e \in DiskType : UniqueIds(e.operations)}
  <1>1. n \in Nat /\ ApplyRuns(d, jobs, D)
    BY ApplySteps
  <1> HIDE DEF D
  <1>2. ASSUME NEW i \in 1 .. n, D[i - 1] \in S PROVE D[i] \in S
    <2>1. D[i] \in DiskType /\ D[i] = ApplyJob(D[i - 1], jobs[i])
      BY <1>1 DEF ApplyRuns
    <2> QED
      BY <1>2, <2>1, JobKeepsIds
  <1>3. D[0] \in S
    BY <1>1 DEF ApplyRuns
  <1>4. \A i \in 0 .. n : D[i] \in S
    <2> HIDE DEF n, S
    <2> QED
      BY <1>1, <1>2, <1>3, IterationIn
  <1>5. D[n] \in S
    BY <1>1, <1>4
  <1> QED
    BY <1>5 DEF ApplyJobs, D

(* A start finds the same revision and sequence whether or not it prunes.  *)
LEMMA PruningKeepsLoaded ==
    ASSUME NEW d \in DiskType, Recorded(d.entries, d.operations), NEW e \in DiskType,
           e.entries = d.entries, e.operations \subseteq d.operations,
           Recent(d.operations) \subseteq e.operations
    PROVE  loaded_revision(e) = loaded_revision(d) /\ loaded_sequence(e) = loaded_sequence(d)
  <1> DEFINE D == d.operations
             es == d.entries
             Q == SequencesOf(D)
  <1>1. D \in FiniteOperations /\ es \in Entries /\ InSequence(D) /\ Explained(es, D)
    BY DEF DiskType, Recorded
  <1>2. CASE D = {}
    BY <1>2 DEF loaded_revision, loaded_sequence
  <1>3. CASE D # {}
    <2>1. Q \in SUBSET (Nat \ {0}) /\ IsFiniteSet(Q)
      BY <1>1, RecordsFinite
    <2>2. Q # {}
      BY <1>3 DEF SequencesOf
    <2>3. PICK n \in Q : \A i \in Q : i <= n
      <3> HIDE DEF Q
      <3>1. Q \in SUBSET Nat
        BY <2>1
      <3> QED
        BY <2>1, <2>2, <3>1, FiniteMax
    <2>4. PICK o \in D : o.settlement_sequence = n
      BY DEF SequencesOf
    <2>5. \A p \in D : p \in OperationType /\ p.settlement_sequence \in Nat /\ p.store_revision \in Nat
                       /\ p.settlement_sequence <= n
      BY <1>1, <2>3, OperationFacts DEF FiniteOperations, SequencesOf
    <2> DEFINE rev == o.store_revision
    <2>6. n \in Nat /\ rev \in Nat
      BY <2>4, <2>5
    <2>7. \A p \in D : p.store_revision <= rev
      <3> SUFFICES ASSUME NEW p \in D PROVE p.store_revision <= rev
        OBVIOUS
      <3>1. p = o \/ Before(p, o) \/ Before(o, p)
        BY <1>1 DEF InSequence
      <3>2. ~Before(o, p)
        BY <2>4, <2>5, <2>6 DEF Before
      <3> QED
        BY <2>5, <3>1, <3>2 DEF Before
    <2>8. \A i \in LiveRevisions(es) : i <= rev
      <3> SUFFICES ASSUME NEW i \in LiveRevisions(es) PROVE i <= rev
        OBVIOUS
      <3>1. PICK k \in Keys : es[k].modification_revision = i /\ i # 0
        BY DEF LiveRevisions
      <3>2. es[k] # NoEntry
        BY <3>1 DEF NoEntry
      <3>3. \E p \in D : p.store_revision = i
        BY <1>1, <3>1, <3>2 DEF Explained, Explains
      <3> QED
        BY <2>7, <3>3
    <2>9. Bounded(es, D, rev, n + 1)
      BY <2>5, <2>6, <2>7, <2>8 DEF Bounded
    <2>10. o \in Recent(D)
      <3>1. Later(D, o) = {}
        BY <2>4, <2>5, <2>6 DEF Later
      <3>2. Cardinality({}) = 0 /\ MaxRecentReplays \in Nat /\ 0 < MaxRecentReplays
        BY FS_EmptySet, KvAssumption
      <3> QED
        BY <3>1, <3>2, RecentIs
    <2>11. o \in e.operations /\ Bounded(e.entries, e.operations, rev, n + 1)
      BY <2>9, <2>10 DEF Bounded
    <2>12. loaded_revision(d) = rev /\ loaded_sequence(d) = n + 1
      BY <2>4, <2>6, <2>9, LoadedFromLast
    <2>13. loaded_revision(e) = rev /\ loaded_sequence(e) = n + 1
      BY <2>4, <2>6, <2>11, LoadedFromLast
    <2> QED
      BY <2>12, <2>13
  <1> QED
    BY <1>2, <1>3

(* What holds between the rows and the records in memory, on disk, and in  *)
(* between.                                                                *)
Pending == batch \o queue
Active == writer_thread \in {"receiving", "committing"}
IdsUnique == UniqueIds(operations) /\ UniqueIds(disk.operations)
ThreadHasSender == writer_thread # "exited" => writer
MemoryRecorded ==
    /\ Recorded(entries, operations)
    /\ Bounded(entries, operations, revision, next_operation_sequence)
DiskRecorded == Recorded(disk.entries, disk.operations)
Behind ==
    /\ StagesOK(disk, Pending)
    /\ Reaches(ApplyJobs(disk, Pending), entries, operations, revision, next_operation_sequence)
Traced ==
    /\ IdsUnique /\ ThreadHasSender
    /\ ~replays_lost => MemoryRecorded /\ DiskRecorded /\ (Active => Behind)

LEMMA PendingType ==
    ASSUME QueueTyped
    PROVE  Pending \in Seq(JobType)
  BY DEF QueueTyped, Pending

LEMMA LastStage ==
    ASSUME NEW d \in DiskType, NEW jobs \in Seq(JobType), StagesOK(d, jobs)
    PROVE  StageOK(ApplyJobs(d, jobs)) /\ ApplyJobs(d, jobs) \in DiskType
  <1>1. Len(jobs) \in 0 .. Len(jobs)
    BY LenProperties
  <1> QED
    BY <1>1, StageType DEF StagesOK, ApplyJobs

(* An operation is settled and queued. *)
LEMMA BehindSettles ==
    ASSUME KvTyped, Behind, NEW s, NEW r, NEW o, NEW fs, NEW rev, NEW written,
           Settled(s, r, o, fs, rev, written), UNCHANGED <<batch, disk>>, Queued,
           Takes(o, entries, fs, revision, next_operation_sequence, written),
           rev = o.store_revision, JobOf(o, fs, written) \in JobType,
           \A p \in operations : p.operation_id # o.operation_id
    PROVE  Behind'
  <1> DEFINE d == ApplyJobs(disk, Pending)
             j == JobOf(o, fs, written)
             e == ApplyJob(d, j)
             next == next_operation_sequence
  <1>1. disk \in DiskType /\ Pending \in Seq(JobType) /\ batch \in Seq(JobType)
        /\ queue \in Seq(JobType)
    BY PendingType DEF KvTyped, DiskTyped, QueueTyped
  <1>2. StagesOK(disk, Pending) /\ StageOK(d) /\ d \in DiskType
    BY <1>1, LastStage DEF Behind
  <1>3. d.entries = entries /\ Retained(d.operations, d.entries) = operations
        /\ loaded_revision(d) = revision /\ loaded_sequence(d) = next
    BY DEF Behind, Reaches
  <1>4. JobFor(j, o, operations, fs, written) /\ j.operation = o /\ j.mutations = written
    BY DEF JobFor, JobOf, EvictedBy, OperationsWith
  <1> HIDE DEF d, j
  <1>5. Recorded(d.entries, d.operations) /\ UniqueIds(d.operations)
    BY <1>2 DEF StageOK
  <1>6. /\ Takes(o, d.entries, fs, loaded_revision(d), loaded_sequence(d), written)
        /\ \A p \in Retained(d.operations, d.entries) : p.operation_id # o.operation_id
        /\ JobFor(j, o, Retained(d.operations, d.entries), fs, written)
    BY <1>3, <1>4
  <1>7. /\ Reaches(e, fs, Retained(Retained(d.operations, d.entries) \union {o}, fs),
                   o.store_revision, loaded_sequence(d) + 1)
        /\ Recorded(fs, e.operations)
    BY <1>2, <1>5, <1>6, DiskSettles
  <1>8. Reaches(e, fs, Retained(operations \union {o}, fs), rev, next + 1)
    BY <1>3, <1>7
  <1>9. e.entries = fs /\ loaded_revision(e) = rev
    BY <1>8 DEF Reaches
  <1>10. StageOK(e)
    BY <1>5, <1>7, <1>9, JobKeepsIds DEF StageOK
  <1>11. GoesOn(d, j)
    <2>1. revision \in Nat
      BY DEF KvTyped, StoreTyped
    <2>2. /\ revision <= o.store_revision /\ (o.ok => revision < o.store_revision)
          /\ ~o.ok => DOMAIN written = {}
      BY <2>1 DEF Takes, TakesConflict, TakesCommit
    <2>3. ASSUME NEW k \in DOMAIN written
          PROVE  written[k] = NoEntry \/ written[k].modification_revision = o.store_revision
      BY <2>3 DEF Takes, TakesConflict, TakesCommit, Explains
    <2> QED
      BY <1>3, <1>4, <1>9, <2>2, <2>3 DEF GoesOn
  <1>12. StagesOK(disk, Append(Pending, j)) /\ ApplyJobs(disk, Append(Pending, j)) = e
    <2>1. j \in JobType
      BY DEF j
    <2> QED
      BY <1>1, <1>2, <1>10, <1>11, <2>1, StagesAppended DEF d
  <1>13. Pending' = Append(Pending, j)
    <2>1. batch' = batch /\ queue' = Append(queue, j)
      BY DEF Settled, j
    <2>2. j \in JobType
      BY DEF j
    <2>3. batch \o Append(queue, j) = Append(batch \o queue, j)
      BY <1>1, <2>2
    <2> QED
      BY <2>1, <2>3 DEF Pending
  <1>14. disk' = disk /\ entries' = fs /\ operations' = Retained(operations \union {o}, fs)
         /\ revision' = rev /\ next_operation_sequence' = next + 1
    BY DEF Settled, OperationsWith
  <1> QED
    BY <1>8, <1>12, <1>13, <1>14 DEF Behind

LEMMA SettleTraces ==
    ASSUME KvTyped, Traced, NEW s \in Callers, NEW r \in Requests, NEW o, NEW fs, NEW rev \in Nat \ {0},
           NEW written, Settled(s, r, o, fs, rev, written),
           UNCHANGED <<batch, writer_thread, disk, observed>>,
           Takes(o, entries, fs, revision, next_operation_sequence, written),
           rev = o.store_revision, \A p \in operations : p.operation_id # o.operation_id
    PROVE  Traced'
  <1>1. o \in OperationType /\ fs \in Entries /\ written \in RowsType
    BY DEF Takes
  <1>2. JobOf(o, fs, written) \in JobType
    BY <1>1, SettleTypes
  <1>3. /\ entries \in Entries /\ operations \in FiniteOperations /\ revision \in Nat
        /\ next_operation_sequence \in Nat
    BY DEF KvTyped, StoreTyped
  <1>4. operations' = Retained(operations \union {o}, fs) /\ entries' = fs /\ revision' = rev
        /\ next_operation_sequence' = next_operation_sequence + 1 /\ disk' = disk
        /\ writer' = Queued /\ writer_thread' = writer_thread /\ replays_lost' = replays_lost
    BY DEF Settled, OperationsWith, observed
  <1>5. IdsUnique'
    <2>1. operations' \subseteq operations \union {o}
      BY <1>4, RetainedIn
    <2> QED
      BY <1>4, <2>1 DEF Traced, IdsUnique, UniqueIds
  <1>6. ThreadHasSender'
    BY <1>4 DEF Traced, ThreadHasSender, Queued
  <1>7. ASSUME ~replays_lost' PROVE MemoryRecorded' /\ DiskRecorded'
    <2>1. MemoryRecorded /\ DiskRecorded
      BY <1>4, <1>7 DEF Traced
    <2>2. Recorded(entries, operations) /\ Bounded(entries, operations, revision, next_operation_sequence)
      BY <2>1 DEF MemoryRecorded
    <2>3. /\ Recorded(fs, Retained(operations \union {o}, fs))
          /\ Bounded(fs, Retained(operations \union {o}, fs), o.store_revision,
                     next_operation_sequence + 1)
      BY <1>3, <2>2, MemorySettles
    <2> QED
      BY <1>4, <2>1, <2>3 DEF MemoryRecorded, DiskRecorded
  <1>8. ASSUME ~replays_lost', Active' PROVE Behind'
    <2>1. Behind
      BY <1>4, <1>8 DEF Traced, Active
    <2>2. Queued
      BY <1>4, <1>8 DEF Traced, ThreadHasSender, Active, Queued
    <2> QED
      BY <1>2, <2>1, <2>2, BehindSettles
  <1> QED
    BY <1>5, <1>6, <1>7, <1>8 DEF Traced

LEMMA SameTraces ==
    ASSUME Traced, UNCHANGED <<store, persistence, replays_lost>>
    PROVE  Traced'
  BY DEF Traced, IdsUnique, ThreadHasSender, MemoryRecorded, DiskRecorded, Active, Behind, Pending,
         store, persistence

LEMMA MutateTraces ==
    ASSUME KvTyped, Traced, NEW s \in Callers, NEW r \in Requests, native_mutate(s, r)
    PROVE  Traced'
  <1>1. Unseen(r) /\ UNCHANGED <<batch, writer_thread, disk, observed>>
    BY MutateIs
  <1>2. revision \in Nat \ {0} /\ revision + 1 \in Nat \ {0} /\ StoreTyped
    BY DEF KvTyped, StoreTyped
  <1>3. ASSUME NEW rev, NEW ok
        PROVE  /\ OutcomeOf(r, rev, ok).store_revision = rev
               /\ \A p \in operations : p.operation_id # OutcomeOf(r, rev, ok).operation_id
    BY <1>1 DEF OutcomeOf, Unseen
  <1>4. CASE Refuses(s)
    BY <1>1, <1>4, SameTraces DEF Refuses, persistence, observed
  <1>5. CASE SettlesConflict(s, r)
    <2> DEFINE o == OutcomeOf(r, revision, FALSE)
    <2>1. Settled(s, r, o, entries, revision, << >>)
      BY <1>5 DEF SettlesConflict
    <2>2. Takes(o, entries, entries, revision, next_operation_sequence, << >>)
      BY <1>2, ConflictTakes
    <2>3. revision = o.store_revision /\ \A p \in operations : p.operation_id # o.operation_id
      BY <1>3
    <2> HIDE DEF o
    <2> QED
      BY <1>1, <1>2, <2>1, <2>2, <2>3, SettleTraces
  <1>6. CASE SettlesCommit(s, r)
    <2> DEFINE o == OutcomeOf(r, revision + 1, TRUE)
    <2>1. Settled(s, r, o, NewEntries(r), revision + 1, NewRows(r))
      BY <1>6 DEF SettlesCommit
    <2>2. Takes(o, entries, NewEntries(r), revision, next_operation_sequence, NewRows(r))
      BY <1>2, CommitTakes
    <2>3. revision + 1 = o.store_revision /\ \A p \in operations : p.operation_id # o.operation_id
      BY <1>3
    <2> HIDE DEF o
    <2> QED
      BY <1>1, <1>2, <2>1, <2>2, <2>3, SettleTraces
  <1> QED
    BY <1>4, <1>5, <1>6, MutateIs

(* The writer takes jobs over, writes them or gives up: what is pending    *)
(* moves from one place to the next.                                       *)
LEMMA WriterTraces ==
    ASSUME KvTyped, WriterQueues, Traced,
           writer_receive \/ writer_commit \/ writer_fail \/ writer_exit
    PROVE  Traced'
  <1>1. disk \in DiskType /\ batch \in Seq(JobType) /\ queue \in Seq(JobType)
    BY DEF KvTyped, DiskTyped, QueueTyped
  <1>2. UNCHANGED <<store, replays_lost>>
    BY DEF writer_receive, writer_commit, writer_fail, writer_exit, observed
  <1>3. MemoryRecorded => MemoryRecorded'
    BY <1>2 DEF MemoryRecorded, store
  <1>4. queue \o << >> = queue /\ << >> \o queue = queue
    BY <1>1, ConcatEmptySeq
  <1>5. CASE writer_receive
    <2>1. Pending' = Pending /\ disk' = disk
      BY <1>4, <1>5 DEF writer_receive, WriterQueues, Pending
    <2>2. Active /\ writer_thread # "exited"
      BY <1>5 DEF writer_receive, Active
    <2> QED
      BY <1>2, <1>3, <2>1, <2>2
         DEF Traced, IdsUnique, ThreadHasSender, DiskRecorded, Behind, store
  <1>6. CASE writer_commit
    <2>1. disk' = ApplyJobs(disk, batch) /\ Pending' = queue /\ Active
          /\ writer_thread # "exited"
      BY <1>4, <1>6 DEF writer_commit, Pending, Active
    <2>2. IdsUnique'
      BY <1>1, <1>2, <2>1, JobsKeepIds DEF Traced, IdsUnique, store
    <2>3. ThreadHasSender'
      BY <1>2, <2>1 DEF Traced, ThreadHasSender, store
    <2>4. ASSUME ~replays_lost PROVE MemoryRecorded' /\ DiskRecorded' /\ Behind'
      <3>1. MemoryRecorded /\ StagesOK(disk, batch \o queue)
            /\ Reaches(ApplyJobs(disk, batch \o queue), entries, operations, revision,
                       next_operation_sequence)
        BY <2>1, <2>4 DEF Traced, Behind, Pending
      <3>2. /\ StagesOK(ApplyJobs(disk, batch), queue) /\ StageOK(ApplyJobs(disk, batch))
            /\ ApplyJobs(ApplyJobs(disk, batch), queue) = ApplyJobs(disk, batch \o queue)
        BY <1>1, <3>1, StagesCommitted
      <3>3. Behind'
        BY <1>2, <2>1, <3>1, <3>2 DEF Behind, store
      <3>4. DiskRecorded'
        BY <2>1, <3>2 DEF DiskRecorded, StageOK
      <3> QED
        BY <1>3, <3>1, <3>3, <3>4
    <2> QED
      BY <1>2, <2>2, <2>3, <2>4 DEF Traced
  <1>7. CASE writer_fail \/ writer_exit
    <2>1. disk' = disk /\ writer_thread' \in {"draining", "exited"} /\ writer_thread # "exited"
      BY <1>7 DEF writer_fail, writer_exit
    <2> QED
      BY <1>2, <1>3, <2>1 DEF Traced, IdsUnique, ThreadHasSender, DiskRecorded, Active, store
  <1> QED
    BY <1>5, <1>6, <1>7

(* A start that can read the replay records. *)
LEMMA LoadTraces ==
    ASSUME KvTyped, IdsUnique, NEW left \in SUBSET (disk.operations \ Retained(disk.operations, disk.entries)),
           load(Retained(disk.operations, disk.entries), loaded_revision(disk), loaded_sequence(disk)),
           disk' = [disk EXCEPT !.operations = Retained(disk.operations, disk.entries) \union left],
           disk' \in DiskType, Pending' = << >>
    PROVE  /\ IdsUnique' /\ ThreadHasSender'
           /\ DiskRecorded => MemoryRecorded' /\ DiskRecorded' /\ Behind'
  <1> DEFINE D == disk.operations
             es == disk.entries
             kept == Retained(D, es)
             rev == loaded_revision(disk)
             next == loaded_sequence(disk)
  <1>1. disk \in DiskType /\ D \in FiniteOperations /\ es \in Entries
    BY DEF KvTyped, DiskTyped, DiskType
  <1>2. entries' = es /\ operations' = kept /\ revision' = rev /\ next_operation_sequence' = next
        /\ (writer_thread' # "exited" => writer')
    BY DEF load
  <1>3. disk'.entries = es /\ disk'.operations = kept \union left
    BY <1>1 DEF DiskType
  <1>4. kept \subseteq D /\ left \subseteq D /\ Recent(D) \subseteq kept
    BY RetainedIn DEF Retained
  <1>5. Bounded(es, D, rev, next)
    BY <1>1, LoadedBounds
  <1> HIDE DEF kept, D, es, rev, next
  <1>6. IdsUnique' /\ ThreadHasSender'
    BY <1>2, <1>3, <1>4 DEF IdsUnique, ThreadHasSender, UniqueIds, D
  <1>7. ASSUME DiskRecorded PROVE MemoryRecorded' /\ DiskRecorded' /\ Behind'
    <2>1. InSequence(D) /\ Explained(es, D) /\ Recorded(es, D)
      BY <1>7 DEF DiskRecorded, Recorded, D, es
    <2>2. Explained(es, kept)
      BY <1>1, <2>1, RetainedExplains DEF kept
    <2>3. InSequence(kept) /\ InSequence(kept \union left) /\ Explained(es, kept \union left)
          /\ Bounded(es, kept, rev, next)
      BY <1>4, <1>5, <2>1, <2>2 DEF InSequence, Explained, Bounded
    <2>4. MemoryRecorded'
      BY <1>2, <2>2, <2>3 DEF MemoryRecorded, Recorded
    <2>5. DiskRecorded'
      BY <1>3, <2>3 DEF DiskRecorded, Recorded
    <2>6. Retained(kept \union left, es) = kept
      <3>1. left \in SUBSET (D \ Retained(D, es))
        BY DEF D, es
      <3> QED
        BY <1>1, <2>1, <3>1, PruningMayFail DEF kept
    <2>7. loaded_revision(disk') = rev /\ loaded_sequence(disk') = next
      <3>1. Recorded(disk.entries, disk.operations)
        BY <2>1 DEF D, es
      <3>2. disk'.entries = disk.entries /\ disk'.operations \subseteq disk.operations
            /\ Recent(disk.operations) \subseteq disk'.operations
        BY <1>3, <1>4 DEF D, es
      <3> DEFINE e == disk'
      <3>3. e \in DiskType /\ e.entries = disk.entries /\ e.operations \subseteq disk.operations
            /\ Recent(disk.operations) \subseteq e.operations
        BY <3>2
      <3> HIDE DEF e
      <3>4. loaded_revision(e) = loaded_revision(disk) /\ loaded_sequence(e) = loaded_sequence(disk)
        BY <1>1, <3>1, <3>3, PruningKeepsLoaded
      <3> QED
        BY <3>4 DEF e, rev, next
    <2>8. StageOK(disk')
      BY <1>6, <2>5 DEF StageOK, DiskRecorded, IdsUnique
    <2>9. StagesOK(disk', << >>) /\ ApplyJobs(disk', << >>) = disk'
      BY <2>8, StagesOfNone, NoStages
    <2>10. Reaches(disk', es, kept, rev, next)
      BY <1>3, <2>6, <2>7 DEF Reaches
    <2>11. Behind'
      BY <1>2, <2>9, <2>10 DEF Behind
    <2> QED
      BY <2>4, <2>5, <2>11
  <1> QED
    BY <1>6, <1>7

LEMMA EmptyRecorded ==
    /\ Recorded(EmptyStore, {}) /\ Bounded(EmptyStore, {}, 1, 1) /\ UniqueIds({})
    /\ LiveRevisions(EmptyStore) = {}
  <1>1. \A k \in Keys : EmptyStore[k] = NoEntry
    BY DEF EmptyStore
  <1>2. LiveRevisions(EmptyStore) = {}
    BY <1>1 DEF LiveRevisions, NoEntry
  <1> QED
    BY <1>1, <1>2 DEF Recorded, InSequence, Explained, Bounded, UniqueIds

LEMMA RestartTraces ==
    ASSUME KvTyped, KvTyped', Traced, Restart
    PROVE  Traced'
  <1>1. Pending' = << >>
    <2>1. << >> \o << >> = << >>
      BY ConcatEmptySeq
    <2> QED
      BY <2>1 DEF Restart, Pending
  <1>2. disk' \in DiskType /\ IdsUnique
    BY DEF KvTyped, DiskTyped, Traced
  <1> DEFINE kept == Retained(disk.operations, disk.entries)
             A == /\ load(kept, loaded_revision(disk), loaded_sequence(disk))
                  /\ \E left \in SUBSET (disk.operations \ kept) :
                        disk' = [disk EXCEPT !.operations = kept \union left]
                  /\ UNCHANGED replays_lost
             B == /\ load({}, LargestOf({1} \union LiveRevisions(disk.entries)), 1)
                  /\ replays_lost' = TRUE /\ UNCHANGED disk
             C == /\ entries' = EmptyStore /\ operations' = {} /\ revision' = 1
                  /\ next_operation_sequence' = 1 /\ writer' = FALSE /\ writer_thread' = "exited"
                  /\ UNCHANGED <<disk, replays_lost>>
  <1>3. A \/ B \/ C
    BY DEF Restart
  <1>4. CASE A
    <2>1. PICK left \in SUBSET (disk.operations \ kept) :
             disk' = [disk EXCEPT !.operations = kept \union left]
      BY <1>4
    <2>2. /\ IdsUnique' /\ ThreadHasSender'
          /\ DiskRecorded => MemoryRecorded' /\ DiskRecorded' /\ Behind'
      BY <1>1, <1>2, <1>4, <2>1, LoadTraces
    <2> QED
      BY <1>4, <2>2 DEF Traced
  <1>5. CASE B
    <2>1. operations' = {} /\ (writer_thread' # "exited" => writer') /\ disk' = disk
          /\ replays_lost'
      BY <1>5 DEF load
    <2> QED
      BY <1>2, <2>1, EmptyRecorded DEF Traced, IdsUnique, ThreadHasSender
  <1>6. CASE C
    BY <1>2, <1>6, EmptyRecorded
       DEF Traced, IdsUnique, ThreadHasSender, MemoryRecorded, DiskRecorded, Active
  <1> QED
    BY <1>3, <1>4, <1>5, <1>6

LEMMA InitTraced == KvInit => Traced
  <1> SUFFICES ASSUME KvInit PROVE Traced
    OBVIOUS
  <1>1. KvTyped
    BY InitTyped
  <1>2. disk \in DiskType /\ disk.entries = EmptyStore /\ disk.operations = {}
    BY <1>1 DEF KvTyped, DiskTyped, KvInit
  <1>3. entries = EmptyStore /\ operations = {} /\ revision = 1 /\ next_operation_sequence = 1
        /\ writer /\ Pending = << >>
    <2>1. << >> \o << >> = << >>
      BY ConcatEmptySeq
    <2> QED
      BY <2>1 DEF KvInit, Pending
  <1>4. IdsUnique /\ ThreadHasSender /\ MemoryRecorded /\ DiskRecorded
    BY <1>2, <1>3, EmptyRecorded DEF IdsUnique, ThreadHasSender, MemoryRecorded, DiskRecorded
  <1>5. StagesOK(disk, << >>) /\ ApplyJobs(disk, << >>) = disk
    BY <1>2, <1>4, StagesOfNone, NoStages DEF StageOK, IdsUnique, DiskRecorded
  <1>6. Retained({}, EmptyStore) = {}
    BY RetainedIn
  <1>7. loaded_revision(disk) = 1 /\ loaded_sequence(disk) = 1
    <2>1. loaded_revision(disk) = LargestOf({1}) /\ loaded_sequence(disk) = LargestOf({0}) + 1
      BY <1>2, EmptyRecorded DEF loaded_revision, loaded_sequence
    <2>2. LargestOf({1}) = 1 /\ LargestOf({0}) = 0
      BY DEF LargestOf
    <2> QED
      BY <2>1, <2>2
  <1>8. Behind
    BY <1>2, <1>3, <1>5, <1>6, <1>7 DEF Behind, Reaches
  <1> QED
    BY <1>4, <1>8 DEF Traced

LEMMA NextTraced ==
    KvTyped /\ KvTyped' /\ WriterQueues /\ Traced /\ [KvNext]_kv_vars => Traced'
  <1> SUFFICES ASSUME KvTyped, KvTyped', WriterQueues, Traced, [KvNext]_kv_vars PROVE Traced'
    OBVIOUS
  <1>1. CASE UNCHANGED kv_vars
    BY <1>1, SameTraces DEF kv_vars, observed
  <1>2. ASSUME NEW s \in Callers, NEW r \in Requests, native_replay(s, r) \/ replay_late(s, r)
        PROVE  Traced'
    BY <1>2, SameTraces DEF native_replay, replay_late, observed
  <1>3. ASSUME NEW s \in Callers, durable_complete(s) \/ abandon(s) PROVE Traced'
    BY <1>3, SameTraces DEF durable_complete, abandon, observed
  <1>4. ASSUME NEW w \in Subscribers,
               watch_kv(w) \/ unwatch(w) \/ watch_delta(w) \/ watch_reset(w) \/ watch_lagged(w)
        PROVE  Traced'
    BY <1>4, SameTraces DEF watch_kv, unwatch, watch_delta, watch_reset, watch_lagged, observed
  <1> QED
    BY <1>1, <1>2, <1>3, <1>4, MutateTraces, WriterTraces, RestartTraces, Zenon DEF KvNext

LEMMA AlwaysTraced == KvSpec => []Traced
  BY InitTraced, NextTraced, AlwaysTyped, AlwaysQueues, PTL DEF KvSpec

(* However the server crashes, restarts, prunes or works without a disk,   *)
(* and as long as no start had to do without the replay records: whatever  *)
(* is stored is traced to a recorded operation, for any number of keys,    *)
(* operations and replays kept.  At any time an operation identity has at  *)
(* most one record.                                                        *)
THEOREM StoreIsReplayable == KvSpec => []LiveIsReplayable
  <1>1. Traced => LiveIsReplayable
    <2> SUFFICES ASSUME Traced PROVE LiveIsReplayable
      OBVIOUS
    <2>1. \A o, p \in operations : o.operation_id = p.operation_id => o = p
      BY DEF Traced, IdsUnique, UniqueIds
    <2>2. ~replays_lost => Explained(entries, operations)
      BY DEF Traced, MemoryRecorded, Recorded
    <2> QED
      BY <2>1, <2>2 DEF LiveIsReplayable, Explained, Explains
  <1> QED
    BY <1>1, AlwaysTraced, PTL

(* While the writer works, opening what the disk will hold once it has     *)
(* written its jobs brings back exactly what is in memory: a crash loses a *)
(* suffix of the mutations and nothing else.                               *)
THEOREM WritesAreBehind == KvSpec => []WriteBehind
  <1>1. Traced => WriteBehind
    BY DEF Traced, Active, Behind, Reaches, Pending, WriteBehind
  <1> QED
    BY <1>1, AlwaysTraced, PTL

-----------------------------------------------------------------------------
(* What durable requests have been promised. *)

(* The rows a request writes do not depend on the rows it found. *)
LEMMA WrittenRows ==
    ASSUME NEW r \in Requests, NEW from \in Entries, NEW rev \in Nat, NEW k \in Written(r)
    PROVE  Working(r, from, rev)[k] = Working(r, EmptyStore, rev)[k]
  <1> DEFINE m == r.mutations
             n == Len(m)
             e == Working(r, from, rev)
             f == Working(r, EmptyStore, rev)
  <1>1. Decided(m, n, from, rev, e) /\ Decided(m, n, EmptyStore, rev, f)
    BY WorkingIs, EmptyStoreType
  <1>2. DOMAIN m = 1 .. n /\ n \in Nat /\ k \in Keys
    BY RequestFacts
  <1>3. \E i \in 1 .. n : m[i].key = k
    BY <1>2 DEF Written
  <1> HIDE DEF m, n, e, f
  <1>4. PICK i \in 1 .. n : LastOf(m, n, k, i) /\ e[k] = RowOf(m[i], rev)
    BY <1>1, <1>2, <1>3 DEF Decided
  <1>5. PICK j \in 1 .. n : LastOf(m, n, k, j) /\ f[k] = RowOf(m[j], rev)
    BY <1>1, <1>2, <1>3 DEF Decided
  <1>6. i = j
    <2>1. ~(i < j) /\ ~(j < i)
      BY <1>2, <1>4, <1>5 DEF LastOf
    <2> QED
      BY <1>2, <2>1
  <1> QED
    BY <1>4, <1>5, <1>6 DEF e, f

(* What OnDisk says of any database. *)
Shows(d, r, rev, k) ==
    \/ d.entries[k] = Working(r, EmptyStore, rev)[k]
    \/ /\ loaded_revision(d) > rev
       /\ d.entries[k] = NoEntry \/ d.entries[k].modification_revision > rev
Holds(d, r, rev) == loaded_revision(d) >= rev /\ \A k \in Written(r) : Shows(d, r, rev, k)

LEMMA JobKeepsShown ==
    ASSUME NEW d \in DiskType, NEW j \in JobType, GoesOn(d, j), NEW r \in Requests,
           NEW rev \in Nat, Holds(d, r, rev)
    PROVE  Holds(ApplyJob(d, j), r, rev)
  <1> DEFINE e == ApplyJob(d, j)
             a == loaded_revision(d)
             b == j.operation.store_revision
  <1>1. a \in Nat /\ b \in Nat
    BY LoadedBounds, OperationFacts DEF JobType
  <1>2. loaded_revision(e) = b /\ a <= b /\ (j.operation.ok => a < b) /\ a >= rev
    BY DEF GoesOn, Holds
  <1>3. loaded_revision(e) >= rev
    BY <1>1, <1>2
  <1>4. ASSUME NEW k \in Written(r) PROVE Shows(e, r, rev, k)
    <2>1. k \in Keys /\ Shows(d, r, rev, k)
      BY RequestFacts DEF Holds
    <2>2. CASE k \in DOMAIN j.mutations
      <3>1. e.entries[k] = j.mutations[k] /\ j.operation.ok
        BY <2>1, <2>2 DEF ApplyJob, GoesOn
      <3>2. j.mutations[k] = NoEntry \/ j.mutations[k].modification_revision = b
        BY <2>2 DEF GoesOn
      <3>3. b > rev
        BY <1>1, <1>2, <3>1
      <3> HIDE DEF e, b
      <3> QED
        BY <1>2, <3>1, <3>2, <3>3 DEF Shows
    <2>3. CASE k \notin DOMAIN j.mutations
      <3>1. e.entries[k] = d.entries[k]
        BY <2>1, <2>3 DEF ApplyJob
      <3>2. a > rev => loaded_revision(e) > rev
        BY <1>1, <1>2
      <3> HIDE DEF e
      <3> QED
        BY <2>1, <3>1, <3>2 DEF Shows
    <2> QED
      BY <2>2, <2>3
  <1> HIDE DEF e
  <1>5. Holds(e, r, rev)
    BY <1>3, <1>4 DEF Holds
  <1> QED
    BY <1>5 DEF e

(* What a stage shows, every later one shows. *)
LEMMA LaterStagesShow ==
    ASSUME NEW d \in DiskType, NEW jobs \in Seq(JobType), StagesOK(d, jobs), NEW r \in Requests,
           NEW rev \in Nat, NEW m \in 0 .. Len(jobs), Holds(ApplyEach(d, jobs)[m], r, rev)
    PROVE  Holds(ApplyJobs(d, jobs), r, rev)
  <1> DEFINE n == Len(jobs)
             D == ApplyEach(d, jobs)
             F == {i \in 0 .. n : i >= m => Holds(D[i], r, rev)}
  <1>1. n \in Nat /\ ApplyRuns(d, jobs, D) /\ \A i \in 1 .. n : jobs[i] \in JobType
    BY ApplySteps
  <1> HIDE DEF D
  <1>2. 0 \in F
    <2>1. 0 >= m => m = 0
      OBVIOUS
    <2> QED
      BY <1>1, <2>1 DEF D
  <1>3. ASSUME NEW i \in 0 .. n, i # n, i \in F PROVE i + 1 \in F
    <2>1. i + 1 \in 1 .. n /\ i + 1 \in 0 .. n /\ (i + 1) - 1 = i
      BY <1>1, <1>3
    <2> SUFFICES ASSUME i + 1 >= m PROVE Holds(D[i + 1], r, rev)
      BY <2>1
    <2>2. CASE i + 1 = m
      BY <2>2 DEF D
    <2>3. CASE i + 1 # m
      <3>1. i >= m
        BY <2>3
      <3>2. Holds(D[i], r, rev)
        BY <1>3, <3>1
      <3>3. D[i] \in DiskType /\ D[i + 1] = ApplyJob(D[i], jobs[i + 1])
        BY <1>1, <2>1 DEF ApplyRuns
      <3>4. GoesOn(D[i], jobs[i + 1])
        BY <2>1 DEF StagesOK, D
      <3>5. jobs[i + 1] \in JobType
        BY <1>1, <2>1
      <3> QED
        BY <3>2, <3>3, <3>4, <3>5, JobKeepsShown
    <2> QED
      BY <2>2, <2>3
  <1>4. 0 .. n \subseteq F
    <2> HIDE DEF F, n
    <2> QED
      BY <1>1, <1>2, <1>3, UpTo
  <1>5. n \in F /\ n >= m
    BY <1>1, <1>4
  <1> QED
    BY <1>5 DEF ApplyJobs, D

(* A job writes the rows of the request its operation is the outcome of.   *)
JobRows(j) ==
    j.operation.ok =>
        \A r \in Requests : fingerprint(r) = j.operation.fingerprint =>
            \A k \in Written(r) :
                /\ k \in DOMAIN j.mutations
                /\ j.mutations[k] = Working(r, EmptyStore, j.operation.store_revision)[k]

LEMMA JobShows ==
    ASSUME NEW d \in DiskType, NEW j \in JobType, GoesOn(d, j), JobRows(j), j.operation.ok,
           NEW r \in Requests, fingerprint(r) = j.operation.fingerprint
    PROVE  Holds(ApplyJob(d, j), r, j.operation.store_revision)
  <1> DEFINE e == ApplyJob(d, j)
             b == j.operation.store_revision
  <1>1. loaded_revision(e) = b /\ b \in Nat
    BY OperationFacts DEF GoesOn, JobType
  <1>2. ASSUME NEW k \in Written(r) PROVE e.entries[k] = Working(r, EmptyStore, b)[k]
    <2>1. k \in Keys
      BY RequestFacts
    <2>2. k \in DOMAIN j.mutations /\ j.mutations[k] = Working(r, EmptyStore, b)[k]
      BY DEF JobRows
    <2> QED
      BY <2>1, <2>2 DEF ApplyJob
  <1> HIDE DEF e, b
  <1>3. Holds(e, r, b)
    BY <1>1, <1>2 DEF Holds, Shows
  <1> QED
    BY <1>3 DEF e, b

LEMMA BatchShows ==
    ASSUME NEW d \in DiskType, NEW jobs \in Seq(JobType), StagesOK(d, jobs),
           NEW j \in Jobs(jobs), JobRows(j), j.operation.ok,
           NEW r \in Requests, fingerprint(r) = j.operation.fingerprint
    PROVE  Holds(ApplyJobs(d, jobs), r, j.operation.store_revision)
  <1>1. Len(jobs) \in Nat /\ DOMAIN jobs = 1 .. Len(jobs) /\ \A i \in 1 .. Len(jobs) : jobs[i] \in JobType
    OBVIOUS
  <1>2. PICK i \in 1 .. Len(jobs) : jobs[i] = j
    BY <1>1 DEF Jobs
  <1> DEFINE D == ApplyEach(d, jobs)
             rev == j.operation.store_revision
  <1>3. D[i - 1] \in DiskType /\ D[i] = ApplyJob(D[i - 1], j)
    <2>1. ApplyRuns(d, jobs, D)
      BY ApplySteps
    <2>2. i - 1 \in 0 .. Len(jobs)
      BY <1>1
    <2> HIDE DEF D
    <2> QED
      BY <1>2, <2>1, <2>2 DEF ApplyRuns
  <1>4. GoesOn(D[i - 1], j)
    BY <1>2 DEF StagesOK
  <1>5. j \in JobType
    BY <1>1, <1>2
  <1> HIDE DEF D
  <1>6. Holds(D[i], r, rev)
    BY <1>3, <1>4, <1>5, JobShows
  <1>7. rev \in Nat /\ i \in 0 .. Len(jobs)
    BY <1>1, <1>5, OperationFacts DEF JobType
  <1> HIDE DEF rev
  <1>8. Holds(ApplyJobs(d, jobs), r, rev)
    BY <1>6, <1>7, LaterStagesShow DEF D
  <1> QED
    BY <1>8 DEF rev

LEMMA CommitJobRows ==
    ASSUME StoreTyped, NEW r \in Requests, NEW fs
    PROVE  /\ JobRows(JobOf(OutcomeOf(r, revision + 1, TRUE), fs, NewRows(r)))
           /\ JobRows(JobOf(OutcomeOf(r, revision, FALSE), fs, << >>))
  <1> DEFINE o == OutcomeOf(r, revision + 1, TRUE)
             j == JobOf(o, fs, NewRows(r))
             i == JobOf(OutcomeOf(r, revision, FALSE), fs, << >>)
  <1>1. j.operation.ok = TRUE /\ j.operation.fingerprint = fingerprint(r)
        /\ j.operation.store_revision = revision + 1 /\ j.mutations = NewRows(r)
    BY DEF JobOf, OutcomeOf
  <1>2. i.operation.ok = FALSE
    BY DEF JobOf, OutcomeOf
  <1> HIDE DEF j, i
  <1>3. ASSUME NEW q \in Requests, fingerprint(q) = fingerprint(r), NEW k \in Written(q)
        PROVE  k \in DOMAIN NewRows(r) /\ NewRows(r)[k] = Working(q, EmptyStore, revision + 1)[k]
    <2>1. q.mutations = r.mutations
      BY <1>3 DEF fingerprint
    <2>2. Written(q) = Written(r) /\ Working(q, EmptyStore, revision + 1) = Working(r, EmptyStore, revision + 1)
      BY <2>1 DEF Written, Working, WorkingAfter
    <2>3. DOMAIN NewRows(r) = Written(r)
      BY DEF NewRows
    <2>4. NewRows(r)[k] = Working(r, entries, revision + 1)[k]
      BY <2>2 DEF NewRows, NewEntries
    <2>5. Working(r, entries, revision + 1)[k] = Working(r, EmptyStore, revision + 1)[k]
      BY <2>2, WrittenRows DEF StoreTyped
    <2> QED
      BY <2>2, <2>3, <2>4, <2>5
  <1>4. JobRows(j)
    BY <1>1, <1>3 DEF JobRows
  <1>5. JobRows(i)
    BY <1>2 DEF JobRows
  <1> QED
    BY <1>4, <1>5 DEF j, i

(* The jobs, the answers and the acknowledgements agree with the disk. *)
Kept(r, rev) == ~replays_lost => Holds(disk, r, rev)
JobsWrite == \A j \in Jobs(queue) \union Jobs(batch) : JobRows(j)
CallMatches(c) ==
    \A r \in c.request, o \in c.outcome :
        /\ o.fingerprint = fingerprint(r)
        /\ c.phase = "persisted" /\ o.ok => Kept(r, o.store_revision)
CallsMatch == \A s \in Callers : CallMatches(call[s])
AckedKept == \A a \in acked : Kept(a.request, a.revision)
Promised == JobsWrite /\ CallsMatch /\ AckedKept

LEMMA IdleMatches ==
    CallMatches(Idle)' /\ \A r : CallMatches(Calling("missed", r, {}))'
  BY DEF CallMatches, Idle, Calling

(* Nothing that is kept is lost by a step that leaves the disk as it was.  *)
LEMMA SameKept ==
    ASSUME UNCHANGED <<disk, replays_lost>>
    PROVE  /\ \A c : CallMatches(c) => CallMatches(c)'
           /\ AckedKept /\ UNCHANGED acked => AckedKept'
  BY DEF CallMatches, AckedKept, Kept

LEMMA SessionPromises ==
    ASSUME CallTyped, Promised, UNCHANGED <<queue, batch, disk, replays_lost>>, NEW s \in Callers, NEW c,
           call' = [call EXCEPT ![s] = c], CallMatches(c)'
    PROVE  JobsWrite' /\ CallsMatch'
  <1>1. JobsWrite'
    BY DEF Promised, JobsWrite
  <1>2. ASSUME NEW t \in Callers PROVE CallMatches(call[t])'
    <2>1. call'[t] = IF t = s THEN c ELSE call[t]
      BY DEF CallTyped
    <2>2. CallMatches(call[t])
      BY DEF Promised, CallsMatch
    <2> QED
      BY <2>1, <2>2 DEF CallMatches, Kept
  <1> QED
    BY <1>1, <1>2 DEF CallsMatch

LEMMA SettlePromises ==
    ASSUME KvTyped, Promised, UNCHANGED <<batch, disk, observed>>, NEW s \in Callers, NEW r \in Requests,
           NEW o, NEW rev, NEW fs, NEW written, Settled(s, r, o, fs, rev, written),
           o.fingerprint = fingerprint(r), JobOf(o, fs, written) \in JobType,
           JobRows(JobOf(o, fs, written))
    PROVE  Promised'
  <1> DEFINE j == JobOf(o, fs, written)
             c == Calling("waiting", r, {o})
  <1>1. /\ queue' = IF Queued THEN Append(queue, j) ELSE queue
        /\ call' = [call EXCEPT ![s] = c] \/ call' = [call EXCEPT ![s] = Idle]
    BY DEF Settled
  <1>2. disk' = disk /\ acked' = acked /\ replays_lost' = replays_lost /\ batch' = batch
    BY DEF observed
  <1>3. JobsWrite'
    <2>1. queue \in Seq(JobType) /\ j \in JobType /\ JobRows(j)
      BY DEF KvTyped, QueueTyped
    <2> HIDE DEF j
    <2>2. Jobs(queue') \subseteq Jobs(queue) \union {j}
      BY <1>1, <2>1, JobsAppended
    <2> QED
      BY <1>2, <2>1, <2>2 DEF Promised, JobsWrite
  <1>4. CallMatches(c)'
    <2>1. c.request = {r} /\ c.outcome = {o} /\ c.phase = "waiting"
      BY DEF Calling
    <2> HIDE DEF c
    <2> QED
      BY <2>1 DEF CallMatches
  <1> HIDE DEF c
  <1>5. CallsMatch'
    <2>1. ASSUME NEW t \in Callers PROVE CallMatches(call[t])'
      <3>1. call'[t] = c \/ call'[t] = Idle \/ call'[t] = call[t]
        BY <1>1 DEF KvTyped, CallTyped
      <3>2. CallMatches(call[t])
        BY DEF Promised, CallsMatch
      <3>3. CASE call'[t] = c
        BY <1>4, <3>3 DEF CallMatches, Kept
      <3>4. CASE call'[t] = Idle
        BY <3>4, IdleMatches DEF CallMatches, Kept
      <3>5. CASE call'[t] = call[t]
        BY <1>2, <3>2, <3>5 DEF CallMatches, Kept
      <3> QED
        BY <3>1, <3>3, <3>4, <3>5
    <2> QED
      BY <2>1 DEF CallsMatch
  <1>6. AckedKept'
    BY <1>2 DEF Promised, AckedKept, Kept
  <1> QED
    BY <1>3, <1>5, <1>6 DEF Promised

LEMMA MutatePromises ==
    ASSUME KvTyped, Promised, NEW s \in Callers, NEW r \in Requests, native_mutate(s, r)
    PROVE  Promised'
  <1>1. UNCHANGED <<batch, disk, observed>>
    BY MutateIs
  <1>2. StoreTyped /\ CallTyped /\ revision \in Nat \ {0} /\ revision + 1 \in Nat \ {0} /\ entries \in Entries
    BY DEF KvTyped, StoreTyped
  <1>3. CASE Refuses(s)
    <2>1. call' = [call EXCEPT ![s] = Idle] /\ UNCHANGED <<queue, batch, disk, replays_lost>>
      BY <1>1, <1>3 DEF Refuses, observed
    <2>2. JobsWrite' /\ CallsMatch'
      BY <1>2, <2>1, IdleMatches, SessionPromises
    <2>3. AckedKept'
      BY <1>1, SameKept DEF Promised, observed
    <2> QED
      BY <2>2, <2>3 DEF Promised
  <1>4. CASE SettlesConflict(s, r)
    <2> DEFINE o == OutcomeOf(r, revision, FALSE)
    <2>1. Settled(s, r, o, entries, revision, << >>) /\ o \in OperationType
      BY <1>2, <1>4, OutcomeType DEF SettlesConflict
    <2>2. JobRows(JobOf(o, entries, << >>))
      BY <1>2, CommitJobRows
    <2>3. JobOf(o, entries, << >>) \in JobType
      <3> HIDE DEF o
      <3> QED
        BY <1>2, <2>1, NoRows, SettleTypes
    <2>4. o.fingerprint = fingerprint(r)
      BY DEF OutcomeOf
    <2> HIDE DEF o
    <2> QED
      BY <1>1, <2>1, <2>2, <2>3, <2>4, SettlePromises
  <1>5. CASE SettlesCommit(s, r)
    <2> DEFINE o == OutcomeOf(r, revision + 1, TRUE)
    <2>1. Settled(s, r, o, NewEntries(r), revision + 1, NewRows(r)) /\ o \in OperationType
      BY <1>2, <1>5, OutcomeType DEF SettlesCommit
    <2>2. JobRows(JobOf(o, NewEntries(r), NewRows(r)))
      BY <1>2, CommitJobRows
    <2>3. JobOf(o, NewEntries(r), NewRows(r)) \in JobType
      <3>1. NewEntries(r) \in Entries /\ NewRows(r) \in RowsType
        BY <1>2, NewEntriesType
      <3> HIDE DEF o
      <3> QED
        BY <1>2, <2>1, <3>1, SettleTypes
    <2>4. o.fingerprint = fingerprint(r)
      BY DEF OutcomeOf
    <2> HIDE DEF o
    <2> QED
      BY <1>1, <2>1, <2>2, <2>3, <2>4, SettlePromises
  <1> QED
    BY <1>3, <1>4, <1>5, MutateIs

(* The session answers, or gives up waiting. *)
LEMMA CallerPromises ==
    ASSUME KvTyped, Promised, NEW s \in Callers, durable_complete(s) \/ abandon(s)
    PROVE  Promised'
  <1>1. call' = [call EXCEPT ![s] = Idle] /\ UNCHANGED <<queue, batch, disk, replays_lost>>
    BY DEF durable_complete, abandon, persistence, observed
  <1>2. JobsWrite' /\ CallsMatch'
    BY <1>1, IdleMatches, SessionPromises DEF KvTyped
  <1>3. CASE abandon(s)
    <2>1. acked' = acked
      BY <1>3 DEF abandon, observed
    <2>2. AckedKept'
      BY <1>1, <2>1, SameKept DEF Promised
    <2> QED
      BY <1>2, <2>2 DEF Promised
  <1>4. CASE durable_complete(s)
    <2>1. PICK r \in call[s].request, o \in call[s].outcome :
             acked' = IF call[s].phase = "persisted" /\ o.ok
                      THEN acked \union {[request |-> r, revision |-> o.store_revision]} ELSE acked
      BY <1>4 DEF durable_complete
    <2>2. call[s].phase = "persisted" /\ o.ok => Kept(r, o.store_revision)
      BY DEF Promised, CallsMatch, CallMatches
    <2>3. ASSUME NEW a \in acked' PROVE Kept(a.request, a.revision)
      <3>1. CASE a \in acked
        BY <3>1 DEF Promised, AckedKept
      <3>2. CASE a \notin acked
        <4>1. a = [request |-> r, revision |-> o.store_revision] /\ call[s].phase = "persisted" /\ o.ok
          BY <2>1, <2>3, <3>2
        <4> QED
          BY <2>2, <4>1
      <3> QED
        BY <3>1, <3>2
    <2>4. AckedKept'
      BY <1>1, <2>3 DEF AckedKept, Kept
    <2> QED
      BY <1>2, <2>4 DEF Promised
  <1> QED
    BY <1>3, <1>4

(* The writer's answers. *)
LEMMA ReplyMatches ==
    ASSUME KvTyped, Backed, CallsMatch, NEW jobs, NEW phase \in {"persisted", "failed"},
           Reply(jobs, phase),
           \A r \in Requests : \A rev \in Nat : Kept(r, rev) => Kept(r, rev)',
           phase = "persisted" =>
             \A j \in Jobs(jobs) : j.operation.ok =>
               \A r \in Requests : fingerprint(r) = j.operation.fingerprint =>
                 Kept(r, j.operation.store_revision)'
    PROVE  CallsMatch'
  <1> SUFFICES ASSUME NEW s \in Callers PROVE CallMatches(call[s])'
    BY DEF CallsMatch
  <1>1. call[s] \in CallType /\ CallMatches(call[s])
    BY DEF KvTyped, CallTyped, CallsMatch
  <1>2. call[s].request \subseteq Requests /\ call[s].outcome \subseteq OperationType
    BY <1>1 DEF CallType
  <1>3. \A o \in call[s].outcome : o.store_revision \in Nat
    BY <1>2, OperationFacts
  <1>4. CASE call[s].phase = "waiting" /\ \E i \in DOMAIN jobs : jobs[i].operation \in call[s].outcome
    <2>1. call'[s] = [call[s] EXCEPT !.phase = phase]
      BY <1>4 DEF Reply
    <2>2. call'[s].phase = phase /\ call'[s].request = call[s].request
          /\ call'[s].outcome = call[s].outcome
      BY <1>1, <2>1 DEF CallType
    <2>3. PICK j \in Jobs(jobs) : j.operation \in call[s].outcome
      BY <1>4 DEF Jobs
    <2>4. \A o \in call[s].outcome : o = j.operation
      <3>1. \E p : call[s].outcome = {p}
        BY <1>4 DEF Backed
      <3> QED
        BY <2>3, <3>1
    <2>5. ASSUME NEW r \in call[s].request, NEW o \in call[s].outcome
          PROVE  /\ o.fingerprint = fingerprint(r)
                 /\ phase = "persisted" /\ o.ok => Kept(r, o.store_revision)'
      <3>1. o.fingerprint = fingerprint(r) /\ o = j.operation /\ r \in Requests
        BY <1>1, <1>2, <2>4 DEF CallMatches
      <3> QED
        BY <3>1
    <2> QED
      BY <2>2, <2>5 DEF CallMatches
  <1>5. CASE ~(call[s].phase = "waiting" /\ \E i \in DOMAIN jobs : jobs[i].operation \in call[s].outcome)
    <2>1. call'[s] = call[s]
      BY <1>5 DEF Reply
    <2> QED
      BY <1>1, <1>2, <1>3, <2>1 DEF CallMatches
  <1> QED
    BY <1>4, <1>5

LEMMA AckedStays ==
    ASSUME KvTyped, AckedKept, UNCHANGED acked,
           \A r \in Requests : \A rev \in Nat : Kept(r, rev) => Kept(r, rev)'
    PROVE  AckedKept'
  <1>1. \A a \in acked : a.request \in Requests /\ a.revision \in Nat
    BY DEF KvTyped, ObservedTyped
  <1> QED
    BY <1>1 DEF AckedKept

LEMMA WriterPromises ==
    ASSUME KvTyped, Backed, WriterQueues, Traced, Promised,
           writer_receive \/ writer_commit \/ writer_fail \/ writer_exit
    PROVE  Promised'
  <1>1. disk \in DiskType /\ batch \in Seq(JobType) /\ queue \in Seq(JobType)
    BY DEF KvTyped, DiskTyped, QueueTyped
  <1>2. UNCHANGED <<acked, replays_lost>>
    BY DEF writer_receive, writer_commit, writer_fail, writer_exit, observed
  <1>3. JobsWrite'
    <2>1. Jobs(queue') \union Jobs(batch') \subseteq Jobs(queue) \union Jobs(batch)
      BY NoJobs DEF writer_receive, writer_commit, writer_fail, writer_exit
    <2> QED
      BY <2>1 DEF Promised, JobsWrite
  <1>4. CASE writer_commit
    <2>1. disk' = ApplyJobs(disk, batch) /\ Reply(batch, "persisted") /\ Active
      BY <1>4 DEF writer_commit, Active
    <2>2. ASSUME ~replays_lost PROVE StagesOK(disk, batch)
      <3>1. StagesOK(disk, batch \o queue)
        BY <2>1, <2>2 DEF Traced, Behind, Pending
      <3> QED
        BY <1>1, <3>1, StagesCommitted
    <2>3. ASSUME NEW r \in Requests, NEW rev \in Nat, Kept(r, rev) PROVE Kept(r, rev)'
      <3> SUFFICES ASSUME ~replays_lost PROVE Holds(disk', r, rev)
        BY <1>2 DEF Kept
      <3>1. StagesOK(disk, batch) /\ Holds(disk, r, rev)
        BY <2>2, <2>3 DEF Kept
      <3>2. ApplyEach(disk, batch)[0] = disk /\ 0 \in 0 .. Len(batch)
        <4>1. Len(batch) \in Nat /\ ApplyRuns(disk, batch, ApplyEach(disk, batch))
          BY <1>1, ApplySteps
        <4> QED
          BY <4>1 DEF ApplyRuns
      <3> QED
        BY <1>1, <2>1, <3>1, <3>2, LaterStagesShow
    <2>4. ASSUME NEW j \in Jobs(batch), j.operation.ok, NEW r \in Requests,
                 fingerprint(r) = j.operation.fingerprint
          PROVE  Kept(r, j.operation.store_revision)'
      <3> SUFFICES ASSUME ~replays_lost PROVE Holds(disk', r, j.operation.store_revision)
        BY <1>2 DEF Kept
      <3>1. StagesOK(disk, batch) /\ JobRows(j)
        BY <2>2 DEF Promised, JobsWrite
      <3> QED
        BY <1>1, <2>1, <2>4, <3>1, BatchShows
    <2>5. CallsMatch'
      BY <2>1, <2>3, <2>4, ReplyMatches DEF Promised
    <2>6. AckedKept'
      BY <1>2, <2>3, AckedStays DEF Promised
    <2> QED
      BY <1>3, <2>5, <2>6 DEF Promised
  <1>5. CASE writer_receive \/ writer_fail \/ writer_exit
    <2>1. disk' = disk
      BY <1>5 DEF writer_receive, writer_fail, writer_exit
    <2>2. \A r \in Requests : \A rev \in Nat : Kept(r, rev) => Kept(r, rev)'
      BY <1>2, <2>1 DEF Kept
    <2>3. AckedKept'
      BY <1>2, <2>2, AckedStays DEF Promised
    <2>4. CallsMatch'
      <3>1. CASE writer_receive
        <4>1. call' = call
          BY <3>1 DEF writer_receive
        <4> QED
          BY <1>2, <2>1, <4>1 DEF Promised, CallsMatch, CallMatches, Kept
      <3>2. CASE writer_fail \/ writer_exit
        <4>1. Reply(batch, "failed") \/ Reply(queue, "failed")
          BY <3>2 DEF writer_fail, writer_exit
        <4> QED
          BY <2>2, <4>1, ReplyMatches DEF Promised
      <3> QED
        BY <1>5, <3>1, <3>2
    <2> QED
      BY <1>3, <2>3, <2>4 DEF Promised
  <1> QED
    BY <1>4, <1>5

(* A start finds on disk what was there: only the replay records that it   *)
(* drops are gone, and the revision is found again without them.           *)
LEMMA RestartPromises ==
    ASSUME KvTyped, KvTyped', Traced, Traced', Promised, Restart
    PROVE  Promised'
  <1>1. queue' = << >> /\ batch' = << >> /\ call' = [s \in Callers |-> Idle] /\ acked' = acked
    BY DEF Restart
  <1>2. JobsWrite'
    BY <1>1, NoJobs DEF JobsWrite
  <1>3. CallsMatch'
    <2> SUFFICES ASSUME NEW s \in Callers PROVE CallMatches(call[s])'
      BY DEF CallsMatch
    <2>1. call'[s] = Idle
      BY <1>1
    <2> QED
      BY <2>1, IdleMatches DEF CallMatches, Kept
  <1>4. ASSUME ~replays_lost'
        PROVE  /\ disk'.entries = disk.entries /\ loaded_revision(disk') = loaded_revision(disk)
               /\ ~replays_lost
    <2> DEFINE kept == Retained(disk.operations, disk.entries)
    <2>1. CASE UNCHANGED <<disk, replays_lost>>
      BY <1>4, <2>1
    <2>2. CASE /\ UNCHANGED replays_lost
               /\ \E left \in SUBSET (disk.operations \ kept) :
                    disk' = [disk EXCEPT !.operations = kept \union left]
      <3>1. PICK left \in SUBSET (disk.operations \ kept) :
               disk' = [disk EXCEPT !.operations = kept \union left]
        BY <2>2
      <3>2. disk \in DiskType /\ disk' \in DiskType /\ Recorded(disk.entries, disk.operations)
        BY <1>4, <2>2 DEF KvTyped, DiskTyped, Traced, DiskRecorded
      <3>3. kept \subseteq disk.operations /\ Recent(disk.operations) \subseteq kept
        BY RetainedIn DEF Retained
      <3> DEFINE e == disk'
      <3>4. e \in DiskType /\ e.entries = disk.entries /\ e.operations = kept \union left
        BY <3>1, <3>2 DEF DiskType
      <3>5. e.operations \subseteq disk.operations /\ Recent(disk.operations) \subseteq e.operations
        BY <3>3, <3>4
      <3> HIDE DEF e, kept
      <3>6. loaded_revision(e) = loaded_revision(disk)
        BY <3>2, <3>4, <3>5, PruningKeepsLoaded
      <3> QED
        BY <1>4, <2>2, <3>4, <3>6 DEF e
    <2> QED
      BY <1>4, <2>1, <2>2 DEF Restart
  <1>5. \A r \in Requests : \A rev \in Nat : Kept(r, rev) => Kept(r, rev)'
    <2> SUFFICES ASSUME NEW r \in Requests, NEW rev \in Nat, Kept(r, rev), ~replays_lost'
                 PROVE  Holds(disk, r, rev)'
      BY DEF Kept
    <2>1. Holds(disk, r, rev)
      BY <1>4 DEF Kept
    <2> QED
      BY <1>4, <2>1 DEF Holds, Shows
  <1>6. AckedKept'
    BY <1>1, <1>5, AckedStays DEF Promised
  <1> QED
    BY <1>2, <1>3, <1>6 DEF Promised

LEMMA SamePromises ==
    ASSUME Promised, UNCHANGED <<queue, batch, disk, call, acked, replays_lost>>
    PROVE  Promised'
  BY DEF Promised, JobsWrite, CallsMatch, CallMatches, AckedKept, Kept

LEMMA NextPromised ==
    /\ KvTyped /\ KvTyped' /\ Backed /\ WriterQueues /\ Traced /\ Traced' /\ Promised
    /\ [KvNext]_kv_vars
    => Promised'
  <1> SUFFICES ASSUME KvTyped, KvTyped', Backed, WriterQueues, Traced, Traced', Promised,
                      [KvNext]_kv_vars
               PROVE  Promised'
    OBVIOUS
  <1>1. CASE UNCHANGED kv_vars
    BY <1>1, SamePromises DEF kv_vars, persistence, observed
  <1>2. ASSUME NEW s \in Callers, NEW r \in Requests, native_replay(s, r) \/ replay_late(s, r)
        PROVE  Promised'
    <2>1. UNCHANGED <<queue, batch, disk, acked, replays_lost>>
      BY <1>2 DEF native_replay, replay_late, persistence, observed
    <2>2. AckedKept'
      BY <2>1, SameKept DEF Promised
    <2>3. JobsWrite' /\ CallsMatch'
      <3>1. CallTyped /\ CallMatches(Idle)' /\ CallMatches(Calling("missed", r, {}))'
        BY IdleMatches DEF KvTyped
      <3>2. \/ call' = [call EXCEPT ![s] = Idle]
            \/ call' = [call EXCEPT ![s] = Calling("missed", r, {})]
        BY <1>2 DEF native_replay, replay_late
      <3> QED
        BY <2>1, <3>1, <3>2, SessionPromises
    <2> QED
      BY <2>2, <2>3 DEF Promised
  <1>3. ASSUME NEW w \in Subscribers,
               watch_kv(w) \/ unwatch(w) \/ watch_delta(w) \/ watch_reset(w) \/ watch_lagged(w)
        PROVE  Promised'
    BY <1>3, SamePromises
       DEF watch_kv, unwatch, watch_delta, watch_reset, watch_lagged, persistence, observed
  <1> QED
    BY <1>1, <1>2, <1>3, MutatePromises, CallerPromises, WriterPromises, RestartPromises, Zenon
       DEF KvNext

(* A durable mutation that has been answered Ok by the session that        *)
(* carried it out is on disk, or what replaced it is, through any number   *)
(* of crashes, failed transactions and starts, as long as none of them had *)
(* to do without the replay records.                                       *)
THEOREM DurableIsKept == KvSpec => []DurableSurvives
  <1>1. KvInit => Promised
    <2> SUFFICES ASSUME KvInit PROVE Promised
      OBVIOUS
    <2>1. JobsWrite /\ AckedKept
      BY NoJobs DEF KvInit, JobsWrite, AckedKept
    <2>2. CallsMatch
      BY DEF KvInit, CallsMatch, CallMatches, Idle
    <2> QED
      BY <2>1, <2>2 DEF Promised
  <1>2. Promised => DurableSurvives
    BY DEF Promised, AckedKept, Kept, Holds, Shows, DurableSurvives, OnDisk
  <1> QED
    BY <1>1, <1>2, NextPromised, AlwaysTyped, AlwaysQueues, AlwaysTraced, PTL DEF KvSpec
====
