-------------------------- MODULE ConnectLifecycle ---------------------------
(***************************************************************************)
(* What ChannelFabric promises about one connect, without endpoints, lanes *)
(* or handles: the stages a connect id goes through, and that its pair is  *)
(* charged to the process-wide limit from its first stage until some time  *)
(* after its last, once.                                                   *)
(***************************************************************************)
EXTENDS Naturals, FiniteSets

CONSTANTS Ids,      \* connect ids
          Pairs     \* the limit on connected pairs

VARIABLES stage,    \* of each connect id
          charged   \* the connect ids whose pair is charged

Stages == {"new", "pending", "linked", "open", "half", "retired"}
InUse == {"pending", "linked", "open", "half"}

LifeInit == stage = [c \in Ids |-> "new"] /\ charged = {}

(* A connect is admitted only below the limit, and charged from then on. *)
Begin(c) ==
    /\ stage[c] = "new"
    /\ Cardinality(charged) < Pairs
    /\ stage' = [stage EXCEPT ![c] = "pending"]
    /\ charged' = charged \union {c}

(* The acceptor cannot be told: the id is spent, nothing is charged. *)
Refuse(c) ==
    /\ stage[c] = "new"
    /\ stage' = [stage EXCEPT ![c] = "retired"]
    /\ UNCHANGED charged

(* Both sessions have prepared; then ACCEPT is on its way and traffic may  *)
(* flow; then one direction is closed.                                     *)
Advance(c, from, to) ==
    /\ stage[c] = from
    /\ stage' = [stage EXCEPT ![c] = to]
    /\ UNCHANGED charged

(* Connects end: cancelled, closed in both directions, or reset, several   *)
(* at once when a listener or an endpoint goes.  A charge may be kept.     *)
Retire(C, kept) ==
    /\ \A c \in C : stage[c] \in InUse
    /\ stage' = [c \in Ids |-> IF c \in C THEN "retired" ELSE stage[c]]
    /\ charged' = charged \ (C \ kept)

(* The last holder of a retired connect's guards lets go. *)
Release(C) ==
    /\ \A c \in C : stage[c] = "retired"
    /\ charged' = charged \ C
    /\ UNCHANGED stage

LifeNext ==
    \/ \E c \in Ids :
          \/ Begin(c) \/ Refuse(c)
          \/ Advance(c, "pending", "linked")
          \/ Advance(c, "linked", "open")
          \/ Advance(c, "open", "half")
    \/ \E C \in SUBSET Ids : (\E kept \in SUBSET C : Retire(C, kept)) \/ Release(C)

LifeSpec == LifeInit /\ [][LifeNext]_<<stage, charged>>
=============================================================================
