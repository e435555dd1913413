-------------------------- MODULE MCServerShutdown ---------------------------
(* ServerShutdown for TLC: two connections and three requests, of which    *)
(* two share an operation id and differ in the body.                       *)
EXTENDS ServerShutdown, TLC

CONSTANTS c1, c2

First == [operation_id |-> 1, fingerprint |-> 1]
Changed == [operation_id |-> 1, fingerprint |-> 2]
Other == [operation_id |-> 2, fingerprint |-> 1]
MCRequests == {First, Changed, Other}
MCAsks == c1 :> {First} @@ c2 :> MCRequests
=============================================================================
