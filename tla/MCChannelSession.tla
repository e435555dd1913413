-------------------------- MODULE MCChannelSession ---------------------------
(* Two sessions on one ChannelFabric, for TLC. *)
EXTENDS ChannelSession, TLC

Symmetry == Permutations(Endpoints)

(* For credit: two byte counts, so that limits can be clamped on the way,  *)
(* and sessions that stay up.                                              *)
SteadyNext ==
    \E e \in Endpoints :
        \/ open_session(e) \/ take_event(e) \/ take_terminal(e) \/ HandleEvent(e)
        \/ Requests(e) \/ TransferFrames(e)
SteadySpec == SessionInit /\ [][SteadyNext]_vars

(* For liveness: clients connect, close and reset but send neither         *)
(* messages nor credit, and the server does not shut down.                 *)
QuietNext ==
    \E e \in Endpoints :
        \/ open_session(e) \/ take_event(e) \/ take_terminal(e) \/ HandleEvent(e)
        \/ Requests(e) \/ EndOfSession(e)
        \/ \E h \in ChannelHandles : transfer_close(e, h, 0) \/ transfer_reset(e, h)
QuietSpec == SessionInit /\ [][QuietNext]_vars /\ SessionFairness
=============================================================================
