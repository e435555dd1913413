---------------------------- MODULE ServerShutdown ----------------------------
(* How the server stops: the Core SHUTDOWN request and its coordinator     *)
(* (crates/server/src/yas_shutdown.rs, handle_core_shutdown in yas.rs),    *)
(* the registry of connections and begin_server_shutdown (lib.rs), the     *)
(* signal handler and the end of serve (lib.rs), and what a session does   *)
(* meanwhile, its loss by a missed heartbeat included.                     *)
(*                                                                         *)
(* The body of a request is its operation id and its fingerprint.  Grace   *)
(* periods and timeouts may run out at any moment.                         *)
(*                                                                         *)
(* An operator named Mut_... is a deliberately wrong variant of the        *)
(* definition after it, which no specification uses.                       *)
EXTENDS Naturals, FiniteSets

CONSTANTS
    Conns,              \* connections that may arrive
    ShutdownRequests,   \* [operation_id, fingerprint]
    Asks                \* the requests the client of each connection makes

ASSUME ShutdownAssumption ==
    /\ \A r \in ShutdownRequests : DOMAIN r = {"operation_id", "fingerprint"}
    /\ Asks \in [Conns -> SUBSET ShutdownRequests]

VARIABLES
    is_shutting_down, cleanup_started,  \* ConnectionRegistry: its two latches,
    drained,                            \*   and the permit of its Notify
    conn,                               \* life of each connection
    cancelled,                          \* ConnectionCancellation of each
    phase,                              \* Coordinator: Running, Preparing, Scheduled
    admission_closed, notice,           \* Coordinator: what an Endpoint is told
    inbox, handler,                     \* a session: the request its reader has
                                        \*   queued, where its dispatch loop is
    cleaner,                            \* the tasks that call begin_server_shutdown
    main,                               \* the end of serve
    retried, told_ok                    \* observations, not program state

connections == <<is_shutting_down, cleanup_started, drained>>
coordinator == <<phase, admission_closed, notice>>
dispatch == <<inbox, handler>>
shutdown_vars == <<connections, conn, cancelled, coordinator, dispatch, cleaner, main, retried,
                   told_ok>>

(* The tasks: the signal handler, and finish_native_shutdown. *)
Cleaners == {"signal", "finish"}

Registered == {c \in Conns : conn[c] \in {"hello", "serving"}}
Serving == {c \in Conns : conn[c] = "serving"}
AtRest == [step |-> "dispatch", request |-> {}]
At(step, r) == [step |-> step, request |-> {r}]
NotBegun == [kind |-> "Running", request |-> {}]
Preparing(r) == [kind |-> "Preparing", request |-> {r}]
Scheduled(r) == [kind |-> "Scheduled", request |-> {r}]
is_scheduled == phase.kind = "Scheduled"

ShutdownInit ==
    /\ is_shutting_down = FALSE /\ cleanup_started = FALSE /\ drained = FALSE
    /\ conn = [c \in Conns |-> "arriving"]
    /\ cancelled = {}
    /\ phase = NotBegun /\ admission_closed = {} /\ notice = [c \in Conns |-> "none"]
    /\ inbox = [c \in Conns |-> {}] /\ handler = [c \in Conns |-> AtRest]
    /\ cleaner = [p \in Cleaners |-> "idle"]
    /\ main = "accepting"
    /\ retried = {} /\ told_ok = {}

-----------------------------------------------------------------------------
(* Arrival: spawn_yas_session. *)

(* register_inner for an ordinary connection: a refusal cancels the token  *)
(* of the connection.                                                      *)
Mut_register(c) ==
    /\ main = "accepting" /\ conn[c] = "arriving"
    /\ conn' = [conn EXCEPT ![c] = "hello"]
    /\ UNCHANGED <<connections, cancelled, coordinator, dispatch, cleaner, main, retried, told_ok>>
register(c) ==
    /\ main = "accepting" /\ conn[c] = "arriving"
    /\ \/ /\ ~is_shutting_down
          /\ conn' = [conn EXCEPT ![c] = "hello"]
          /\ UNCHANGED cancelled
       \/ /\ is_shutting_down
          /\ conn' = [conn EXCEPT ![c] = "refused"]
          /\ cancelled' = cancelled \union {c}
    /\ UNCHANGED <<connections, coordinator, dispatch, cleaner, main, retried, told_ok>>

(* The second attempt, with the same token, once a SHUTDOWN is scheduled. *)
register_shutdown_retry(c) ==
    /\ conn[c] = "refused"
    /\ \/ /\ is_scheduled /\ ~cleanup_started
          /\ conn' = [conn EXCEPT ![c] = "hello"]
          /\ retried' = retried \union {c}
       \/ /\ ~is_scheduled \/ cleanup_started
          /\ conn' = [conn EXCEPT ![c] = "gone"]
          /\ UNCHANGED retried
    /\ UNCHANGED <<connections, cancelled, coordinator, dispatch, cleaner, main, told_ok>>

(* HELLO succeeds: Coordinator::register. *)
Mut_coordinator_register(c) ==
    /\ conn[c] = "hello"
    /\ conn' = [conn EXCEPT ![c] = "serving"]
    /\ UNCHANGED <<connections, cancelled, coordinator, dispatch, cleaner, main, retried, told_ok>>
coordinator_register(c) ==
    /\ conn[c] = "hello"
    /\ conn' = [conn EXCEPT ![c] = "serving"]
    /\ IF is_scheduled
       THEN /\ admission_closed' = admission_closed \union {c}
            /\ notice' = [notice EXCEPT ![c] = "queued"]
       ELSE UNCHANGED <<admission_closed, notice>>
    /\ UNCHANGED <<connections, cancelled, phase, dispatch, cleaner, main, retried, told_ok>>

(* The end of a connection drops both registrations; the registry's is     *)
(* announced with notify_one, which keeps a permit.                        *)
Mut_LeaveRegistered(c) ==
    /\ conn' = [conn EXCEPT ![c] = "gone"]
    /\ cancelled' = cancelled \union {c}
    /\ inbox' = [inbox EXCEPT ![c] = {}] /\ handler' = [handler EXCEPT ![c] = AtRest]
    /\ drained' = TRUE
    /\ UNCHANGED <<is_shutting_down, cleanup_started, coordinator, cleaner, main, retried, told_ok>>
Mut_LeaveUnnoticed(c) ==
    /\ conn' = [conn EXCEPT ![c] = "gone"]
    /\ cancelled' = cancelled \union {c}
    /\ inbox' = [inbox EXCEPT ![c] = {}] /\ handler' = [handler EXCEPT ![c] = AtRest]
    /\ notice' = [notice EXCEPT ![c] = "none"]
    /\ admission_closed' = admission_closed \ {c}
    /\ UNCHANGED <<connections, phase, cleaner, main, retried, told_ok>>
Leave(c) ==
    /\ conn' = [conn EXCEPT ![c] = "gone"]
    /\ cancelled' = cancelled \union {c}
    /\ inbox' = [inbox EXCEPT ![c] = {}] /\ handler' = [handler EXCEPT ![c] = AtRest]
    /\ notice' = [notice EXCEPT ![c] = "none"]
    /\ admission_closed' = admission_closed \ {c}
    /\ drained' = TRUE
    /\ UNCHANGED <<is_shutting_down, cleanup_started, phase, cleaner, main, retried, told_ok>>

(* The peer closes the stream, or the dispatch loop sees the cancellation: *)
(* only a loop that is not inside a handler does, and it first handles     *)
(* what its reader has queued.                                             *)
session_ends(c) ==
    /\ \/ conn[c] = "hello"
       \/ conn[c] = "serving" /\ handler[c] = AtRest /\ inbox[c] = {}
    /\ Leave(c)

(* heartbeat.run returns: the dispatch future is dropped wherever it       *)
(* awaits.                                                                 *)
heartbeat_expires(c) ==
    /\ conn[c] = "serving"
    /\ handler[c].step \in {"dispatch", "resolving", "confirming", "goaway"}
    /\ Leave(c)

-----------------------------------------------------------------------------
(* handle_core_shutdown. *)

(* The reader queues a request until the connection is cancelled. *)
read_shutdown(c, r) ==
    /\ conn[c] = "serving" /\ c \notin cancelled /\ inbox[c] = {} /\ r \in Asks[c]
    /\ inbox' = [inbox EXCEPT ![c] = {r}]
    /\ UNCHANGED <<connections, conn, cancelled, coordinator, handler, cleaner, main, retried,
                   told_ok>>
take_shutdown(c, r) ==
    /\ conn[c] = "serving" /\ handler[c] = AtRest /\ inbox[c] = {r}
    /\ inbox' = [inbox EXCEPT ![c] = {}]
    /\ handler' = [handler EXCEPT ![c] = At("resolving", r)]
    /\ UNCHANGED <<connections, conn, cancelled, coordinator, cleaner, main, retried, told_ok>>

(* One turn of resolve; while another operation is prepared it waits. *)
resolve(c, r) ==
    /\ conn[c] = "serving" /\ handler[c] = At("resolving", r)
    /\ \/ /\ phase = NotBegun
          /\ phase' = Preparing(r)
          /\ handler' = [handler EXCEPT ![c] = At("started", r)]
          /\ UNCHANGED told_ok
       \/ \E owner \in phase.request :
            /\ \/ /\ owner.operation_id = r.operation_id /\ owner # r  \* Conflict
                  /\ UNCHANGED told_ok
               \/ /\ is_scheduled /\ owner = r                          \* Replay
                  /\ told_ok' = told_ok \union {r}
               \/ /\ is_scheduled /\ owner.operation_id # r.operation_id \* Unavailable
                  /\ UNCHANGED told_ok
            /\ handler' = [handler EXCEPT ![c] = AtRest]
            /\ UNCHANGED phase
    /\ UNCHANGED <<connections, conn, cancelled, admission_closed, notice, inbox, cleaner, main,
                   retried>>

(* A signal may have come first. *)
check_shutting_down(c, r) ==
    /\ conn[c] = "serving" /\ handler[c] = At("started", r)
    /\ \/ /\ is_shutting_down
          /\ phase' = IF phase = Preparing(r) THEN NotBegun ELSE phase     \* abort
          /\ handler' = [handler EXCEPT ![c] = AtRest]
       \/ /\ ~is_shutting_down
          /\ handler' = [handler EXCEPT ![c] = At("confirming", r)]
          /\ UNCHANGED phase
    /\ UNCHANGED <<connections, conn, cancelled, admission_closed, notice, inbox, cleaner, main,
                   retried, told_ok>>

(* The Result is written, or its confirmation times out: seal_shutdown. *)
confirm(c, r) ==
    /\ conn[c] = "serving" /\ handler[c] = At("confirming", r)
    /\ told_ok' = told_ok \union {r}
    /\ is_shutting_down' = TRUE
    /\ handler' = [handler EXCEPT ![c] = At("sealed", r)]
    /\ UNCHANGED <<cleanup_started, drained, conn, cancelled, coordinator, inbox, cleaner,
                   main, retried>>

(* Coordinator::commit, and finish_native_shutdown is spawned. *)
commit(c, r) ==
    /\ conn[c] = "serving" /\ handler[c] = At("sealed", r)
    /\ phase' = Scheduled(r)
    /\ admission_closed' = admission_closed \union Serving
    /\ notice' = [x \in Conns |-> IF x \in Serving THEN "queued" ELSE notice[x]]
    /\ handler' = [handler EXCEPT ![c] = AtRest]
    /\ cleaner' = [cleaner EXCEPT !["finish"] = "waiting"]
    /\ UNCHANGED <<connections, conn, cancelled, inbox, main, retried, told_ok>>

(* handle_shutdown_notice: GOAWAY is sent, and confirmed by the writer. *)
take_notice(c) ==
    /\ conn[c] = "serving" /\ handler[c] = AtRest /\ notice[c] = "queued"
    /\ handler' = [handler EXCEPT ![c] = [step |-> "goaway", request |-> {}]]
    /\ UNCHANGED <<connections, conn, cancelled, coordinator, inbox, cleaner, main, retried,
                   told_ok>>
goaway_written(c) ==
    /\ conn[c] = "serving" /\ handler[c].step = "goaway"
    /\ handler' = [handler EXCEPT ![c] = AtRest]
    /\ notice' = [notice EXCEPT ![c] = "sent"]
    /\ UNCHANGED <<connections, conn, cancelled, phase, admission_closed, inbox, cleaner, main,
                   retried, told_ok>>

-----------------------------------------------------------------------------
(* begin_server_shutdown, by either task. *)

signal ==
    /\ cleaner["signal"] = "idle"
    /\ cleaner' = [cleaner EXCEPT !["signal"] = "entering"]
    /\ UNCHANGED <<connections, conn, cancelled, coordinator, dispatch, main, retried, told_ok>>

(* The grace period or the wait for the acknowledgements is over:          *)
(* cancel_sessions.                                                        *)
cancel_sessions ==
    /\ cleaner["finish"] = "waiting"
    /\ cancelled' = cancelled \union Serving
    /\ cleaner' = [cleaner EXCEPT !["finish"] = "entering"]
    /\ UNCHANGED <<connections, conn, coordinator, dispatch, main, retried, told_ok>>

seal_shutdown(p) ==
    /\ cleaner[p] = "entering"
    /\ is_shutting_down' = TRUE
    /\ cleaner' = [cleaner EXCEPT ![p] = "sealed"]
    /\ UNCHANGED <<cleanup_started, drained, conn, cancelled, coordinator, dispatch, main,
                   retried, told_ok>>
begin_cleanup(p) ==
    /\ cleaner[p] = "sealed"
    /\ cleanup_started' = TRUE
    /\ cleaner' = [cleaner EXCEPT ![p] = IF cleanup_started THEN "returned" ELSE "claimed"]
    /\ UNCHANGED <<is_shutting_down, drained, conn, cancelled, coordinator, dispatch, main,
                   retried, told_ok>>

(* After the extensions and the channel fabric have been told. *)
cancel_all(p) ==
    /\ cleaner[p] = "claimed"
    /\ cancelled' = cancelled \union Registered
    /\ cleaner' = [cleaner EXCEPT ![p] = "cancelled_all"]
    /\ UNCHANGED <<connections, conn, coordinator, dispatch, main, retried, told_ok>>
publish_started(p) ==
    /\ cleaner[p] = "cancelled_all"
    /\ cleaner' = [cleaner EXCEPT ![p] = "published"]
    /\ UNCHANGED <<connections, conn, cancelled, coordinator, dispatch, main, retried, told_ok>>

shutdown_started == \E p \in Cleaners : cleaner[p] = "published"

(* The end of serve: the accept loop returns, then wait_empty. *)
accept_loop_ends ==
    /\ main = "accepting" /\ shutdown_started
    /\ main' = "checking"
    /\ UNCHANGED <<connections, conn, cancelled, coordinator, dispatch, cleaner, retried, told_ok>>
wait_empty_checks ==
    /\ main = "checking"
    /\ main' = IF Registered = {} THEN "stopped" ELSE "waiting"
    /\ UNCHANGED <<connections, conn, cancelled, coordinator, dispatch, cleaner, retried, told_ok>>
wait_empty_wakes ==
    /\ main = "waiting" /\ drained
    /\ main' = "checking" /\ drained' = FALSE
    /\ UNCHANGED <<is_shutting_down, cleanup_started, conn, cancelled, coordinator, dispatch,
                   cleaner, retried, told_ok>>

CoreShutdown(c) ==
    \E r \in ShutdownRequests : \/ read_shutdown(c, r) \/ take_shutdown(c, r) \/ resolve(c, r)
                                \/ check_shutting_down(c, r) \/ confirm(c, r) \/ commit(c, r)
Cleanup(p) == seal_shutdown(p) \/ begin_cleanup(p) \/ cancel_all(p) \/ publish_started(p)
EndOfServe == accept_loop_ends \/ wait_empty_checks \/ wait_empty_wakes

ShutdownNext ==
    \/ \E c \in Conns : \/ register(c) \/ register_shutdown_retry(c) \/ coordinator_register(c)
                        \/ session_ends(c) \/ heartbeat_expires(c)
                        \/ CoreShutdown(c) \/ take_notice(c) \/ goaway_written(c)
    \/ signal \/ cancel_sessions
    \/ \E p \in Cleaners : Cleanup(p)
    \/ EndOfServe

(* The runtime schedules every task that can run; the timeouts of          *)
(* handle_core_shutdown and finish_native_shutdown run out; a cancelled    *)
(* session that is between two handlers takes the cancellation branch, and *)
(* one that is inside a handler is ended by its heartbeat, which cannot    *)
(* complete once the cancellation has stopped the reader and the writer    *)
(* (ping_interval is not zero).                                            *)
ShutdownFairness ==
    /\ \A c \in Conns :
        /\ WF_shutdown_vars(\E r \in ShutdownRequests :
                \/ take_shutdown(c, r) \/ resolve(c, r) \/ check_shutting_down(c, r)
                \/ confirm(c, r) \/ commit(c, r))
        /\ WF_shutdown_vars(c \in cancelled /\ (session_ends(c) \/ heartbeat_expires(c)))
        /\ WF_shutdown_vars(register_shutdown_retry(c))
    /\ WF_shutdown_vars(cancel_sessions)
    /\ \A p \in Cleaners : WF_shutdown_vars(Cleanup(p))
    /\ WF_shutdown_vars(EndOfServe)

ShutdownSpec == ShutdownInit /\ [][ShutdownNext]_shutdown_vars /\ ShutdownFairness

-----------------------------------------------------------------------------
(* Properties. *)

(* The types of the state; and a connection that is not served, the one    *)
(* that has ended too, leaves no request, notice or admission mark behind. *)
ShutdownTypeOK ==
    /\ {is_shutting_down, cleanup_started, drained} \subseteq BOOLEAN
    /\ conn \in [Conns -> {"arriving", "refused", "hello", "serving", "gone"}]
    /\ cancelled \subseteq Conns /\ admission_closed \subseteq Conns /\ retried \subseteq Conns
    /\ phase \in {NotBegun} \union {Preparing(r) : r \in ShutdownRequests}
                           \union {Scheduled(r) : r \in ShutdownRequests}
    /\ notice \in [Conns -> {"none", "queued", "sent"}]
    /\ inbox \in [Conns -> SUBSET ShutdownRequests]
    /\ handler \in [Conns -> [step : {"dispatch", "resolving", "started", "confirming", "sealed",
                                      "goaway"},
                              request : SUBSET ShutdownRequests]]
    /\ told_ok \subseteq ShutdownRequests
    /\ \A c \in Conns : conn[c] # "serving" =>
        /\ inbox[c] = {} /\ handler[c] = AtRest
        /\ notice[c] = "none" /\ c \notin admission_closed
    /\ cleaner \in [Cleaners -> {"idle", "waiting", "entering", "sealed", "claimed",
                                 "returned", "cancelled_all", "published"}]
    /\ main \in {"accepting", "checking", "waiting", "stopped"}

(* Once cleanup has cancelled the connections it found, every connection   *)
(* that is registered is cancelled: one that arrives in the race is either *)
(* in that snapshot or refused, an ordinary one and a shutdown retry alike.*)
NoneSurvivesCleanup ==
    (\E p \in Cleaners : cleaner[p] \in {"cancelled_all", "published"})
        => Registered \subseteq cancelled

(* One operation owns the boot: only the owner of the preparation is in    *)
(* the part of the handler that commits, no two different requests are     *)
(* both told Ok, and every session that serves after the commit, whether   *)
(* it was there or came late, has had the GOAWAY put in its queue.         *)
OneOwner ==
    /\ \A c \in Conns, r \in ShutdownRequests :
        handler[c] \in {At("started", r), At("confirming", r), At("sealed", r)}
            => phase = Preparing(r)
    /\ \A a, b \in told_ok : a = b
    /\ is_scheduled => \A c \in Serving : c \in admission_closed /\ notice[c] # "none"

(* After a signal, or once a SHUTDOWN is scheduled, the server stops: no   *)
(* session holds it up and the last one to leave wakes wait_empty.         *)
ServerStops == (cleaner["signal"] # "idle" \/ is_scheduled) ~> (main = "stopped")

(* A connection admitted while a SHUTDOWN drains, so that its client can   *)
(* repeat the request, is not cancelled before the drain is over: what the *)
(* comments on register_shutdown_retry and on the confirmation promise.    *)
RetryIsServed ==
    \A c \in retried :
        c \in Registered /\ cleaner["finish"] = "waiting" /\ ~cleanup_started
            => c \notin cancelled
=============================================================================
