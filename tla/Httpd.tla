-------------------------------- MODULE Httpd --------------------------------
(***************************************************************************)
(* The server side of dthttpd_linux_socket.c: the owner that configures,   *)
(* starts, stops, joins and disposes a server, its accept task, and one    *)
(* client task per occupied slot.                                          *)
(*                                                                         *)
(* The accept task holds server->lock while dttasker_start waits for the   *)
(* new client's ready(), so the lock is held exactly while apc is          *)
(* "starting"; every other critical section never blocks and is one step.  *)
(* A connection stands for its file descriptor.  slot->is_joined is true   *)
(* exactly when slot->tasker_handle is NULL, so tasker[s] stands for both. *)
(* What a client task reads and answers is module HttpRequest.             *)
(***************************************************************************)
EXTENDS Integers, FiniteSets

CONSTANTS MaxSlots,      \* largest max_concurrent_connections configured
          Conns          \* the connections peers make

ASSUME HttpdAssumption == MaxSlots \in Nat \ {0}

NoConn == "none"
NoSlot == 0
AllSlots == 1..MaxSlots

ASSUME ConnsAssumption == NoConn \notin Conns

VARIABLES
    is_started, stop_requested, listen_fd, accept_tasker, client_slot_count, disposed,
    accept_stop,     \* stop_requested of the accept tasker
    is_active, client_fd, tasker, active_client_count,
    stop, ready,     \* stop_requested and the ready post of each slot's tasker
    apc, afd, aslot, \* the accept task: its place, local client_fd and slot_index
    kpc,             \* each slot's client thread
    opc,             \* the owner's place
    conn,            \* what the kernel knows of each connection
    shut,            \* connections whose socket was shut down
    listen_shut,     \* the listening socket was shut down
    closes           \* history: close() calls on each connection

server == <<is_started, stop_requested, listen_fd, accept_tasker, client_slot_count,
            disposed, accept_stop>>
slots  == <<is_active, client_fd, tasker, active_client_count, stop, ready>>
accept == <<apc, afd, aslot>>
kernel == <<conn, shut, listen_shut, closes>>
vars   == <<server, slots, accept, kpc, opc, kernel>>

Slots == 1..client_slot_count

TypeOK ==
    /\ is_started \in BOOLEAN /\ stop_requested \in BOOLEAN /\ listen_fd \in BOOLEAN
    /\ accept_tasker \in BOOLEAN /\ accept_stop \in BOOLEAN
    /\ disposed \in BOOLEAN /\ listen_shut \in BOOLEAN
    /\ client_slot_count \in 0..MaxSlots /\ active_client_count \in Nat
    /\ is_active \in [AllSlots -> BOOLEAN] /\ tasker \in [AllSlots -> BOOLEAN]
    /\ client_fd \in [AllSlots -> Conns \cup {NoConn}]
    /\ stop \in [AllSlots -> BOOLEAN] /\ ready \in [AllSlots -> BOOLEAN]
    /\ apc \in {"none", "poll", "accept", "admit", "reject", "drop", "starting", "done"}
    /\ afd \in Conns \cup {NoConn} /\ aslot \in AllSlots \cup {NoSlot}
    /\ kpc \in [AllSlots -> {"none", "entry", "poll", "reading", "handling", "closing",
                             "closed", "marking", "exiting", "exited"}]
    /\ opc \in {"idle", "stop_listen", "stop_clients", "join_accept", "join_clients"}
    /\ conn \in [Conns -> {"none", "backlog", "open", "closed"}]
    /\ shut \in SUBSET Conns /\ closes \in [Conns -> Nat]

\* dthttpd_linux_socket_init.
Init ==
    /\ is_started = FALSE /\ stop_requested = FALSE /\ listen_fd = FALSE
    /\ accept_tasker = FALSE /\ accept_stop = FALSE /\ disposed = FALSE
    /\ client_slot_count = 0 /\ active_client_count = 0
    /\ is_active = [s \in AllSlots |-> FALSE] /\ client_fd = [s \in AllSlots |-> NoConn]
    /\ tasker = [s \in AllSlots |-> FALSE]
    /\ stop = [s \in AllSlots |-> FALSE] /\ ready = [s \in AllSlots |-> FALSE]
    /\ apc = "none" /\ afd = NoConn /\ aslot = NoSlot
    /\ kpc = [s \in AllSlots |-> "none"] /\ opc = "idle"
    /\ conn = [c \in Conns |-> "none"] /\ shut = {} /\ listen_shut = FALSE
    /\ closes = [c \in Conns |-> 0]

LockFree == apc # "starting"

CloseConn(c) == /\ conn' = [conn EXCEPT ![c] = "closed"]
                /\ closes' = [closes EXCEPT ![c] = @ + 1]

\* A peer connects; the kernel queues it on the listening socket.
Connect(c) ==
    /\ conn[c] = "none" /\ listen_fd /\ ~listen_shut
    /\ conn' = [conn EXCEPT ![c] = "backlog"]
    /\ UNCHANGED <<server, slots, accept, kpc, opc, shut, listen_shut, closes>>

(***************************************************************************)
(* _accept_task_entry                                                      *)
(***************************************************************************)

\* dttasker_poll, then accept() with the current listen_fd: EBADF if closed.
AcceptPoll ==
    /\ apc = "poll"
    /\ apc' = IF accept_stop \/ ~listen_fd THEN "done" ELSE "accept"
    /\ UNCHANGED <<server, slots, afd, aslot, kpc, opc, kernel>>

AcceptReturns(c) ==
    /\ apc = "accept" /\ conn[c] = "backlog" /\ ~listen_shut
    /\ conn' = [conn EXCEPT ![c] = "open"]
    /\ afd' = c /\ apc' = "admit"
    /\ UNCHANGED <<server, slots, aslot, kpc, opc, shut, listen_shut, closes>>

\* shutdown() makes a blocked accept() fail with EINVAL.
AcceptShut ==
    /\ apc = "accept" /\ listen_shut
    /\ apc' = "done"
    /\ UNCHANGED <<server, slots, afd, aslot, kpc, opc, kernel>>

\* EINTR, or any other error.
AcceptError ==
    /\ apc = "accept"
    /\ \/ apc' = "poll"
       \/ stop_requested /\ apc' = "done"
    /\ UNCHANGED <<server, slots, afd, aslot, kpc, opc, kernel>>

\* Mutant: a finished slot is reaped without a join.
Mutant_ReapUnjoined(s) == ~is_active[s] /\ tasker[s]

\* _try_reap_finished_slot: its join does not wait, so it reaps a slot only
\* when the client thread has exited.
Reapable(s) == ~is_active[s] /\ tasker[s] /\ kpc[s] = "exited"

Reaped == [s \in AllSlots |-> tasker[s] /\ ~(s \in Slots /\ Reapable(s))]

\* _find_free_slot, after the reaping.
Free(s) == ~is_active[s] /\ ~Reaped[s]

\* Under the lock: the reaping, then the limit and the search for a slot.
AdmitRejects ==
    /\ apc = "admit"
    /\ tasker' = Reaped
    /\ active_client_count >= client_slot_count \/ \A s \in Slots : ~Free(s)
    /\ apc' = "reject"
    /\ UNCHANGED <<server, is_active, client_fd, active_client_count, stop, ready, afd, aslot,
                   kpc, opc, kernel>>

\* dttasker_create fails, or pthread_create in dttasker_start does: the slot is
\* given up, and the connection is closed once the lock is released.
AdmitFails ==
    /\ apc = "admit"
    /\ tasker' = Reaped
    /\ active_client_count < client_slot_count /\ \E s \in Slots : Free(s)
    /\ apc' = "drop"
    /\ UNCHANGED <<server, is_active, client_fd, active_client_count, stop, ready, afd, aslot,
                   kpc, opc, kernel>>

\* The connection goes to the first free slot, and its task is started.
AdmitStarts(s) ==
    /\ apc = "admit"
    /\ active_client_count < client_slot_count
    /\ s \in Slots /\ Free(s) /\ \A t \in 1..(s - 1) : ~Free(t)
    /\ tasker' = [Reaped EXCEPT ![s] = TRUE]
    /\ is_active' = [is_active EXCEPT ![s] = TRUE]
    /\ client_fd' = [client_fd EXCEPT ![s] = afd]
    /\ stop' = [stop EXCEPT ![s] = FALSE] /\ ready' = [ready EXCEPT ![s] = FALSE]
    /\ kpc' = [kpc EXCEPT ![s] = "entry"]
    /\ aslot' = s /\ apc' = "starting"
    /\ UNCHANGED <<server, active_client_count, afd, opc, kernel>>

\* Mutant: the client is not counted.
Mutant_StartedUncounted ==
    /\ apc = "starting" /\ ready[aslot]
    /\ afd' = NoConn /\ aslot' = NoSlot /\ apc' = "poll"
    /\ UNCHANGED <<server, slots, kpc, opc, kernel>>

\* dttasker_start returns after the client's ready(); the lock is released.
AdmitStarted ==
    /\ apc = "starting" /\ ready[aslot]
    /\ active_client_count' = active_client_count + 1
    /\ afd' = NoConn /\ aslot' = NoSlot /\ apc' = "poll"
    /\ UNCHANGED <<server, is_active, client_fd, tasker, stop, ready, kpc, opc, kernel>>

\* Mutant: the error path of the accept loop does not close the connection.
Mutant_DropWithoutClose ==
    /\ apc \in {"reject", "drop"}
    /\ IF apc = "reject" THEN CloseConn(afd) ELSE UNCHANGED <<conn, closes>>
    /\ afd' = NoConn /\ apc' = "poll"
    /\ UNCHANGED <<server, slots, aslot, kpc, opc, shut, listen_shut>>

\* A connection that was not admitted is closed; over the limit, after a 503.
AcceptCloses ==
    /\ apc \in {"reject", "drop"}
    /\ CloseConn(afd)
    /\ afd' = NoConn /\ apc' = "poll"
    /\ UNCHANGED <<server, slots, aslot, kpc, opc, shut, listen_shut>>

(***************************************************************************)
(* _client_task_entry                                                      *)
(***************************************************************************)
KGoto(s, place) == kpc' = [kpc EXCEPT ![s] = place]

\* dttasker_ready posts the ready semaphore; if it fails, the task goes to its
\* cleanup without a post.
ClientReady(s) ==
    /\ kpc[s] = "entry"
    /\ \/ KGoto(s, "poll") /\ ready' = [ready EXCEPT ![s] = TRUE]
       \/ KGoto(s, "closing") /\ UNCHANGED ready
    /\ UNCHANGED <<server, is_active, client_fd, tasker, active_client_count, stop, accept, opc,
                   kernel>>

\* setsockopt may fail; dttasker_poll may say stop.
ClientPoll(s) ==
    /\ kpc[s] = "poll"
    /\ \/ ~stop[s] /\ KGoto(s, "reading")
       \/ KGoto(s, "closing")
    /\ UNCHANGED <<server, slots, accept, opc, kernel>>

\* _read_http_request: a request, or an error; every recv() has a time limit.
ClientReads(s) ==
    /\ kpc[s] = "reading"
    /\ \/ client_fd[s] \notin shut /\ KGoto(s, "handling")
       \/ KGoto(s, "closing")
    /\ UNCHANGED <<server, slots, accept, opc, kernel>>

\* _handle_get, _handle_post or the 405: send() has no time limit, so it takes
\* a peer that reads, one that goes away, or a shutdown.
ClientServes(s) ==
    /\ kpc[s] = "handling"
    /\ KGoto(s, "closing")
    /\ UNCHANGED <<server, slots, accept, opc, kernel>>

\* _close_if_open: close(), then the descriptor in the slot is cleared.
ClientCloses(s) ==
    /\ kpc[s] = "closing"
    /\ CloseConn(client_fd[s])
    /\ KGoto(s, "closed")
    /\ UNCHANGED <<server, slots, accept, opc, shut, listen_shut>>

ClientClears(s) ==
    /\ kpc[s] = "closed"
    /\ client_fd' = [client_fd EXCEPT ![s] = NoConn]
    /\ KGoto(s, "marking")
    /\ UNCHANGED <<server, is_active, tasker, active_client_count, stop, ready, accept, opc, kernel>>

\* _mark_slot_finished, under the lock.
ClientMarks(s) ==
    /\ kpc[s] = "marking" /\ LockFree
    /\ is_active' = [is_active EXCEPT ![s] = FALSE]
    /\ active_client_count' = IF is_active[s] /\ active_client_count > 0
                              THEN active_client_count - 1 ELSE active_client_count
    /\ KGoto(s, "exiting")
    /\ UNCHANGED <<server, client_fd, tasker, stop, ready, accept, opc, kernel>>

ClientExits(s) ==
    /\ kpc[s] = "exiting"
    /\ KGoto(s, "exited")
    /\ UNCHANGED <<server, slots, accept, opc, kernel>>

(***************************************************************************)
(* The owner                                                               *)
(***************************************************************************)

\* dthttpd_linux_socket_configure, of a server that is not started: what the
\* slots still hold is closed and disposed, and new slots are allocated.
Configure(n) ==
    /\ opc = "idle" /\ ~disposed /\ ~is_started
    /\ client_slot_count' = n /\ active_client_count' = 0
    /\ is_active' = [s \in AllSlots |-> FALSE] /\ client_fd' = [s \in AllSlots |-> NoConn]
    /\ tasker' = [s \in AllSlots |-> FALSE]
    /\ closes' = [c \in Conns |-> IF \E s \in Slots : client_fd[s] = c THEN closes[c] + 1 ELSE closes[c]]
    /\ conn' = [c \in Conns |-> IF \E s \in Slots : client_fd[s] = c THEN "closed" ELSE conn[c]]
    /\ UNCHANGED <<is_started, stop_requested, listen_fd, accept_tasker, disposed, accept_stop,
                   stop, ready, accept, kpc, opc, shut, listen_shut>>

\* dthttpd_linux_socket_loop.  A port that is still bound refuses the bind.  An
\* accept task whose ready() fails ends, and dttasker_start does not say so.
Loop ==
    /\ opc = "idle" /\ ~disposed /\ ~is_started
    /\ client_slot_count > 0 /\ ~listen_fd
    /\ listen_fd' = TRUE /\ listen_shut' = FALSE /\ stop_requested' = FALSE
    /\ accept_tasker' = TRUE /\ accept_stop' = FALSE
    /\ is_started' = TRUE
    /\ apc' \in {"poll", "done"}
    /\ UNCHANGED <<client_slot_count, disposed, slots, afd, aslot, kpc, opc, conn, shut, closes>>

\* dttasker_create or dttasker_start fails: listen_fd stays in the server.
LoopFails ==
    /\ opc = "idle" /\ ~disposed /\ ~is_started
    /\ client_slot_count > 0 /\ ~listen_fd
    /\ listen_fd' = TRUE /\ listen_shut' = FALSE /\ stop_requested' = FALSE
    /\ accept_tasker' \in BOOLEAN /\ accept_stop' = FALSE
    /\ UNCHANGED <<is_started, client_slot_count, disposed, slots, accept, kpc, opc, conn, shut, closes>>

\* dthttpd_linux_socket_stop, in three steps.
StopAccept ==
    /\ opc = "idle" /\ ~disposed
    /\ stop_requested' = TRUE
    /\ accept_stop' = (accept_tasker \/ accept_stop)
    /\ opc' = "stop_listen"
    /\ UNCHANGED <<is_started, listen_fd, accept_tasker, client_slot_count, disposed, slots,
                   accept, kpc, kernel>>

\* Mutant: the listening socket is closed but not shut down.
Mutant_StopWithoutShutdown ==
    /\ opc = "stop_listen"
    /\ listen_fd' = FALSE
    /\ conn' = [c \in Conns |-> IF conn[c] = "backlog" THEN "none" ELSE conn[c]]
    /\ opc' = "stop_clients"
    /\ UNCHANGED <<is_started, stop_requested, accept_tasker, client_slot_count, disposed,
                   accept_stop, slots, accept, kpc, shut, listen_shut, closes>>

\* shutdown and close of the listening socket; the kernel drops its backlog.
StopListen ==
    /\ opc = "stop_listen"
    /\ listen_shut' = (listen_fd \/ listen_shut) /\ listen_fd' = FALSE
    /\ conn' = [c \in Conns |-> IF conn[c] = "backlog" THEN "none" ELSE conn[c]]
    /\ opc' = "stop_clients"
    /\ UNCHANGED <<is_started, stop_requested, accept_tasker, client_slot_count, disposed,
                   accept_stop, slots, accept, kpc, shut, closes>>

StopClients ==
    /\ opc = "stop_clients" /\ LockFree
    /\ LET Told == {s \in Slots : is_active[s] /\ tasker[s]}
       IN  /\ stop' = [s \in AllSlots |-> stop[s] \/ s \in Told]
           /\ shut' = shut \cup {client_fd[s] : s \in {t \in Told : client_fd[t] # NoConn}}
    /\ opc' = "idle"
    /\ UNCHANGED <<server, is_active, client_fd, tasker, active_client_count, ready, accept, kpc,
                   conn, listen_shut, closes>>

\* dthttpd_linux_socket_join: the accept task, then the client tasks in turn;
\* a timeout of either returns to the owner, who may call again.
JoinCall ==
    /\ opc = "idle" /\ ~disposed
    /\ opc' = IF accept_tasker THEN "join_accept" ELSE "join_clients"
    /\ UNCHANGED <<server, slots, accept, kpc, kernel>>

JoinAccept ==
    /\ opc = "join_accept" /\ apc \in {"none", "done"}
    /\ accept_tasker' = FALSE /\ apc' = "none"
    /\ opc' = "join_clients"
    /\ UNCHANGED <<is_started, stop_requested, listen_fd, client_slot_count, disposed,
                   accept_stop, slots, afd, aslot, kpc, kernel>>

JoinClient(s) ==
    /\ opc = "join_clients" /\ s \in Slots /\ tasker[s] /\ \A t \in 1..(s - 1) : ~tasker[t]
    /\ kpc[s] = "exited"
    /\ tasker' = [tasker EXCEPT ![s] = FALSE]
    /\ IF client_fd[s] = NoConn THEN UNCHANGED <<conn, closes>> ELSE CloseConn(client_fd[s])
    /\ client_fd' = [client_fd EXCEPT ![s] = NoConn]
    /\ UNCHANGED <<server, is_active, active_client_count, stop, ready, accept, kpc, opc, shut,
                   listen_shut>>

JoinTimesOut ==
    /\ \/ opc = "join_accept" /\ apc \notin {"none", "done"}
       \/ opc = "join_clients" /\ \E s \in Slots : tasker[s] /\ kpc[s] # "exited"
    /\ opc' = "idle"
    /\ UNCHANGED <<server, slots, accept, kpc, kernel>>

JoinDone ==
    /\ opc = "join_clients" /\ \A s \in Slots : ~tasker[s]
    /\ is_started' = FALSE /\ active_client_count' = 0
    /\ opc' = "idle"
    /\ UNCHANGED <<stop_requested, listen_fd, accept_tasker, client_slot_count, disposed,
                   accept_stop, is_active, client_fd, tasker, stop, ready, accept, kpc, kernel>>

\* dthttpd_linux_socket_dispose, of a server that was joined: that much is the
\* owner's duty.
Dispose ==
    /\ opc = "idle" /\ ~disposed /\ ~is_started
    /\ disposed' = TRUE /\ listen_fd' = FALSE /\ listen_shut' = TRUE
    /\ accept_tasker' = FALSE /\ tasker' = [s \in AllSlots |-> FALSE]
    /\ conn' = [c \in Conns |-> IF conn[c] = "backlog" THEN "none" ELSE conn[c]]
    /\ UNCHANGED <<is_started, stop_requested, client_slot_count, accept_stop, is_active, client_fd,
                   active_client_count, stop, ready, accept, kpc, opc, shut, closes>>

AcceptStep == \/ AcceptPoll \/ AcceptShut \/ AdmitRejects \/ AdmitFails
              \/ AdmitStarted \/ AcceptCloses
              \/ \E c \in Conns : AcceptReturns(c)
              \/ \E s \in AllSlots : AdmitStarts(s)
ClientStep(s) == \/ ClientReady(s) \/ ClientPoll(s) \/ ClientReads(s) \/ ClientCloses(s)
                 \/ ClientClears(s) \/ ClientMarks(s) \/ ClientExits(s)
OwnerCall == \/ Loop \/ LoopFails \/ StopAccept \/ JoinCall \/ Dispose
             \/ \E n \in AllSlots : Configure(n)
OwnerStep == StopListen \/ StopClients \/ JoinAccept \/ JoinDone \/ \E s \in AllSlots : JoinClient(s)

Next ==
    \/ AcceptStep \/ AcceptError \/ OwnerCall \/ OwnerStep \/ JoinTimesOut
    \/ \E c \in Conns : Connect(c)
    \/ \E s \in AllSlots : ClientStep(s) \/ ClientServes(s)

Spec == Init /\ [][Next]_vars

\* Threads run, and recv() times out.  accept() returns when it has something
\* to return; an error or a signal is not owed.  A send() ends by itself only when the
\* socket was shut down; whether a peer reads its answer is not for the server
\* to promise.
FairSpec ==
    /\ Spec
    /\ WF_vars(AcceptStep) /\ WF_vars(OwnerStep)
    /\ \A s \in AllSlots : WF_vars(ClientStep(s)) /\ WF_vars(client_fd[s] \in shut /\ ClientServes(s))

(***************************************************************************)
(* Properties                                                              *)
(***************************************************************************)
Running(s) == kpc[s] \notin {"none", "exited"}

\* active_client_count, kept by the accept task, the client tasks and join, is
\* the number of active slots whenever the lock is free.
CountMatches ==
    LockFree => active_client_count = Cardinality({s \in Slots : is_active[s]})

\* An accepted connection is closed once.  Whoever holds an open one is still
\* going to close it: the accept task has it in hand, or one client thread that
\* has not closed it yet does.  And neither join nor configure closes what a
\* client task has closed: the second close would hit whatever file has the
\* number by then.
ClosedExactlyOnce ==
    \A c \in Conns :
        /\ conn[c] = "open" =>
              \/ afd = c /\ apc \in {"admit", "reject", "drop"}
              \/ \E s \in Slots : client_fd[s] = c /\ Running(s) /\ kpc[s] \notin {"closed", "marking", "exiting"}
        /\ closes[c] <= 1

\* A tasker and its slot are reused, joined away or disposed only when the
\* client thread that uses them has exited.
SlotOutlivesThread == \A s \in AllSlots : Running(s) => tasker[s] /\ s \in Slots /\ ~disposed

\* The accept task holds the lock and waits for a client whose ready() failed
\* and that needs the lock to end: neither goes on, and nobody else can.
ReadyFailed == apc = "starting" /\ ~ready[aslot] /\ kpc[aslot] # "entry"

\* Once an accepted connection is in hand it ends closed, unless its peer does
\* not read the answer and nobody shut the socket down, or a ready() failed.
ConnectionEnds ==
    \A c \in Conns : conn[c] = "open" ~>
        \/ conn[c] = "closed" \/ ReadyFailed
        \/ \E s \in AllSlots : client_fd[s] = c /\ kpc[s] = "handling" /\ c \notin shut

\* After a stop, a join returns.  Only a client the accept task admitted after
\* stop had gone over the slots can hold it up, by not reading its answer, or a
\* client whose ready() failed.
StoppedServerJoins ==
    (opc \in {"join_accept", "join_clients"} /\ stop_requested) ~>
        (opc = "idle" \/ ReadyFailed \/ \E s \in Slots : kpc[s] = "handling" /\ client_fd[s] \notin shut)

=============================================================================
