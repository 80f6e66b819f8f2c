-------------------------------- MODULE IoxTcp --------------------------------
(***************************************************************************)
(* The TCP byte stream of dtiox_linux_tcp.c.  A receive task per attach    *)
(* moves what recv() returns into a FIFO that the reader empties; the two  *)
(* share fd, is_connected, rx_enabled and rx_overflow_flag with the        *)
(* owner's attach, detach, enable and write, and none of them is guarded   *)
(* by a lock.  A step of this module is therefore one access to that       *)
(* shared state, or one system call.                                       *)
(*                                                                         *)
(* A descriptor is the number of the session that opened it; 0 stands for  *)
(* -1.  A byte is its place among all bytes that were received.            *)
(***************************************************************************)
EXTENDS Integers, Sequences

CONSTANTS Capacity,      \* rx_fifo_capacity
          ChunkMax,      \* the most that one recv() returns; 1024 in the code
          BufLen,        \* buf_len of the reader's calls
          MaxSessions,   \* bounds of model checking: connections made,
          MaxBytes,      \*   bytes received,
          MaxEnables,    \*   calls of enable,
          MayFailTask    \* may dttasker_create or dttasker_start fail?

ASSUME SizesAssumption == {Capacity, ChunkMax, BufLen, MaxSessions} \subseteq Nat \ {0}
ASSUME BoundsAssumption == {MaxBytes, MaxEnables} \subseteq Nat /\ MayFailTask \in BOOLEAN

Sessions == 1 .. MaxSessions
Fds == 0 .. MaxSessions
Bytes == 1 .. MaxBytes

VARIABLES
    fd, listen_fd, is_connected, rx_enabled, rx_overflow_flag,  \* dtiox_linux_tcp_t
    fifo, sem,       \* rx_fifo, and the count of rx_semaphore
    rx,              \* the receive tasks, one per session
    owner, enables,  \* the thread that attaches and enables
    reader,          \* the thread that waits on rx_semaphore and reads
    sessions, peer,  \* the network: connections made, and their other ends
    received,        \* history: bytes that recv() returned,
    last, ordered,   \*   the last byte read, and whether every byte read came after those before it,
    missing, late,   \*   the first byte dropped and not yet reported, reads that went past it,
    detached         \*   a detach since the last attach
shared == <<fd, listen_fd, is_connected, rx_enabled, rx_overflow_flag, fifo, sem>>
net    == <<sessions, peer, received>>
app    == <<owner, enables, reader, detached>>
gap    == <<missing, late>>
read   == <<last, ordered>>
vars   == <<shared, rx, app, net, read, gap>>

Least(a, b) == IF a < b THEN a ELSE b

RxPlaces == {"none", "call", "recv", "got", "flag", "post", "mark", "closefd", "closelisten", "wake", "ended"}
RxType == [pc : RxPlaces, fd : Fds, chunk : Seq(Bytes)]

TypeOK ==
    /\ fd \in Fds /\ listen_fd \in Fds /\ sem \in Nat
    /\ is_connected \in BOOLEAN /\ rx_enabled \in BOOLEAN /\ rx_overflow_flag \in BOOLEAN
    /\ fifo \in Seq(Bytes) /\ Len(fifo) <= Capacity
    /\ rx \in [Sessions -> RxType]
    /\ owner \in {"idle", "connect", "reset", "clear"} /\ enables \in 0 .. MaxEnables
    /\ reader \in {"wait", "read", "check", "overflow", "pop", "told"}
    /\ sessions \in Fds /\ received \in 0 .. MaxBytes /\ detached \in BOOLEAN
    /\ peer \in [Sessions -> {"none", "open", "closed"}]
    /\ last \in 0 .. MaxBytes /\ ordered \in BOOLEAN /\ missing \in 0 .. MaxBytes /\ late \in Nat

\* dtiox_linux_tcp_init and dtiox_linux_tcp_configure.
Init ==
    /\ fd = 0 /\ listen_fd = 0 /\ is_connected = FALSE
    /\ rx_enabled = TRUE /\ rx_overflow_flag = FALSE
    /\ fifo = <<>> /\ sem = 0
    /\ rx = [s \in Sessions |-> [pc |-> "none", fd |-> 0, chunk |-> <<>>]]
    /\ owner = "idle" /\ enables = 0 /\ reader = "wait" /\ detached = FALSE
    /\ sessions = 0 /\ received = 0
    /\ peer = [s \in Sessions |-> "none"]
    /\ last = 0 /\ ordered = TRUE /\ missing = 0 /\ late = 0

RxAt(s, p) == rx[s].pc = p
RxGoes(s, p) == rx' = [rx EXCEPT ![s].pc = p]
\* History: bytes that did not fit; the reader is told, or starts afresh.
Dropped(bytes) == missing' = (IF missing = 0 /\ bytes # <<>> THEN bytes[1] ELSE missing) /\ UNCHANGED late
Told == missing' = 0 /\ late' = 0

RxEnded == \A s \in Sessions : rx[s].pc \in {"none", "ended"}

(***************************************************************************)
(* The peers, and the connection below the sockets                         *)
(***************************************************************************)
PeerCloses(s) ==
    /\ peer[s] = "open"
    /\ peer' = [peer EXCEPT ![s] = "closed"]
    /\ UNCHANGED <<shared, rx, app, sessions, received, read, gap>>

(***************************************************************************)
(* The owner: attach, detach, enable and write                             *)
(***************************************************************************)

\* Mutant: attach does not look whether it is attached.
Mutant_AttachUnchecked ==
    /\ owner = "idle" /\ sessions < MaxSessions
    /\ detached => RxEnded
    /\ owner' = "connect"
    /\ UNCHANGED <<shared, rx, enables, reader, detached, net, read, gap>>

\* dtiox_linux_tcp_attach returns at once while fd is open.  An owner that
\* has detached attaches again only when the receive task has told it, through
\* the info callback, that it ended.
AttachCheck ==
    /\ owner = "idle" /\ sessions < MaxSessions
    /\ detached => RxEnded
    /\ fd = 0
    /\ owner' = "connect"
    /\ UNCHANGED <<shared, rx, enables, reader, detached, net, read, gap>>

\* _connect_client_socket, or _bind_and_accept_server_socket, which alone
\* opens a listening socket; then the receive task is started.
AttachConnects ==
    /\ owner = "connect"
    /\ sessions' = sessions + 1
    /\ fd' = sessions'
    /\ listen_fd' \in {0, sessions'}
    /\ is_connected' = TRUE
    /\ peer' = [peer EXCEPT ![sessions'] = "open"]
    /\ RxGoes(sessions', "call")
    /\ owner' = "idle" /\ detached' = FALSE
    /\ UNCHANGED <<rx_enabled, rx_overflow_flag, fifo, sem, enables, reader, received, read, gap>>

\* No connection: nothing was assigned yet.
AttachFails ==
    /\ owner = "connect"
    /\ owner' = "idle"
    /\ UNCHANGED <<shared, rx, enables, reader, detached, net, read, gap>>

\* The task cannot be started: the local copies of the descriptors are closed,
\* and fd, listen_fd and is_connected keep what was assigned to them.
AttachTaskFails ==
    /\ MayFailTask /\ owner = "connect"
    /\ sessions' = sessions + 1
    /\ fd' = sessions'
    /\ listen_fd' \in {0, sessions'}
    /\ is_connected' = TRUE
    /\ owner' = "idle"
    /\ UNCHANGED <<peer, rx, rx_enabled, rx_overflow_flag, fifo, sem, enables, reader, detached, received,
                   read, gap>>

\* dtiox_linux_tcp_detach.  close() does not end a recv() that is under way.
Detach ==
    /\ owner = "idle" /\ fd # 0
    /\ is_connected' = FALSE /\ fd' = 0 /\ listen_fd' = 0
    /\ detached' = TRUE
    /\ UNCHANGED <<rx_enabled, rx_overflow_flag, fifo, sem, rx, owner, enables, reader, net, read, gap>>

\* dtiox_linux_tcp_enable, in its three accesses to what the tasks share.  It
\* throws away what the FIFO holds, and with it the report of what was dropped.
\* A reader that was told of a disconnection reads on after the enable that
\* follows the next attach.
EnableSet(enabled) ==
    /\ owner = "idle" /\ enables < MaxEnables
    /\ enables' = enables + 1
    /\ rx_enabled' = enabled
    /\ owner' = "reset"
    /\ UNCHANGED <<fd, listen_fd, is_connected, rx_overflow_flag, fifo, sem, rx, reader, detached, net,
                   read, gap>>

EnableReset ==
    /\ owner = "reset"
    /\ fifo' = <<>> /\ Told
    /\ owner' = "clear"
    /\ UNCHANGED <<fd, listen_fd, is_connected, rx_enabled, rx_overflow_flag, sem, rx, enables, reader, detached,
                   net, read>>

EnableClear ==
    /\ owner = "clear"
    /\ rx_overflow_flag' = FALSE /\ Told
    /\ reader' = IF reader = "told" /\ is_connected THEN "wait" ELSE reader
    /\ owner' = "idle"
    /\ UNCHANGED <<fd, listen_fd, is_connected, rx_enabled, fifo, sem, rx, enables, detached, net, read>>

\* dtiox_linux_tcp_write on a connection the peer has left: send() fails.  A
\* write that succeeds leaves no trace in this state.
WriteFails ==
    /\ owner = "idle" /\ fd # 0 /\ is_connected
    /\ peer[fd] # "open"
    /\ is_connected' = FALSE
    /\ UNCHANGED <<fd, listen_fd, rx_enabled, rx_overflow_flag, fifo, sem, rx, app, net, read, gap>>

(***************************************************************************)
(* The receive task                                                        *)
(***************************************************************************)

\* recv(self->fd): the descriptor is read anew for every call.
RxCall(s) ==
    /\ RxAt(s, "call")
    /\ rx' = [rx EXCEPT ![s].pc = IF fd = 0 THEN "mark" ELSE "recv", ![s].fd = fd]
    /\ UNCHANGED <<shared, app, net, read, gap>>

\* recv() returns bytes; they are dropped here while reception is disabled.
RxReceives(s) ==
    /\ RxAt(s, "recv") /\ peer[rx[s].fd] # "none"
    /\ \E n \in 1 .. Least(ChunkMax, MaxBytes - received) :
          /\ received' = received + n
          /\ rx' = [rx EXCEPT ![s].pc = IF rx_enabled THEN "got" ELSE "call",
                              ![s].chunk = IF rx_enabled THEN [i \in 1 .. n |-> received + i] ELSE <<>>,
                              ![s].fd = 0]
    /\ UNCHANGED <<shared, app, sessions, peer, read, gap>>

\* recv() returns 0 after the last byte, or an error at any time.
RxEnds(s) ==
    /\ RxAt(s, "recv") /\ peer[rx[s].fd] # "open"
    /\ rx' = [rx EXCEPT ![s].pc = "mark", ![s].fd = 0]
    /\ UNCHANGED <<shared, app, net, read, gap>>

\* Mutant: an overflow is not noticed.
Mutant_PushUncounted(s) ==
    LET room == Capacity - Len(fifo)
        n    == Least(room, Len(rx[s].chunk))
    IN /\ RxAt(s, "got")
       /\ fifo' = fifo \o SubSeq(rx[s].chunk, 1, n)
       /\ Dropped(SubSeq(rx[s].chunk, n + 1, Len(rx[s].chunk)))
       /\ rx' = [rx EXCEPT ![s].pc = "post", ![s].chunk = <<>>]
       /\ UNCHANGED <<fd, listen_fd, is_connected, rx_enabled, rx_overflow_flag, sem, app, net, read>>

\* Mutant: a chunk that fills the FIFO is taken for an overflow.
Mutant_PushFillsIsOverflow(s) ==
    LET room == Capacity - Len(fifo)
        n    == Least(room, Len(rx[s].chunk))
    IN /\ RxAt(s, "got")
       /\ fifo' = fifo \o SubSeq(rx[s].chunk, 1, n)
       /\ Dropped(SubSeq(rx[s].chunk, n + 1, Len(rx[s].chunk)))
       /\ rx' = [rx EXCEPT ![s].pc = IF n = room THEN "flag" ELSE "post", ![s].chunk = <<>>]
       /\ UNCHANGED <<fd, listen_fd, is_connected, rx_enabled, rx_overflow_flag, sem, app, net, read>>

\* dtringfifo_push takes what fits, and returns how much that was.
RxPush(s) ==
    LET room == Capacity - Len(fifo)
        n    == Least(room, Len(rx[s].chunk))
    IN /\ RxAt(s, "got")
       /\ fifo' = fifo \o SubSeq(rx[s].chunk, 1, n)
       /\ Dropped(SubSeq(rx[s].chunk, n + 1, Len(rx[s].chunk)))
       /\ rx' = [rx EXCEPT ![s].pc = IF n < Len(rx[s].chunk) THEN "flag" ELSE "post", ![s].chunk = <<>>]
       /\ UNCHANGED <<fd, listen_fd, is_connected, rx_enabled, rx_overflow_flag, sem, app, net, read>>

\* Bytes were dropped: the flag is raised and nobody is woken.
RxFlags(s) ==
    /\ RxAt(s, "flag")
    /\ rx_overflow_flag' = TRUE
    /\ RxGoes(s, "call")
    /\ UNCHANGED <<fd, listen_fd, is_connected, rx_enabled, fifo, sem, app, net, read, gap>>

RxPosts(s) ==
    /\ RxAt(s, "post")
    /\ sem' = sem + 1
    /\ RxGoes(s, "call")
    /\ UNCHANGED <<fd, listen_fd, is_connected, rx_enabled, rx_overflow_flag, fifo, app, net, read, gap>>

\* The task's cleanup, one shared field after the other.
RxMarks(s) ==
    /\ RxAt(s, "mark")
    /\ is_connected' = FALSE
    /\ RxGoes(s, "closefd")
    /\ UNCHANGED <<fd, listen_fd, rx_enabled, rx_overflow_flag, fifo, sem, app, net, read, gap>>

RxClosesFd(s) ==
    /\ RxAt(s, "closefd")
    /\ fd' = 0
    /\ RxGoes(s, "closelisten")
    /\ UNCHANGED <<listen_fd, is_connected, rx_enabled, rx_overflow_flag, fifo, sem, app, net, read, gap>>

\* Mutant: the connection is marked as lost after its descriptor was given up.
Mutant_MarkLast(s) ==
    /\ RxAt(s, "closelisten")
    /\ listen_fd' = 0 /\ is_connected' = FALSE
    /\ RxGoes(s, "wake")
    /\ UNCHANGED <<fd, rx_enabled, rx_overflow_flag, fifo, sem, app, net, read, gap>>

RxClosesListen(s) ==
    /\ RxAt(s, "closelisten")
    /\ listen_fd' = 0
    /\ RxGoes(s, "wake")
    /\ UNCHANGED <<fd, is_connected, rx_enabled, rx_overflow_flag, fifo, sem, app, net, read, gap>>

\* Mutant: nobody wakes the reader.
Mutant_EndSilently(s) ==
    /\ RxAt(s, "wake")
    /\ RxGoes(s, "ended")
    /\ UNCHANGED <<shared, app, net, read, gap>>

RxWakes(s) ==
    /\ RxAt(s, "wake")
    /\ sem' = sem + 1
    /\ RxGoes(s, "ended")
    /\ UNCHANGED <<fd, listen_fd, is_connected, rx_enabled, rx_overflow_flag, fifo, app, net, read, gap>>

Rx(s) ==
    \/ RxCall(s) \/ RxReceives(s) \/ RxEnds(s)
    \/ RxPush(s) \/ RxFlags(s) \/ RxPosts(s)
    \/ RxMarks(s) \/ RxClosesFd(s) \/ RxClosesListen(s) \/ RxWakes(s)

(***************************************************************************)
(* The reader: one unit of the semaphore, then dtiox_linux_tcp_read until  *)
(* it returns nothing                                                      *)
(***************************************************************************)
ReaderWakes ==
    /\ reader = "wait" /\ sem > 0
    /\ sem' = sem - 1
    /\ reader' = "read"
    /\ UNCHANGED <<fd, listen_fd, is_connected, rx_enabled, rx_overflow_flag, fifo, rx, owner, enables, detached,
                   net, read, gap>>

\* read: a lost connection is an error, whatever the FIFO still holds.
ReadDisconnected ==
    /\ reader = "read" /\ ~is_connected
    /\ rx_overflow_flag' = FALSE /\ Told
    /\ reader' = "told"
    /\ UNCHANGED <<fd, listen_fd, is_connected, rx_enabled, fifo, sem, rx, owner, enables, detached, net, read>>

ReadConnected ==
    /\ reader = "read" /\ is_connected
    /\ reader' = "check"
    /\ UNCHANGED <<shared, rx, owner, enables, detached, net, read, gap>>

ReadChecked ==
    /\ reader = "check"
    /\ reader' = IF rx_overflow_flag THEN "overflow" ELSE "pop"
    /\ UNCHANGED <<shared, rx, owner, enables, detached, net, read, gap>>

\* read: an overflow is an error, once.
ReadOverflow ==
    /\ reader = "overflow"
    /\ rx_overflow_flag' = FALSE /\ Told
    /\ reader' = "read"
    /\ UNCHANGED <<fd, listen_fd, is_connected, rx_enabled, fifo, sem, rx, owner, enables, detached, net, read>>

\* read: dtringfifo_pop.
ReadPop ==
    LET n == Least(BufLen, Len(fifo)) IN
    /\ reader = "pop"
    /\ last' = IF n = 0 THEN last ELSE fifo[n]
    /\ ordered' = (ordered /\ \A i \in 1 .. n : fifo[i] > IF i = 1 THEN last ELSE fifo[i - 1])
    /\ fifo' = SubSeq(fifo, n + 1, Len(fifo))
    /\ late' = IF missing # 0 /\ \E i \in 1 .. n : fifo[i] > missing THEN late + 1 ELSE late
    /\ reader' = IF n = 0 THEN "wait" ELSE "read"
    /\ UNCHANGED <<fd, listen_fd, is_connected, rx_enabled, rx_overflow_flag, sem, rx, owner, enables, detached,
                   net, missing>>

Reader == ReaderWakes \/ ReadDisconnected \/ ReadConnected \/ ReadOverflow \/ ReadChecked \/ ReadPop

Owner ==
    \/ AttachCheck \/ AttachConnects \/ AttachFails \/ AttachTaskFails
    \/ Detach \/ WriteFails
    \/ \E enabled \in BOOLEAN : EnableSet(enabled)
    \/ EnableReset \/ EnableClear

Next ==
    \/ Owner \/ Reader
    \/ \E s \in Sessions : Rx(s) \/ PeerCloses(s)

Spec == Init /\ [][Next]_vars

(***************************************************************************)
(* Properties                                                              *)
(***************************************************************************)

\* Bytes reach the reader in the order in which they were received, none
\* twice, across reconnections too: two receive tasks never feed the FIFO at
\* the same time.
DeliveredInOrder == ordered

\* When the FIFO drops bytes, the reader gets an overflow error, and at most one
\* read returns bytes from beyond the gap before it does.  (The reader tests the
\* flag before it pops, and the receive task raises it after its push, so one
\* such read is possible.)
GapReported == late <= 1

\* A reader that goes back to waiting is not left beside bytes: when all
\* receive tasks have done what they had to do, the reader waits and no unit is
\* left, the FIFO is empty.  An overflow posts nothing, so this rests on the
\* post of an earlier chunk, on the reader emptying the FIFO, and on a FIFO
\* that holds the largest chunk.
NoStall ==
    (/\ reader = "wait" /\ sem = 0 /\ owner = "idle"
     /\ \A s \in Sessions : rx[s].pc \in {"none", "call", "recv", "ended"}) => fifo = <<>>

\* The cleanup of one session's receive task does not disturb the next
\* session: while the peer is there and the session's own task receives, the
\* stream is marked connected and its descriptor is the session's own.
LiveSessionConnected ==
    \A s \in Sessions :
       (s = sessions /\ peer[s] = "open" /\ rx[s].pc \in {"call", "recv", "got", "flag", "post"} /\ ~detached)
       => is_connected /\ fd = s

\* When the connection is lost the reader is told, although it waits on the
\* semaphore and no byte will come: the cleanup wakes it after is_connected was
\* cleared, and no earlier wake-up, pop or enable uses that unit up.
DisconnectTold ==
    (sessions > 0 /\ RxAt(sessions, "ended") /\ reader = "wait") => sem > 0
=============================================================================
