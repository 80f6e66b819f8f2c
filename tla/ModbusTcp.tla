------------------------------- MODULE ModbusTcp -------------------------------
(***************************************************************************)
(* The Modbus TCP byte streams: dtiox_linux_modbus_tcp_master*.c and       *)
(* dtiox_linux_modbus_tcp_slave*.c, composed over TCP connections.         *)
(*                                                                         *)
(* All traffic consists of requests of the master.  Its receive task polls *)
(* (write GIVE_ME_ANY_DATA, read the header, read the data) with the       *)
(* master's lock held over the three requests; a write of the application  *)
(* takes the same lock and writes PUT_BLOB.  The slave's task answers a    *)
(* request from its registers first and acts on the command afterwards.    *)
(*                                                                         *)
(* A byte is its place among all bytes written on its side.  Readers poll, *)
(* so the post of the slave's rx_semaphore has no counterpart here; the    *)
(* master never posts its own.                                             *)
(***************************************************************************)
EXTENDS Integers, Sequences, FiniteSets, SequencesExt

CONSTANTS MasterMax, SlaveMax,     \* max_blob_bytes of the two sides
          MasterCap, SlaveCap,     \* rx_ring_capacity of the two sides
          BufLen,                  \* buf_len of the readers' calls
          MaxBytes,                \* bounds of model checking: bytes the two sides write,
          MaxConns,                \*   connections made,
          MaxCalls                 \*   calls of attach, detach and enable on both sides, and empty writes

ASSUME SizesAssumption == {MasterMax, SlaveMax, MasterCap, SlaveCap, BufLen} \subseteq Nat \ {0}
ASSUME BoundsAssumption == {MaxBytes, MaxConns, MaxCalls} \subseteq Nat

VARIABLES
    m,               \* dtiox_linux_modbus_tcp_master_t; m.conn is the connection of m->mb, 0 for none
    lock,            \* who holds the master's lock; "left": an attach that failed holds it for ever
    rx, rxlen,       \* the master's receive task, and its byte_len
    app, blob,       \* the thread that writes to the master, and its buf
    s,               \* dtiox_linux_modbus_tcp_slave_t
    regs,            \* mb_map: command and blob of the master, length and data for the master
    task, session,   \* the slave's receive task, and the connection it accepted
    conns,           \* the connections
    given, put,      \* how many bytes the slave and the master were asked to write
    acked,           \* bytes whose write the master reported as done
    mread, mlost, mgone,   \* the master's reader: bytes read, overflowed and not yet reported, reported or discarded
    sread, slost, sgone,   \* the same for the slave's reader
    attached, calls  \* whether the master was attached, and how many such calls were made

master == <<m, lock, rx, rxlen, app, blob>>
slave  == <<s, regs, task, session>>
mhist  == <<mread, mlost, mgone>>
shist  == <<sread, slost, sgone>>
counts == <<attached, calls>>
vars   == <<master, slave, conns, given, put, acked, mhist, shist, counts>>

Least(a, b) == IF a < b THEN a ELSE b
First(seq, n) == SubSeq(seq, 1, Least(n, Len(seq)))
After(seq, n) == SubSeq(seq, Least(n, Len(seq)) + 1, Len(seq))
Consecutive(from, n) == [i \in 1 .. n |-> from + i]

RxRuns   == rx \in {"top", "want", "poll", "header", "data"}
TaskRuns == task \in {"accept", "receive", "process"}

MasterType == [enabled : BOOLEAN, connected : BOOLEAN, stop : BOOLEAN, dead : BOOLEAN, overflow : BOOLEAN,
               fifo : Seq(Nat), conn : 0 .. MaxConns]
SlaveType  == [listening : BOOLEAN, enabled : BOOLEAN, sessionStop : BOOLEAN, taskStop : BOOLEAN,
               overflow : BOOLEAN, fifo : Seq(Nat), pending : BOOLEAN, tx : Seq(Nat)]
RegsType   == [cmd : {"none", "poll", "put"}, m2s : Seq(Nat), len : Nat, data : Seq(Nat)]
QueryType  == [op : {"poll", "header", "data", "put"}, blob : Seq(Nat)]
AnswerType == [len : Nat, data : Seq(Nat)]
ConnType   == [open : BOOLEAN, late : BOOLEAN, queries : Seq(QueryType), answers : Seq(AnswerType)]

TypeOK ==
    /\ m \in MasterType
    /\ lock \in {"free", "rx", "app", "left"}
    /\ rx \in {"off", "top", "want", "poll", "header", "data", "ended"} /\ rxlen \in Nat
    /\ app \in {"idle", "want", "put"} /\ blob \in Seq(Nat)
    /\ s \in SlaveType /\ regs \in RegsType
    /\ task \in {"off", "accept", "receive", "process", "ended"} /\ session \in 0 .. MaxConns
    /\ conns \in Seq(ConnType) /\ Len(conns) <= MaxConns
    /\ given \in 0 .. MaxBytes /\ put \in 0 .. MaxBytes /\ acked \subseteq 1 .. put
    /\ {mread, sread} \subseteq Seq(Nat) /\ {mlost, mgone, slost, sgone} \subseteq SUBSET Nat
    /\ attached \in BOOLEAN /\ calls \in 0 .. MaxCalls

\* _init and _configure of both sides.
Init ==
    /\ m = [enabled |-> FALSE, connected |-> FALSE, stop |-> FALSE, dead |-> FALSE, overflow |-> FALSE,
            fifo |-> <<>>, conn |-> 0]
    /\ lock = "free" /\ rx = "off" /\ rxlen = 0 /\ app = "idle" /\ blob = <<>>
    /\ s = [listening |-> FALSE, enabled |-> FALSE, sessionStop |-> FALSE, taskStop |-> FALSE, overflow |-> FALSE,
            fifo |-> <<>>, pending |-> FALSE, tx |-> <<>>]
    /\ regs = [cmd |-> "none", m2s |-> <<>>, len |-> 0, data |-> <<>>]
    /\ task = "off" /\ session = 0 /\ conns = <<>>
    /\ given = 0 /\ put = 0 /\ acked = {}
    /\ mread = <<>> /\ mlost = {} /\ mgone = {} /\ sread = <<>> /\ slost = {} /\ sgone = {}
    /\ attached = FALSE /\ calls = 0

\* A call of attach, detach or enable, or an empty write: for the bound.
Called == calls < MaxCalls /\ calls' = calls + 1

(***************************************************************************)
(* libmodbus and the network below it                                      *)
(***************************************************************************)
Query(op, bytes) == [op |-> op, blob |-> bytes]
NewConn == [open |-> TRUE, late |-> FALSE, queries |-> <<>>, answers |-> <<>>]

\* A request goes out; on a connection that is gone it reaches nobody.
Sent(c, q) == IF c # 0 /\ conns[c].open
              THEN [conns EXCEPT ![c].queries = Append(@, q)]
              ELSE conns
\* The answer is there.  After a request that timed out the next answer belongs
\* to the older request, and libmodbus refuses it.
Answered(c) == c # 0 /\ conns[c].answers # <<>> /\ ~conns[c].late
Answer == Head(conns[m.conn].answers)
Taken(c) == [conns EXCEPT ![c].answers = Tail(@)]
\* An answer is taken and the next request goes out.
Followed(c, q) == [conns EXCEPT ![c].answers = Tail(@),
                                ![c].queries = IF conns[c].open THEN Append(@, q) ELSE @]
Closed(c) == IF c = 0 THEN conns ELSE [conns EXCEPT ![c].open = FALSE]

NetBreaks ==
    /\ \E c \in DOMAIN conns : conns[c].open /\ conns' = Closed(c)
    /\ UNCHANGED <<master, slave, given, put, acked, mhist, shist, counts>>

(***************************************************************************)
(* The master's application                                                *)
(***************************************************************************)

\* What attach resets before it connects.
Reset == [m EXCEPT !.enabled = TRUE, !.stop = FALSE, !.dead = FALSE, !.overflow = FALSE, !.conn = 0]

AttachBegins ==
    /\ app = "idle" /\ lock = "free" /\ Called
    /\ attached' = TRUE
    /\ mgone' = mgone \union mlost /\ mlost' = {}
    /\ UNCHANGED <<rxlen, app, blob, slave, given, put, acked, mread, shist>>

\* attach: a new libmodbus context, and ensure_connected, which believes
\* _is_connected.  Neither detach nor the receive task clears that flag, so the
\* new context may stay without a connection.
AttachConnects ==
    IF m.connected
    THEN m' = Reset /\ UNCHANGED conns
    ELSE /\ s.listening /\ Len(conns) < MaxConns
         /\ conns' = Append(conns, NewConn)
         /\ m' = [Reset EXCEPT !.connected = TRUE, !.conn = Len(conns) + 1]

\* attach: the receive task says that it is ready before it asks for the lock
\* that attach holds.
MasterAttach ==
    /\ AttachBegins /\ AttachConnects
    /\ ~RxRuns /\ rx' = "top" /\ UNCHANGED lock

\* attach: modbus_connect fails.
MasterAttachFails ==
    /\ AttachBegins /\ ~m.connected
    /\ m' = Reset /\ UNCHANGED <<lock, rx, conns>>

\* attach: dttasker_start refuses a task that still runs, or fails; the error
\* path jumps over the release of the lock.
MasterAttachLeavesLock ==
    /\ AttachBegins /\ AttachConnects
    /\ lock' = "left" /\ UNCHANGED rx

\* detach: the connection is closed, and the receive task ends when it looks.
MasterDetach ==
    /\ app = "idle" /\ lock = "free" /\ attached /\ Called
    /\ m' = [m EXCEPT !.stop = TRUE, !.enabled = FALSE, !.conn = 0]
    /\ conns' = Closed(m.conn)
    /\ UNCHANGED <<lock, rx, rxlen, app, blob, slave, given, put, acked, mhist, shist, attached>>

MasterEnable(enabled) ==
    /\ lock = "free"
    /\ m' = [m EXCEPT !.enabled = enabled, !.fifo = <<>>, !.overflow = FALSE, !.dead = FALSE]
    /\ mgone' = mgone \union mlost \union ToSet(m.fifo) /\ mlost' = {}
    /\ Called
    /\ UNCHANGED <<lock, rx, rxlen, app, blob, slave, conns, given, put, acked, mread, shist, attached>>

\* read: a dead slave and an overflow are reported once; otherwise bytes are
\* popped, also when the receive task has ended and the call is an error.
MasterRead ==
    /\ lock = "free" /\ attached
    /\ \/ /\ m.dead
          /\ m' = [m EXCEPT !.dead = FALSE]
          /\ UNCHANGED mhist
       \/ /\ ~m.dead /\ m.overflow
          /\ m' = [m EXCEPT !.overflow = FALSE]
          /\ mgone' = mgone \union mlost /\ mlost' = {} /\ UNCHANGED mread
       \/ /\ ~m.dead /\ ~m.overflow /\ m.enabled
          /\ m' = [m EXCEPT !.fifo = After(@, BufLen)]
          /\ IF RxRuns THEN mread' = mread \o First(m.fifo, BufLen) /\ UNCHANGED mgone
                       ELSE mgone' = mgone \union ToSet(First(m.fifo, BufLen)) /\ UNCHANGED mread
          /\ UNCHANGED mlost
    /\ UNCHANGED <<lock, rx, rxlen, app, blob, slave, conns, given, put, acked, shist, counts>>

\* write is called.  More than max_blob_bytes is cut off, and out_written says so.
WriteCall(n) ==
    /\ app = "idle" /\ lock # "left" /\ attached /\ given + put + n <= MaxBytes
    /\ app' = "want" /\ blob' = Consecutive(put, n) /\ put' = put + n
    /\ UNCHANGED <<m, lock, rx, rxlen, slave, conns, given, acked, mhist, shist, counts>>

WriteDisabled ==
    /\ app = "want" /\ lock = "free" /\ ~m.enabled
    /\ app' = "idle" /\ blob' = <<>>
    /\ UNCHANGED <<m, lock, rx, rxlen, slave, conns, given, put, acked, mhist, shist, counts>>

\* write with the lock: the request goes out over the connection there is,
\* or over a new one.
WriteSends ==
    /\ app = "want" /\ lock = "free" /\ m.enabled
    /\ \/ /\ m.connected /\ m.conn # 0
          /\ conns' = Sent(m.conn, Query("put", blob)) /\ UNCHANGED m
       \/ /\ ~m.connected /\ s.listening /\ Len(conns) < MaxConns
          /\ conns' = Append(conns, [NewConn EXCEPT !.queries = <<Query("put", blob)>>])
          /\ m' = [m EXCEPT !.connected = TRUE, !.conn = Len(conns) + 1]
    /\ app' = "put" /\ lock' = "app"
    /\ UNCHANGED <<rx, rxlen, blob, slave, given, put, acked, mhist, shist, counts>>

\* write: no connection can be made, or the context has none.
WriteUnsent ==
    /\ app = "want" /\ lock = "free" /\ m.enabled
    /\ m.connected => m.conn = 0
    /\ m' = [m EXCEPT !.connected = FALSE, !.conn = 0]
    /\ app' = "idle" /\ blob' = <<>>
    /\ UNCHANGED <<lock, rx, rxlen, slave, conns, given, put, acked, mhist, shist, counts>>

WriteDone ==
    /\ app = "put" /\ Answered(m.conn)
    /\ conns' = Taken(m.conn) /\ acked' = acked \union ToSet(blob)
    /\ app' = "idle" /\ blob' = <<>> /\ lock' = "free"
    /\ UNCHANGED <<m, rx, rxlen, slave, given, put, mhist, shist, counts>>

\* write: the response timeout passes or the connection fails; ensure_disconnected.
WriteFails ==
    /\ app = "put" /\ ~Answered(m.conn)
    /\ conns' = Closed(m.conn)
    /\ m' = [m EXCEPT !.connected = FALSE, !.conn = 0]
    /\ app' = "idle" /\ blob' = <<>> /\ lock' = "free"
    /\ UNCHANGED <<rx, rxlen, slave, given, put, acked, mhist, shist, counts>>

App == WriteDisabled \/ WriteSends \/ WriteUnsent \/ WriteDone \/ WriteFails

(***************************************************************************)
(* The master's receive task                                               *)
(***************************************************************************)

\* One look at the flags.  While disabled it sleeps and looks again.
RxLooks ==
    /\ rx = "top" /\ lock = "free" /\ (m.stop \/ m.enabled)
    /\ rx' = IF m.stop THEN "ended" ELSE "want"
    /\ UNCHANGED <<m, lock, rxlen, app, blob, slave, conns, given, put, acked, mhist, shist, counts>>

\* The poll command.  The context may have been closed since the look.
RxPolls ==
    /\ rx = "want" /\ lock = "free" /\ m.conn # 0
    /\ conns' = Sent(m.conn, Query("poll", <<>>))
    /\ rx' = "poll" /\ lock' = "rx"
    /\ UNCHANGED <<m, rxlen, app, blob, slave, given, put, acked, mhist, shist, counts>>

RxPollUnsent ==
    /\ rx = "want" /\ lock = "free" /\ m.conn = 0
    /\ m' = [m EXCEPT !.dead = TRUE] /\ rx' = "ended"
    /\ UNCHANGED <<lock, rxlen, app, blob, slave, conns, given, put, acked, mhist, shist, counts>>

RxPollAnswered ==
    /\ rx = "poll" /\ Answered(m.conn)
    /\ conns' = Followed(m.conn, Query("header", <<>>))
    /\ rx' = "header"
    /\ UNCHANGED <<m, lock, rxlen, app, blob, slave, given, put, acked, mhist, shist, counts>>

\* The header says how many bytes there are; none ends this round.
RxHeaderAnswered ==
    /\ rx = "header" /\ Answered(m.conn)
    /\ IF Answer.len > 0
       THEN /\ conns' = Followed(m.conn, Query("data", <<>>))
            /\ rxlen' = Least(Answer.len, MasterMax) /\ rx' = "data" /\ UNCHANGED lock
       ELSE conns' = Taken(m.conn) /\ rxlen' = 0 /\ rx' = "top" /\ lock' = "free"
    /\ UNCHANGED <<m, app, blob, slave, given, put, acked, mhist, shist, counts>>

\* The data is pushed into the FIFO; what does not fit raises the flag.
RxDataAnswered ==
    LET bytes == First(Answer.data, rxlen)
        room  == MasterCap - Len(m.fifo)
    IN /\ rx = "data" /\ Answered(m.conn)
       /\ m' = [m EXCEPT !.fifo = @ \o First(bytes, room), !.overflow = @ \/ room < Len(bytes)]
       /\ mlost' = mlost \union ToSet(After(bytes, room))
       /\ conns' = Taken(m.conn) /\ rxlen' = 0 /\ rx' = "top" /\ lock' = "free"
       /\ UNCHANGED <<app, blob, slave, given, put, acked, mread, mgone, shist, counts>>

\* Mutant: the error path forgets the lock.
Mutant_FailKeepsLock ==
    /\ rx \in {"poll", "header", "data"} /\ ~Answered(m.conn)
    /\ m' = [m EXCEPT !.dead = @ \/ rx = "poll"]
    /\ conns' = [conns EXCEPT ![m.conn].late = TRUE]
    /\ rxlen' = 0 /\ rx' = "ended"
    /\ UNCHANGED <<lock, app, blob, slave, given, put, acked, mhist, shist, counts>>

\* The response timeout passes or the connection fails: the task ends.  Only a
\* failed poll command marks the slave as dead, and the connection stays.
RxFails ==
    /\ rx \in {"poll", "header", "data"} /\ ~Answered(m.conn)
    /\ m' = [m EXCEPT !.dead = @ \/ rx = "poll"]
    /\ conns' = [conns EXCEPT ![m.conn].late = TRUE]
    /\ rxlen' = 0 /\ rx' = "ended" /\ lock' = "free"
    /\ UNCHANGED <<app, blob, slave, given, put, acked, mhist, shist, counts>>

Rx ==
    \/ RxLooks \/ RxPolls \/ RxPollUnsent \/ RxPollAnswered
    \/ RxHeaderAnswered \/ RxDataAnswered \/ RxFails

(***************************************************************************)
(* The slave's application                                                 *)
(***************************************************************************)

\* attach listens and starts the task; it returns at once while it listens.  An
\* attach that fails is rolled back, and the slave stays out of reach.
SlaveAttach ==
    /\ task = "off"
    /\ s' = [s EXCEPT !.listening = TRUE, !.enabled = TRUE, !.overflow = FALSE, !.pending = FALSE, !.tx = <<>>]
    /\ regs' = [cmd |-> "none", m2s |-> <<>>, len |-> 0, data |-> <<>>]
    /\ task' = "accept"
    /\ UNCHANGED <<master, session, conns, given, put, acked, mhist, shist, counts>>

\* detach: the session's socket is closed, if there is a session.
SlaveDetach ==
    /\ s.listening /\ ~s.sessionStop /\ Called
    /\ s' = [s EXCEPT !.sessionStop = TRUE, !.enabled = FALSE]
    /\ conns' = Closed(session)
    /\ UNCHANGED <<master, regs, task, session, given, put, acked, mhist, shist, attached>>

\* dispose, after a detach: the listening socket is closed.
SlaveDispose ==
    /\ s.listening /\ s.sessionStop
    /\ s' = [s EXCEPT !.sessionStop = TRUE, !.taskStop = TRUE, !.listening = FALSE]
    /\ UNCHANGED <<master, regs, task, session, conns, given, put, acked, mhist, shist, counts>>

\* enable throws away what is pending in either direction.
SlaveEnable(enabled) ==
    /\ task # "off"
    /\ s' = [s EXCEPT !.enabled = enabled, !.fifo = <<>>, !.overflow = FALSE, !.pending = FALSE, !.tx = <<>>]
    /\ regs' = [regs EXCEPT !.len = 0]
    /\ sgone' = sgone \union slost \union ToSet(s.fifo) /\ slost' = {}
    /\ mgone' = mgone \union ToSet(s.tx) \union ToSet(First(regs.data, regs.len))
    /\ Called
    /\ UNCHANGED <<master, task, session, conns, given, put, acked, mread, mlost, sread, attached>>

\* read: an overflow is reported once; otherwise bytes are popped.
SlaveRead ==
    /\ \/ /\ s.overflow
          /\ s' = [s EXCEPT !.overflow = FALSE]
          /\ sgone' = sgone \union slost /\ slost' = {} /\ UNCHANGED sread
       \/ /\ ~s.overflow /\ s.enabled
          /\ s' = [s EXCEPT !.fifo = After(@, BufLen)]
          /\ sread' = sread \o First(s.fifo, BufLen) /\ UNCHANGED <<slost, sgone>>
    /\ UNCHANGED <<master, regs, task, session, conns, given, put, acked, mhist, counts>>

\* write: one blob waits for the next poll, and a second one is refused.
SlaveWrite(n) ==
    /\ s.enabled /\ ~s.pending /\ given + put + n <= MaxBytes
    /\ s' = [s EXCEPT !.pending = TRUE, !.tx = Consecutive(given, n)]
    /\ given' = given + n
    /\ UNCHANGED <<master, regs, task, session, conns, put, acked, mhist, shist, counts>>

\* write with len = 0: tx_pending is set all the same.
SlaveWriteEmpty ==
    /\ s.enabled /\ ~s.pending /\ Called
    /\ s' = [s EXCEPT !.pending = TRUE, !.tx = <<>>]
    /\ UNCHANGED <<master, regs, task, session, conns, given, put, acked, mhist, shist, attached>>

(***************************************************************************)
(* The slave's receive task                                                *)
(***************************************************************************)

\* The session loop looks at the two flags and then waits for a request.  Only
\* a request or the end of the connection wakes it to look again.
NextTurn == task' = IF s.sessionStop \/ s.taskStop THEN "ended" ELSE "receive"

\* server_loop: a client is accepted; the loop has one turn.
SlaveAccepts ==
    /\ task = "accept" /\ s.listening /\ conns # <<>>
    /\ session' = 1 /\ NextTurn
    /\ UNCHANGED <<master, s, regs, conns, given, put, acked, mhist, shist, counts>>

SlaveStops ==
    /\ task = "accept" /\ s.taskStop
    /\ task' = "ended"
    /\ UNCHANGED <<master, s, regs, session, conns, given, put, acked, mhist, shist, counts>>

\* modbus_reply stores what the request writes and answers from the registers.
Written(q) == IF q.op \in {"poll", "put"}
              THEN [regs EXCEPT !.cmd = q.op, !.m2s = IF q.op = "put" THEN q.blob ELSE <<>>] ELSE regs

SlaveReplies ==
    LET c == conns[session] IN
    /\ task = "receive" /\ c.queries # <<>>
    /\ regs' = Written(Head(c.queries))
    /\ conns' = [conns EXCEPT ![session].queries = Tail(@),
                              ![session].answers = Append(@, [len |-> regs.len, data |-> regs.data])]
    /\ task' = "process"
    /\ UNCHANGED <<master, s, session, given, put, acked, mhist, shist, counts>>

\* The answer cannot be sent: the session ends before the command is looked at.
SlaveReplyFails ==
    LET c == conns[session] IN
    /\ task = "receive" /\ c.queries # <<>> /\ ~c.open
    /\ regs' = Written(Head(c.queries))
    /\ conns' = [conns EXCEPT ![session].queries = Tail(@)]
    /\ task' = "ended"
    /\ UNCHANGED <<master, s, session, given, put, acked, mhist, shist, counts>>

\* modbus_receive fails; with the session the task ends.
SlaveSessionEnds ==
    /\ task = "receive" /\ ~conns[session].open
    /\ task' = "ended"
    /\ UNCHANGED <<master, s, regs, session, conns, given, put, acked, mhist, shist, counts>>

\* The registers when a command has been carried out.
Idle == [regs EXCEPT !.cmd = "none", !.m2s = <<>>]
\* What consume_put_blob finds in the registers, and the room in the FIFO.
Blob == First(regs.m2s, SlaveMax)
Room == SlaveCap - Len(s.fifo)

\* Mutant: a push that falls short does not raise the flag.
Mutant_ConsumeUnflagged ==
    /\ task = "process" /\ regs.cmd = "put"
    /\ s' = [s EXCEPT !.fifo = @ \o First(Blob, Room)]
    /\ slost' = slost \union ToSet(After(Blob, Room))
    /\ regs' = Idle /\ NextTurn
    /\ UNCHANGED <<master, session, conns, given, put, acked, mhist, sread, sgone, counts>>

\* consume_put_blob: the blob is pushed, and what does not fit raises the flag.
SlaveConsumes ==
    /\ task = "process" /\ regs.cmd = "put"
    /\ s' = [s EXCEPT !.fifo = @ \o First(Blob, Room), !.overflow = @ \/ Room < Len(Blob)]
    /\ slost' = slost \union ToSet(After(Blob, Room))
    /\ regs' = Idle /\ NextTurn
    /\ UNCHANGED <<master, session, conns, given, put, acked, mhist, sread, sgone, counts>>

\* Mutant: a blob of one byte counts as none.
Mutant_PrepareShort ==
    /\ task = "process" /\ regs.cmd = "poll"
    /\ IF s.pending /\ Len(s.tx) > 1
       THEN /\ regs' = [Idle EXCEPT !.len = Len(s.tx), !.data = s.tx]
            /\ s' = [s EXCEPT !.pending = FALSE, !.tx = <<>>]
       ELSE regs' = [Idle EXCEPT !.len = 0] /\ UNCHANGED s
    /\ NextTurn
    /\ UNCHANGED <<master, session, conns, given, put, acked, mhist, shist, counts>>

\* Mutant: without a blob the registers keep the last one.
Mutant_PrepareKeeps ==
    /\ task = "process" /\ regs.cmd = "poll"
    /\ IF s.pending /\ s.tx # <<>>
       THEN /\ regs' = [Idle EXCEPT !.len = Len(s.tx), !.data = s.tx]
            /\ s' = [s EXCEPT !.pending = FALSE, !.tx = <<>>]
       ELSE regs' = Idle /\ UNCHANGED s
    /\ NextTurn
    /\ UNCHANGED <<master, session, conns, given, put, acked, mhist, shist, counts>>

\* prepare_poll_response: the blob moves to the registers, once.  A pending
\* blob without bytes stays pending.
SlavePrepares ==
    /\ task = "process" /\ regs.cmd = "poll"
    /\ IF s.pending /\ s.tx # <<>>
       THEN /\ regs' = [Idle EXCEPT !.len = Len(s.tx), !.data = s.tx]
            /\ s' = [s EXCEPT !.pending = FALSE, !.tx = <<>>]
       ELSE regs' = [Idle EXCEPT !.len = 0] /\ UNCHANGED s
    /\ NextTurn
    /\ UNCHANGED <<master, session, conns, given, put, acked, mhist, shist, counts>>

\* Any other request leaves no command behind.
SlaveIdles ==
    /\ task = "process" /\ regs.cmd = "none"
    /\ NextTurn
    /\ UNCHANGED <<master, s, regs, session, conns, given, put, acked, mhist, shist, counts>>

Task ==
    \/ SlaveAccepts \/ SlaveStops \/ SlaveReplies \/ SlaveReplyFails \/ SlaveSessionEnds
    \/ SlaveConsumes \/ SlavePrepares \/ SlaveIdles

Next ==
    \/ NetBreaks \/ Rx \/ App \/ Task
    \/ MasterAttach \/ MasterAttachFails \/ MasterAttachLeavesLock \/ MasterDetach \/ MasterRead
    \/ \E n \in 1 .. MasterMax : WriteCall(n)
    \/ SlaveAttach \/ SlaveDetach \/ SlaveDispose \/ SlaveRead \/ SlaveWriteEmpty
    \/ \E n \in 1 .. SlaveMax : SlaveWrite(n)
    \/ \E enabled \in BOOLEAN : MasterEnable(enabled) \/ SlaveEnable(enabled)

Spec == Init /\ [][Next]_vars

\* Both tasks run.  The receive task sleeps between its rounds without the
\* lock, so a writer that wants the lock gets it.
FairSpec == Spec /\ WF_vars(Rx) /\ WF_vars(Task) /\ SF_vars(App)

(***************************************************************************)
(* Properties                                                              *)
(***************************************************************************)
Increasing(seq) == \A i, j \in DOMAIN seq : i < j => seq[i] < seq[j]

\* What the slave's application wrote reaches the master's reader in order and
\* not twice, although a blob is announced and fetched by separate requests and
\* stays in the registers afterwards; and the reader does not get past a byte
\* it has not read unless the loss was reported to it (overflow, an error with
\* the bytes) or asked for (enable, attach).
StreamToMaster ==
    /\ Increasing(mread \o m.fifo)
    /\ \A b \in ToSet(mread) : 1 .. b - 1 \subseteq ToSet(mread) \union mgone

\* A write that the master reported as done is not lost and not doubled: its
\* bytes are in the slave's registers on their way to the FIFO, in the FIFO or
\* read, or else the overflow flag is up, was reported, or enable discarded them.
AckedArrives ==
    /\ Increasing(sread \o s.fifo)
    /\ acked \subseteq UNION {ToSet(sread), ToSet(s.fifo), sgone,
                              IF s.overflow THEN slost ELSE {},
                              IF regs.cmd = "put" /\ task = "process" THEN ToSet(regs.m2s) ELSE {}}

\* A write to the master returns: whatever happens to the connection, to the
\* slave or to the receive task, the lock comes free.
WriteReturns == app # "idle" ~> app = "idle"

\* A blob that the slave accepted is taken by a poll as long as both tasks run
\* and the master is enabled.  (A blob without bytes never is.)
PublishedFetched ==
    s.pending /\ s.tx # <<>> ~> ~s.pending \/ ~RxRuns \/ ~TaskRuns \/ ~m.enabled \/ lock = "left"
=============================================================================
