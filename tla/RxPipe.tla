-------------------------------- MODULE RxPipe --------------------------------
(***************************************************************************)
(* What the TTY and CAN byte streams share: receive tasks that move what   *)
(* the device delivers into a ring FIFO and post rx_semaphore, and a       *)
(* reader that waits on the semaphore, in any of its modes, and then reads *)
(* until a read returns nothing.  The semaphore is the one of Semaphore,   *)
(* with its condition variable, not an abstract counter.                   *)
(*                                                                         *)
(* A byte is its place among all bytes the device delivered.  IoxTty and   *)
(* IoxCanbus add the operations of the two drivers.                        *)
(***************************************************************************)
EXTENDS Semaphore, Sequences

CONSTANTS Reader,        \* the thread that waits on rx_semaphore
          Capacity,      \* rx_fifo_capacity, rx_ring_capacity
          BufLen,        \* buf_len of the reader's calls
          MaxTasks,      \* bounds of model checking: attaches that start a task,
          MaxBytes,      \*   bytes the device delivers,
          MaxEnables     \*   calls of enable

ASSUME ReaderAssumption == Reader \in Waiters
ASSUME PipeAssumption == {Capacity, BufLen, MaxTasks} \subseteq Nat \ {0} /\ {MaxBytes, MaxEnables} \subseteq Nat

VARIABLES
    self,            \* the driver's object: driver, fd (0 for -1), rx_enabled, rx_overflow_flag,
                     \* rx_thread_failed, and whether an rx_semaphore was set
    fifo,            \* rx_fifo
    rx,              \* the receive tasks: place, the descriptor given to poll(), the bytes read
    owner, enables,  \* the thread that attaches, detaches and enables
    rd,              \* the reader
    received,        \* history: bytes the device delivered,
    gap, late,       \*   the first byte dropped and not yet reported, reads that went past it,
    news             \*   whether the reader knows of the last failure of a TTY task

sem   == vars
app   == <<owner, enables, rd>>
hist  == <<received, gap, late, news>>
pipe  == <<self, fifo, rx, app, hist>>
lines == <<sem, pipe>>

Tasks == 1 .. MaxTasks
Bytes == 1 .. MaxBytes
Working == {"top", "poll", "read", "push", "flag", "post", "fail"}
Feeding == {t \in Tasks : rx[t].pc \in Working}

SelfType == [driver : {"tty", "can"}, fd : 0 .. MaxTasks, rx_enabled : BOOLEAN, rx_overflow_flag : BOOLEAN,
             rx_thread_failed : BOOLEAN, rx_semaphore : BOOLEAN]
RxType   == [pc : Working \union {"none", "cleanup", "ended"}, fd : 0 .. MaxTasks, chunk : Seq(Bytes)]

PipeTypeOK ==
    /\ self \in SelfType
    /\ fifo \in Seq(Bytes) /\ Len(fifo) <= Capacity
    /\ rx \in [Tasks -> RxType]
    /\ owner \in {"idle", "reset", "clear", "forget", "set"} /\ enables \in 0 .. MaxEnables
    /\ rd \in {"wait", "read", "failed", "check", "overflow", "pop"}
    /\ received \in 0 .. MaxBytes /\ gap \in 0 .. MaxBytes /\ late \in Nat
    /\ news \in {"none", "failed", "told", "wiped"}

\* A stream that was never attached; _set_rx_semaphore is optional.
PipeInit(driver) ==
    /\ Init
    /\ self \in [driver : {driver}, fd : {0}, rx_enabled : {TRUE}, rx_overflow_flag : {FALSE},
                 rx_thread_failed : {FALSE}, rx_semaphore : BOOLEAN]
    /\ fifo = <<>> /\ rx = [t \in Tasks |-> [pc |-> "none", fd |-> 0, chunk |-> <<>>]]
    /\ owner = "idle" /\ enables = 0 /\ rd = "wait"
    /\ received = 0 /\ gap = 0 /\ late = 0 /\ news = "none"

RxAt(t, p) == rx[t].pc = p

\* What poll() and read() gave the task is used up.
RxGoes(t, p) == rx' = [rx EXCEPT ![t] = [pc |-> p, fd |-> 0, chunk |-> <<>>]]

(***************************************************************************)
(* The FIFO, with what the history says of it                              *)
(***************************************************************************)
Least(a, b) == IF a < b THEN a ELSE b

\* The device delivers n bytes.
Deliver(n) == [i \in 1 .. n |-> received + i]

\* dtringfifo_push takes what fits and returns how much that was.
Fits(chunk) == Least(Capacity - Len(fifo), Len(chunk))
Push(chunk) ==
    /\ fifo' = fifo \o SubSeq(chunk, 1, Fits(chunk))
    /\ gap' = IF gap = 0 /\ Fits(chunk) < Len(chunk) THEN chunk[Fits(chunk) + 1] ELSE gap

\* The reader is told that bytes are missing, or starts afresh.
Told == gap' = 0 /\ late' = 0

\* dtringfifo_reset.
Reset == fifo' = <<>> /\ Told

(***************************************************************************)
(* The reader                                                              *)
(***************************************************************************)

\* It reads when its wait has ended, for whatever reason.
ReadsAfter == rd' = IF pc'[Reader] = "idle" THEN "read" ELSE "wait"

ReaderWaits ==
    /\ rd = "wait" /\ self.rx_semaphore
    /\ \E m \in Modes : WaitCall(Reader, m)
    /\ ReadsAfter
    /\ UNCHANGED <<self, fifo, rx, owner, enables, hist>>

ReaderWakes ==
    /\ rd = "wait"
    /\ WaitResume(Reader) \/ TimedOut(Reader)
    /\ ReadsAfter
    /\ UNCHANGED <<self, fifo, rx, owner, enables, hist>>

ReaderPolls ==
    /\ rd = "wait" /\ ~self.rx_semaphore
    /\ rd' = "read"
    /\ UNCHANGED <<sem, self, fifo, rx, owner, enables, hist>>

\* The deadline of the wait passes, or it ends for no reason.
WaitDisturbed ==
    /\ Deadline(Reader) \/ SpuriousWakeup(Reader)
    /\ UNCHANGED pipe

\* read: an overflow is an error, once; the flag is tested and then cleared.
ReadChecks ==
    /\ rd = "check"
    /\ rd' = IF self.rx_overflow_flag THEN "overflow" ELSE "pop"
    /\ UNCHANGED <<sem, self, fifo, rx, owner, enables, hist>>

ReadOverflow ==
    /\ rd = "overflow"
    /\ self' = [self EXCEPT !.rx_overflow_flag = FALSE] /\ Told
    /\ rd' = "read"
    /\ UNCHANGED <<sem, fifo, rx, owner, enables, received, news>>

\* read: dtringfifo_pop.
ReadPop ==
    LET n == Least(BufLen, Len(fifo)) IN
    /\ rd = "pop"
    /\ fifo' = SubSeq(fifo, n + 1, Len(fifo))
    /\ late' = IF gap # 0 /\ \E i \in 1 .. n : fifo[i] > gap THEN late + 1 ELSE late
    /\ rd' = IF n = 0 THEN "wait" ELSE "read"
    /\ UNCHANGED <<sem, self, rx, owner, enables, received, gap, news>>

Reads == ReaderWaits \/ ReaderWakes \/ ReaderPolls \/ ReadChecks \/ ReadOverflow \/ ReadPop

(***************************************************************************)
(* What both drivers promise                                               *)
(***************************************************************************)

\* When the FIFO drops bytes the reader gets an overflow error before it gets
\* bytes from beyond the gap.  The CAN driver raises the flag with the mutex of
\* the push held and keeps this to the letter; the TTY driver raises it after
\* the push, and one read may slip in between.
GapReported == late <= IF self.driver = "can" THEN 0 ELSE 1

\* Nothing that the drivers still have to do stands between the reader and a
\* byte in the FIFO: the reader sleeps on the semaphore beside an empty FIFO
\* only.  The TTY driver posts nothing for a chunk that overflowed, so this
\* rests on the posts of earlier chunks, on the reader emptying the FIFO, and on
\* a FIFO that holds one read(); a CAN frame may be longer than the FIFO.
NoStall ==
    (/\ pc[Reader] = "waiting" /\ owner = "idle"
     /\ \A t \in Tasks : rx[t].pc \in {"none", "top", "poll", "read", "ended"}
     /\ self.driver = "can" => Feeding # {})
    => fifo = <<>>

\* A reader does not sleep beside the end of a TTY task that it was not told of:
\* the task marks its failure before its last post, and no read, timeout or post
\* at the semaphore's maximum in between uses that post up.  An enable may forget
\* the failure.  (The CAN task wakes nobody when it ends.)
FailureTold ==
    (news = "failed" /\ pc[Reader] = "waiting") => \E t \in Tasks : RxAt(t, "cleanup")
=============================================================================
