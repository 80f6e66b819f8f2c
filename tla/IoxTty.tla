-------------------------------- MODULE IoxTty --------------------------------
(***************************************************************************)
(* The serial byte stream of dtiox_linux_tty.c.  Its receive task polls    *)
(* with a time limit and reads; it shares fd, rx_enabled,                  *)
(* rx_overflow_flag, rx_thread_failed and the FIFO with the caller's       *)
(* threads, without a lock, so a step is one access to what is shared or   *)
(* one system call.                                                        *)
(*                                                                         *)
(* A descriptor is the number of the attach that opened it.  Once two      *)
(* tasks feed one FIFO its contents are not followed any further.          *)
(***************************************************************************)
EXTENDS RxPipe

CONSTANT ReadMax         \* the most that one read() returns; 256 in the code

ASSUME ReadMaxAssumption == ReadMax \in Nat \ {0}

IsTty == self.driver = "tty"

\* dtiox_linux_tty_init and dtiox_linux_tty_configure.
TtyInit == PipeInit("tty")

Unused == {t \in Tasks : RxAt(t, "none")}
NextTask == CHOOSE t \in Unused : \A u \in Unused : t <= u

(***************************************************************************)
(* attach, detach and enable                                               *)
(***************************************************************************)

\* attach: nothing while fd is open; else the device is opened and a task started.
TtyAttach ==
    /\ IsTty /\ owner = "idle" /\ self.fd = 0 /\ Unused # {}
    /\ self' = [self EXCEPT !.fd = NextTask]
    /\ RxGoes(NextTask, "top")
    /\ UNCHANGED <<sem, fifo, app, hist>>

\* The task cannot be created or started: fd keeps the open descriptor.
TtyAttachTaskFails ==
    /\ IsTty /\ owner = "idle" /\ self.fd = 0 /\ Unused # {}
    /\ self' = [self EXCEPT !.fd = NextTask]
    /\ RxGoes(NextTask, "ended")
    /\ UNCHANGED <<sem, fifo, app, hist>>

\* detach and dispose close the descriptor and leave the task alone.
TtyDetach ==
    /\ IsTty /\ owner = "idle" /\ self.fd # 0
    /\ self' = [self EXCEPT !.fd = 0]
    /\ UNCHANGED <<sem, fifo, rx, app, hist>>

\* enable, one shared field after the other.
TtyEnable(enabled) ==
    /\ IsTty /\ owner = "idle" /\ enables < MaxEnables
    /\ self' = [self EXCEPT !.rx_enabled = enabled]
    /\ enables' = enables + 1 /\ owner' = "reset"
    /\ UNCHANGED <<sem, fifo, rx, rd, hist>>

TtyEnableResets ==
    /\ IsTty /\ owner = "reset"
    /\ Reset
    /\ owner' = "clear"
    /\ UNCHANGED <<sem, self, rx, enables, rd, received, news>>

TtyEnableClears ==
    /\ IsTty /\ owner = "clear"
    /\ self' = [self EXCEPT !.rx_overflow_flag = FALSE] /\ Told
    /\ owner' = "forget"
    /\ UNCHANGED <<sem, fifo, rx, enables, rd, received, news>>

\* A failure that the reader has not seen is forgotten.
TtyEnableForgets ==
    /\ IsTty /\ owner = "forget"
    /\ self' = [self EXCEPT !.rx_thread_failed = FALSE]
    /\ news' = IF news = "failed" THEN "wiped" ELSE news
    /\ owner' = "idle"
    /\ UNCHANGED <<sem, fifo, rx, enables, rd, received, gap, late>>

(***************************************************************************)
(* The receive task                                                        *)
(***************************************************************************)
TtyRxLoads(t) ==
    /\ IsTty /\ RxAt(t, "top")
    /\ rx' = [rx EXCEPT ![t].pc = "poll", ![t].fd = self.fd]
    /\ UNCHANGED <<sem, self, fifo, app, hist>>

\* poll() returns after 100 ms, which it does for a descriptor of -1 as well.
TtyRxTimesOut(t) ==
    /\ IsTty /\ RxAt(t, "poll")
    /\ RxGoes(t, "top")
    /\ UNCHANGED <<sem, self, fifo, app, hist>>

TtyRxReadable(t) ==
    /\ IsTty /\ RxAt(t, "poll") /\ rx[t].fd # 0
    /\ RxGoes(t, "read")
    /\ UNCHANGED <<sem, self, fifo, app, hist>>

\* poll() reports an error, a hangup or a descriptor that was closed.
TtyRxBroken(t) ==
    /\ IsTty /\ RxAt(t, "poll") /\ rx[t].fd # 0
    /\ RxGoes(t, "fail")
    /\ UNCHANGED <<sem, self, fifo, app, hist>>

\* read(self->fd) reads fd anew.  Bytes are dropped while reception is disabled.
TtyRxReads(t) ==
    /\ IsTty /\ RxAt(t, "read") /\ self.fd # 0
    /\ \E n \in 1 .. ReadMax :
          /\ received + n <= MaxBytes
          /\ received' = received + n
          /\ rx' = [rx EXCEPT ![t].pc = IF self.rx_enabled THEN "push" ELSE "top",
                              ![t].chunk = IF self.rx_enabled THEN Deliver(n) ELSE <<>>]
    /\ UNCHANGED <<sem, self, fifo, app, gap, late, news>>

\* read() returns 0, or was interrupted.
TtyRxReadsNothing(t) ==
    /\ IsTty /\ RxAt(t, "read") /\ self.fd # 0
    /\ RxGoes(t, "top")
    /\ UNCHANGED <<sem, self, fifo, app, hist>>

TtyRxReadFails(t) ==
    /\ IsTty /\ RxAt(t, "read")
    /\ RxGoes(t, "fail")
    /\ UNCHANGED <<sem, self, fifo, app, hist>>

TtyRxPushes(t) ==
    /\ IsTty /\ RxAt(t, "push")
    /\ Push(rx[t].chunk)
    /\ rx' = [rx EXCEPT ![t].chunk = <<>>,
                        ![t].pc = IF Fits(rx[t].chunk) < Len(rx[t].chunk) THEN "flag"
                                  ELSE IF self.rx_semaphore THEN "post" ELSE "top"]
    /\ UNCHANGED <<sem, self, app, received, late, news>>

\* Bytes were dropped: the flag goes up and nobody is woken.
TtyRxFlags(t) ==
    /\ IsTty /\ RxAt(t, "flag")
    /\ self' = [self EXCEPT !.rx_overflow_flag = TRUE]
    /\ RxGoes(t, "top")
    /\ UNCHANGED <<sem, fifo, app, hist>>

TtyRxPosts(t) ==
    /\ IsTty /\ RxAt(t, "post")
    /\ Post
    /\ RxGoes(t, "top")
    /\ UNCHANGED <<self, fifo, app, hist>>

TtyRxMarks(t) ==
    /\ IsTty /\ RxAt(t, "fail")
    /\ self' = [self EXCEPT !.rx_thread_failed = TRUE]
    /\ news' = "failed"
    /\ RxGoes(t, "cleanup")
    /\ UNCHANGED <<sem, fifo, app, received, gap, late>>

\* Mutant: the task ends and wakes nobody.
Mutant_TtyRxEndsSilently(t) ==
    /\ IsTty /\ RxAt(t, "cleanup") /\ self.rx_semaphore
    /\ RxGoes(t, "ended")
    /\ UNCHANGED <<sem, self, fifo, app, hist>>

\* The post of the cleanup.  Without a semaphore it fails, jumps to the cleanup
\* it is part of, and the task never ends.
TtyRxEnds(t) ==
    /\ IsTty /\ RxAt(t, "cleanup") /\ self.rx_semaphore
    /\ Post
    /\ RxGoes(t, "ended")
    /\ UNCHANGED <<self, fifo, app, hist>>

TtyRx(t) ==
    \/ TtyRxLoads(t) \/ TtyRxTimesOut(t) \/ TtyRxReadable(t) \/ TtyRxBroken(t)
    \/ TtyRxReads(t) \/ TtyRxReadsNothing(t) \/ TtyRxReadFails(t)
    \/ TtyRxPushes(t) \/ TtyRxFlags(t) \/ TtyRxPosts(t) \/ TtyRxMarks(t) \/ TtyRxEnds(t)

(***************************************************************************)
(* read: a failure of the task is an error, once                           *)
(***************************************************************************)
TtyReadTests ==
    /\ IsTty /\ rd = "read"
    /\ rd' = IF self.rx_thread_failed THEN "failed" ELSE "check"
    /\ UNCHANGED <<sem, self, fifo, rx, owner, enables, hist>>

TtyReadFailed ==
    /\ IsTty /\ rd = "failed"
    /\ self' = [self EXCEPT !.rx_thread_failed = FALSE]
    /\ news' = "told"
    /\ rd' = "read"
    /\ UNCHANGED <<sem, fifo, rx, owner, enables, received, gap, late>>

TtyEnabling == TtyEnableResets \/ TtyEnableClears \/ TtyEnableForgets

TtyNext ==
    \/ TtyAttach \/ TtyAttachTaskFails \/ TtyDetach \/ TtyEnabling
    \/ \E enabled \in BOOLEAN : TtyEnable(enabled)
    \/ \E t \in Tasks : TtyRx(t)
    \/ TtyReadTests \/ TtyReadFailed
=============================================================================
