------------------------------- MODULE IoxCanbus -------------------------------
(***************************************************************************)
(* The CAN byte stream of dtiox_linux_canbus.c.  One receive task for the  *)
(* life of the process; a mutex guards the FIFO together with the setting  *)
(* of rx_overflow_flag, but neither its test and clearing in read nor      *)
(* rx_enabled.  detach and dispose do nothing.                             *)
(***************************************************************************)
EXTENDS RxPipe

CONSTANT FrameMax        \* bytes of a frame; 8 in the code

ASSUME FrameMaxAssumption == FrameMax \in Nat \ {0}

IsCan == self.driver = "can"

\* dtiox_linux_canbus_init and dtiox_linux_canbus_configure.
CanInit == PipeInit("can")

\* attach: the socket is bound, the FIFO configured and the task started.  When
\* any of these fails everything is undone.
CanAttach ==
    /\ IsCan /\ owner = "idle" /\ self.fd = 0
    /\ RxGoes(1, "poll")
    /\ self' = [self EXCEPT !.fd = 1]
    /\ UNCHANGED <<sem, fifo, app, hist>>

\* enable(true) empties the FIFO and then lets frames in; the overflow flag stays.
CanEnable ==
    /\ IsCan /\ owner = "idle" /\ enables < MaxEnables
    /\ Reset
    /\ enables' = enables + 1 /\ owner' = "set"
    /\ UNCHANGED <<sem, self, rx, rd, received, news>>

CanEnableSets ==
    /\ IsCan /\ owner = "set"
    /\ self' = [self EXCEPT !.rx_enabled = TRUE]
    /\ owner' = "idle"
    /\ UNCHANGED <<sem, fifo, rx, enables, rd, hist>>

CanDisable ==
    /\ IsCan /\ owner = "idle" /\ enables < MaxEnables
    /\ self' = [self EXCEPT !.rx_enabled = FALSE]
    /\ enables' = enables + 1
    /\ UNCHANGED <<sem, fifo, rx, owner, rd, hist>>

(***************************************************************************)
(* The receive task                                                        *)
(***************************************************************************)

\* recv() returns a frame; without bytes, or while disabled, it is discarded.
CanRxReceives ==
    /\ IsCan /\ RxAt(1, "poll")
    /\ \E n \in 1 .. FrameMax :
          /\ received + n <= MaxBytes
          /\ received' = received + n
          /\ rx' = [rx EXCEPT ![1].pc = IF self.rx_enabled THEN "push" ELSE "poll",
                              ![1].chunk = IF self.rx_enabled THEN Deliver(n) ELSE <<>>]
    /\ UNCHANGED <<sem, self, fifo, app, gap, late, news>>

\* recv() fails, or returns something else than a frame.
CanRxFails ==
    /\ IsCan /\ RxAt(1, "poll")
    /\ RxGoes(1, "ended")
    /\ UNCHANGED <<sem, self, fifo, app, hist>>

\* Mutant: only a frame that was dropped as a whole raises the flag.
Mutant_CanRxFlagsWhole ==
    /\ IsCan /\ RxAt(1, "push")
    /\ Push(rx[1].chunk)
    /\ self' = [self EXCEPT !.rx_overflow_flag = @ \/ Fits(rx[1].chunk) = 0]
    /\ rx' = [rx EXCEPT ![1].chunk = <<>>,
                        ![1].pc = IF Fits(rx[1].chunk) > 0 /\ self.rx_semaphore THEN "post" ELSE "poll"]
    /\ UNCHANGED <<sem, app, received, late, news>>

\* Mutant: like the TTY driver, the task posts only for a frame that fits.
Mutant_CanRxPostsWhole ==
    /\ IsCan /\ RxAt(1, "push")
    /\ Push(rx[1].chunk)
    /\ self' = [self EXCEPT !.rx_overflow_flag = @ \/ Fits(rx[1].chunk) < Len(rx[1].chunk)]
    /\ rx' = [rx EXCEPT ![1].chunk = <<>>,
                        ![1].pc = IF Fits(rx[1].chunk) = Len(rx[1].chunk) /\ self.rx_semaphore THEN "post" ELSE "poll"]
    /\ UNCHANGED <<sem, app, received, late, news>>

\* _rx_fifo_push_locked; a frame of which something was stored is announced.
CanRxPushes ==
    /\ IsCan /\ RxAt(1, "push")
    /\ Push(rx[1].chunk)
    /\ self' = [self EXCEPT !.rx_overflow_flag = @ \/ Fits(rx[1].chunk) < Len(rx[1].chunk)]
    /\ rx' = [rx EXCEPT ![1].chunk = <<>>,
                        ![1].pc = IF Fits(rx[1].chunk) > 0 /\ self.rx_semaphore THEN "post" ELSE "poll"]
    /\ UNCHANGED <<sem, app, received, late, news>>

CanRxPosts ==
    /\ IsCan /\ RxAt(1, "post")
    /\ Post
    /\ RxGoes(1, "poll")
    /\ UNCHANGED <<self, fifo, app, hist>>

CanRx == CanRxReceives \/ CanRxFails \/ CanRxPushes \/ CanRxPosts

(***************************************************************************)
(* read: without a running task an error, every time                       *)
(***************************************************************************)
CanReadTests ==
    /\ IsCan /\ rd = "read"
    /\ rd' = IF Feeding # {} THEN "check" ELSE "wait"
    /\ UNCHANGED <<sem, self, fifo, rx, owner, enables, hist>>

CanNext ==
    \/ CanAttach \/ CanEnable \/ CanEnableSets \/ CanDisable
    \/ CanRx \/ CanReadTests
=============================================================================
