---------------------------- MODULE LinesProofs ----------------------------
(***************************************************************************)
(* Proofs about the TTY and CAN streams and the semaphore their reader     *)
(* waits on.  First the semaphore alone (dtsemaphore_linux.c), for any     *)
(* finite set of waiters and any counts.  Then the streams, for any sizes  *)
(* of FIFO, read(), frame and buffer: every step of a stream is a step of  *)
(* its semaphore or leaves it alone (LinesUseSemaphore), so SemInv holds,  *)
(* and PipeInv is inductive beside it.                                     *)
(***************************************************************************)
EXTENDS Lines, FiniteSetTheorems, SequenceTheorems, TLAPS

(***************************************************************************)
(* The semaphore                                                           *)
(***************************************************************************)
\* The inductive invariant: the safety properties together.
SemInv == TypeOK /\ UnitsConserved /\ Capped /\ NoLostWakeup

\* The maximum dtsemaphore_create settles on is positive.
LEMMA MaxCountPos == max_count \in Nat \ {0}
  BY CountsAssumption DEF max_count, NoCap

\* The woken waiters are finitely many.
LEMMA WokenFinite == IsFiniteSet(Woken) /\ Cardinality(Woken) \in Nat
  <1>1. Woken \in SUBSET Waiters  BY DEF Woken
  <1>2. QED  BY <1>1, WaitersAssumption, FS_Subset, FS_CardinalityType

\* The same after a step.
LEMMA WokenFiniteNext == IsFiniteSet(Woken') /\ Cardinality(Woken') \in Nat
  <1>1. Woken' \in SUBSET Waiters  BY DEF Woken
  <1>2. QED  BY <1>1, WaitersAssumption, FS_Subset, FS_CardinalityType

\* The initial state satisfies the invariant.
LEMMA SemInit == Init => SemInv
  <1> SUFFICES ASSUME Init PROVE SemInv
    OBVIOUS
  <1>1. TypeOK  BY CountsAssumption DEF Init, TypeOK, Modes
  <1>2. /\ UnitsConserved
        /\ Capped  BY CountsAssumption, MaxCountPos DEF Init, UnitsConserved, Capped
  <1>3. Waiting = {}  BY DEF Init, Waiting
  <1>4. QED  BY <1>1, <1>2, <1>3 DEF SemInv, NoLostWakeup

\* A post preserves the invariant: it wakes a waiter if one waits, and at the
\* maximum it leaves everything as it is.
LEMMA PostStep == ASSUME SemInv, Post PROVE SemInv'
  <1>t. TypeOK /\ UnitsConserved /\ Capped /\ NoLostWakeup  BY DEF SemInv
  <1>1. TypeOK'
    BY <1>t DEF Post, Signal, TypeOK
  <1>2. UnitsConserved' /\ Capped'
    BY <1>t, CountsAssumption, MaxCountPos DEF Post, Room, TypeOK, UnitsConserved, Capped
  <1>3. NoLostWakeup'
    <2> SUFFICES ASSUME Waiting' # {} PROVE count' <= Cardinality(Woken')
      BY DEF NoLostWakeup
    <2>1. CASE count' = count + 1 /\ Waiting = {} /\ UNCHANGED pc
      BY <2>1 DEF Waiting
    <2>2. ASSUME NEW w \in Waiting, count' = count + 1, pc' = [pc EXCEPT ![w] = "woken"]
          PROVE  count' <= Cardinality(Woken')
      <3>1. Woken' = Woken \cup {w} /\ w \notin Woken
        BY <1>t, <2>2 DEF Woken, Waiting, TypeOK
      <3>2. Cardinality(Woken') = Cardinality(Woken) + 1
        BY <3>1, WokenFinite, FS_AddElement
      <3>3. count <= Cardinality(Woken) /\ count \in Nat
        BY <1>t DEF NoLostWakeup, TypeOK
      <3>4. QED  BY <2>2, <3>2, <3>3, WokenFinite
    <2>3. CASE UNCHANGED <<count, pc>>
      BY <1>t, <2>3 DEF NoLostWakeup, Waiting, Woken
    <2>4. QED  BY <2>1, <2>2, <2>3 DEF Post, Room, Signal
  <1>4. QED  BY <1>1, <1>2, <1>3 DEF SemInv

\* Taking a unit preserves the invariant: the unit and at most one woken
\* waiter leave together.
LEMMA TakeStep == ASSUME SemInv, NEW w \in Waiters, Take(w) PROVE SemInv'
  <1>t. TypeOK /\ UnitsConserved /\ Capped /\ NoLostWakeup  BY DEF SemInv
  <1>1. TypeOK'
    BY <1>t DEF Take, TypeOK
  <1>2. UnitsConserved' /\ Capped'
    BY <1>t, CountsAssumption, MaxCountPos DEF Take, TypeOK, UnitsConserved, Capped
  <1>3. NoLostWakeup'
    <2>1. Woken' = Woken \ {w} /\ Waiting' \subseteq Waiting
      BY <1>t DEF Take, Woken, Waiting, TypeOK
    <2>2. Cardinality(Woken') >= Cardinality(Woken) - 1
      <3>1. IsFiniteSet(Woken) /\ Cardinality(Woken) \in Nat
        BY WokenFinite
      <3>2. CASE w \in Woken
        <4>1. Cardinality(Woken \ {w}) = Cardinality(Woken) - 1
          BY <3>1, <3>2, FS_RemoveElement
        <4> QED
          BY <2>1, <3>1, <4>1
      <3>3. CASE w \notin Woken
        <4>1. Woken' = Woken
          BY <2>1, <3>3
        <4> QED
          BY <3>1, <4>1
      <3> QED
        BY <3>2, <3>3
    <2>3. count' = count - 1 /\ count \in Nat  BY <1>t DEF Take, TypeOK
    <2>4. QED  BY <1>t, <2>1, <2>2, <2>3, WokenFinite, WokenFiniteNext DEF NoLostWakeup
  <1>4. QED  BY <1>1, <1>2, <1>3 DEF SemInv

\* Blocking happens only with nothing to take.
LEMMA BlockStep == ASSUME SemInv, NEW w \in Waiters, NEW m \in Modes, Block(w, m) PROVE SemInv'
  <1>1. TypeOK'  BY DEF SemInv, Block, TypeOK
  <1>2. UnitsConserved' /\ Capped'
    BY DEF SemInv, Block, UnitsConserved, Capped
  <1>3. NoLostWakeup'  BY WokenFiniteNext DEF Block, NoLostWakeup
  <1>4. QED  BY <1>1, <1>2, <1>3 DEF SemInv

\* Timeouts and wake-ups take no unit and no woken waiter away.
LEMMA QuietStep ==
  ASSUME SemInv, NEW w \in Waiters,
         \/ pc[w] \in {"idle", "expired"} /\ ReturnTimeout(w)
         \/ Deadline(w) \/ SpuriousWakeup(w)
  PROVE  SemInv'
  <1>t. TypeOK /\ UnitsConserved /\ Capped /\ NoLostWakeup  BY DEF SemInv
  <1>1. TypeOK'
    BY <1>t DEF ReturnTimeout, Deadline, SpuriousWakeup, TypeOK
  <1>2. UnitsConserved' /\ Capped' /\ count' = count
    BY <1>t DEF ReturnTimeout, Deadline, SpuriousWakeup, UnitsConserved, Capped
  <1>3. Waiting' \subseteq Waiting /\ Woken \subseteq Woken'
    BY <1>t DEF ReturnTimeout, Deadline, SpuriousWakeup, Waiting, Woken, TypeOK
  <1>4. Cardinality(Woken) <= Cardinality(Woken')
    BY <1>3, WokenFiniteNext, FS_Subset
  <1>5. count \in Nat  BY <1>t DEF TypeOK
  <1>6. NoLostWakeup'
    BY <1>t, <1>2, <1>3, <1>4, <1>5, WokenFinite, WokenFiniteNext DEF NoLostWakeup
  <1>7. QED  BY <1>1, <1>2, <1>6 DEF SemInv

\* Every step preserves the invariant.
LEMMA SemStep == SemInv /\ [Next]_vars => SemInv'
  <1> SUFFICES ASSUME SemInv, [Next]_vars PROVE SemInv'
    OBVIOUS
  <1>1. CASE Post  BY <1>1, PostStep
  <1>2. ASSUME NEW w \in Waiters, NEW m \in Modes, WaitCall(w, m) PROVE SemInv'
    BY <1>2, TakeStep, BlockStep, QuietStep DEF WaitCall
  <1>3. ASSUME NEW w \in Waiters, WaitResume(w) PROVE SemInv'
    <2>1. mode[w] \in Modes  BY DEF SemInv, TypeOK
    <2>2. QED  BY <1>3, <2>1, TakeStep, BlockStep DEF WaitResume
  <1>4. ASSUME NEW w \in Waiters, Deadline(w) \/ SpuriousWakeup(w) \/ TimedOut(w) PROVE SemInv'
    BY <1>4, QuietStep DEF TimedOut
  <1>5. CASE UNCHANGED vars
    BY <1>5 DEF vars, SemInv, TypeOK, UnitsConserved, Capped, NoLostWakeup, Waiting, Woken
  <1>6. QED  BY <1>1, <1>2, <1>3, <1>4, <1>5 DEF Next

\* The invariant holds in every reachable state.
THEOREM SemCorrect == Spec => []SemInv
  <1>1. QED  BY SemInit, SemStep, PTL DEF Spec

\* No post of dtsemaphore_post leaves a thread asleep in dtsemaphore_wait
\* while a unit is free, whatever the timeouts and the barging.
THEOREM NoLostWakeupHolds == Spec => []NoLostWakeup
  <1>1. SemInv => NoLostWakeup  BY DEF SemInv
  <1>2. QED  BY <1>1, SemCorrect, PTL

\* Units are conserved: a wait that times out takes none, a wait that succeeds
\* takes one, and a post at the maximum is the only one that adds none.
THEOREM UnitsConservedHolds == Spec => []UnitsConserved
  <1>1. SemInv => UnitsConserved  BY DEF SemInv
  <1>2. QED  BY <1>1, SemCorrect, PTL

(***************************************************************************)
(* The invariant of the streams                                            *)
(***************************************************************************)
\* Only the reader waits on the semaphore, and only between its reads; a stream
\* without a semaphore never makes it wait.
WaiterOK ==
    /\ \A w \in Waiters \ {Reader} : pc[w] = "idle"
    /\ rd # "wait" => pc[Reader] = "idle"
    /\ pc[Reader] # "idle" => self.rx_semaphore

\* A chunk in the hand of a task is younger than all that the FIFO holds.
Younger(chunk) ==
    /\ \A i \in 1 .. Len(chunk) : /\ chunk[i] <= received
                                 /\ \A j \in 1 .. Len(fifo) : fifo[j] < chunk[i]
    /\ \A i, j \in 1 .. Len(chunk) : i < j => chunk[i] < chunk[j]
    /\ IsTty => Len(chunk) <= ReadMax

ChunksOK ==
    /\ \A j \in 1 .. Len(fifo) : fifo[j] <= received
    /\ \A t \in Tasks : /\ rx[t].pc # "push" => rx[t].chunk = <<>>
                        /\ Younger(rx[t].chunk)

\* The CAN stream has one task, and nothing in its FIFO before that was started.
CanTaskOK ==
    IsCan => /\ \A t \in Tasks : t # 1 => rx[t].pc = "none"
             /\ rx[1].pc \in {"none", "poll", "push", "post", "ended"}
             /\ self.fd = 0 => rx[1].pc = "none" /\ fifo = <<>>
             /\ news = "none"

\* The CAN driver flags a gap with the mutex of the push held.  A reader that
\* has tested the flag before finds the FIFO full of what came before the gap.
CanGapOK ==
    IsCan => /\ late = 0
             /\ gap # 0 => self.rx_overflow_flag
             /\ gap # 0 /\ rd = "pop" =>
                   Len(fifo) = Capacity /\ \A i \in 1 .. Len(fifo) : fifo[i] < gap

\* The TTY driver flags it later: until then the FIFO holds nothing from beyond
\* the gap.  A read that went past it tested the flag too early; the next one
\* will see it.
TtyGapOK ==
    IsTty => /\ gap # 0 /\ ~self.rx_overflow_flag =>
                   /\ \E t \in Tasks : rx[t].pc = "flag"
                   /\ \A i \in 1 .. Len(fifo) : fifo[i] < gap
             /\ late = 0 \/ (late = 1 /\ gap # 0 /\ self.rx_overflow_flag /\ rd # "pop")

\* A reader that waits beside bytes has a unit, or is about to get one.  For the
\* TTY this takes a FIFO that holds one read().
Posted == count > 0 \/ \E t \in Tasks : rx[t].pc = "post"
StallOK ==
    (/\ fifo # <<>> /\ rd = "wait" /\ pc[Reader] # "expired" /\ self.rx_semaphore
     /\ IsTty => ReadMax <= Capacity
     /\ IsCan => Feeding # {}) => Posted

\* A failure that the reader has not heard of is marked, and the reader has the
\* unit of the task's cleanup, is about to get it, or is about to test the mark.
FailureOK ==
    news = "failed" =>
        /\ self.rx_thread_failed
        /\ \/ count > 0
           \/ \E t \in Tasks : rx[t].pc = "cleanup"
           \/ rd \in {"read", "failed"}
           \/ pc[Reader] = "expired"

PipeInv ==
    /\ PipeTypeOK /\ WaiterOK /\ ChunksOK /\ CanTaskOK
    /\ CanGapOK /\ TtyGapOK /\ StallOK /\ FailureOK

(***************************************************************************)
(* What the steps of a stream do                                           *)
(***************************************************************************)
\* The sizes are positive, the bounds natural.
LEMMA Sizes ==
    /\ Capacity \in Nat /\ Capacity > 0 /\ BufLen \in Nat /\ BufLen > 0
    /\ MaxTasks \in Nat /\ MaxTasks > 0 /\ MaxBytes \in Nat /\ MaxEnables \in Nat
    /\ ReadMax \in Nat /\ ReadMax > 0 /\ FrameMax \in Nat /\ FrameMax > 0
    /\ Tasks = 1 .. MaxTasks /\ 1 \in Tasks /\ 0 \in 0 .. MaxTasks /\ 1 \in 0 .. MaxTasks
    /\ 0 \in 0 .. MaxBytes /\ 0 \in Nat /\ Bytes = 1 .. MaxBytes
BY PipeAssumption, ReadMaxAssumption, FrameMaxAssumption DEF Tasks, Bytes

\* A task that moves on lets go of its chunk.
LEMMA RxGoesFacts ==
    ASSUME PipeTypeOK, NEW t \in Tasks,
           NEW p \in Working \cup {"none", "cleanup", "ended"}, RxGoes(t, p)
    PROVE  /\ rx' \in [Tasks -> RxType] /\ rx'[t].pc = p /\ rx'[t].chunk = <<>>
           /\ \A u \in Tasks \ {t} : rx'[u] = rx[u]
<1>1. <<>> \in Seq(Bytes) /\ 0 \in 0 .. MaxTasks
    BY Sizes, EmptySeq
<1>2. [pc |-> p, fd |-> 0, chunk |-> <<>>] \in RxType
    BY <1>1 DEF RxType
<1> QED
    BY <1>2 DEF PipeTypeOK, RxGoes

\* A set of numbers that is not empty has a least one,
LEMMA LeastOf ==
    ASSUME NEW S, S \subseteq Nat, S # {}
    PROVE  \E m \in S : \A k \in S : m <= k
<1> DEFINE R == OpToRel(<, Nat)
<1>1. IsWellFoundedOn(R, Nat)
    BY NatLessThanWellFounded, Zenon
<1>2. \A x, y \in Nat : x < y => <<x, y>> \in R
    BY DEF OpToRel
<1> HIDE DEF R
<1>3. PICK m \in S : \A k \in S : <<k, m>> \notin R
    BY <1>1, WFMin
<1>4. \A k \in S : ~(k < m)
    BY <1>2, <1>3
<1> QED
    BY <1>4

\* so an attach that may start a task finds one that was never started.
LEMMA NextTaskFacts ==
    ASSUME Unused # {}
    PROVE  NextTask \in Tasks /\ NextTask \in 0 .. MaxTasks /\ rx[NextTask].pc = "none"
<1>1. Unused \subseteq Nat
    BY Sizes DEF Unused
<1>2. \E t \in Unused : \A u \in Unused : t <= u
    BY <1>1, LeastOf
<1>3. NextTask \in Unused
    BY <1>2 DEF NextTask
<1> QED
    BY <1>3, Sizes DEF Unused, RxAt

\* Two tasks that feed the FIFO are one.
LEMMA SingleFeeder ==
    ASSUME Cardinality(Feeding) <= 1, NEW t \in Feeding, NEW u \in Feeding
    PROVE  t = u
<1>1. IsFiniteSet(Tasks)
    BY FS_Interval, Sizes
<1>2. IsFiniteSet(Feeding)
    BY <1>1, FS_Subset DEF Feeding
<1> SUFFICES ASSUME t # u PROVE FALSE
    OBVIOUS
<1>3. IsFiniteSet({t}) /\ Cardinality({t}) = 1
    BY FS_Singleton
<1>4. IsFiniteSet({t} \cup {u}) /\ Cardinality({t} \cup {u}) = Cardinality({t}) + 1
  <2>1. u \notin {t}
    OBVIOUS
  <2> QED
    BY <1>3, <2>1, FS_AddElement
<1>5. Cardinality({t} \cup {u}) <= Cardinality(Feeding)
    BY <1>2, FS_Subset
<1>6. Cardinality(Feeding) \in Nat
    BY <1>2, FS_CardinalityType
<1> QED
    BY <1>3, <1>4, <1>5, <1>6

\* After a post there is a unit; it moves nobody but a waiter it wakes.
LEMMA PostFacts ==
    ASSUME SemInv, WaiterOK, Post
    PROVE  /\ count' \in Nat /\ count' > 0
           /\ \A w \in Waiters : pc'[w] = pc[w] \/ (pc[w] = "waiting" /\ pc'[w] = "woken")
BY MaxCountPos DEF SemInv, TypeOK, Post, Room, Signal, Waiting

\* The reader's wait ends, or begins again with the units left alone.
LEMMA WaitFacts ==
    ASSUME SemInv, WaiterOK,
           (\E m \in Modes : WaitCall(Reader, m)) \/ WaitResume(Reader) \/ TimedOut(Reader)
    PROVE  /\ \/ pc'[Reader] = "idle"
              \/ pc'[Reader] = "waiting" /\ pc[Reader] # "expired" /\ count' = count
           /\ \A w \in Waiters \ {Reader} : pc'[w] = pc[w]
BY ReaderAssumption DEF SemInv, TypeOK, WaitCall, WaitResume, TimedOut, Take, Block,
   ReturnTimeout

\* A reader that sleeps has no unit.
LEMMA SleepsAtZero ==
    ASSUME SemInv, WaiterOK, pc[Reader] = "waiting"
    PROVE  count = 0
<1>1. Woken = {} /\ Waiting # {}
    BY ReaderAssumption DEF WaiterOK, Woken, Waiting
<1>2. Cardinality(Woken) = 0
    BY <1>1, FS_EmptySet
<1> QED
    BY <1>1, <1>2 DEF SemInv, NoLostWakeup, TypeOK

\* What dtringfifo_push appends,
LEMMA PushedSeq ==
    ASSUME NEW S, NEW q \in Seq(S), NEW c \in Seq(S), NEW n \in 0 .. Len(c)
    PROVE  LET p == q \o SubSeq(c, 1, n) IN
           /\ p \in Seq(S) /\ Len(p) = Len(q) + n
           /\ \A i \in 1 .. Len(q) + n : p[i] = IF i <= Len(q) THEN q[i] ELSE c[i - Len(q)]
<1> DEFINE r == SubSeq(c, 1, n)
<1>1. \A i \in 1 .. n : c[i] \in S
    BY ElementOfSeq, LenProperties
<1>2. r \in Seq(S) /\ Len(r) = n /\ \A i \in 1 .. n : r[i] = c[i]
    BY <1>1, SubSeqProperties, LenProperties
<1> HIDE DEF r
<1>3. /\ q \o r \in Seq(S) /\ Len(q \o r) = Len(q) + Len(r)
      /\ \A i \in 1 .. Len(q) + Len(r) : (q \o r)[i] = IF i <= Len(q) THEN q[i] ELSE r[i - Len(q)]
    BY <1>2, ConcatProperties
<1>4. Len(q) \in Nat
    BY LenProperties
<1> QED
    BY <1>4

\* and what a push or a pop of n bytes leaves over.
LEMMA RestSeq ==
    ASSUME NEW S, NEW c \in Seq(S), NEW n \in 0 .. Len(c)
    PROVE  LET r == SubSeq(c, n + 1, Len(c)) IN
           /\ r \in Seq(S) /\ Len(r) = Len(c) - n
           /\ \A i \in 1 .. Len(c) - n : r[i] = c[n + i]
           /\ r # <<>> <=> n < Len(c)
<1> DEFINE r == SubSeq(c, n + 1, Len(c))
<1>1. Len(c) \in Nat /\ \A i \in n + 1 .. Len(c) : c[i] \in S
    BY ElementOfSeq, LenProperties
<1>2. /\ r \in Seq(S) /\ Len(r) = (IF n + 1 <= Len(c) THEN Len(c) - (n + 1) + 1 ELSE 0)
      /\ \A i \in 1 .. Len(c) - (n + 1) + 1 : r[i] = c[n + 1 + i - 1]
    BY <1>1, SubSeqProperties
<1> HIDE DEF r
<1>3. /\ r \in Seq(S) /\ Len(r) = Len(c) - n
      /\ \A i \in 1 .. Len(c) - n : r[i] = c[n + i]
    BY <1>1, <1>2
<1>4. r # <<>> <=> n < Len(c)
    BY <1>1, <1>3, EmptySeq, LenProperties
<1> QED
    BY <1>4

\* Order is kept by a step that moves no bytes and at most drops a chunk.
LEMMA ChunksKept ==
    ASSUME ChunksOK, fifo' = fifo, received' = received, self'.driver = self.driver,
           \A t \in Tasks : rx'[t].chunk = rx[t].chunk \/ rx'[t].chunk = <<>>,
           \A t \in Tasks : rx[t].pc = "push" => rx'[t].pc = "push" \/ rx'[t].chunk = <<>>
    PROVE  ChunksOK'
<1>1. Len(<<>>) = 0
    BY EmptySeq
<1> SUFFICES ASSUME NEW t \in Tasks
             PROVE  (rx'[t].pc # "push" => rx'[t].chunk = <<>>) /\ Younger(rx[t].chunk)'
    BY DEF ChunksOK
<1>2. CASE rx'[t].chunk = <<>>
    BY <1>2, Sizes DEF Younger
<1>3. CASE rx'[t].chunk = rx[t].chunk
    BY <1>3 DEF ChunksOK, Younger, IsTty
<1> QED
    BY <1>2, <1>3

\* A task that takes a chunk in hand.
LEMMA RxChunkFacts ==
    ASSUME PipeTypeOK, NEW t \in Tasks, NEW q \in Working, NEW c \in Seq(Bytes),
           rx' = [rx EXCEPT ![t].pc = q, ![t].chunk = c]
    PROVE  /\ rx' \in [Tasks -> RxType] /\ rx'[t].pc = q /\ rx'[t].chunk = c
           /\ \A u \in Tasks \ {t} : rx'[u] = rx[u]
BY DEF PipeTypeOK, RxType

\* Bytes the device delivers are younger than all before them.
LEMMA Received ==
    ASSUME PipeTypeOK, ChunksOK, NEW t \in Tasks, NEW n \in Nat, IsTty => n <= ReadMax,
           received + n <= MaxBytes, received' = received + n, self' = self, fifo' = fifo,
           NEW p \in Working,
           rx' = [rx EXCEPT ![t].pc = IF self.rx_enabled THEN "push" ELSE p,
                            ![t].chunk = IF self.rx_enabled THEN Deliver(n) ELSE <<>>]
    PROVE  /\ rx' \in [Tasks -> RxType] /\ rx'[t].pc \in {"push", p}
           /\ \A u \in Tasks \ {t} : rx'[u] = rx[u]
           /\ ChunksOK'
<1> DEFINE c == IF self.rx_enabled THEN Deliver(n) ELSE <<>>
           q == IF self.rx_enabled THEN "push" ELSE p
<1>1. received \in Nat /\ \A i \in 1 .. n : received + i \in Bytes
    BY Sizes DEF PipeTypeOK
<1>2. c \in Seq(Bytes) /\ Len(c) <= n /\ \A i \in 1 .. Len(c) : c[i] = received + i
  <2>1. CASE self.rx_enabled
    <3>1. c = [i \in 1 .. n |-> received + i]
      BY <2>1 DEF Deliver
    <3> HIDE DEF c
    <3>2. c \in Seq(Bytes) /\ Len(c) = n
      BY <1>1, <3>1
    <3> QED
      BY <3>1, <3>2
  <2>2. CASE ~self.rx_enabled
    BY <2>2
  <2> QED
    BY <2>1, <2>2
<1>3. q \in Working /\ q \in {"push", p} /\ (q # "push" => c = <<>>)
    BY DEF Working
<1>4. rx' = [rx EXCEPT ![t].pc = q, ![t].chunk = c]
    OBVIOUS
<1> HIDE DEF c, q
<1>5. /\ rx' \in [Tasks -> RxType] /\ rx'[t].pc = q /\ rx'[t].chunk = c
      /\ \A u \in Tasks \ {t} : rx'[u] = rx[u]
    BY <1>2, <1>3, <1>4, RxChunkFacts
<1>6. \A j \in 1 .. Len(fifo) : fifo[j] <= received /\ fifo[j] \in Nat
  <2>1. \A j \in 1 .. Len(fifo) : fifo[j] \in Bytes
    BY DEF PipeTypeOK
  <2> QED
    BY <2>1, Sizes DEF ChunksOK
<1>7. Younger(rx[t].chunk)'
  <2>1. Len(c) \in Nat /\ (IsTty => Len(c) <= ReadMax)
    BY <1>2, LenProperties, Sizes
  <2>2. \A i \in 1 .. Len(c) : c[i] <= received' /\ \A j \in 1 .. Len(fifo) : fifo[j] < c[i]
    BY <1>1, <1>2, <1>6, <2>1
  <2>3. \A i, j \in 1 .. Len(c) : i < j => c[i] < c[j]
    BY <1>1, <1>2, <2>1
  <2> QED
    BY <1>5, <2>1, <2>2, <2>3 DEF Younger, IsTty
<1>8. ASSUME NEW u \in Tasks \ {t}
      PROVE  (rx'[u].pc # "push" => rx'[u].chunk = <<>>) /\ Younger(rx[u].chunk)'
  <2> DEFINE d == rx[u].chunk
  <2>1. rx'[u] = rx[u] /\ Younger(d) /\ (rx[u].pc # "push" => d = <<>>) /\ d \in Seq(Bytes)
    BY <1>5 DEF ChunksOK, RxType
  <2> HIDE DEF d
  <2>2. \A i \in 1 .. Len(d) : d[i] \in Nat
    BY <2>1, ElementOfSeq, Sizes
  <2>3. \A i \in 1 .. Len(d) : d[i] <= received'
    BY <1>1, <2>1, <2>2 DEF Younger
  <2> QED
    BY <2>1, <2>3 DEF Younger, IsTty, d
<1>9. \A j \in 1 .. Len(fifo') : fifo'[j] <= received'
    BY <1>1, <1>6
<1> QED
    BY <1>5, <1>7, <1>8, <1>9 DEF ChunksOK

\* What dtringfifo_push does to the FIFO and to the history.
LEMMA PushFacts ==
    ASSUME PipeTypeOK, NEW c \in Seq(Bytes), Push(c)
    PROVE  /\ Fits(c) \in 0 .. Len(c)
           /\ Fits(c) < Len(c) => Len(fifo) + Fits(c) = Capacity
           /\ fifo' \in Seq(Bytes) /\ Len(fifo') = Len(fifo) + Fits(c) /\ Len(fifo') <= Capacity
           /\ \A i \in 1 .. Len(fifo') :
                 fifo'[i] = IF i <= Len(fifo) THEN fifo[i] ELSE c[i - Len(fifo)]
           /\ gap' \in 0 .. MaxBytes
           /\ gap' = IF gap = 0 /\ Fits(c) < Len(c) THEN c[Fits(c) + 1] ELSE gap
           /\ gap = 0 /\ Fits(c) < Len(c) => gap' # 0
<1>1. Len(c) \in Nat /\ Len(fifo) \in 0 .. Capacity
    BY DEF PipeTypeOK
<1>2. /\ Fits(c) \in 0 .. Len(c) /\ Len(fifo) + Fits(c) <= Capacity
      /\ Fits(c) < Len(c) => Len(fifo) + Fits(c) = Capacity
    BY <1>1, Sizes DEF Fits, Least
<1>3. /\ fifo' = fifo \o SubSeq(c, 1, Fits(c))
      /\ gap' = IF gap = 0 /\ Fits(c) < Len(c) THEN c[Fits(c) + 1] ELSE gap
    BY DEF Push
<1>4. /\ fifo' \in Seq(Bytes) /\ Len(fifo') = Len(fifo) + Fits(c)
      /\ \A i \in 1 .. Len(fifo) + Fits(c) :
            fifo'[i] = IF i <= Len(fifo) THEN fifo[i] ELSE c[i - Len(fifo)]
    BY <1>2, <1>3, PushedSeq DEF PipeTypeOK
<1>5. Fits(c) < Len(c) => c[Fits(c) + 1] \in 1 .. MaxBytes
    BY <1>1, <1>2, ElementOfSeq, Sizes
<1>6. gap' \in 0 .. MaxBytes /\ (gap = 0 /\ Fits(c) < Len(c) => gap' # 0)
    BY <1>3, <1>5 DEF PipeTypeOK
<1> QED
    BY <1>2, <1>3, <1>4, <1>6

\* The bytes pushed are older than what is still in a task's hand.
LEMMA PushKeepsOrder ==
    ASSUME PipeTypeOK, ChunksOK, NEW t \in Tasks, Push(rx[t].chunk),
           \A u \in Tasks \ {t} : rx[u].pc # "push" /\ rx'[u] = rx[u],
           rx'[t].chunk = <<>>, received' = received
    PROVE  ChunksOK'
<1> DEFINE c == rx[t].chunk
<1>1. c \in Seq(Bytes) /\ Len(c) \in Nat /\ Len(fifo) \in Nat
    BY DEF PipeTypeOK, RxType
<1>2. /\ Fits(c) \in 0 .. Len(c) /\ Len(fifo') = Len(fifo) + Fits(c)
      /\ \A i \in 1 .. Len(fifo') :
            fifo'[i] = IF i <= Len(fifo) THEN fifo[i] ELSE c[i - Len(fifo)]
    BY <1>1, PushFacts
<1>3. \A i \in 1 .. Len(c) : c[i] <= received
    BY DEF ChunksOK, Younger
<1>4. \A j \in 1 .. Len(fifo) : fifo[j] <= received
    BY DEF ChunksOK
<1> HIDE DEF c
<1>5. \A j \in 1 .. Len(fifo') : fifo'[j] <= received'
  <2> SUFFICES ASSUME NEW j \in 1 .. Len(fifo') PROVE fifo'[j] <= received
    OBVIOUS
  <2>1. CASE j <= Len(fifo)
    BY <1>1, <1>2, <1>4, <2>1
  <2>2. CASE j > Len(fifo)
    BY <1>1, <1>2, <1>3, <2>2
  <2> QED
    BY <1>1, <2>1, <2>2
<1>6. \A u \in Tasks : rx'[u].chunk = <<>>
    BY DEF ChunksOK
<1>7. Len(<<>>) = 0
    BY EmptySeq
<1> QED
    BY <1>5, <1>6, Sizes DEF ChunksOK, Younger

(***************************************************************************)
(* Every step preserves the invariant                                      *)
(***************************************************************************)
\* The reader goes to wait, or takes its unit at once.
LEMMA ReaderWaitsStep ==
    ASSUME SemInv, PipeInv, ReaderWaits
    PROVE  PipeInv'
<1>u. UNCHANGED <<self, fifo, rx, owner, enables, received, gap, late, news>>
    BY DEF ReaderWaits, hist
<1>s. /\ \/ pc'[Reader] = "idle" /\ rd' = "read"
         \/ /\ pc'[Reader] = "waiting" /\ pc[Reader] # "expired" /\ count' = count
            /\ rd' = "wait" /\ rd = "wait"
      /\ \A w \in Waiters \ {Reader} : pc'[w] = pc[w]
    BY WaitFacts DEF PipeInv, ReadsAfter, ReaderWaits
<1>1. PipeTypeOK'
    BY <1>u, <1>s DEF PipeInv, PipeTypeOK
<1>2. WaiterOK'
    BY <1>s DEF PipeInv, ReaderWaits, WaiterOK
<1>3. CanGapOK'
    BY <1>u, <1>s DEF PipeInv, CanGapOK, IsCan
<1>4. TtyGapOK'
    BY <1>u, <1>s DEF PipeInv, TtyGapOK, IsTty
<1>5. StallOK'
    BY <1>u, <1>s DEF PipeInv, StallOK, Posted, IsTty, IsCan, Feeding
<1>6. FailureOK'
    BY <1>u, <1>s DEF PipeInv, FailureOK
<1>7. ChunksOK' /\ CanTaskOK'
    BY <1>u DEF PipeInv, ChunksOK, CanTaskOK, Younger, IsTty, IsCan
<1> QED
    BY <1>1, <1>2, <1>3, <1>4, <1>5, <1>6, <1>7 DEF PipeInv

\* A reader that was woken looks at the count again.
LEMMA ReaderWakesStep ==
    ASSUME SemInv, PipeInv, ReaderWakes
    PROVE  PipeInv'
<1>u. UNCHANGED <<self, fifo, rx, owner, enables, received, gap, late, news>>
    BY DEF ReaderWakes, hist
<1>s. /\ pc[Reader] # "idle"
      /\ \/ pc'[Reader] = "idle" /\ rd' = "read"
         \/ /\ pc'[Reader] = "waiting" /\ pc[Reader] # "expired" /\ count' = count
            /\ rd' = "wait" /\ rd = "wait"
      /\ \A w \in Waiters \ {Reader} : pc'[w] = pc[w]
    BY WaitFacts DEF PipeInv, ReadsAfter, ReaderWakes, WaitResume, TimedOut
<1>1. PipeTypeOK'
    BY <1>u, <1>s DEF PipeInv, PipeTypeOK
<1>2. WaiterOK'
    BY <1>u, <1>s DEF PipeInv, WaiterOK
<1>3. CanGapOK'
    BY <1>u, <1>s DEF PipeInv, CanGapOK, IsCan
<1>4. TtyGapOK'
    BY <1>u, <1>s DEF PipeInv, TtyGapOK, IsTty
<1>5. StallOK'
    BY <1>u, <1>s DEF PipeInv, StallOK, Posted, IsTty, IsCan, Feeding
<1>6. FailureOK'
    BY <1>u, <1>s DEF PipeInv, FailureOK
<1>7. ChunksOK' /\ CanTaskOK'
    BY <1>u DEF PipeInv, ChunksOK, CanTaskOK, Younger, IsTty, IsCan
<1> QED
    BY <1>1, <1>2, <1>3, <1>4, <1>5, <1>6, <1>7 DEF PipeInv

\* Without a semaphore the reader reads at once.
LEMMA ReaderPollsStep ==
    ASSUME SemInv, PipeInv, ReaderPolls
    PROVE  PipeInv'
<1>u. UNCHANGED <<self, fifo, rx, owner, enables, received, gap, late, news, count, pc>>
    BY DEF ReaderPolls, sem, vars, hist
<1>1. PipeTypeOK'
    BY <1>u DEF PipeInv, ReaderPolls, PipeTypeOK
<1>2. WaiterOK'
    BY <1>u DEF PipeInv, ReaderPolls, WaiterOK
<1>3. CanGapOK'
    BY <1>u DEF PipeInv, ReaderPolls, CanGapOK, IsCan
<1>4. TtyGapOK'
    BY <1>u DEF PipeInv, ReaderPolls, TtyGapOK, IsTty
<1>5. StallOK'
    BY DEF PipeInv, ReaderPolls, StallOK
<1>6. FailureOK'
    BY <1>u DEF PipeInv, ReaderPolls, FailureOK
<1>7. ChunksOK' /\ CanTaskOK'
    BY <1>u DEF PipeInv, ChunksOK, CanTaskOK, Younger, IsTty, IsCan
<1> QED
    BY <1>1, <1>2, <1>3, <1>4, <1>5, <1>6, <1>7 DEF PipeInv

\* A deadline or a spurious wake-up takes no unit.
LEMMA WaitDisturbedStep ==
    ASSUME SemInv, PipeInv, WaitDisturbed
    PROVE  PipeInv'
<1>u. UNCHANGED <<self, fifo, rx, owner, enables, rd, received, gap, late, news>>
    BY DEF WaitDisturbed, app, hist, pipe
<1>s. /\ pc[Reader] = "waiting" /\ pc'[Reader] \in {"expired", "woken"} /\ count' = count
      /\ \A w \in Waiters \ {Reader} : pc'[w] = pc[w]
    BY ReaderAssumption DEF SemInv, TypeOK, Deadline, SpuriousWakeup, WaitDisturbed
<1>1. WaiterOK'
    BY <1>u, <1>s DEF PipeInv, WaiterOK
<1>2. StallOK'
    BY <1>u, <1>s DEF PipeInv, StallOK, Posted, IsTty, IsCan, Feeding
<1>3. FailureOK'
    BY <1>u, <1>s DEF PipeInv, FailureOK
<1>4. PipeTypeOK' /\ ChunksOK' /\ CanTaskOK' /\ CanGapOK' /\ TtyGapOK'
    BY <1>u DEF PipeInv, PipeTypeOK, ChunksOK, CanTaskOK, CanGapOK, TtyGapOK, Younger, IsTty,
       IsCan
<1> QED
    BY <1>1, <1>2, <1>3, <1>4 DEF PipeInv

\* A reader that goes on to pop has found the overflow flag down.
LEMMA ReadChecksStep ==
    ASSUME SemInv, PipeInv, ReadChecks
    PROVE  PipeInv'
<1>u. UNCHANGED <<self, fifo, rx, owner, enables, received, gap, late, news, count, pc>>
    BY DEF ReadChecks, sem, vars, hist
<1>1. PipeTypeOK'
    BY <1>u DEF PipeInv, ReadChecks, PipeTypeOK
<1>2. WaiterOK'
    BY <1>u DEF PipeInv, ReadChecks, WaiterOK
<1>3. CanGapOK'
    BY <1>u DEF PipeInv, ReadChecks, CanGapOK, IsCan
<1>4. TtyGapOK'
    BY <1>u DEF PipeInv, ReadChecks, TtyGapOK, IsTty
<1>5. StallOK'
    BY DEF PipeInv, ReadChecks, StallOK
<1>6. FailureOK'
    BY <1>u DEF PipeInv, ReadChecks, FailureOK
<1>7. ChunksOK' /\ CanTaskOK'
    BY <1>u DEF PipeInv, ChunksOK, CanTaskOK, Younger, IsTty, IsCan
<1> QED
    BY <1>1, <1>2, <1>3, <1>4, <1>5, <1>6, <1>7 DEF PipeInv

\* The reader learns of the gap.
LEMMA ReadOverflowStep ==
    ASSUME SemInv, PipeInv, ReadOverflow
    PROVE  PipeInv'
<1>u. UNCHANGED <<fifo, rx, owner, enables, received, news, count, pc>>
    BY DEF ReadOverflow, sem, vars
<1>f. /\ self' \in SelfType /\ self'.rx_overflow_flag = FALSE
      /\ self'.driver = self.driver /\ self'.fd = self.fd /\ self'.rx_enabled = self.rx_enabled
      /\ self'.rx_thread_failed = self.rx_thread_failed
      /\ self'.rx_semaphore = self.rx_semaphore
    BY Sizes DEF PipeInv, PipeTypeOK, SelfType, ReadOverflow
<1>1. PipeTypeOK'
    BY <1>f, Sizes DEF PipeInv, ReadOverflow, PipeTypeOK, Told
<1>2. WaiterOK'
    BY <1>u DEF PipeInv, ReadOverflow, WaiterOK
<1>3. ChunksOK'
    BY <1>u, <1>f, ChunksKept DEF PipeInv
<1>4. CanTaskOK'
    BY <1>u, <1>f DEF PipeInv, CanTaskOK, IsCan
<1>5. CanGapOK'
    BY DEF PipeInv, ReadOverflow, CanGapOK, Told
<1>6. TtyGapOK'
    BY DEF PipeInv, ReadOverflow, TtyGapOK, Told
<1>7. StallOK'
    BY DEF PipeInv, ReadOverflow, StallOK
<1>8. FailureOK'
    BY DEF PipeInv, ReadOverflow, FailureOK
<1> QED
    BY <1>1, <1>2, <1>3, <1>4, <1>5, <1>6, <1>7, <1>8 DEF PipeInv

\* The oldest bytes go to the reader; it waits only beside an empty FIFO.
LEMMA ReadPopStep ==
    ASSUME SemInv, PipeInv, ReadPop
    PROVE  PipeInv'
<1>u. UNCHANGED <<self, rx, owner, enables, received, gap, news, count, pc>>
    BY DEF ReadPop, sem, vars
<1> DEFINE n == Least(BufLen, Len(fifo))
<1>n. Len(fifo) \in Nat /\ n \in 0 .. Len(fifo) /\ (n = 0 => fifo = <<>>)
    BY Sizes DEF PipeInv, Least
<1>e. /\ fifo' = SubSeq(fifo, n + 1, Len(fifo))
      /\ late' = IF gap # 0 /\ \E i \in 1 .. n : fifo[i] > gap THEN late + 1 ELSE late
      /\ rd' = IF n = 0 THEN "wait" ELSE "read"
      /\ rd = "pop"
    BY DEF ReadPop
<1> HIDE DEF n
<1>q. /\ fifo' \in Seq(Bytes) /\ Len(fifo') = Len(fifo) - n
      /\ \A i \in 1 .. Len(fifo) - n : fifo'[i] = fifo[n + i]
    BY <1>n, <1>e DEF PipeInv, PipeTypeOK
<1>g. \A i \in 1 .. Len(fifo) : fifo[i] \in Nat
    BY Sizes DEF PipeInv, PipeTypeOK
<1>1. PipeTypeOK'
  <2>1. Len(fifo') <= Capacity /\ late' \in Nat
    BY <1>n, <1>e, Sizes DEF PipeInv, PipeTypeOK
  <2> QED
    BY <1>u, <1>e, <1>q, <2>1 DEF PipeInv, PipeTypeOK
<1>2. WaiterOK'
    BY <1>u, <1>e DEF PipeInv, WaiterOK
<1>3. ChunksOK'
  <2>1. \A j \in 1 .. Len(fifo') : fifo'[j] <= received'
    BY <1>u, <1>n, <1>q DEF PipeInv, ChunksOK
  <2>2. ASSUME NEW t \in Tasks PROVE Younger(rx[t].chunk)'
    <3> DEFINE d == rx[t].chunk
    <3>1. Younger(d) /\ rx'[t].chunk = d
      BY <1>u DEF PipeInv, ChunksOK
    <3> HIDE DEF d
    <3> QED
      BY <1>u, <1>n, <1>q, <3>1 DEF Younger, IsTty
  <2> QED
    BY <1>u, <2>1, <2>2 DEF PipeInv, ChunksOK
<1>4. CanTaskOK'
    BY <1>u, <1>n, <1>q DEF PipeInv, CanTaskOK, IsCan
<1>5. CanGapOK'
  <2> SUFFICES ASSUME IsCan PROVE late' = 0 /\ (gap # 0 => self.rx_overflow_flag)
    BY <1>u, <1>e DEF CanGapOK, IsCan
  <2>1. /\ late = 0
        /\ gap # 0 => self.rx_overflow_flag /\ \A i \in 1 .. Len(fifo) : fifo[i] < gap
    BY <1>e DEF PipeInv, CanGapOK
  <2>2. gap \in Nat
    BY DEF PipeInv, PipeTypeOK
  <2> QED
    BY <1>n, <1>e, <1>g, <2>1, <2>2
<1>6. TtyGapOK'
  <2> SUFFICES ASSUME IsTty
               PROVE  /\ gap # 0 /\ ~self.rx_overflow_flag =>
                            /\ \E t \in Tasks : rx[t].pc = "flag"
                            /\ \A i \in 1 .. Len(fifo') : fifo'[i] < gap
                      /\ late' = 0 \/ (late' = 1 /\ gap # 0 /\ self.rx_overflow_flag)
    BY <1>u, <1>e DEF TtyGapOK, IsTty
  <2>1. /\ late = 0 /\ gap \in Nat
        /\ gap # 0 /\ ~self.rx_overflow_flag =>
              /\ \E t \in Tasks : rx[t].pc = "flag"
              /\ \A i \in 1 .. Len(fifo) : fifo[i] < gap
    BY <1>e DEF PipeInv, TtyGapOK, PipeTypeOK
  <2>2. gap # 0 /\ ~self.rx_overflow_flag =>
           late' = 0 /\ \A i \in 1 .. Len(fifo') : fifo'[i] < gap
    BY <1>n, <1>e, <1>q, <1>g, <2>1
  <2>3. late' = 0 \/ (late' = 1 /\ gap # 0)
    BY <1>e, <2>1
  <2> QED
    BY <2>1, <2>2, <2>3
<1>7. StallOK'
    BY <1>n, <1>e DEF StallOK
<1>8. FailureOK'
    BY <1>u, <1>e DEF PipeInv, FailureOK
<1> QED
    BY <1>1, <1>2, <1>3, <1>4, <1>5, <1>6, <1>7, <1>8 DEF PipeInv

\* The TTY.  An attach starts a task that has no bytes in hand.
LEMMA TtyAttachStep ==
    ASSUME SemInv, PipeInv, TtyAttach
    PROVE  PipeInv'
<1>u. UNCHANGED <<fifo, owner, enables, rd, received, gap, late, news, count, pc>>
    BY DEF TtyAttach, sem, vars, app, hist
<1>n. NextTask \in Tasks /\ NextTask \in 0 .. MaxTasks /\ rx[NextTask].pc = "none"
    BY NextTaskFacts DEF TtyAttach
<1>f. /\ self' \in SelfType /\ self'.fd = NextTask
      /\ self'.driver = self.driver /\ self'.rx_enabled = self.rx_enabled
      /\ self'.rx_overflow_flag = self.rx_overflow_flag
      /\ self'.rx_thread_failed = self.rx_thread_failed
      /\ self'.rx_semaphore = self.rx_semaphore
    BY <1>n, Sizes DEF PipeInv, PipeTypeOK, SelfType, TtyAttach
<1>r. /\ rx' \in [Tasks -> RxType] /\ rx'[NextTask].pc = "top" /\ rx'[NextTask].chunk = <<>>
      /\ \A u \in Tasks \ {NextTask} : rx'[u] = rx[u]
    BY <1>n, RxGoesFacts DEF PipeInv, TtyAttach, Working
<1>1. PipeTypeOK'
    BY <1>u, <1>f, <1>r DEF PipeInv, PipeTypeOK
<1>2. WaiterOK'
    BY <1>u, <1>f DEF PipeInv, WaiterOK
<1>3. ChunksOK'
    BY <1>u, <1>r, <1>f, ChunksKept DEF PipeInv
<1>4. CanTaskOK'
    BY DEF PipeInv, TtyAttach, CanTaskOK, IsCan, IsTty
<1>5. CanGapOK'
    BY <1>u, <1>f DEF PipeInv, CanGapOK, IsCan
<1>6. TtyGapOK'
    BY <1>u, <1>n, <1>f, <1>r DEF PipeInv, TtyGapOK, IsTty
<1>7. StallOK'
    BY <1>u, <1>n, <1>r DEF PipeInv, TtyAttach, StallOK, Posted, IsTty, IsCan
<1>8. FailureOK'
    BY <1>u, <1>n, <1>f, <1>r DEF PipeInv, FailureOK
<1> QED
    BY <1>1, <1>2, <1>3, <1>4, <1>5, <1>6, <1>7, <1>8 DEF PipeInv

\* An attach that cannot start its task leaves the descriptor open.
LEMMA TtyAttachTaskFailsStep ==
    ASSUME SemInv, PipeInv, TtyAttachTaskFails
    PROVE  PipeInv'
<1>u. UNCHANGED <<fifo, owner, enables, rd, received, gap, late, news, count, pc>>
    BY DEF TtyAttachTaskFails, sem, vars, app, hist
<1>n. NextTask \in Tasks /\ NextTask \in 0 .. MaxTasks /\ rx[NextTask].pc = "none"
    BY NextTaskFacts DEF TtyAttachTaskFails
<1>f. /\ self' \in SelfType /\ self'.fd = NextTask
      /\ self'.driver = self.driver /\ self'.rx_enabled = self.rx_enabled
      /\ self'.rx_overflow_flag = self.rx_overflow_flag
      /\ self'.rx_thread_failed = self.rx_thread_failed
      /\ self'.rx_semaphore = self.rx_semaphore
    BY <1>n, Sizes DEF PipeInv, PipeTypeOK, SelfType, TtyAttachTaskFails
<1>r. /\ rx' \in [Tasks -> RxType] /\ rx'[NextTask].pc = "ended" /\ rx'[NextTask].chunk = <<>>
      /\ \A u \in Tasks \ {NextTask} : rx'[u] = rx[u]
    BY <1>n, RxGoesFacts DEF PipeInv, TtyAttachTaskFails
<1>1. PipeTypeOK'
    BY <1>u, <1>f, <1>r DEF PipeInv, PipeTypeOK
<1>2. WaiterOK'
    BY <1>u, <1>f DEF PipeInv, WaiterOK
<1>3. ChunksOK'
    BY <1>u, <1>r, <1>f, ChunksKept DEF PipeInv
<1>4. CanTaskOK'
    BY DEF PipeInv, TtyAttachTaskFails, CanTaskOK, IsCan, IsTty
<1>5. CanGapOK'
    BY <1>u, <1>f DEF PipeInv, CanGapOK, IsCan
<1>6. TtyGapOK'
    BY <1>u, <1>n, <1>f, <1>r DEF PipeInv, TtyGapOK, IsTty
<1>7. StallOK'
    BY <1>u, <1>n, <1>r DEF PipeInv, TtyAttachTaskFails, StallOK, Posted, IsTty, IsCan
<1>8. FailureOK'
    BY <1>u, <1>n, <1>f, <1>r DEF PipeInv, FailureOK
<1> QED
    BY <1>1, <1>2, <1>3, <1>4, <1>5, <1>6, <1>7, <1>8 DEF PipeInv

\* A detach closes the descriptor and leaves the task where it is.
LEMMA TtyDetachStep ==
    ASSUME SemInv, PipeInv, TtyDetach
    PROVE  PipeInv'
<1>u. UNCHANGED <<fifo, rx, owner, enables, rd, received, gap, late, news, count, pc>>
    BY DEF TtyDetach, sem, vars, app, hist
<1>f. /\ self' \in SelfType /\ self'.fd = 0
      /\ self'.driver = self.driver /\ self'.rx_enabled = self.rx_enabled
      /\ self'.rx_overflow_flag = self.rx_overflow_flag
      /\ self'.rx_thread_failed = self.rx_thread_failed
      /\ self'.rx_semaphore = self.rx_semaphore
    BY Sizes DEF PipeInv, PipeTypeOK, SelfType, TtyDetach
<1>1. PipeTypeOK'
    BY <1>u, <1>f DEF PipeInv, PipeTypeOK
<1>2. WaiterOK'
    BY <1>u, <1>f DEF PipeInv, WaiterOK
<1>3. ChunksOK'
    BY <1>u, <1>f, ChunksKept DEF PipeInv
<1>4. CanTaskOK'
    BY DEF PipeInv, TtyDetach, CanTaskOK, IsCan, IsTty
<1>5. CanGapOK'
    BY <1>u, <1>f DEF PipeInv, CanGapOK, IsCan
<1>6. TtyGapOK'
    BY <1>u, <1>f DEF PipeInv, TtyGapOK, IsTty
<1>7. StallOK'
    BY <1>u, <1>f DEF PipeInv, StallOK, Posted, IsTty, IsCan, Feeding
<1>8. FailureOK'
    BY <1>u, <1>f DEF PipeInv, FailureOK
<1> QED
    BY <1>1, <1>2, <1>3, <1>4, <1>5, <1>6, <1>7, <1>8 DEF PipeInv

\* enable: the new value is stored,
LEMMA TtyEnableStep ==
    ASSUME SemInv, PipeInv, NEW enabled \in BOOLEAN, TtyEnable(enabled)
    PROVE  PipeInv'
<1>u. UNCHANGED <<fifo, rx, rd, received, gap, late, news, count, pc>>
    BY DEF TtyEnable, sem, vars, hist
<1>f. /\ self' \in SelfType /\ self'.rx_enabled = enabled
      /\ self'.driver = self.driver /\ self'.fd = self.fd
      /\ self'.rx_overflow_flag = self.rx_overflow_flag
      /\ self'.rx_thread_failed = self.rx_thread_failed
      /\ self'.rx_semaphore = self.rx_semaphore
    BY Sizes DEF PipeInv, PipeTypeOK, SelfType, TtyEnable
<1>1. PipeTypeOK'
    BY <1>u, <1>f, Sizes DEF PipeInv, TtyEnable, PipeTypeOK
<1>2. WaiterOK'
    BY <1>u, <1>f DEF PipeInv, WaiterOK
<1>3. ChunksOK'
    BY <1>u, <1>f, ChunksKept DEF PipeInv
<1>4. CanTaskOK'
    BY <1>u, <1>f DEF PipeInv, CanTaskOK, IsCan
<1>5. CanGapOK'
    BY <1>u, <1>f DEF PipeInv, CanGapOK, IsCan
<1>6. TtyGapOK'
    BY <1>u, <1>f DEF PipeInv, TtyGapOK, IsTty
<1>7. StallOK'
    BY <1>u, <1>f DEF PipeInv, StallOK, Posted, IsTty, IsCan, Feeding
<1>8. FailureOK'
    BY <1>u, <1>f DEF PipeInv, FailureOK
<1> QED
    BY <1>1, <1>2, <1>3, <1>4, <1>5, <1>6, <1>7, <1>8 DEF PipeInv

\* the FIFO is emptied,
LEMMA TtyEnableResetsStep ==
    ASSUME SemInv, PipeInv, TtyEnableResets
    PROVE  PipeInv'
<1>u. UNCHANGED <<self, rx, enables, rd, received, news, count, pc>>
    BY DEF TtyEnableResets, sem, vars
<1>1. PipeTypeOK'
    BY Sizes DEF PipeInv, TtyEnableResets, PipeTypeOK, Told, Reset
<1>2. ChunksOK'
    BY DEF PipeInv, TtyEnableResets, ChunksOK, Younger, Reset
<1>3. CanTaskOK'
    BY DEF PipeInv, TtyEnableResets, CanTaskOK, IsCan, IsTty
<1>4. CanGapOK'
    BY DEF PipeInv, TtyEnableResets, CanGapOK, Told, Reset
<1>5. TtyGapOK'
    BY DEF PipeInv, TtyEnableResets, TtyGapOK, Told, Reset
<1>6. StallOK'
    BY DEF PipeInv, TtyEnableResets, StallOK, Reset
<1>7. WaiterOK' /\ FailureOK'
    BY <1>u DEF PipeInv, WaiterOK, FailureOK
<1> QED
    BY <1>1, <1>2, <1>3, <1>4, <1>5, <1>6, <1>7 DEF PipeInv

\* the overflow flag goes down, and with it the gap is forgotten,
LEMMA TtyEnableClearsStep ==
    ASSUME SemInv, PipeInv, TtyEnableClears
    PROVE  PipeInv'
<1>u. UNCHANGED <<fifo, rx, enables, rd, received, news, count, pc>>
    BY DEF TtyEnableClears, sem, vars
<1>f. /\ self' \in SelfType /\ self'.rx_overflow_flag = FALSE
      /\ self'.driver = self.driver /\ self'.fd = self.fd /\ self'.rx_enabled = self.rx_enabled
      /\ self'.rx_thread_failed = self.rx_thread_failed
      /\ self'.rx_semaphore = self.rx_semaphore
    BY Sizes DEF PipeInv, PipeTypeOK, SelfType, TtyEnableClears
<1>1. PipeTypeOK'
    BY <1>f, Sizes DEF PipeInv, TtyEnableClears, PipeTypeOK, Told
<1>2. WaiterOK'
    BY <1>u, <1>f DEF PipeInv, WaiterOK
<1>3. ChunksOK'
    BY <1>u, <1>f, ChunksKept DEF PipeInv
<1>4. CanTaskOK'
    BY <1>u, <1>f DEF PipeInv, CanTaskOK, IsCan
<1>5. CanGapOK'
    BY DEF PipeInv, TtyEnableClears, CanGapOK, Told
<1>6. TtyGapOK'
    BY DEF PipeInv, TtyEnableClears, TtyGapOK, Told
<1>7. StallOK'
    BY <1>u, <1>f DEF PipeInv, StallOK, Posted, IsTty, IsCan, Feeding
<1>8. FailureOK'
    BY <1>u, <1>f DEF PipeInv, FailureOK
<1> QED
    BY <1>1, <1>2, <1>3, <1>4, <1>5, <1>6, <1>7, <1>8 DEF PipeInv

\* and the failure mark too.
LEMMA TtyEnableForgetsStep ==
    ASSUME SemInv, PipeInv, TtyEnableForgets
    PROVE  PipeInv'
<1>u. UNCHANGED <<fifo, rx, enables, rd, received, gap, late, count, pc>>
    BY DEF TtyEnableForgets, sem, vars
<1>f. /\ self' \in SelfType /\ self'.rx_thread_failed = FALSE
      /\ self'.driver = self.driver /\ self'.fd = self.fd /\ self'.rx_enabled = self.rx_enabled
      /\ self'.rx_overflow_flag = self.rx_overflow_flag
      /\ self'.rx_semaphore = self.rx_semaphore
    BY Sizes DEF PipeInv, PipeTypeOK, SelfType, TtyEnableForgets
<1>1. PipeTypeOK'
    BY <1>f DEF PipeInv, TtyEnableForgets, PipeTypeOK
<1>2. WaiterOK'
    BY <1>u, <1>f DEF PipeInv, WaiterOK
<1>3. ChunksOK'
    BY <1>u, <1>f, ChunksKept DEF PipeInv
<1>4. CanTaskOK'
    BY DEF PipeInv, TtyEnableForgets, CanTaskOK, IsCan
<1>5. CanGapOK'
    BY <1>u, <1>f DEF PipeInv, CanGapOK, IsCan
<1>6. TtyGapOK'
    BY <1>u, <1>f DEF PipeInv, TtyGapOK, IsTty
<1>7. StallOK'
    BY <1>u, <1>f DEF PipeInv, StallOK, Posted, IsTty, IsCan, Feeding
<1>8. FailureOK'
    BY DEF PipeInv, TtyEnableForgets, FailureOK
<1> QED
    BY <1>1, <1>2, <1>3, <1>4, <1>5, <1>6, <1>7, <1>8 DEF PipeInv

\* The task takes the descriptor it is going to poll.
LEMMA TtyRxLoadsStep ==
    ASSUME SemInv, PipeInv, NEW t \in Tasks, TtyRxLoads(t)
    PROVE  PipeInv'
<1>u. UNCHANGED <<self, fifo, owner, enables, rd, received, gap, late, news, count, pc>>
    BY DEF TtyRxLoads, sem, vars, app, hist
<1>r. /\ rx' \in [Tasks -> RxType] /\ rx'[t].pc = "poll" /\ rx'[t].chunk = rx[t].chunk
      /\ \A u \in Tasks \ {t} : rx'[u] = rx[u]
    BY DEF PipeInv, PipeTypeOK, SelfType, RxType, TtyRxLoads, Working
<1>1. PipeTypeOK'
    BY <1>u, <1>r DEF PipeInv, PipeTypeOK
<1>2. ChunksOK'
    BY <1>u, <1>r, ChunksKept DEF PipeInv, TtyRxLoads, RxAt
<1>3. CanTaskOK'
    BY DEF PipeInv, TtyRxLoads, CanTaskOK, IsCan, IsTty
<1>4. TtyGapOK'
    BY <1>u, <1>r DEF PipeInv, TtyRxLoads, TtyGapOK, RxAt
<1>5. StallOK'
    BY <1>u, <1>r DEF PipeInv, TtyRxLoads, StallOK, Posted, IsTty, Feeding, Working, RxAt
<1>6. FailureOK'
    BY <1>u, <1>r DEF PipeInv, TtyRxLoads, FailureOK, RxAt
<1>7. WaiterOK' /\ CanGapOK'
    BY <1>u DEF PipeInv, WaiterOK, CanGapOK, IsCan
<1> QED
    BY <1>1, <1>2, <1>3, <1>4, <1>5, <1>6, <1>7 DEF PipeInv

\* A poll that times out goes round the loop.
LEMMA TtyRxTimesOutStep ==
    ASSUME SemInv, PipeInv, NEW t \in Tasks, TtyRxTimesOut(t)
    PROVE  PipeInv'
<1>u. UNCHANGED <<self, fifo, owner, enables, rd, received, gap, late, news, count, pc>>
    BY DEF TtyRxTimesOut, sem, vars, app, hist
<1>r. /\ rx' \in [Tasks -> RxType] /\ rx'[t].pc = "top" /\ rx'[t].chunk = <<>>
      /\ \A u \in Tasks \ {t} : rx'[u] = rx[u]
    BY RxGoesFacts DEF PipeInv, TtyRxTimesOut, Working
<1>1. PipeTypeOK'
    BY <1>u, <1>r DEF PipeInv, PipeTypeOK
<1>2. ChunksOK'
    BY <1>u, <1>r, ChunksKept DEF PipeInv
<1>3. CanTaskOK'
    BY DEF PipeInv, TtyRxTimesOut, CanTaskOK, IsCan, IsTty
<1>4. TtyGapOK'
    BY <1>u, <1>r DEF PipeInv, TtyRxTimesOut, TtyGapOK, RxAt
<1>5. StallOK'
    BY <1>u, <1>r DEF PipeInv, TtyRxTimesOut, StallOK, Posted, IsTty, Feeding, Working, RxAt
<1>6. FailureOK'
    BY <1>u, <1>r DEF PipeInv, TtyRxTimesOut, FailureOK, RxAt
<1>7. WaiterOK' /\ CanGapOK'
    BY <1>u DEF PipeInv, WaiterOK, CanGapOK, IsCan
<1> QED
    BY <1>1, <1>2, <1>3, <1>4, <1>5, <1>6, <1>7 DEF PipeInv

\* A readable descriptor is read next.
LEMMA TtyRxReadableStep ==
    ASSUME SemInv, PipeInv, NEW t \in Tasks, TtyRxReadable(t)
    PROVE  PipeInv'
<1>u. UNCHANGED <<self, fifo, owner, enables, rd, received, gap, late, news, count, pc>>
    BY DEF TtyRxReadable, sem, vars, app, hist
<1>r. /\ rx' \in [Tasks -> RxType] /\ rx'[t].pc = "read" /\ rx'[t].chunk = <<>>
      /\ \A u \in Tasks \ {t} : rx'[u] = rx[u]
    BY RxGoesFacts DEF PipeInv, TtyRxReadable, Working
<1>1. PipeTypeOK'
    BY <1>u, <1>r DEF PipeInv, PipeTypeOK
<1>2. ChunksOK'
    BY <1>u, <1>r, ChunksKept DEF PipeInv
<1>3. CanTaskOK'
    BY DEF PipeInv, TtyRxReadable, CanTaskOK, IsCan, IsTty
<1>4. TtyGapOK'
    BY <1>u, <1>r DEF PipeInv, TtyRxReadable, TtyGapOK, RxAt
<1>5. StallOK'
    BY <1>u, <1>r DEF PipeInv, TtyRxReadable, StallOK, Posted, IsTty, Feeding, Working, RxAt
<1>6. FailureOK'
    BY <1>u, <1>r DEF PipeInv, TtyRxReadable, FailureOK, RxAt
<1>7. WaiterOK' /\ CanGapOK'
    BY <1>u DEF PipeInv, WaiterOK, CanGapOK, IsCan
<1> QED
    BY <1>1, <1>2, <1>3, <1>4, <1>5, <1>6, <1>7 DEF PipeInv

\* An error of poll() ends the loop.
LEMMA TtyRxBrokenStep ==
    ASSUME SemInv, PipeInv, NEW t \in Tasks, TtyRxBroken(t)
    PROVE  PipeInv'
<1>u. UNCHANGED <<self, fifo, owner, enables, rd, received, gap, late, news, count, pc>>
    BY DEF TtyRxBroken, sem, vars, app, hist
<1>r. /\ rx' \in [Tasks -> RxType] /\ rx'[t].pc = "fail" /\ rx'[t].chunk = <<>>
      /\ \A u \in Tasks \ {t} : rx'[u] = rx[u]
    BY RxGoesFacts DEF PipeInv, TtyRxBroken, Working
<1>1. PipeTypeOK'
    BY <1>u, <1>r DEF PipeInv, PipeTypeOK
<1>2. ChunksOK'
    BY <1>u, <1>r, ChunksKept DEF PipeInv
<1>3. CanTaskOK'
    BY DEF PipeInv, TtyRxBroken, CanTaskOK, IsCan, IsTty
<1>4. TtyGapOK'
    BY <1>u, <1>r DEF PipeInv, TtyRxBroken, TtyGapOK, RxAt
<1>5. StallOK'
    BY <1>u, <1>r DEF PipeInv, TtyRxBroken, StallOK, Posted, IsTty, Feeding, Working, RxAt
<1>6. FailureOK'
    BY <1>u, <1>r DEF PipeInv, TtyRxBroken, FailureOK, RxAt
<1>7. WaiterOK' /\ CanGapOK'
    BY <1>u DEF PipeInv, WaiterOK, CanGapOK, IsCan
<1> QED
    BY <1>1, <1>2, <1>3, <1>4, <1>5, <1>6, <1>7 DEF PipeInv

\* The bytes read are younger than everything in the FIFO.
LEMMA TtyRxReadsStep ==
    ASSUME SemInv, PipeInv, NEW t \in Tasks, TtyRxReads(t)
    PROVE  PipeInv'
<1>u. UNCHANGED <<self, fifo, owner, enables, rd, gap, late, news, count, pc>>
    BY DEF TtyRxReads, sem, vars, app
<1>n. PICK n \in 1 .. ReadMax :
         /\ received + n <= MaxBytes /\ received' = received + n
         /\ rx' = [rx EXCEPT ![t].pc = IF self.rx_enabled THEN "push" ELSE "top",
                             ![t].chunk = IF self.rx_enabled THEN Deliver(n) ELSE <<>>]
    BY DEF TtyRxReads
<1>m. n \in Nat /\ (IsTty => n <= ReadMax)
    BY Sizes
<1>r. /\ rx' \in [Tasks -> RxType] /\ rx'[t].pc \in {"push", "top"}
      /\ \A u \in Tasks \ {t} : rx'[u] = rx[u]
      /\ ChunksOK'
  <2>1. "top" \in Working
    BY DEF Working
  <2> QED
    BY <1>u, <1>n, <1>m, <2>1, Sizes, Received DEF PipeInv
<1>1. PipeTypeOK'
    BY <1>u, <1>n, <1>r DEF PipeInv, PipeTypeOK
<1>2. ChunksOK'
    BY <1>r
<1>3. CanTaskOK'
    BY DEF PipeInv, TtyRxReads, CanTaskOK, IsCan, IsTty
<1>4. TtyGapOK'
    BY <1>u, <1>r DEF PipeInv, TtyRxReads, TtyGapOK, RxAt
<1>5. StallOK'
    BY <1>u, <1>r DEF PipeInv, TtyRxReads, StallOK, Posted, IsTty, Feeding, Working, RxAt
<1>6. FailureOK'
    BY <1>u, <1>r DEF PipeInv, TtyRxReads, FailureOK, RxAt
<1>7. WaiterOK' /\ CanGapOK'
    BY <1>u DEF PipeInv, WaiterOK, CanGapOK, IsCan
<1> QED
    BY <1>1, <1>2, <1>3, <1>4, <1>5, <1>6, <1>7 DEF PipeInv

\* A read() of nothing goes round the loop.
LEMMA TtyRxReadsNothingStep ==
    ASSUME SemInv, PipeInv, NEW t \in Tasks, TtyRxReadsNothing(t)
    PROVE  PipeInv'
<1>u. UNCHANGED <<self, fifo, owner, enables, rd, received, gap, late, news, count, pc>>
    BY DEF TtyRxReadsNothing, sem, vars, app, hist
<1>r. /\ rx' \in [Tasks -> RxType] /\ rx'[t].pc = "top" /\ rx'[t].chunk = <<>>
      /\ \A u \in Tasks \ {t} : rx'[u] = rx[u]
    BY RxGoesFacts DEF PipeInv, TtyRxReadsNothing, Working
<1>1. PipeTypeOK'
    BY <1>u, <1>r DEF PipeInv, PipeTypeOK
<1>2. ChunksOK'
    BY <1>u, <1>r, ChunksKept DEF PipeInv
<1>3. CanTaskOK'
    BY DEF PipeInv, TtyRxReadsNothing, CanTaskOK, IsCan, IsTty
<1>4. TtyGapOK'
    BY <1>u, <1>r DEF PipeInv, TtyRxReadsNothing, TtyGapOK, RxAt
<1>5. StallOK'
    BY <1>u, <1>r DEF PipeInv, TtyRxReadsNothing, StallOK, Posted, IsTty, Feeding, Working, RxAt
<1>6. FailureOK'
    BY <1>u, <1>r DEF PipeInv, TtyRxReadsNothing, FailureOK, RxAt
<1>7. WaiterOK' /\ CanGapOK'
    BY <1>u DEF PipeInv, WaiterOK, CanGapOK, IsCan
<1> QED
    BY <1>1, <1>2, <1>3, <1>4, <1>5, <1>6, <1>7 DEF PipeInv

\* An error of read() ends the loop.
LEMMA TtyRxReadFailsStep ==
    ASSUME SemInv, PipeInv, NEW t \in Tasks, TtyRxReadFails(t)
    PROVE  PipeInv'
<1>u. UNCHANGED <<self, fifo, owner, enables, rd, received, gap, late, news, count, pc>>
    BY DEF TtyRxReadFails, sem, vars, app, hist
<1>r. /\ rx' \in [Tasks -> RxType] /\ rx'[t].pc = "fail" /\ rx'[t].chunk = <<>>
      /\ \A u \in Tasks \ {t} : rx'[u] = rx[u]
    BY RxGoesFacts DEF PipeInv, TtyRxReadFails, Working
<1>1. PipeTypeOK'
    BY <1>u, <1>r DEF PipeInv, PipeTypeOK
<1>2. ChunksOK'
    BY <1>u, <1>r, ChunksKept DEF PipeInv
<1>3. CanTaskOK'
    BY DEF PipeInv, TtyRxReadFails, CanTaskOK, IsCan, IsTty
<1>4. TtyGapOK'
    BY <1>u, <1>r DEF PipeInv, TtyRxReadFails, TtyGapOK, RxAt
<1>5. StallOK'
    BY <1>u, <1>r DEF PipeInv, TtyRxReadFails, StallOK, Posted, IsTty, Feeding, Working, RxAt
<1>6. FailureOK'
    BY <1>u, <1>r DEF PipeInv, TtyRxReadFails, FailureOK, RxAt
<1>7. WaiterOK' /\ CanGapOK'
    BY <1>u DEF PipeInv, WaiterOK, CanGapOK, IsCan
<1> QED
    BY <1>1, <1>2, <1>3, <1>4, <1>5, <1>6, <1>7 DEF PipeInv

\* What fits goes behind the FIFO, and what does not is the gap.
LEMMA TtyRxPushesStep ==
    ASSUME SemInv, PipeInv, Cardinality(Feeding) <= 1, NEW t \in Tasks, TtyRxPushes(t)
    PROVE  PipeInv'
<1>u. UNCHANGED <<self, owner, enables, rd, received, late, news, count, pc>>
    BY DEF TtyRxPushes, sem, vars, app
<1> DEFINE c == rx[t].chunk
<1>c. c \in Seq(Bytes) /\ Len(c) \in Nat /\ Len(fifo) \in Nat /\ Younger(c)
    BY DEF PipeInv, PipeTypeOK, RxType, ChunksOK
<1>p. Push(c)
    BY DEF TtyRxPushes
<1>q. /\ Fits(c) \in 0 .. Len(c)
      /\ Fits(c) < Len(c) => Len(fifo) + Fits(c) = Capacity
      /\ fifo' \in Seq(Bytes) /\ Len(fifo') = Len(fifo) + Fits(c) /\ Len(fifo') <= Capacity
      /\ \A i \in 1 .. Len(fifo') :
            fifo'[i] = IF i <= Len(fifo) THEN fifo[i] ELSE c[i - Len(fifo)]
      /\ gap' \in 0 .. MaxBytes
      /\ gap' = IF gap = 0 /\ Fits(c) < Len(c) THEN c[Fits(c) + 1] ELSE gap
      /\ gap = 0 /\ Fits(c) < Len(c) => gap' # 0
    BY <1>c, <1>p, PushFacts DEF PipeInv
<1> DEFINE q == IF Fits(c) < Len(c) THEN "flag" ELSE IF self.rx_semaphore THEN "post" ELSE "top"
<1>r. /\ rx' \in [Tasks -> RxType] /\ rx'[t].pc = q /\ rx'[t].chunk = <<>>
      /\ \A u \in Tasks \ {t} : rx'[u] = rx[u]
  <2>1. q \in Working /\ <<>> \in Seq(Bytes)
    BY DEF Working
  <2>2. rx' = [rx EXCEPT ![t].pc = q, ![t].chunk = <<>>]
    BY DEF TtyRxPushes
  <2> HIDE DEF q
  <2> QED
    BY <2>1, <2>2, RxChunkFacts DEF PipeInv
<1>o. rx[t].pc = "push" /\ \A u \in Tasks \ {t} : rx[u].pc \notin {"push", "flag"}
  <2>1. t \in Feeding
    BY DEF TtyRxPushes, RxAt, Feeding, Working
  <2>2. ASSUME NEW u \in Tasks \ {t}, rx[u].pc \in {"push", "flag"} PROVE FALSE
    <3>1. u \in Feeding
      BY <2>2 DEF Feeding, Working
    <3> QED
      BY <2>1, <3>1, SingleFeeder
  <2> QED
    BY <2>2 DEF TtyRxPushes, RxAt
<1> HIDE DEF c
<1>1. PipeTypeOK'
    BY <1>u, <1>q, <1>r DEF PipeInv, PipeTypeOK
<1>2. ChunksOK'
    BY <1>u, <1>p, <1>r, <1>o, PushKeepsOrder DEF PipeInv, c
<1>3. CanTaskOK'
    BY DEF CanTaskOK, TtyRxPushes, IsTty, IsCan
<1>4. CanGapOK'
    BY DEF CanGapOK, TtyRxPushes, IsTty, IsCan
<1>5. TtyGapOK'
  <2>1. CASE Fits(c) < Len(c) /\ gap = 0
    <3>1. rx'[t].pc = "flag" /\ gap' = c[Fits(c) + 1] /\ Fits(c) + 1 \in 1 .. Len(c)
      BY <1>c, <1>q, <1>r, <2>1
    <3>2. ASSUME NEW i \in 1 .. Len(fifo') PROVE fifo'[i] < gap'
      <4>1. CASE i <= Len(fifo)
        <5>1. fifo'[i] = fifo[i] /\ i \in 1 .. Len(fifo)
          BY <1>c, <1>q, <4>1
        <5> QED
          BY <1>c, <3>1, <5>1 DEF Younger
      <4>2. CASE i > Len(fifo)
        <5>1. /\ fifo'[i] = c[i - Len(fifo)] /\ i - Len(fifo) \in 1 .. Len(c)
              /\ i - Len(fifo) < Fits(c) + 1
          BY <1>c, <1>q, <4>2
        <5> QED
          BY <1>c, <3>1, <5>1 DEF Younger
      <4> QED
        BY <1>c, <4>1, <4>2
    <3> QED
      BY <1>u, <3>1, <3>2, <2>1 DEF PipeInv, TtyGapOK, IsTty
  <2>2. CASE gap' = gap
    BY <1>u, <1>o, <2>2 DEF PipeInv, TtyGapOK, IsTty
  <2> QED
    BY <1>q, <2>1, <2>2
<1>6. StallOK'
  <2>1. CASE rx'[t].pc = "post"
    BY <2>1 DEF StallOK, Posted
  <2>2. CASE Fits(c) < Len(c) /\ Len(c) <= Capacity
    <3>1. fifo # <<>>
      BY <1>c, <1>q, <2>2
    <3> QED
      BY <1>u, <1>r, <1>o, <3>1 DEF PipeInv, StallOK, Posted, TtyRxPushes, IsTty, IsCan
  <2> QED
    BY <1>u, <1>c, <1>r, <2>1, <2>2, Sizes DEF StallOK, Younger, TtyRxPushes, IsTty
<1>7. FailureOK'
    BY <1>u, <1>r, <1>o DEF PipeInv, FailureOK
<1>8. WaiterOK'
    BY <1>u DEF PipeInv, WaiterOK
<1> QED
    BY <1>1, <1>2, <1>3, <1>4, <1>5, <1>6, <1>7, <1>8 DEF PipeInv

\* The gap is flagged.
LEMMA TtyRxFlagsStep ==
    ASSUME SemInv, PipeInv, NEW t \in Tasks, TtyRxFlags(t)
    PROVE  PipeInv'
<1>u. UNCHANGED <<fifo, owner, enables, rd, received, gap, late, news, count, pc>>
    BY DEF TtyRxFlags, sem, vars, app, hist
<1>f. /\ self' \in SelfType /\ self'.rx_overflow_flag = TRUE
      /\ self'.driver = self.driver /\ self'.fd = self.fd /\ self'.rx_enabled = self.rx_enabled
      /\ self'.rx_thread_failed = self.rx_thread_failed
      /\ self'.rx_semaphore = self.rx_semaphore
    BY Sizes DEF PipeInv, PipeTypeOK, SelfType, TtyRxFlags
<1>r. /\ rx' \in [Tasks -> RxType] /\ rx'[t].pc = "top" /\ rx'[t].chunk = <<>>
      /\ \A u \in Tasks \ {t} : rx'[u] = rx[u]
    BY RxGoesFacts DEF PipeInv, TtyRxFlags, Working
<1>1. PipeTypeOK'
    BY <1>u, <1>f, <1>r DEF PipeInv, PipeTypeOK
<1>2. WaiterOK'
    BY <1>u, <1>f DEF PipeInv, WaiterOK
<1>3. ChunksOK'
    BY <1>u, <1>r, <1>f, ChunksKept DEF PipeInv
<1>4. CanTaskOK'
    BY DEF PipeInv, TtyRxFlags, CanTaskOK, IsCan, IsTty
<1>5. CanGapOK'
    BY <1>u, <1>f DEF PipeInv, CanGapOK, IsCan
<1>6. TtyGapOK'
    BY <1>u, <1>f DEF PipeInv, TtyGapOK, IsTty
<1>7. StallOK'
    BY <1>u, <1>r DEF PipeInv, TtyRxFlags, StallOK, Posted, IsTty, Feeding, Working, RxAt
<1>8. FailureOK'
    BY <1>u, <1>r DEF PipeInv, TtyRxFlags, FailureOK, RxAt
<1> QED
    BY <1>1, <1>2, <1>3, <1>4, <1>5, <1>6, <1>7, <1>8 DEF PipeInv

\* The reader gets a unit for the chunk.
LEMMA TtyRxPostsStep ==
    ASSUME SemInv, PipeInv, NEW t \in Tasks, TtyRxPosts(t)
    PROVE  PipeInv'
<1>u. UNCHANGED <<self, fifo, owner, enables, rd, received, gap, late, news>>
    BY DEF TtyRxPosts, app, hist
<1>s. /\ count' \in Nat /\ count' > 0
      /\ \A w \in Waiters : pc'[w] = pc[w] \/ (pc[w] = "waiting" /\ pc'[w] = "woken")
    BY PostFacts DEF PipeInv, TtyRxPosts
<1>r. /\ rx' \in [Tasks -> RxType] /\ rx'[t].pc = "top" /\ rx'[t].chunk = <<>>
      /\ \A u \in Tasks \ {t} : rx'[u] = rx[u]
    BY RxGoesFacts DEF PipeInv, TtyRxPosts, Working
<1>1. PipeTypeOK'
    BY <1>u, <1>r DEF PipeInv, PipeTypeOK
<1>2. WaiterOK'
    BY <1>s, <1>u, ReaderAssumption DEF PipeInv, WaiterOK
<1>3. ChunksOK'
    BY <1>u, <1>r, ChunksKept DEF PipeInv
<1>4. CanTaskOK'
    BY DEF PipeInv, TtyRxPosts, CanTaskOK, IsCan, IsTty
<1>5. TtyGapOK'
    BY <1>u, <1>r DEF PipeInv, TtyRxPosts, TtyGapOK, RxAt
<1>6. StallOK'
    BY <1>s DEF PipeInv, StallOK, Posted
<1>7. FailureOK'
    BY <1>u, <1>s DEF PipeInv, FailureOK
<1>8. CanGapOK'
    BY <1>u DEF PipeInv, CanGapOK, IsCan
<1> QED
    BY <1>1, <1>2, <1>3, <1>4, <1>5, <1>6, <1>7, <1>8 DEF PipeInv

\* The cleanup marks the failure,
LEMMA TtyRxMarksStep ==
    ASSUME SemInv, PipeInv, NEW t \in Tasks, TtyRxMarks(t)
    PROVE  PipeInv'
<1>u. UNCHANGED <<fifo, owner, enables, rd, received, gap, late, count, pc>>
    BY DEF TtyRxMarks, sem, vars, app
<1>f. /\ self' \in SelfType /\ self'.rx_thread_failed = TRUE
      /\ self'.driver = self.driver /\ self'.fd = self.fd /\ self'.rx_enabled = self.rx_enabled
      /\ self'.rx_overflow_flag = self.rx_overflow_flag
      /\ self'.rx_semaphore = self.rx_semaphore
    BY Sizes DEF PipeInv, PipeTypeOK, SelfType, TtyRxMarks
<1>r. /\ rx' \in [Tasks -> RxType] /\ rx'[t].pc = "cleanup" /\ rx'[t].chunk = <<>>
      /\ \A u \in Tasks \ {t} : rx'[u] = rx[u]
    BY RxGoesFacts DEF PipeInv, TtyRxMarks
<1>1. PipeTypeOK'
    BY <1>u, <1>f, <1>r DEF PipeInv, TtyRxMarks, PipeTypeOK
<1>2. WaiterOK'
    BY <1>u, <1>f DEF PipeInv, WaiterOK
<1>3. ChunksOK'
    BY <1>u, <1>r, <1>f, ChunksKept DEF PipeInv
<1>4. CanTaskOK'
    BY DEF PipeInv, TtyRxMarks, CanTaskOK, IsCan, IsTty
<1>5. CanGapOK'
    BY <1>u, <1>f DEF PipeInv, CanGapOK, IsCan
<1>6. TtyGapOK'
    BY <1>u, <1>r DEF PipeInv, TtyRxMarks, TtyGapOK, RxAt
<1>7. StallOK'
    BY <1>u, <1>r DEF PipeInv, TtyRxMarks, StallOK, Posted, IsTty, Feeding, Working, RxAt
<1>8. FailureOK'
    BY <1>f, <1>r DEF PipeInv, FailureOK
<1> QED
    BY <1>1, <1>2, <1>3, <1>4, <1>5, <1>6, <1>7, <1>8 DEF PipeInv

\* and wakes the reader.
LEMMA TtyRxEndsStep ==
    ASSUME SemInv, PipeInv, NEW t \in Tasks, TtyRxEnds(t)
    PROVE  PipeInv'
<1>u. UNCHANGED <<self, fifo, owner, enables, rd, received, gap, late, news>>
    BY DEF TtyRxEnds, app, hist
<1>s. /\ count' \in Nat /\ count' > 0
      /\ \A w \in Waiters : pc'[w] = pc[w] \/ (pc[w] = "waiting" /\ pc'[w] = "woken")
    BY PostFacts DEF PipeInv, TtyRxEnds
<1>r. /\ rx' \in [Tasks -> RxType] /\ rx'[t].pc = "ended" /\ rx'[t].chunk = <<>>
      /\ \A u \in Tasks \ {t} : rx'[u] = rx[u]
    BY RxGoesFacts DEF PipeInv, TtyRxEnds
<1>1. PipeTypeOK'
    BY <1>u, <1>r DEF PipeInv, PipeTypeOK
<1>2. WaiterOK'
    BY <1>s, <1>u, ReaderAssumption DEF PipeInv, WaiterOK
<1>3. ChunksOK'
    BY <1>u, <1>r, ChunksKept DEF PipeInv
<1>4. CanTaskOK'
    BY DEF PipeInv, TtyRxEnds, CanTaskOK, IsCan, IsTty
<1>5. TtyGapOK'
    BY <1>u, <1>r DEF PipeInv, TtyRxEnds, TtyGapOK, RxAt
<1>6. StallOK'
    BY <1>s DEF PipeInv, StallOK, Posted
<1>7. FailureOK'
    BY <1>u, <1>s DEF PipeInv, FailureOK
<1>8. CanGapOK'
    BY <1>u DEF PipeInv, CanGapOK, IsCan
<1> QED
    BY <1>1, <1>2, <1>3, <1>4, <1>5, <1>6, <1>7, <1>8 DEF PipeInv

\* The reader tests the failure mark.
LEMMA TtyReadTestsStep ==
    ASSUME SemInv, PipeInv, TtyReadTests
    PROVE  PipeInv'
<1>u. UNCHANGED <<self, fifo, rx, owner, enables, received, gap, late, news, count, pc>>
    BY DEF TtyReadTests, sem, vars, hist
<1>1. PipeTypeOK'
    BY <1>u DEF PipeInv, TtyReadTests, PipeTypeOK
<1>2. WaiterOK'
    BY <1>u DEF PipeInv, TtyReadTests, WaiterOK
<1>3. CanGapOK'
    BY <1>u DEF PipeInv, TtyReadTests, CanGapOK, IsCan
<1>4. TtyGapOK'
    BY <1>u DEF PipeInv, TtyReadTests, TtyGapOK
<1>5. StallOK'
    BY DEF PipeInv, TtyReadTests, StallOK
<1>6. FailureOK'
    BY <1>u DEF PipeInv, TtyReadTests, FailureOK
<1>7. ChunksOK' /\ CanTaskOK'
    BY <1>u DEF PipeInv, ChunksOK, CanTaskOK, Younger, IsTty, IsCan
<1> QED
    BY <1>1, <1>2, <1>3, <1>4, <1>5, <1>6, <1>7 DEF PipeInv

\* The reader is told of the failure.
LEMMA TtyReadFailedStep ==
    ASSUME SemInv, PipeInv, TtyReadFailed
    PROVE  PipeInv'
<1>u. UNCHANGED <<fifo, rx, owner, enables, received, gap, late, count, pc>>
    BY DEF TtyReadFailed, sem, vars
<1>f. /\ self' \in SelfType /\ self'.rx_thread_failed = FALSE
      /\ self'.driver = self.driver /\ self'.fd = self.fd /\ self'.rx_enabled = self.rx_enabled
      /\ self'.rx_overflow_flag = self.rx_overflow_flag
      /\ self'.rx_semaphore = self.rx_semaphore
    BY Sizes DEF PipeInv, PipeTypeOK, SelfType, TtyReadFailed
<1>1. PipeTypeOK'
    BY <1>f DEF PipeInv, TtyReadFailed, PipeTypeOK
<1>2. WaiterOK'
    BY <1>u DEF PipeInv, TtyReadFailed, WaiterOK
<1>3. ChunksOK'
    BY <1>u, <1>f, ChunksKept DEF PipeInv
<1>4. CanTaskOK'
    BY DEF PipeInv, TtyReadFailed, CanTaskOK, IsCan, IsTty
<1>5. CanGapOK'
    BY DEF PipeInv, TtyReadFailed, CanGapOK, IsCan
<1>6. TtyGapOK'
    BY DEF PipeInv, TtyReadFailed, TtyGapOK
<1>7. StallOK'
    BY DEF PipeInv, TtyReadFailed, StallOK
<1>8. FailureOK'
    BY DEF PipeInv, TtyReadFailed, FailureOK
<1> QED
    BY <1>1, <1>2, <1>3, <1>4, <1>5, <1>6, <1>7, <1>8 DEF PipeInv

\* CAN.  An attach starts the one task.
LEMMA CanAttachStep ==
    ASSUME SemInv, PipeInv, CanAttach
    PROVE  PipeInv'
<1>u. UNCHANGED <<fifo, owner, enables, rd, received, gap, late, news, count, pc>>
    BY DEF CanAttach, sem, vars, app, hist
<1>f. /\ self' \in SelfType /\ self'.fd = 1
      /\ self'.driver = self.driver /\ self'.rx_enabled = self.rx_enabled
      /\ self'.rx_overflow_flag = self.rx_overflow_flag
      /\ self'.rx_thread_failed = self.rx_thread_failed
      /\ self'.rx_semaphore = self.rx_semaphore
    BY Sizes DEF PipeInv, PipeTypeOK, SelfType, CanAttach
<1>r. /\ rx' \in [Tasks -> RxType] /\ rx'[1].pc = "poll" /\ rx'[1].chunk = <<>>
      /\ \A u \in Tasks \ {1} : rx'[u] = rx[u]
    BY Sizes, RxGoesFacts DEF PipeInv, CanAttach, Working
<1>1. PipeTypeOK'
    BY <1>u, <1>f, <1>r DEF PipeInv, PipeTypeOK
<1>2. WaiterOK'
    BY <1>u, <1>f DEF PipeInv, WaiterOK
<1>3. ChunksOK'
    BY <1>u, <1>r, <1>f, ChunksKept DEF PipeInv
<1>4. CanTaskOK'
    BY <1>u, <1>f, <1>r DEF PipeInv, CanTaskOK, IsCan
<1>5. CanGapOK'
    BY <1>u, <1>f DEF PipeInv, CanGapOK, IsCan
<1>6. TtyGapOK'
    BY DEF PipeInv, CanAttach, TtyGapOK, IsTty, IsCan
<1>7. StallOK'
    BY DEF PipeInv, StallOK, CanTaskOK, CanAttach
<1>8. FailureOK'
    BY <1>u DEF PipeInv, FailureOK, CanTaskOK, CanAttach
<1> QED
    BY <1>1, <1>2, <1>3, <1>4, <1>5, <1>6, <1>7, <1>8 DEF PipeInv

\* enable(true): the FIFO is emptied,
LEMMA CanEnableStep ==
    ASSUME SemInv, PipeInv, CanEnable
    PROVE  PipeInv'
<1>u. UNCHANGED <<self, rx, rd, received, news, count, pc>>
    BY DEF CanEnable, sem, vars
<1>1. PipeTypeOK'
    BY Sizes DEF PipeInv, CanEnable, PipeTypeOK, Told, Reset
<1>2. ChunksOK'
    BY DEF PipeInv, CanEnable, ChunksOK, Younger, IsTty, Reset
<1>3. CanTaskOK'
    BY DEF PipeInv, CanEnable, CanTaskOK, Reset
<1>4. CanGapOK'
    BY DEF PipeInv, CanEnable, CanGapOK, Told, Reset
<1>5. TtyGapOK'
    BY DEF PipeInv, CanEnable, TtyGapOK, Told, Reset
<1>6. StallOK'
    BY DEF PipeInv, CanEnable, StallOK, Reset
<1>7. WaiterOK' /\ FailureOK'
    BY <1>u DEF PipeInv, WaiterOK, FailureOK
<1> QED
    BY <1>1, <1>2, <1>3, <1>4, <1>5, <1>6, <1>7 DEF PipeInv

\* and frames are let in.
LEMMA CanEnableSetsStep ==
    ASSUME SemInv, PipeInv, CanEnableSets
    PROVE  PipeInv'
<1>u. UNCHANGED <<fifo, rx, enables, rd, received, gap, late, news, count, pc>>
    BY DEF CanEnableSets, sem, vars, hist
<1>f. /\ self' \in SelfType /\ self'.rx_enabled = TRUE
      /\ self'.driver = self.driver /\ self'.fd = self.fd
      /\ self'.rx_overflow_flag = self.rx_overflow_flag
      /\ self'.rx_thread_failed = self.rx_thread_failed
      /\ self'.rx_semaphore = self.rx_semaphore
    BY Sizes DEF PipeInv, PipeTypeOK, SelfType, CanEnableSets
<1>1. PipeTypeOK'
    BY <1>u, <1>f DEF PipeInv, CanEnableSets, PipeTypeOK
<1>2. WaiterOK'
    BY <1>u, <1>f DEF PipeInv, WaiterOK
<1>3. ChunksOK'
    BY <1>u, <1>f, ChunksKept DEF PipeInv
<1>4. CanTaskOK'
    BY <1>u, <1>f DEF PipeInv, CanTaskOK, IsCan
<1>5. CanGapOK'
    BY <1>u, <1>f DEF PipeInv, CanGapOK, IsCan
<1>6. TtyGapOK'
    BY <1>u, <1>f DEF PipeInv, TtyGapOK, IsTty
<1>7. StallOK'
    BY <1>u, <1>f DEF PipeInv, StallOK, Posted, IsTty, IsCan, Feeding
<1>8. FailureOK'
    BY <1>u, <1>f DEF PipeInv, FailureOK
<1> QED
    BY <1>1, <1>2, <1>3, <1>4, <1>5, <1>6, <1>7, <1>8 DEF PipeInv

\* A disable leaves the task running.
LEMMA CanDisableStep ==
    ASSUME SemInv, PipeInv, CanDisable
    PROVE  PipeInv'
<1>u. UNCHANGED <<fifo, rx, owner, rd, received, gap, late, news, count, pc>>
    BY DEF CanDisable, sem, vars, hist
<1>f. /\ self' \in SelfType /\ self'.rx_enabled = FALSE
      /\ self'.driver = self.driver /\ self'.fd = self.fd
      /\ self'.rx_overflow_flag = self.rx_overflow_flag
      /\ self'.rx_thread_failed = self.rx_thread_failed
      /\ self'.rx_semaphore = self.rx_semaphore
    BY Sizes DEF PipeInv, PipeTypeOK, SelfType, CanDisable
<1>1. PipeTypeOK'
    BY <1>u, <1>f, Sizes DEF PipeInv, CanDisable, PipeTypeOK
<1>2. WaiterOK'
    BY <1>u, <1>f DEF PipeInv, WaiterOK
<1>3. ChunksOK'
    BY <1>u, <1>f, ChunksKept DEF PipeInv
<1>4. CanTaskOK'
    BY <1>u, <1>f DEF PipeInv, CanTaskOK, IsCan
<1>5. CanGapOK'
    BY <1>u, <1>f DEF PipeInv, CanGapOK, IsCan
<1>6. TtyGapOK'
    BY <1>u, <1>f DEF PipeInv, TtyGapOK, IsTty
<1>7. StallOK'
    BY <1>u, <1>f DEF PipeInv, StallOK, Posted, IsTty, IsCan, Feeding
<1>8. FailureOK'
    BY <1>u, <1>f DEF PipeInv, FailureOK
<1> QED
    BY <1>1, <1>2, <1>3, <1>4, <1>5, <1>6, <1>7, <1>8 DEF PipeInv

\* The bytes of a frame are younger than everything in the FIFO.
LEMMA CanRxReceivesStep ==
    ASSUME SemInv, PipeInv, CanRxReceives
    PROVE  PipeInv'
<1>u. UNCHANGED <<self, fifo, owner, enables, rd, gap, late, news, count, pc>>
    BY DEF CanRxReceives, sem, vars, app
<1>n. PICK n \in 1 .. FrameMax :
         /\ received + n <= MaxBytes /\ received' = received + n
         /\ rx' = [rx EXCEPT ![1].pc = IF self.rx_enabled THEN "push" ELSE "poll",
                             ![1].chunk = IF self.rx_enabled THEN Deliver(n) ELSE <<>>]
    BY DEF CanRxReceives
<1>m. n \in Nat /\ (IsTty => n <= ReadMax)
    BY DEF CanRxReceives, IsTty, IsCan
<1>r. /\ rx' \in [Tasks -> RxType] /\ rx'[1].pc \in {"push", "poll"}
      /\ \A u \in Tasks \ {1} : rx'[u] = rx[u]
      /\ ChunksOK'
  <2>1. "poll" \in Working
    BY DEF Working
  <2> QED
    BY <1>u, <1>n, <1>m, <2>1, Sizes, Received DEF PipeInv
<1>1. PipeTypeOK'
    BY <1>u, <1>n, <1>r DEF PipeInv, PipeTypeOK
<1>2. ChunksOK'
    BY <1>r
<1>3. CanTaskOK'
    BY <1>r DEF PipeInv, CanRxReceives, RxAt, CanTaskOK
<1>4. TtyGapOK'
    BY DEF PipeInv, CanRxReceives, TtyGapOK, IsTty, IsCan
<1>5. StallOK'
    BY <1>u, <1>r DEF PipeInv, CanRxReceives, StallOK, Posted, IsTty, Feeding, Working, RxAt
<1>6. FailureOK'
    BY DEF PipeInv, FailureOK, CanTaskOK, CanRxReceives
<1>7. WaiterOK' /\ CanGapOK'
    BY <1>u DEF PipeInv, WaiterOK, CanGapOK, IsCan
<1> QED
    BY <1>1, <1>2, <1>3, <1>4, <1>5, <1>6, <1>7 DEF PipeInv

\* An error ends the task, and nobody is told.
LEMMA CanRxFailsStep ==
    ASSUME SemInv, PipeInv, CanRxFails
    PROVE  PipeInv'
<1>u. UNCHANGED <<self, fifo, owner, enables, rd, received, gap, late, news, count, pc>>
    BY DEF CanRxFails, sem, vars, app, hist
<1>r. /\ rx' \in [Tasks -> RxType] /\ rx'[1].pc = "ended" /\ rx'[1].chunk = <<>>
      /\ \A u \in Tasks \ {1} : rx'[u] = rx[u]
    BY Sizes, RxGoesFacts DEF PipeInv, CanRxFails
<1>1. PipeTypeOK'
    BY <1>u, <1>r DEF PipeInv, PipeTypeOK
<1>2. ChunksOK'
    BY <1>u, <1>r, ChunksKept DEF PipeInv
<1>3. CanTaskOK'
    BY <1>u, <1>r DEF PipeInv, CanRxFails, CanTaskOK, RxAt
<1>4. TtyGapOK'
    BY DEF PipeInv, CanRxFails, TtyGapOK, IsTty, IsCan
<1>5. StallOK'
    BY <1>u, <1>r DEF PipeInv, CanRxFails, StallOK, Posted, IsTty, IsCan, Feeding, Working, RxAt
<1>6. FailureOK'
    BY <1>u DEF PipeInv, FailureOK, CanTaskOK, CanRxFails
<1>7. WaiterOK' /\ CanGapOK'
    BY <1>u DEF PipeInv, WaiterOK, CanGapOK, IsCan
<1> QED
    BY <1>1, <1>2, <1>3, <1>4, <1>5, <1>6, <1>7 DEF PipeInv

\* Push and flag are one step, under the mutex.
LEMMA CanRxPushesStep ==
    ASSUME SemInv, PipeInv, CanRxPushes
    PROVE  PipeInv'
<1>u. UNCHANGED <<owner, enables, rd, received, late, news, count, pc>>
    BY DEF CanRxPushes, sem, vars, app
<1> DEFINE c == rx[1].chunk
<1>c. c \in Seq(Bytes) /\ Len(c) \in Nat /\ Len(fifo) \in Nat /\ Younger(c)
    BY Sizes DEF PipeInv, PipeTypeOK, RxType, ChunksOK
<1>p. Push(c)
    BY DEF CanRxPushes
<1>q. /\ Fits(c) \in 0 .. Len(c)
      /\ Fits(c) < Len(c) => Len(fifo) + Fits(c) = Capacity
      /\ fifo' \in Seq(Bytes) /\ Len(fifo') = Len(fifo) + Fits(c) /\ Len(fifo') <= Capacity
      /\ \A i \in 1 .. Len(fifo') :
            fifo'[i] = IF i <= Len(fifo) THEN fifo[i] ELSE c[i - Len(fifo)]
      /\ gap' \in 0 .. MaxBytes
      /\ gap' = IF gap = 0 /\ Fits(c) < Len(c) THEN c[Fits(c) + 1] ELSE gap
      /\ gap = 0 /\ Fits(c) < Len(c) => gap' # 0
    BY <1>c, <1>p, PushFacts DEF PipeInv
<1> DEFINE q == IF Fits(c) > 0 /\ self.rx_semaphore THEN "post" ELSE "poll"
<1>r. /\ rx' \in [Tasks -> RxType] /\ rx'[1].pc = q /\ rx'[1].chunk = <<>>
      /\ \A u \in Tasks \ {1} : rx'[u] = rx[u]
  <2>1. q \in Working /\ <<>> \in Seq(Bytes)
    BY DEF Working
  <2>2. rx' = [rx EXCEPT ![1].pc = q, ![1].chunk = <<>>]
    BY DEF CanRxPushes
  <2> HIDE DEF q
  <2> QED
    BY <2>1, <2>2, Sizes, RxChunkFacts DEF PipeInv
<1>o. IsCan /\ rx[1].pc = "push" /\ \A u \in Tasks \ {1} : rx[u].pc = "none"
    BY DEF PipeInv, CanRxPushes, RxAt, CanTaskOK
<1>f. /\ self' \in SelfType /\ self'.driver = self.driver /\ self'.fd = self.fd
      /\ self'.rx_semaphore = self.rx_semaphore
      /\ self'.rx_thread_failed = self.rx_thread_failed
      /\ self'.rx_overflow_flag = (self.rx_overflow_flag \/ Fits(c) < Len(c))
    BY DEF PipeInv, PipeTypeOK, SelfType, CanRxPushes
<1> HIDE DEF c
<1>1. PipeTypeOK'
    BY <1>u, <1>q, <1>r, <1>f DEF PipeInv, PipeTypeOK
<1>2. WaiterOK'
    BY <1>u, <1>f DEF PipeInv, WaiterOK
<1>3. ChunksOK'
    BY <1>u, <1>p, <1>r, <1>o, Sizes, PushKeepsOrder DEF PipeInv, c
<1>4. CanTaskOK'
    BY <1>u, <1>o, <1>r, <1>f DEF PipeInv, CanTaskOK
<1>5. CanGapOK'
  <2>1. CASE Fits(c) < Len(c) /\ gap = 0
    <3>1. Len(fifo') = Capacity /\ gap' = c[Fits(c) + 1] /\ Fits(c) + 1 \in 1 .. Len(c)
      BY <1>c, <1>q, <2>1
    <3>2. ASSUME NEW i \in 1 .. Len(fifo') PROVE fifo'[i] < gap'
      <4>1. CASE i <= Len(fifo)
        <5>1. fifo'[i] = fifo[i] /\ i \in 1 .. Len(fifo)
          BY <1>c, <1>q, <4>1
        <5> QED
          BY <1>c, <3>1, <5>1 DEF Younger
      <4>2. CASE i > Len(fifo)
        <5>1. /\ fifo'[i] = c[i - Len(fifo)] /\ i - Len(fifo) \in 1 .. Len(c)
              /\ i - Len(fifo) < Fits(c) + 1
          BY <1>c, <1>q, <4>2
        <5> QED
          BY <1>c, <3>1, <5>1 DEF Younger
      <4> QED
        BY <1>c, <4>1, <4>2
    <3> QED
      BY <1>u, <1>f, <1>o, <3>1, <3>2, <2>1 DEF PipeInv, CanGapOK, IsCan
  <2>2. CASE gap' = gap
    <3>1. Len(fifo) = Capacity =>
             Len(fifo') = Len(fifo) /\ \A i \in 1 .. Len(fifo') : fifo'[i] = fifo[i]
      BY <1>c, <1>q, Sizes
    <3> QED
      BY <1>u, <1>f, <1>o, <2>2, <3>1 DEF PipeInv, CanGapOK, IsCan
  <2> QED
    BY <1>q, <2>1, <2>2
<1>6. TtyGapOK'
    BY <1>o, <1>f DEF TtyGapOK, IsTty, IsCan
<1>7. StallOK'
  <2>1. CASE rx'[1].pc = "post"
    BY <2>1, Sizes DEF StallOK, Posted
  <2>2. CASE Fits(c) = 0
    <3>1. fifo' # <<>> => fifo # <<>>
      BY <1>c, <1>q, <2>2
    <3>2. 1 \in Feeding
      BY <1>o, Sizes DEF Feeding, Working
    <3> QED
      BY <1>u, <1>f, <1>o, <3>1, <3>2 DEF PipeInv, StallOK, Posted, IsTty
  <2> QED
    BY <1>f, <1>q, <1>r, <2>1, <2>2 DEF StallOK
<1>8. FailureOK'
    BY <1>u, <1>o DEF PipeInv, FailureOK, CanTaskOK
<1> QED
    BY <1>1, <1>2, <1>3, <1>4, <1>5, <1>6, <1>7, <1>8 DEF PipeInv

\* The reader gets a unit for the frame.
LEMMA CanRxPostsStep ==
    ASSUME SemInv, PipeInv, CanRxPosts
    PROVE  PipeInv'
<1>u. UNCHANGED <<self, fifo, owner, enables, rd, received, gap, late, news>>
    BY DEF CanRxPosts, app, hist
<1>s. /\ count' \in Nat /\ count' > 0
      /\ \A w \in Waiters : pc'[w] = pc[w] \/ (pc[w] = "waiting" /\ pc'[w] = "woken")
    BY PostFacts DEF PipeInv, CanRxPosts
<1>r. /\ rx' \in [Tasks -> RxType] /\ rx'[1].pc = "poll" /\ rx'[1].chunk = <<>>
      /\ \A u \in Tasks \ {1} : rx'[u] = rx[u]
    BY Sizes, RxGoesFacts DEF PipeInv, CanRxPosts, Working
<1>1. PipeTypeOK'
    BY <1>u, <1>r DEF PipeInv, PipeTypeOK
<1>2. WaiterOK'
    BY <1>s, <1>u, ReaderAssumption DEF PipeInv, WaiterOK
<1>3. ChunksOK'
    BY <1>u, <1>r, ChunksKept DEF PipeInv
<1>4. CanTaskOK'
    BY <1>u, <1>r DEF PipeInv, CanRxPosts, CanTaskOK, RxAt
<1>5. TtyGapOK'
    BY DEF PipeInv, CanRxPosts, TtyGapOK, IsTty, IsCan
<1>6. StallOK'
    BY <1>s DEF PipeInv, StallOK, Posted
<1>7. FailureOK'
    BY <1>u DEF PipeInv, FailureOK, CanTaskOK, CanRxPosts
<1>8. CanGapOK'
    BY <1>u DEF PipeInv, CanGapOK, IsCan
<1> QED
    BY <1>1, <1>2, <1>3, <1>4, <1>5, <1>6, <1>7, <1>8 DEF PipeInv

\* The reader tests whether the task still runs.
LEMMA CanReadTestsStep ==
    ASSUME SemInv, PipeInv, CanReadTests
    PROVE  PipeInv'
<1>u. UNCHANGED <<self, fifo, rx, owner, enables, received, gap, late, news, count, pc>>
    BY DEF CanReadTests, sem, vars, hist
<1>1. PipeTypeOK'
    BY <1>u DEF PipeInv, CanReadTests, PipeTypeOK
<1>2. WaiterOK'
    BY <1>u DEF PipeInv, CanReadTests, WaiterOK
<1>3. CanGapOK'
    BY <1>u DEF PipeInv, CanReadTests, CanGapOK
<1>4. TtyGapOK'
    BY <1>u DEF PipeInv, CanReadTests, TtyGapOK, IsTty
<1>5. StallOK'
    BY DEF PipeInv, CanReadTests, StallOK, IsCan, Feeding
<1>6. FailureOK'
    BY <1>u DEF PipeInv, FailureOK, CanTaskOK, CanReadTests
<1>7. ChunksOK' /\ CanTaskOK'
    BY <1>u DEF PipeInv, ChunksOK, CanTaskOK, Younger, IsTty, IsCan
<1> QED
    BY <1>1, <1>2, <1>3, <1>4, <1>5, <1>6, <1>7 DEF PipeInv

(***************************************************************************)
(* Theorems                                                                *)
(***************************************************************************)
\* Every step of a stream is one of its semaphore, or leaves it alone.
LEMMA StepOfSemaphore == [LinesNext]_lines => [Next]_vars
<1> SUFFICES ASSUME [LinesNext]_lines PROVE [Next]_vars
    OBVIOUS
<1>1. CASE UNCHANGED lines
    BY <1>1 DEF lines, sem
<1>2. CASE Reads
    BY <1>2, ReaderAssumption DEF Reads, ReaderWaits, ReaderWakes, ReaderPolls, ReadChecks,
       ReadOverflow, ReadPop, Next, sem
<1>3. CASE WaitDisturbed
    BY <1>3, ReaderAssumption DEF WaitDisturbed, Next
<1>4. CASE TtyNext
  <2>1. CASE TtyAttach \/ TtyAttachTaskFails \/ TtyDetach \/ TtyEnabling
    BY <2>1 DEF TtyAttach, TtyAttachTaskFails, TtyDetach, TtyEnabling, TtyEnableResets,
       TtyEnableClears, TtyEnableForgets, sem
  <2>2. CASE \E enabled \in BOOLEAN : TtyEnable(enabled)
    BY <2>2 DEF TtyEnable, sem
  <2>3. CASE TtyReadTests \/ TtyReadFailed
    BY <2>3 DEF TtyReadTests, TtyReadFailed, sem
  <2>4. ASSUME NEW t \in Tasks, TtyRx(t) PROVE [Next]_vars
    BY <2>4 DEF TtyRx, TtyRxLoads, TtyRxTimesOut, TtyRxReadable, TtyRxBroken, TtyRxReads,
       TtyRxReadsNothing, TtyRxReadFails, TtyRxPushes, TtyRxFlags, TtyRxPosts, TtyRxMarks,
       TtyRxEnds, Next, sem
  <2> QED
    BY <1>4, <2>1, <2>2, <2>3, <2>4 DEF TtyNext
<1>5. CASE CanNext
    BY <1>5 DEF CanNext, CanAttach, CanEnable, CanEnableSets, CanDisable, CanRx, CanRxReceives,
       CanRxFails, CanRxPushes, CanRxPosts, CanReadTests, Next, sem
<1> QED
    BY <1>1, <1>2, <1>3, <1>4, <1>5 DEF LinesNext

\* A stream uses its semaphore as dtsemaphore_linux.c expects, so that all that
\* is proved of the semaphore holds of the stream's.
THEOREM LinesUseSemaphore == LinesSpec => Spec
<1>1. LinesInit => Init
    BY DEF LinesInit, TtyInit, CanInit, PipeInit
<1> QED
    BY <1>1, StepOfSemaphore, PTL DEF LinesSpec, Spec

\* The invariant holds of a stream that was never attached,
LEMMA PipeInitially == LinesInit => PipeInv
<1> SUFFICES ASSUME NEW driver \in {"tty", "can"}, PipeInit(driver) PROVE PipeInv
    BY DEF LinesInit, TtyInit, CanInit
<1>1. /\ fifo = <<>> /\ owner = "idle" /\ enables = 0 /\ rd = "wait"
      /\ received = 0 /\ gap = 0 /\ late = 0 /\ news = "none"
      /\ \A t \in Tasks : rx[t].pc = "none" /\ rx[t].chunk = <<>>
      /\ self.fd = 0 /\ \A w \in Waiters : pc[w] = "idle"
    BY DEF PipeInit, Init
<1>2. PipeTypeOK
  <2>1. <<>> \in Seq(Bytes) /\ Len(<<>>) = 0
    BY EmptySeq
  <2>2. rx \in [Tasks -> RxType]
    BY Sizes DEF PipeInit, RxType
  <2>3. self \in SelfType
    BY Sizes DEF PipeInit, SelfType
  <2> QED
    BY <1>1, <2>2, <2>3, Sizes DEF PipeTypeOK
<1>3. WaiterOK /\ CanTaskOK /\ CanGapOK /\ TtyGapOK /\ StallOK /\ FailureOK
    BY <1>1, ReaderAssumption, Sizes DEF WaiterOK, CanTaskOK, CanGapOK, TtyGapOK, StallOK,
       FailureOK
<1>4. ChunksOK
  <2>1. Younger(<<>>)
    BY Sizes DEF Younger
  <2> QED
    BY <1>1, <2>1 DEF ChunksOK
<1> QED
    BY <1>2, <1>3, <1>4 DEF PipeInv

\* and every step preserves it.
LEMMA LinesStep == SemInv /\ PipeInv /\ [LinesNext]_lines => PipeInv'
<1> SUFFICES ASSUME SemInv, PipeInv, [LinesNext]_lines PROVE PipeInv'
    OBVIOUS
<1>1. CASE UNCHANGED lines
  <2>1. UNCHANGED <<count, pc, self, fifo, rx, owner, enables, rd, received, gap, late, news>>
    BY <1>1 DEF lines, sem, vars, pipe, app, hist
  <2> QED
    BY <2>1 DEF PipeInv, PipeTypeOK, WaiterOK, ChunksOK, Younger, CanTaskOK, CanGapOK, TtyGapOK,
       StallOK, Posted, Feeding, FailureOK, IsTty, IsCan
<1>2. CASE Reads
    BY <1>2, ReaderWaitsStep, ReaderWakesStep, ReaderPollsStep, ReadChecksStep,
       ReadOverflowStep, ReadPopStep DEF Reads
<1>3. CASE WaitDisturbed
    BY <1>3, WaitDisturbedStep
<1>4. CASE Cardinality(Feeding) <= 1 /\ TtyNext
  <2>1. CASE TtyAttach \/ TtyAttachTaskFails \/ TtyDetach \/ TtyEnabling
    BY <2>1, TtyAttachStep, TtyAttachTaskFailsStep, TtyDetachStep, TtyEnableResetsStep,
       TtyEnableClearsStep, TtyEnableForgetsStep DEF TtyEnabling
  <2>2. CASE \E enabled \in BOOLEAN : TtyEnable(enabled)
    BY <2>2, TtyEnableStep
  <2>3. CASE TtyReadTests \/ TtyReadFailed
    BY <2>3, TtyReadTestsStep, TtyReadFailedStep
  <2>4. ASSUME NEW t \in Tasks, TtyRx(t) PROVE PipeInv'
    BY <1>4, <2>4, TtyRxLoadsStep, TtyRxTimesOutStep, TtyRxReadableStep, TtyRxBrokenStep,
       TtyRxReadsStep, TtyRxReadsNothingStep, TtyRxReadFailsStep, TtyRxPushesStep,
       TtyRxFlagsStep, TtyRxPostsStep, TtyRxMarksStep, TtyRxEndsStep DEF TtyRx
  <2> QED
    BY <1>4, <2>1, <2>2, <2>3, <2>4 DEF TtyNext
<1>5. CASE CanNext
    BY <1>5, CanAttachStep, CanEnableStep, CanEnableSetsStep, CanDisableStep, CanRxReceivesStep,
       CanRxFailsStep, CanRxPushesStep, CanRxPostsStep, CanReadTestsStep DEF CanNext, CanRx
<1> QED
    BY <1>1, <1>2, <1>3, <1>4, <1>5 DEF LinesNext

\* The invariant of the streams holds in every reachable state, beside the one
\* of the semaphore.
THEOREM LinesCorrect == LinesSpec => [](SemInv /\ PipeInv)
<1>1. Spec => []SemInv
    BY SemCorrect
<1> QED
    BY <1>1, LinesUseSemaphore, PipeInitially, LinesStep, PTL DEF LinesSpec

\* Whatever the FIFO drops, the reader gets the overflow error of _read before
\* bytes from beyond the gap; with the TTY driver at most one read is too early.
THEOREM GapReportedHolds == LinesSpec => []GapReported
<1>1. PipeInv => GapReported
  <2> SUFFICES ASSUME PipeInv PROVE GapReported
    OBVIOUS
  <2>1. CASE IsCan
    BY <2>1 DEF PipeInv, CanGapOK, GapReported
  <2>2. CASE IsTty
    BY <2>2 DEF PipeInv, TtyGapOK, IsTty, GapReported
  <2> QED
    BY <2>1, <2>2 DEF PipeInv, PipeTypeOK, SelfType, IsTty, IsCan
<1> QED
    BY <1>1, LinesCorrect, PTL

\* A reader that sleeps beside bytes would have a unit, and the semaphore leaves
\* nobody asleep beside a unit.
LEMMA StallImpossible ==
    ASSUME SemInv, PipeInv, IsTty => ReadMax <= Capacity
    PROVE  NoStall
<1> SUFFICES ASSUME pc[Reader] = "waiting", fifo # <<>>, self.driver = "can" => Feeding # {},
                    \A t \in Tasks : rx[t].pc # "post"
             PROVE  FALSE
    BY DEF NoStall
<1>1. count = 0
    BY SleepsAtZero DEF PipeInv
<1>2. rd = "wait" /\ self.rx_semaphore
    BY DEF PipeInv, WaiterOK
<1>3. Posted
    BY <1>2 DEF PipeInv, StallOK, IsCan
<1> QED
    BY <1>1, <1>3 DEF Posted

\* A FIFO that holds one read() of the TTY task lets no reader sleep beside bytes
\* that nobody will announce.
THEOREM NoStallHolds ==
    ASSUME ReadMax <= Capacity
    PROVE  LinesSpec => []NoStall
<1>1. SemInv /\ PipeInv => NoStall
    BY StallImpossible
<1> QED
    BY <1>1, LinesCorrect, PTL

\* The CAN driver needs no such FIFO: it announces a frame of which a part was
\* stored.
THEOREM CanNoStallHolds == LinesSpec => [](IsCan => NoStall)
<1>1. SemInv /\ PipeInv => (IsCan => NoStall)
    BY StallImpossible DEF IsCan, IsTty
<1> QED
    BY <1>1, LinesCorrect, PTL

\* The reader does not sleep beside the end of a TTY task that it was not told
\* of: the post of the cleanup reaches it.
THEOREM FailureToldHolds == LinesSpec => []FailureTold
<1>1. SemInv /\ PipeInv => FailureTold
  <2> SUFFICES ASSUME SemInv, PipeInv, news = "failed", pc[Reader] = "waiting"
               PROVE  \E t \in Tasks : RxAt(t, "cleanup")
    BY DEF FailureTold
  <2>1. count = 0
    BY SleepsAtZero DEF PipeInv
  <2>2. rd = "wait"
    BY DEF PipeInv, WaiterOK
  <2> QED
    BY <2>1, <2>2 DEF PipeInv, FailureOK, RxAt
<1> QED
    BY <1>1, LinesCorrect, PTL
=============================================================================
