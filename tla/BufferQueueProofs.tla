-------------------------- MODULE BufferQueueProofs --------------------------
(* Machine-checked proofs about BufferQueue, for every value of the         *)
(* constants.                                                               *)
EXTENDS BufferQueue, FiniteSetTheorems, SequenceTheorems, TLAPS

\* A thread that waits to enqueue holds a buffer.
ArgHeld == \A p \in Putters : pc[p] # "idle" => arg[p] \in Buffers

\* The slots between head and tail hold buffers.
Occupied == \A i \in 1..count : ring[Wrap(head + i - 1)] \in Buffers

\* The part of TypeOK about the queue's own fields and its history.
QueueTypeOK ==
    /\ ring \in [0..(max_count - 1) -> Buffers \cup {NoBuffer}]
    /\ head \in 0..(max_count - 1) /\ tail \in 0..(max_count - 1) /\ count \in 0..max_count
    /\ accepted \in Seq(Buffers) /\ delivered \in Seq(Buffers)

\* The inductive invariant of the ring.
RingInv == TypeOK /\ ArgHeld /\ Occupied /\ IndicesAgree /\ FifoDelivery

-----------------------------------------------------------------------------
(* Arithmetic of the ring indices. *)

\* The capacity dtbufferqueue_create settles on is positive.
LEMMA MaxCountPos == max_count \in Nat \ {0}
  BY BoundsAssumption DEF max_count

\* A nonnegative number below n is its own remainder.
LEMMA ModSmall == ASSUME NEW n \in Nat \ {0}, NEW x \in 0..(n - 1) PROVE x % n = x
  BY Z3

\* One turn past n, the remainder is the excess.
LEMMA ModOnce == ASSUME NEW n \in Nat \ {0}, NEW x \in n..(2 * n - 1) PROVE x % n = x - n
  BY Z3

\* A ring index runs past the end at most once before it wraps.
LEMMA WrapCases ==
  \A x \in 0..(2 * max_count - 1) : Wrap(x) = IF x < max_count THEN x ELSE x - max_count
  <1> TAKE x \in 0..(2 * max_count - 1)
  <1>1. CASE x < max_count   BY <1>1, MaxCountPos, ModSmall DEF Wrap
  <1>2. CASE x >= max_count
    <2>1. x \in max_count..(2 * max_count - 1)  BY <1>2, MaxCountPos
    <2>2. x % max_count = x - max_count  BY <2>1, MaxCountPos, ModOnce
    <2>3. QED  BY <1>2, <2>2, MaxCountPos DEF Wrap
  <1>3. QED  BY <1>1, <1>2, MaxCountPos

-----------------------------------------------------------------------------
(* One enqueue and one dequeue on the ring. *)

\* The initial state satisfies the invariant.
LEMMA RingInit == Init => RingInv
  <1> SUFFICES ASSUME Init PROVE RingInv
    OBVIOUS
  <1> USE MaxCountPos
  <1>1. TypeOK
    BY DEF Init, TypeOK, Modes, Results, Threads
  <1>2. ArgHeld /\ Occupied
    BY DEF Init, ArgHeld, Occupied, Threads
  <1>3. IndicesAgree
    BY WrapCases DEF Init, IndicesAgree
  <1>4. FifoDelivery
    <2>1. Contents = <<>>
      BY DEF Init, Contents
    <2>2. QED  BY <2>1 DEF Init, FifoDelivery
  <1>5. QED  BY <1>1, <1>2, <1>3, <1>4 DEF RingInv

\* What the ring holds is a sequence of buffers.
LEMMA ContentsType == RingInv => /\ Contents \in Seq(Buffers)
                                 /\ Len(Contents) = count
                                 /\ \A i \in 1..count : Contents[i] = ring[Wrap(head + i - 1)]
  <1> SUFFICES ASSUME RingInv PROVE Contents \in Seq(Buffers) /\ Len(Contents) = count
    BY DEF Contents
  <1>1. count \in Nat  BY MaxCountPos DEF RingInv, TypeOK
  <1>2. Contents \in [1..count -> Buffers]  BY DEF RingInv, Occupied, Contents
  <1>3. QED  BY <1>1, <1>2

\* Moving an element from the end of one sequence to the start of the next.
LEMMA AppendConcat ==
  \A s, t \in Seq(Buffers), e \in Buffers : Append(s \o t, e) = s \o Append(t, e)
  OBVIOUS

\* A put adds its buffer behind what the ring holds.
LEMMA EnqueueRing ==
  ASSUME RingInv, NEW p \in Putters, NEW b \in Buffers, Enqueue(p, b)
  PROVE  /\ Contents' = Append(Contents, b)
         /\ QueueTypeOK' /\ Occupied' /\ IndicesAgree' /\ FifoDelivery'
  <1> DEFINE slot(i) == Wrap(head + i - 1)
  <1>t. /\ head \in 0..(max_count - 1) /\ tail \in 0..(max_count - 1)
        /\ count \in 0..(max_count - 1) /\ max_count \in Nat \ {0}
        /\ ring \in [0..(max_count - 1) -> Buffers \cup {NoBuffer}]
        /\ head' = head /\ count' = count + 1 /\ ring' = [ring EXCEPT ![tail] = b]
        /\ tail' = Wrap(tail + 1)
    BY MaxCountPos DEF RingInv, TypeOK, Enqueue
  <1>1. \A i \in 1..count : slot(i) # tail /\ slot(i) \in 0..(max_count - 1)
    <2> TAKE i \in 1..count
    <2>1. head + i - 1 \in 0..(2 * max_count - 1) /\ head + count \in 0..(2 * max_count - 1)
      BY <1>t
    <2>2. tail = IF head + count < max_count THEN head + count ELSE head + count - max_count
      BY <1>t, <2>1, WrapCases DEF RingInv, IndicesAgree
    <2>3. /\ slot(i) = IF head + i - 1 < max_count THEN head + i - 1 ELSE head + i - 1 - max_count
          /\ slot(i) \in 0..(max_count - 1)
      BY <1>t, <2>1, WrapCases
    <2>4. QED  BY <1>t, <2>1, <2>2, <2>3
  <1>2. slot(count + 1) = tail
    BY <1>t DEF RingInv, IndicesAgree
  <1>3. \A i \in 1..(count + 1) : ring'[slot(i)] = IF i <= count THEN ring[slot(i)] ELSE b
    BY <1>t, <1>1, <1>2
  <1>4. Contents' = Append(Contents, b)
    <2> HIDE DEF slot
    <2>1. Contents' = [i \in 1..(count + 1) |-> ring'[slot(i)]]
      BY <1>t DEF Contents, slot
    <2>2. \A i \in 1..count : Contents[i] = ring[slot(i)]
      BY DEF Contents, slot
    <2>3. Contents \in Seq(Buffers) /\ Len(Contents) = count
      BY ContentsType
    <2>4. Append(Contents, b) = [i \in 1..(count + 1) |-> IF i <= count THEN Contents[i] ELSE b]
      BY <2>3, <1>t
    <2>5. QED  BY <1>3, <2>1, <2>2, <2>4, <1>t
  <1>5. Occupied'
    <2>1. \A i \in 1..count : ring[slot(i)] \in Buffers
      BY DEF RingInv, Occupied
    <2>2. \A i \in 1..(count + 1) : ring'[slot(i)] \in Buffers
      BY <1>3, <2>1, <1>t
    <2>3. QED  BY <2>2, <1>t DEF Occupied
  <1>6. IndicesAgree'
    <2>1. head + count \in 0..(2 * max_count - 1) /\ head + count + 1 \in 0..(2 * max_count - 1)
          /\ tail + 1 \in 0..(2 * max_count - 1)
      BY <1>t
    <2>2. tail = IF head + count < max_count THEN head + count ELSE head + count - max_count
      BY <1>t, <2>1, WrapCases DEF RingInv, IndicesAgree
    <2>3. Wrap(tail + 1) = IF tail + 1 < max_count THEN tail + 1 ELSE tail + 1 - max_count
      BY <1>t, <2>1, WrapCases
    <2>4. Wrap(head + count + 1)
            = IF head + count + 1 < max_count THEN head + count + 1 ELSE head + count + 1 - max_count
      BY <1>t, <2>1, WrapCases
    <2>5. head + (count + 1) = head + count + 1  BY <1>t
    <2>6. Wrap(head + count + 1) = Wrap(tail + 1)  BY <1>t, <2>1, <2>2, <2>3, <2>4
    <2>7. QED  BY <1>t, <2>5, <2>6 DEF IndicesAgree
  <1>7. FifoDelivery'
    <2>1. Contents \in Seq(Buffers) /\ delivered \in Seq(Buffers)
      BY ContentsType DEF RingInv, TypeOK
    <2>2. accepted' = Append(delivered \o Contents, b) /\ delivered' = delivered
      BY DEF Enqueue, RingInv, FifoDelivery
    <2>3. Append(delivered \o Contents, b) = delivered \o Append(Contents, b)
      BY <2>1, AppendConcat
    <2>4. QED  BY <1>4, <2>2, <2>3 DEF FifoDelivery
  <1>8. QueueTypeOK'
    <2>1. tail + 1 \in 0..(2 * max_count - 1)  BY <1>t
    <2>2. tail' \in 0..(max_count - 1)  BY <1>t, <2>1, WrapCases
    <2>3. accepted' \in Seq(Buffers) /\ delivered' \in Seq(Buffers)
      BY DEF RingInv, TypeOK, Enqueue
    <2>4. QED  BY <1>t, <2>2, <2>3 DEF QueueTypeOK
  <1>9. QED  BY <1>4, <1>5, <1>6, <1>7, <1>8

\* A get removes the oldest buffer of the ring.
LEMMA DequeueRing ==
  ASSUME RingInv, NEW g \in Getters, Dequeue(g)
  PROVE  /\ Contents # <<>> /\ ring[head] = Head(Contents) /\ ring[head] \in Buffers
         /\ Contents' = Tail(Contents)
         /\ QueueTypeOK' /\ Occupied' /\ IndicesAgree' /\ FifoDelivery'
  <1> DEFINE slot(i) == Wrap(head + i - 1)
  <1>t. /\ head \in 0..(max_count - 1) /\ tail \in 0..(max_count - 1)
        /\ count \in 1..max_count /\ max_count \in Nat \ {0}
        /\ ring' = ring /\ count' = count - 1 /\ tail' = tail
        /\ head' = Wrap(head + 1)
    BY MaxCountPos DEF RingInv, TypeOK, Dequeue
  <1>c. Contents \in Seq(Buffers) /\ Len(Contents) = count /\ \A i \in 1..count : Contents[i] = ring[slot(i)]
    BY ContentsType
  <1>1. slot(1) = head
    <2>1. head + 1 - 1 = head  BY <1>t
    <2>2. QED  BY <1>t, <2>1, WrapCases
  <1>2. Contents # <<>> /\ ring[head] = Head(Contents) /\ ring[head] \in Buffers
    <2> HIDE DEF slot
    <2>1. 1 \in 1..count  BY <1>t
    <2>2. Contents[1] = ring[head]  BY <1>1, <1>c, <2>1
    <2>3. QED  BY <2>1, <2>2, <1>c, <1>t
  <1>h. head' = IF head + 1 < max_count THEN head + 1 ELSE head + 1 - max_count
    <2>1. head + 1 \in 0..(2 * max_count - 1)  BY <1>t
    <2>2. QED  BY <1>t, <2>1, WrapCases
  <1>3. \A i \in 1..(count - 1) : Wrap(head' + i - 1) = slot(i + 1)
    <2> TAKE i \in 1..(count - 1)
    <2>1. /\ head' + i - 1 \in 0..(2 * max_count - 1) /\ head + i \in 0..(2 * max_count - 1)
          /\ head + (i + 1) - 1 = head + i
      BY <1>t, <1>h
    <2>2. Wrap(head' + i - 1)
            = IF head' + i - 1 < max_count THEN head' + i - 1 ELSE head' + i - 1 - max_count
      BY <1>t, <2>1, WrapCases
    <2>3. Wrap(head + i) = IF head + i < max_count THEN head + i ELSE head + i - max_count
      BY <1>t, <2>1, WrapCases
    <2>4. Wrap(head' + i - 1) = Wrap(head + i)
      BY <1>t, <1>h, <2>1, <2>2, <2>3
    <2>5. QED  BY <2>1, <2>4
  <1>4. Contents' = Tail(Contents)
    <2> HIDE DEF slot
    <2>1. Contents' = [i \in 1..(count - 1) |-> ring[Wrap(head' + i - 1)]]
      BY <1>t DEF Contents
    <2>2. \A i \in 1..(count - 1) : ring[Wrap(head' + i - 1)] = Contents[i + 1]
      BY <1>3, <1>c, <1>t
    <2>3. /\ Tail(Contents) \in Seq(Buffers) /\ Len(Tail(Contents)) = count - 1
          /\ \A i \in 1..(count - 1) : Tail(Contents)[i] = Contents[i + 1]
      BY <1>c, <1>2, HeadTailProperties
    <2>4. Tail(Contents) = [i \in 1..(count - 1) |-> Tail(Contents)[i]]
      BY <2>3, LenProperties
    <2>5. QED  BY <2>1, <2>2, <2>3, <2>4
  <1>5. Occupied'
    <2> HIDE DEF slot
    <2>1. \A i \in 1..(count - 1) : ring[Wrap(head' + i - 1)] \in Buffers
      BY <1>3, <1>c, <1>t
    <2>2. QED  BY <2>1, <1>t DEF Occupied
  <1>6. IndicesAgree'
    <2>1. head + count \in 0..(2 * max_count - 1) /\ head' + (count - 1) \in 0..(2 * max_count - 1)
      BY <1>t, <1>h
    <2>2. tail = IF head + count < max_count THEN head + count ELSE head + count - max_count
      BY <1>t, <2>1, WrapCases DEF RingInv, IndicesAgree
    <2>3. Wrap(head' + (count - 1))
           = IF head' + (count - 1) < max_count THEN head' + (count - 1) ELSE head' + (count - 1) - max_count
      BY <1>t, <2>1, WrapCases
    <2>4. Wrap(head' + (count - 1)) = tail  BY <1>t, <1>h, <2>1, <2>2, <2>3
    <2>5. QED  BY <1>t, <2>4 DEF IndicesAgree
  <1>7. FifoDelivery'
    <2>1. delivered \in Seq(Buffers)  BY DEF RingInv, TypeOK
    <2>2. accepted' = delivered \o Contents /\ delivered' = Append(delivered, Head(Contents))
      BY <1>2 DEF Dequeue, RingInv, FifoDelivery
    <2>3. delivered \o Contents = Append(delivered, Head(Contents)) \o Tail(Contents)
      BY <1>c, <1>2, <2>1
    <2>4. QED  BY <1>4, <2>2, <2>3 DEF FifoDelivery
  <1>8. QueueTypeOK'
    <2>1. head' \in 0..(max_count - 1)  BY <1>t, <1>h
    <2>2. accepted' \in Seq(Buffers) /\ delivered' \in Seq(Buffers)
      BY <1>2 DEF RingInv, TypeOK, Dequeue
    <2>3. QED  BY <1>t, <2>1, <2>2 DEF QueueTypeOK, RingInv, TypeOK
  <1>9. QED  BY <1>2, <1>4, <1>5, <1>6, <1>7, <1>8

\* Actions that leave the ring and its history alone preserve the invariant's
\* ring part.
LEMMA RingUnchanged ==
  ASSUME RingInv, UNCHANGED <<queue, accepted, delivered>>
  PROVE  Occupied' /\ IndicesAgree' /\ FifoDelivery' /\ Contents' = Contents
  BY DEF RingInv, Occupied, IndicesAgree, FifoDelivery, Contents, queue

\* A signal moves threads between places only.
LEMMA SignalType ==
  ASSUME TypeOK, NEW t \in Threads, NEW S \in SUBSET Threads, SignalOne(t, S)
  PROVE  /\ pc' \in [Threads -> {"idle", "waiting", "woken", "expired"}]
         /\ \A u \in Threads \ (S \cup {t}) : pc'[u] = pc[u]
         /\ pc'[t] = "idle" \/ t \in S
  BY DEF SignalOne, Waiting, TypeOK

\* Every step preserves the invariant of the ring.
LEMMA RingStep == RingInv /\ [Next]_vars => RingInv'
  <1> SUFFICES ASSUME RingInv, [Next]_vars PROVE RingInv'
    OBVIOUS
  <1> USE DEF Threads
  <1>t. TypeOK /\ ArgHeld  BY DEF RingInv
  <1>1. ASSUME NEW p \in Putters, NEW b \in Buffers, NEW m \in Modes, PutCall(p, b, m)
        PROVE  RingInv'
    <2>1. CASE Enqueue(p, b) /\ UNCHANGED arg
      <3>s. pc' \in [Threads -> {"idle", "waiting", "woken", "expired"}]
        BY <1>t, <2>1, SignalType DEF Enqueue
      <3>1. TypeOK'
        BY <1>t, <3>s, <1>1, <2>1, EnqueueRing DEF PutCall, Enqueue, TypeOK, QueueTypeOK, Results
      <3>2. ArgHeld'
        BY <1>t, <1>1, <2>1, ThreadsAssumption DEF PutCall, Enqueue, SignalOne, Waiting, ArgHeld, TypeOK
      <3>3. QED  BY <3>1, <3>2, <2>1, EnqueueRing DEF RingInv
    <2>2. CASE count = max_count /\ m = "nowait" /\ ReturnTimeout(p) /\ UNCHANGED arg
      <3>1. TypeOK'
        BY <1>t, <1>1, <2>2 DEF PutCall, ReturnTimeout, TypeOK, Results, queue
      <3>2. ArgHeld'
        BY <1>t, <1>1, <2>2 DEF ReturnTimeout, ArgHeld, TypeOK
      <3>3. QED  BY <3>1, <3>2, <2>2, RingUnchanged DEF RingInv, ReturnTimeout
    <2>3. CASE count = max_count /\ m # "nowait" /\ Block(p, m) /\ arg' = [arg EXCEPT ![p] = b]
      <3>1. TypeOK'
        BY <1>t, <1>1, <2>3 DEF PutCall, Block, TypeOK, queue
      <3>2. ArgHeld'
        BY <1>t, <1>1, <2>3 DEF Block, ArgHeld, TypeOK
      <3>3. QED  BY <3>1, <3>2, <2>3, RingUnchanged DEF RingInv, Block
    <2>4. QED  BY <1>1, <2>1, <2>2, <2>3 DEF PutCall
  <1>2. ASSUME NEW p \in Putters, PutResume(p)
        PROVE  RingInv'
    <2>1. CASE Enqueue(p, arg[p])
      <3>s. pc' \in [Threads -> {"idle", "waiting", "woken", "expired"}]
        BY <1>t, <2>1, SignalType DEF Enqueue
      <3>0. arg[p] \in Buffers  BY <1>t, <1>2 DEF PutResume, ArgHeld
      <3>1. TypeOK'
        BY <1>t, <3>s, <1>2, <2>1, <3>0, EnqueueRing DEF PutResume, Enqueue, TypeOK, QueueTypeOK, Results
      <3>2. ArgHeld'
        BY <1>t, <1>2, <2>1, ThreadsAssumption DEF PutResume, Enqueue, SignalOne, Waiting, ArgHeld, TypeOK
      <3>3. QED  BY <3>0, <3>1, <3>2, <2>1, EnqueueRing DEF RingInv
    <2>2. CASE count = max_count /\ Block(p, mode[p])
      <3>1. TypeOK'
        BY <1>t, <1>2, <2>2 DEF PutResume, Block, TypeOK, queue
      <3>2. ArgHeld'
        BY <1>t, <1>2, <2>2 DEF PutResume, Block, ArgHeld, TypeOK
      <3>3. QED  BY <3>1, <3>2, <2>2, RingUnchanged DEF RingInv, Block
    <2>3. QED  BY <1>2, <2>1, <2>2 DEF PutResume
  <1>3. ASSUME NEW g \in Getters, Dequeue(g), UNCHANGED arg
        PROVE  RingInv'
    <2>s. pc' \in [Threads -> {"idle", "waiting", "woken", "expired"}]
      BY <1>t, <1>3, SignalType DEF Dequeue
    <2>1. ring[head] \in Buffers  BY <1>3, DequeueRing
    <2>2. TypeOK'
      BY <1>t, <2>s, <1>3, <2>1, DequeueRing DEF Dequeue, TypeOK, QueueTypeOK, Results
    <2>3. ArgHeld'
      BY <1>t, <1>3, ThreadsAssumption DEF Dequeue, SignalOne, Waiting, ArgHeld, TypeOK
    <2>4. QED  BY <2>2, <2>3, <1>3, DequeueRing DEF RingInv
  <1>4. ASSUME NEW g \in Getters, NEW m \in Modes, GetCall(g, m)
        PROVE  RingInv'
    <2>1. CASE Dequeue(g)  BY <1>3, <1>4, <2>1 DEF GetCall
    <2>2. CASE m = "nowait" /\ ReturnTimeout(g) /\ out' = [out EXCEPT ![g] = NoBuffer]
      <3>1. TypeOK'
        BY <1>t, <1>4, <2>2 DEF GetCall, ReturnTimeout, TypeOK, Results, queue
      <3>2. ArgHeld'
        BY <1>t, <1>4, <2>2 DEF GetCall, ReturnTimeout, ArgHeld, TypeOK
      <3>3. QED  BY <3>1, <3>2, <2>2, RingUnchanged DEF RingInv, ReturnTimeout
    <2>3. CASE Block(g, m) /\ out' = [out EXCEPT ![g] = NoBuffer]
      <3>1. TypeOK'
        BY <1>t, <1>4, <2>3 DEF GetCall, Block, TypeOK, queue
      <3>2. ArgHeld'
        BY <1>t, <1>4, <2>3, ThreadsAssumption DEF GetCall, Block, ArgHeld, TypeOK
      <3>3. QED  BY <3>1, <3>2, <2>3, RingUnchanged DEF RingInv, Block
    <2>4. QED  BY <1>4, <2>1, <2>2, <2>3 DEF GetCall
  <1>5. ASSUME NEW g \in Getters, GetResume(g)
        PROVE  RingInv'
    <2>1. CASE Dequeue(g)  BY <1>3, <1>5, <2>1 DEF GetResume
    <2>2. CASE Block(g, mode[g]) /\ UNCHANGED out
      <3>1. TypeOK'
        BY <1>t, <1>5, <2>2 DEF GetResume, Block, TypeOK, queue
      <3>2. ArgHeld'
        BY <1>t, <1>5, <2>2, ThreadsAssumption DEF GetResume, Block, ArgHeld, TypeOK
      <3>3. QED  BY <3>1, <3>2, <2>2, RingUnchanged DEF RingInv, Block
    <2>3. QED  BY <1>5, <2>1, <2>2 DEF GetResume
  <1>6. ASSUME NEW t \in Threads, Deadline(t) \/ SpuriousWakeup(t) \/ TimedOut(t)
        PROVE  RingInv'
    <2>1. TypeOK'
      BY <1>t, <1>6 DEF Deadline, SpuriousWakeup, TimedOut, ReturnTimeout, TypeOK, Results, queue
    <2>2. ArgHeld'
      BY <1>t, <1>6 DEF Deadline, SpuriousWakeup, TimedOut, ReturnTimeout, ArgHeld, TypeOK
    <2>3. QED
      BY <2>1, <2>2, <1>6, RingUnchanged DEF RingInv, Deadline, SpuriousWakeup, TimedOut, ReturnTimeout
  <1>7. CASE UNCHANGED vars
    BY <1>7 DEF RingInv, TypeOK, ArgHeld, Occupied, IndicesAgree, FifoDelivery, Contents, vars
  <1>8. QED  BY <1>1, <1>2, <1>4, <1>5, <1>6, <1>7 DEF Next

\* The ring's invariant holds in every reachable state.
THEOREM RingCorrect == Spec => []RingInv
  <1>1. QED  BY RingInit, RingStep, PTL DEF Spec

\* Buffers leave dtbufferqueue_get in the order dtbufferqueue_put accepted
\* them, each exactly once, for every capacity and every number of threads.
THEOREM FifoDeliveryHolds == Spec => []FifoDelivery
  <1>1. RingInv => FifoDelivery  BY DEF RingInv
  <1>2. QED  BY <1>1, RingCorrect, PTL

\* The fields of the queue and the threads' states keep their types: indices
\* stay inside the ring and count never passes max_count.
THEOREM TypeCorrect == Spec => []TypeOK
  <1>1. RingInv => TypeOK  BY DEF RingInv
  <1>2. QED  BY <1>1, RingCorrect, PTL

-----------------------------------------------------------------------------
(* The refinement of BoundedFifo. *)

\* Every step of the queue is a step of the abstract channel or leaves it
\* unchanged.
LEMMA RefinementStep == RingInv /\ [Next]_vars => [Fifo!Next]_<<Contents, delivered>>
  <1> SUFFICES ASSUME RingInv, [Next]_vars
               PROVE  Fifo!Next \/ UNCHANGED <<Contents, delivered>>
    OBVIOUS
  <1>t. TypeOK /\ ArgHeld  BY DEF RingInv
  <1>1. ASSUME NEW p \in Putters, NEW b \in Buffers, Enqueue(p, b)
        PROVE  Fifo!Next
    <2>1. Contents' = Append(Contents, b)  BY <1>1, EnqueueRing
    <2>2. Len(Contents) = count  BY ContentsType
    <2>3. count < max_count  BY <1>t, <1>1, MaxCountPos DEF Enqueue, TypeOK
    <2>4. delivered' = delivered  BY <1>1 DEF Enqueue
    <2>5. QED  BY <2>1, <2>2, <2>3, <2>4 DEF Fifo!Next, Fifo!Put
  <1>2. ASSUME NEW g \in Getters, Dequeue(g)
        PROVE  Fifo!Next
    <2>1. Contents # <<>> /\ ring[head] = Head(Contents) /\ Contents' = Tail(Contents)
      BY <1>2, DequeueRing
    <2>2. delivered' = Append(delivered, ring[head])  BY <1>2 DEF Dequeue
    <2>3. QED  BY <2>1, <2>2 DEF Fifo!Next, Fifo!Get
  <1>3. ASSUME UNCHANGED <<queue, accepted, delivered>>
        PROVE  UNCHANGED <<Contents, delivered>>
    BY <1>3, RingUnchanged
  <1>4. ASSUME NEW p \in Putters, NEW b \in Buffers, NEW m \in Modes, PutCall(p, b, m)
        PROVE  Fifo!Next \/ UNCHANGED <<Contents, delivered>>
    BY <1>1, <1>3, <1>4 DEF PutCall, ReturnTimeout, Block
  <1>5. ASSUME NEW p \in Putters, PutResume(p)
        PROVE  Fifo!Next \/ UNCHANGED <<Contents, delivered>>
    <2>1. arg[p] \in Buffers  BY <1>t, <1>5 DEF PutResume, ArgHeld
    <2>2. QED  BY <1>1, <1>3, <1>5, <2>1 DEF PutResume, Block
  <1>6. ASSUME NEW g \in Getters, NEW m \in Modes, GetCall(g, m)
        PROVE  Fifo!Next \/ UNCHANGED <<Contents, delivered>>
    BY <1>2, <1>3, <1>6 DEF GetCall, ReturnTimeout, Block
  <1>7. ASSUME NEW g \in Getters, GetResume(g)
        PROVE  Fifo!Next \/ UNCHANGED <<Contents, delivered>>
    BY <1>2, <1>3, <1>7 DEF GetResume, Block
  <1>8. ASSUME NEW t \in Threads, Deadline(t) \/ SpuriousWakeup(t) \/ TimedOut(t)
        PROVE  UNCHANGED <<Contents, delivered>>
    BY <1>3, <1>8 DEF Deadline, SpuriousWakeup, TimedOut, ReturnTimeout
  <1>9. CASE UNCHANGED vars
    BY <1>3, <1>9 DEF vars, queue
  <1>10. QED  BY <1>4, <1>5, <1>6, <1>7, <1>8, <1>9 DEF Next

\* The threaded ring with its condition variables implements the abstract
\* bounded first-in first-out channel.
THEOREM QueueRefinesFifo == Spec => RefinesFifo
  <1>1. Init => Fifo!Init
    <2> SUFFICES ASSUME Init PROVE Fifo!Init
      OBVIOUS
    <2>1. Contents = <<>>  BY DEF Init, Contents
    <2>2. QED  BY <2>1 DEF Init, Fifo!Init
  <1>2. QED  BY <1>1, RefinementStep, RingCorrect, PTL DEF Spec, RefinesFifo, Fifo!Spec

-----------------------------------------------------------------------------
(* Lost wake-ups. *)

\* The threads of one role that are woken form a finite set.
LEMMA WokenFinite ==
  ASSUME NEW S, IsFiniteSet(S)
  PROVE  IsFiniteSet(Woken(S)) /\ Cardinality(Woken(S)) \in Nat
  <1>1. Woken(S) \in SUBSET S  BY DEF Woken
  <1>2. QED  BY <1>1, FS_Subset, FS_CardinalityType

\* A signal adds one to the woken threads of S if any thread of S waits.
LEMMA SignalWakes ==
  ASSUME TypeOK, NEW t \in Threads, NEW S \in SUBSET Threads, t \notin S, IsFiniteSet(S), SignalOne(t, S),
         Waiting(S)' # {}
  PROVE  Cardinality(Woken(S)') = Cardinality(Woken(S)) + 1 /\ Waiting(S) # {}
  <1>1. PICK w \in Waiting(S) : pc' = [pc EXCEPT ![t] = "idle", ![w] = "woken"]
    <2>1. CASE Waiting(S) = {} /\ pc' = [pc EXCEPT ![t] = "idle"]
      BY <2>1 DEF Waiting, TypeOK
    <2>2. QED  BY <2>1 DEF SignalOne
  <1>2. Woken(S)' = Woken(S) \cup {w}
    BY <1>1 DEF Woken, Waiting, TypeOK
  <1>3. w \notin Woken(S)
    BY <1>1 DEF Woken, Waiting
  <1>4. QED  BY <1>2, <1>3, WokenFinite, FS_AddElement, <1>1

\* A thread t of S whose call returns takes at most itself from the woken
\* threads of S, and nothing from the waiting ones.
LEMMA ReturnLeaves ==
  ASSUME TypeOK, NEW t \in Threads, NEW S \in SUBSET Threads, t \in S, IsFiniteSet(S),
         pc'[t] = "idle", \A u \in S \ {t} : pc'[u] = pc[u]
  PROVE  /\ Waiting(S)' \subseteq Waiting(S)
         /\ Cardinality(Woken(S)') \in Nat /\ Cardinality(Woken(S)) \in Nat
         /\ Cardinality(Woken(S)') >= Cardinality(Woken(S)) - 1
  <1>1. Woken(S)' = Woken(S) \ {t}
    BY DEF Woken, TypeOK
  <1>2. Waiting(S)' \subseteq Waiting(S)
    BY DEF Waiting, TypeOK
  <1>3. Cardinality(Woken(S) \ {t}) = IF t \in Woken(S) THEN Cardinality(Woken(S)) - 1 ELSE Cardinality(Woken(S))
    BY WokenFinite, FS_RemoveElement
  <1>4. IsFiniteSet(Woken(S) \ {t})  BY WokenFinite, FS_RemoveElement
  <1>5. QED  BY <1>1, <1>2, <1>3, <1>4, WokenFinite, FS_CardinalityType

\* A step that takes no thread from the woken ones of S keeps their number.
LEMMA WokenGrows ==
  ASSUME TypeOK, NEW S \in SUBSET Threads, IsFiniteSet(S), Woken(S) \subseteq Woken(S)'
  PROVE  /\ Cardinality(Woken(S)) <= Cardinality(Woken(S)')
         /\ Cardinality(Woken(S)) \in Nat /\ Cardinality(Woken(S)') \in Nat
  <1>1. Woken(S)' \in SUBSET S  BY DEF Woken
  <1>2. IsFiniteSet(Woken(S)') /\ Cardinality(Woken(S)') \in Nat
    BY <1>1, FS_Subset, FS_CardinalityType
  <1>3. QED  BY <1>2, FS_Subset, WokenFinite

\* Every step keeps a woken thread for each buffer, and for each free slot,
\* somebody sleeps for.
LEMMA WakeStep == TypeOK /\ NoLostWakeup /\ [Next]_vars => NoLostWakeup'
  <1> SUFFICES ASSUME TypeOK, NoLostWakeup, [Next]_vars PROVE NoLostWakeup'
    OBVIOUS
  <1>f. /\ Putters \in SUBSET Threads /\ Getters \in SUBSET Threads
        /\ IsFiniteSet(Putters) /\ IsFiniteSet(Getters) /\ Putters \cap Getters = {}
    BY ThreadsAssumption DEF Threads
  <1>t. count \in 0..max_count /\ max_count \in Nat \ {0}
    BY MaxCountPos DEF TypeOK
  <1>1. ASSUME NEW p \in Putters, NEW b, Enqueue(p, b)
        PROVE  NoLostWakeup'
    <2>1. SignalOne(p, Getters) /\ count' = count + 1  BY <1>1 DEF Enqueue
    <2>2. NoLostWakeupGet'
      <3> SUFFICES ASSUME Waiting(Getters)' # {} PROVE count' <= Cardinality(Woken(Getters)')
        BY DEF NoLostWakeupGet
      <3>1. Cardinality(Woken(Getters)') = Cardinality(Woken(Getters)) + 1 /\ Waiting(Getters) # {}
        BY <1>f, <2>1, SignalWakes
      <3>2. Cardinality(Woken(Getters)) \in Nat  BY <1>f, WokenFinite
      <3>3. QED  BY <1>t, <2>1, <3>1, <3>2 DEF NoLostWakeup, NoLostWakeupGet
    <2>3. NoLostWakeupPut'
      <3>1. pc'[p] = "idle" /\ \A u \in Putters \ {p} : pc'[u] = pc[u]
        BY <1>f, <2>1, SignalType
      <3>2. /\ Waiting(Putters)' \subseteq Waiting(Putters)
            /\ Cardinality(Woken(Putters)') \in Nat /\ Cardinality(Woken(Putters)) \in Nat
            /\ Cardinality(Woken(Putters)') >= Cardinality(Woken(Putters)) - 1
        BY <1>f, <3>1, ReturnLeaves
      <3>3. QED  BY <1>t, <2>1, <3>2 DEF NoLostWakeup, NoLostWakeupPut
    <2>4. QED  BY <2>2, <2>3 DEF NoLostWakeup
  <1>2. ASSUME NEW g \in Getters, Dequeue(g)
        PROVE  NoLostWakeup'
    <2>1. SignalOne(g, Putters) /\ count' = count - 1  BY <1>2 DEF Dequeue
    <2>2. NoLostWakeupPut'
      <3> SUFFICES ASSUME Waiting(Putters)' # {} PROVE max_count - count' <= Cardinality(Woken(Putters)')
        BY DEF NoLostWakeupPut
      <3>1. Cardinality(Woken(Putters)') = Cardinality(Woken(Putters)) + 1 /\ Waiting(Putters) # {}
        BY <1>f, <2>1, SignalWakes
      <3>2. Cardinality(Woken(Putters)) \in Nat  BY <1>f, WokenFinite
      <3>3. QED  BY <1>t, <2>1, <3>1, <3>2 DEF NoLostWakeup, NoLostWakeupPut
    <2>3. NoLostWakeupGet'
      <3>1. pc'[g] = "idle" /\ \A u \in Getters \ {g} : pc'[u] = pc[u]
        BY <1>f, <2>1, SignalType
      <3>2. /\ Waiting(Getters)' \subseteq Waiting(Getters)
            /\ Cardinality(Woken(Getters)') \in Nat /\ Cardinality(Woken(Getters)) \in Nat
            /\ Cardinality(Woken(Getters)') >= Cardinality(Woken(Getters)) - 1
        BY <1>f, <3>1, ReturnLeaves
      <3>3. QED  BY <1>t, <2>1, <3>2 DEF NoLostWakeup, NoLostWakeupGet
    <2>4. QED  BY <2>2, <2>3 DEF NoLostWakeup
  <1>3. ASSUME count' = count,
               \A S \in {Putters, Getters} : Waiting(S)' \subseteq Waiting(S) /\ Woken(S) \subseteq Woken(S)'
        PROVE  NoLostWakeup'
    <2>1. \A S \in {Putters, Getters} : /\ Cardinality(Woken(S)) <= Cardinality(Woken(S)')
                                        /\ Cardinality(Woken(S)) \in Nat /\ Cardinality(Woken(S)') \in Nat
      BY <1>f, <1>3, WokenGrows
    <2>2. NoLostWakeupGet'
      BY <1>t, <1>3, <2>1 DEF NoLostWakeup, NoLostWakeupGet
    <2>3. NoLostWakeupPut'
      BY <1>t, <1>3, <2>1 DEF NoLostWakeup, NoLostWakeupPut
    <2>4. QED  BY <2>2, <2>3 DEF NoLostWakeup
  <1>4. ASSUME NEW t \in Threads, pc[t] \in {"idle", "expired"}, ReturnTimeout(t)
        PROVE  NoLostWakeup'
    <2>1. count' = count  BY <1>4 DEF ReturnTimeout, queue
    <2>2. \A S \in {Putters, Getters} : Waiting(S)' \subseteq Waiting(S) /\ Woken(S) \subseteq Woken(S)'
      BY <1>4, <1>f DEF ReturnTimeout, Waiting, Woken, TypeOK
    <2>3. QED  BY <1>3, <2>1, <2>2
  <1>5. ASSUME NEW p \in Putters, NEW m, count = max_count, Block(p, m)
        PROVE  NoLostWakeup'
    <2>1. count' = count  BY <1>5 DEF Block, queue
    <2>2. Waiting(Getters)' = Waiting(Getters) /\ Woken(Getters)' = Woken(Getters)
      BY <1>5, <1>f DEF Block, Waiting, Woken, TypeOK
    <2>3. Cardinality(Woken(Putters)') \in Nat
      <3>1. Woken(Putters)' \in SUBSET Putters  BY DEF Woken
      <3>2. QED  BY <1>f, <3>1, FS_Subset, FS_CardinalityType
    <2>4. NoLostWakeupPut'  BY <1>5, <1>t, <2>1, <2>3 DEF NoLostWakeupPut
    <2>5. QED  BY <2>1, <2>2, <2>4 DEF NoLostWakeup, NoLostWakeupGet
  <1>6. ASSUME NEW g \in Getters, NEW m, count = 0, Block(g, m)
        PROVE  NoLostWakeup'
    <2>1. count' = count  BY <1>6 DEF Block, queue
    <2>2. Waiting(Putters)' = Waiting(Putters) /\ Woken(Putters)' = Woken(Putters)
      BY <1>6, <1>f DEF Block, Waiting, Woken, TypeOK
    <2>3. Cardinality(Woken(Getters)') \in Nat
      <3>1. Woken(Getters)' \in SUBSET Getters  BY DEF Woken
      <3>2. QED  BY <1>f, <3>1, FS_Subset, FS_CardinalityType
    <2>4. NoLostWakeupGet'  BY <1>6, <1>t, <2>1, <2>3 DEF NoLostWakeupGet
    <2>5. QED  BY <2>1, <2>2, <2>4 DEF NoLostWakeup, NoLostWakeupPut
  <1>7. ASSUME NEW t \in Threads, Deadline(t) \/ SpuriousWakeup(t)
        PROVE  NoLostWakeup'
    <2>1. count' = count  BY <1>7 DEF Deadline, SpuriousWakeup, queue
    <2>2. \A S \in {Putters, Getters} : Waiting(S)' \subseteq Waiting(S) /\ Woken(S) \subseteq Woken(S)'
      BY <1>7, <1>f DEF Deadline, SpuriousWakeup, Waiting, Woken, TypeOK
    <2>3. QED  BY <1>3, <2>1, <2>2
  <1>8. CASE UNCHANGED vars
    BY <1>8 DEF vars, NoLostWakeup, NoLostWakeupGet, NoLostWakeupPut, Waiting, Woken
  <1>9. ASSUME NEW p \in Putters, NEW b \in Buffers, NEW m \in Modes, PutCall(p, b, m)
        PROVE  NoLostWakeup'
    BY <1>1, <1>4, <1>5, <1>9, <1>f DEF PutCall
  <1>10. ASSUME NEW p \in Putters, PutResume(p)
         PROVE  NoLostWakeup'
    BY <1>1, <1>5, <1>10 DEF PutResume
  <1>11. ASSUME NEW g \in Getters, NEW m \in Modes, GetCall(g, m)
         PROVE  NoLostWakeup'
    BY <1>2, <1>4, <1>6, <1>11, <1>f DEF GetCall
  <1>12. ASSUME NEW g \in Getters, GetResume(g)
         PROVE  NoLostWakeup'
    BY <1>2, <1>6, <1>12 DEF GetResume
  <1>13. ASSUME NEW t \in Threads, TimedOut(t)
         PROVE  NoLostWakeup'
    BY <1>4, <1>13 DEF TimedOut
  <1>14. QED  BY <1>7, <1>8, <1>9, <1>10, <1>11, <1>12, <1>13 DEF Next

\* No signal of dtbufferqueue_put or dtbufferqueue_get is lost, whatever the
\* interleaving of barging callers, timeouts and spurious wake-ups.
THEOREM NoLostWakeupHolds == Spec => []NoLostWakeup
  <1>1. Init => NoLostWakeup
    BY DEF Init, NoLostWakeup, NoLostWakeupGet, NoLostWakeupPut, Waiting, Threads
  <1>2. QED  BY <1>1, WakeStep, TypeCorrect, PTL DEF Spec

-----------------------------------------------------------------------------
(* What a get tells its caller. *)

\* What every step of a thread t leaves alone of the other threads' results, and
\* that no step but t's own makes a thread idle.
LEMMA OthersLeft ==
  ASSUME TypeOK, NEW t \in Threads, NEW S \in SUBSET Threads, SignalOne(t, S)
  PROVE  \A u \in Threads \ {t} : pc'[u] = "idle" => pc[u] = "idle"
  BY DEF SignalOne, Waiting, TypeOK

\* One step keeps the promise, provided no getter passes was_timeout = NULL.
LEMMA GetDeliversStep ==
  ASSUME Careless \cap Getters = {}
  PROVE  RingInv /\ SuccessfulGetDelivers /\ [Next]_vars => SuccessfulGetDelivers'
  <1> SUFFICES ASSUME RingInv, SuccessfulGetDelivers, [Next]_vars
               PROVE  SuccessfulGetDelivers'
    OBVIOUS
  <1>t. TypeOK  BY DEF RingInv
  <1>s. Putters \cap Getters = {} /\ Getters \in SUBSET Threads /\ Putters \in SUBSET Threads
    BY ThreadsAssumption DEF Threads
  <1>1. ASSUME NEW p \in Putters, NEW b, Enqueue(p, b), out' = out
        PROVE  SuccessfulGetDelivers'
    <2>1. \A g \in Getters : (pc'[g] = "idle" => pc[g] = "idle") /\ result'[g] = result[g]
      BY <1>1, <1>t, <1>s, OthersLeft DEF Enqueue, TypeOK
    <2>2. QED  BY <1>1, <2>1 DEF SuccessfulGetDelivers
  <1>2. ASSUME NEW g \in Getters, Dequeue(g)
        PROVE  SuccessfulGetDelivers'
    <2>1. ring[head] \in Buffers
      <3>1. 1 \in 1..count  BY <1>2, <1>t, MaxCountPos DEF Dequeue, TypeOK
      <3>2. Wrap(head + 1 - 1) = head  BY <1>t, MaxCountPos, WrapCases DEF TypeOK
      <3>3. QED  BY <3>1, <3>2 DEF RingInv, Occupied
    <2>2. out'[g] # NoBuffer
      BY <1>2, <1>t, <2>1, BuffersAssumption DEF Dequeue, TypeOK
    <2>3. \A h \in Getters \ {g} : /\ pc'[h] = "idle" => pc[h] = "idle"
                                  /\ result'[h] = result[h] /\ out'[h] = out[h]
      BY <1>2, <1>t, <1>s, OthersLeft DEF Dequeue, TypeOK
    <2>4. QED  BY <2>2, <2>3 DEF SuccessfulGetDelivers
  <1>3. ASSUME NEW t \in Threads, ReturnTimeout(t),
               \A g \in Getters \ {t} : out'[g] = out[g]
        PROVE  SuccessfulGetDelivers'
    <2>1. t \in Getters => result'[t] = "timeout"
      BY <1>3, <1>t DEF ReturnTimeout, TypeOK
    <2>2. \A g \in Getters \ {t} : pc'[g] = pc[g] /\ result'[g] = result[g]
      BY <1>3, <1>t, <1>s DEF ReturnTimeout, TypeOK
    <2>3. QED  BY <1>3, <2>1, <2>2 DEF SuccessfulGetDelivers
  <1>4. ASSUME NEW t \in Threads, NEW m, Block(t, m),
               \A g \in Getters \ {t} : out'[g] = out[g]
        PROVE  SuccessfulGetDelivers'
    <2>1. \A g \in Getters : (pc'[g] = "idle" => g # t /\ pc[g] = "idle") /\ result'[g] = result[g]
      BY <1>4, <1>t, <1>s DEF Block, TypeOK
    <2>2. QED  BY <1>4, <2>1 DEF SuccessfulGetDelivers
  <1>5. ASSUME NEW t \in Threads, Deadline(t) \/ SpuriousWakeup(t)
        PROVE  SuccessfulGetDelivers'
    <2>1. \A g \in Getters : pc'[g] = "idle" => pc[g] = "idle"
      BY <1>5, <1>t, <1>s DEF Deadline, SpuriousWakeup, TypeOK
    <2>2. QED  BY <1>5, <2>1 DEF SuccessfulGetDelivers, Deadline, SpuriousWakeup
  <1>6. ASSUME NEW p \in Putters, NEW b \in Buffers, NEW m \in Modes, PutCall(p, b, m)
        PROVE  SuccessfulGetDelivers'
    BY <1>1, <1>3, <1>4, <1>6, <1>s DEF PutCall
  <1>7. ASSUME NEW p \in Putters, PutResume(p)
        PROVE  SuccessfulGetDelivers'
    BY <1>1, <1>4, <1>7, <1>s DEF PutResume
  <1>8. ASSUME NEW g \in Getters, NEW m \in Modes, GetCall(g, m)
        PROVE  SuccessfulGetDelivers'
    <2>1. CASE Dequeue(g)  BY <1>2, <2>1
    <2>2. CASE out' = [out EXCEPT ![g] = NoBuffer] /\ (ReturnTimeout(g) \/ Block(g, m))
      <3>1. \A h \in Getters \ {g} : out'[h] = out[h]  BY <2>2, <1>t DEF TypeOK
      <3>2. QED  BY <1>3, <1>4, <1>s, <2>2, <3>1
    <2>3. QED  BY <1>8, <2>1, <2>2 DEF GetCall
  <1>9. ASSUME NEW g \in Getters, GetResume(g)
        PROVE  SuccessfulGetDelivers'
    BY <1>2, <1>4, <1>9, <1>s DEF GetResume
  <1>10. ASSUME NEW t \in Threads, TimedOut(t)
         PROVE  SuccessfulGetDelivers'
    BY <1>3, <1>10 DEF TimedOut
  <1>11. CASE UNCHANGED vars
    BY <1>11 DEF vars, SuccessfulGetDelivers
  <1>12. QED  BY <1>5, <1>6, <1>7, <1>8, <1>9, <1>10, <1>11 DEF Next

\* A get that returns without an error and without a timeout has handed out a
\* buffer, for any number of threads that race for it.  The hypothesis is the
\* callers' side of the contract: a getter that passes was_timeout = NULL cannot
\* tell the two outcomes apart, whatever dtbufferqueue_get does.
THEOREM SuccessfulGetHolds ==
  ASSUME Careless \cap Getters = {}
  PROVE  Spec => []SuccessfulGetDelivers
  <1>1. Init => SuccessfulGetDelivers
    BY ThreadsAssumption DEF Init, SuccessfulGetDelivers, Threads
  <1>2. RingInv /\ SuccessfulGetDelivers /\ [Next]_vars => SuccessfulGetDelivers'
    BY GetDeliversStep
  <1>3. QED  BY <1>1, <1>2, RingCorrect, PTL DEF Spec
=============================================================================
