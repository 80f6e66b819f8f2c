----------------------------- MODULE BufferQueue -----------------------------
(***************************************************************************)
(* The blocking bounded queue of dtbufferqueue_linux.c: a ring of buffer   *)
(* pointers behind one mutex and two condition variables.                  *)
(*                                                                         *)
(* Every access to the ring is made with the mutex held, so the code       *)
(* between taking the mutex and giving it up (by unlocking it or by        *)
(* waiting on a condition variable) is one action.  A thread that waits is *)
(* in one of three situations the mutex tells apart:                       *)
(*   "waiting"  blocked on its condition variable;                         *)
(*   "woken"    its wait will return 0 once it has the mutex again;        *)
(*   "expired"  its timed wait will return ETIMEDOUT once it has the mutex *)
(*              again; it no longer receives signals.                      *)
(***************************************************************************)
EXTENDS Integers, Sequences, FiniteSets

CONSTANTS Putters,      \* threads that call dtbufferqueue_put
          Getters,      \* threads that call dtbufferqueue_get
          Careless,     \* threads that pass was_timeout = NULL
          Buffers,      \* buffer pointers
          NoBuffer,     \* the NULL pointer
          MaxCountArg,  \* the max_count argument of dtbufferqueue_create
          MaxPuts       \* bound on the buffers accepted, for model checking

ASSUME ThreadsAssumption ==
    /\ IsFiniteSet(Putters) /\ IsFiniteSet(Getters)
    /\ Putters \cap Getters = {}
    /\ Careless \subseteq Putters \cup Getters

ASSUME BuffersAssumption == NoBuffer \notin Buffers

ASSUME BoundsAssumption == MaxCountArg \in Nat /\ MaxPuts \in Nat

Threads == Putters \cup Getters

\* The timeout_millis argument: DTTIMEOUT_FOREVER, 0, or a finite time.
Modes == {"forever", "nowait", "timed"}

\* What a returned call told its caller: no error and no timeout, or a timeout.
Results == {"none", "ok", "timeout"}

\* dtbufferqueue_create: a capacity of zero becomes one.
max_count == IF MaxCountArg = 0 THEN 1 ELSE MaxCountArg

\* Ring index arithmetic.
Wrap(i) == i % max_count

VARIABLES ring, head, tail, count,   \* the fields of dtbufferqueue_t
          pc, mode,                  \* each thread's place, and the mode of its wait
          arg,                       \* the buffer a putter wants to enqueue
          result, out,               \* what the last call of a thread returned
          accepted, delivered        \* history: buffers enqueued and dequeued

queue == <<ring, head, tail, count>>
vars  == <<ring, head, tail, count, pc, mode, arg, result, out, accepted, delivered>>

TypeOK ==
    /\ ring \in [0..(max_count - 1) -> Buffers \cup {NoBuffer}]
    /\ head \in 0..(max_count - 1)
    /\ tail \in 0..(max_count - 1)
    /\ count \in 0..max_count
    /\ pc \in [Threads -> {"idle", "waiting", "woken", "expired"}]
    /\ mode \in [Threads -> Modes]
    /\ arg \in [Putters -> Buffers \cup {NoBuffer}]
    /\ result \in [Threads -> Results]
    /\ out \in [Getters -> Buffers \cup {NoBuffer}]
    /\ accepted \in Seq(Buffers)
    /\ delivered \in Seq(Buffers)

Init ==
    /\ ring = [i \in 0..(max_count - 1) |-> NoBuffer]
    /\ head = 0 /\ tail = 0 /\ count = 0
    /\ pc = [t \in Threads |-> "idle"]
    /\ mode = [t \in Threads |-> "forever"]
    /\ arg = [t \in Putters |-> NoBuffer]
    /\ result = [t \in Threads |-> "none"]
    /\ out = [t \in Getters |-> NoBuffer]
    /\ accepted = <<>> /\ delivered = <<>>

Waiting(S) == {t \in S : pc[t] = "waiting"}
Woken(S)   == {t \in S : pc[t] = "woken"}

\* Mutant: a get never signals.
Mutant_SignalGettersOnly(t, S) ==
    \/ /\ Waiting(S) = {} \/ S = Putters
       /\ pc' = [pc EXCEPT ![t] = "idle"]
    \/ S = Getters /\ \E w \in Waiting(S) : pc' = [pc EXCEPT ![t] = "idle", ![w] = "woken"]

\* pthread_cond_signal on the condition variable the threads of S wait on:
\* if any thread waits, one of them is woken.  t itself becomes idle.
SignalOne(t, S) ==
    \/ /\ Waiting(S) = {}
       /\ pc' = [pc EXCEPT ![t] = "idle"]
    \/ \E w \in Waiting(S) : pc' = [pc EXCEPT ![t] = "idle", ![w] = "woken"]

\* Mutant: was_timeout is never set.
Mutant_ReturnSilently(t) ==
    /\ pc' = [pc EXCEPT ![t] = "idle"]
    /\ result' = [result EXCEPT ![t] = "ok"]
    /\ UNCHANGED <<queue, mode, accepted, delivered>>

\* The call of t returns without having moved a buffer.  The timeout is
\* reported only through was_timeout: the returned error is NULL, so a caller
\* that passed no was_timeout sees what it would see after a success.
ReturnTimeout(t) ==
    /\ pc' = [pc EXCEPT ![t] = "idle"]
    /\ result' = [result EXCEPT ![t] = IF t \in Careless THEN "ok" ELSE "timeout"]
    /\ UNCHANGED <<queue, mode, accepted, delivered>>

\* The call of t blocks on its condition variable and releases the mutex.
Block(t, m) ==
    /\ pc' = [pc EXCEPT ![t] = "waiting"]
    /\ mode' = [mode EXCEPT ![t] = m]
    /\ UNCHANGED <<queue, result, accepted, delivered>>

(***************************************************************************)
(* dtbufferqueue_put                                                       *)
(***************************************************************************)
Enqueue(p, b) ==
    /\ count # max_count
    /\ ring' = [ring EXCEPT ![tail] = b]
    /\ tail' = Wrap(tail + 1)
    /\ count' = count + 1
    /\ SignalOne(p, Getters)
    /\ result' = [result EXCEPT ![p] = "ok"]
    /\ accepted' = Append(accepted, b)
    /\ UNCHANGED <<head, mode, delivered>>

PutCall(p, b, m) ==
    /\ pc[p] = "idle"
    /\ Len(accepted) < MaxPuts
    /\ \/ Enqueue(p, b) /\ UNCHANGED arg
       \/ count = max_count /\ m = "nowait" /\ ReturnTimeout(p) /\ UNCHANGED arg
       \/ count = max_count /\ m # "nowait" /\ Block(p, m) /\ arg' = [arg EXCEPT ![p] = b]
    /\ UNCHANGED out

\* The while loop around the wait re-evaluates its condition.
PutResume(p) ==
    /\ pc[p] = "woken"
    /\ \/ Enqueue(p, arg[p])
       \/ count = max_count /\ Block(p, mode[p])
    /\ UNCHANGED <<arg, out>>

(***************************************************************************)
(* dtbufferqueue_get                                                       *)
(***************************************************************************)
\* Mutant: the pop index stays.
Mutant_DequeueKeepsHead(g) ==
    /\ count # 0
    /\ out' = [out EXCEPT ![g] = ring[head]]
    /\ count' = count - 1
    /\ SignalOne(g, Putters)
    /\ result' = [result EXCEPT ![g] = "ok"]
    /\ delivered' = Append(delivered, ring[head])
    /\ UNCHANGED <<ring, head, tail, mode, accepted>>

Dequeue(g) ==
    /\ count # 0
    /\ out' = [out EXCEPT ![g] = ring[head]]
    /\ head' = Wrap(head + 1)
    /\ count' = count - 1
    /\ SignalOne(g, Putters)
    /\ result' = [result EXCEPT ![g] = "ok"]
    /\ delivered' = Append(delivered, ring[head])
    /\ UNCHANGED <<ring, tail, mode, accepted>>

\* The caller's buffer variable is NULL when it calls get.
GetCall(g, m) ==
    /\ pc[g] = "idle"
    /\ \/ Dequeue(g)
       \/ /\ count = 0
          /\ IF m = "nowait" THEN ReturnTimeout(g) ELSE Block(g, m)
          /\ out' = [out EXCEPT ![g] = NoBuffer]
    /\ UNCHANGED arg

GetResume(g) ==
    /\ pc[g] = "woken"
    /\ \/ Dequeue(g)
       \/ count = 0 /\ Block(g, mode[g]) /\ UNCHANGED out
    /\ UNCHANGED arg

(***************************************************************************)
(* Condition variables: the deadline of a timed wait passes, a wait        *)
(* returns without a signal, a timed-out wait gets the mutex back.  The    *)
(* code does not look at count again after ETIMEDOUT.                      *)
(***************************************************************************)
Deadline(t) ==
    /\ pc[t] = "waiting" /\ mode[t] = "timed"
    /\ pc' = [pc EXCEPT ![t] = "expired"]
    /\ UNCHANGED <<queue, mode, arg, result, out, accepted, delivered>>

SpuriousWakeup(t) ==
    /\ pc[t] = "waiting"
    /\ pc' = [pc EXCEPT ![t] = "woken"]
    /\ UNCHANGED <<queue, mode, arg, result, out, accepted, delivered>>

TimedOut(t) ==
    /\ pc[t] = "expired"
    /\ ReturnTimeout(t)
    /\ UNCHANGED <<arg, out>>

Next ==
    \/ \E p \in Putters, b \in Buffers, m \in Modes : PutCall(p, b, m)
    \/ \E p \in Putters : PutResume(p)
    \/ \E g \in Getters, m \in Modes : GetCall(g, m)
    \/ \E g \in Getters : GetResume(g)
    \/ \E t \in Threads : Deadline(t) \/ SpuriousWakeup(t) \/ TimedOut(t)

Spec == Init /\ [][Next]_vars

(***************************************************************************)
(* Properties                                                              *)
(***************************************************************************)

\* The buffers in the ring, oldest first.
Contents == [i \in 1..count |-> ring[Wrap(head + i - 1)]]

\* The push index is count slots ahead of the pop index.
IndicesAgree == tail = Wrap(head + count)

\* Every buffer put into the queue is handed out once, in the order of the
\* puts: what was accepted is what was delivered followed by what the ring
\* holds.  Slot reuse by a wrapped tail or a stale head would break it.
FifoDelivery == accepted = delivered \o Contents

\* No getter sleeps on cv_not_empty while the ring holds a buffer that no
\* woken getter is coming for: each put signals, and a getter that finds the
\* buffer already taken by a thread that barged in waits again.
NoLostWakeupGet == Waiting(Getters) # {} => count <= Cardinality(Woken(Getters))

\* The same for putters on cv_not_full and the free slots of the ring.
NoLostWakeupPut == Waiting(Putters) # {} => max_count - count <= Cardinality(Woken(Putters))

\* No signal is lost, in either direction.
NoLostWakeup == NoLostWakeupGet /\ NoLostWakeupPut

\* A get that returned no error and reported no timeout has handed out a
\* buffer: the caller uses *buffer without a further test.
SuccessfulGetDelivers == \A g \in Getters : pc[g] = "idle" /\ result[g] = "ok" => out[g] # NoBuffer

\* What the queue promises: a bounded first-in first-out channel.
Fifo == INSTANCE BoundedFifo WITH Capacity <- max_count, Elements <- Buffers,
                                  items <- Contents, taken <- delivered
RefinesFifo == Fifo!Spec
=============================================================================
