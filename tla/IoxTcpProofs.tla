---------------------------- MODULE IoxTcpProofs -----------------------------
(***************************************************************************)
(* Proofs about the TCP byte stream, for every capacity, chunk size,       *)
(* buffer length and number of sessions: although the owner, the receive   *)
(* tasks and the reader share their state without a lock, bytes arrive in  *)
(* order, a gap is reported, a lost connection is told, and a reader does  *)
(* not sleep beside bytes.                                                 *)
(***************************************************************************)
EXTENDS IoxTcp, SequenceTheorems, TLAPS

\* The places of a receive task that still uses self->fd: before its cleanup,
\* and in the cleanup until the descriptor is given up.
Serving == {"call", "recv", "got", "flag", "post"}
Holding == Serving \cup {"mark", "closefd"}

\* Only the newest session's task holds the descriptor.  It is the session's
\* own until a detach, and nobody connects before the task has let go of it.
SessionsOK ==
    /\ owner = "connect" => sessions < MaxSessions
    /\ \A s \in Sessions :
        /\ s > sessions => rx[s].pc = "none"
        /\ rx[s].pc \in Holding => s = sessions /\ owner # "connect"
        /\ rx[s].pc \in Holding /\ ~detached => fd = s
        /\ rx[s].pc \in Serving /\ ~detached /\ peer[s] = "open" => is_connected

\* A session whose task has begun its cleanup is not connected,
LostOK ==
    \A s \in Sessions :
        s = sessions /\ rx[s].pc \in {"closefd", "closelisten", "wake", "ended"} => ~is_connected

\* and once the task has ended, the reader has the unit that wakes it or is
\* about to find out.
WokenOK ==
    \A s \in Sessions :
        s = sessions /\ rx[s].pc = "ended" => sem > 0 \/ reader \in {"read", "told"}

\* The bytes in the FIFO are younger than the last one read, in order, and
\* older than the chunk the task has in hand.
FifoOK ==
    /\ \A i \in 1 .. Len(fifo) : last < fifo[i] /\ fifo[i] <= received
    /\ \A i, j \in 1 .. Len(fifo) : i < j => fifo[i] < fifo[j]
    /\ last <= received /\ ordered

Younger(chunk) ==
    /\ Len(chunk) <= ChunkMax
    /\ \A i \in 1 .. Len(chunk) :
          /\ last < chunk[i] /\ chunk[i] <= received
          /\ \A j \in 1 .. Len(fifo) : fifo[j] < chunk[i]
    /\ \A i, j \in 1 .. Len(chunk) : i < j => chunk[i] < chunk[j]

ChunkOK ==
    \A s \in Sessions : /\ rx[s].pc # "got" => rx[s].chunk = <<>>
                        /\ Younger(rx[s].chunk)

\* A gap is flagged, or the task is about to flag it and the FIFO holds nothing
\* from beyond it.  A read that went past the gap tested the flag too early;
\* the next one will see it.
GapOK ==
    /\ missing # 0 /\ ~rx_overflow_flag =>
          /\ \E s \in Sessions : rx[s].pc = "flag"
          /\ \A i \in 1 .. Len(fifo) : fifo[i] < missing
    /\ late = 0 \/ (late = 1 /\ missing # 0 /\ rx_overflow_flag /\ reader # "pop")

\* A reader that waits, or that an enable is about to send back to waiting, has
\* a unit for what the FIFO holds, or is about to get one.
Posted == sem > 0 \/ \E s \in Sessions : rx[s].pc = "post"
StallOK ==
    (ChunkMax <= Capacity /\ fifo # <<>>) =>
        /\ reader = "wait" => Posted
        /\ reader = "told" /\ owner = "clear" /\ is_connected => Posted

IInv == TypeOK /\ SessionsOK /\ LostOK /\ WokenOK /\ FifoOK /\ ChunkOK /\ GapOK /\ StallOK

\* The sizes are positive, the bounds natural.
LEMMA Sizes ==
    /\ Capacity \in Nat /\ Capacity > 0 /\ ChunkMax \in Nat /\ ChunkMax > 0
    /\ BufLen \in Nat /\ BufLen > 0 /\ MaxSessions \in Nat /\ MaxSessions > 0
    /\ MaxBytes \in Nat /\ MaxEnables \in Nat /\ MayFailTask \in BOOLEAN
    /\ Sessions = 1 .. MaxSessions /\ Fds = 0 .. MaxSessions /\ Bytes = 1 .. MaxBytes
BY SizesAssumption, BoundsAssumption DEF Sessions, Fds, Bytes

\* What a step of one receive task does to the others: nothing.
LEMMA RxGoesFacts ==
    ASSUME TypeOK, NEW s \in Sessions, NEW p \in RxPlaces, RxGoes(s, p)
    PROVE  /\ rx' \in [Sessions -> RxType]
           /\ rx'[s].pc = p /\ rx'[s].chunk = rx[s].chunk
           /\ \A t \in Sessions \ {s} : rx'[t] = rx[t]
BY DEF TypeOK, RxType, RxGoes

\* The values of a stream that was never attached.
LEMMA Zero == 0 \in Fds /\ 0 \in 0 .. MaxBytes /\ 0 \in Nat
BY Sizes

\* A step that moves no byte leaves the chunk in hand as it was.
LEMMA ChunkKept ==
    ASSUME ChunkOK, fifo' = fifo, last' = last, received' = received,
           \A t \in Sessions : rx'[t].chunk = rx[t].chunk,
           \A t \in Sessions : rx[t].pc = "got" => rx'[t].pc = "got"
    PROVE  ChunkOK'
<1> SUFFICES ASSUME NEW t \in Sessions
             PROVE  (rx'[t].pc # "got" => rx'[t].chunk = <<>>) /\ Younger(rx[t].chunk)'
    BY DEF ChunkOK
<1> QED
    BY DEF ChunkOK, Younger

\* What dtringfifo_push appends,
LEMMA PushedSeq ==
    ASSUME NEW S, NEW q \in Seq(S), NEW c \in Seq(S), NEW n \in 0 .. Len(c)
    PROVE  LET p == q \o SubSeq(c, 1, n) IN
           /\ p \in Seq(S) /\ Len(p) = Len(q) + n
           /\ \A i \in 1 .. Len(q) + n : p[i] = IF i <= Len(q) THEN q[i] ELSE c[i - Len(q)]
<1> DEFINE r == SubSeq(c, 1, n)
<1>1. \A i \in 1 .. n : c[i] \in S
    BY ElementOfSeq, LenProperties
<1>2. r \in Seq(S) /\ Len(r) = n /\ \A i \in 1 .. n : r[i] = c[i]
    BY <1>1, SubSeqProperties, LenProperties
<1> HIDE DEF r
<1>3. /\ q \o r \in Seq(S) /\ Len(q \o r) = Len(q) + Len(r)
      /\ \A i \in 1 .. Len(q) + Len(r) : (q \o r)[i] = IF i <= Len(q) THEN q[i] ELSE r[i - Len(q)]
    BY <1>2, ConcatProperties
<1>4. Len(q) \in Nat
    BY LenProperties
<1> QED
    BY <1>4

\* and what a push or a pop of n bytes leaves over.
LEMMA RestSeq ==
    ASSUME NEW S, NEW c \in Seq(S), NEW n \in 0 .. Len(c)
    PROVE  LET r == SubSeq(c, n + 1, Len(c)) IN
           /\ r \in Seq(S) /\ Len(r) = Len(c) - n
           /\ \A i \in 1 .. Len(c) - n : r[i] = c[n + i]
           /\ r # <<>> <=> n < Len(c)
<1> DEFINE r == SubSeq(c, n + 1, Len(c))
<1>1. Len(c) \in Nat /\ \A i \in n + 1 .. Len(c) : c[i] \in S
    BY ElementOfSeq, LenProperties
<1>2. /\ r \in Seq(S) /\ Len(r) = (IF n + 1 <= Len(c) THEN Len(c) - (n + 1) + 1 ELSE 0)
      /\ \A i \in 1 .. Len(c) - (n + 1) + 1 : r[i] = c[n + 1 + i - 1]
    BY <1>1, SubSeqProperties
<1> HIDE DEF r
<1>3. /\ r \in Seq(S) /\ Len(r) = Len(c) - n
      /\ \A i \in 1 .. Len(c) - n : r[i] = c[n + i]
    BY <1>1, <1>2
<1>4. r # <<>> <=> n < Len(c)
    BY <1>1, <1>3, EmptySeq, LenProperties
<1> QED
    BY <1>4

\* A peer that goes is noticed by nobody yet.
LEMMA PeerClosesStep ==
    ASSUME IInv, NEW s \in Sessions, PeerCloses(s)
    PROVE  IInv'
<1>1. TypeOK'
    BY DEF IInv, PeerCloses, TypeOK, shared, app, gap, read
<1>2. SessionsOK' /\ LostOK' /\ WokenOK' /\ FifoOK' /\ ChunkOK' /\ GapOK' /\ StallOK'
    BY DEF IInv, PeerCloses, SessionsOK, LostOK, WokenOK, FifoOK, ChunkOK, Younger,
       GapOK, StallOK, Posted, shared, app, gap, read
<1> QED
    BY <1>1, <1>2 DEF IInv

\* Nobody connects while a task still holds the descriptor.
LEMMA AttachCheckStep ==
    ASSUME IInv, AttachCheck
    PROVE  IInv'
<1>1. TypeOK'
    BY DEF IInv, AttachCheck, TypeOK, shared, net, gap, read
<1>2. SessionsOK'
    BY Sizes DEF IInv, AttachCheck, RxEnded, SessionsOK, Holding, Serving, net
<1>3. StallOK' /\ LostOK' /\ WokenOK' /\ FifoOK' /\ ChunkOK' /\ GapOK'
    BY DEF IInv, AttachCheck, StallOK, Posted, LostOK, WokenOK, FifoOK, ChunkOK,
       Younger, GapOK, shared, net, gap, read
<1> QED
    BY <1>1, <1>2, <1>3 DEF IInv

\* The new session's task is the only one that holds the descriptor.
LEMMA AttachConnectsStep ==
    ASSUME IInv, AttachConnects
    PROVE  IInv'
<1>n. sessions + 1 \in Sessions /\ sessions + 1 \in Fds /\ rx[sessions + 1].pc = "none"
    BY Sizes DEF IInv, TypeOK, SessionsOK, AttachConnects
<1>r. /\ rx' \in [Sessions -> RxType]
      /\ rx'[sessions + 1].pc = "call" /\ rx'[sessions + 1].chunk = rx[sessions + 1].chunk
      /\ \A t \in Sessions \ {sessions + 1} : rx'[t] = rx[t]
    BY <1>n, RxGoesFacts DEF IInv, AttachConnects, RxPlaces
<1>1. TypeOK'
    BY <1>n, <1>r, Zero DEF IInv, TypeOK, AttachConnects, read, gap
<1>2. SessionsOK'
    BY <1>r, Sizes DEF IInv, AttachConnects, TypeOK, SessionsOK
<1>3. LostOK'
    BY <1>r DEF IInv, AttachConnects, LostOK
<1>4. WokenOK'
    BY <1>r DEF IInv, AttachConnects, WokenOK
<1>5. ChunkOK'
    BY <1>n, <1>r, ChunkKept DEF IInv, AttachConnects, read
<1>6. GapOK'
    BY <1>n, <1>r DEF IInv, AttachConnects, GapOK, gap
<1>7. StallOK'
    BY <1>n, <1>r DEF IInv, AttachConnects, StallOK, Posted
<1>8. FifoOK'
    BY DEF IInv, AttachConnects, FifoOK, gap, read
<1> QED
    BY <1>1, <1>2, <1>3, <1>4, <1>5, <1>6, <1>7, <1>8 DEF IInv

\* A connection that fails changes nothing but the owner's place.
LEMMA AttachFailsStep ==
    ASSUME IInv, AttachFails
    PROVE  IInv'
<1>1. TypeOK'
    BY DEF IInv, AttachFails, TypeOK, shared, net, gap, read
<1>2. SessionsOK' /\ StallOK' /\ LostOK' /\ WokenOK' /\ FifoOK' /\ ChunkOK' /\ GapOK'
    BY DEF IInv, AttachFails, SessionsOK, StallOK, Posted, LostOK, WokenOK, FifoOK,
       ChunkOK, Younger, GapOK, shared, net, gap, read
<1> QED
    BY <1>1, <1>2 DEF IInv

\* A connection without a task leaves is_connected set and nobody to serve it.
LEMMA AttachTaskFailsStep ==
    ASSUME IInv, AttachTaskFails
    PROVE  IInv'
<1>n. sessions + 1 \in Sessions /\ sessions + 1 \in Fds
    BY Sizes DEF IInv, TypeOK, SessionsOK, AttachTaskFails
<1>1. TypeOK'
    BY <1>n, Zero DEF IInv, TypeOK, AttachTaskFails, read, gap
<1>2. SessionsOK'
    BY Sizes DEF IInv, AttachTaskFails, TypeOK, SessionsOK
<1>3. LostOK'
    BY Sizes DEF IInv, AttachTaskFails, TypeOK, LostOK, SessionsOK
<1>4. WokenOK'
    BY Sizes DEF IInv, AttachTaskFails, TypeOK, WokenOK, SessionsOK
<1>5. StallOK' /\ FifoOK' /\ ChunkOK' /\ GapOK'
    BY DEF IInv, AttachTaskFails, StallOK, Posted, FifoOK, ChunkOK, Younger, GapOK, gap,
       read
<1> QED
    BY <1>1, <1>2, <1>3, <1>4, <1>5 DEF IInv

\* A detach takes the descriptor from under the task.
LEMMA DetachStep ==
    ASSUME IInv, Detach
    PROVE  IInv'
<1>1. TypeOK'
    BY Zero DEF IInv, TypeOK, Detach, net, read, gap
<1>2. SessionsOK' /\ LostOK' /\ StallOK' /\ WokenOK' /\ FifoOK' /\ ChunkOK' /\ GapOK'
    BY DEF IInv, Detach, SessionsOK, LostOK, StallOK, Posted, WokenOK, FifoOK, ChunkOK,
       Younger, GapOK, net, gap, read
<1> QED
    BY <1>1, <1>2 DEF IInv

\* enable: the new value is stored,
LEMMA EnableSetStep ==
    ASSUME IInv, NEW enabled \in BOOLEAN, EnableSet(enabled)
    PROVE  IInv'
<1>1. TypeOK'
    BY Sizes DEF IInv, EnableSet, TypeOK, net, gap, read
<1>2. SessionsOK' /\ StallOK' /\ LostOK' /\ WokenOK' /\ FifoOK' /\ ChunkOK' /\ GapOK'
    BY DEF IInv, EnableSet, SessionsOK, StallOK, Posted, LostOK, WokenOK, FifoOK,
       ChunkOK, Younger, GapOK, net, gap, read
<1> QED
    BY <1>1, <1>2 DEF IInv

\* the FIFO is emptied, which leaves the chunk in hand younger than what is left,
LEMMA EnableResetStep ==
    ASSUME IInv, EnableReset
    PROVE  IInv'
<1>1. TypeOK'
    BY Sizes DEF IInv, EnableReset, Told, TypeOK, net, read
<1>2. ChunkOK'
  <2> SUFFICES ASSUME NEW t \in Sessions
               PROVE  Younger(rx[t].chunk)'
    BY DEF IInv, ChunkOK, EnableReset
  <2> DEFINE d == rx[t].chunk
  <2>1. Younger(d) /\ rx'[t].chunk = d
    BY DEF IInv, ChunkOK, EnableReset
  <2> QED
    BY <2>1 DEF Younger, EnableReset, net, read
<1>3. GapOK'
    BY DEF IInv, EnableReset, Told, GapOK
<1>4. SessionsOK' /\ FifoOK' /\ StallOK' /\ LostOK' /\ WokenOK'
    BY DEF IInv, EnableReset, SessionsOK, FifoOK, StallOK, LostOK, WokenOK, net, read
<1> QED
    BY <1>1, <1>2, <1>3, <1>4 DEF IInv

\* and the flag goes down; a reader that was told of a disconnection waits again.
LEMMA EnableClearStep ==
    ASSUME IInv, EnableClear
    PROVE  IInv'
<1>1. TypeOK'
    BY Zero DEF IInv, TypeOK, EnableClear, Told, net, read
<1>2. WokenOK'
    BY DEF IInv, EnableClear, WokenOK, LostOK, net
<1>3. GapOK'
    BY DEF IInv, EnableClear, Told, GapOK
<1>4. SessionsOK' /\ StallOK' /\ LostOK' /\ FifoOK' /\ ChunkOK'
    BY DEF IInv, EnableClear, SessionsOK, StallOK, Posted, LostOK, FifoOK, ChunkOK,
       Younger, net, read
<1> QED
    BY <1>1, <1>2, <1>3, <1>4 DEF IInv

\* A write that fails marks the stream disconnected and leaves the descriptor.
LEMMA WriteFailsStep ==
    ASSUME IInv, WriteFails
    PROVE  IInv'
<1>1. TypeOK'
    BY DEF IInv, WriteFails, TypeOK, net, app, gap, read
<1>2. SessionsOK' /\ LostOK' /\ StallOK' /\ WokenOK' /\ FifoOK' /\ ChunkOK' /\ GapOK'
    BY DEF IInv, WriteFails, SessionsOK, Holding, LostOK, StallOK, Posted, WokenOK,
       FifoOK, ChunkOK, Younger, GapOK, net, app, gap, read
<1> QED
    BY <1>1, <1>2 DEF IInv

\* The receive task reads the descriptor.
LEMMA RxCallStep ==
    ASSUME IInv, NEW s \in Sessions, RxCall(s)
    PROVE  IInv'
<1>r. /\ rx' \in [Sessions -> RxType]
      /\ rx'[s].pc \in {"mark", "recv"} /\ rx'[s].chunk = rx[s].chunk
      /\ \A t \in Sessions \ {s} : rx'[t] = rx[t]
    BY DEF IInv, TypeOK, RxCall, RxType, RxPlaces
<1>1. TypeOK'
    BY <1>r DEF IInv, RxCall, RxAt, TypeOK, shared, net, app, gap, read
<1>2. SessionsOK'
    BY <1>r DEF IInv, RxCall, RxAt, SessionsOK, Holding, Serving, shared, net, app
<1>3. LostOK'
    BY <1>r DEF IInv, RxCall, LostOK, shared, net
<1>4. WokenOK'
    BY <1>r DEF IInv, RxCall, WokenOK, shared, net, app
<1>5. ChunkOK'
    BY <1>r, ChunkKept DEF IInv, RxCall, RxAt, shared, net, read
<1>6. GapOK'
    BY <1>r DEF IInv, RxCall, RxAt, GapOK, shared, app, gap
<1>7. StallOK'
    BY <1>r DEF IInv, RxCall, RxAt, StallOK, Posted, shared, app
<1>8. FifoOK'
    BY DEF IInv, RxCall, FifoOK, shared, net, read
<1> QED
    BY <1>1, <1>2, <1>3, <1>4, <1>5, <1>6, <1>7, <1>8 DEF IInv

\* The bytes received are younger than everything in the FIFO.
LEMMA RxReceivesStep ==
    ASSUME IInv, NEW s \in Sessions, RxReceives(s)
    PROVE  IInv'
<1>n. PICK n \in 1 .. Least(ChunkMax, MaxBytes - received) :
        /\ received' = received + n
        /\ rx' = [rx EXCEPT ![s].pc = IF rx_enabled THEN "got" ELSE "call",
                            ![s].chunk = IF rx_enabled THEN [i \in 1 .. n |-> received + i] ELSE <<>>,
                            ![s].fd = 0]
    BY DEF RxReceives
<1>v. received' = received + n
    BY <1>n
<1>b. n \in Nat /\ 1 <= n /\ n <= ChunkMax /\ received \in Nat /\ received + n <= MaxBytes
    BY Sizes DEF IInv, TypeOK, Least
<1> DEFINE c == IF rx_enabled THEN [i \in 1 .. n |-> received + i] ELSE <<>>
<1>c. c \in Seq(Bytes) /\ Len(c) <= n /\ \A i \in 1 .. Len(c) : c[i] = received + i
  <2>1. CASE rx_enabled
    <3>1. \A i \in 1 .. n : received + i \in Bytes
        BY <1>b, Sizes
    <3>2. c \in Seq(Bytes) /\ Len(c) = n
        BY <2>1, <3>1, <1>b
    <3> QED
        BY <2>1, <3>2, <1>b
  <2>2. CASE ~rx_enabled
      BY <2>2, <1>b
  <2> QED
      BY <2>1, <2>2
<1>x. rx' = [rx EXCEPT ![s].pc = IF rx_enabled THEN "got" ELSE "call", ![s].chunk = c, ![s].fd = 0]
    BY <1>n
<1>e. ~rx_enabled => c = <<>>
    OBVIOUS
<1> HIDE DEF c
<1>r. /\ rx' \in [Sessions -> RxType]
      /\ rx'[s].pc \in {"got", "call"} /\ rx'[s].chunk = c
      /\ rx'[s].pc = "call" => c = <<>>
      /\ \A t \in Sessions \ {s} : rx'[t] = rx[t]
  <2> DEFINE p == IF rx_enabled THEN "got" ELSE "call"
  <2>1. p \in RxPlaces /\ p \in {"got", "call"} /\ (p = "call" => c = <<>>)
    BY <1>e DEF RxPlaces
  <2>2. rx' = [rx EXCEPT ![s].pc = p, ![s].chunk = c, ![s].fd = 0]
    BY <1>x
  <2> HIDE DEF p
  <2>3. /\ rx' \in [Sessions -> RxType] /\ rx'[s].pc = p /\ rx'[s].chunk = c
        /\ \A t \in Sessions \ {s} : rx'[t] = rx[t]
    BY <2>1, <2>2, <1>c, Zero DEF IInv, TypeOK, RxType
  <2> QED
    BY <2>1, <2>3
<1>s. s = sessions /\ \A t \in Sessions \ {s} : rx[t].pc # "got"
    BY DEF IInv, SessionsOK, RxReceives, RxAt, Holding, Serving
<1>1. TypeOK'
  <2>1. received' \in 0 .. MaxBytes
    BY <1>v, <1>b
  <2> QED
    BY <2>1, <1>r DEF IInv, TypeOK, RxReceives, shared, app, gap, read
<1>2. SessionsOK'
    BY <1>r DEF IInv, SessionsOK, Holding, Serving, RxReceives, RxAt, shared, app
<1>3. LostOK'
    BY <1>r DEF IInv, LostOK, RxReceives, RxAt, shared, app
<1>4. WokenOK'
    BY <1>r DEF IInv, WokenOK, RxReceives, RxAt, shared, app
<1>5. FifoOK'
  <2>1. received \in Nat /\ received' \in Nat /\ received <= received'
    BY <1>v, <1>b
  <2>2. \A i \in 1 .. Len(fifo) : fifo[i] \in Nat
    BY Sizes DEF IInv, TypeOK
  <2>3. last \in Nat
    BY DEF IInv, TypeOK
  <2>4. fifo' = fifo /\ last' = last /\ ordered' = ordered
    BY DEF RxReceives, shared, read
  <2>5. last <= received' /\ \A i \in 1 .. Len(fifo) : fifo[i] <= received'
    BY <2>1, <2>2, <2>3 DEF IInv, FifoOK
  <2> QED
    BY <2>4, <2>5 DEF IInv, FifoOK
<1>6. ChunkOK'
  <2>1. Younger(rx[s].chunk)'
    <3>1. fifo' = fifo /\ last' = last
      BY DEF RxReceives, shared, read
    <3>2. /\ last \in Nat /\ last <= received
          /\ \A i \in 1 .. Len(fifo) : fifo[i] \in Nat /\ fifo[i] <= received
      BY Sizes DEF IInv, TypeOK, FifoOK
    <3>3. Len(c) \in Nat
      BY <1>c, LenProperties
    <3>4. Len(c) <= ChunkMax
      BY <3>3, <1>b, <1>c, Sizes
    <3>5. \A i \in 1 .. Len(c) :
            /\ last < c[i] /\ c[i] <= received'
            /\ \A j \in 1 .. Len(fifo) : fifo[j] < c[i]
      BY <3>2, <3>3, <1>v, <1>b, <1>c
    <3>6. \A i, j \in 1 .. Len(c) : i < j => c[i] < c[j]
      BY <3>3, <1>b, <1>c
    <3> QED
      BY <3>1, <3>4, <3>5, <3>6, <1>r DEF Younger
  <2>2. Younger(<<>>)'
    BY Sizes DEF Younger
  <2> SUFFICES ASSUME NEW t \in Sessions
               PROVE  (rx'[t].pc # "got" => rx'[t].chunk = <<>>) /\ Younger(rx[t].chunk)'
    BY DEF ChunkOK
  <2>3. CASE t = s
    BY <2>1, <2>3, <1>r
  <2>4. CASE t # s
    BY <2>2, <2>4, <1>r, <1>s DEF IInv, ChunkOK
  <2> QED
    BY <2>3, <2>4
<1>7. GapOK'
    BY <1>r DEF IInv, GapOK, RxReceives, RxAt, shared, app, gap
<1>8. StallOK'
    BY <1>r DEF IInv, StallOK, Posted, RxReceives, RxAt, shared, app
<1> QED
    BY <1>1, <1>2, <1>3, <1>4, <1>5, <1>6, <1>7, <1>8 DEF IInv

\* The peer is gone: the task begins its cleanup.
LEMMA RxEndsStep ==
    ASSUME IInv, NEW s \in Sessions, RxEnds(s)
    PROVE  IInv'
<1>r. /\ rx' \in [Sessions -> RxType]
      /\ rx'[s].pc = "mark" /\ rx'[s].chunk = rx[s].chunk
      /\ \A t \in Sessions \ {s} : rx'[t] = rx[t]
    BY Zero DEF IInv, TypeOK, RxEnds, RxType, RxPlaces
<1>1. TypeOK'
    BY <1>r DEF IInv, RxEnds, TypeOK, shared, net, app, gap, read
<1>2. SessionsOK'
    BY <1>r DEF IInv, RxEnds, RxAt, SessionsOK, Holding, Serving, shared, net, app
<1>3. LostOK'
    BY <1>r DEF IInv, RxEnds, LostOK, shared, net
<1>4. WokenOK'
    BY <1>r DEF IInv, RxEnds, WokenOK, shared, net, app
<1>5. ChunkOK'
    BY <1>r, ChunkKept DEF IInv, RxEnds, RxAt, shared, net, read
<1>6. GapOK'
    BY <1>r DEF IInv, RxEnds, RxAt, GapOK, shared, app, gap
<1>7. StallOK'
    BY <1>r DEF IInv, RxEnds, RxAt, StallOK, Posted, shared, app
<1>8. FifoOK'
    BY DEF IInv, RxEnds, FifoOK, shared, net, read
<1> QED
    BY <1>1, <1>2, <1>3, <1>4, <1>5, <1>6, <1>7, <1>8 DEF IInv

\* What fits goes behind the FIFO, and what does not is the gap.
LEMMA RxPushStep ==
    ASSUME IInv, NEW s \in Sessions, RxPush(s)
    PROVE  IInv'
<1> DEFINE c == rx[s].chunk
           n == Least(Capacity - Len(fifo), Len(c))
<1>c. /\ c \in Seq(Bytes) /\ Len(c) \in Nat /\ fifo \in Seq(Bytes) /\ Len(fifo) \in Nat
      /\ \A i \in 1 .. Len(c) : c[i] \in Nat
      /\ \A i \in 1 .. Len(fifo) : fifo[i] \in Nat
  <2>1. c \in Seq(Bytes) /\ fifo \in Seq(Bytes)
    BY DEF IInv, TypeOK, RxType
  <2> HIDE DEF c
  <2> QED
    BY <2>1, LenProperties, ElementOfSeq, Sizes
<1>y. Len(fifo) <= Capacity /\ Younger(c)
    BY DEF IInv, TypeOK, ChunkOK
<1> HIDE DEF c
<1>n. /\ n \in 0 .. Len(c) /\ Len(fifo) + n <= Capacity
      /\ n < Len(c) => Len(fifo) + n = Capacity
    BY <1>y, Sizes DEF Least
<1>p. /\ fifo' = fifo \o SubSeq(c, 1, n)
      /\ Dropped(SubSeq(c, n + 1, Len(c)))
      /\ rx' = [rx EXCEPT ![s].pc = IF n < Len(c) THEN "flag" ELSE "post", ![s].chunk = <<>>]
    BY DEF RxPush, c
<1> HIDE DEF n
<1>f. /\ fifo' \in Seq(Bytes) /\ Len(fifo') = Len(fifo) + n
      /\ \A i \in 1 .. Len(fifo) + n : fifo'[i] = IF i <= Len(fifo) THEN fifo[i] ELSE c[i - Len(fifo)]
    BY <1>c, <1>n, <1>p, PushedSeq
<1>m. missing' = (IF missing = 0 /\ n < Len(c) THEN c[n + 1] ELSE missing) /\ late' = late
  <2> DEFINE r == SubSeq(c, n + 1, Len(c))
  <2>1. (r # <<>> <=> n < Len(c)) /\ (n < Len(c) => r[1] = c[n + 1])
    BY <1>c, <1>n, RestSeq
  <2> HIDE DEF r
  <2>2. missing' = (IF missing = 0 /\ r # <<>> THEN r[1] ELSE missing) /\ late' = late
    BY <1>p DEF Dropped, r
  <2> QED
    BY <2>1, <2>2
<1>r. /\ rx' \in [Sessions -> RxType] /\ rx'[s].chunk = <<>>
      /\ rx'[s].pc = IF n < Len(c) THEN "flag" ELSE "post"
      /\ \A t \in Sessions \ {s} : rx'[t] = rx[t]
  <2>1. <<>> \in Seq(Bytes)
    BY EmptySeq
  <2> DEFINE p == IF n < Len(c) THEN "flag" ELSE "post"
  <2>2. p \in RxPlaces
    BY DEF RxPlaces
  <2>3. rx' = [rx EXCEPT ![s].pc = p, ![s].chunk = <<>>]
    BY <1>p
  <2> HIDE DEF p
  <2>4. /\ rx' \in [Sessions -> RxType] /\ rx'[s].chunk = <<>> /\ rx'[s].pc = p
        /\ \A t \in Sessions \ {s} : rx'[t] = rx[t]
    BY <2>1, <2>2, <2>3 DEF IInv, TypeOK, RxType
  <2> QED
    BY <2>4 DEF p
<1>s. s = sessions /\ \A t \in Sessions : t # s => rx[t].pc \notin Holding
    BY DEF IInv, SessionsOK, RxPush, RxAt, Holding, Serving
<1>1. TypeOK'
  <2>1. Len(fifo') <= Capacity
    BY <1>n, <1>f
  <2>2. missing' \in 0 .. MaxBytes
    <3>1. n < Len(c) => c[n + 1] \in Bytes
      BY <1>c, <1>n, ElementOfSeq
    <3> QED
      BY <3>1, <1>m, Sizes DEF IInv, TypeOK
  <2> QED
    BY <2>1, <2>2, <1>f, <1>m, <1>r DEF IInv, TypeOK, RxPush, net, app, read
<1>2. SessionsOK'
    BY <1>r DEF IInv, SessionsOK, Holding, Serving, RxPush, RxAt, app, net
<1>3. LostOK'
    BY <1>r DEF IInv, LostOK, RxPush, net
<1>4. WokenOK'
    BY <1>r DEF IInv, WokenOK, RxPush, app, net
<1>5. FifoOK'
  <2>1. \A i \in 1 .. Len(fifo') : i <= Len(fifo) \/ i - Len(fifo) \in 1 .. n
    BY <1>c, <1>n, <1>f
  <2>2. \A i \in 1 .. Len(fifo') : last < fifo'[i] /\ fifo'[i] <= received
    <3> TAKE i \in 1 .. Len(fifo')
    <3>1. CASE i <= Len(fifo)
      BY <3>1, <1>f DEF IInv, FifoOK
    <3>2. CASE i > Len(fifo)
      <4>1. fifo'[i] = c[i - Len(fifo)] /\ i - Len(fifo) \in 1 .. Len(c)
        BY <3>2, <2>1, <1>c, <1>n, <1>f
      <4> QED
        BY <4>1, <1>y DEF Younger
    <3> QED
      BY <3>1, <3>2, <1>c, <1>f
  <2>3. ASSUME NEW i \in 1 .. Len(fifo'), NEW j \in 1 .. Len(fifo'), i < j
        PROVE  fifo'[i] < fifo'[j]
    <3>1. CASE j <= Len(fifo)
      BY <2>3, <3>1, <1>f DEF IInv, FifoOK
    <3>2. CASE j > Len(fifo) /\ i <= Len(fifo)
      <4>1. /\ fifo'[i] = fifo[i] /\ fifo'[j] = c[j - Len(fifo)]
            /\ i \in 1 .. Len(fifo) /\ j - Len(fifo) \in 1 .. Len(c)
        BY <3>2, <1>c, <1>n, <1>f
      <4> QED
        BY <4>1, <1>y DEF Younger
    <3>3. CASE j > Len(fifo) /\ i > Len(fifo)
      <4>1. /\ fifo'[i] = c[i - Len(fifo)] /\ fifo'[j] = c[j - Len(fifo)]
            /\ i - Len(fifo) \in 1 .. Len(c) /\ j - Len(fifo) \in 1 .. Len(c)
            /\ i - Len(fifo) < j - Len(fifo)
        BY <2>3, <3>3, <1>c, <1>n, <1>f
      <4> QED
        BY <4>1, <1>y DEF Younger
    <3> QED
      BY <3>1, <3>2, <3>3, <1>c, <1>n, <1>f
  <2> QED
    BY <2>2, <2>3 DEF IInv, FifoOK, RxPush, net, read
<1>6. ChunkOK'
  <2>1. Younger(<<>>)'
    BY Sizes DEF Younger
  <2> QED
    BY <2>1, <1>r, <1>s DEF IInv, ChunkOK, Holding, Serving
<1>7. GapOK'
  <2>1. missing = 0 \/ rx_overflow_flag
    BY <1>s DEF IInv, GapOK, RxPush, RxAt, Holding, Serving
  <2>2. ASSUME missing' # 0, ~rx_overflow_flag
        PROVE  /\ \E t \in Sessions : rx'[t].pc = "flag"
               /\ \A i \in 1 .. Len(fifo') : fifo'[i] < missing'
    <3>1. n < Len(c) /\ missing' = c[n + 1]
      BY <2>1, <2>2, <1>m
    <3>2. \A i \in 1 .. Len(fifo') : fifo'[i] < c[n + 1]
      BY <3>1, <1>n, <1>f, <1>y DEF Younger
    <3> QED
      BY <3>1, <3>2, <1>r
  <2> QED
    BY <2>1, <2>2, <1>m DEF IInv, GapOK, RxPush, app
<1>8. StallOK'
  <2>1. CASE n = Len(c)
    BY <2>1, <1>r DEF StallOK, Posted
  <2>2. CASE n < Len(c) /\ ChunkMax <= Capacity
    <3>1. fifo # <<>>
      BY <2>2, <1>n, <1>y, Sizes DEF Younger
    <3>2. \A t \in Sessions : rx[t].pc # "post"
      BY <1>s DEF RxPush, RxAt, Holding, Serving
    <3> QED
      BY <3>1, <3>2 DEF IInv, StallOK, Posted, RxPush, app
  <2> QED
    BY <2>1, <2>2, <1>n DEF StallOK
<1> QED
    BY <1>1, <1>2, <1>3, <1>4, <1>5, <1>6, <1>7, <1>8 DEF IInv

\* The gap is flagged.
LEMMA RxFlagsStep ==
    ASSUME IInv, NEW s \in Sessions, RxFlags(s)
    PROVE  IInv'
<1>r. /\ rx' \in [Sessions -> RxType]
      /\ rx'[s].pc = "call" /\ rx'[s].chunk = rx[s].chunk
      /\ \A t \in Sessions \ {s} : rx'[t] = rx[t]
    BY RxGoesFacts DEF IInv, RxFlags, RxPlaces
<1>1. TypeOK'
    BY <1>r DEF IInv, RxFlags, TypeOK, net, app, gap, read
<1>2. SessionsOK'
    BY <1>r DEF IInv, RxFlags, RxAt, SessionsOK, Holding, Serving, net, app
<1>3. LostOK'
    BY <1>r DEF IInv, RxFlags, LostOK, net
<1>4. WokenOK'
    BY <1>r DEF IInv, RxFlags, WokenOK, net, app
<1>5. ChunkOK'
    BY <1>r, ChunkKept DEF IInv, RxFlags, RxAt, net, read
<1>6. StallOK'
    BY <1>r DEF IInv, RxFlags, RxAt, StallOK, Posted, app
<1>7. GapOK' /\ FifoOK'
    BY DEF IInv, RxFlags, GapOK, FifoOK, net, app, gap, read
<1> QED
    BY <1>1, <1>2, <1>3, <1>4, <1>5, <1>6, <1>7 DEF IInv

\* The reader gets a unit for the chunk.
LEMMA RxPostsStep ==
    ASSUME IInv, NEW s \in Sessions, RxPosts(s)
    PROVE  IInv'
<1>r. /\ rx' \in [Sessions -> RxType]
      /\ rx'[s].pc = "call" /\ rx'[s].chunk = rx[s].chunk
      /\ \A t \in Sessions \ {s} : rx'[t] = rx[t]
    BY RxGoesFacts DEF IInv, RxPosts, RxPlaces
<1>1. TypeOK'
    BY <1>r DEF IInv, RxPosts, TypeOK, net, app, gap, read
<1>2. SessionsOK'
    BY <1>r DEF IInv, RxPosts, RxAt, SessionsOK, Holding, Serving, net, app
<1>3. LostOK'
    BY <1>r DEF IInv, RxPosts, LostOK, net
<1>4. WokenOK'
    BY DEF IInv, RxPosts, TypeOK, WokenOK
<1>5. ChunkOK'
    BY <1>r, ChunkKept DEF IInv, RxPosts, RxAt, net, read
<1>6. GapOK'
    BY <1>r DEF IInv, RxPosts, RxAt, GapOK, app, gap
<1>7. StallOK'
    BY DEF IInv, RxPosts, TypeOK, StallOK, Posted
<1>8. FifoOK'
    BY DEF IInv, RxPosts, FifoOK, net, app, gap, read
<1> QED
    BY <1>1, <1>2, <1>3, <1>4, <1>5, <1>6, <1>7, <1>8 DEF IInv

\* The cleanup marks the stream disconnected,
LEMMA RxMarksStep ==
    ASSUME IInv, NEW s \in Sessions, RxMarks(s)
    PROVE  IInv'
<1>r. /\ rx' \in [Sessions -> RxType]
      /\ rx'[s].pc = "closefd" /\ rx'[s].chunk = rx[s].chunk
      /\ \A t \in Sessions \ {s} : rx'[t] = rx[t]
    BY RxGoesFacts DEF IInv, RxMarks, RxPlaces
<1>1. TypeOK'
    BY <1>r, Zero DEF IInv, RxMarks, TypeOK, net, app, gap, read
<1>2. SessionsOK'
    BY <1>r DEF IInv, RxMarks, RxAt, SessionsOK, Holding, Serving, net, app
<1>3. WokenOK'
    BY <1>r DEF IInv, RxMarks, WokenOK, net, app
<1>4. ChunkOK'
    BY <1>r, ChunkKept DEF IInv, RxMarks, RxAt, net, read
<1>5. GapOK'
    BY <1>r DEF IInv, RxMarks, RxAt, GapOK, app, gap
<1>6. StallOK'
    BY <1>r DEF IInv, RxMarks, RxAt, StallOK, Posted, app
<1>7. LostOK' /\ FifoOK'
    BY DEF IInv, RxMarks, LostOK, FifoOK, net, app, gap, read
<1> QED
    BY <1>1, <1>2, <1>3, <1>4, <1>5, <1>6, <1>7 DEF IInv

\* gives the descriptor up,
LEMMA RxClosesFdStep ==
    ASSUME IInv, NEW s \in Sessions, RxClosesFd(s)
    PROVE  IInv'
<1>r. /\ rx' \in [Sessions -> RxType]
      /\ rx'[s].pc = "closelisten" /\ rx'[s].chunk = rx[s].chunk
      /\ \A t \in Sessions \ {s} : rx'[t] = rx[t]
    BY RxGoesFacts DEF IInv, RxClosesFd, RxPlaces
<1>1. TypeOK'
    BY <1>r, Zero DEF IInv, RxClosesFd, TypeOK, net, app, gap, read
<1>2. SessionsOK'
    BY <1>r DEF IInv, RxClosesFd, RxAt, SessionsOK, Holding, Serving, net, app
<1>3. LostOK'
    BY <1>r DEF IInv, RxClosesFd, RxAt, LostOK, net
<1>4. WokenOK'
    BY <1>r DEF IInv, RxClosesFd, WokenOK, net, app
<1>5. ChunkOK'
    BY <1>r, ChunkKept DEF IInv, RxClosesFd, RxAt, net, read
<1>6. GapOK'
    BY <1>r DEF IInv, RxClosesFd, RxAt, GapOK, app, gap
<1>7. StallOK'
    BY <1>r DEF IInv, RxClosesFd, RxAt, StallOK, Posted, app
<1>8. FifoOK'
    BY DEF IInv, RxClosesFd, FifoOK, net, app, gap, read
<1> QED
    BY <1>1, <1>2, <1>3, <1>4, <1>5, <1>6, <1>7, <1>8 DEF IInv

\* closes the listening socket
LEMMA RxClosesListenStep ==
    ASSUME IInv, NEW s \in Sessions, RxClosesListen(s)
    PROVE  IInv'
<1>r. /\ rx' \in [Sessions -> RxType]
      /\ rx'[s].pc = "wake" /\ rx'[s].chunk = rx[s].chunk
      /\ \A t \in Sessions \ {s} : rx'[t] = rx[t]
    BY RxGoesFacts DEF IInv, RxClosesListen, RxPlaces
<1>1. TypeOK'
    BY <1>r, Zero DEF IInv, RxClosesListen, TypeOK, net, app, gap, read
<1>2. SessionsOK'
    BY <1>r DEF IInv, RxClosesListen, RxAt, SessionsOK, Holding, Serving, net, app
<1>3. LostOK'
    BY <1>r DEF IInv, RxClosesListen, RxAt, LostOK, net
<1>4. WokenOK'
    BY <1>r DEF IInv, RxClosesListen, WokenOK, net, app
<1>5. ChunkOK'
    BY <1>r, ChunkKept DEF IInv, RxClosesListen, RxAt, net, read
<1>6. GapOK'
    BY <1>r DEF IInv, RxClosesListen, RxAt, GapOK, app, gap
<1>7. StallOK'
    BY <1>r DEF IInv, RxClosesListen, RxAt, StallOK, Posted, app
<1>8. FifoOK'
    BY DEF IInv, RxClosesListen, FifoOK, net, app, gap, read
<1> QED
    BY <1>1, <1>2, <1>3, <1>4, <1>5, <1>6, <1>7, <1>8 DEF IInv

\* and wakes the reader.
LEMMA RxWakesStep ==
    ASSUME IInv, NEW s \in Sessions, RxWakes(s)
    PROVE  IInv'
<1>r. /\ rx' \in [Sessions -> RxType]
      /\ rx'[s].pc = "ended" /\ rx'[s].chunk = rx[s].chunk
      /\ \A t \in Sessions \ {s} : rx'[t] = rx[t]
    BY RxGoesFacts DEF IInv, RxWakes, RxPlaces
<1>1. TypeOK'
    BY <1>r DEF IInv, RxWakes, TypeOK, net, app, gap, read
<1>2. SessionsOK'
    BY <1>r DEF IInv, RxWakes, RxAt, SessionsOK, Holding, Serving, net, app
<1>3. LostOK'
    BY <1>r DEF IInv, RxWakes, RxAt, LostOK, net
<1>4. WokenOK'
    BY DEF IInv, RxWakes, TypeOK, WokenOK
<1>5. ChunkOK'
    BY <1>r, ChunkKept DEF IInv, RxWakes, RxAt, net, read
<1>6. GapOK'
    BY <1>r DEF IInv, RxWakes, RxAt, GapOK, app, gap
<1>7. StallOK'
    BY DEF IInv, RxWakes, TypeOK, StallOK, Posted
<1>8. FifoOK'
    BY DEF IInv, RxWakes, FifoOK, net, app, gap, read
<1> QED
    BY <1>1, <1>2, <1>3, <1>4, <1>5, <1>6, <1>7, <1>8 DEF IInv

\* A reader that took a unit is about to look at the stream.
LEMMA ReaderWakesStep ==
    ASSUME IInv, ReaderWakes
    PROVE  IInv'
<1>1. TypeOK'
    BY DEF IInv, ReaderWakes, TypeOK, net, gap, read
<1>2. WokenOK' /\ GapOK' /\ StallOK' /\ SessionsOK' /\ LostOK' /\ FifoOK' /\ ChunkOK'
    BY DEF IInv, ReaderWakes, WokenOK, GapOK, StallOK, SessionsOK, LostOK, FifoOK,
       ChunkOK, Younger, net, gap, read
<1> QED
    BY <1>1, <1>2 DEF IInv

\* The reader learns of a disconnection, and with it of any gap.
LEMMA ReadDisconnectedStep ==
    ASSUME IInv, ReadDisconnected
    PROVE  IInv'
<1>1. TypeOK'
    BY Zero DEF IInv, TypeOK, ReadDisconnected, Told, net, read
<1>2. GapOK'
    BY DEF IInv, ReadDisconnected, Told, GapOK
<1>3. WokenOK' /\ StallOK' /\ SessionsOK' /\ LostOK' /\ FifoOK' /\ ChunkOK'
    BY DEF IInv, ReadDisconnected, WokenOK, StallOK, SessionsOK, LostOK, FifoOK,
       ChunkOK, Younger, net, read
<1> QED
    BY <1>1, <1>2, <1>3 DEF IInv

\* The reader goes on to test the overflow flag.
LEMMA ReadConnectedStep ==
    ASSUME IInv, ReadConnected
    PROVE  IInv'
<1>1. TypeOK'
    BY DEF IInv, ReadConnected, TypeOK, shared, net, gap, read
<1>2. WokenOK'
    BY DEF IInv, ReadConnected, WokenOK, LostOK, net
<1>3. GapOK' /\ StallOK' /\ SessionsOK' /\ LostOK' /\ FifoOK' /\ ChunkOK'
    BY DEF IInv, ReadConnected, GapOK, StallOK, SessionsOK, LostOK, FifoOK, ChunkOK,
       Younger, shared, net, gap, read
<1> QED
    BY <1>1, <1>2, <1>3 DEF IInv

\* A reader that goes on to pop has found the flag down.
LEMMA ReadCheckedStep ==
    ASSUME IInv, ReadChecked
    PROVE  IInv'
<1>1. TypeOK'
    BY DEF IInv, ReadChecked, TypeOK, shared, net, gap, read
<1>2. WokenOK' /\ GapOK' /\ StallOK' /\ SessionsOK' /\ LostOK' /\ FifoOK' /\ ChunkOK'
    BY DEF IInv, ReadChecked, WokenOK, GapOK, StallOK, SessionsOK, LostOK, FifoOK,
       ChunkOK, Younger, shared, net, gap, read
<1> QED
    BY <1>1, <1>2 DEF IInv

\* The reader learns of the gap.
LEMMA ReadOverflowStep ==
    ASSUME IInv, ReadOverflow
    PROVE  IInv'
<1>1. TypeOK'
    BY Zero DEF IInv, TypeOK, ReadOverflow, Told, net, read
<1>2. GapOK'
    BY DEF IInv, ReadOverflow, Told, GapOK
<1>3. WokenOK' /\ StallOK' /\ SessionsOK' /\ LostOK' /\ FifoOK' /\ ChunkOK'
    BY DEF IInv, ReadOverflow, WokenOK, StallOK, SessionsOK, LostOK, FifoOK, ChunkOK,
       Younger, net, read
<1> QED
    BY <1>1, <1>2, <1>3 DEF IInv

\* The oldest bytes go to the reader; it waits only beside an empty FIFO.
LEMMA ReadPopStep ==
    ASSUME IInv, ReadPop
    PROVE  IInv'
<1> DEFINE n == Least(BufLen, Len(fifo))
<1>c. fifo \in Seq(Bytes) /\ Len(fifo) \in Nat /\ \A i \in 1 .. Len(fifo) : fifo[i] \in Nat
    BY Sizes DEF IInv, TypeOK
<1>n. n \in 0 .. Len(fifo) /\ (n = 0 => Len(fifo) = 0)
    BY Sizes DEF Least
<1>p. /\ reader = "pop" /\ last' = (IF n = 0 THEN last ELSE fifo[n])
      /\ ordered' = (ordered /\ \A i \in 1 .. n : fifo[i] > IF i = 1 THEN last ELSE fifo[i - 1])
      /\ fifo' = SubSeq(fifo, n + 1, Len(fifo))
      /\ late' = (IF missing # 0 /\ \E i \in 1 .. n : fifo[i] > missing THEN late + 1 ELSE late)
      /\ reader' = (IF n = 0 THEN "wait" ELSE "read")
      /\ missing' = missing
    BY DEF ReadPop
<1> HIDE DEF n
<1>f. /\ fifo' \in Seq(Bytes) /\ Len(fifo') = Len(fifo) - n
      /\ \A i \in 1 .. Len(fifo) - n : fifo'[i] = fifo[n + i]
    BY <1>c, <1>n, <1>p, RestSeq
<1>1. TypeOK'
  <2>1. Len(fifo') <= Capacity
    BY <1>n, <1>f, Sizes DEF IInv, TypeOK
  <2>2. last' \in 0 .. MaxBytes
    <3>1. n # 0 => fifo[n] \in Bytes
      BY <1>c, <1>n, ElementOfSeq
    <3> QED
      BY <3>1, <1>p, Sizes DEF IInv, TypeOK
  <2>3. late' \in Nat
    BY <1>p DEF IInv, TypeOK
  <2>4. ordered' \in BOOLEAN /\ reader' \in {"wait", "read"}
    BY <1>p
  <2> QED
    BY <2>1, <2>2, <1>f DEF IInv, TypeOK, ReadPop, net
<1>2. FifoOK'
  <2> USE DEF FifoOK
  <2>0. last \in Nat /\ received \in Nat
    BY DEF IInv, TypeOK
  <2>1. ASSUME NEW i \in 1 .. n
        PROVE  fifo[i] > IF i = 1 THEN last ELSE fifo[i - 1]
    <3>1. CASE i = 1
      BY <1>n DEF IInv
    <3>2. CASE i # 1
      <4>1. i \in 1 .. Len(fifo) /\ i - 1 \in 1 .. Len(fifo) /\ i - 1 < i
        BY <3>2, <1>c, <1>n
      <4> QED
        BY <4>1 DEF IInv
    <3> QED
      BY <3>1, <3>2
  <2>2. ordered'
    BY <2>1, <1>p DEF IInv
  <2>3. last' <= received
    BY <1>n, <1>p DEF IInv
  <2>4. \A i \in 1 .. Len(fifo') : n + i \in 1 .. Len(fifo) /\ fifo'[i] = fifo[n + i]
    BY <1>c, <1>n, <1>f
  <2>5. \A i \in 1 .. Len(fifo') : last' < fifo'[i] /\ fifo'[i] <= received
    <3>1. CASE n = 0
      BY <3>1, <1>p DEF IInv
    <3>2. CASE n # 0
      BY <1>n, <1>p DEF IInv
    <3> QED
      BY <3>1, <3>2
  <2>6. \A i, j \in 1 .. Len(fifo') : i < j => fifo'[i] < fifo'[j]
    <3> TAKE i, j \in 1 .. Len(fifo')
    <3>1. i < j => n + i < n + j
      BY <1>c, <1>n, <1>f
    <3> QED
      BY <3>1, <2>4 DEF IInv
  <2> QED
    BY <2>2, <2>3, <2>5, <2>6 DEF ReadPop, net
<1>3. ChunkOK'
  <2> SUFFICES ASSUME NEW t \in Sessions
               PROVE  Younger(rx[t].chunk)'
    BY DEF IInv, ChunkOK, ReadPop
  <2> DEFINE d == rx[t].chunk
  <2>1. Younger(d) /\ rx'[t].chunk = d
    BY DEF IInv, ChunkOK, ReadPop
  <2> HIDE DEF d
  <2>2. \A i \in 1 .. Len(fifo') : n + i \in 1 .. Len(fifo) /\ fifo'[i] = fifo[n + i]
    BY <1>c, <1>n, <1>f
  <2>3. n = 0 \/ n \in 1 .. Len(fifo)
    BY <1>c, <1>n
  <2>4. \A i \in 1 .. Len(d) : last' < d[i]
    BY <2>1, <2>3, <1>p DEF Younger
  <2>5. received' = received
    BY DEF ReadPop, net
  <2> QED
    BY <2>1, <2>2, <2>4, <2>5 DEF Younger
<1>4. GapOK'
  <2>1. late = 0
    BY <1>p DEF IInv, GapOK
  <2>2. CASE missing # 0 /\ ~rx_overflow_flag
    <3>1. \A i \in 1 .. Len(fifo) : fifo[i] < missing
      BY <2>2 DEF IInv, GapOK
    <3>2. \A i \in 1 .. Len(fifo') : fifo'[i] < missing
      BY <3>1, <1>c, <1>n, <1>f
    <3>3. ~ \E i \in 1 .. n : fifo[i] > missing
      BY <3>1, <1>c, <1>n DEF IInv, TypeOK
    <3>4. late' = 0 /\ missing' = missing
      BY <2>1, <3>3, <1>p
    <3> QED
      BY <2>2, <3>2, <3>4 DEF IInv, GapOK, ReadPop
  <2>3. CASE missing = 0 \/ rx_overflow_flag
    BY <2>3 DEF IInv, GapOK, ReadPop
  <2> QED
    BY <2>2, <2>3
<1>5. StallOK'
  <2>1. n = 0 => Len(fifo') = 0
    BY <1>c, <1>n, <1>f
  <2>2. n = 0 => fifo' = <<>>
    BY <2>1, <1>f, EmptySeq
  <2> QED
    BY <2>2, <1>p DEF StallOK
<1>6. WokenOK' /\ SessionsOK' /\ LostOK'
    BY DEF IInv, WokenOK, ReadPop, SessionsOK, LostOK, net
<1> QED
    BY <1>1, <1>2, <1>3, <1>4, <1>5, <1>6 DEF IInv

\* dtiox_linux_tcp_create establishes the invariant.
LEMMA TcpInit == Init => IInv
<1> SUFFICES ASSUME Init
             PROVE  IInv
    OBVIOUS
<1>1. rx \in [Sessions -> RxType]
  <2>1. [pc |-> "none", fd |-> 0, chunk |-> <<>>] \in RxType
    BY Zero DEF RxType, RxPlaces
  <2> QED
    BY <2>1 DEF Init
<1>2. fifo \in Seq(Bytes) /\ Len(fifo) = 0
    BY DEF Init
<1>3. TypeOK
  <2>1. 0 \in 0 .. MaxEnables /\ 0 <= Capacity
    BY Sizes, BoundsAssumption
  <2> QED
    BY <1>1, <1>2, <2>1, Zero DEF Init, TypeOK
<1>4. SessionsOK /\ LostOK /\ WokenOK
    BY DEF Init, SessionsOK, Holding, Serving, LostOK, WokenOK
<1>5. FifoOK
    BY <1>2 DEF Init, FifoOK
<1>6. ChunkOK
    BY Sizes DEF Init, ChunkOK, Younger
<1>7. GapOK /\ StallOK
    BY DEF Init, GapOK, StallOK
<1> QED
    BY <1>3, <1>4, <1>5, <1>6, <1>7 DEF IInv

\* Every step of the owner, the reader, the receive tasks and the peers keeps it.
LEMMA TcpStep ==
    ASSUME IInv, [Next]_vars
    PROVE  IInv'
<1>1. CASE Owner
    BY <1>1, AttachCheckStep, AttachConnectsStep, AttachFailsStep, AttachTaskFailsStep,
       DetachStep, WriteFailsStep, EnableSetStep, EnableResetStep, EnableClearStep DEF Owner
<1>2. CASE Reader
    BY <1>2, ReaderWakesStep, ReadDisconnectedStep, ReadConnectedStep, ReadOverflowStep,
       ReadCheckedStep, ReadPopStep DEF Reader
<1>3. ASSUME NEW s \in Sessions, Rx(s)
      PROVE  IInv'
    BY <1>3, RxCallStep, RxReceivesStep, RxEndsStep, RxPushStep, RxFlagsStep, RxPostsStep,
       RxMarksStep, RxClosesFdStep, RxClosesListenStep, RxWakesStep DEF Rx
<1>4. ASSUME NEW s \in Sessions, PeerCloses(s)
      PROVE  IInv'
    BY <1>4, PeerClosesStep
<1>5. CASE UNCHANGED vars
  <2> USE <1>5 DEF vars, shared, net, app, read, gap
  <2>1. TypeOK' /\ SessionsOK' /\ LostOK' /\ WokenOK'
    BY DEF IInv, TypeOK, SessionsOK, LostOK, WokenOK
  <2>2. FifoOK' /\ ChunkOK' /\ GapOK' /\ StallOK'
    BY DEF IInv, FifoOK, ChunkOK, Younger, GapOK, StallOK, Posted
  <2> QED
    BY <2>1, <2>2 DEF IInv
<1> QED
    BY <1>1, <1>2, <1>3, <1>4, <1>5 DEF Next

\* What the owner, the receive tasks and the reader know of each other stays true,
\* for every capacity, chunk size, buffer length and number of sessions.
THEOREM StreamCorrect == Spec => []IInv
<1>1. IInv /\ [Next]_vars => IInv'
    BY TcpStep
<1> QED
    BY <1>1, TcpInit, PTL DEF Spec

\* Bytes reach the reader in the order in which they were received, none twice,
\* over any number of reconnections.
THEOREM DeliveredInOrderHolds == Spec => []DeliveredInOrder
<1>1. IInv => DeliveredInOrder
    BY DEF IInv, FifoOK, DeliveredInOrder
<1> QED
    BY <1>1, StreamCorrect, PTL

\* At most one read returns bytes from beyond a gap before the overflow error.
THEOREM GapReportedHolds == Spec => []GapReported
<1>1. IInv => GapReported
    BY DEF IInv, GapOK, GapReported
<1> QED
    BY <1>1, StreamCorrect, PTL

\* The cleanup of one session's receive task leaves the next session alone.
THEOREM LiveSessionConnectedHolds == Spec => []LiveSessionConnected
<1>1. IInv => LiveSessionConnected
    BY DEF IInv, SessionsOK, Holding, Serving, LiveSessionConnected
<1> QED
    BY <1>1, StreamCorrect, PTL

\* A reader that waits when the connection is gone has the unit that wakes it.
THEOREM DisconnectToldHolds == Spec => []DisconnectTold
<1>1. IInv => DisconnectTold
  <2> SUFFICES ASSUME IInv, sessions > 0, RxAt(sessions, "ended"), reader = "wait"
               PROVE  sem > 0
    BY DEF DisconnectTold
  <2>1. sessions \in Sessions
    BY Sizes DEF IInv, TypeOK, Fds, Sessions
  <2> QED
    BY <2>1 DEF IInv, WokenOK, RxAt
<1> QED
    BY <1>1, StreamCorrect, PTL

\* When the FIFO holds the largest chunk, a reader is not left waiting beside bytes.
THEOREM NoStallHolds ==
    ASSUME ChunkMax <= Capacity
    PROVE  Spec => []NoStall
<1>1. IInv => NoStall
    BY DEF IInv, StallOK, Posted, NoStall
<1> QED
    BY <1>1, StreamCorrect, PTL
=============================================================================
