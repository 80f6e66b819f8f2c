---------------------------- MODULE ModbusTcpProofs ----------------------------
(***************************************************************************)
(* Proofs about the Modbus TCP byte streams (dtiox_linux_modbus_tcp_*.c),  *)
(* for any sizes of blobs, FIFOs and buffers and any number of bytes,      *)
(* connections and calls.                                                  *)
(*                                                                         *)
(* BaseInv says that the lock keeps one request at a time under way on the *)
(* connection that master and slave share.  On top of it MasterInv follows *)
(* a blob from the slave's registers through the three requests of a round *)
(* to the master's FIFO, and SlaveInv a blob of the master to the slave's. *)
(* Each needs that the receiver's max_blob_bytes is no smaller than the    *)
(* sender's: otherwise the receiver cuts a longer blob off and says so to  *)
(* nobody.                                                                 *)
(***************************************************************************)
EXTENDS ModbusTcp, SequenceTheorems, TLAPS

(***************************************************************************)
(* The inductive invariant: one request at a time                          *)
(***************************************************************************)
\* Connection 1, the only one that the slave serves: the requests and answers
\* under way, and whether an answer is overdue.
Queries == IF conns = <<>> THEN <<>> ELSE conns[1].queries
Answers == IF conns = <<>> THEN <<>> ELSE conns[1].answers
Late == IF conns = <<>> THEN FALSE ELSE conns[1].late

\* The master uses that connection.
Live == m.conn = 1 /\ ~Late

\* The request whose answer the holder of the master's lock waits for.
Asked == IF rx \in {"poll", "header", "data"} THEN <<Query(rx, <<>>)>>
         ELSE IF app = "put" THEN <<Query("put", blob)>> ELSE <<>>

\* The slave answers on no other connection.
Quiet == \A i \in 2 .. Len(conns) : conns[i].answers = <<>>

ConnsOK ==
    /\ m.conn \in 0 .. Len(conns)
    /\ ~m.connected => m.conn = 0
    /\ m.conn = 1 /\ Late => rx = "ended"
    /\ Quiet
    /\ task \in {"off", "accept"} => session = 0
    /\ task \in {"receive", "process"} => session = 1
    /\ session # 0 => session = 1 /\ conns # <<>>

\* The lock is held over a round of the receive task and over a write.
LockOK == (rx \in {"poll", "header", "data"} <=> lock = "rx") /\ (app = "put" <=> lock = "app")

\* What is under way is the request that the holder of the lock waits for, or
\* its answer.
WireOK ==
    Live => \/ Queries = Asked /\ Answers = <<>>
            \/ Queries = <<>> /\ Len(Answers) <= 1 /\ (Answers # <<>> => Asked # <<>>)

\* FIFOs stay within their capacity, and bytes that did not fit are flagged.
RoomOK ==
    /\ Len(m.fifo) <= MasterCap /\ Len(s.fifo) <= SlaveCap
    /\ m.overflow \/ mlost = {}
    /\ s.overflow \/ slost = {}

\* Blobs on their way to the slave are no longer than the master's
\* max_blob_bytes.
BlobsOK ==
    /\ app = "idle" => blob = <<>>
    /\ ToSet(blob) \subseteq 1 .. put /\ Len(blob) <= MasterMax /\ Len(regs.m2s) <= MasterMax
    /\ \A i \in 1 .. Len(Queries) :
          Len(Queries[i].blob) <= MasterMax /\ (Queries[i].op # "put" => Queries[i].blob = <<>>)

\* The slave's registers and its pending blob.
RegsOK ==
    /\ Len(s.tx) <= SlaveMax /\ Len(regs.data) <= SlaveMax
    /\ s.pending \/ s.tx = <<>>
    /\ task = "off" => ~s.enabled /\ s.tx = <<>> /\ regs.data = <<>> /\ regs.m2s = <<>> /\ slost = {}
    /\ conns = <<>> => regs.data = <<>> /\ regs.m2s = <<>>
    /\ task \in {"off", "accept", "receive"} => regs.cmd = "none"
    /\ regs.len # 0 => regs.len = Len(regs.data)

BaseInv == TypeOK /\ ConnsOK /\ LockOK /\ WireOK /\ RoomOK /\ BlobsOK /\ RegsOK

(***************************************************************************)
(* The inductive invariant: from the slave to the master                   *)
(***************************************************************************)
\* The bytes that were read or wait for the reader, those that were delivered
\* in any way, and those of the blob in the slave's registers.
Read == ToSet(mread) \union ToSet(m.fifo)
Delivered == Read \union mlost \union mgone
Data == ToSet(regs.data)

\* The blob in the registers was delivered; or it is behind all that was read.
Settled == Data \subseteq Delivered
Ahead == \A a \in Read, b \in Data : a < b

\* The slave has answered a poll and not yet prepared the response.
Polling == task = "process" /\ regs.cmd = "poll"

\* A poll is under way only when the last blob was delivered.
PollsOK ==
    /\ Polling => Settled /\ \A i \in 1 .. Len(Queries) : Queries[i].op # "poll"
    /\ \A i \in 1 .. Len(Queries) : Queries[i].op = "poll" => Settled
    /\ \A i, j \in 1 .. Len(Queries) : Queries[i].op = "poll" /\ Queries[j].op = "poll" => i = j
    /\ regs.len = 0 => Settled

\* The three requests of a round speak of the same blob.
RoundOK ==
    Live =>
    /\ rx \notin {"poll", "header"} => ~Polling
    /\ rx \in {"top", "want"} => Settled
    /\ rx = "header" \/ (rx = "poll" /\ Answers # <<>>) => Polling \/ regs.len = 0 \/ Ahead
    /\ rx = "header" /\ Answers # <<>> =>
         /\ ~Polling /\ Answers[1].data = regs.data
         /\ \/ Answers[1].len = 0 /\ Settled
            \/ Answers[1].len = Len(regs.data) /\ Ahead
    /\ rx = "data" => /\ rxlen = Len(regs.data) /\ Ahead
                      /\ Answers # <<>> => Answers[1].data = regs.data

\* Bytes written on the slave's side: what was read, what is in the registers
\* and what is pending follow each other, and none is missing.
PublishedOK ==
    /\ Increasing(mread \o m.fifo) /\ Increasing(regs.data) /\ Increasing(s.tx)
    /\ Read \union Data \union ToSet(s.tx) \subseteq 1 .. given
    /\ \A a \in Read \union Data, b \in ToSet(s.tx) : a < b
    /\ 1 .. given \subseteq Delivered \union Data \union ToSet(s.tx)
    /\ \A b \in Read : 1 .. b - 1 \subseteq Delivered

MasterInv == BaseInv /\ PollsOK /\ RoundOK /\ PublishedOK /\ StreamToMaster

(***************************************************************************)
(* The inductive invariant: from the master to the slave                   *)
(***************************************************************************)
\* The slave has answered a blob and not yet pushed it.
Putting == task = "process" /\ regs.cmd = "put"

\* The bytes that were read or wait for the reader, and those that arrived.
Received == ToSet(sread) \union ToSet(s.fifo)
Arrived ==
    UNION {Received, sgone, IF s.overflow THEN slost ELSE {}, IF Putting THEN ToSet(regs.m2s) ELSE {}}

Below(A, B) == \A a \in A, b \in B : a < b

\* Bytes written on the master's side: what was received, what is in the
\* registers, each request under way and the write that waits follow each other.
SentOK ==
    /\ Increasing(sread \o s.fifo) /\ Increasing(regs.m2s) /\ Increasing(blob)
    /\ \A i \in 1 .. Len(Queries) : Increasing(Queries[i].blob)
    /\ Received \union ToSet(regs.m2s) \subseteq 1 .. put
    /\ \A i \in 1 .. Len(Queries) : ToSet(Queries[i].blob) \subseteq 1 .. put
    /\ Putting => Below(Received, ToSet(regs.m2s))
    /\ \A i \in 1 .. Len(Queries) : Below(Received \union ToSet(regs.m2s), ToSet(Queries[i].blob))
    /\ \A i, j \in 1 .. Len(Queries) : i < j => Below(ToSet(Queries[i].blob), ToSet(Queries[j].blob))
    /\ app = "want" => /\ Below(Received \union ToSet(regs.m2s), ToSet(blob))
                       /\ \A i \in 1 .. Len(Queries) : Below(ToSet(Queries[i].blob), ToSet(blob))

\* The answer to a blob is sent when the blob has arrived.
AckOK == Live /\ app = "put" /\ Answers # <<>> => ToSet(blob) \subseteq Arrived

SlaveInv == BaseInv /\ SentOK /\ AckOK /\ AckedArrives

(***************************************************************************)
(* Bytes                                                                   *)
(***************************************************************************)
\* The constants are numbers.
LEMMA Bounds ==
    /\ MasterMax \in Nat /\ SlaveMax \in Nat /\ MasterCap \in Nat /\ SlaveCap \in Nat
    /\ BufLen \in Nat
    /\ MasterMax > 0 /\ SlaveMax > 0 /\ MasterCap > 0 /\ SlaveCap > 0 /\ BufLen > 0
    /\ MaxBytes \in Nat /\ MaxConns \in Nat /\ MaxCalls \in Nat
BY SizesAssumption, BoundsAssumption

\* The bytes of a sequence,
LEMMA SetOf ==
    ASSUME NEW q \in Seq(Nat)
    PROVE  /\ ToSet(q) \subseteq Nat
           /\ \A x : x \in ToSet(q) <=> \E i \in 1 .. Len(q) : q[i] = x
           /\ (q = <<>> <=> ToSet(q) = {})
<1>1. DOMAIN q = 1 .. Len(q) /\ Len(q) \in Nat /\ \A i \in 1 .. Len(q) : q[i] \in Nat
    OBVIOUS
<1>2. ToSet(q) = {q[i] : i \in 1 .. Len(q)}
    BY <1>1 DEF ToSet
<1>3. q # <<>> => q[1] \in ToSet(q)
  <2>1. q # <<>> => 1 \in 1 .. Len(q)
      OBVIOUS
  <2> QED
      BY <1>2, <2>1
<1>4. q = <<>> => ToSet(q) = {}
    BY <1>2
<1> QED
    BY <1>1, <1>2, <1>3, <1>4

\* of two,
LEMMA SetOfConcat ==
    ASSUME NEW q \in Seq(Nat), NEW r \in Seq(Nat)
    PROVE  ToSet(q \o r) = ToSet(q) \union ToSet(r)
<1> DEFINE c == q \o r
<1>1. /\ c \in Seq(Nat) /\ Len(c) = Len(q) + Len(r) /\ Len(q) \in Nat /\ Len(r) \in Nat
      /\ \A i \in 1 .. Len(q) : c[i] = q[i]
      /\ \A i \in 1 .. Len(r) : c[Len(q) + i] = r[i]
    OBVIOUS
<1>2. ASSUME NEW x \in ToSet(c) PROVE x \in ToSet(q) \union ToSet(r)
  <2>1. PICK i \in 1 .. Len(c) : c[i] = x
      BY <1>1, <1>2, SetOf
  <2>2. CASE i <= Len(q)
      BY <1>1, <2>1, <2>2, SetOf
  <2>3. CASE i > Len(q)
    <3> DEFINE k == i - Len(q)
    <3>1. k \in 1 .. Len(r) /\ i = Len(q) + k
        BY <1>1, <2>1, <2>3
    <3>2. c[i] = r[k]
        BY <1>1, <3>1
    <3> QED
        BY <2>1, <3>1, <3>2, SetOf
  <2> QED
      BY <1>1, <2>1, <2>2, <2>3
<1>3. ASSUME NEW x \in ToSet(q) \union ToSet(r) PROVE x \in ToSet(c)
  <2>1. CASE x \in ToSet(q)
    <3>1. PICK i \in 1 .. Len(q) : q[i] = x
        BY <2>1, SetOf
    <3>2. i \in 1 .. Len(c) /\ c[i] = x
        BY <1>1, <3>1
    <3> QED
        BY <1>1, <3>2, SetOf, Zenon
  <2>2. CASE x \in ToSet(r)
    <3>1. PICK i \in 1 .. Len(r) : r[i] = x
        BY <2>2, SetOf
    <3>2. Len(q) + i \in 1 .. Len(c) /\ c[Len(q) + i] = x
        BY <1>1, <3>1
    <3> QED
        BY <1>1, <3>2, SetOf, Zenon
  <2> QED
      BY <1>3, <2>1, <2>2
<1> QED
    BY <1>2, <1>3

\* and when two in a row are increasing.
LEMMA IncreasingConcat ==
    ASSUME NEW q \in Seq(Nat), NEW r \in Seq(Nat)
    PROVE  Increasing(q \o r) <=> Increasing(q) /\ Increasing(r) /\ Below(ToSet(q), ToSet(r))
<1> DEFINE c == q \o r
<1>1. /\ c \in Seq(Nat) /\ Len(c) = Len(q) + Len(r) /\ Len(q) \in Nat /\ Len(r) \in Nat
      /\ \A i \in 1 .. Len(q) : c[i] = q[i]
      /\ \A i \in 1 .. Len(r) : c[Len(q) + i] = r[i]
      /\ DOMAIN c = 1 .. Len(c) /\ DOMAIN q = 1 .. Len(q) /\ DOMAIN r = 1 .. Len(r)
    OBVIOUS
<1>2. ASSUME Increasing(c) PROVE Increasing(q) /\ Increasing(r) /\ Below(ToSet(q), ToSet(r))
  <2>1. Increasing(q)
    <3>1. \A i \in 1 .. Len(q) : i \in 1 .. Len(c)
        BY <1>1
    <3> QED
        BY <1>1, <1>2, <3>1 DEF Increasing
  <2>2. Increasing(r)
    <3> SUFFICES ASSUME NEW i \in 1 .. Len(r), NEW j \in 1 .. Len(r), i < j PROVE r[i] < r[j]
        BY <1>1 DEF Increasing
    <3>1. Len(q) + i \in 1 .. Len(c) /\ Len(q) + j \in 1 .. Len(c) /\ Len(q) + i < Len(q) + j
        BY <1>1
    <3>2. c[Len(q) + i] < c[Len(q) + j]
        BY <1>1, <1>2, <3>1 DEF Increasing
    <3> QED
        BY <1>1, <3>2
  <2>3. ASSUME NEW x \in ToSet(q), NEW y \in ToSet(r) PROVE x < y
    <3>1. PICK i \in 1 .. Len(q) : q[i] = x
        BY <2>3, SetOf
    <3>2. PICK j \in 1 .. Len(r) : r[j] = y
        BY <2>3, SetOf
    <3>3. i \in 1 .. Len(c) /\ Len(q) + j \in 1 .. Len(c) /\ i < Len(q) + j
        BY <1>1, <3>1, <3>2
    <3>4. c[i] < c[Len(q) + j]
        BY <1>1, <1>2, <3>3 DEF Increasing
    <3> QED
        BY <1>1, <3>1, <3>2, <3>4
  <2> QED
      BY <2>1, <2>2, <2>3 DEF Below
<1>3. ASSUME Increasing(q), Increasing(r), Below(ToSet(q), ToSet(r)) PROVE Increasing(c)
  <2> SUFFICES ASSUME NEW i \in 1 .. Len(c), NEW j \in 1 .. Len(c), i < j PROVE c[i] < c[j]
      BY <1>1 DEF Increasing
  <2>1. CASE j <= Len(q)
    <3>1. i \in 1 .. Len(q) /\ j \in 1 .. Len(q)
        BY <1>1, <2>1
    <3>2. q[i] < q[j]
        BY <1>1, <1>3, <3>1 DEF Increasing
    <3> QED
        BY <1>1, <3>1, <3>2
  <2>2. CASE i > Len(q)
    <3>0. i \in Int /\ j \in Int /\ i <= Len(c) /\ j <= Len(c) /\ j > Len(q)
        BY <1>1, <2>2
    <3>1. /\ i - Len(q) \in 1 .. Len(r) /\ j - Len(q) \in 1 .. Len(r) /\ i - Len(q) < j - Len(q)
          /\ i = Len(q) + (i - Len(q)) /\ j = Len(q) + (j - Len(q))
        BY <1>1, <2>2, <3>0
    <3>2. r[i - Len(q)] < r[j - Len(q)]
        BY <1>1, <1>3, <3>1 DEF Increasing
    <3>3. c[i] = r[i - Len(q)] /\ c[j] = r[j - Len(q)]
        BY <1>1, <3>1
    <3> QED
        BY <3>2, <3>3
  <2>3. CASE i <= Len(q) /\ j > Len(q)
    <3>1. i \in 1 .. Len(q) /\ j - Len(q) \in 1 .. Len(r) /\ j = Len(q) + (j - Len(q))
        BY <1>1, <2>3
    <3>2. c[i] = q[i] /\ c[j] = r[j - Len(q)]
        BY <1>1, <3>1
    <3>3. q[i] \in ToSet(q) /\ r[j - Len(q)] \in ToSet(r)
        BY <3>1, SetOf
    <3> QED
        BY <1>3, <3>2, <3>3 DEF Below
  <2> QED
      BY <1>1, <2>1, <2>2, <2>3
<1> QED
    BY <1>2, <1>3

\* The first n bytes and the others.
LEMMA Cut ==
    ASSUME NEW q \in Seq(Nat), NEW n \in Nat
    PROVE  /\ First(q, n) \in Seq(Nat) /\ After(q, n) \in Seq(Nat)
           /\ First(q, n) \o After(q, n) = q
           /\ Len(First(q, n)) <= n /\ Len(First(q, n)) <= Len(q)
           /\ Len(q) <= n => First(q, n) = q /\ After(q, n) = <<>>
           /\ n <= Len(q) => Len(First(q, n)) = n /\ Len(After(q, n)) = Len(q) - n
           /\ Len(After(q, n)) <= Len(q)
           /\ ToSet(First(q, n)) \union ToSet(After(q, n)) = ToSet(q)
           /\ Increasing(q) => /\ Increasing(First(q, n)) /\ Increasing(After(q, n))
                               /\ Below(ToSet(First(q, n)), ToSet(After(q, n)))
<1> DEFINE k == Least(n, Len(q))
           f == First(q, n)
           a == After(q, n)
<1>1. /\ Len(q) \in Nat /\ k \in 0 .. Len(q) /\ k <= n
      /\ Len(q) <= n => k = Len(q)
      /\ n <= Len(q) => k = n
    BY DEF Least
<1>2. /\ f = SubSeq(q, 1, k) /\ a = SubSeq(q, k + 1, Len(q))
    BY DEF First, After
<1> HIDE DEF k
<1>3. /\ f \in Seq(Nat) /\ a \in Seq(Nat) /\ Len(f) = k /\ Len(a) = Len(q) - k
      /\ \A i \in 1 .. k : f[i] = q[i]
      /\ \A i \in 1 .. Len(q) - k : a[i] = q[k + i]
  <2> HIDE DEF f, a
  <2>1. f \in Seq(Nat) /\ Len(f) = k /\ \A i \in 1 .. k : f[i] = q[i]
    <3>1. \A i \in 1 .. k : q[i] \in Nat
        BY <1>1
    <3>2. k - 1 + 1 = k /\ \A i \in 1 .. k : 1 + i - 1 = i
        BY <1>1
    <3> QED
        BY <1>1, <1>2, <3>1, <3>2, SubSeqProperties
  <2>2. a \in Seq(Nat) /\ Len(a) = Len(q) - k /\ \A i \in 1 .. Len(q) - k : a[i] = q[k + i]
    <3>1. k + 1 \in 1 .. Len(q) + 1
        BY <1>1
    <3>2. \A i \in k + 1 .. Len(q) : q[i] \in Nat
        BY <1>1
    <3>3. \A i \in 1 .. Len(q) - k : i + (k + 1) - 1 = k + i
        BY <1>1
    <3> QED
        BY <1>1, <1>2, <3>1, <3>2, <3>3, SubSeqProperties
  <2> QED
      BY <2>1, <2>2
<1> HIDE DEF f, a
<1>4. f \o a = q
  <2>1. f \o a \in Seq(Nat) /\ Len(f \o a) = Len(q)
      BY <1>1, <1>3
  <2>2. ASSUME NEW i \in 1 .. Len(q) PROVE (f \o a)[i] = q[i]
    <3>1. CASE i <= k
        BY <1>1, <1>3, <3>1
    <3>2. CASE ~(i <= k)
      <4> DEFINE j == i - k
      <4>1. j \in 1 .. Len(a) /\ j \in 1 .. Len(q) - k /\ k + j = i /\ Len(f) + j = i
          BY <1>1, <1>3, <3>2
      <4>2. (f \o a)[i] = a[i - Len(f)]
          BY <1>3, <3>2, <4>1, ConcatProperties
      <4> QED
          BY <1>3, <4>1, <4>2
    <3> QED
        BY <3>1, <3>2
  <2> QED
      BY <2>1, <2>2, SeqEqual
<1>5. Len(q) <= n => f = q /\ a = <<>>
  <2>1. Len(q) <= n => Len(a) = 0 /\ Len(f) = Len(q) /\ \A i \in 1 .. Len(f) : f[i] = q[i]
      BY <1>1, <1>3
  <2> QED
      BY <1>3, <2>1, SeqEqual
<1>6. ToSet(f) \union ToSet(a) = ToSet(q)
    BY <1>3, <1>4, SetOfConcat
<1>7. Increasing(q) => Increasing(f) /\ Increasing(a) /\ Below(ToSet(f), ToSet(a))
    BY <1>3, <1>4, IncreasingConcat
<1>8. /\ f \in Seq(Nat) /\ a \in Seq(Nat) /\ Len(f) <= n /\ Len(f) <= Len(q) /\ Len(a) <= Len(q)
      /\ n <= Len(q) => Len(f) = n /\ Len(a) = Len(q) - n
  <2>1. f \in Seq(Nat) /\ a \in Seq(Nat) /\ Len(f) = k /\ Len(a) = Len(q) - k
      BY <1>3
  <2>2. k <= n /\ k <= Len(q) /\ Len(q) - k <= Len(q) /\ (n <= Len(q) => k = n)
      BY <1>1
  <2> QED
      BY <2>1, <2>2, Zenon
<1> QED
    BY <1>4, <1>5, <1>6, <1>7, <1>8 DEF f, a

\* The bytes of a new write.
LEMMA NewBytes ==
    ASSUME NEW from \in Nat, NEW n \in Nat
    PROVE  /\ Consecutive(from, n) \in Seq(Nat) /\ Len(Consecutive(from, n)) = n
           /\ Increasing(Consecutive(from, n))
           /\ ToSet(Consecutive(from, n)) = from + 1 .. from + n
<1> DEFINE c == Consecutive(from, n)
<1>1. c \in Seq(Nat) /\ Len(c) = n /\ DOMAIN c = 1 .. n /\ \A i \in 1 .. n : c[i] = from + i
    BY DEF Consecutive
<1> HIDE DEF c
<1>2. Increasing(c)
    BY <1>1 DEF Increasing
<1>3. ASSUME NEW x \in from + 1 .. from + n PROVE x \in ToSet(c)
  <2>1. x - from \in 1 .. n /\ c[x - from] = x
      BY <1>1
  <2> QED
      BY <1>1, <2>1 DEF ToSet
<1>4. ToSet(c) \subseteq from + 1 .. from + n
    BY <1>1 DEF ToSet
<1> QED
    BY <1>1, <1>2, <1>3, <1>4 DEF c

\* No bytes at all.
LEMMA NoBytes == ToSet(<<>>) = {} /\ Increasing(<<>>) /\ <<>> \in Seq(Nat) /\ Len(<<>>) = 0
BY DEF ToSet, Increasing

(***************************************************************************)
(* Connections                                                             *)
(***************************************************************************)
\* The oldest request of a queue,
LEMMA FirstQuery ==
    ASSUME NEW Q \in Seq(QueryType), Q # <<>>
    PROVE  /\ Head(Q) = Q[1] /\ Head(Q) \in QueryType /\ Tail(Q) \in Seq(QueryType)
           /\ Len(Tail(Q)) = Len(Q) - 1 /\ Len(Q) \in Nat \ {0}
           /\ \A i \in 1 .. Len(Tail(Q)) : Tail(Q)[i] = Q[i + 1] /\ i + 1 \in 1 .. Len(Q)
           /\ 1 \in 1 .. Len(Q)
<1>1. Len(Q) \in Nat \ {0} /\ 1 \in 1 .. Len(Q) /\ Head(Q) = Q[1] /\ Tail(Q) \in Seq(QueryType)
    OBVIOUS
<1>2. Len(Tail(Q)) = Len(Q) - 1 /\ Q[1] \in QueryType
    BY <1>1
<1>3. \A i \in 1 .. Len(Tail(Q)) : Tail(Q)[i] = Q[i + 1] /\ i + 1 \in 1 .. Len(Q)
    BY <1>1, <1>2
<1> QED
    BY <1>1, <1>2, <1>3

\* and a new one at its end.
LEMMA LastQuery ==
    ASSUME NEW Q \in Seq(QueryType), NEW e \in QueryType
    PROVE  /\ Append(Q, e) \in Seq(QueryType) /\ Len(Append(Q, e)) = Len(Q) + 1 /\ Len(Q) \in Nat
           /\ \A i \in 1 .. Len(Q) : Append(Q, e)[i] = Q[i] /\ i \in 1 .. Len(Q) + 1
           /\ Append(Q, e)[Len(Q) + 1] = e
           /\ Append(Q, e) # <<>>
           /\ \A i \in 1 .. Len(Append(Q, e)) : i \in 1 .. Len(Q) \/ i = Len(Q) + 1
<1>1. Len(Q) \in Nat /\ Append(Q, e) \in Seq(QueryType) /\ Len(Append(Q, e)) = Len(Q) + 1
    OBVIOUS
<1>2. \A i \in 1 .. Len(Q) : Append(Q, e)[i] = Q[i]
    OBVIOUS
<1>3. Append(Q, e)[Len(Q) + 1] = e
    OBVIOUS
<1>4. \A i \in 1 .. Len(Append(Q, e)) : i \in 1 .. Len(Q) \/ i = Len(Q) + 1
    BY <1>1
<1>5. Append(Q, e) # <<>> /\ \A i \in 1 .. Len(Q) : i \in 1 .. Len(Q) + 1
    BY <1>1
<1> QED
    BY <1>1, <1>2, <1>3, <1>4, <1>5

\* Connection 1 has a queue of requests and a queue of answers.
LEMMA WireType ==
    ASSUME conns \in Seq(ConnType)
    PROVE  /\ Queries \in Seq(QueryType) /\ Answers \in Seq(AnswerType) /\ Late \in BOOLEAN
           /\ Len(conns) \in Nat
           /\ conns # <<>> <=> 1 \in 1 .. Len(conns)
           /\ conns # <<>> => /\ Queries = conns[1].queries /\ Answers = conns[1].answers
                              /\ Late = conns[1].late
           /\ conns = <<>> => Queries = <<>> /\ Answers = <<>> /\ ~Late
           /\ \A i \in 1 .. Len(conns) : conns[i] \in ConnType
<1>1. <<>> \in Seq(QueryType) /\ <<>> \in Seq(AnswerType)
    OBVIOUS
<1>2. /\ Len(conns) \in Nat /\ (conns # <<>> <=> 1 \in 1 .. Len(conns))
      /\ \A i \in 1 .. Len(conns) : conns[i] \in ConnType
    OBVIOUS
<1>3. CASE conns = <<>>
    BY <1>1, <1>2, <1>3 DEF Queries, Answers, Late
<1>4. CASE conns # <<>>
  <2>1. conns[1] \in ConnType
      BY <1>2, <1>4
  <2>2. /\ conns[1].queries \in Seq(QueryType) /\ conns[1].answers \in Seq(AnswerType)
        /\ conns[1].late \in BOOLEAN
      BY <2>1 DEF ConnType
  <2>3. Queries = conns[1].queries /\ Answers = conns[1].answers /\ Late = conns[1].late
      BY <1>4 DEF Queries, Answers, Late
  <2> QED
      BY <1>2, <1>4, <2>2, <2>3
<1> QED
    BY <1>3, <1>4

\* modbus_connect: a new connection.
LEMMA ConnAdded ==
    ASSUME conns \in Seq(ConnType), NEW c \in ConnType, c.answers = <<>>, c.late = FALSE,
           conns' = Append(conns, c)
    PROVE  /\ conns' \in Seq(ConnType) /\ Len(conns') = Len(conns) + 1 /\ conns' # <<>>
           /\ Answers' = Answers /\ Late' = Late
           /\ Queries' = IF conns = <<>> THEN c.queries ELSE Queries
           /\ Quiet => Quiet'
<1>1. /\ conns' \in Seq(ConnType) /\ Len(conns') = Len(conns) + 1 /\ conns' # <<>>
      /\ Len(conns) \in Nat
      /\ \A i \in 1 .. Len(conns) : conns'[i] = conns[i]
      /\ conns'[Len(conns) + 1] = c
  <2>1. Len(conns) \in Nat /\ Append(conns, c) \in Seq(ConnType)
      OBVIOUS
  <2>2. Len(Append(conns, c)) = Len(conns) + 1 /\ Append(conns, c)[Len(conns) + 1] = c
      OBVIOUS
  <2>3. \A i \in 1 .. Len(conns) : Append(conns, c)[i] = conns[i]
      OBVIOUS
  <2> QED
      BY <2>1, <2>2, <2>3
<1>2. CASE conns = <<>>
  <2>1. conns'[1] = c
      BY <1>1, <1>2
  <2>2. Len(conns') = 1 /\ Quiet'
      BY <1>1, <1>2 DEF Quiet
  <2>3. Queries' = c.queries /\ Answers' = Answers /\ Late' = Late
      BY <1>1, <1>2, <2>1 DEF Queries, Answers, Late
  <2> QED
      BY <1>1, <1>2, <2>2, <2>3
<1>3. CASE conns # <<>>
  <2>1. conns'[1] = conns[1]
      BY <1>1, <1>3
  <2>2. Queries' = Queries /\ Answers' = Answers /\ Late' = Late
      BY <1>1, <1>3, <2>1 DEF Queries, Answers, Late
  <2>3. ASSUME Quiet, NEW i \in 2 .. Len(conns') PROVE conns'[i].answers = <<>>
    <3>1. i \in 2 .. Len(conns) \/ i = Len(conns) + 1
        BY <1>1
    <3> QED
        BY <1>1, <2>3, <3>1 DEF Quiet
  <2> QED
      BY <1>1, <1>3, <2>2, <2>3 DEF Quiet
<1> QED
    BY <1>2, <1>3

\* One connection changes.
LEMMA ConnChanged ==
    ASSUME conns \in Seq(ConnType), NEW i \in 1 .. Len(conns), NEW c \in ConnType,
           conns' = [conns EXCEPT ![i] = c],
           i = 1 \/ c.answers = conns[i].answers
    PROVE  /\ conns' \in Seq(ConnType) /\ Len(conns') = Len(conns) /\ conns' # <<>> /\ conns # <<>>
           /\ i = 1 => Queries' = c.queries /\ Answers' = c.answers /\ Late' = c.late
           /\ i # 1 => Queries' = Queries /\ Answers' = Answers /\ Late' = Late
           /\ Quiet => Quiet'
<1>1. Len(conns) \in Nat /\ conns' \in Seq(ConnType) /\ Len(conns') = Len(conns)
    OBVIOUS
<1>2. \A j \in 1 .. Len(conns) : conns'[j] = IF j = i THEN c ELSE conns[j]
    OBVIOUS
<1>3. conns # <<>> /\ conns' # <<>> /\ 1 \in 1 .. Len(conns)
    BY <1>1
<1>4. i = 1 => Queries' = c.queries /\ Answers' = c.answers /\ Late' = c.late
    BY <1>2, <1>3 DEF Queries, Answers, Late
<1>5. i # 1 => Queries' = Queries /\ Answers' = Answers /\ Late' = Late
    BY <1>2, <1>3 DEF Queries, Answers, Late
<1>6. ASSUME Quiet, NEW j \in 2 .. Len(conns') PROVE conns'[j].answers = <<>>
  <2>1. j \in 1 .. Len(conns) /\ j \in 2 .. Len(conns) /\ j # 1
      BY <1>1
  <2> QED
      BY <1>2, <1>6, <2>1 DEF Quiet
<1> QED
    BY <1>1, <1>3, <1>4, <1>5, <1>6 DEF Quiet

\* modbus_close, or the end of a session.
LEMMA ConnCloses ==
    ASSUME conns \in Seq(ConnType), NEW c \in 0 .. Len(conns), conns' = Closed(c)
    PROVE  /\ conns' \in Seq(ConnType) /\ Len(conns') = Len(conns)
           /\ (conns' = <<>> <=> conns = <<>>)
           /\ Queries' = Queries /\ Answers' = Answers /\ Late' = Late
           /\ Quiet => Quiet'
<1>1. CASE c = 0
    BY <1>1 DEF Closed, Queries, Answers, Late, Quiet
<1>2. CASE c # 0
  <2> DEFINE d == [conns[c] EXCEPT !.open = FALSE]
  <2>1. c \in 1 .. Len(conns) /\ conns[c] \in ConnType
      BY <1>2
  <2>2. /\ d \in ConnType /\ d.queries = conns[c].queries /\ d.answers = conns[c].answers
        /\ d.late = conns[c].late
      BY <2>1 DEF ConnType
  <2>3. conns' = [conns EXCEPT ![c] = d]
      BY <1>2 DEF Closed
  <2> HIDE DEF d
  <2>4. c = 1 => Queries = conns[c].queries /\ Answers = conns[c].answers /\ Late = conns[c].late
      BY <2>1, WireType
  <2> QED
      BY <2>1, <2>2, <2>3, <2>4, ConnChanged, Zenon
<1> QED
    BY <1>1, <1>2

\* A request is sent.
LEMMA ConnAsks ==
    ASSUME conns \in Seq(ConnType), NEW c \in 0 .. Len(conns), NEW q \in QueryType, conns' = Sent(c, q)
    PROVE  /\ conns' \in Seq(ConnType) /\ Len(conns') = Len(conns)
           /\ (conns' = <<>> <=> conns = <<>>)
           /\ Queries' = Queries \/ (c = 1 /\ Queries' = Append(Queries, q))
           /\ Answers' = Answers /\ Late' = Late
           /\ Quiet => Quiet'
<1>1. CASE conns' = conns
    BY <1>1 DEF Queries, Answers, Late, Quiet
<1>2. CASE conns' # conns
  <2> DEFINE d == [conns[c] EXCEPT !.queries = Append(conns[c].queries, q)]
  <2>1. c \in 1 .. Len(conns) /\ conns[c] \in ConnType
      BY <1>2 DEF Sent
  <2>2. /\ d \in ConnType /\ d.queries = Append(conns[c].queries, q)
        /\ d.answers = conns[c].answers
        /\ d.late = conns[c].late
    <3>1. conns[c].queries \in Seq(QueryType)
        BY <2>1 DEF ConnType
    <3>2. Append(conns[c].queries, q) \in Seq(QueryType)
        BY <3>1
    <3> QED
        BY <2>1, <3>2 DEF ConnType
  <2>3. conns' = [conns EXCEPT ![c] = d]
      BY <1>2 DEF Sent
  <2> HIDE DEF d
  <2>4. c = 1 => Queries = conns[c].queries /\ Answers = conns[c].answers /\ Late = conns[c].late
      BY <2>1, WireType
  <2> QED
      BY <2>1, <2>2, <2>3, <2>4, ConnChanged, Zenon
<1> QED
    BY <1>1, <1>2

\* Only connection 1 is answered.
LEMMA ConnAnswered ==
    ASSUME conns \in Seq(ConnType), Quiet, m.conn \in 0 .. Len(conns), Answered(m.conn)
    PROVE  /\ Live /\ m.conn = 1 /\ conns # <<>>
           /\ Answers # <<>> /\ Answer = Answers[1]
           /\ Answers[1] \in AnswerType
           /\ Answers[1].len \in Nat /\ Answers[1].data \in Seq(Nat)
<1>1. m.conn \in 1 .. Len(conns) /\ conns[m.conn].answers # <<>> /\ ~conns[m.conn].late
    BY DEF Answered
<1>2. m.conn = 1
    BY <1>1 DEF Quiet
<1>3. conns # <<>> /\ Answers = conns[1].answers /\ Late = conns[1].late
    BY <1>1, <1>2, WireType
<1>4. Answers[1] \in AnswerType
  <2>1. Answers \in Seq(AnswerType) /\ Answers # <<>>
      BY <1>1, <1>2, <1>3, WireType
  <2> QED
      BY <2>1
<1>5. Answer = Answers[1]
    BY <1>2, <1>3 DEF Answer
<1>6. Answers[1].len \in Nat /\ Answers[1].data \in Seq(Nat)
    BY <1>4 DEF AnswerType
<1> QED
    BY <1>1, <1>2, <1>3, <1>4, <1>5, <1>6 DEF Live

\* An answer is taken,
LEMMA ConnTaken ==
    ASSUME conns \in Seq(ConnType), Quiet, conns # <<>>, Answers # <<>>, Len(Answers) <= 1, conns' = Taken(1)
    PROVE  /\ conns' \in Seq(ConnType) /\ Len(conns') = Len(conns) /\ conns' # <<>>
           /\ Queries' = Queries /\ Answers' = <<>> /\ Late' = Late
           /\ Quiet'
<1> DEFINE d == [conns[1] EXCEPT !.answers = Tail(conns[1].answers)]
<1>1. /\ 1 \in 1 .. Len(conns) /\ conns[1] \in ConnType /\ Answers = conns[1].answers
      /\ Queries = conns[1].queries /\ Late = conns[1].late /\ Answers \in Seq(AnswerType)
    BY WireType
<1>2. Tail(conns[1].answers) = <<>>
    BY <1>1
<1>3. /\ d \in ConnType /\ d.queries = conns[1].queries /\ d.answers = <<>>
      /\ d.late = conns[1].late
  <2>1. <<>> \in Seq(AnswerType)
      OBVIOUS
  <2> QED
      BY <1>1, <1>2, <2>1 DEF ConnType
<1>4. conns' = [conns EXCEPT ![1] = d]
    BY DEF Taken
<1> HIDE DEF d
<1> QED
    BY <1>1, <1>3, <1>4, ConnChanged

\* and the next request sent.
LEMMA ConnFollowed ==
    ASSUME conns \in Seq(ConnType), Quiet, conns # <<>>, Answers # <<>>, Len(Answers) <= 1,
           NEW q \in QueryType, conns' = Followed(1, q)
    PROVE  /\ conns' \in Seq(ConnType) /\ Len(conns') = Len(conns) /\ conns' # <<>>
           /\ Queries' = Queries \/ Queries' = Append(Queries, q)
           /\ Answers' = <<>> /\ Late' = Late
           /\ Quiet'
<1> DEFINE e == IF conns[1].open THEN Append(conns[1].queries, q) ELSE conns[1].queries
           d == [conns[1] EXCEPT !.answers = Tail(conns[1].answers), !.queries = e]
<1>1. /\ 1 \in 1 .. Len(conns) /\ conns[1] \in ConnType /\ Answers = conns[1].answers
      /\ Queries = conns[1].queries /\ Late = conns[1].late /\ Answers \in Seq(AnswerType)
      /\ Queries \in Seq(QueryType)
    BY WireType
<1>2. Tail(conns[1].answers) = <<>>
    BY <1>1
<1>3. e \in Seq(QueryType) /\ (e = Queries \/ e = Append(Queries, q))
    BY <1>1
<1>4. conns' = [conns EXCEPT ![1] = d]
    BY DEF Followed
<1>5. /\ d \in ConnType /\ d.queries = e /\ d.answers = <<>> /\ d.late = conns[1].late
  <2>1. <<>> \in Seq(AnswerType)
      OBVIOUS
  <2> HIDE DEF e
  <2> QED
      BY <1>1, <1>2, <1>3, <2>1 DEF ConnType
<1> HIDE DEF d, e
<1> QED
    BY <1>1, <1>3, <1>4, <1>5, ConnChanged

\* A request times out.
LEMMA ConnOverdue ==
    ASSUME conns \in Seq(ConnType), NEW c \in 0 .. Len(conns), conns' = [conns EXCEPT ![c].late = TRUE]
    PROVE  /\ conns' \in Seq(ConnType) /\ Len(conns') = Len(conns)
           /\ (conns' = <<>> <=> conns = <<>>)
           /\ Queries' = Queries /\ Answers' = Answers
           /\ c = 1 => Late'
           /\ c # 1 => Late' = Late
           /\ Quiet => Quiet'
<1>1. CASE c = 0
  <2>1. conns' = conns
      BY <1>1
  <2>2. Queries' = Queries /\ Answers' = Answers /\ Late' = Late /\ (Quiet => Quiet')
      BY <2>1 DEF Queries, Answers, Late, Quiet
  <2>3. c # 1
      BY <1>1
  <2>4. conns' \in Seq(ConnType) /\ Len(conns') = Len(conns)
      BY <2>1
  <2> QED
      BY <2>1, <2>2, <2>3, <2>4, Zenon
<1>2. CASE c # 0
  <2> DEFINE d == [conns[c] EXCEPT !.late = TRUE]
  <2>1. c \in 1 .. Len(conns) /\ conns[c] \in ConnType
      BY <1>2
  <2>2. /\ d \in ConnType /\ d.queries = conns[c].queries /\ d.answers = conns[c].answers
        /\ d.late
      BY <2>1 DEF ConnType
  <2>3. conns' = [conns EXCEPT ![c] = d]
      BY <1>2
  <2> HIDE DEF d
  <2>4. c = 1 => Queries = conns[c].queries /\ Answers = conns[c].answers
      BY <2>1, WireType
  <2> QED
      BY <2>1, <2>2, <2>3, <2>4, ConnChanged, Zenon
<1> QED
    BY <1>1, <1>2

\* The slave takes a request,
LEMMA ConnServed ==
    ASSUME conns \in Seq(ConnType), conns # <<>>, Queries # <<>>, NEW e \in Seq(AnswerType),
           conns' = [conns EXCEPT ![1] = [conns[1] EXCEPT !.queries = Tail(Queries), !.answers = e]]
    PROVE  /\ conns' \in Seq(ConnType) /\ Len(conns') = Len(conns) /\ conns' # <<>>
           /\ Queries' = Tail(Queries) /\ Answers' = e /\ Late' = Late
           /\ Quiet => Quiet'
<1> DEFINE d == [conns[1] EXCEPT !.queries = Tail(Queries), !.answers = e]
<1>1. /\ 1 \in 1 .. Len(conns) /\ conns[1] \in ConnType /\ Late = conns[1].late
      /\ Queries \in Seq(QueryType)
    BY WireType
<1>2. Tail(Queries) \in Seq(QueryType)
    BY <1>1
<1>3. d \in ConnType /\ d.queries = Tail(Queries) /\ d.answers = e /\ d.late = conns[1].late
    BY <1>1, <1>2 DEF ConnType
<1>4. conns' = [conns EXCEPT ![1] = d]
    OBVIOUS
<1> HIDE DEF d
<1> QED
    BY <1>1, <1>3, <1>4, ConnChanged

\* and answers it,
LEMMA ConnReplies ==
    ASSUME conns \in Seq(ConnType), conns # <<>>, NEW a \in AnswerType, Queries # <<>>,
           conns' = [conns EXCEPT ![1].queries = Tail(@), ![1].answers = Append(@, a)]
    PROVE  /\ conns' \in Seq(ConnType) /\ Len(conns') = Len(conns) /\ conns' # <<>>
           /\ Queries' = Tail(Queries) /\ Answers' = Append(Answers, a) /\ Late' = Late
           /\ Quiet => Quiet'
<1>1. /\ 1 \in 1 .. Len(conns) /\ conns[1] \in ConnType /\ Answers = conns[1].answers
      /\ Queries = conns[1].queries /\ Answers \in Seq(AnswerType)
    BY WireType
<1>2. Append(Answers, a) \in Seq(AnswerType)
    BY <1>1
<1>3. conns' = [conns EXCEPT ![1] = [conns[1] EXCEPT !.queries = Tail(Queries), !.answers = Append(Answers, a)]]
    BY <1>1
<1> QED
    BY <1>2, <1>3, ConnServed

\* or the answer cannot be sent.
LEMMA ConnReplyLost ==
    ASSUME conns \in Seq(ConnType), conns # <<>>, Queries # <<>>,
           conns' = [conns EXCEPT ![1].queries = Tail(@)]
    PROVE  /\ conns' \in Seq(ConnType) /\ Len(conns') = Len(conns) /\ conns' # <<>>
           /\ Queries' = Tail(Queries) /\ Answers' = Answers /\ Late' = Late
           /\ Quiet => Quiet'
<1>1. /\ 1 \in 1 .. Len(conns) /\ conns[1] \in ConnType /\ Answers = conns[1].answers
      /\ Queries = conns[1].queries /\ Answers \in Seq(AnswerType)
    BY WireType
<1>2. [conns[1] EXCEPT !.queries = Tail(Queries), !.answers = Answers]
        = [conns[1] EXCEPT !.queries = Tail(Queries)]
    BY <1>1 DEF ConnType
<1>3. conns' = [conns EXCEPT ![1] = [conns[1] EXCEPT !.queries = Tail(Queries)]]
    BY <1>1
<1> QED
    BY <1>1, <1>2, <1>3, ConnServed

(***************************************************************************)
(* What the actions do to connection 1                                     *)
(***************************************************************************)
\* A connection that breaks keeps its requests and answers.
LEMMA NetBreaksWire ==
    ASSUME BaseInv, NetBreaks
    PROVE  /\ conns' \in Seq(ConnType) /\ Len(conns') = Len(conns)
           /\ (conns' = <<>> <=> conns = <<>>)
           /\ Queries' = Queries /\ Answers' = Answers /\ Late' = Late /\ Quiet'
<1>t. conns \in Seq(ConnType) /\ m.conn \in 0 .. Len(conns) /\ Quiet /\ Len(conns) \in Nat
    BY WireType DEF BaseInv, TypeOK, ConnsOK
<1>1. PICK c \in DOMAIN conns : conns' = Closed(c)
    BY DEF NetBreaks
<1>2. c \in 0 .. Len(conns)
    BY <1>t
<1> QED
    BY <1>t, <1>1, <1>2, ConnCloses

\* The poll command goes out behind what is under way.
LEMMA RxPollsWire ==
    ASSUME BaseInv, RxPolls
    PROVE  /\ conns' \in Seq(ConnType) /\ Len(conns') = Len(conns)
           /\ (conns' = <<>> <=> conns = <<>>)
           /\ Queries' = Queries \/ (m.conn = 1 /\ Queries' = Append(Queries, Query("poll", <<>>)))
           /\ Answers' = Answers /\ Late' = Late /\ Quiet'
<1>t. conns \in Seq(ConnType) /\ m.conn \in 0 .. Len(conns) /\ Quiet /\ Len(conns) \in Nat
    BY WireType DEF BaseInv, TypeOK, ConnsOK
<1>1. conns' = Sent(m.conn, Query("poll", <<>>))
    BY DEF RxPolls
<1>2. Query("poll", <<>>) \in QueryType
    BY NoBytes DEF Query, QueryType
<1> QED
    BY <1>t, <1>1, <1>2, ConnAsks

\* A poll is answered on connection 1, which has nothing else under way.
LEMMA RxPollAnsweredWire ==
    ASSUME BaseInv, RxPollAnswered
    PROVE  /\ conns' \in Seq(ConnType) /\ Len(conns') = Len(conns)
           /\ (conns' = <<>> <=> conns = <<>>)
           /\ Live /\ m.conn = 1 /\ conns # <<>> /\ Answers # <<>> /\ Queries = <<>>
           /\ Len(Answers) <= 1
           /\ Answer = Answers[1] /\ Answers[1].len \in Nat /\ Answers[1].data \in Seq(Nat)
           /\ Queries' = <<>> \/ Queries' = <<Query("header", <<>>)>>
           /\ Answers' = <<>> /\ Late' = Late /\ Quiet'
<1>t. conns \in Seq(ConnType) /\ m.conn \in 0 .. Len(conns) /\ Quiet /\ Len(conns) \in Nat
    BY WireType DEF BaseInv, TypeOK, ConnsOK
<1>1. Answered(m.conn)
    BY DEF RxPollAnswered
<1>2. /\ Live /\ m.conn = 1 /\ conns # <<>> /\ Answers # <<>> /\ Answer = Answers[1]
      /\ Answers[1].len \in Nat /\ Answers[1].data \in Seq(Nat)
    BY <1>t, <1>1, ConnAnswered
<1>3. Len(Answers) <= 1 /\ Queries = <<>>
    BY <1>2 DEF BaseInv, WireOK
<1>4. Query("header", <<>>) \in QueryType /\ conns' = Followed(1, Query("header", <<>>))
    BY <1>2, NoBytes DEF RxPollAnswered, Query, QueryType
<1>5. Append(<<>>, Query("header", <<>>)) = <<Query("header", <<>>)>>
    OBVIOUS
<1> QED
    BY <1>t, <1>2, <1>3, <1>4, <1>5, ConnFollowed

\* So is a request for the header, which data or nothing follows,
LEMMA RxHeaderAnsweredWire ==
    ASSUME BaseInv, RxHeaderAnswered
    PROVE  /\ conns' \in Seq(ConnType) /\ Len(conns') = Len(conns)
           /\ (conns' = <<>> <=> conns = <<>>)
           /\ Live /\ m.conn = 1 /\ conns # <<>> /\ Answers # <<>> /\ Queries = <<>>
           /\ Len(Answers) <= 1
           /\ Answer = Answers[1] /\ Answers[1].len \in Nat /\ Answers[1].data \in Seq(Nat)
           /\ \/ /\ Answers[1].len > 0 /\ rx' = "data" /\ rxlen' = Least(Answers[1].len, MasterMax) /\ lock' = lock
                 /\ Queries' = <<>> \/ Queries' = <<Query("data", <<>>)>>
              \/ Answers[1].len = 0 /\ rx' = "top" /\ rxlen' = 0 /\ lock' = "free" /\ Queries' = <<>>
           /\ Answers' = <<>> /\ Late' = Late /\ Quiet'
<1>t. conns \in Seq(ConnType) /\ m.conn \in 0 .. Len(conns) /\ Quiet /\ Len(conns) \in Nat
    BY WireType DEF BaseInv, TypeOK, ConnsOK
<1>1. Answered(m.conn)
    BY DEF RxHeaderAnswered
<1>2. /\ Live /\ m.conn = 1 /\ conns # <<>> /\ Answers # <<>> /\ Answer = Answers[1]
      /\ Answers[1].len \in Nat /\ Answers[1].data \in Seq(Nat)
    BY <1>t, <1>1, ConnAnswered
<1>3. Len(Answers) <= 1 /\ Queries = <<>>
    BY <1>2 DEF BaseInv, WireOK
<1>4. CASE Answer.len > 0
  <2>1. Query("data", <<>>) \in QueryType /\ conns' = Followed(1, Query("data", <<>>))
      BY <1>2, <1>4, NoBytes DEF RxHeaderAnswered, Query, QueryType
  <2>2. Append(<<>>, Query("data", <<>>)) = <<Query("data", <<>>)>>
      OBVIOUS
  <2>3. /\ rx' = "data" /\ rxlen' = Least(Answers[1].len, MasterMax) /\ lock' = lock
        /\ Answers[1].len > 0
      BY <1>2, <1>4 DEF RxHeaderAnswered
  <2> QED
      BY <1>t, <1>2, <1>3, <2>1, <2>2, <2>3, ConnFollowed
<1>5. CASE ~(Answer.len > 0)
  <2>1. conns' = Taken(1) /\ rxlen' = 0 /\ rx' = "top" /\ lock' = "free"
      BY <1>2, <1>5 DEF RxHeaderAnswered
  <2>2. Answers[1].len = 0
      BY <1>2, <1>5
  <2> QED
      BY <1>t, <1>2, <1>3, <2>1, <2>2, ConnTaken
<1> QED
    BY <1>4, <1>5

\* and a request for the data.
LEMMA RxDataAnsweredWire ==
    ASSUME BaseInv, RxDataAnswered
    PROVE  /\ conns' \in Seq(ConnType) /\ Len(conns') = Len(conns)
           /\ (conns' = <<>> <=> conns = <<>>)
           /\ Live /\ m.conn = 1 /\ conns # <<>> /\ Answers # <<>> /\ Queries = <<>>
           /\ Len(Answers) <= 1
           /\ Answer = Answers[1] /\ Answers[1].len \in Nat /\ Answers[1].data \in Seq(Nat)
           /\ Queries' = <<>> /\ Answers' = <<>> /\ Late' = Late /\ Quiet'
<1>t. conns \in Seq(ConnType) /\ m.conn \in 0 .. Len(conns) /\ Quiet /\ Len(conns) \in Nat
    BY WireType DEF BaseInv, TypeOK, ConnsOK
<1>1. Answered(m.conn)
    BY DEF RxDataAnswered
<1>2. /\ Live /\ m.conn = 1 /\ conns # <<>> /\ Answers # <<>> /\ Answer = Answers[1]
      /\ Answers[1].len \in Nat /\ Answers[1].data \in Seq(Nat)
    BY <1>t, <1>1, ConnAnswered
<1>3. Len(Answers) <= 1 /\ Queries = <<>>
    BY <1>2 DEF BaseInv, WireOK
<1>4. conns' = Taken(1)
    BY <1>2 DEF RxDataAnswered
<1> QED
    BY <1>t, <1>2, <1>3, <1>4, ConnTaken

\* After a request that failed the answer on that connection is overdue.
LEMMA RxFailsWire ==
    ASSUME BaseInv, RxFails
    PROVE  /\ conns' \in Seq(ConnType) /\ Len(conns') = Len(conns)
           /\ (conns' = <<>> <=> conns = <<>>)
           /\ Queries' = Queries /\ Answers' = Answers /\ Quiet'
           /\ m.conn = 1 => Late'
           /\ m.conn # 1 => Late' = Late
<1>t. conns \in Seq(ConnType) /\ m.conn \in 0 .. Len(conns) /\ Quiet /\ Len(conns) \in Nat
    BY WireType DEF BaseInv, TypeOK, ConnsOK
<1>1. conns' = [conns EXCEPT ![m.conn].late = TRUE]
    BY DEF RxFails
<1> QED
    BY <1>t, <1>1, ConnOverdue

\* A blob goes out behind what is under way, or on a connection of its own.
LEMMA WriteSendsWire ==
    ASSUME BaseInv, WriteSends
    PROVE  /\ conns' \in Seq(ConnType) /\ Len(conns') <= MaxConns /\ Len(conns') \in Nat
           /\ conns' # <<>> /\ Quiet'
           /\ Answers' = Answers /\ Late' = Late
           /\ \/ /\ m.connected /\ m.conn # 0 /\ m' = m /\ Len(conns') = Len(conns) /\ conns # <<>>
                 /\ Queries' = Queries \/ (m.conn = 1 /\ Queries' = Append(Queries, Query("put", blob)))
              \/ /\ ~m.connected /\ m' = [m EXCEPT !.connected = TRUE, !.conn = Len(conns) + 1]
                 /\ Len(conns') = Len(conns) + 1
                 /\ Queries' = IF conns = <<>> THEN <<Query("put", blob)>> ELSE Queries
<1>t. conns \in Seq(ConnType) /\ m.conn \in 0 .. Len(conns) /\ Quiet /\ Len(conns) \in Nat
    BY WireType DEF BaseInv, TypeOK, ConnsOK
<1>0. Query("put", blob) \in QueryType /\ Len(conns) <= MaxConns /\ MaxConns \in Nat
    BY Bounds DEF BaseInv, TypeOK, Query, QueryType
<1>1. CASE m.connected /\ m.conn # 0 /\ conns' = Sent(m.conn, Query("put", blob)) /\ UNCHANGED m
  <2>1. conns # <<>>
      BY <1>t, <1>1
  <2> QED
      BY <1>t, <1>0, <1>1, <2>1, ConnAsks
<1>2. CASE /\ ~m.connected /\ Len(conns) < MaxConns
           /\ conns' = Append(conns, [NewConn EXCEPT !.queries = <<Query("put", blob)>>])
           /\ m' = [m EXCEPT !.connected = TRUE, !.conn = Len(conns) + 1]
  <2> DEFINE c == [NewConn EXCEPT !.queries = <<Query("put", blob)>>]
  <2>1. c \in ConnType /\ c.answers = <<>> /\ c.late = FALSE /\ c.queries = <<Query("put", blob)>>
    <3>1. <<Query("put", blob)>> \in Seq(QueryType) /\ <<>> \in Seq(AnswerType)
        BY <1>0
    <3> QED
        BY <3>1 DEF NewConn, ConnType
  <2>2. conns' = Append(conns, c)
      BY <1>2
  <2> HIDE DEF c
  <2>3. /\ conns' \in Seq(ConnType) /\ Len(conns') = Len(conns) + 1 /\ conns' # <<>> /\ Quiet'
        /\ Answers' = Answers /\ Late' = Late
        /\ Queries' = IF conns = <<>> THEN <<Query("put", blob)>> ELSE Queries
      BY <1>t, <2>1, <2>2, ConnAdded
  <2> QED
      BY <1>t, <1>0, <1>2, <2>3
<1> QED
    BY <1>1, <1>2 DEF WriteSends

\* A blob is answered on connection 1, which has nothing else under way.
LEMMA WriteDoneWire ==
    ASSUME BaseInv, WriteDone
    PROVE  /\ conns' \in Seq(ConnType) /\ Len(conns') = Len(conns)
           /\ (conns' = <<>> <=> conns = <<>>)
           /\ Queries' = Queries /\ Answers' = <<>> /\ Late' = Late /\ Quiet'
           /\ Live /\ conns # <<>> /\ Answers # <<>> /\ Queries = <<>>
<1>t. conns \in Seq(ConnType) /\ m.conn \in 0 .. Len(conns) /\ Quiet /\ Len(conns) \in Nat
    BY WireType DEF BaseInv, TypeOK, ConnsOK
<1>1. Answered(m.conn) /\ conns' = Taken(m.conn)
    BY DEF WriteDone
<1>2. Live /\ m.conn = 1 /\ conns # <<>> /\ Answers # <<>>
    BY <1>t, <1>1, ConnAnswered
<1>3. Len(Answers) <= 1 /\ Queries = <<>>
    BY <1>2 DEF BaseInv, WireOK
<1> QED
    BY <1>t, <1>1, <1>2, <1>3, ConnTaken

\* ensure_disconnected leaves requests and answers under way.
LEMMA WriteFailsWire ==
    ASSUME BaseInv, WriteFails
    PROVE  /\ conns' \in Seq(ConnType) /\ Len(conns') = Len(conns)
           /\ (conns' = <<>> <=> conns = <<>>)
           /\ Queries' = Queries /\ Answers' = Answers /\ Late' = Late /\ Quiet'
<1>t. conns \in Seq(ConnType) /\ m.conn \in 0 .. Len(conns) /\ Quiet /\ Len(conns) \in Nat
    BY WireType DEF BaseInv, TypeOK, ConnsOK
<1>1. conns' = Closed(m.conn)
    BY DEF WriteFails
<1> QED
    BY <1>t, <1>1, ConnCloses

\* The slave takes the oldest request of connection 1 and appends its answer,
LEMMA SlaveRepliesWire ==
    ASSUME BaseInv, SlaveReplies
    PROVE  /\ conns' \in Seq(ConnType) /\ Len(conns') = Len(conns)
           /\ (conns' = <<>> <=> conns = <<>>)
           /\ conns # <<>> /\ Queries # <<>> /\ Queries \in Seq(QueryType)
           /\ Queries' = Tail(Queries) /\ Late' = Late /\ Quiet'
           /\ regs' = Written(Queries[1]) /\ session = 1
           /\ Answers' = Append(Answers, [len |-> regs.len, data |-> regs.data])
           /\ [len |-> regs.len, data |-> regs.data] \in AnswerType
<1>t. conns \in Seq(ConnType) /\ m.conn \in 0 .. Len(conns) /\ Quiet /\ Len(conns) \in Nat
    BY WireType DEF BaseInv, TypeOK, ConnsOK
<1>1. /\ session = 1 /\ conns # <<>> /\ conns[1].queries = Queries /\ Queries \in Seq(QueryType)
      /\ regs.len \in Nat /\ regs.data \in Seq(Nat)
    BY <1>t, WireType DEF SlaveReplies, BaseInv, ConnsOK, TypeOK, RegsType
<1>2. Queries # <<>> /\ regs' = Written(Head(Queries)) /\ Head(Queries) = Queries[1]
    BY <1>1 DEF SlaveReplies
<1>3. [len |-> regs.len, data |-> regs.data] \in AnswerType
    BY <1>1 DEF AnswerType
<1>4. conns' = [conns EXCEPT ![1].queries = Tail(@),
                             ![1].answers = Append(@, [len |-> regs.len, data |-> regs.data])]
    BY <1>1 DEF SlaveReplies
<1> QED
    BY <1>t, <1>1, <1>2, <1>3, <1>4, ConnReplies, Zenon

\* or takes it without an answer.
LEMMA SlaveReplyFailsWire ==
    ASSUME BaseInv, SlaveReplyFails
    PROVE  /\ conns' \in Seq(ConnType) /\ Len(conns') = Len(conns)
           /\ (conns' = <<>> <=> conns = <<>>)
           /\ conns # <<>> /\ Queries # <<>> /\ Queries \in Seq(QueryType)
           /\ Queries' = Tail(Queries) /\ Late' = Late /\ Quiet'
           /\ regs' = Written(Queries[1]) /\ session = 1
           /\ Answers' = Answers
<1>t. conns \in Seq(ConnType) /\ m.conn \in 0 .. Len(conns) /\ Quiet /\ Len(conns) \in Nat
    BY WireType DEF BaseInv, TypeOK, ConnsOK
<1>1. /\ session = 1 /\ conns # <<>> /\ conns[1].queries = Queries /\ Queries \in Seq(QueryType)
      /\ regs.len \in Nat /\ regs.data \in Seq(Nat)
    BY <1>t, WireType DEF SlaveReplyFails, BaseInv, ConnsOK, TypeOK, RegsType
<1>2. Queries # <<>> /\ regs' = Written(Head(Queries)) /\ Head(Queries) = Queries[1]
    BY <1>1 DEF SlaveReplyFails
<1>4. conns' = [conns EXCEPT ![1].queries = Tail(@)]
    BY <1>1 DEF SlaveReplyFails
<1> QED
    BY <1>t, <1>1, <1>2, <1>4, ConnReplyLost

\* attach adds a connection at most; what is under way on the first stays.
LEMMA AttachWire ==
    ASSUME BaseInv, MasterAttach \/ MasterAttachLeavesLock
    PROVE  /\ conns' \in Seq(ConnType) /\ Len(conns') \in Len(conns) .. Len(conns) + 1
           /\ (Len(conns') # Len(conns) => Len(conns) < MaxConns)
           /\ Queries' = Queries /\ Answers' = Answers /\ Late' = Late /\ Quiet'
           /\ conns' = <<>> => conns = <<>>
           /\ m.connected => m' = Reset /\ conns' = conns
           /\ ~m.connected =>
                 m' = [Reset EXCEPT !.connected = TRUE, !.conn = Len(conns) + 1] /\ Len(conns') = Len(conns) + 1
<1>t. conns \in Seq(ConnType) /\ m.conn \in 0 .. Len(conns) /\ Quiet /\ Len(conns) \in Nat
    BY WireType DEF BaseInv, TypeOK, ConnsOK
<1>1. CASE UNCHANGED conns /\ m.connected
    BY <1>t, <1>1 DEF Queries, Answers, Late, Quiet, AttachConnects, MasterAttach,
       MasterAttachLeavesLock
<1>2. CASE conns' = Append(conns, NewConn) /\ ~m.connected
  <2>1. /\ NewConn \in ConnType /\ NewConn.answers = <<>> /\ NewConn.late = FALSE
        /\ NewConn.queries = <<>>
    <3>1. <<>> \in Seq(QueryType) /\ <<>> \in Seq(AnswerType)
        OBVIOUS
    <3> QED
        BY <3>1 DEF NewConn, ConnType
  <2>2. conns = <<>> => Queries = <<>>
      BY DEF Queries
  <2>3. Len(conns) < MaxConns /\ m' = [Reset EXCEPT !.connected = TRUE, !.conn = Len(conns) + 1]
      BY <1>2 DEF MasterAttach, MasterAttachLeavesLock, AttachConnects
  <2>4. /\ conns' \in Seq(ConnType) /\ Len(conns') = Len(conns) + 1 /\ conns' # <<>> /\ Quiet'
        /\ Answers' = Answers /\ Late' = Late /\ Queries' = Queries
      BY <1>t, <1>2, <2>1, <2>2, ConnAdded
  <2> QED
      BY <1>t, <1>2, <2>3, <2>4
<1> QED
    BY <1>1, <1>2 DEF MasterAttach, MasterAttachLeavesLock, AttachConnects

\* detach leaves requests and answers under way, on either side.
LEMMA MasterDetachWire ==
    ASSUME BaseInv, MasterDetach
    PROVE  /\ conns' \in Seq(ConnType) /\ Len(conns') = Len(conns)
           /\ (conns' = <<>> <=> conns = <<>>)
           /\ Queries' = Queries /\ Answers' = Answers /\ Late' = Late /\ Quiet'
<1>t. conns \in Seq(ConnType) /\ m.conn \in 0 .. Len(conns) /\ Quiet /\ Len(conns) \in Nat
    BY WireType DEF BaseInv, TypeOK, ConnsOK
<1>1. conns' = Closed(m.conn)
    BY DEF MasterDetach
<1> QED
    BY <1>t, <1>1, ConnCloses

\* The same on the slave.
LEMMA SlaveDetachWire ==
    ASSUME BaseInv, SlaveDetach
    PROVE  /\ conns' \in Seq(ConnType) /\ Len(conns') = Len(conns)
           /\ (conns' = <<>> <=> conns = <<>>)
           /\ Queries' = Queries /\ Answers' = Answers /\ Late' = Late /\ Quiet'
<1>t. conns \in Seq(ConnType) /\ m.conn \in 0 .. Len(conns) /\ Quiet /\ Len(conns) \in Nat
    BY WireType DEF BaseInv, TypeOK, ConnsOK
<1>1. conns' = Closed(session) /\ session \in 0 .. Len(conns)
    BY <1>t, WireType DEF SlaveDetach, BaseInv, ConnsOK
<1> QED
    BY <1>t, <1>1, ConnCloses

(***************************************************************************)
(* What the actions do to the FIFOs and the registers                      *)
(***************************************************************************)
\* The fields of the records, one by one.
LEMMA Fields ==
    ASSUME TypeOK
    PROVE  /\ m.enabled \in BOOLEAN /\ m.connected \in BOOLEAN /\ m.stop \in BOOLEAN
           /\ m.dead \in BOOLEAN
           /\ m.overflow \in BOOLEAN /\ m.fifo \in Seq(Nat) /\ m.conn \in 0 .. MaxConns
           /\ Len(m.fifo) \in Nat
           /\ s.listening \in BOOLEAN /\ s.enabled \in BOOLEAN /\ s.sessionStop \in BOOLEAN
           /\ s.taskStop \in BOOLEAN /\ s.overflow \in BOOLEAN /\ s.pending \in BOOLEAN
           /\ s.fifo \in Seq(Nat) /\ s.tx \in Seq(Nat) /\ Len(s.fifo) \in Nat /\ Len(s.tx) \in Nat
           /\ regs.cmd \in {"none", "poll", "put"} /\ regs.len \in Nat
           /\ regs.m2s \in Seq(Nat) /\ regs.data \in Seq(Nat) /\ Len(regs.m2s) \in Nat
           /\ Len(regs.data) \in Nat
           /\ mread \in Seq(Nat) /\ sread \in Seq(Nat) /\ blob \in Seq(Nat) /\ Len(blob) \in Nat
           /\ mlost \subseteq Nat /\ mgone \subseteq Nat /\ slost \subseteq Nat
           /\ sgone \subseteq Nat
           /\ given \in Nat /\ put \in Nat /\ calls \in Nat /\ rxlen \in Nat
           /\ given <= MaxBytes /\ put <= MaxBytes /\ calls <= MaxCalls
<1>1. m \in MasterType /\ s \in SlaveType /\ regs \in RegsType
    BY DEF TypeOK
<1>2. /\ mread \in Seq(Nat) /\ sread \in Seq(Nat) /\ blob \in Seq(Nat)
      /\ mlost \subseteq Nat /\ mgone \subseteq Nat /\ slost \subseteq Nat /\ sgone \subseteq Nat
    BY DEF TypeOK
<1>3. /\ given \in Nat /\ put \in Nat /\ calls \in Nat /\ rxlen \in Nat
      /\ given <= MaxBytes /\ put <= MaxBytes /\ calls <= MaxCalls
    BY Bounds DEF TypeOK
<1>4. /\ m.enabled \in BOOLEAN /\ m.connected \in BOOLEAN /\ m.stop \in BOOLEAN
      /\ m.dead \in BOOLEAN
      /\ m.overflow \in BOOLEAN /\ m.fifo \in Seq(Nat) /\ m.conn \in 0 .. MaxConns
    BY <1>1 DEF MasterType
<1>5. /\ s.listening \in BOOLEAN /\ s.enabled \in BOOLEAN /\ s.sessionStop \in BOOLEAN
      /\ s.taskStop \in BOOLEAN /\ s.overflow \in BOOLEAN /\ s.pending \in BOOLEAN
      /\ s.fifo \in Seq(Nat) /\ s.tx \in Seq(Nat)
    BY <1>1 DEF SlaveType
<1>6. /\ regs.cmd \in {"none", "poll", "put"} /\ regs.len \in Nat
      /\ regs.m2s \in Seq(Nat) /\ regs.data \in Seq(Nat)
    BY <1>1 DEF RegsType
<1>7. \A q \in Seq(Nat) : Len(q) \in Nat
    OBVIOUS
<1> QED
    BY <1>2, <1>3, <1>4, <1>5, <1>6, <1>7

\* A push: what fits goes behind the FIFO, and the rest is lost.
LEMMA Push ==
    ASSUME NEW q \in Seq(Nat), NEW room \in Nat
    PROVE  /\ First(q, room) \o After(q, room) = q
           /\ First(q, room) \in Seq(Nat) /\ After(q, room) \in Seq(Nat)
           /\ Len(First(q, room)) <= room
           /\ room < Len(q) <=> After(q, room) # <<>>
<1>1. /\ First(q, room) \o After(q, room) = q
      /\ First(q, room) \in Seq(Nat) /\ After(q, room) \in Seq(Nat)
      /\ Len(First(q, room)) <= room
      /\ Len(q) <= room => After(q, room) = <<>>
      /\ room <= Len(q) => Len(After(q, room)) = Len(q) - room
    BY Cut
<1>2. Len(q) \in Nat /\ Len(<<>>) = 0
    OBVIOUS
<1> QED
    BY <1>1, <1>2

\* The push of the master's receive task,
LEMMA RxDataMoves ==
    ASSUME BaseInv, RxDataAnswered
    PROVE  \E f, l \in Seq(Nat) :
              /\ f \o l = First(Answers[1].data, rxlen) /\ Len(m.fifo) + Len(f) <= MasterCap
              /\ m' = [m EXCEPT !.fifo = m.fifo \o f, !.overflow = m.overflow \/ l # <<>>]
              /\ mlost' = mlost \union ToSet(l)
<1> DEFINE q == First(Answers[1].data, rxlen)
           room == MasterCap - Len(m.fifo)
<1>1. Answers[1].data \in Seq(Nat) /\ Answer = Answers[1]
    BY RxDataAnsweredWire
<1>2. rxlen \in Nat /\ Len(m.fifo) \in Nat
    BY Fields DEF BaseInv
<1>3. q \in Seq(Nat)
    BY <1>1, <1>2, Cut
<1>4. room \in Nat /\ room + Len(m.fifo) = MasterCap
    BY <1>2, Bounds DEF BaseInv, RoomOK
<1>5. /\ m' = [m EXCEPT !.fifo = m.fifo \o First(q, room), !.overflow = m.overflow \/ room < Len(q)]
      /\ mlost' = mlost \union ToSet(After(q, room))
    BY <1>1 DEF RxDataAnswered
<1> HIDE DEF q, room
<1>6. /\ First(q, room) \o After(q, room) = q
      /\ First(q, room) \in Seq(Nat) /\ After(q, room) \in Seq(Nat)
      /\ Len(First(q, room)) <= room
      /\ room < Len(q) <=> After(q, room) # <<>>
    BY <1>3, <1>4, Push
<1>7. (m.overflow \/ room < Len(q)) = (m.overflow \/ After(q, room) # <<>>)
    BY <1>6
<1>8. Len(m.fifo) + Len(First(q, room)) <= MasterCap
  <2>1. Len(First(q, room)) \in Nat
      BY <1>6
  <2> QED
      BY <1>2, <1>4, <1>6, <2>1, Bounds
<1> QED
    BY <1>5, <1>6, <1>7, <1>8, Zenon DEF q

\* and of the slave's consume_put_blob.
LEMMA ConsumeMoves ==
    ASSUME BaseInv, SlaveConsumes
    PROVE  \E f, l \in Seq(Nat) :
              /\ f \o l = First(regs.m2s, SlaveMax) /\ Len(s.fifo) + Len(f) <= SlaveCap
              /\ s' = [s EXCEPT !.fifo = s.fifo \o f, !.overflow = s.overflow \/ l # <<>>]
              /\ slost' = slost \union ToSet(l)
<1> DEFINE q == First(regs.m2s, SlaveMax)
           room == SlaveCap - Len(s.fifo)
<1>2. Len(s.fifo) \in Nat /\ regs.m2s \in Seq(Nat)
    BY Fields DEF BaseInv
<1>3. q \in Seq(Nat)
    BY <1>2, Cut, Bounds
<1>4. room \in Nat /\ room + Len(s.fifo) = SlaveCap
    BY <1>2, Bounds DEF BaseInv, RoomOK
<1>5. /\ s' = [s EXCEPT !.fifo = s.fifo \o First(q, room), !.overflow = s.overflow \/ room < Len(q)]
      /\ slost' = slost \union ToSet(After(q, room))
    BY DEF SlaveConsumes, Blob, Room
<1> HIDE DEF q, room
<1>6. /\ First(q, room) \o After(q, room) = q
      /\ First(q, room) \in Seq(Nat) /\ After(q, room) \in Seq(Nat)
      /\ Len(First(q, room)) <= room
      /\ room < Len(q) <=> After(q, room) # <<>>
    BY <1>3, <1>4, Push
<1>7. (s.overflow \/ room < Len(q)) = (s.overflow \/ After(q, room) # <<>>)
    BY <1>6
<1>8. Len(s.fifo) + Len(First(q, room)) <= SlaveCap
  <2>1. Len(First(q, room)) \in Nat
      BY <1>6
  <2> QED
      BY <1>2, <1>4, <1>6, <2>1, Bounds
<1> QED
    BY <1>5, <1>6, <1>7, <1>8 DEF q

\* A read: an overflow is reported, or the oldest bytes are taken.
LEMMA MasterReadMoves ==
    ASSUME BaseInv, MasterRead
    PROVE  \/ /\ m' = [m EXCEPT !.dead = FALSE] /\ UNCHANGED mhist
           \/ /\ m' = [m EXCEPT !.overflow = FALSE]
              /\ mgone' = mgone \union mlost /\ mlost' = {} /\ mread' = mread
           \/ /\ ~m.overflow /\ mlost' = mlost
              /\ \E f, r \in Seq(Nat) :
                    /\ f \o r = m.fifo /\ Len(r) <= Len(m.fifo) /\ m' = [m EXCEPT !.fifo = r]
                    /\ \/ mread' = mread \o f /\ mgone' = mgone
                       \/ mread' = mread /\ mgone' = mgone \union ToSet(f)
<1>1. CASE m.dead /\ m' = [m EXCEPT !.dead = FALSE] /\ UNCHANGED mhist
    BY <1>1
<1>2. CASE /\ ~m.dead /\ m.overflow /\ m' = [m EXCEPT !.overflow = FALSE]
           /\ mgone' = mgone \union mlost /\ mlost' = {} /\ UNCHANGED mread
    BY <1>2
<1>3. CASE /\ ~m.dead /\ ~m.overflow /\ m.enabled
           /\ m' = [m EXCEPT !.fifo = After(@, BufLen)]
           /\ IF RxRuns THEN mread' = mread \o First(m.fifo, BufLen) /\ UNCHANGED mgone
                        ELSE mgone' = mgone \union ToSet(First(m.fifo, BufLen)) /\ UNCHANGED mread
           /\ UNCHANGED mlost
  <2> DEFINE f == First(m.fifo, BufLen)
             r == After(m.fifo, BufLen)
  <2>1. f \in Seq(Nat) /\ r \in Seq(Nat) /\ f \o r = m.fifo /\ Len(r) <= Len(m.fifo)
      BY Fields, Bounds, Cut DEF BaseInv
  <2>2. /\ m' = [m EXCEPT !.fifo = r]
        /\ \/ mread' = mread \o f /\ mgone' = mgone
           \/ mread' = mread /\ mgone' = mgone \union ToSet(f)
      BY <1>3
  <2> HIDE DEF f, r
  <2> QED
      BY <1>3, <2>1, <2>2
<1> QED
    BY <1>1, <1>2, <1>3 DEF MasterRead

\* The same on the slave.
LEMMA SlaveReadMoves ==
    ASSUME BaseInv, SlaveRead
    PROVE  \/ /\ s' = [s EXCEPT !.overflow = FALSE]
              /\ sgone' = sgone \union slost /\ slost' = {} /\ sread' = sread
           \/ /\ ~s.overflow /\ slost' = slost /\ sgone' = sgone
              /\ \E f, r \in Seq(Nat) :
                    /\ f \o r = s.fifo /\ Len(r) <= Len(s.fifo) /\ s' = [s EXCEPT !.fifo = r]
                    /\ sread' = sread \o f
<1>1. CASE /\ s.overflow /\ s' = [s EXCEPT !.overflow = FALSE]
           /\ sgone' = sgone \union slost /\ slost' = {} /\ UNCHANGED sread
    BY <1>1
<1>2. CASE /\ ~s.overflow /\ s.enabled
           /\ s' = [s EXCEPT !.fifo = After(@, BufLen)]
           /\ sread' = sread \o First(s.fifo, BufLen) /\ UNCHANGED <<slost, sgone>>
  <2> DEFINE f == First(s.fifo, BufLen)
             r == After(s.fifo, BufLen)
  <2>1. f \in Seq(Nat) /\ r \in Seq(Nat) /\ f \o r = s.fifo /\ Len(r) <= Len(s.fifo)
      BY Fields, Bounds, Cut DEF BaseInv
  <2>2. s' = [s EXCEPT !.fifo = r] /\ sread' = sread \o f
      BY <1>2
  <2> HIDE DEF f, r
  <2> QED
      BY <1>2, <2>1, <2>2
<1> QED
    BY <1>1, <1>2 DEF SlaveRead

\* What the slave finds in the registers after it took a request.
LEMMA ServedFacts ==
    ASSUME BaseInv, Queries # <<>>
    PROVE  /\ Queries[1] \in QueryType /\ Len(Tail(Queries)) = Len(Queries) - 1
           /\ Len(Queries) \in Nat \ {0}
           /\ \A i \in 1 .. Len(Tail(Queries)) : Tail(Queries)[i] = Queries[i + 1] /\ i + 1 \in 1 .. Len(Queries)
           /\ 1 \in 1 .. Len(Queries)
           /\ Tail(Queries) \in Seq(QueryType)
           /\ Written(Queries[1]) \in RegsType
           /\ Written(Queries[1]).len = regs.len /\ Written(Queries[1]).data = regs.data
           /\ Queries[1].op = "poll" => Written(Queries[1]).cmd = "poll" /\ Written(Queries[1]).m2s = <<>>
           /\ Queries[1].op = "put" => Written(Queries[1]).cmd = "put" /\ Written(Queries[1]).m2s = Queries[1].blob
           /\ Queries[1].op \notin {"poll", "put"} => Written(Queries[1]) = regs
<1>1. Queries \in Seq(QueryType) /\ regs \in RegsType
    BY WireType DEF BaseInv, TypeOK
<1>2. /\ Queries[1] \in QueryType /\ Len(Tail(Queries)) = Len(Queries) - 1
      /\ Len(Queries) \in Nat \ {0}
      /\ \A i \in 1 .. Len(Tail(Queries)) : Tail(Queries)[i] = Queries[i + 1] /\ i + 1 \in 1 .. Len(Queries)
      /\ 1 \in 1 .. Len(Queries) /\ Tail(Queries) \in Seq(QueryType)
    BY <1>1, FirstQuery
<1> DEFINE q == Queries[1]
<1>3. q.blob \in Seq(Nat) /\ q.op \in {"poll", "header", "data", "put"}
    BY <1>2 DEF QueryType
<1>0. ASSUME NEW c \in {"poll", "put"}, NEW b \in Seq(Nat), Written(q) = [regs EXCEPT !.cmd = c, !.m2s = b]
      PROVE  /\ Written(q) \in RegsType /\ Written(q).len = regs.len /\ Written(q).data = regs.data
             /\ Written(q).cmd = c /\ Written(q).m2s = b
    BY <1>0, <1>1 DEF RegsType
<1>4. CASE q.op = "poll"
  <2>1. Written(q) = [regs EXCEPT !.cmd = "poll", !.m2s = <<>>]
      BY <1>4 DEF Written
  <2>2. /\ Written(q) \in RegsType /\ Written(q).len = regs.len /\ Written(q).data = regs.data
        /\ Written(q).cmd = "poll" /\ Written(q).m2s = <<>>
      BY <2>1, <1>0, NoBytes
  <2> QED
      BY <1>2, <1>4, <2>2
<1>5. CASE q.op = "put"
  <2>1. Written(q) = [regs EXCEPT !.cmd = "put", !.m2s = q.blob]
      BY <1>5 DEF Written
  <2>2. /\ Written(q) \in RegsType /\ Written(q).len = regs.len /\ Written(q).data = regs.data
        /\ Written(q).cmd = "put" /\ Written(q).m2s = q.blob
      BY <2>1, <1>0, <1>3
  <2> QED
      BY <1>2, <1>5, <2>2
<1>6. CASE q.op \notin {"poll", "put"}
  <2>1. Written(q) = regs
      BY <1>6 DEF Written
  <2> QED
      BY <1>1, <1>2, <1>6, <2>1
<1> QED
    BY <1>4, <1>5, <1>6

(***************************************************************************)
(* One request at a time                                                   *)
(***************************************************************************)
\* The bound on calls.
LEMMA OneCall ==
    ASSUME TypeOK, Called
    PROVE  calls' \in 0 .. MaxCalls
<1>1. calls \in Nat /\ calls' = calls + 1 /\ calls < MaxCalls /\ MaxCalls \in Nat
    BY Bounds, Fields DEF Called
<1> QED
    BY <1>1

\* A connection breaks.
LEMMA NetBreaksBase ==
    ASSUME BaseInv, NetBreaks
    PROVE  BaseInv'
<1>t. TypeOK /\ ConnsOK /\ LockOK /\ WireOK /\ RoomOK /\ BlobsOK /\ RegsOK
    BY DEF BaseInv
<1>w. /\ conns' \in Seq(ConnType) /\ Len(conns') = Len(conns) /\ (conns' = <<>> <=> conns = <<>>)
      /\ Queries' = Queries /\ Answers' = Answers /\ Late' = Late /\ Quiet'
    BY NetBreaksWire
<1>1. TypeOK'
  <2>1. conns' \in Seq(ConnType) /\ Len(conns') <= MaxConns
      BY <1>t, <1>w, Fields, Bounds, NoBytes DEF TypeOK, NetBreaks, master, slave, mhist, shist,
         counts, MasterType, SlaveType, RegsType
  <2> QED
      BY <1>t, <2>1 DEF TypeOK, NetBreaks, master, slave, mhist, shist, counts
<1>2. LockOK' /\ RoomOK' /\ RegsOK'
    BY <1>t, <1>w, Fields, Bounds, NoBytes, Zenon DEF LockOK, NetBreaks, master, slave, mhist,
       shist, counts, MasterType, SlaveType, RegsType, TypeOK, RoomOK, RegsOK
<1>3. ConnsOK' /\ WireOK'
    BY <1>t, <1>w, Fields, Bounds, NoBytes DEF ConnsOK, Quiet, NetBreaks, master, slave, mhist,
       shist, counts, MasterType, SlaveType, RegsType, TypeOK, WireOK, Live, Asked, Query
<1>4. BlobsOK'
    BY <1>t, <1>w, Fields, Bounds, NoBytes DEF BlobsOK, NetBreaks, master, slave, mhist,
       shist, counts, MasterType, SlaveType, RegsType, TypeOK
<1> QED
    BY <1>1, <1>2, <1>3, <1>4 DEF BaseInv

\* The receive task looks at the flags.
LEMMA RxLooksBase ==
    ASSUME BaseInv, RxLooks
    PROVE  BaseInv'
<1>t. TypeOK /\ ConnsOK /\ LockOK /\ WireOK /\ RoomOK /\ BlobsOK /\ RegsOK
    BY DEF BaseInv
<1>w. conns' = conns /\ Queries' = Queries /\ Answers' = Answers /\ Late' = Late /\ Quiet'
    BY <1>t DEF RxLooks, slave, mhist, shist, counts, Queries, Answers, Late, Quiet, ConnsOK
<1>1. TypeOK'
  <2>1. /\ lock' \in {"free", "rx", "app", "left"}
        /\ rx' \in {"off", "top", "want", "poll", "header", "data", "ended"} /\ rxlen' \in Nat
      BY <1>t, <1>w, Fields, Bounds, NoBytes DEF TypeOK, RxLooks, slave, mhist, shist, counts,
         MasterType, SlaveType, RegsType
  <2> QED
      BY <1>t, <2>1 DEF TypeOK, RxLooks, slave, mhist, shist, counts
<1>2. LockOK' /\ RoomOK' /\ RegsOK'
    BY <1>t, <1>w, Fields, Bounds, NoBytes, Zenon DEF LockOK, RxLooks, slave, mhist, shist,
       counts, MasterType, SlaveType, RegsType, TypeOK, RoomOK, RegsOK
<1>3. ConnsOK' /\ WireOK'
    BY <1>t, <1>w, Fields, Bounds, NoBytes DEF ConnsOK, Quiet, RxLooks, slave, mhist, shist,
       counts, MasterType, SlaveType, RegsType, TypeOK, WireOK, Live, Asked, Query
<1>4. BlobsOK'
    BY <1>t, <1>w, Fields, Bounds, NoBytes DEF BlobsOK, RxLooks, slave, mhist, shist,
       counts, MasterType, SlaveType, RegsType, TypeOK
<1> QED
    BY <1>1, <1>2, <1>3, <1>4 DEF BaseInv

\* It takes the lock and sends the poll command,
LEMMA RxPollsBase ==
    ASSUME BaseInv, RxPolls
    PROVE  BaseInv'
<1>t. TypeOK /\ ConnsOK /\ LockOK /\ WireOK /\ RoomOK /\ BlobsOK /\ RegsOK
    BY DEF BaseInv
<1>w. /\ conns' \in Seq(ConnType) /\ Len(conns') = Len(conns) /\ (conns' = <<>> <=> conns = <<>>)
      /\ Queries' = Queries \/ (m.conn = 1 /\ Queries' = Append(Queries, Query("poll", <<>>)))
      /\ Answers' = Answers /\ Late' = Late /\ Quiet'
    BY RxPollsWire
<1>1. TypeOK'
  <2>1. /\ lock' \in {"free", "rx", "app", "left"}
        /\ rx' \in {"off", "top", "want", "poll", "header", "data", "ended"} /\ rxlen' \in Nat
      BY <1>t, <1>w, Fields, Bounds, NoBytes DEF TypeOK, RxPolls, slave, mhist, shist, counts,
         Query, MasterType, SlaveType, RegsType
  <2>2. conns' \in Seq(ConnType) /\ Len(conns') <= MaxConns
      BY <1>t, <1>w, Fields, Bounds, NoBytes DEF TypeOK, RxPolls, slave, mhist, shist, counts,
         Query, MasterType, SlaveType, RegsType
  <2> QED
      BY <1>t, <2>1, <2>2 DEF TypeOK, RxPolls, slave, mhist, shist, counts
<1>2. WireOK'
  <2> SUFFICES ASSUME Live'
               PROVE  \/ Queries' = Asked' /\ Answers' = <<>>
                      \/ Queries' = <<>> /\ Answers' = <<>>
      BY <1>w, NoBytes DEF WireOK
  <2>1. Asked' = <<Query("poll", <<>>)>>
      BY <1>t DEF Asked, RxPolls, Query
  <2>2. Live /\ Asked = <<>>
      BY <1>t, <1>w DEF Live, Asked, RxPolls, LockOK
  <2>3. Queries = <<>> /\ Answers = <<>>
      BY <1>t, <2>2 DEF WireOK
  <2>4. Append(<<>>, Query("poll", <<>>)) = <<Query("poll", <<>>)>>
      OBVIOUS
  <2> QED
      BY <1>w, <2>1, <2>3, <2>4
<1>3. BlobsOK'
  <2>q. Queries \in Seq(QueryType)
      BY WireType DEF BaseInv, TypeOK
  <2> DEFINE q == Query("poll", <<>>)
  <2>1. q \in QueryType /\ q.op # "put" /\ q.blob = <<>>
      BY NoBytes DEF Query, QueryType
  <2> HIDE DEF q
  <2>2. Queries' = Queries \/ Queries' = Append(Queries, q)
      BY <1>w DEF q
  <2>3. ASSUME NEW i \in 1 .. Len(Queries')
        PROVE  /\ Len(Queries'[i].blob) <= MasterMax
               /\ (Queries'[i].op # "put" => Queries'[i].blob = <<>>)
    <3>1. (i \in 1 .. Len(Queries) /\ Queries'[i] = Queries[i]) \/ Queries'[i] = q
        BY <2>q, <2>1, <2>2, <2>3, LastQuery
    <3> QED
        BY <1>t, <2>1, <3>1, NoBytes, Bounds DEF BlobsOK
  <2> QED
      BY <1>t, <1>w, <2>3 DEF BlobsOK, RxPolls, slave
<1>4. LockOK' /\ RoomOK' /\ RegsOK'
    BY <1>t, <1>w, Fields, Bounds, NoBytes, Zenon DEF LockOK, RxPolls, slave, mhist, shist,
       counts, Query, MasterType, SlaveType, RegsType, TypeOK, RoomOK, RegsOK
<1>5. ConnsOK'
    BY <1>t, <1>w, Fields, Bounds, NoBytes DEF ConnsOK, Quiet, RxPolls, slave, mhist, shist,
       counts, Query, MasterType, SlaveType, RegsType, TypeOK
<1> QED
    BY <1>1, <1>2, <1>3, <1>4, <1>5 DEF BaseInv

\* or finds that the context was closed.
LEMMA RxPollUnsentBase ==
    ASSUME BaseInv, RxPollUnsent
    PROVE  BaseInv'
<1>t. TypeOK /\ ConnsOK /\ LockOK /\ WireOK /\ RoomOK /\ BlobsOK /\ RegsOK
    BY DEF BaseInv
<1>w. conns' = conns /\ Queries' = Queries /\ Answers' = Answers /\ Late' = Late /\ Quiet'
    BY <1>t DEF RxPollUnsent, slave, mhist, shist, counts, Queries, Answers, Late, Quiet, ConnsOK
<1>1. TypeOK'
  <2>1. m' \in MasterType
      BY <1>t, <1>w, Fields, Bounds, NoBytes DEF TypeOK, RxPollUnsent, slave, mhist, shist,
         counts, MasterType, SlaveType, RegsType
  <2>2. /\ lock' \in {"free", "rx", "app", "left"}
        /\ rx' \in {"off", "top", "want", "poll", "header", "data", "ended"} /\ rxlen' \in Nat
      BY <1>t, <1>w, Fields, Bounds, NoBytes DEF TypeOK, RxPollUnsent, slave, mhist, shist,
         counts, MasterType, SlaveType, RegsType
  <2> QED
      BY <1>t, <2>1, <2>2 DEF TypeOK, RxPollUnsent, slave, mhist, shist, counts
<1>2. LockOK' /\ RoomOK' /\ RegsOK'
    BY <1>t, <1>w, Fields, Bounds, NoBytes, Zenon DEF LockOK, RxPollUnsent, slave, mhist, shist,
       counts, MasterType, SlaveType, RegsType, TypeOK, RoomOK, RegsOK
<1>3. ConnsOK' /\ WireOK'
    BY <1>t, <1>w, Fields, Bounds, NoBytes DEF ConnsOK, Quiet, RxPollUnsent, slave, mhist, shist,
       counts, MasterType, SlaveType, RegsType, TypeOK, WireOK, Live, Asked, Query
<1>4. BlobsOK'
    BY <1>t, <1>w, Fields, Bounds, NoBytes DEF BlobsOK, RxPollUnsent, slave, mhist, shist,
       counts, MasterType, SlaveType, RegsType, TypeOK
<1> QED
    BY <1>1, <1>2, <1>3, <1>4 DEF BaseInv

\* The poll is answered, and the header is asked for.
LEMMA RxPollAnsweredBase ==
    ASSUME BaseInv, RxPollAnswered
    PROVE  BaseInv'
<1>t. TypeOK /\ ConnsOK /\ LockOK /\ WireOK /\ RoomOK /\ BlobsOK /\ RegsOK
    BY DEF BaseInv
<1>w. /\ conns' \in Seq(ConnType) /\ Len(conns') = Len(conns) /\ (conns' = <<>> <=> conns = <<>>)
      /\ Live /\ m.conn = 1 /\ conns # <<>> /\ Answers # <<>> /\ Queries = <<>>
      /\ Len(Answers) <= 1
      /\ Answer = Answers[1] /\ Answers[1].len \in Nat /\ Answers[1].data \in Seq(Nat)
      /\ Queries' = <<>> \/ Queries' = <<Query("header", <<>>)>>
      /\ Answers' = <<>> /\ Late' = Late /\ Quiet'
    BY RxPollAnsweredWire
<1>1. TypeOK'
  <2>1. /\ lock' \in {"free", "rx", "app", "left"}
        /\ rx' \in {"off", "top", "want", "poll", "header", "data", "ended"} /\ rxlen' \in Nat
      BY <1>t, <1>w, Fields, Bounds, NoBytes DEF TypeOK, RxPollAnswered, slave, mhist, shist,
         counts, Query, MasterType, SlaveType, RegsType
  <2>2. conns' \in Seq(ConnType) /\ Len(conns') <= MaxConns
      BY <1>t, <1>w, Fields, Bounds, NoBytes DEF TypeOK, RxPollAnswered, slave, mhist, shist,
         counts, Query, MasterType, SlaveType, RegsType
  <2> QED
      BY <1>t, <2>1, <2>2 DEF TypeOK, RxPollAnswered, slave, mhist, shist, counts
<1>2. BlobsOK'
  <2>q. Queries \in Seq(QueryType)
      BY WireType DEF BaseInv, TypeOK
  <2> DEFINE q == Query("header", <<>>)
  <2>1. q \in QueryType /\ q.op # "put" /\ q.blob = <<>>
      BY NoBytes DEF Query, QueryType
  <2> HIDE DEF q
  <2>2. Queries' = <<>> \/ Queries' = <<q>>
      BY <1>w DEF q
  <2>3. ASSUME NEW i \in 1 .. Len(Queries')
        PROVE  /\ Len(Queries'[i].blob) <= MasterMax
               /\ (Queries'[i].op # "put" => Queries'[i].blob = <<>>)
    <3>1. (i \in 1 .. Len(Queries) /\ Queries'[i] = Queries[i]) \/ Queries'[i] = q
        BY <2>q, <2>1, <2>2, <2>3, LastQuery
    <3> QED
        BY <1>t, <2>1, <3>1, NoBytes, Bounds DEF BlobsOK
  <2> QED
      BY <1>t, <1>w, <2>3 DEF BlobsOK, RxPollAnswered, slave
<1>3. LockOK' /\ RoomOK' /\ RegsOK'
    BY <1>t, <1>w, Fields, Bounds, NoBytes, Zenon DEF LockOK, RxPollAnswered, slave, mhist, shist,
       counts, Query, MasterType, SlaveType, RegsType, TypeOK, RoomOK, RegsOK
<1>4. ConnsOK' /\ WireOK'
    BY <1>t, <1>w, Fields, Bounds, NoBytes DEF ConnsOK, Quiet, RxPollAnswered, slave, mhist,
       shist, counts, Query, MasterType, SlaveType, RegsType, TypeOK, WireOK, Live, Asked
<1> QED
    BY <1>1, <1>2, <1>3, <1>4 DEF BaseInv

\* The header says how many bytes to ask for; none ends the round.
LEMMA RxHeaderAnsweredBase ==
    ASSUME BaseInv, RxHeaderAnswered
    PROVE  BaseInv'
<1>t. TypeOK /\ ConnsOK /\ LockOK /\ WireOK /\ RoomOK /\ BlobsOK /\ RegsOK
    BY DEF BaseInv
<1>w. /\ conns' \in Seq(ConnType) /\ Len(conns') = Len(conns) /\ (conns' = <<>> <=> conns = <<>>)
      /\ Live /\ m.conn = 1 /\ conns # <<>> /\ Answers # <<>> /\ Queries = <<>>
      /\ Len(Answers) <= 1
      /\ Answer = Answers[1] /\ Answers[1].len \in Nat /\ Answers[1].data \in Seq(Nat)
      /\ \/ /\ Answers[1].len > 0 /\ rx' = "data" /\ rxlen' = Least(Answers[1].len, MasterMax) /\ lock' = lock
            /\ Queries' = <<>> \/ Queries' = <<Query("data", <<>>)>>
         \/ Answers[1].len = 0 /\ rx' = "top" /\ rxlen' = 0 /\ lock' = "free" /\ Queries' = <<>>
      /\ Answers' = <<>> /\ Late' = Late /\ Quiet'
    BY RxHeaderAnsweredWire
<1>1. TypeOK'
  <2>1. /\ lock' \in {"free", "rx", "app", "left"}
        /\ rx' \in {"off", "top", "want", "poll", "header", "data", "ended"} /\ rxlen' \in Nat
      BY <1>t, <1>w, Fields, Bounds, NoBytes, Zenon DEF TypeOK, RxHeaderAnswered, slave, mhist,
         shist, counts, Query, Least, MasterType, SlaveType, RegsType
  <2>2. conns' \in Seq(ConnType) /\ Len(conns') <= MaxConns
      BY <1>t, <1>w, Fields, Bounds, NoBytes DEF TypeOK, RxHeaderAnswered, slave, mhist, shist,
         counts, Query, Least, MasterType, SlaveType, RegsType
  <2> QED
      BY <1>t, <2>1, <2>2 DEF TypeOK, RxHeaderAnswered, slave, mhist, shist, counts
<1>2. BlobsOK'
  <2>q. Queries \in Seq(QueryType)
      BY WireType DEF BaseInv, TypeOK
  <2> DEFINE q == Query("data", <<>>)
  <2>1. q \in QueryType /\ q.op # "put" /\ q.blob = <<>>
      BY NoBytes DEF Query, QueryType
  <2> HIDE DEF q
  <2>2. Queries' = <<>> \/ Queries' = <<q>>
      BY <1>w DEF q
  <2>3. ASSUME NEW i \in 1 .. Len(Queries')
        PROVE  /\ Len(Queries'[i].blob) <= MasterMax
               /\ (Queries'[i].op # "put" => Queries'[i].blob = <<>>)
    <3>1. (i \in 1 .. Len(Queries) /\ Queries'[i] = Queries[i]) \/ Queries'[i] = q
        BY <2>q, <2>1, <2>2, <2>3, LastQuery
    <3> QED
        BY <1>t, <2>1, <3>1, NoBytes, Bounds DEF BlobsOK
  <2> QED
      BY <1>t, <1>w, <2>3 DEF BlobsOK, RxHeaderAnswered, slave
<1>3. LockOK' /\ RoomOK' /\ RegsOK'
    BY <1>t, <1>w, Fields, Bounds, NoBytes, Zenon DEF LockOK, RxHeaderAnswered, slave, mhist,
       shist, counts, Query, Least, MasterType, SlaveType, RegsType, TypeOK, RoomOK, RegsOK
<1>4. ConnsOK' /\ WireOK'
    BY <1>t, <1>w, Fields, Bounds, NoBytes DEF ConnsOK, Quiet, RxHeaderAnswered, slave, mhist,
       shist, counts, Query, Least, MasterType, SlaveType, RegsType, TypeOK, WireOK, Live, Asked
<1> QED
    BY <1>1, <1>2, <1>3, <1>4 DEF BaseInv

\* The data comes and is pushed.
LEMMA RxDataAnsweredBase ==
    ASSUME BaseInv, RxDataAnswered
    PROVE  BaseInv'
<1>t. TypeOK /\ ConnsOK /\ LockOK /\ WireOK /\ RoomOK /\ BlobsOK /\ RegsOK
    BY DEF BaseInv
<1>w. /\ conns' \in Seq(ConnType) /\ Len(conns') = Len(conns) /\ (conns' = <<>> <=> conns = <<>>)
      /\ Live /\ m.conn = 1 /\ conns # <<>> /\ Answers # <<>> /\ Queries = <<>>
      /\ Len(Answers) <= 1
      /\ Answer = Answers[1] /\ Answers[1].len \in Nat /\ Answers[1].data \in Seq(Nat)
      /\ Queries' = <<>> /\ Answers' = <<>> /\ Late' = Late /\ Quiet'
    BY RxDataAnsweredWire
<1>1. TypeOK'
  <2>1. m' \in MasterType
      <3>1. PICK f \in Seq(Nat), l \in Seq(Nat) :
                /\ f \o l = First(Answers[1].data, rxlen) /\ Len(m.fifo) + Len(f) <= MasterCap
                /\ m' = [m EXCEPT !.fifo = m.fifo \o f, !.overflow = m.overflow \/ l # <<>>]
                /\ mlost' = mlost \union ToSet(l)
          BY RxDataMoves, Zenon
      <3>2. m.fifo \o f \in Seq(Nat) /\ (m.overflow \/ l # <<>>) \in BOOLEAN
          BY <1>t, Fields
      <3> QED
          BY <1>t, <3>1, <3>2, Zenon DEF TypeOK, MasterType
  <2>2. /\ lock' \in {"free", "rx", "app", "left"}
        /\ rx' \in {"off", "top", "want", "poll", "header", "data", "ended"} /\ rxlen' \in Nat
      BY <1>t, <1>w, Fields, Bounds, NoBytes DEF TypeOK, RxDataAnswered, slave, shist, counts,
         MasterType, SlaveType, RegsType
  <2>3. /\ mlost' \subseteq Nat /\ mgone' \subseteq Nat /\ slost' \subseteq Nat
        /\ sgone' \subseteq Nat
      <3>1. PICK f \in Seq(Nat), l \in Seq(Nat) :
                /\ f \o l = First(Answers[1].data, rxlen) /\ Len(m.fifo) + Len(f) <= MasterCap
                /\ m' = [m EXCEPT !.fifo = m.fifo \o f, !.overflow = m.overflow \/ l # <<>>]
                /\ mlost' = mlost \union ToSet(l)
          BY RxDataMoves
      <3> QED
          BY <1>t, Fields, <3>1, SetOf DEF RxDataAnswered, shist
  <2>4. conns' \in Seq(ConnType) /\ Len(conns') <= MaxConns
      BY <1>t, <1>w, Fields, Bounds, NoBytes DEF TypeOK, RxDataAnswered, slave, shist, counts,
         MasterType, SlaveType, RegsType
  <2> QED
      BY <1>t, <2>1, <2>2, <2>3, <2>4, Zenon DEF TypeOK, RxDataAnswered, slave, shist, counts
<1>2. RoomOK'
  <2>1. PICK f \in Seq(Nat), l \in Seq(Nat) :
            /\ f \o l = First(Answers[1].data, rxlen) /\ Len(m.fifo) + Len(f) <= MasterCap
            /\ m' = [m EXCEPT !.fifo = m.fifo \o f, !.overflow = m.overflow \/ l # <<>>]
            /\ mlost' = mlost \union ToSet(l)
      BY RxDataMoves
  <2>2. Len(m.fifo \o f) = Len(m.fifo) + Len(f) /\ ToSet(<<>>) = {} /\ (l = <<>> => ToSet(l) = {})
      BY <1>t, NoBytes
  <2>3. m'.fifo = m.fifo \o f /\ m'.overflow = (m.overflow \/ l # <<>>) /\ s' = s /\ slost' = slost
      BY <1>t, <2>1, Zenon DEF RxDataAnswered, slave, shist, TypeOK, MasterType
  <2> QED
      BY <1>t, <2>1, <2>2, <2>3 DEF RoomOK
<1>3. LockOK' /\ RegsOK'
    BY <1>t, <1>w, Fields, Bounds, NoBytes DEF LockOK, RxDataAnswered, slave, shist, counts,
       MasterType, SlaveType, RegsType, TypeOK, RegsOK
<1>4. ConnsOK' /\ WireOK'
    BY <1>t, <1>w, Fields, Bounds, NoBytes DEF ConnsOK, Quiet, RxDataAnswered, slave, shist,
       counts, MasterType, SlaveType, RegsType, TypeOK, WireOK, Live, Asked, Query
<1>5. BlobsOK'
    BY <1>t, <1>w, Fields, Bounds, NoBytes DEF BlobsOK, RxDataAnswered, slave, shist,
       counts, MasterType, SlaveType, RegsType, TypeOK
<1> QED
    BY <1>1, <1>2, <1>3, <1>4, <1>5 DEF BaseInv

\* A request of the round fails: the task ends, and the answer stays overdue.
LEMMA RxFailsBase ==
    ASSUME BaseInv, RxFails
    PROVE  BaseInv'
<1>t. TypeOK /\ ConnsOK /\ LockOK /\ WireOK /\ RoomOK /\ BlobsOK /\ RegsOK
    BY DEF BaseInv
<1>w. /\ conns' \in Seq(ConnType) /\ Len(conns') = Len(conns) /\ (conns' = <<>> <=> conns = <<>>)
      /\ Queries' = Queries /\ Answers' = Answers /\ Quiet'
      /\ m.conn = 1 => Late'
      /\ m.conn # 1 => Late' = Late
    BY RxFailsWire
<1>1. TypeOK'
  <2>1. m' \in MasterType
      BY <1>t, <1>w, Fields, Bounds, NoBytes, Zenon DEF TypeOK, RxFails, slave, mhist, shist,
         counts, MasterType, SlaveType, RegsType
  <2>2. /\ lock' \in {"free", "rx", "app", "left"}
        /\ rx' \in {"off", "top", "want", "poll", "header", "data", "ended"} /\ rxlen' \in Nat
      BY <1>t, <1>w, Fields, Bounds, NoBytes DEF TypeOK, RxFails, slave, mhist, shist, counts,
         MasterType, SlaveType, RegsType
  <2>3. conns' \in Seq(ConnType) /\ Len(conns') <= MaxConns
      BY <1>t, <1>w, Fields, Bounds, NoBytes DEF TypeOK, RxFails, slave, mhist, shist, counts,
         MasterType, SlaveType, RegsType
  <2> QED
      BY <1>t, <2>1, <2>2, <2>3 DEF TypeOK, RxFails, slave, mhist, shist, counts
<1>2. LockOK' /\ RoomOK' /\ RegsOK'
    BY <1>t, <1>w, Fields, Bounds, NoBytes, Zenon DEF LockOK, RxFails, slave, mhist, shist,
       counts, MasterType, SlaveType, RegsType, TypeOK, RoomOK, RegsOK
<1>3. ConnsOK' /\ WireOK'
    BY <1>t, <1>w, Fields, Bounds, NoBytes, Zenon DEF ConnsOK, Quiet, RxFails, slave, mhist,
       shist, counts, MasterType, SlaveType, RegsType, TypeOK, WireOK, Live, Asked, Query
<1>4. BlobsOK'
    BY <1>t, <1>w, Fields, Bounds, NoBytes DEF BlobsOK, RxFails, slave, mhist, shist,
       counts, MasterType, SlaveType, RegsType, TypeOK
<1> QED
    BY <1>1, <1>2, <1>3, <1>4 DEF BaseInv

\* A write finds the stream disabled,
LEMMA WriteDisabledBase ==
    ASSUME BaseInv, WriteDisabled
    PROVE  BaseInv'
<1>t. TypeOK /\ ConnsOK /\ LockOK /\ WireOK /\ RoomOK /\ BlobsOK /\ RegsOK
    BY DEF BaseInv
<1>w. conns' = conns /\ Queries' = Queries /\ Answers' = Answers /\ Late' = Late /\ Quiet'
    BY <1>t DEF WriteDisabled, slave, mhist, shist, counts, Queries, Answers, Late, Quiet, ConnsOK
<1>1. TypeOK'
  <2>1. app' \in {"idle", "want", "put"} /\ blob' \in Seq(Nat)
      BY <1>t, <1>w, Fields, Bounds, NoBytes DEF TypeOK, WriteDisabled, slave, mhist, shist,
         counts, MasterType, SlaveType, RegsType
  <2> QED
      BY <1>t, <2>1 DEF TypeOK, WriteDisabled, slave, mhist, shist, counts
<1>2. LockOK' /\ RoomOK' /\ RegsOK'
    BY <1>t, <1>w, Fields, Bounds, NoBytes, Zenon DEF LockOK, WriteDisabled, slave, mhist, shist,
       counts, MasterType, SlaveType, RegsType, TypeOK, RoomOK, RegsOK
<1>3. ConnsOK' /\ WireOK'
    BY <1>t, <1>w, Fields, Bounds, NoBytes DEF ConnsOK, Quiet, WriteDisabled, slave, mhist, shist,
       counts, MasterType, SlaveType, RegsType, TypeOK, WireOK, Live, Asked, Query
<1>4. BlobsOK'
    BY <1>t, <1>w, Fields, Bounds, NoBytes DEF BlobsOK, WriteDisabled, slave, mhist, shist,
       counts, MasterType, SlaveType, RegsType, TypeOK
<1> QED
    BY <1>1, <1>2, <1>3, <1>4 DEF BaseInv

\* sends its blob over the connection there is or over a new one,
LEMMA WriteSendsBase ==
    ASSUME BaseInv, WriteSends
    PROVE  BaseInv'
<1>t. TypeOK /\ ConnsOK /\ LockOK /\ WireOK /\ RoomOK /\ BlobsOK /\ RegsOK
    BY DEF BaseInv
<1>w. /\ conns' \in Seq(ConnType) /\ Len(conns') <= MaxConns /\ Len(conns') \in Nat
      /\ conns' # <<>> /\ Quiet'
      /\ Answers' = Answers /\ Late' = Late
      /\ \/ /\ m.connected /\ m.conn # 0 /\ m' = m /\ Len(conns') = Len(conns) /\ conns # <<>>
            /\ Queries' = Queries \/ (m.conn = 1 /\ Queries' = Append(Queries, Query("put", blob)))
         \/ /\ ~m.connected /\ m' = [m EXCEPT !.connected = TRUE, !.conn = Len(conns) + 1]
            /\ Len(conns') = Len(conns) + 1
            /\ Queries' = IF conns = <<>> THEN <<Query("put", blob)>> ELSE Queries
    BY WriteSendsWire
<1>1. TypeOK'
  <2>1. m' \in MasterType
      <3>3. Len(conns) \in Nat /\ Len(conns) <= MaxConns /\ MaxConns \in Nat
          BY <1>t, Bounds DEF TypeOK
      <3>4. ~m.connected => Len(conns) + 1 \in 0 .. MaxConns
          BY <1>w, <3>3
      <3> QED
          BY <1>t, <1>w, <3>4, Zenon DEF TypeOK, MasterType
  <2>2. /\ lock' \in {"free", "rx", "app", "left"}
        /\ rx' \in {"off", "top", "want", "poll", "header", "data", "ended"} /\ rxlen' \in Nat
      BY <1>t, <1>w, Fields, Bounds, NoBytes DEF TypeOK, WriteSends, slave, mhist, shist, counts,
         Query, NewConn, MasterType, SlaveType, RegsType
  <2>3. app' \in {"idle", "want", "put"} /\ blob' \in Seq(Nat)
      BY <1>t, <1>w, Fields, Bounds, NoBytes DEF TypeOK, WriteSends, slave, mhist, shist, counts,
         Query, NewConn, MasterType, SlaveType, RegsType
  <2>4. conns' \in Seq(ConnType) /\ Len(conns') <= MaxConns
      BY <1>t, <1>w, Fields, Bounds, NoBytes DEF TypeOK, WriteSends, slave, mhist, shist, counts,
         Query, NewConn, MasterType, SlaveType, RegsType
  <2> QED
      BY <1>t, <2>1, <2>2, <2>3, <2>4 DEF TypeOK, WriteSends, slave, mhist, shist, counts
<1>2. ConnsOK'
  <2>1. Len(conns) \in Nat
      BY <1>t DEF TypeOK
  <2>2. CASE m.connected /\ m.conn # 0 /\ m' = m /\ Len(conns') = Len(conns)
      BY <1>t, <1>w, <2>1, <2>2 DEF ConnsOK, WriteSends, slave
  <2>3. CASE /\ ~m.connected /\ m' = [m EXCEPT !.connected = TRUE, !.conn = Len(conns) + 1]
             /\ Len(conns') = Len(conns) + 1
    <3>1. m'.conn = Len(conns) + 1 /\ m'.connected
        BY <1>t, <2>3 DEF TypeOK, MasterType
    <3>2. Len(conns) + 1 = 1 => ~Late'
      <4>1. Len(conns) + 1 = 1 => conns = <<>>
          BY <1>t, <2>1 DEF TypeOK
      <4>2. conns = <<>> => ~Late
          BY DEF Late
      <4> QED
          BY <1>w, <4>1, <4>2
    <3> QED
        BY <1>t, <1>w, <2>1, <2>3, <3>1, <3>2 DEF ConnsOK, WriteSends, slave
  <2> QED
      BY <1>w, <2>2, <2>3
<1>3. WireOK'
  <2> SUFFICES ASSUME Live'
               PROVE  \/ Queries' = Asked' /\ Answers' = <<>>
                      \/ Queries' = <<>> /\ Answers' = <<>>
      BY <1>w, NoBytes DEF WireOK
  <2>0. Len(conns) \in Nat /\ Len(<<>>) = 0
      BY <1>t DEF TypeOK
  <2>1. Asked' = <<Query("put", blob)>>
      BY <1>t DEF Asked, WriteSends, LockOK, Query
  <2>2. CASE m.connected /\ m.conn # 0 /\ m' = m
    <3>1. Live /\ Asked = <<>>
        BY <1>t, <1>w, <2>2 DEF Live, Asked, WriteSends, LockOK
    <3>2. Queries = <<>> /\ Answers = <<>>
        BY <1>t, <3>1 DEF WireOK
    <3>3. Append(<<>>, Query("put", blob)) = <<Query("put", blob)>>
        OBVIOUS
    <3> QED
        BY <1>w, <2>1, <2>2, <3>2, <3>3
  <2>3. CASE ~m.connected /\ m' = [m EXCEPT !.connected = TRUE, !.conn = Len(conns) + 1]
    <3>1. m'.conn = Len(conns) + 1
        BY <1>t, <2>3 DEF TypeOK, MasterType
    <3>2. conns = <<>>
        BY <2>0, <3>1, <1>t DEF Live, TypeOK
    <3>3. Answers = <<>>
        BY <3>2 DEF Answers
    <3> QED
        BY <1>w, <2>1, <2>3, <3>2, <3>3
  <2> QED
      BY <1>w, <2>2, <2>3
<1>4. BlobsOK'
  <2>q. Queries \in Seq(QueryType)
      BY WireType DEF BaseInv, TypeOK
  <2> DEFINE q == Query("put", blob)
  <2>1. q \in QueryType /\ q.op = "put" /\ q.blob = blob
      BY <1>t, Fields DEF Query, QueryType
  <2> HIDE DEF q
  <2>2. Queries' = Queries \/ Queries' = Append(Queries, q) \/ Queries' = <<q>>
      BY <1>w DEF q
  <2>3. ASSUME NEW i \in 1 .. Len(Queries')
        PROVE  /\ Len(Queries'[i].blob) <= MasterMax
               /\ (Queries'[i].op # "put" => Queries'[i].blob = <<>>)
    <3>1. CASE Queries' = Queries
        BY <1>t, <2>3, <3>1 DEF BlobsOK
    <3>2. CASE Queries' = Append(Queries, q)
      <4>1. (i \in 1 .. Len(Queries) /\ Queries'[i] = Queries[i]) \/ Queries'[i] = q
          BY <2>q, <2>1, <2>3, <3>2, LastQuery
      <4> QED
          BY <1>t, <2>1, <4>1 DEF BlobsOK
    <3>3. CASE Queries' = <<q>>
      <4>1. Queries'[i] = q
          BY <2>3, <3>3
      <4> QED
          BY <1>t, <2>1, <4>1 DEF BlobsOK
    <3> QED
        BY <2>2, <3>1, <3>2, <3>3
  <2> QED
      BY <1>t, <2>3 DEF BlobsOK, WriteSends, slave
<1>5. LockOK' /\ RoomOK' /\ RegsOK'
    BY <1>t, <1>w, Fields, Bounds, NoBytes, Zenon DEF LockOK, WriteSends, slave, mhist, shist,
       counts, Query, NewConn, MasterType, SlaveType, RegsType, TypeOK, RoomOK, RegsOK
<1> QED
    BY <1>1, <1>2, <1>3, <1>4, <1>5 DEF BaseInv

\* cannot connect,
LEMMA WriteUnsentBase ==
    ASSUME BaseInv, WriteUnsent
    PROVE  BaseInv'
<1>t. TypeOK /\ ConnsOK /\ LockOK /\ WireOK /\ RoomOK /\ BlobsOK /\ RegsOK
    BY DEF BaseInv
<1>w. conns' = conns /\ Queries' = Queries /\ Answers' = Answers /\ Late' = Late /\ Quiet'
    BY <1>t DEF WriteUnsent, slave, mhist, shist, counts, Queries, Answers, Late, Quiet, ConnsOK
<1>1. TypeOK'
  <2>1. m' \in MasterType
      <3>1. 0 \in 0 .. MaxConns
          BY Bounds
      <3>2. m' = [m EXCEPT !.connected = FALSE, !.conn = 0]
          BY DEF WriteUnsent
      <3> QED
          BY <1>t, <3>1, <3>2 DEF TypeOK, MasterType
  <2>2. app' \in {"idle", "want", "put"} /\ blob' \in Seq(Nat)
      BY <1>t, <1>w, Fields, Bounds, NoBytes DEF TypeOK, WriteUnsent, slave, mhist, shist, counts,
         MasterType, SlaveType, RegsType
  <2> QED
      BY <1>t, <2>1, <2>2 DEF TypeOK, WriteUnsent, slave, mhist, shist, counts
<1>2. LockOK' /\ RoomOK' /\ RegsOK'
    BY <1>t, <1>w, Fields, Bounds, NoBytes, Zenon DEF LockOK, WriteUnsent, slave, mhist, shist,
       counts, MasterType, SlaveType, RegsType, TypeOK, RoomOK, RegsOK
<1>3. ConnsOK' /\ WireOK'
    BY <1>t, <1>w, Fields, Bounds, NoBytes DEF ConnsOK, Quiet, WriteUnsent, slave, mhist, shist,
       counts, MasterType, SlaveType, RegsType, TypeOK, WireOK, Live, Asked, Query
<1>4. BlobsOK'
    BY <1>t, <1>w, Fields, Bounds, NoBytes DEF BlobsOK, WriteUnsent, slave, mhist, shist,
       counts, MasterType, SlaveType, RegsType, TypeOK
<1> QED
    BY <1>1, <1>2, <1>3, <1>4 DEF BaseInv

\* is answered,
LEMMA WriteDoneBase ==
    ASSUME BaseInv, WriteDone
    PROVE  BaseInv'
<1>t. TypeOK /\ ConnsOK /\ LockOK /\ WireOK /\ RoomOK /\ BlobsOK /\ RegsOK
    BY DEF BaseInv
<1>w. /\ conns' \in Seq(ConnType) /\ Len(conns') = Len(conns) /\ (conns' = <<>> <=> conns = <<>>)
      /\ Queries' = Queries /\ Answers' = <<>> /\ Late' = Late /\ Quiet'
      /\ Live /\ conns # <<>> /\ Answers # <<>> /\ Queries = <<>>
    BY WriteDoneWire
<1>1. TypeOK'
  <2>1. /\ lock' \in {"free", "rx", "app", "left"}
        /\ rx' \in {"off", "top", "want", "poll", "header", "data", "ended"} /\ rxlen' \in Nat
      BY <1>t, <1>w, Fields, Bounds, NoBytes DEF TypeOK, WriteDone, slave, mhist, shist, counts,
         MasterType, SlaveType, RegsType
  <2>2. app' \in {"idle", "want", "put"} /\ blob' \in Seq(Nat)
      BY <1>t, <1>w, Fields, Bounds, NoBytes DEF TypeOK, WriteDone, slave, mhist, shist, counts,
         MasterType, SlaveType, RegsType
  <2>3. given' \in 0 .. MaxBytes /\ put' \in 0 .. MaxBytes /\ acked' \subseteq 1 .. put'
      <3>1. ToSet(blob) \subseteq 1 .. put
          BY <1>t DEF BlobsOK
      <3> QED
          BY <1>t, <3>1 DEF TypeOK, WriteDone
  <2>4. conns' \in Seq(ConnType) /\ Len(conns') <= MaxConns
      BY <1>t, <1>w, Fields, Bounds, NoBytes DEF TypeOK, WriteDone, slave, mhist, shist, counts,
         MasterType, SlaveType, RegsType
  <2> QED
      BY <1>t, <2>1, <2>2, <2>3, <2>4 DEF TypeOK, WriteDone, slave, mhist, shist, counts
<1>2. LockOK' /\ RoomOK' /\ RegsOK'
    BY <1>t, <1>w, Fields, Bounds, NoBytes, Zenon DEF LockOK, WriteDone, slave, mhist, shist,
       counts, MasterType, SlaveType, RegsType, TypeOK, RoomOK, RegsOK
<1>3. ConnsOK' /\ WireOK'
    BY <1>t, <1>w, Fields, Bounds, NoBytes DEF ConnsOK, Quiet, WriteDone, slave, mhist, shist,
       counts, MasterType, SlaveType, RegsType, TypeOK, WireOK, Live, Asked, Query
<1>4. BlobsOK'
    BY <1>t, <1>w, Fields, Bounds, NoBytes DEF BlobsOK, WriteDone, slave, mhist, shist,
       counts, MasterType, SlaveType, RegsType, TypeOK
<1> QED
    BY <1>1, <1>2, <1>3, <1>4 DEF BaseInv

\* or fails and closes the connection.
LEMMA WriteFailsBase ==
    ASSUME BaseInv, WriteFails
    PROVE  BaseInv'
<1>t. TypeOK /\ ConnsOK /\ LockOK /\ WireOK /\ RoomOK /\ BlobsOK /\ RegsOK
    BY DEF BaseInv
<1>w. /\ conns' \in Seq(ConnType) /\ Len(conns') = Len(conns) /\ (conns' = <<>> <=> conns = <<>>)
      /\ Queries' = Queries /\ Answers' = Answers /\ Late' = Late /\ Quiet'
    BY WriteFailsWire
<1>1. TypeOK'
  <2>1. m' \in MasterType
      <3>1. 0 \in 0 .. MaxConns
          BY Bounds
      <3>2. m' = [m EXCEPT !.connected = FALSE, !.conn = 0]
          BY DEF WriteFails
      <3> QED
          BY <1>t, <3>1, <3>2 DEF TypeOK, MasterType
  <2>2. /\ lock' \in {"free", "rx", "app", "left"}
        /\ rx' \in {"off", "top", "want", "poll", "header", "data", "ended"} /\ rxlen' \in Nat
      BY <1>t, <1>w, Fields, Bounds, NoBytes DEF TypeOK, WriteFails, slave, mhist, shist, counts,
         MasterType, SlaveType, RegsType
  <2>3. app' \in {"idle", "want", "put"} /\ blob' \in Seq(Nat)
      BY <1>t, <1>w, Fields, Bounds, NoBytes DEF TypeOK, WriteFails, slave, mhist, shist, counts,
         MasterType, SlaveType, RegsType
  <2>4. conns' \in Seq(ConnType) /\ Len(conns') <= MaxConns
      BY <1>t, <1>w, Fields, Bounds, NoBytes DEF TypeOK, WriteFails, slave, mhist, shist, counts,
         MasterType, SlaveType, RegsType
  <2> QED
      BY <1>t, <2>1, <2>2, <2>3, <2>4 DEF TypeOK, WriteFails, slave, mhist, shist, counts
<1>2. LockOK' /\ RoomOK' /\ RegsOK'
    BY <1>t, <1>w, Fields, Bounds, NoBytes, Zenon DEF LockOK, WriteFails, slave, mhist, shist,
       counts, MasterType, SlaveType, RegsType, TypeOK, RoomOK, RegsOK
<1>3. ConnsOK' /\ WireOK'
    BY <1>t, <1>w, Fields, Bounds, NoBytes DEF ConnsOK, Quiet, WriteFails, slave, mhist, shist,
       counts, MasterType, SlaveType, RegsType, TypeOK, WireOK, Live, Asked, Query
<1>4. BlobsOK'
    BY <1>t, <1>w, Fields, Bounds, NoBytes DEF BlobsOK, WriteFails, slave, mhist, shist,
       counts, MasterType, SlaveType, RegsType, TypeOK
<1> QED
    BY <1>1, <1>2, <1>3, <1>4 DEF BaseInv

\* The slave's task accepts the first connection,
LEMMA SlaveAcceptsBase ==
    ASSUME BaseInv, SlaveAccepts
    PROVE  BaseInv'
<1>t. TypeOK /\ ConnsOK /\ LockOK /\ WireOK /\ RoomOK /\ BlobsOK /\ RegsOK
    BY DEF BaseInv
<1>w. conns' = conns /\ Queries' = Queries /\ Answers' = Answers /\ Late' = Late /\ Quiet'
    BY <1>t DEF SlaveAccepts, master, mhist, shist, counts, NextTurn, Queries, Answers, Late,
       Quiet, ConnsOK
<1>1. TypeOK'
  <2>1. task' \in {"off", "accept", "receive", "process", "ended"} /\ session' \in 0 .. MaxConns
      BY <1>t, <1>w, Bounds DEF TypeOK, SlaveAccepts, master, mhist, shist, counts, NextTurn,
         MasterType, SlaveType, RegsType
  <2> QED
      BY <1>t, <2>1 DEF TypeOK, SlaveAccepts, master, mhist, shist, counts
<1>2. LockOK' /\ RoomOK' /\ RegsOK'
    BY <1>t, <1>w, Fields, Bounds, NoBytes, Zenon DEF LockOK, SlaveAccepts, master, mhist, shist,
       counts, NextTurn, MasterType, SlaveType, RegsType, TypeOK, RoomOK, RegsOK
<1>3. ConnsOK' /\ WireOK'
    BY <1>t, <1>w, Fields, Bounds, NoBytes DEF ConnsOK, Quiet, SlaveAccepts, master, mhist, shist,
       counts, NextTurn, MasterType, SlaveType, RegsType, TypeOK, WireOK, Live, Asked, Query
<1>4. BlobsOK'
    BY <1>t, <1>w, Fields, Bounds, NoBytes DEF BlobsOK, SlaveAccepts, master, mhist, shist,
       counts, NextTurn, MasterType, SlaveType, RegsType, TypeOK
<1> QED
    BY <1>1, <1>2, <1>3, <1>4 DEF BaseInv

\* or stops without one.
LEMMA SlaveStopsBase ==
    ASSUME BaseInv, SlaveStops
    PROVE  BaseInv'
<1>t. TypeOK /\ ConnsOK /\ LockOK /\ WireOK /\ RoomOK /\ BlobsOK /\ RegsOK
    BY DEF BaseInv
<1>w. conns' = conns /\ Queries' = Queries /\ Answers' = Answers /\ Late' = Late /\ Quiet'
    BY <1>t DEF SlaveStops, master, mhist, shist, counts, Queries, Answers, Late, Quiet, ConnsOK
<1>1. TypeOK'
  <2>1. task' \in {"off", "accept", "receive", "process", "ended"} /\ session' \in 0 .. MaxConns
      BY <1>t, <1>w, Fields, Bounds, NoBytes DEF TypeOK, SlaveStops, master, mhist, shist, counts,
         MasterType, SlaveType, RegsType
  <2> QED
      BY <1>t, <2>1 DEF TypeOK, SlaveStops, master, mhist, shist, counts
<1>2. LockOK' /\ RoomOK' /\ RegsOK'
    BY <1>t, <1>w, Fields, Bounds, NoBytes, Zenon DEF LockOK, SlaveStops, master, mhist, shist,
       counts, MasterType, SlaveType, RegsType, TypeOK, RoomOK, RegsOK
<1>3. ConnsOK' /\ WireOK'
    BY <1>t, <1>w, Fields, Bounds, NoBytes DEF ConnsOK, Quiet, SlaveStops, master, mhist, shist,
       counts, MasterType, SlaveType, RegsType, TypeOK, WireOK, Live, Asked, Query
<1>4. BlobsOK'
    BY <1>t, <1>w, Fields, Bounds, NoBytes DEF BlobsOK, SlaveStops, master, mhist, shist,
       counts, MasterType, SlaveType, RegsType, TypeOK
<1> QED
    BY <1>1, <1>2, <1>3, <1>4 DEF BaseInv

\* A request is answered from the registers.
LEMMA SlaveRepliesBase ==
    ASSUME BaseInv, SlaveReplies
    PROVE  BaseInv'
<1>t. TypeOK /\ ConnsOK /\ LockOK /\ WireOK /\ RoomOK /\ BlobsOK /\ RegsOK
    BY DEF BaseInv
<1>w. /\ conns' \in Seq(ConnType) /\ Len(conns') = Len(conns) /\ (conns' = <<>> <=> conns = <<>>)
      /\ conns # <<>> /\ Queries # <<>> /\ Queries \in Seq(QueryType)
      /\ Queries' = Tail(Queries) /\ Late' = Late /\ Quiet'
      /\ regs' = Written(Queries[1]) /\ session = 1
      /\ Answers' = Append(Answers, [len |-> regs.len, data |-> regs.data])
      /\ [len |-> regs.len, data |-> regs.data] \in AnswerType
    BY SlaveRepliesWire
<1>1. TypeOK'
  <2>1. regs' \in RegsType
      BY <1>w, <1>t, ServedFacts DEF BaseInv
  <2>2. task' \in {"off", "accept", "receive", "process", "ended"} /\ session' \in 0 .. MaxConns
      BY <1>t, <1>w, Fields, Bounds, NoBytes DEF TypeOK, SlaveReplies, master, mhist, shist,
         counts, Written, MasterType, SlaveType, RegsType
  <2>3. conns' \in Seq(ConnType) /\ Len(conns') <= MaxConns
      BY <1>t, <1>w, Fields, Bounds, NoBytes DEF TypeOK, SlaveReplies, master, mhist, shist,
         counts, Written, MasterType, SlaveType, RegsType
  <2> QED
      BY <1>t, <2>1, <2>2, <2>3, Zenon DEF TypeOK, SlaveReplies, master, mhist, shist, counts
<1>2. WireOK'
  <2> SUFFICES ASSUME Live'
               PROVE  Queries' = <<>> /\ Len(Answers') <= 1 /\ (Answers' # <<>> => Asked' # <<>>)
      BY DEF WireOK
  <2>1. Live /\ Asked' = Asked
      BY <1>w DEF Live, Asked, SlaveReplies, master
  <2>2. Queries = Asked /\ Answers = <<>> /\ Asked # <<>>
      BY <1>t, <1>w, <2>1 DEF WireOK
  <2>3. PICK q : Asked = <<q>>
      BY <2>2 DEF Asked
  <2>4. Tail(<<q>>) = <<>>
      OBVIOUS
  <2>5. Len(Answers') <= 1
      BY <1>w, <2>2
  <2> QED
      BY <1>w, <2>1, <2>2, <2>3, <2>4, <2>5
<1>3. BlobsOK'
  <2>1. /\ Queries[1] \in QueryType
        /\ \A i \in 1 .. Len(Tail(Queries)) : Tail(Queries)[i] = Queries[i + 1] /\ i + 1 \in 1 .. Len(Queries)
        /\ 1 \in 1 .. Len(Queries)
      BY <1>w, ServedFacts
  <2>2. \A i \in 1 .. Len(Queries') :
           Len(Queries'[i].blob) <= MasterMax /\ (Queries'[i].op # "put" => Queries'[i].blob = <<>>)
      BY <1>t, <1>w, <2>1 DEF BlobsOK
  <2>3. Len(regs'.m2s) <= MasterMax
    <3>1. regs'.m2s \in {<<>>, Queries[1].blob, regs.m2s}
        BY <1>w, ServedFacts
    <3> QED
        BY <1>t, <2>1, <3>1, Bounds DEF BlobsOK
  <2> QED
      BY <1>t, <2>2, <2>3 DEF BlobsOK, SlaveReplies, master
<1>4. LockOK' /\ RoomOK' /\ RegsOK'
    BY <1>t, <1>w, Fields, Bounds, NoBytes, Zenon DEF LockOK, SlaveReplies, master, mhist, shist,
       counts, Written, MasterType, SlaveType, RegsType, TypeOK, RoomOK, RegsOK
<1>5. ConnsOK'
    BY <1>t, <1>w, Fields, Bounds, NoBytes, Zenon DEF ConnsOK, Quiet, SlaveReplies, master, mhist,
       shist, counts, Written, MasterType, SlaveType, RegsType, TypeOK
<1> QED
    BY <1>1, <1>2, <1>3, <1>4, <1>5 DEF BaseInv

\* The answer cannot be sent.
LEMMA SlaveReplyFailsBase ==
    ASSUME BaseInv, SlaveReplyFails
    PROVE  BaseInv'
<1>t. TypeOK /\ ConnsOK /\ LockOK /\ WireOK /\ RoomOK /\ BlobsOK /\ RegsOK
    BY DEF BaseInv
<1>w. /\ conns' \in Seq(ConnType) /\ Len(conns') = Len(conns) /\ (conns' = <<>> <=> conns = <<>>)
      /\ conns # <<>> /\ Queries # <<>> /\ Queries \in Seq(QueryType)
      /\ Queries' = Tail(Queries) /\ Late' = Late /\ Quiet'
      /\ regs' = Written(Queries[1]) /\ session = 1
      /\ Answers' = Answers
    BY SlaveReplyFailsWire
<1>1. TypeOK'
  <2>1. regs' \in RegsType
      BY <1>w, <1>t, ServedFacts DEF BaseInv
  <2>2. task' \in {"off", "accept", "receive", "process", "ended"} /\ session' \in 0 .. MaxConns
      BY <1>t, <1>w, Fields, Bounds, NoBytes DEF TypeOK, SlaveReplyFails, master, mhist, shist,
         counts, Written, MasterType, SlaveType, RegsType
  <2>3. conns' \in Seq(ConnType) /\ Len(conns') <= MaxConns
      BY <1>t, <1>w, Fields, Bounds, NoBytes DEF TypeOK, SlaveReplyFails, master, mhist, shist,
         counts, Written, MasterType, SlaveType, RegsType
  <2> QED
      BY <1>t, <2>1, <2>2, <2>3, Zenon DEF TypeOK, SlaveReplyFails, master, mhist, shist, counts
<1>2. WireOK'
  <2> SUFFICES ASSUME Live'
               PROVE  Queries' = <<>> /\ Len(Answers') <= 1 /\ (Answers' # <<>> => Asked' # <<>>)
      BY DEF WireOK
  <2>1. Live /\ Asked' = Asked
      BY <1>w DEF Live, Asked, SlaveReplyFails, master
  <2>2. Queries = Asked /\ Answers = <<>> /\ Asked # <<>>
      BY <1>t, <1>w, <2>1 DEF WireOK
  <2>3. PICK q : Asked = <<q>>
      BY <2>2 DEF Asked
  <2>4. Tail(<<q>>) = <<>>
      OBVIOUS
  <2>5. Len(Answers') <= 1
      BY <1>w, <2>2
  <2> QED
      BY <1>w, <2>1, <2>2, <2>3, <2>4, <2>5
<1>3. BlobsOK'
  <2>1. /\ Queries[1] \in QueryType
        /\ \A i \in 1 .. Len(Tail(Queries)) : Tail(Queries)[i] = Queries[i + 1] /\ i + 1 \in 1 .. Len(Queries)
        /\ 1 \in 1 .. Len(Queries)
      BY <1>w, ServedFacts
  <2>2. \A i \in 1 .. Len(Queries') :
           Len(Queries'[i].blob) <= MasterMax /\ (Queries'[i].op # "put" => Queries'[i].blob = <<>>)
      BY <1>t, <1>w, <2>1 DEF BlobsOK
  <2>3. Len(regs'.m2s) <= MasterMax
    <3>1. regs'.m2s \in {<<>>, Queries[1].blob, regs.m2s}
        BY <1>w, ServedFacts
    <3> QED
        BY <1>t, <2>1, <3>1, NoBytes, Bounds DEF BlobsOK
  <2> QED
      BY <1>t, <2>2, <2>3 DEF BlobsOK, SlaveReplyFails, master
<1>4. LockOK' /\ RoomOK' /\ RegsOK'
    BY <1>t, <1>w, Fields, Bounds, NoBytes, Zenon DEF LockOK, SlaveReplyFails, master, mhist,
       shist, counts, Written, MasterType, SlaveType, RegsType, TypeOK, RoomOK, RegsOK
<1>5. ConnsOK'
    BY <1>t, <1>w, Fields, Bounds, NoBytes DEF ConnsOK, Quiet, SlaveReplyFails, master, mhist,
       shist, counts, Written, MasterType, SlaveType, RegsType, TypeOK
<1> QED
    BY <1>1, <1>2, <1>3, <1>4, <1>5 DEF BaseInv

\* The session ends.
LEMMA SlaveSessionEndsBase ==
    ASSUME BaseInv, SlaveSessionEnds
    PROVE  BaseInv'
<1>t. TypeOK /\ ConnsOK /\ LockOK /\ WireOK /\ RoomOK /\ BlobsOK /\ RegsOK
    BY DEF BaseInv
<1>w. conns' = conns /\ Queries' = Queries /\ Answers' = Answers /\ Late' = Late /\ Quiet'
    BY <1>t DEF SlaveSessionEnds, master, mhist, shist, counts, Queries, Answers, Late, Quiet,
       ConnsOK
<1>1. TypeOK'
  <2>1. task' \in {"off", "accept", "receive", "process", "ended"} /\ session' \in 0 .. MaxConns
      BY <1>t, <1>w, Fields, Bounds, NoBytes DEF TypeOK, SlaveSessionEnds, master, mhist, shist,
         counts, MasterType, SlaveType, RegsType
  <2> QED
      BY <1>t, <2>1 DEF TypeOK, SlaveSessionEnds, master, mhist, shist, counts
<1>2. LockOK' /\ RoomOK' /\ RegsOK'
    BY <1>t, <1>w, Fields, Bounds, NoBytes, Zenon DEF LockOK, SlaveSessionEnds, master, mhist,
       shist, counts, MasterType, SlaveType, RegsType, TypeOK, RoomOK, RegsOK
<1>3. ConnsOK' /\ WireOK'
    BY <1>t, <1>w, Fields, Bounds, NoBytes DEF ConnsOK, Quiet, SlaveSessionEnds, master, mhist,
       shist, counts, MasterType, SlaveType, RegsType, TypeOK, WireOK, Live, Asked, Query
<1>4. BlobsOK'
    BY <1>t, <1>w, Fields, Bounds, NoBytes DEF BlobsOK, SlaveSessionEnds, master, mhist,
       shist, counts, MasterType, SlaveType, RegsType, TypeOK
<1> QED
    BY <1>1, <1>2, <1>3, <1>4 DEF BaseInv

\* The blob of a write is pushed.
LEMMA SlaveConsumesBase ==
    ASSUME BaseInv, SlaveConsumes
    PROVE  BaseInv'
<1>t. TypeOK /\ ConnsOK /\ LockOK /\ WireOK /\ RoomOK /\ BlobsOK /\ RegsOK
    BY DEF BaseInv
<1>w. conns' = conns /\ Queries' = Queries /\ Answers' = Answers /\ Late' = Late /\ Quiet'
    BY <1>t DEF SlaveConsumes, master, mhist, counts, Idle, Blob, Room, NextTurn, Queries,
       Answers, Late, Quiet, ConnsOK
<1>1. TypeOK'
  <2>1. s' \in SlaveType
      <3>1. PICK f \in Seq(Nat), l \in Seq(Nat) :
                /\ f \o l = First(regs.m2s, SlaveMax) /\ Len(s.fifo) + Len(f) <= SlaveCap
                /\ s' = [s EXCEPT !.fifo = s.fifo \o f, !.overflow = s.overflow \/ l # <<>>]
                /\ slost' = slost \union ToSet(l)
          BY ConsumeMoves, Zenon
      <3>2. s.fifo \o f \in Seq(Nat) /\ (s.overflow \/ l # <<>>) \in BOOLEAN
          BY <1>t, Fields
      <3> QED
          BY <1>t, <3>1, <3>2, Zenon DEF TypeOK, SlaveType
  <2>2. regs' \in RegsType
      BY <1>t, <1>w, Fields, Bounds, NoBytes DEF TypeOK, SlaveConsumes, master, mhist, counts,
         Idle, Blob, Room, NextTurn, MasterType, SlaveType, RegsType
  <2>3. task' \in {"off", "accept", "receive", "process", "ended"} /\ session' \in 0 .. MaxConns
      BY <1>t, <1>w, Fields, Bounds, NoBytes DEF TypeOK, SlaveConsumes, master, mhist, counts,
         Idle, Blob, Room, NextTurn, MasterType, SlaveType, RegsType
  <2>4. /\ mlost' \subseteq Nat /\ mgone' \subseteq Nat /\ slost' \subseteq Nat
        /\ sgone' \subseteq Nat
      <3>1. PICK f \in Seq(Nat), l \in Seq(Nat) :
                /\ f \o l = First(regs.m2s, SlaveMax) /\ Len(s.fifo) + Len(f) <= SlaveCap
                /\ s' = [s EXCEPT !.fifo = s.fifo \o f, !.overflow = s.overflow \/ l # <<>>]
                /\ slost' = slost \union ToSet(l)
          BY ConsumeMoves
      <3> QED
          BY <1>t, Fields, <3>1, SetOf DEF SlaveConsumes, mhist
  <2> QED
      BY <1>t, <2>1, <2>2, <2>3, <2>4 DEF TypeOK, SlaveConsumes, master, mhist, counts
<1>2. RoomOK'
  <2>1. PICK f \in Seq(Nat), l \in Seq(Nat) :
            /\ f \o l = First(regs.m2s, SlaveMax) /\ Len(s.fifo) + Len(f) <= SlaveCap
            /\ s' = [s EXCEPT !.fifo = s.fifo \o f, !.overflow = s.overflow \/ l # <<>>]
            /\ slost' = slost \union ToSet(l)
      BY ConsumeMoves
  <2>2. Len(s.fifo \o f) = Len(s.fifo) + Len(f) /\ ToSet(<<>>) = {} /\ (l = <<>> => ToSet(l) = {})
      BY <1>t, NoBytes
  <2>3. s'.fifo = s.fifo \o f /\ s'.overflow = (s.overflow \/ l # <<>>) /\ m' = m /\ mlost' = mlost
      BY <1>t, <2>1 DEF SlaveConsumes, master, mhist, TypeOK, SlaveType
  <2> QED
      BY <1>t, <2>1, <2>2, <2>3 DEF RoomOK
<1>3. LockOK' /\ RegsOK'
    BY <1>t, <1>w, Fields, Bounds, NoBytes DEF LockOK, SlaveConsumes, master, mhist, counts, Idle,
       Blob, Room, NextTurn, MasterType, SlaveType, RegsType, TypeOK, RegsOK
<1>4. ConnsOK' /\ WireOK'
    BY <1>t, <1>w, Fields, Bounds, NoBytes DEF ConnsOK, Quiet, SlaveConsumes, master, mhist,
       counts, Idle, Blob, Room, NextTurn, MasterType, SlaveType, RegsType, TypeOK, WireOK, Live,
       Asked, Query
<1>5. BlobsOK'
    BY <1>t, <1>w, Fields, Bounds, NoBytes DEF BlobsOK, SlaveConsumes, master, mhist,
       counts, Idle, Blob, Room, NextTurn, MasterType, SlaveType, RegsType, TypeOK
<1> QED
    BY <1>1, <1>2, <1>3, <1>4, <1>5 DEF BaseInv

\* The pending blob moves to the registers.
LEMMA SlavePreparesBase ==
    ASSUME BaseInv, SlavePrepares
    PROVE  BaseInv'
<1>t. TypeOK /\ ConnsOK /\ LockOK /\ WireOK /\ RoomOK /\ BlobsOK /\ RegsOK
    BY DEF BaseInv
<1>w. conns' = conns /\ Queries' = Queries /\ Answers' = Answers /\ Late' = Late /\ Quiet'
    BY <1>t DEF SlavePrepares, master, mhist, shist, counts, Idle, NextTurn, Queries, Answers,
       Late, Quiet, ConnsOK
<1>1. TypeOK'
  <2>1. s' \in SlaveType
      BY <1>t, <1>w, Fields, Bounds, NoBytes, Zenon DEF TypeOK, SlavePrepares, master, mhist,
         shist, counts, Idle, NextTurn, MasterType, SlaveType, RegsType
  <2>2. regs' \in RegsType
      <3>1. CASE /\ s.pending /\ s.tx # <<>>
                 /\ regs' = [Idle EXCEPT !.len = Len(s.tx), !.data = s.tx]
                 /\ s' = [s EXCEPT !.pending = FALSE, !.tx = <<>>]
        <4>1. Idle \in RegsType
            BY <1>t, NoBytes DEF Idle, TypeOK, RegsType
        <4> QED
            BY <1>t, Fields, <3>1, <4>1 DEF RegsType
      <3>2. CASE regs' = [Idle EXCEPT !.len = 0] /\ UNCHANGED s
        <4>1. Idle \in RegsType
            BY <1>t, NoBytes DEF Idle, TypeOK, RegsType
        <4> QED
            BY <1>t, Fields, <3>2, <4>1 DEF RegsType
      <3> QED
          BY <3>1, <3>2 DEF SlavePrepares
  <2>3. task' \in {"off", "accept", "receive", "process", "ended"} /\ session' \in 0 .. MaxConns
      BY <1>t, <1>w, Fields, Bounds, NoBytes DEF TypeOK, SlavePrepares, master, mhist, shist,
         counts, Idle, NextTurn, MasterType, SlaveType, RegsType
  <2> QED
      BY <1>t, <2>1, <2>2, <2>3 DEF TypeOK, SlavePrepares, master, mhist, shist, counts
<1>2. BlobsOK'
  <2>1. CASE /\ s.pending /\ s.tx # <<>>
             /\ regs' = [Idle EXCEPT !.len = Len(s.tx), !.data = s.tx]
             /\ s' = [s EXCEPT !.pending = FALSE, !.tx = <<>>]
    <3>1. /\ regs'.cmd = "none" /\ regs'.m2s = <<>> /\ regs'.len = Len(s.tx) /\ regs'.data = s.tx
          /\ s'.pending = FALSE /\ s'.tx = <<>> /\ s'.enabled = s.enabled
        BY <1>t, <2>1 DEF Idle, TypeOK, RegsType, SlaveType
    <3> QED
        BY <1>t, <1>w, <3>1, NoBytes, Bounds DEF BlobsOK, SlavePrepares, master
  <2>2. CASE regs' = [Idle EXCEPT !.len = 0] /\ UNCHANGED s
    <3>1. /\ regs'.cmd = "none" /\ regs'.m2s = <<>> /\ regs'.len = 0 /\ regs'.data = regs.data
          /\ s' = s
        BY <1>t, <2>2 DEF Idle, TypeOK, RegsType, SlaveType
    <3> QED
        BY <1>t, <1>w, <3>1, NoBytes, Bounds DEF BlobsOK, SlavePrepares, master
  <2> QED
      BY <2>1, <2>2 DEF SlavePrepares
<1>3. RegsOK'
  <2>1. CASE /\ s.pending /\ s.tx # <<>>
             /\ regs' = [Idle EXCEPT !.len = Len(s.tx), !.data = s.tx]
             /\ s' = [s EXCEPT !.pending = FALSE, !.tx = <<>>]
    <3>1. /\ regs'.cmd = "none" /\ regs'.m2s = <<>> /\ regs'.len = Len(s.tx) /\ regs'.data = s.tx
          /\ s'.pending = FALSE /\ s'.tx = <<>> /\ s'.enabled = s.enabled
        BY <1>t, <2>1 DEF Idle, TypeOK, RegsType, SlaveType
    <3> QED
        BY <1>t, <1>w, Fields, <3>1, NoBytes, Bounds DEF RegsOK, SlavePrepares, shist, NextTurn,
           ConnsOK
  <2>2. CASE regs' = [Idle EXCEPT !.len = 0] /\ UNCHANGED s
    <3>1. /\ regs'.cmd = "none" /\ regs'.m2s = <<>> /\ regs'.len = 0 /\ regs'.data = regs.data
          /\ s' = s
        BY <1>t, <2>2 DEF Idle, TypeOK, RegsType, SlaveType
    <3> QED
        BY <1>t, <1>w, Fields, <3>1, NoBytes, Bounds DEF RegsOK, SlavePrepares, shist, NextTurn,
           ConnsOK
  <2> QED
      BY <2>1, <2>2 DEF SlavePrepares
<1>4. LockOK' /\ RoomOK'
    BY <1>t, <1>w, Fields, Bounds, NoBytes, Zenon DEF LockOK, SlavePrepares, master, mhist, shist,
       counts, Idle, NextTurn, MasterType, SlaveType, RegsType, TypeOK, RoomOK
<1>5. ConnsOK' /\ WireOK'
    BY <1>t, <1>w, Fields, Bounds, NoBytes DEF ConnsOK, Quiet, SlavePrepares, master, mhist,
       shist, counts, Idle, NextTurn, MasterType, SlaveType, RegsType, TypeOK, WireOK, Live,
       Asked, Query
<1> QED
    BY <1>1, <1>2, <1>3, <1>4, <1>5 DEF BaseInv

\* A request for header or data leaves nothing to do.
LEMMA SlaveIdlesBase ==
    ASSUME BaseInv, SlaveIdles
    PROVE  BaseInv'
<1>t. TypeOK /\ ConnsOK /\ LockOK /\ WireOK /\ RoomOK /\ BlobsOK /\ RegsOK
    BY DEF BaseInv
<1>w. conns' = conns /\ Queries' = Queries /\ Answers' = Answers /\ Late' = Late /\ Quiet'
    BY <1>t DEF SlaveIdles, master, mhist, shist, counts, NextTurn, Queries, Answers, Late, Quiet,
       ConnsOK
<1>1. TypeOK'
  <2>1. task' \in {"off", "accept", "receive", "process", "ended"} /\ session' \in 0 .. MaxConns
      BY <1>t, <1>w, Fields, Bounds, NoBytes DEF TypeOK, SlaveIdles, master, mhist, shist, counts,
         NextTurn, MasterType, SlaveType, RegsType
  <2> QED
      BY <1>t, <2>1 DEF TypeOK, SlaveIdles, master, mhist, shist, counts
<1>2. LockOK' /\ RoomOK' /\ RegsOK'
    BY <1>t, <1>w, Fields, Bounds, NoBytes, Zenon DEF LockOK, SlaveIdles, master, mhist, shist,
       counts, NextTurn, MasterType, SlaveType, RegsType, TypeOK, RoomOK, RegsOK
<1>3. ConnsOK' /\ WireOK'
    BY <1>t, <1>w, Fields, Bounds, NoBytes DEF ConnsOK, Quiet, SlaveIdles, master, mhist, shist,
       counts, NextTurn, MasterType, SlaveType, RegsType, TypeOK, WireOK, Live, Asked, Query
<1>4. BlobsOK'
    BY <1>t, <1>w, Fields, Bounds, NoBytes DEF BlobsOK, SlaveIdles, master, mhist, shist,
       counts, NextTurn, MasterType, SlaveType, RegsType, TypeOK
<1> QED
    BY <1>1, <1>2, <1>3, <1>4 DEF BaseInv

\* attach resets the master and connects.
LEMMA MasterAttachBase ==
    ASSUME BaseInv, MasterAttach
    PROVE  BaseInv'
<1>t. TypeOK /\ ConnsOK /\ LockOK /\ WireOK /\ RoomOK /\ BlobsOK /\ RegsOK
    BY DEF BaseInv
<1>w. /\ conns' \in Seq(ConnType) /\ Len(conns') \in Len(conns) .. Len(conns) + 1
      /\ (Len(conns') # Len(conns) => Len(conns) < MaxConns)
      /\ Queries' = Queries /\ Answers' = Answers /\ Late' = Late /\ Quiet'
      /\ conns' = <<>> => conns = <<>>
      /\ m.connected => m' = Reset /\ conns' = conns
      /\ ~m.connected =>
            m' = [Reset EXCEPT !.connected = TRUE, !.conn = Len(conns) + 1] /\ Len(conns') = Len(conns) + 1
    BY AttachWire
<1>1. TypeOK'
  <2>1. m' \in MasterType
      <3>1. 0 \in 0 .. MaxConns
          BY Bounds
      <3>2. Reset \in MasterType
          BY <1>t, <3>1 DEF TypeOK, MasterType, Reset
      <3>3. Len(conns) \in Nat /\ Len(conns) <= MaxConns /\ MaxConns \in Nat
          BY <1>t, Bounds DEF TypeOK
      <3>4. ~m.connected => Len(conns) + 1 \in 0 .. MaxConns
          BY <1>w, <3>3
      <3> QED
          BY <1>w, <3>2, <3>4 DEF MasterType
  <2>2. /\ lock' \in {"free", "rx", "app", "left"}
        /\ rx' \in {"off", "top", "want", "poll", "header", "data", "ended"} /\ rxlen' \in Nat
      BY <1>t, <1>w, Fields, Bounds, NoBytes DEF TypeOK, MasterAttach, AttachBegins, slave, shist,
         Called, AttachConnects, Reset, NewConn, MasterType, SlaveType, RegsType
  <2>3. /\ mlost' \subseteq Nat /\ mgone' \subseteq Nat /\ slost' \subseteq Nat
        /\ sgone' \subseteq Nat
      BY <1>t, <1>w, Fields, Bounds, NoBytes DEF TypeOK, MasterAttach, AttachBegins, slave, shist,
         Called, AttachConnects, Reset, NewConn, MasterType, SlaveType, RegsType
  <2>4. attached' \in BOOLEAN /\ calls' \in 0 .. MaxCalls
      BY <1>t, OneCall DEF TypeOK, MasterAttach, AttachBegins
  <2>5. conns' \in Seq(ConnType) /\ Len(conns') <= MaxConns
      <3>3. Len(conns) \in Nat /\ Len(conns) <= MaxConns /\ MaxConns \in Nat
          BY <1>t, Bounds DEF TypeOK
      <3> QED
          BY <1>w, <3>3
  <2> QED
      BY <1>t, <2>1, <2>2, <2>3, <2>4, <2>5 DEF TypeOK, MasterAttach, AttachBegins, slave, shist
<1>2. ConnsOK'
  <2>1. Len(conns) \in Nat
      BY <1>t DEF TypeOK
  <2>2. CASE m.connected
    <3>1. m'.conn = 0 /\ m'.connected
        BY <1>t, <1>w, <2>2, Zenon DEF Reset, TypeOK, MasterType
    <3> QED
        BY <1>t, <1>w, <2>1, <2>2, <3>1 DEF ConnsOK, MasterAttach, AttachBegins, slave
  <2>3. CASE ~m.connected
    <3>1. m'.conn = Len(conns) + 1 /\ m'.connected
        BY <1>t, <1>w, <2>3 DEF Reset, TypeOK, MasterType
    <3>2. Len(conns) + 1 = 1 => ~Late'
      <4>1. Len(conns) + 1 = 1 => conns = <<>>
          BY <1>t, <2>1 DEF TypeOK
      <4>2. conns = <<>> => ~Late
          BY DEF Late
      <4> QED
          BY <1>w, <4>1, <4>2
    <3> QED
        BY <1>t, <1>w, <2>1, <2>3, <3>1, <3>2 DEF ConnsOK, MasterAttach, AttachBegins, slave
  <2> QED
      BY <2>2, <2>3
<1>3. WireOK'
  <2> SUFFICES ASSUME Live' PROVE Queries' = <<>> /\ Answers' = <<>>
      BY DEF WireOK
  <2>1. Len(conns) \in Nat
      BY <1>t DEF TypeOK
  <2>2. CASE m.connected
    <3>1. m'.conn = 0
        BY <1>t, <1>w, <2>2 DEF Reset, TypeOK, MasterType
    <3> QED
        BY <3>1 DEF Live
  <2>3. CASE ~m.connected
    <3>1. m'.conn = Len(conns) + 1
        BY <1>t, <1>w, <2>3 DEF Reset, TypeOK, MasterType
    <3>2. conns = <<>>
        BY <2>1, <3>1, <1>t DEF Live, TypeOK
    <3> QED
        BY <1>w, <3>2 DEF Queries, Answers
  <2> QED
      BY <2>2, <2>3
<1>4. LockOK' /\ RoomOK' /\ RegsOK'
    BY <1>t, <1>w, Fields, Bounds, NoBytes, Zenon DEF LockOK, MasterAttach, AttachBegins, slave,
       shist, Called, AttachConnects, Reset, NewConn, MasterType, SlaveType, RegsType, TypeOK,
       RoomOK, RegsOK
<1>5. BlobsOK'
    BY <1>t, <1>w, Fields, Bounds, NoBytes DEF BlobsOK, MasterAttach, AttachBegins, slave,
       shist, Called, AttachConnects, Reset, NewConn, MasterType, SlaveType, RegsType, TypeOK
<1> QED
    BY <1>1, <1>2, <1>3, <1>4, <1>5 DEF BaseInv

\* modbus_connect fails in attach.
LEMMA MasterAttachFailsBase ==
    ASSUME BaseInv, MasterAttachFails
    PROVE  BaseInv'
<1>t. TypeOK /\ ConnsOK /\ LockOK /\ WireOK /\ RoomOK /\ BlobsOK /\ RegsOK
    BY DEF BaseInv
<1>w. conns' = conns /\ Queries' = Queries /\ Answers' = Answers /\ Late' = Late /\ Quiet'
    BY <1>t DEF MasterAttachFails, AttachBegins, slave, shist, Called, Reset, Queries, Answers,
       Late, Quiet, ConnsOK
<1>1. TypeOK'
  <2>1. m' \in MasterType
      <3>1. 0 \in 0 .. MaxConns
          BY Bounds
      <3>2. Reset \in MasterType
          BY <1>t, <3>1 DEF TypeOK, MasterType, Reset
      <3> QED
          BY <3>2 DEF MasterAttachFails
  <2>2. /\ mlost' \subseteq Nat /\ mgone' \subseteq Nat /\ slost' \subseteq Nat
        /\ sgone' \subseteq Nat
      BY <1>t, <1>w, Fields, Bounds, NoBytes DEF TypeOK, MasterAttachFails, AttachBegins, slave,
         shist, Called, Reset, MasterType, SlaveType, RegsType
  <2>3. attached' \in BOOLEAN /\ calls' \in 0 .. MaxCalls
      BY <1>t, OneCall DEF TypeOK, MasterAttachFails, AttachBegins
  <2> QED
      BY <1>t, <2>1, <2>2, <2>3 DEF TypeOK, MasterAttachFails, AttachBegins, slave, shist
<1>2. LockOK' /\ RoomOK' /\ RegsOK'
    BY <1>t, <1>w, Fields, Bounds, NoBytes, Zenon DEF LockOK, MasterAttachFails, AttachBegins,
       slave, shist, Called, Reset, MasterType, SlaveType, RegsType, TypeOK, RoomOK, RegsOK
<1>3. ConnsOK' /\ WireOK'
    BY <1>t, <1>w, Fields, Bounds, NoBytes DEF ConnsOK, Quiet, MasterAttachFails, AttachBegins,
       slave, shist, Called, Reset, MasterType, SlaveType, RegsType, TypeOK, WireOK, Live, Asked,
       Query
<1>4. BlobsOK'
    BY <1>t, <1>w, Fields, Bounds, NoBytes DEF BlobsOK, MasterAttachFails, AttachBegins,
       slave, shist, Called, Reset, MasterType, SlaveType, RegsType, TypeOK
<1> QED
    BY <1>1, <1>2, <1>3, <1>4 DEF BaseInv

\* The task of an earlier attach still runs, and the lock is kept.
LEMMA MasterAttachLeavesLockBase ==
    ASSUME BaseInv, MasterAttachLeavesLock
    PROVE  BaseInv'
<1>t. TypeOK /\ ConnsOK /\ LockOK /\ WireOK /\ RoomOK /\ BlobsOK /\ RegsOK
    BY DEF BaseInv
<1>w. /\ conns' \in Seq(ConnType) /\ Len(conns') \in Len(conns) .. Len(conns) + 1
      /\ (Len(conns') # Len(conns) => Len(conns) < MaxConns)
      /\ Queries' = Queries /\ Answers' = Answers /\ Late' = Late /\ Quiet'
      /\ conns' = <<>> => conns = <<>>
      /\ m.connected => m' = Reset /\ conns' = conns
      /\ ~m.connected =>
            m' = [Reset EXCEPT !.connected = TRUE, !.conn = Len(conns) + 1] /\ Len(conns') = Len(conns) + 1
    BY AttachWire
<1>1. TypeOK'
  <2>1. m' \in MasterType
      <3>1. 0 \in 0 .. MaxConns
          BY Bounds
      <3>2. Reset \in MasterType
          BY <1>t, <3>1 DEF TypeOK, MasterType, Reset
      <3>3. Len(conns) \in Nat /\ Len(conns) <= MaxConns /\ MaxConns \in Nat
          BY <1>t, Bounds DEF TypeOK
      <3>4. ~m.connected => Len(conns) + 1 \in 0 .. MaxConns
          BY <1>w, <3>3
      <3> QED
          BY <1>w, <3>2, <3>4 DEF MasterType
  <2>2. /\ lock' \in {"free", "rx", "app", "left"}
        /\ rx' \in {"off", "top", "want", "poll", "header", "data", "ended"} /\ rxlen' \in Nat
      BY <1>t, <1>w, Fields, Bounds, NoBytes DEF TypeOK, MasterAttachLeavesLock, AttachBegins,
         slave, shist, Called, AttachConnects, Reset, NewConn, MasterType, SlaveType, RegsType
  <2>3. /\ mlost' \subseteq Nat /\ mgone' \subseteq Nat /\ slost' \subseteq Nat
        /\ sgone' \subseteq Nat
      BY <1>t, <1>w, Fields, Bounds, NoBytes DEF TypeOK, MasterAttachLeavesLock, AttachBegins,
         slave, shist, Called, AttachConnects, Reset, NewConn, MasterType, SlaveType, RegsType
  <2>4. attached' \in BOOLEAN /\ calls' \in 0 .. MaxCalls
      BY <1>t, OneCall DEF TypeOK, MasterAttachLeavesLock, AttachBegins
  <2>5. conns' \in Seq(ConnType) /\ Len(conns') <= MaxConns
      <3>3. Len(conns) \in Nat /\ Len(conns) <= MaxConns /\ MaxConns \in Nat
          BY <1>t, Bounds DEF TypeOK
      <3> QED
          BY <1>w, <3>3
  <2> QED
      BY <1>t, <2>1, <2>2, <2>3, <2>4, <2>5 DEF TypeOK, MasterAttachLeavesLock, AttachBegins,
         slave, shist
<1>2. ConnsOK'
  <2>1. Len(conns) \in Nat
      BY <1>t DEF TypeOK
  <2>2. CASE m.connected
    <3>1. m'.conn = 0 /\ m'.connected
        BY <1>t, <1>w, <2>2 DEF Reset, TypeOK, MasterType
    <3> QED
        BY <1>t, <1>w, <2>1, <2>2, <3>1 DEF ConnsOK, MasterAttachLeavesLock, AttachBegins, slave
  <2>3. CASE ~m.connected
    <3>1. m'.conn = Len(conns) + 1 /\ m'.connected
        BY <1>t, <1>w, <2>3 DEF Reset, TypeOK, MasterType
    <3>2. Len(conns) + 1 = 1 => ~Late'
      <4>1. Len(conns) + 1 = 1 => conns = <<>>
          BY <1>t, <2>1 DEF TypeOK
      <4>2. conns = <<>> => ~Late
          BY DEF Late
      <4> QED
          BY <1>w, <4>1, <4>2
    <3> QED
        BY <1>t, <1>w, <2>1, <2>3, <3>1, <3>2 DEF ConnsOK, MasterAttachLeavesLock, AttachBegins,
           slave
  <2> QED
      BY <2>2, <2>3
<1>3. WireOK'
  <2> SUFFICES ASSUME Live' PROVE Queries' = <<>> /\ Answers' = <<>>
      BY DEF WireOK
  <2>1. Len(conns) \in Nat
      BY <1>t DEF TypeOK
  <2>2. CASE m.connected
    <3>1. m'.conn = 0
        BY <1>t, <1>w, <2>2 DEF Reset, TypeOK, MasterType
    <3> QED
        BY <3>1 DEF Live
  <2>3. CASE ~m.connected
    <3>1. m'.conn = Len(conns) + 1
        BY <1>t, <1>w, <2>3 DEF Reset, TypeOK, MasterType
    <3>2. conns = <<>>
        BY <2>1, <3>1, <1>t DEF Live, TypeOK
    <3> QED
        BY <1>w, <3>2 DEF Queries, Answers
  <2> QED
      BY <2>2, <2>3
<1>4. LockOK' /\ RoomOK' /\ RegsOK'
    BY <1>t, <1>w, Fields, Bounds, NoBytes, Zenon DEF LockOK, MasterAttachLeavesLock,
       AttachBegins, slave, shist, Called, AttachConnects, Reset, NewConn, MasterType, SlaveType,
       RegsType, TypeOK, RoomOK, RegsOK
<1>5. BlobsOK'
    BY <1>t, <1>w, Fields, Bounds, NoBytes DEF BlobsOK, MasterAttachLeavesLock,
       AttachBegins, slave, shist, Called, AttachConnects, Reset, NewConn, MasterType, SlaveType,
       RegsType, TypeOK
<1> QED
    BY <1>1, <1>2, <1>3, <1>4, <1>5 DEF BaseInv

\* The master's detach closes the connection.
LEMMA MasterDetachBase ==
    ASSUME BaseInv, MasterDetach
    PROVE  BaseInv'
<1>t. TypeOK /\ ConnsOK /\ LockOK /\ WireOK /\ RoomOK /\ BlobsOK /\ RegsOK
    BY DEF BaseInv
<1>w. /\ conns' \in Seq(ConnType) /\ Len(conns') = Len(conns) /\ (conns' = <<>> <=> conns = <<>>)
      /\ Queries' = Queries /\ Answers' = Answers /\ Late' = Late /\ Quiet'
    BY MasterDetachWire
<1>1. TypeOK'
  <2>1. m' \in MasterType
      <3>1. 0 \in 0 .. MaxConns
          BY Bounds
      <3>2. m' = [m EXCEPT !.stop = TRUE, !.enabled = FALSE, !.conn = 0]
          BY DEF MasterDetach
      <3> QED
          BY <1>t, <3>1, <3>2 DEF TypeOK, MasterType
  <2>2. attached' \in BOOLEAN /\ calls' \in 0 .. MaxCalls
      BY <1>t, OneCall DEF TypeOK, MasterDetach
  <2>3. conns' \in Seq(ConnType) /\ Len(conns') <= MaxConns
      BY <1>t, <1>w, Fields, Bounds, NoBytes DEF TypeOK, MasterDetach, slave, mhist, shist,
         Called, MasterType, SlaveType, RegsType
  <2> QED
      BY <1>t, <2>1, <2>2, <2>3 DEF TypeOK, MasterDetach, slave, mhist, shist
<1>2. LockOK' /\ RoomOK' /\ RegsOK'
    BY <1>t, <1>w, Fields, Bounds, NoBytes, Zenon DEF LockOK, MasterDetach, slave, mhist, shist,
       Called, MasterType, SlaveType, RegsType, TypeOK, RoomOK, RegsOK
<1>3. ConnsOK' /\ WireOK'
    BY <1>t, <1>w, Fields, Bounds, NoBytes DEF ConnsOK, Quiet, MasterDetach, slave, mhist, shist,
       Called, MasterType, SlaveType, RegsType, TypeOK, WireOK, Live, Asked, Query
<1>4. BlobsOK'
    BY <1>t, <1>w, Fields, Bounds, NoBytes DEF BlobsOK, MasterDetach, slave, mhist, shist,
       Called, MasterType, SlaveType, RegsType, TypeOK
<1> QED
    BY <1>1, <1>2, <1>3, <1>4 DEF BaseInv

\* The master's read.
LEMMA MasterReadBase ==
    ASSUME BaseInv, MasterRead
    PROVE  BaseInv'
<1>t. TypeOK /\ ConnsOK /\ LockOK /\ WireOK /\ RoomOK /\ BlobsOK /\ RegsOK
    BY DEF BaseInv
<1>w. conns' = conns /\ Queries' = Queries /\ Answers' = Answers /\ Late' = Late /\ Quiet'
    BY <1>t DEF MasterRead, slave, mhist, shist, counts, Queries, Answers, Late, Quiet, ConnsOK
<1>1. TypeOK'
  <2>1. m' \in MasterType
      <3>1. CASE m' = [m EXCEPT !.dead = FALSE] /\ UNCHANGED mhist
          BY <1>t, Fields, <3>1 DEF TypeOK, MasterType
      <3>2. CASE /\ m' = [m EXCEPT !.overflow = FALSE]
                 /\ mgone' = mgone \union mlost /\ mlost' = {} /\ mread' = mread
          BY <1>t, Fields, <3>2 DEF TypeOK, MasterType
      <3>3. ASSUME NEW f \in Seq(Nat), NEW r \in Seq(Nat), ~m.overflow, mlost' = mlost,
                   f \o r = m.fifo, Len(r) <= Len(m.fifo), m' = [m EXCEPT !.fifo = r],
                   \/ mread' = mread \o f /\ mgone' = mgone
                   \/ mread' = mread /\ mgone' = mgone \union ToSet(f)
            PROVE  m' \in MasterType
        <4>1. m' = [m EXCEPT !.fifo = r] /\ r \in Seq(Nat)
            BY <3>3
        <4> QED
            BY <1>t, <4>1 DEF TypeOK, MasterType
      <3> QED
          BY <3>1, <3>2, <3>3, MasterReadMoves
  <2>2. mread' \in Seq(Nat) /\ sread' \in Seq(Nat)
      <3>1. CASE m' = [m EXCEPT !.dead = FALSE] /\ UNCHANGED mhist
          BY <1>t, Fields, <3>1 DEF MasterRead, mhist, shist
      <3>2. CASE /\ m' = [m EXCEPT !.overflow = FALSE]
                 /\ mgone' = mgone \union mlost /\ mlost' = {} /\ mread' = mread
          BY <1>t, Fields, <3>2 DEF MasterRead, mhist, shist
      <3>3. ASSUME NEW f \in Seq(Nat), NEW r \in Seq(Nat), ~m.overflow, mlost' = mlost,
                   f \o r = m.fifo, Len(r) <= Len(m.fifo), m' = [m EXCEPT !.fifo = r],
                   \/ mread' = mread \o f /\ mgone' = mgone
                   \/ mread' = mread /\ mgone' = mgone \union ToSet(f)
            PROVE  mread' \in Seq(Nat) /\ sread' \in Seq(Nat)
        <4>1. mread \o f \in Seq(Nat)
            BY <1>t, Fields, <3>3
        <4> QED
            BY <1>t, Fields, <3>3, <4>1 DEF MasterRead, shist
      <3> QED
          BY <3>1, <3>2, <3>3, MasterReadMoves
  <2>3. /\ mlost' \subseteq Nat /\ mgone' \subseteq Nat /\ slost' \subseteq Nat
        /\ sgone' \subseteq Nat
      <3>1. CASE m' = [m EXCEPT !.dead = FALSE] /\ UNCHANGED mhist
          BY <1>t, Fields, <3>1 DEF MasterRead, mhist, shist
      <3>2. CASE /\ m' = [m EXCEPT !.overflow = FALSE]
                 /\ mgone' = mgone \union mlost /\ mlost' = {} /\ mread' = mread
          BY <1>t, Fields, <3>2 DEF MasterRead, mhist, shist
      <3>3. ASSUME NEW f \in Seq(Nat), NEW r \in Seq(Nat), ~m.overflow, mlost' = mlost,
                   f \o r = m.fifo, Len(r) <= Len(m.fifo), m' = [m EXCEPT !.fifo = r],
                   \/ mread' = mread \o f /\ mgone' = mgone
                   \/ mread' = mread /\ mgone' = mgone \union ToSet(f)
            PROVE  /\ mlost' \subseteq Nat /\ mgone' \subseteq Nat /\ slost' \subseteq Nat
                   /\ sgone' \subseteq Nat
          BY <1>t, Fields, <3>3, SetOf DEF MasterRead, shist
      <3> QED
          BY <3>1, <3>2, <3>3, MasterReadMoves
  <2> QED
      BY <1>t, <2>1, <2>2, <2>3 DEF TypeOK, MasterRead, slave, mhist, shist, counts
<1>2. RoomOK'
  <2>1. CASE m' = [m EXCEPT !.dead = FALSE] /\ UNCHANGED mhist
      BY <1>t, Fields, <2>1 DEF RoomOK, MasterRead, slave, shist, mhist, TypeOK, MasterType
  <2>2. CASE /\ m' = [m EXCEPT !.overflow = FALSE]
             /\ mgone' = mgone \union mlost /\ mlost' = {} /\ mread' = mread
      BY <1>t, Fields, <2>2 DEF RoomOK, MasterRead, slave, shist, mhist, TypeOK, MasterType
  <2>3. ASSUME NEW f \in Seq(Nat), NEW r \in Seq(Nat), ~m.overflow, mlost' = mlost,
               f \o r = m.fifo, Len(r) <= Len(m.fifo), m' = [m EXCEPT !.fifo = r],
               \/ mread' = mread \o f /\ mgone' = mgone
               \/ mread' = mread /\ mgone' = mgone \union ToSet(f)
        PROVE  RoomOK'
    <3>1. m'.fifo = r /\ m'.overflow = m.overflow
        BY <1>t, <2>3 DEF TypeOK, MasterType
    <3>2. Len(r) \in Nat /\ Len(r) <= MasterCap
      <4>1. Len(r) \in Nat
          BY <2>3
      <4>2. Len(m.fifo) <= MasterCap
          BY <1>t DEF RoomOK
      <4>3. Len(r) <= Len(m.fifo)
          BY <2>3
      <4>4. Len(m.fifo) \in Nat
          BY <1>t, Fields
      <4> QED
          BY <4>1, <4>2, <4>3, <4>4, Bounds
    <3>3. s' = s /\ slost' = slost /\ mlost' = mlost
        BY <2>3 DEF MasterRead, slave, shist
    <3> QED
        BY <1>t, <3>1, <3>2, <3>3 DEF RoomOK
  <2> QED
      BY <2>1, <2>2, <2>3, MasterReadMoves
<1>3. LockOK' /\ RegsOK'
    BY <1>t, <1>w, Fields, Bounds, NoBytes DEF LockOK, MasterRead, slave, mhist, shist, counts,
       MasterType, SlaveType, RegsType, TypeOK, RegsOK
<1>4. ConnsOK' /\ WireOK'
    BY <1>t, <1>w, Fields, Bounds, NoBytes, Zenon DEF ConnsOK, Quiet, MasterRead, slave, mhist,
       shist, counts, MasterType, SlaveType, RegsType, TypeOK, WireOK, Live, Asked, Query
<1>5. BlobsOK'
    BY <1>t, <1>w, Fields, Bounds, NoBytes DEF BlobsOK, MasterRead, slave, mhist, shist,
       counts, MasterType, SlaveType, RegsType, TypeOK
<1> QED
    BY <1>1, <1>2, <1>3, <1>4, <1>5 DEF BaseInv

\* The master's write is called.
LEMMA WriteCallBase ==
    ASSUME BaseInv, NEW n \in 1 .. MasterMax, WriteCall(n)
    PROVE  BaseInv'
<1>t. TypeOK /\ ConnsOK /\ LockOK /\ WireOK /\ RoomOK /\ BlobsOK /\ RegsOK
    BY DEF BaseInv
<1>w. conns' = conns /\ Queries' = Queries /\ Answers' = Answers /\ Late' = Late /\ Quiet'
    BY <1>t DEF WriteCall, slave, mhist, shist, counts, Queries, Answers, Late, Quiet, ConnsOK
<1>f. given \in Nat /\ put \in Nat /\ given <= MaxBytes /\ put <= MaxBytes
    BY <1>t, Fields
<1>1. TypeOK'
  <2>1. app' \in {"idle", "want", "put"} /\ blob' \in Seq(Nat)
      BY <1>f, NewBytes, Bounds DEF WriteCall
  <2>2. given' \in 0 .. MaxBytes /\ put' \in 0 .. MaxBytes /\ acked' \subseteq 1 .. put'
      <3>1. /\ n \in Nat /\ given + put + n <= MaxBytes /\ given' = given /\ put' = put + n
            /\ acked' = acked
          BY Bounds DEF WriteCall
      <3> QED
          BY <1>t, <1>f, <3>1, Bounds DEF TypeOK
  <2> QED
      BY <1>t, <2>1, <2>2, Zenon DEF TypeOK, WriteCall, slave, mhist, shist, counts
<1>2. BlobsOK'
  <2>1. n \in Nat /\ n <= MasterMax
      BY Bounds
  <2>2. /\ Len(Consecutive(put, n)) = n
        /\ ToSet(Consecutive(put, n)) = put + 1 .. put + n
      BY <1>f, <2>1, NewBytes
  <2>3. put + 1 .. put + n \subseteq 1 .. put + n
      BY <1>t, <1>f, Fields, <2>1
  <2>4. /\ app' = "want" /\ blob' = Consecutive(put, n) /\ put' = put + n /\ regs' = regs
      BY DEF WriteCall, slave
  <2> QED
      BY <1>t, <1>w, <2>1, <2>2, <2>3, <2>4 DEF BlobsOK
<1>3. LockOK' /\ RoomOK' /\ RegsOK'
    BY <1>t, <1>w, <1>f, Fields, Bounds, NoBytes, Zenon DEF LockOK, WriteCall, slave, mhist,
       shist, counts, MasterType, SlaveType, RegsType, TypeOK, RoomOK, RegsOK
<1>4. ConnsOK' /\ WireOK'
    BY <1>t, <1>w, <1>f, Fields, Bounds, NoBytes DEF ConnsOK, Quiet, WriteCall, slave, mhist,
       shist, counts, MasterType, SlaveType, RegsType, TypeOK, WireOK, Live, Asked, Query
<1> QED
    BY <1>1, <1>2, <1>3, <1>4 DEF BaseInv

\* The slave's attach starts with empty registers.
LEMMA SlaveAttachBase ==
    ASSUME BaseInv, SlaveAttach
    PROVE  BaseInv'
<1>t. TypeOK /\ ConnsOK /\ LockOK /\ WireOK /\ RoomOK /\ BlobsOK /\ RegsOK
    BY DEF BaseInv
<1>w. conns' = conns /\ Queries' = Queries /\ Answers' = Answers /\ Late' = Late /\ Quiet'
    BY <1>t DEF SlaveAttach, master, mhist, shist, counts, Queries, Answers, Late, Quiet, ConnsOK
<1>1. TypeOK'
  <2>1. s' \in SlaveType
      BY <1>t, <1>w, Fields, Bounds, NoBytes, Zenon DEF TypeOK, SlaveAttach, master, mhist, shist,
         counts, MasterType, SlaveType, RegsType
  <2>2. regs' \in RegsType
      BY <1>t, <1>w, Fields, Bounds, NoBytes DEF TypeOK, SlaveAttach, master, mhist, shist,
         counts, MasterType, SlaveType, RegsType
  <2>3. task' \in {"off", "accept", "receive", "process", "ended"} /\ session' \in 0 .. MaxConns
      BY <1>t, <1>w, Fields, Bounds, NoBytes DEF TypeOK, SlaveAttach, master, mhist, shist,
         counts, MasterType, SlaveType, RegsType
  <2> QED
      BY <1>t, <2>1, <2>2, <2>3 DEF TypeOK, SlaveAttach, master, mhist, shist, counts
<1>2. RoomOK'
  <2>1. s'.fifo = s.fifo /\ slost = {}
      BY <1>t DEF SlaveAttach, TypeOK, SlaveType, RegsOK
  <2> QED
      BY <1>t, <2>1 DEF RoomOK, SlaveAttach, master, mhist, shist
<1>3. LockOK' /\ RegsOK'
    BY <1>t, <1>w, Fields, Bounds, NoBytes DEF LockOK, SlaveAttach, master, mhist, shist, counts,
       MasterType, SlaveType, RegsType, TypeOK, RegsOK
<1>4. ConnsOK' /\ WireOK'
    BY <1>t, <1>w, Fields, Bounds, NoBytes DEF ConnsOK, Quiet, SlaveAttach, master, mhist, shist,
       counts, MasterType, SlaveType, RegsType, TypeOK, WireOK, Live, Asked, Query
<1>5. BlobsOK'
    BY <1>t, <1>w, Fields, Bounds, NoBytes DEF BlobsOK, SlaveAttach, master, mhist, shist,
       counts, MasterType, SlaveType, RegsType, TypeOK
<1> QED
    BY <1>1, <1>2, <1>3, <1>4, <1>5 DEF BaseInv

\* The slave's detach closes the session.
LEMMA SlaveDetachBase ==
    ASSUME BaseInv, SlaveDetach
    PROVE  BaseInv'
<1>t. TypeOK /\ ConnsOK /\ LockOK /\ WireOK /\ RoomOK /\ BlobsOK /\ RegsOK
    BY DEF BaseInv
<1>w. /\ conns' \in Seq(ConnType) /\ Len(conns') = Len(conns) /\ (conns' = <<>> <=> conns = <<>>)
      /\ Queries' = Queries /\ Answers' = Answers /\ Late' = Late /\ Quiet'
    BY SlaveDetachWire
<1>1. TypeOK'
  <2>1. s' \in SlaveType
      BY <1>t, <1>w, Fields, Bounds, NoBytes DEF TypeOK, SlaveDetach, master, mhist, shist,
         Called, MasterType, SlaveType, RegsType
  <2>2. attached' \in BOOLEAN /\ calls' \in 0 .. MaxCalls
      BY <1>t, OneCall DEF TypeOK, SlaveDetach
  <2>3. conns' \in Seq(ConnType) /\ Len(conns') <= MaxConns
      BY <1>t, <1>w, Fields, Bounds, NoBytes DEF TypeOK, SlaveDetach, master, mhist, shist,
         Called, MasterType, SlaveType, RegsType
  <2> QED
      BY <1>t, <2>1, <2>2, <2>3 DEF TypeOK, SlaveDetach, master, mhist, shist
<1>2. LockOK' /\ RoomOK' /\ RegsOK'
    BY <1>t, <1>w, Fields, Bounds, NoBytes, Zenon DEF LockOK, SlaveDetach, master, mhist, shist,
       Called, MasterType, SlaveType, RegsType, TypeOK, RoomOK, RegsOK
<1>3. ConnsOK' /\ WireOK'
    BY <1>t, <1>w, Fields, Bounds, NoBytes DEF ConnsOK, Quiet, SlaveDetach, master, mhist, shist,
       Called, MasterType, SlaveType, RegsType, TypeOK, WireOK, Live, Asked, Query
<1>4. BlobsOK'
    BY <1>t, <1>w, Fields, Bounds, NoBytes DEF BlobsOK, SlaveDetach, master, mhist, shist,
       Called, MasterType, SlaveType, RegsType, TypeOK
<1> QED
    BY <1>1, <1>2, <1>3, <1>4 DEF BaseInv

\* The slave's dispose closes the listening socket.
LEMMA SlaveDisposeBase ==
    ASSUME BaseInv, SlaveDispose
    PROVE  BaseInv'
<1>t. TypeOK /\ ConnsOK /\ LockOK /\ WireOK /\ RoomOK /\ BlobsOK /\ RegsOK
    BY DEF BaseInv
<1>w. conns' = conns /\ Queries' = Queries /\ Answers' = Answers /\ Late' = Late /\ Quiet'
    BY <1>t DEF SlaveDispose, master, mhist, shist, counts, Queries, Answers, Late, Quiet, ConnsOK
<1>1. TypeOK'
  <2>1. s' \in SlaveType
      BY <1>t, <1>w, Fields, Bounds, NoBytes, Zenon DEF TypeOK, SlaveDispose, master, mhist,
         shist, counts, MasterType, SlaveType, RegsType
  <2> QED
      BY <1>t, <2>1 DEF TypeOK, SlaveDispose, master, mhist, shist, counts
<1>2. LockOK' /\ RoomOK' /\ RegsOK'
    BY <1>t, <1>w, Fields, Bounds, NoBytes, Zenon DEF LockOK, SlaveDispose, master, mhist, shist,
       counts, MasterType, SlaveType, RegsType, TypeOK, RoomOK, RegsOK
<1>3. ConnsOK' /\ WireOK'
    BY <1>t, <1>w, Fields, Bounds, NoBytes DEF ConnsOK, Quiet, SlaveDispose, master, mhist, shist,
       counts, MasterType, SlaveType, RegsType, TypeOK, WireOK, Live, Asked, Query
<1>4. BlobsOK'
    BY <1>t, <1>w, Fields, Bounds, NoBytes DEF BlobsOK, SlaveDispose, master, mhist, shist,
       counts, MasterType, SlaveType, RegsType, TypeOK
<1> QED
    BY <1>1, <1>2, <1>3, <1>4 DEF BaseInv

\* The slave's read.
LEMMA SlaveReadBase ==
    ASSUME BaseInv, SlaveRead
    PROVE  BaseInv'
<1>t. TypeOK /\ ConnsOK /\ LockOK /\ WireOK /\ RoomOK /\ BlobsOK /\ RegsOK
    BY DEF BaseInv
<1>w. conns' = conns /\ Queries' = Queries /\ Answers' = Answers /\ Late' = Late /\ Quiet'
    BY <1>t DEF SlaveRead, master, mhist, counts, Queries, Answers, Late, Quiet, ConnsOK
<1>1. TypeOK'
  <2>1. s' \in SlaveType
      <3>1. CASE /\ s' = [s EXCEPT !.overflow = FALSE] /\ sgone' = sgone \union slost
                 /\ slost' = {} /\ sread' = sread
          BY <1>t, Fields, <3>1 DEF TypeOK, SlaveType
      <3>2. ASSUME NEW f \in Seq(Nat), NEW r \in Seq(Nat), ~s.overflow, slost' = slost, sgone' = sgone,
                   f \o r = s.fifo, Len(r) <= Len(s.fifo), s' = [s EXCEPT !.fifo = r], sread' = sread \o f
            PROVE  s' \in SlaveType
          BY <1>t, <3>2 DEF TypeOK, SlaveType
      <3> QED
          BY <3>1, <3>2, SlaveReadMoves
  <2>2. mread' \in Seq(Nat) /\ sread' \in Seq(Nat)
      <3>1. CASE /\ s' = [s EXCEPT !.overflow = FALSE] /\ sgone' = sgone \union slost
                 /\ slost' = {} /\ sread' = sread
          BY <1>t, Fields, <3>1 DEF SlaveRead, mhist
      <3>2. ASSUME NEW f \in Seq(Nat), NEW r \in Seq(Nat), ~s.overflow, slost' = slost, sgone' = sgone,
                   f \o r = s.fifo, Len(r) <= Len(s.fifo), s' = [s EXCEPT !.fifo = r], sread' = sread \o f
            PROVE  mread' \in Seq(Nat) /\ sread' \in Seq(Nat)
          BY <1>t, Fields, <3>2 DEF SlaveRead, mhist
      <3> QED
          BY <3>1, <3>2, SlaveReadMoves
  <2>3. /\ mlost' \subseteq Nat /\ mgone' \subseteq Nat /\ slost' \subseteq Nat
        /\ sgone' \subseteq Nat
      BY <1>t, <1>w, Fields, Bounds, NoBytes DEF TypeOK, SlaveRead, master, mhist, counts,
         MasterType, SlaveType, RegsType
  <2> QED
      BY <1>t, <2>1, <2>2, <2>3 DEF TypeOK, SlaveRead, master, mhist, counts
<1>2. RoomOK'
  <2>1. CASE /\ s' = [s EXCEPT !.overflow = FALSE] /\ sgone' = sgone \union slost /\ slost' = {}
             /\ sread' = sread
      BY <1>t, Fields, <2>1 DEF RoomOK, SlaveRead, master, mhist, TypeOK, SlaveType
  <2>2. ASSUME NEW f \in Seq(Nat), NEW r \in Seq(Nat), ~s.overflow, slost' = slost, sgone' = sgone,
               f \o r = s.fifo, Len(r) <= Len(s.fifo), s' = [s EXCEPT !.fifo = r], sread' = sread \o f
        PROVE  RoomOK'
    <3>1. s'.fifo = r /\ s'.overflow = s.overflow
        BY <1>t, <2>2 DEF TypeOK, SlaveType
    <3>2. Len(r) \in Nat /\ Len(r) <= SlaveCap
      <4>1. Len(r) \in Nat
          BY <2>2
      <4>2. Len(s.fifo) <= SlaveCap
          BY <1>t DEF RoomOK
      <4>3. Len(r) <= Len(s.fifo)
          BY <2>2
      <4>4. Len(s.fifo) \in Nat
          BY <1>t, Fields
      <4> QED
          BY <4>1, <4>2, <4>3, <4>4, Bounds
    <3>3. m' = m /\ mlost' = mlost /\ slost' = slost
        BY <2>2 DEF SlaveRead, master, mhist
    <3> QED
        BY <1>t, <3>1, <3>2, <3>3 DEF RoomOK
  <2> QED
      BY <2>1, <2>2, SlaveReadMoves
<1>3. LockOK' /\ RegsOK'
    BY <1>t, <1>w, Fields, Bounds, NoBytes, Zenon DEF LockOK, SlaveRead, master, mhist, counts,
       MasterType, SlaveType, RegsType, TypeOK, RegsOK
<1>4. ConnsOK' /\ WireOK'
    BY <1>t, <1>w, Fields, Bounds, NoBytes DEF ConnsOK, Quiet, SlaveRead, master, mhist, counts,
       MasterType, SlaveType, RegsType, TypeOK, WireOK, Live, Asked, Query
<1>5. BlobsOK'
    BY <1>t, <1>w, Fields, Bounds, NoBytes DEF BlobsOK, SlaveRead, master, mhist, counts,
       MasterType, SlaveType, RegsType, TypeOK
<1> QED
    BY <1>1, <1>2, <1>3, <1>4, <1>5 DEF BaseInv

\* A write of no bytes sets tx_pending.
LEMMA SlaveWriteEmptyBase ==
    ASSUME BaseInv, SlaveWriteEmpty
    PROVE  BaseInv'
<1>t. TypeOK /\ ConnsOK /\ LockOK /\ WireOK /\ RoomOK /\ BlobsOK /\ RegsOK
    BY DEF BaseInv
<1>w. conns' = conns /\ Queries' = Queries /\ Answers' = Answers /\ Late' = Late /\ Quiet'
    BY <1>t DEF SlaveWriteEmpty, master, mhist, shist, Called, Queries, Answers, Late, Quiet,
       ConnsOK
<1>1. TypeOK'
  <2>1. s' \in SlaveType
      BY <1>t, <1>w, Fields, Bounds, NoBytes DEF TypeOK, SlaveWriteEmpty, master, mhist, shist,
         Called, MasterType, SlaveType, RegsType
  <2>2. attached' \in BOOLEAN /\ calls' \in 0 .. MaxCalls
      BY <1>t, OneCall DEF TypeOK, SlaveWriteEmpty
  <2> QED
      BY <1>t, <2>1, <2>2 DEF TypeOK, SlaveWriteEmpty, master, mhist, shist
<1>2. LockOK' /\ RoomOK' /\ RegsOK'
    BY <1>t, <1>w, Fields, Bounds, NoBytes, Zenon DEF LockOK, SlaveWriteEmpty, master, mhist,
       shist, Called, MasterType, SlaveType, RegsType, TypeOK, RoomOK, RegsOK
<1>3. ConnsOK' /\ WireOK'
    BY <1>t, <1>w, Fields, Bounds, NoBytes DEF ConnsOK, Quiet, SlaveWriteEmpty, master, mhist,
       shist, Called, MasterType, SlaveType, RegsType, TypeOK, WireOK, Live, Asked, Query
<1>4. BlobsOK'
    BY <1>t, <1>w, Fields, Bounds, NoBytes DEF BlobsOK, SlaveWriteEmpty, master, mhist,
       shist, Called, MasterType, SlaveType, RegsType, TypeOK
<1> QED
    BY <1>1, <1>2, <1>3, <1>4 DEF BaseInv

\* The slave's write makes a blob pending.
LEMMA SlaveWriteBase ==
    ASSUME BaseInv, NEW n \in 1 .. SlaveMax, SlaveWrite(n)
    PROVE  BaseInv'
<1>t. TypeOK /\ ConnsOK /\ LockOK /\ WireOK /\ RoomOK /\ BlobsOK /\ RegsOK
    BY DEF BaseInv
<1>w. conns' = conns /\ Queries' = Queries /\ Answers' = Answers /\ Late' = Late /\ Quiet'
    BY <1>t DEF SlaveWrite, master, mhist, shist, counts, Queries, Answers, Late, Quiet, ConnsOK
<1>f. given \in Nat /\ put \in Nat /\ given <= MaxBytes /\ put <= MaxBytes
    BY <1>t, Fields
<1>1. TypeOK'
  <2>1. s' \in SlaveType
      <3>1. Consecutive(given, n) \in Seq(Nat)
          BY <1>f, NewBytes, Bounds
      <3> QED
          BY <1>t, <3>1 DEF TypeOK, SlaveType, SlaveWrite
  <2>2. given' \in 0 .. MaxBytes /\ put' \in 0 .. MaxBytes /\ acked' \subseteq 1 .. put'
      <3>1. /\ n \in Nat /\ given + put + n <= MaxBytes /\ given' = given + n /\ put' = put
            /\ acked' = acked
          BY Bounds DEF SlaveWrite
      <3> QED
          BY <1>t, <1>f, <3>1, Bounds DEF TypeOK
  <2> QED
      BY <1>t, <2>1, <2>2, Zenon DEF TypeOK, SlaveWrite, master, mhist, shist, counts
<1>2. RegsOK'
  <2>1. Len(Consecutive(given, n)) <= SlaveMax
      BY <1>f, NewBytes, Bounds
  <2> QED
      BY <1>t, <1>w, <2>1 DEF RegsOK, SlaveWrite, TypeOK, SlaveType, shist
<1>3. LockOK' /\ RoomOK'
    BY <1>t, <1>w, <1>f, Fields, Bounds, NoBytes DEF LockOK, SlaveWrite, master, mhist, shist,
       counts, MasterType, SlaveType, RegsType, TypeOK, RoomOK
<1>4. ConnsOK' /\ WireOK'
    BY <1>t, <1>w, <1>f, Fields, Bounds, NoBytes DEF ConnsOK, Quiet, SlaveWrite, master, mhist,
       shist, counts, MasterType, SlaveType, RegsType, TypeOK, WireOK, Live, Asked, Query
<1>5. BlobsOK'
    BY <1>t, <1>w, <1>f, Fields, Bounds, NoBytes DEF BlobsOK, SlaveWrite, master, mhist,
       shist, counts, MasterType, SlaveType, RegsType, TypeOK
<1> QED
    BY <1>1, <1>2, <1>3, <1>4, <1>5 DEF BaseInv

\* The master's enable empties its FIFO.
LEMMA MasterEnableBase ==
    ASSUME BaseInv, NEW b \in BOOLEAN, MasterEnable(b)
    PROVE  BaseInv'
<1>t. TypeOK /\ ConnsOK /\ LockOK /\ WireOK /\ RoomOK /\ BlobsOK /\ RegsOK
    BY DEF BaseInv
<1>w. conns' = conns /\ Queries' = Queries /\ Answers' = Answers /\ Late' = Late /\ Quiet'
    BY <1>t DEF MasterEnable, slave, shist, Called, Queries, Answers, Late, Quiet, ConnsOK
<1>1. TypeOK'
  <2>1. m' \in MasterType
      BY <1>t, <1>w, Fields, Bounds, NoBytes, Zenon DEF TypeOK, MasterEnable, slave, shist,
         Called, MasterType, SlaveType, RegsType
  <2>2. /\ mlost' \subseteq Nat /\ mgone' \subseteq Nat /\ slost' \subseteq Nat
        /\ sgone' \subseteq Nat
      BY <1>t, Fields, SetOf DEF MasterEnable, shist
  <2>3. attached' \in BOOLEAN /\ calls' \in 0 .. MaxCalls
      BY <1>t, OneCall DEF TypeOK, MasterEnable
  <2> QED
      BY <1>t, <2>1, <2>2, <2>3 DEF TypeOK, MasterEnable, slave, shist
<1>2. LockOK' /\ RegsOK'
    BY <1>t, <1>w, Fields, Bounds, NoBytes DEF LockOK, MasterEnable, slave, shist, Called,
       MasterType, SlaveType, RegsType, TypeOK, RegsOK
<1>3. RoomOK'
    BY <1>t, <1>w, Fields, Bounds, NoBytes DEF RoomOK, MasterEnable, slave, shist, Called,
       MasterType, SlaveType, RegsType, TypeOK
<1>4. ConnsOK' /\ WireOK'
    BY <1>t, <1>w, Fields, Bounds, NoBytes DEF ConnsOK, Quiet, MasterEnable, slave, shist, Called,
       MasterType, SlaveType, RegsType, TypeOK, WireOK, Live, Asked, Query
<1>5. BlobsOK'
    BY <1>t, <1>w, Fields, Bounds, NoBytes DEF BlobsOK, MasterEnable, slave, shist, Called,
       MasterType, SlaveType, RegsType, TypeOK
<1> QED
    BY <1>1, <1>2, <1>3, <1>4, <1>5 DEF BaseInv

\* The slave's enable empties the FIFO, the pending blob and the length.
LEMMA SlaveEnableBase ==
    ASSUME BaseInv, NEW b \in BOOLEAN, SlaveEnable(b)
    PROVE  BaseInv'
<1>t. TypeOK /\ ConnsOK /\ LockOK /\ WireOK /\ RoomOK /\ BlobsOK /\ RegsOK
    BY DEF BaseInv
<1>w. conns' = conns /\ Queries' = Queries /\ Answers' = Answers /\ Late' = Late /\ Quiet'
    BY <1>t DEF SlaveEnable, master, Called, Queries, Answers, Late, Quiet, ConnsOK
<1>1. TypeOK'
  <2>1. s' \in SlaveType
      BY <1>t, <1>w, Fields, Bounds, NoBytes, Zenon DEF TypeOK, SlaveEnable, master, Called,
         MasterType, SlaveType, RegsType
  <2>2. regs' \in RegsType
      BY <1>t, <1>w, Fields, Bounds, NoBytes DEF TypeOK, SlaveEnable, master, Called, MasterType,
         SlaveType, RegsType
  <2>3. /\ mlost' \subseteq Nat /\ mgone' \subseteq Nat /\ slost' \subseteq Nat
        /\ sgone' \subseteq Nat
      <3>1. First(regs.data, regs.len) \in Seq(Nat)
          BY <1>t, Fields, Cut
      <3> QED
          BY <1>t, Fields, <3>1, SetOf DEF SlaveEnable
  <2>4. attached' \in BOOLEAN /\ calls' \in 0 .. MaxCalls
      BY <1>t, OneCall DEF TypeOK, SlaveEnable
  <2> QED
      BY <1>t, <2>1, <2>2, <2>3, <2>4 DEF TypeOK, SlaveEnable, master
<1>2. LockOK' /\ RoomOK' /\ RegsOK'
    BY <1>t, <1>w, Fields, Bounds, NoBytes DEF LockOK, SlaveEnable, master, Called, MasterType,
       SlaveType, RegsType, TypeOK, RoomOK, RegsOK
<1>3. ConnsOK' /\ WireOK'
    BY <1>t, <1>w, Fields, Bounds, NoBytes DEF ConnsOK, Quiet, SlaveEnable, master, Called,
       MasterType, SlaveType, RegsType, TypeOK, WireOK, Live, Asked, Query
<1>4. BlobsOK'
    BY <1>t, <1>w, Fields, Bounds, NoBytes DEF BlobsOK, SlaveEnable, master, Called,
       MasterType, SlaveType, RegsType, TypeOK
<1> QED
    BY <1>1, <1>2, <1>3, <1>4 DEF BaseInv

\* Every step preserves BaseInv.
LEMMA BaseStep ==
    ASSUME BaseInv, [Next]_vars
    PROVE  BaseInv'
<1>1. CASE UNCHANGED vars
  <2>1. UNCHANGED <<m, lock, rx, rxlen, app, blob, s, regs, task, session, conns, given, put,
                    acked>>
      BY <1>1 DEF vars, master, slave, mhist, shist, counts
  <2>2. UNCHANGED <<mread, mlost, mgone, sread, slost, sgone, attached, calls>>
      BY <1>1 DEF vars, master, slave, mhist, shist, counts
  <2>3. /\ Queries' = Queries /\ Answers' = Answers /\ Late' = Late /\ Quiet' = Quiet
        /\ Live' = Live /\ Asked' = Asked
      BY <2>1 DEF Queries, Answers, Late, Quiet, Live, Asked
  <2>4. TypeOK'
      BY <2>1, <2>2 DEF BaseInv, TypeOK
  <2> QED
      BY <2>1, <2>2, <2>3, <2>4 DEF BaseInv, ConnsOK, LockOK, WireOK, RoomOK, BlobsOK, RegsOK
<1>2. CASE Rx
    BY <1>2, RxLooksBase, RxPollsBase, RxPollUnsentBase, RxPollAnsweredBase, RxHeaderAnsweredBase,
       RxDataAnsweredBase, RxFailsBase DEF Rx
<1>3. CASE App
    BY <1>3, WriteDisabledBase, WriteSendsBase, WriteUnsentBase, WriteDoneBase, WriteFailsBase DEF
       App
<1>4. CASE Task
    BY <1>4, SlaveAcceptsBase, SlaveStopsBase, SlaveRepliesBase, SlaveReplyFailsBase,
       SlaveSessionEndsBase, SlaveConsumesBase, SlavePreparesBase, SlaveIdlesBase DEF Task
<1>5. CASE NetBreaks
    BY <1>5, NetBreaksBase
<1>6. CASE MasterAttach
    BY <1>6, MasterAttachBase
<1>7. CASE MasterAttachFails
    BY <1>7, MasterAttachFailsBase
<1>8. CASE MasterAttachLeavesLock
    BY <1>8, MasterAttachLeavesLockBase
<1>9. CASE MasterDetach
    BY <1>9, MasterDetachBase
<1>10. CASE MasterRead
    BY <1>10, MasterReadBase
<1>11. ASSUME NEW n \in 1 .. MasterMax, WriteCall(n) PROVE BaseInv'
    BY <1>11, WriteCallBase
<1>12. CASE SlaveAttach
    BY <1>12, SlaveAttachBase
<1>13. CASE SlaveDetach
    BY <1>13, SlaveDetachBase
<1>14. CASE SlaveDispose
    BY <1>14, SlaveDisposeBase
<1>15. CASE SlaveRead
    BY <1>15, SlaveReadBase
<1>16. CASE SlaveWriteEmpty
    BY <1>16, SlaveWriteEmptyBase
<1>17. ASSUME NEW n \in 1 .. SlaveMax, SlaveWrite(n) PROVE BaseInv'
    BY <1>17, SlaveWriteBase
<1>18. ASSUME NEW b \in BOOLEAN, MasterEnable(b) PROVE BaseInv'
    BY <1>18, MasterEnableBase
<1>19. ASSUME NEW b \in BOOLEAN, SlaveEnable(b) PROVE BaseInv'
    BY <1>19, SlaveEnableBase
<1> QED
    BY <1>1, <1>2, <1>3, <1>4, <1>5, <1>6, <1>7, <1>8, <1>9, <1>10, <1>11, <1>12, <1>13, <1>14,
       <1>15, <1>16, <1>17, <1>18, <1>19 DEF Next

\* Both parts rest on BaseInv.
LEMMA BaseOf == (MasterInv => BaseInv) /\ (SlaveInv => BaseInv)
BY DEF MasterInv, SlaveInv

(***************************************************************************)
(* From the slave to the master                                            *)
(***************************************************************************)
\* Bytes that nobody moved.
LEMMA PublishedKept ==
    ASSUME PublishedOK, StreamToMaster, mread' = mread, m'.fifo = m.fifo,
           mlost' \union mgone' = mlost \union mgone,
           mgone \subseteq mgone', regs'.data = regs.data, s'.tx = s.tx, given' = given
    PROVE  PublishedOK' /\ StreamToMaster' /\ Settled' = Settled /\ Ahead' = Ahead
<1>1. Delivered' = Delivered /\ Data' = Data /\ Read' = Read
    BY DEF Delivered, Data, Read
<1> QED
    BY <1>1 DEF PublishedOK, StreamToMaster, Settled, Ahead

\* A cut at the length takes everything.
LEMMA WholeCut ==
    ASSUME NEW q \in Seq(Nat)
    PROVE  First(q, Len(q)) = q
<1>1. Len(q) \in Nat /\ Len(q) <= Len(q)
    OBVIOUS
<1> QED
    BY <1>1, Cut

\* Three sequences in a row.
LEMMA Concat3 ==
    ASSUME NEW q \in Seq(Nat), NEW r \in Seq(Nat), NEW u \in Seq(Nat)
    PROVE  (q \o r) \o u = q \o (r \o u)
OBVIOUS

\* What an action that leaves the stream to the master alone does.
AsideMaster ==
    /\ rx' = rx /\ rxlen' = rxlen /\ Polling' = Polling /\ Queries' = Queries
    /\ Answers' = Answers \/ Answers' = <<>>
    /\ Live' => Live
    /\ mread' = mread /\ m'.fifo = m.fifo /\ mgone \subseteq mgone'
    /\ mlost' \union mgone' = mlost \union mgone
    /\ given' = given /\ s'.tx = s.tx /\ regs'.data = regs.data /\ regs'.len = regs.len

\* such an action keeps the invariant;
LEMMA MasterKept ==
    ASSUME MasterInv, AsideMaster
    PROVE  PollsOK' /\ RoundOK' /\ PublishedOK' /\ StreamToMaster'
<1>1. PublishedOK' /\ StreamToMaster' /\ Settled' = Settled /\ Ahead' = Ahead
    BY PublishedKept DEF MasterInv, AsideMaster
<1> QED
    BY <1>1 DEF MasterInv, AsideMaster, PollsOK, RoundOK

\* these do.
LEMMA MasterAside ==
    ASSUME BaseInv,
           \/ NetBreaks \/ WriteDisabled \/ WriteUnsent \/ WriteDone \/ WriteFails
           \/ (\E n \in 1 .. MasterMax : WriteCall(n)) \/ SlaveAccepts \/ SlaveStops \/ SlaveSessionEnds \/ SlaveConsumes
           \/ SlaveIdles \/ MasterAttachFails \/ MasterDetach \/ SlaveDetach \/ SlaveDispose
           \/ SlaveRead \/ SlaveWriteEmpty
    PROVE  AsideMaster
<1>t. TypeOK /\ ConnsOK /\ LockOK /\ RegsOK
    BY DEF BaseInv
<1>1. CASE NetBreaks
    BY <1>t, <1>1, NetBreaksWire DEF AsideMaster, NetBreaks, master, slave, mhist, shist, counts,
       Polling, Live, TypeOK, MasterType, SlaveType, RegsType, RegsOK, ConnsOK
<1>2. CASE WriteDisabled
    BY <1>t, <1>2 DEF AsideMaster, WriteDisabled, slave, mhist, shist, counts, Polling, Live,
       TypeOK, MasterType, SlaveType, RegsType, RegsOK, ConnsOK, Queries, Answers, Late
<1>3. CASE WriteUnsent
    BY <1>t, <1>3 DEF AsideMaster, WriteUnsent, slave, mhist, shist, counts, Polling, Live,
       TypeOK, MasterType, SlaveType, RegsType, RegsOK, ConnsOK, Queries, Answers, Late
<1>4. CASE WriteDone
    BY <1>t, <1>4, WriteDoneWire DEF AsideMaster, WriteDone, slave, mhist, shist, counts, Polling,
       Live, TypeOK, MasterType, SlaveType, RegsType, RegsOK, ConnsOK
<1>5. CASE WriteFails
    BY <1>t, <1>5, WriteFailsWire DEF AsideMaster, WriteFails, slave, mhist, shist, counts,
       Polling, Live, TypeOK, MasterType, SlaveType, RegsType, RegsOK, ConnsOK
<1>6. CASE (\E n \in 1 .. MasterMax : WriteCall(n))
    BY <1>t, <1>6 DEF AsideMaster, WriteCall, slave, mhist, shist, counts, Polling, Live, TypeOK,
       MasterType, SlaveType, RegsType, RegsOK, ConnsOK, Queries, Answers, Late
<1>7. CASE SlaveAccepts
    BY <1>t, <1>7 DEF AsideMaster, SlaveAccepts, master, mhist, shist, counts, NextTurn, Polling,
       Live, TypeOK, MasterType, SlaveType, RegsType, RegsOK, ConnsOK, Queries, Answers, Late
<1>8. CASE SlaveStops
    BY <1>t, <1>8 DEF AsideMaster, SlaveStops, master, mhist, shist, counts, Polling, Live,
       TypeOK, MasterType, SlaveType, RegsType, RegsOK, ConnsOK, Queries, Answers, Late
<1>9. CASE SlaveSessionEnds
    BY <1>t, <1>9 DEF AsideMaster, SlaveSessionEnds, master, mhist, shist, counts, Polling, Live,
       TypeOK, MasterType, SlaveType, RegsType, RegsOK, ConnsOK, Queries, Answers, Late
<1>10. CASE SlaveConsumes
    BY <1>t, <1>10 DEF AsideMaster, SlaveConsumes, master, mhist, counts, Idle, Blob, Room,
       NextTurn, Polling, Live, TypeOK, MasterType, SlaveType, RegsType, RegsOK, ConnsOK, Queries,
       Answers, Late
<1>11. CASE SlaveIdles
    BY <1>t, <1>11 DEF AsideMaster, SlaveIdles, master, mhist, shist, counts, NextTurn, Polling,
       Live, TypeOK, MasterType, SlaveType, RegsType, RegsOK, ConnsOK, Queries, Answers, Late
<1>12. CASE MasterAttachFails
    BY <1>t, <1>12 DEF AsideMaster, MasterAttachFails, AttachBegins, slave, shist, Called, Reset,
       Polling, Live, TypeOK, MasterType, SlaveType, RegsType, RegsOK, ConnsOK, Queries, Answers,
       Late
<1>13. CASE MasterDetach
    BY <1>t, <1>13, MasterDetachWire DEF AsideMaster, MasterDetach, slave, mhist, shist, Called,
       Polling, Live, TypeOK, MasterType, SlaveType, RegsType, RegsOK, ConnsOK
<1>14. CASE SlaveDetach
    BY <1>t, <1>14, SlaveDetachWire DEF AsideMaster, SlaveDetach, master, mhist, shist, Called,
       Polling, Live, TypeOK, MasterType, SlaveType, RegsType, RegsOK, ConnsOK
<1>15. CASE SlaveDispose
    BY <1>t, <1>15 DEF AsideMaster, SlaveDispose, master, mhist, shist, counts, Polling, Live,
       TypeOK, MasterType, SlaveType, RegsType, RegsOK, ConnsOK, Queries, Answers, Late
<1>16. CASE SlaveRead
    BY <1>t, <1>16, Zenon DEF AsideMaster, SlaveRead, master, mhist, counts, Polling, Live,
       TypeOK, MasterType, SlaveType, RegsType, RegsOK, ConnsOK, Queries, Answers, Late
<1>17. CASE SlaveWriteEmpty
    BY <1>t, <1>17 DEF AsideMaster, SlaveWriteEmpty, master, mhist, shist, Called, Polling, Live,
       TypeOK, MasterType, SlaveType, RegsType, RegsOK, ConnsOK, Queries, Answers, Late
<1> QED
    BY <1>1, <1>2, <1>3, <1>4, <1>5, <1>6, <1>7, <1>8, <1>9, <1>10, <1>11, <1>12, <1>13, <1>14,
       <1>15, <1>16, <1>17

\* A look at the flags ends the task or not; the registers stay.
LEMMA RxLooksToMaster ==
    ASSUME MasterInv, SlaveMax <= MasterMax, RxLooks
    PROVE  PollsOK' /\ RoundOK' /\ PublishedOK' /\ StreamToMaster'
<1>t. TypeOK /\ ConnsOK /\ LockOK /\ WireOK /\ RoomOK /\ RegsOK /\ BaseInv
    BY DEF MasterInv, BaseInv
<1>i. PollsOK /\ RoundOK /\ PublishedOK /\ StreamToMaster
    BY DEF MasterInv
<1>w. Queries' = Queries /\ Answers' = Answers /\ Late' = Late
    BY DEF RxLooks, slave, mhist, shist, counts, Queries, Answers, Late
<1>v. /\ rxlen' = rxlen /\ task' = task /\ given' = given /\ mread' = mread
      /\ mlost' = mlost /\ mgone' = mgone /\ m'.conn = m.conn /\ m'.fifo = m.fifo
      /\ regs'.cmd = regs.cmd /\ regs'.len = regs.len /\ regs'.data = regs.data /\ s'.tx = s.tx
      /\ rx = "top" /\ rx' \in {"want", "ended"}
    BY <1>t, <1>w DEF RxLooks, slave, mhist, shist, counts, TypeOK, MasterType, SlaveType,
       RegsType, RegsOK, LockOK
<1>1. PublishedOK' /\ StreamToMaster' /\ Settled' = Settled /\ Ahead' = Ahead
    BY <1>i, <1>v, PublishedKept
<1>2. PollsOK'
    BY <1>i, <1>w, <1>v, <1>1 DEF PollsOK, Polling
<1>3. RoundOK'
    BY <1>t, <1>i, <1>w, <1>v, <1>1 DEF RoundOK, Polling, Live
<1> QED
    BY <1>1, <1>2, <1>3

\* A round begins: what an earlier round fetched was delivered (Settled).
LEMMA RxPollsToMaster ==
    ASSUME MasterInv, SlaveMax <= MasterMax, RxPolls
    PROVE  PollsOK' /\ RoundOK' /\ PublishedOK' /\ StreamToMaster'
<1>t. TypeOK /\ ConnsOK /\ LockOK /\ WireOK /\ RoomOK /\ RegsOK /\ BaseInv
    BY DEF MasterInv, BaseInv
<1>i. PollsOK /\ RoundOK /\ PublishedOK /\ StreamToMaster
    BY DEF MasterInv
<1>w. /\ conns' \in Seq(ConnType) /\ Len(conns') = Len(conns) /\ (conns' = <<>> <=> conns = <<>>)
      /\ Queries' = Queries \/ (m.conn = 1 /\ Queries' = Append(Queries, Query("poll", <<>>)))
      /\ Answers' = Answers /\ Late' = Late /\ Quiet'
    BY <1>t, RxPollsWire
<1>v. /\ rxlen' = rxlen /\ task' = task /\ given' = given /\ mread' = mread
      /\ mlost' = mlost /\ mgone' = mgone /\ m'.conn = m.conn /\ m'.fifo = m.fifo
      /\ regs'.cmd = regs.cmd /\ regs'.len = regs.len /\ regs'.data = regs.data /\ s'.tx = s.tx
      /\ rx = "want" /\ rx' = "poll" /\ lock = "free"
    BY <1>t, <1>w DEF RxPolls, slave, mhist, shist, counts, Query, TypeOK, MasterType, SlaveType,
       RegsType, RegsOK, LockOK
<1>1. PublishedOK' /\ StreamToMaster' /\ Settled' = Settled /\ Ahead' = Ahead
    BY <1>i, <1>v, PublishedKept
<1>2. PollsOK'
  <2>q. Queries \in Seq(QueryType)
      BY <1>t, WireType DEF TypeOK
  <2> DEFINE q == Query("poll", <<>>)
  <2>1. q \in QueryType /\ q.op = "poll"
      BY NoBytes DEF Query, QueryType
  <2> HIDE DEF q
  <2>2. CASE Queries' = Queries
      BY <1>i, <1>v, <1>1, <2>2 DEF PollsOK, Polling
  <2>3. CASE m.conn = 1 /\ Queries' = Append(Queries, q)
    <3>1. Live /\ Asked = <<>>
        BY <1>t, <1>v, <2>3 DEF Live, Asked, LockOK, ConnsOK
    <3>2. Queries = <<>> /\ Settled /\ ~Polling
        BY <1>t, <1>i, <1>v, <3>1 DEF WireOK, RoundOK
    <3>3. Queries' = <<q>>
        BY <2>3, <3>2
    <3>4. \A i \in 1 .. Len(Queries') : i = 1 /\ Queries'[i] = q
        BY <3>3
    <3> QED
        BY <1>v, <1>1, <2>1, <3>2, <3>4 DEF PollsOK, Polling
  <2> QED
      BY <1>w, <2>2, <2>3 DEF q
<1>3. RoundOK'
  <2>1. CASE Live
    <3>1. Answers = <<>> /\ ~Polling
        BY <1>t, <1>i, <1>v, <2>1 DEF WireOK, RoundOK, Asked, LockOK
    <3> QED
        BY <1>w, <1>v, <3>1 DEF RoundOK, Polling
  <2>2. CASE ~Live
      BY <1>w, <1>v, <2>2 DEF RoundOK, Live
  <2> QED
      BY <2>1, <2>2
<1> QED
    BY <1>1, <1>2, <1>3

\* No round without a connection.
LEMMA RxPollUnsentToMaster ==
    ASSUME MasterInv, SlaveMax <= MasterMax, RxPollUnsent
    PROVE  PollsOK' /\ RoundOK' /\ PublishedOK' /\ StreamToMaster'
<1>t. TypeOK /\ ConnsOK /\ LockOK /\ WireOK /\ RoomOK /\ RegsOK /\ BaseInv
    BY DEF MasterInv, BaseInv
<1>i. PollsOK /\ RoundOK /\ PublishedOK /\ StreamToMaster
    BY DEF MasterInv
<1>w. Queries' = Queries /\ Answers' = Answers /\ Late' = Late
    BY DEF RxPollUnsent, slave, mhist, shist, counts, Queries, Answers, Late
<1>v. /\ rxlen' = rxlen /\ task' = task /\ given' = given /\ mread' = mread
      /\ mlost' = mlost /\ mgone' = mgone /\ m'.conn = m.conn /\ m'.fifo = m.fifo
      /\ regs'.cmd = regs.cmd /\ regs'.len = regs.len /\ regs'.data = regs.data /\ s'.tx = s.tx
      /\ rx' = "ended" /\ m.conn = 0
    BY <1>t, <1>w DEF RxPollUnsent, slave, mhist, shist, counts, TypeOK, MasterType, SlaveType,
       RegsType, RegsOK, LockOK
<1>1. PublishedOK' /\ StreamToMaster' /\ Settled' = Settled /\ Ahead' = Ahead
    BY <1>i, <1>v, PublishedKept
<1>2. PollsOK'
    BY <1>i, <1>w, <1>v, <1>1 DEF PollsOK, Polling
<1>3. RoundOK'
    BY <1>t, <1>i, <1>w, <1>v, <1>1 DEF RoundOK, Polling, Live
<1> QED
    BY <1>1, <1>2, <1>3

\* The poll was answered: the blob in the registers is new or there is none.
LEMMA RxPollAnsweredToMaster ==
    ASSUME MasterInv, SlaveMax <= MasterMax, RxPollAnswered
    PROVE  PollsOK' /\ RoundOK' /\ PublishedOK' /\ StreamToMaster'
<1>t. TypeOK /\ ConnsOK /\ LockOK /\ WireOK /\ RoomOK /\ RegsOK /\ BaseInv
    BY DEF MasterInv, BaseInv
<1>i. PollsOK /\ RoundOK /\ PublishedOK /\ StreamToMaster
    BY DEF MasterInv
<1>w. /\ conns' \in Seq(ConnType) /\ Len(conns') = Len(conns) /\ (conns' = <<>> <=> conns = <<>>)
      /\ Live /\ m.conn = 1 /\ conns # <<>> /\ Answers # <<>> /\ Queries = <<>>
      /\ Len(Answers) <= 1
      /\ Answer = Answers[1] /\ Answers[1].len \in Nat /\ Answers[1].data \in Seq(Nat)
      /\ Queries' = <<>> \/ Queries' = <<Query("header", <<>>)>>
      /\ Answers' = <<>> /\ Late' = Late /\ Quiet'
    BY <1>t, RxPollAnsweredWire
<1>v. /\ rxlen' = rxlen /\ task' = task /\ given' = given /\ mread' = mread
      /\ mlost' = mlost /\ mgone' = mgone /\ m'.conn = m.conn /\ m'.fifo = m.fifo
      /\ regs'.cmd = regs.cmd /\ regs'.len = regs.len /\ regs'.data = regs.data /\ s'.tx = s.tx
      /\ rx = "poll" /\ rx' = "header"
    BY <1>t, <1>w DEF RxPollAnswered, slave, mhist, shist, counts, Query, TypeOK, MasterType,
       SlaveType, RegsType, RegsOK, LockOK
<1>1. PublishedOK' /\ StreamToMaster' /\ Settled' = Settled /\ Ahead' = Ahead
    BY <1>i, <1>v, PublishedKept
<1>2. PollsOK'
  <2> DEFINE q == Query("header", <<>>)
  <2>1. q.op # "poll"
      BY DEF Query
  <2> HIDE DEF q
  <2>2. Queries' = <<>> \/ Queries' = <<q>>
      BY <1>w DEF q
  <2>3. \A i \in 1 .. Len(Queries') : Queries'[i].op # "poll"
      BY <2>1, <2>2
  <2> QED
      BY <1>i, <1>v, <1>1, <2>3 DEF PollsOK, Polling
<1>3. RoundOK'
    BY <1>t, <1>i, <1>w, <1>v, <1>1 DEF RoundOK, Polling, Live
<1> QED
    BY <1>1, <1>2, <1>3

\* The header was answered: all bytes of a new blob are asked for, since
\* SlaveMax <= MasterMax, or nothing is left in the registers.
LEMMA RxHeaderAnsweredToMaster ==
    ASSUME MasterInv, SlaveMax <= MasterMax, RxHeaderAnswered
    PROVE  PollsOK' /\ RoundOK' /\ PublishedOK' /\ StreamToMaster'
<1>t. TypeOK /\ ConnsOK /\ LockOK /\ WireOK /\ RoomOK /\ RegsOK /\ BaseInv
    BY DEF MasterInv, BaseInv
<1>i. PollsOK /\ RoundOK /\ PublishedOK /\ StreamToMaster
    BY DEF MasterInv
<1>w. /\ conns' \in Seq(ConnType) /\ Len(conns') = Len(conns) /\ (conns' = <<>> <=> conns = <<>>)
      /\ Live /\ m.conn = 1 /\ conns # <<>> /\ Answers # <<>> /\ Queries = <<>>
      /\ Len(Answers) <= 1
      /\ Answer = Answers[1] /\ Answers[1].len \in Nat /\ Answers[1].data \in Seq(Nat)
      /\ \/ /\ Answers[1].len > 0 /\ rx' = "data" /\ rxlen' = Least(Answers[1].len, MasterMax) /\ lock' = lock
            /\ Queries' = <<>> \/ Queries' = <<Query("data", <<>>)>>
         \/ Answers[1].len = 0 /\ rx' = "top" /\ rxlen' = 0 /\ lock' = "free" /\ Queries' = <<>>
      /\ Answers' = <<>> /\ Late' = Late /\ Quiet'
    BY <1>t, RxHeaderAnsweredWire
<1>v. /\ task' = task /\ given' = given /\ mread' = mread /\ mlost' = mlost
      /\ mgone' = mgone /\ m'.conn = m.conn /\ m'.fifo = m.fifo /\ regs'.cmd = regs.cmd
      /\ regs'.len = regs.len /\ regs'.data = regs.data /\ s'.tx = s.tx
      /\ rx = "header"
    BY <1>t, <1>w DEF RxHeaderAnswered, slave, mhist, shist, counts, Query, Least, TypeOK,
       MasterType, SlaveType, RegsType, RegsOK, LockOK
<1>1. PublishedOK' /\ StreamToMaster' /\ Settled' = Settled /\ Ahead' = Ahead
    BY <1>i, <1>v, PublishedKept
<1>2. PollsOK'
  <2> DEFINE q == Query("data", <<>>)
  <2>1. q.op # "poll"
      BY DEF Query
  <2> HIDE DEF q
  <2>2. Queries' = <<>> \/ Queries' = <<q>>
      BY <1>w DEF q
  <2>3. \A i \in 1 .. Len(Queries') : Queries'[i].op # "poll"
      BY <2>1, <2>2
  <2> QED
      BY <1>i, <1>v, <1>1, <2>3 DEF PollsOK, Polling
<1>3. RoundOK'
  <2>1. /\ ~Polling /\ Answers[1].data = regs.data
        /\ \/ Answers[1].len = 0 /\ Settled
           \/ Answers[1].len = Len(regs.data) /\ Ahead
      BY <1>i, <1>w, <1>v DEF RoundOK
  <2>2. CASE Answers[1].len > 0 /\ rx' = "data" /\ rxlen' = Least(Answers[1].len, MasterMax)
    <3>1. Len(regs.data) \in Nat /\ Len(regs.data) <= SlaveMax
        BY <1>t, Fields DEF RegsOK
    <3>2. Answers[1].len = Len(regs.data) /\ Ahead
        BY <2>1, <2>2
    <3>3. rxlen' = Len(regs.data)
        BY <2>2, <3>1, <3>2, Bounds, SlaveMax <= MasterMax DEF Least
    <3> QED
        BY <1>w, <1>v, <1>1, <2>1, <2>2, <3>2, <3>3 DEF RoundOK, Polling
  <2>3. CASE Answers[1].len = 0 /\ rx' = "top" /\ rxlen' = 0
    <3>1. Settled
      <4>1. CASE Answers[1].len = Len(regs.data)
        <5>1. regs.data \in Seq(Nat) /\ Len(regs.data) = 0
            BY <1>t, <2>3, <4>1, Fields
        <5>2. regs.data = <<>>
            BY <5>1
        <5> QED
            BY <5>2, NoBytes DEF Settled, Data
      <4> QED
          BY <2>1, <4>1
    <3> QED
        BY <1>w, <1>v, <1>1, <2>1, <2>3, <3>1 DEF RoundOK, Polling
  <2> QED
      BY <1>w, <2>2, <2>3
<1> QED
    BY <1>1, <1>2, <1>3

\* The data was answered: what fits is behind all that was read, the rest is lost
\* and flagged, and the registers are Settled.
LEMMA RxDataAnsweredToMaster ==
    ASSUME MasterInv, SlaveMax <= MasterMax, RxDataAnswered
    PROVE  PollsOK' /\ RoundOK' /\ PublishedOK' /\ StreamToMaster'
<1>t. TypeOK /\ ConnsOK /\ LockOK /\ WireOK /\ RoomOK /\ RegsOK /\ BaseInv
    BY DEF MasterInv, BaseInv
<1>i. PollsOK /\ RoundOK /\ PublishedOK /\ StreamToMaster
    BY DEF MasterInv
<1>w. /\ conns' \in Seq(ConnType) /\ Len(conns') = Len(conns) /\ (conns' = <<>> <=> conns = <<>>)
      /\ Live /\ m.conn = 1 /\ conns # <<>> /\ Answers # <<>> /\ Queries = <<>>
      /\ Len(Answers) <= 1
      /\ Answer = Answers[1] /\ Answers[1].len \in Nat /\ Answers[1].data \in Seq(Nat)
      /\ Queries' = <<>> /\ Answers' = <<>> /\ Late' = Late /\ Quiet'
    BY <1>t, RxDataAnsweredWire
<1>v. /\ task' = task /\ given' = given /\ mread' = mread /\ mgone' = mgone
      /\ m'.conn = m.conn /\ regs'.cmd = regs.cmd /\ regs'.len = regs.len
      /\ regs'.data = regs.data
      /\ s'.tx = s.tx
      /\ rx = "data" /\ rx' = "top"
    BY <1>t, <1>w DEF RxDataAnswered, slave, shist, counts, TypeOK, MasterType, SlaveType,
       RegsType, RegsOK, LockOK
<1>m. PICK f \in Seq(Nat), l \in Seq(Nat) :
         /\ f \o l = First(Answers[1].data, rxlen) /\ Len(m.fifo) + Len(f) <= MasterCap
         /\ m' = [m EXCEPT !.fifo = m.fifo \o f, !.overflow = m.overflow \/ l # <<>>]
         /\ mlost' = mlost \union ToSet(l)
    BY <1>t, RxDataMoves, Zenon
<1>a. f \o l = regs.data /\ Ahead /\ Data' = Data
  <2>1. rxlen = Len(regs.data) /\ Answers[1].data = regs.data /\ Ahead
      BY <1>i, <1>w, <1>v DEF RoundOK
  <2>2. First(regs.data, Len(regs.data)) = regs.data
      BY <1>t, Fields, WholeCut
  <2> QED
      BY <1>m, <1>v, <2>1, <2>2 DEF Data
<1>b. /\ ToSet(f) \union ToSet(l) = Data /\ Increasing(f)
      /\ ToSet(mread \o m.fifo) = Read /\ mread \in Seq(Nat) /\ m.fifo \in Seq(Nat)
  <2>1. mread \in Seq(Nat) /\ m.fifo \in Seq(Nat)
      BY <1>t, Fields
  <2>2. ToSet(mread \o m.fifo) = ToSet(mread) \union ToSet(m.fifo)
      BY <2>1, SetOfConcat
  <2>3. ToSet(f \o l) = ToSet(f) \union ToSet(l)
      BY SetOfConcat
  <2>4. Increasing(f \o l) => Increasing(f)
      BY IncreasingConcat
  <2> QED
      BY <1>i, <1>a, <2>1, <2>2, <2>3, <2>4 DEF PublishedOK, Data, Read
<1>c. m'.fifo = m.fifo \o f /\ Read' = Read \union ToSet(f) /\ Delivered' = Delivered \union Data
  <2>1. m'.fifo = m.fifo \o f
      BY <1>t, <1>m DEF TypeOK, MasterType
  <2>2. ToSet(m'.fifo) = ToSet(m.fifo) \union ToSet(f)
      BY <1>b, <2>1, SetOfConcat
  <2> QED
      BY <1>b, <1>m, <1>v, <2>1, <2>2 DEF Read, Delivered
<1>1. PublishedOK' /\ StreamToMaster' /\ Settled'
  <2>1. Increasing(mread' \o m'.fifo) /\ Increasing(regs'.data) /\ Increasing(s'.tx)
    <3>1. mread \o (m.fifo \o f) = (mread \o m.fifo) \o f /\ mread \o m.fifo \in Seq(Nat)
      <4>1. mread \in Seq(Nat) /\ m.fifo \in Seq(Nat) /\ f \in Seq(Nat)
          BY <1>b
      <4>2. mread \o m.fifo \in Seq(Nat)
          BY <4>1
      <4> QED
          BY <4>1, <4>2, Concat3, Zenon
    <3>2. Below(Read, ToSet(f)) /\ Increasing(mread \o m.fifo)
        BY <1>i, <1>a, <1>b DEF Below, Ahead, PublishedOK
    <3>3. Increasing((mread \o m.fifo) \o f)
        BY <1>b, <3>1, <3>2, IncreasingConcat
    <3> QED
        BY <1>i, <1>c, <1>v, <3>1, <3>3 DEF PublishedOK
  <2>2. Read' \union Data' \union ToSet(s'.tx) \subseteq 1 .. given'
      BY <1>i, <1>a, <1>b, <1>c, <1>v DEF PublishedOK
  <2>3. \A a \in Read' \union Data', b \in ToSet(s'.tx) : a < b
      BY <1>i, <1>a, <1>b, <1>c, <1>v DEF PublishedOK
  <2>4. 1 .. given' \subseteq Delivered' \union Data' \union ToSet(s'.tx)
      BY <1>i, <1>a, <1>c, <1>v DEF PublishedOK
  <2>5. \A b \in Read' : 1 .. b - 1 \subseteq Delivered'
    <3> SUFFICES ASSUME NEW b \in Data PROVE 1 .. b - 1 \subseteq Delivered'
        BY <1>i, <1>b, <1>c DEF PublishedOK
    <3>1. b \in 1 .. given /\ given \in Nat
        BY <1>i, <1>t, Fields DEF PublishedOK
    <3>2. \A x \in 1 .. b - 1 : x \in 1 .. given /\ x \notin ToSet(s.tx)
        BY <1>i, <3>1 DEF PublishedOK
    <3> QED
        BY <1>i, <1>c, <3>2 DEF PublishedOK
  <2>6. \A b \in ToSet(mread') : 1 .. b - 1 \subseteq ToSet(mread') \union mgone'
      BY <1>i, <1>v DEF StreamToMaster
  <2>7. Settled'
      BY <1>a, <1>c DEF Settled
  <2> QED
      BY <2>7, <2>1, <2>2, <2>3, <2>4, <2>5, <2>6 DEF PublishedOK, StreamToMaster
<1>2. PollsOK'
    BY <1>i, <1>w, <1>v, <1>1 DEF PollsOK, Polling
<1>3. RoundOK'
    BY <1>i, <1>w, <1>v, <1>1 DEF RoundOK, Polling
<1> QED
    BY <1>1, <1>2, <1>3

\* A round that fails makes its connection useless: every later answer is late.
LEMMA RxFailsToMaster ==
    ASSUME MasterInv, SlaveMax <= MasterMax, RxFails
    PROVE  PollsOK' /\ RoundOK' /\ PublishedOK' /\ StreamToMaster'
<1>t. TypeOK /\ ConnsOK /\ LockOK /\ WireOK /\ RoomOK /\ RegsOK /\ BaseInv
    BY DEF MasterInv, BaseInv
<1>i. PollsOK /\ RoundOK /\ PublishedOK /\ StreamToMaster
    BY DEF MasterInv
<1>w. /\ conns' \in Seq(ConnType) /\ Len(conns') = Len(conns) /\ (conns' = <<>> <=> conns = <<>>)
      /\ Queries' = Queries /\ Answers' = Answers /\ Quiet'
      /\ m.conn = 1 => Late'
      /\ m.conn # 1 => Late' = Late
    BY <1>t, RxFailsWire
<1>v. /\ task' = task /\ given' = given /\ mread' = mread /\ mlost' = mlost
      /\ mgone' = mgone /\ m'.conn = m.conn /\ m'.fifo = m.fifo /\ regs'.cmd = regs.cmd
      /\ regs'.len = regs.len /\ regs'.data = regs.data /\ s'.tx = s.tx
      /\ rx' = "ended"
    BY <1>t, <1>w DEF RxFails, slave, mhist, shist, counts, TypeOK, MasterType, SlaveType,
       RegsType, RegsOK, LockOK
<1>1. PublishedOK' /\ StreamToMaster' /\ Settled' = Settled /\ Ahead' = Ahead
    BY <1>i, <1>v, PublishedKept
<1>2. PollsOK'
    BY <1>i, <1>w, <1>v, <1>1 DEF PollsOK, Polling
<1>3. RoundOK'
    BY <1>w, <1>v DEF RoundOK, Live
<1> QED
    BY <1>1, <1>2, <1>3

\* A write goes between two rounds: the lock.
LEMMA WriteSendsToMaster ==
    ASSUME MasterInv, SlaveMax <= MasterMax, WriteSends
    PROVE  PollsOK' /\ RoundOK' /\ PublishedOK' /\ StreamToMaster'
<1>t. TypeOK /\ ConnsOK /\ LockOK /\ WireOK /\ RoomOK /\ RegsOK /\ BaseInv
    BY DEF MasterInv, BaseInv
<1>i. PollsOK /\ RoundOK /\ PublishedOK /\ StreamToMaster
    BY DEF MasterInv
<1>w. /\ conns' \in Seq(ConnType) /\ Len(conns') <= MaxConns /\ Len(conns') \in Nat
      /\ conns' # <<>> /\ Quiet'
      /\ Answers' = Answers /\ Late' = Late
      /\ \/ /\ m.connected /\ m.conn # 0 /\ m' = m /\ Len(conns') = Len(conns) /\ conns # <<>>
            /\ Queries' = Queries \/ (m.conn = 1 /\ Queries' = Append(Queries, Query("put", blob)))
         \/ /\ ~m.connected /\ m' = [m EXCEPT !.connected = TRUE, !.conn = Len(conns) + 1]
            /\ Len(conns') = Len(conns) + 1
            /\ Queries' = IF conns = <<>> THEN <<Query("put", blob)>> ELSE Queries
    BY <1>t, WriteSendsWire
<1>v. /\ rx' = rx /\ rxlen' = rxlen /\ task' = task /\ given' = given
      /\ mread' = mread /\ mlost' = mlost /\ mgone' = mgone /\ m'.fifo = m.fifo
      /\ regs'.cmd = regs.cmd /\ regs'.len = regs.len /\ regs'.data = regs.data /\ s'.tx = s.tx
    BY <1>t, <1>w DEF WriteSends, slave, mhist, shist, counts, Query, NewConn, TypeOK, MasterType,
       SlaveType, RegsType, RegsOK, LockOK
<1>1. PublishedOK' /\ StreamToMaster' /\ Settled' = Settled /\ Ahead' = Ahead
    BY <1>i, <1>v, PublishedKept
<1>2. PollsOK'
  <2>q. Queries \in Seq(QueryType)
      BY <1>t, WireType DEF TypeOK
  <2> DEFINE q == Query("put", blob)
  <2>1. q \in QueryType /\ q.op = "put"
      BY <1>t, Fields DEF Query, QueryType
  <2> HIDE DEF q
  <2>2. Queries' = Queries \/ Queries' = Append(Queries, q) \/ Queries' = <<q>>
      BY <1>w DEF q
  <2>3. \A i \in 1 .. Len(Queries') :
           (i \in 1 .. Len(Queries) /\ Queries'[i] = Queries[i]) \/ Queries'[i].op = "put"
    <3>1. CASE Queries' = Append(Queries, q)
        BY <2>q, <2>1, <3>1, LastQuery
    <3> QED
        BY <2>1, <2>2, <3>1
  <2> QED
      BY <1>i, <1>v, <1>1, <2>3 DEF PollsOK, Polling
<1>3. RoundOK'
  <2>1. CASE m.connected /\ m' = m
      BY <1>i, <1>w, <1>v, <1>1, <2>1 DEF RoundOK, Polling, Live
  <2>2. CASE ~m.connected /\ m' = [m EXCEPT !.connected = TRUE, !.conn = Len(conns) + 1]
    <3> SUFFICES ASSUME Live'
                 PROVE  Settled' /\ ~Polling' /\ rx' \notin {"poll", "header", "data"}
        BY DEF RoundOK
    <3>1. m'.conn = Len(conns) + 1 /\ Len(conns) \in Nat
        BY <1>t, <2>2 DEF TypeOK, MasterType
    <3>2. conns = <<>>
        BY <3>1, <1>t DEF Live, TypeOK
    <3>3. regs.data = <<>> /\ task # "process"
        BY <1>t, <3>2 DEF RegsOK, ConnsOK
    <3>4. Settled
        BY <3>3, NoBytes DEF Settled, Data
    <3>5. rx \notin {"poll", "header", "data"}
        BY <1>t DEF WriteSends, LockOK
    <3> QED
        BY <1>v, <1>1, <3>3, <3>4, <3>5 DEF Polling
  <2> QED
      BY <1>w, <2>1, <2>2
<1> QED
    BY <1>1, <1>2, <1>3

\* The answer is a copy of the registers, whatever is done afterwards.
LEMMA SlaveRepliesToMaster ==
    ASSUME MasterInv, SlaveMax <= MasterMax, SlaveReplies
    PROVE  PollsOK' /\ RoundOK' /\ PublishedOK' /\ StreamToMaster'
<1>t. TypeOK /\ ConnsOK /\ LockOK /\ WireOK /\ RoomOK /\ RegsOK /\ BaseInv
    BY DEF MasterInv, BaseInv
<1>i. PollsOK /\ RoundOK /\ PublishedOK /\ StreamToMaster
    BY DEF MasterInv
<1>w. /\ conns' \in Seq(ConnType) /\ Len(conns') = Len(conns) /\ (conns' = <<>> <=> conns = <<>>)
      /\ conns # <<>> /\ Queries # <<>> /\ Queries \in Seq(QueryType)
      /\ Queries' = Tail(Queries) /\ Late' = Late /\ Quiet'
      /\ regs' = Written(Queries[1]) /\ session = 1
      /\ Answers' = Append(Answers, [len |-> regs.len, data |-> regs.data])
      /\ [len |-> regs.len, data |-> regs.data] \in AnswerType
    BY <1>t, SlaveRepliesWire
<1>v. /\ rx' = rx /\ rxlen' = rxlen /\ given' = given /\ mread' = mread
      /\ mlost' = mlost /\ mgone' = mgone /\ m'.conn = m.conn /\ m'.fifo = m.fifo
      /\ regs'.len = regs.len /\ regs'.data = regs.data /\ s'.tx = s.tx
      /\ task = "receive" /\ task' = "process" /\ regs.cmd = "none"
    BY <1>t, <1>w, ServedFacts DEF SlaveReplies, master, mhist, RegsOK
<1>s. /\ Queries[1] \in QueryType
      /\ \A i \in 1 .. Len(Tail(Queries)) : Tail(Queries)[i] = Queries[i + 1] /\ i + 1 \in 1 .. Len(Queries)
      /\ 1 \in 1 .. Len(Queries)
      /\ Queries[1].op = "poll" => regs'.cmd = "poll"
      /\ Queries[1].op = "put" => regs'.cmd = "put"
      /\ Queries[1].op \notin {"poll", "put"} => regs'.cmd = regs.cmd
    BY <1>t, <1>w, ServedFacts
<1>1. PublishedOK' /\ StreamToMaster' /\ Settled' = Settled /\ Ahead' = Ahead
    BY <1>i, <1>v, PublishedKept
<1>2. PollsOK'
  <2>1. Polling' => Queries[1].op = "poll"
      BY <1>s, <1>v DEF Polling, QueryType
  <2>2. Queries[1].op = "poll" => Settled /\ \A i \in 1 .. Len(Queries') : Queries'[i].op # "poll"
    <3> SUFFICES ASSUME Queries[1].op = "poll", NEW i \in 1 .. Len(Queries'), Queries'[i].op = "poll"
                 PROVE  FALSE
        BY <1>i, <1>s DEF PollsOK
    <3>1. i + 1 \in 1 .. Len(Queries) /\ Queries[i + 1].op = "poll" /\ i \in Nat \ {0}
        BY <1>w, <1>s
    <3>2. i + 1 = 1
        BY <1>i, <1>s, <3>1 DEF PollsOK
    <3> QED
        BY <3>1, <3>2
  <2>3. \A i, j \in 1 .. Len(Queries') : Queries'[i].op = "poll" /\ Queries'[j].op = "poll" => i = j
    <3> SUFFICES ASSUME NEW i \in 1 .. Len(Queries'), NEW j \in 1 .. Len(Queries'),
                        Queries'[i].op = "poll", Queries'[j].op = "poll"
                 PROVE  i = j
        OBVIOUS
    <3>1. /\ i + 1 \in 1 .. Len(Queries) /\ Queries[i + 1].op = "poll"
          /\ j + 1 \in 1 .. Len(Queries) /\ Queries[j + 1].op = "poll"
        BY <1>w, <1>s
    <3>2. i + 1 = j + 1
        BY <1>i, <3>1 DEF PollsOK
    <3> QED
        BY <3>2
  <2>4. \A i \in 1 .. Len(Queries') : Queries'[i].op = "poll" => Settled
      BY <1>i, <1>w, <1>s DEF PollsOK
  <2> QED
      BY <1>i, <1>v, <1>1, <2>1, <2>2, <2>3, <2>4 DEF PollsOK
<1>3. RoundOK'
  <2> SUFFICES ASSUME Live' PROVE RoundOK'
      BY DEF RoundOK
  <2>1. Live /\ Asked # <<>> /\ Queries = Asked /\ Answers = <<>>
      BY <1>t, <1>w, <1>v DEF Live, WireOK
  <2>2. ~Polling
      BY <1>v DEF Polling
  <2>3. /\ rx \in {"poll", "header", "data"} => Queries[1].op = rx
        /\ rx \notin {"poll", "header", "data"} => Queries[1].op = "put"
      BY <2>1 DEF Asked, Query
  <2>4. Answers' # <<>> /\ Answers'[1].len = regs.len /\ Answers'[1].data = regs.data
      BY <1>w, <2>1
  <2>5. rx # "poll" => ~Polling'
      BY <1>s, <1>v, <2>3 DEF Polling
  <2>6. rx = "poll" => Polling'
      BY <1>s, <1>v, <2>3 DEF Polling
  <2> QED
      BY <1>t, <1>i, <1>v, <1>1, <2>1, <2>2, <2>4, <2>5, <2>6 DEF RoundOK, PollsOK, RegsOK
<1> QED
    BY <1>1, <1>2, <1>3

\* A request that is not answered changes no blob.
LEMMA SlaveReplyFailsToMaster ==
    ASSUME MasterInv, SlaveMax <= MasterMax, SlaveReplyFails
    PROVE  PollsOK' /\ RoundOK' /\ PublishedOK' /\ StreamToMaster'
<1>t. TypeOK /\ ConnsOK /\ LockOK /\ WireOK /\ RoomOK /\ RegsOK /\ BaseInv
    BY DEF MasterInv, BaseInv
<1>i. PollsOK /\ RoundOK /\ PublishedOK /\ StreamToMaster
    BY DEF MasterInv
<1>w. /\ conns' \in Seq(ConnType) /\ Len(conns') = Len(conns) /\ (conns' = <<>> <=> conns = <<>>)
      /\ conns # <<>> /\ Queries # <<>> /\ Queries \in Seq(QueryType)
      /\ Queries' = Tail(Queries) /\ Late' = Late /\ Quiet'
      /\ regs' = Written(Queries[1]) /\ session = 1
      /\ Answers' = Answers
    BY <1>t, SlaveReplyFailsWire
<1>v. /\ rx' = rx /\ rxlen' = rxlen /\ given' = given /\ mread' = mread
      /\ mlost' = mlost /\ mgone' = mgone /\ m'.conn = m.conn /\ m'.fifo = m.fifo
      /\ regs'.len = regs.len /\ regs'.data = regs.data /\ s'.tx = s.tx
      /\ task = "receive" /\ task' = "ended"
    BY <1>t, <1>w, ServedFacts DEF SlaveReplyFails, master, mhist, RegsOK
<1>s. /\ Queries[1] \in QueryType
      /\ \A i \in 1 .. Len(Tail(Queries)) : Tail(Queries)[i] = Queries[i + 1] /\ i + 1 \in 1 .. Len(Queries)
      /\ 1 \in 1 .. Len(Queries)
      /\ Queries[1].op = "poll" => regs'.cmd = "poll"
      /\ Queries[1].op = "put" => regs'.cmd = "put"
      /\ Queries[1].op \notin {"poll", "put"} => regs'.cmd = regs.cmd
    BY <1>t, <1>w, ServedFacts
<1>1. PublishedOK' /\ StreamToMaster' /\ Settled' = Settled /\ Ahead' = Ahead
    BY <1>i, <1>v, PublishedKept
<1>2. PollsOK'
  <2>1. ~Polling'
      BY <1>v DEF Polling
  <2>2. Queries[1].op = "poll" => Settled /\ \A i \in 1 .. Len(Queries') : Queries'[i].op # "poll"
    <3> SUFFICES ASSUME Queries[1].op = "poll", NEW i \in 1 .. Len(Queries'), Queries'[i].op = "poll"
                 PROVE  FALSE
        BY <1>i, <1>s DEF PollsOK
    <3>1. i + 1 \in 1 .. Len(Queries) /\ Queries[i + 1].op = "poll" /\ i \in Nat \ {0}
        BY <1>w, <1>s
    <3>2. i + 1 = 1
        BY <1>i, <1>s, <3>1 DEF PollsOK
    <3> QED
        BY <3>1, <3>2
  <2>3. \A i, j \in 1 .. Len(Queries') : Queries'[i].op = "poll" /\ Queries'[j].op = "poll" => i = j
    <3> SUFFICES ASSUME NEW i \in 1 .. Len(Queries'), NEW j \in 1 .. Len(Queries'),
                        Queries'[i].op = "poll", Queries'[j].op = "poll"
                 PROVE  i = j
        OBVIOUS
    <3>1. /\ i + 1 \in 1 .. Len(Queries) /\ Queries[i + 1].op = "poll"
          /\ j + 1 \in 1 .. Len(Queries) /\ Queries[j + 1].op = "poll"
        BY <1>w, <1>s
    <3>2. i + 1 = j + 1
        BY <1>i, <3>1 DEF PollsOK
    <3> QED
        BY <3>2
  <2>4. \A i \in 1 .. Len(Queries') : Queries'[i].op = "poll" => Settled
      BY <1>i, <1>w, <1>s DEF PollsOK
  <2> QED
      BY <1>i, <1>v, <1>1, <2>1, <2>2, <2>3, <2>4 DEF PollsOK
<1>3. RoundOK'
    BY <1>t, <1>i, <1>w, <1>v, <1>1 DEF RoundOK, Polling, Live
<1> QED
    BY <1>1, <1>2, <1>3

\* The next blob reaches the registers only when the last one was delivered.
LEMMA SlavePreparesToMaster ==
    ASSUME MasterInv, SlaveMax <= MasterMax, SlavePrepares
    PROVE  PollsOK' /\ RoundOK' /\ PublishedOK' /\ StreamToMaster'
<1>t. TypeOK /\ ConnsOK /\ LockOK /\ WireOK /\ RoomOK /\ RegsOK /\ BaseInv
    BY DEF MasterInv, BaseInv
<1>i. PollsOK /\ RoundOK /\ PublishedOK /\ StreamToMaster
    BY DEF MasterInv
<1>w. Queries' = Queries /\ Answers' = Answers /\ Late' = Late
    BY DEF SlavePrepares, master, mhist, shist, counts, Idle, NextTurn, Queries, Answers, Late
<1>v. /\ rx' = rx /\ rxlen' = rxlen /\ given' = given /\ mread' = mread
      /\ mlost' = mlost /\ mgone' = mgone /\ m'.conn = m.conn /\ m'.fifo = m.fifo
      /\ task = "process" /\ regs.cmd = "poll"
      /\ regs'.cmd = "none"
      /\ \/ s.tx # <<>> /\ regs'.len = Len(s.tx) /\ regs'.data = s.tx /\ s'.tx = <<>>
         \/ regs'.len = 0 /\ regs'.data = regs.data /\ s'.tx = s.tx
  <2>1. CASE /\ s.pending /\ s.tx # <<>>
             /\ regs' = [Idle EXCEPT !.len = Len(s.tx), !.data = s.tx]
             /\ s' = [s EXCEPT !.pending = FALSE, !.tx = <<>>]
    <3>1. regs'.cmd = "none" /\ regs'.len = Len(s.tx) /\ regs'.data = s.tx /\ s'.tx = <<>>
        BY <1>t, <2>1 DEF Idle, TypeOK, RegsType, SlaveType
    <3> QED
        BY <2>1, <3>1 DEF SlavePrepares, master, mhist
  <2>2. CASE regs' = [Idle EXCEPT !.len = 0] /\ UNCHANGED s
    <3>1. regs'.cmd = "none" /\ regs'.len = 0 /\ regs'.data = regs.data /\ s'.tx = s.tx
        BY <1>t, <2>2 DEF Idle, TypeOK, RegsType, SlaveType
    <3> QED
        BY <3>1 DEF SlavePrepares, master, mhist
  <2> QED
      BY <2>1, <2>2 DEF SlavePrepares
<1>p. Polling /\ ~Polling' /\ Settled /\ \A i \in 1 .. Len(Queries) : Queries[i].op # "poll"
    BY <1>i, <1>v DEF Polling, PollsOK
<1>1. /\ PublishedOK' /\ StreamToMaster'
      /\ ((regs'.len = 0 /\ regs'.data = regs.data /\ Settled') \/ (Ahead' /\ regs'.len = Len(regs'.data) /\ regs'.len # 0))
  <2>1. CASE s.tx # <<>> /\ regs'.len = Len(s.tx) /\ regs'.data = s.tx /\ s'.tx = <<>>
    <3>1. Read' = Read /\ Delivered' = Delivered /\ Data' = ToSet(s.tx) /\ ToSet(s'.tx) = {}
        BY <1>v, <2>1, NoBytes DEF Read, Delivered, Data
    <3>2. Increasing(regs'.data) /\ Increasing(s'.tx) /\ Increasing(mread' \o m'.fifo)
        BY <1>i, <1>v, <2>1, NoBytes DEF PublishedOK
    <3>3. Ahead' /\ regs'.len = Len(regs'.data) /\ regs'.len # 0
        BY <1>t, <1>i, <2>1, <3>1, Fields DEF PublishedOK, Ahead
    <3>4. 1 .. given' \subseteq Delivered' \union Data' \union ToSet(s'.tx)
        BY <1>i, <1>p, <1>v, <3>1 DEF PublishedOK, Settled
    <3>5. PublishedOK'
        BY <1>i, <1>v, <3>1, <3>2, <3>4 DEF PublishedOK
    <3> QED
        BY <1>i, <1>v, <3>3, <3>5 DEF StreamToMaster
  <2>2. CASE regs'.len = 0 /\ regs'.data = regs.data /\ s'.tx = s.tx
      BY <1>i, <1>p, <1>v, <2>2, PublishedKept
  <2> QED
      BY <1>v, <2>1, <2>2
<1>2. PollsOK'
    BY <1>i, <1>w, <1>p, <1>1 DEF PollsOK
<1>3. RoundOK'
  <2>1. CASE regs'.data = regs.data /\ regs'.len = 0 /\ Settled'
    <3>1. Settled' /\ ~Polling'
        BY <1>p, <1>1, <2>1
    <3> QED
        BY <1>i, <1>w, <1>v, <1>p, <2>1, <3>1 DEF RoundOK, Live
  <2>2. CASE Ahead'
      BY <1>i, <1>w, <1>v, <1>p, <2>2 DEF RoundOK, Live
  <2> QED
      BY <1>1, <2>1, <2>2
<1> QED
    BY <1>1, <1>2, <1>3

\* attach reports or discards what overflowed before it.
LEMMA MasterAttachToMaster ==
    ASSUME MasterInv, SlaveMax <= MasterMax, MasterAttach
    PROVE  PollsOK' /\ RoundOK' /\ PublishedOK' /\ StreamToMaster'
<1>t. TypeOK /\ ConnsOK /\ LockOK /\ WireOK /\ RoomOK /\ RegsOK /\ BaseInv
    BY DEF MasterInv, BaseInv
<1>i. PollsOK /\ RoundOK /\ PublishedOK /\ StreamToMaster
    BY DEF MasterInv
<1>w. /\ conns' \in Seq(ConnType) /\ Len(conns') \in Len(conns) .. Len(conns) + 1
      /\ (Len(conns') # Len(conns) => Len(conns) < MaxConns)
      /\ Queries' = Queries /\ Answers' = Answers /\ Late' = Late /\ Quiet'
      /\ conns' = <<>> => conns = <<>>
      /\ m.connected => m' = Reset /\ conns' = conns
      /\ ~m.connected =>
            m' = [Reset EXCEPT !.connected = TRUE, !.conn = Len(conns) + 1] /\ Len(conns') = Len(conns) + 1
    BY <1>t, AttachWire
<1>v. /\ rxlen' = rxlen /\ task' = task /\ given' = given /\ mread' = mread
      /\ m'.fifo = m.fifo /\ regs'.cmd = regs.cmd /\ regs'.len = regs.len
      /\ regs'.data = regs.data
      /\ s'.tx = s.tx
      /\ rx' = "top"
      /\ mlost' = {}
      /\ mgone' = mgone \union mlost
  <2>1. m'.fifo = m.fifo
      BY <1>t, <1>w DEF Reset, TypeOK, MasterType
  <2> QED
      BY <1>t, <2>1 DEF MasterAttach, AttachBegins, slave, LockOK
<1>1. PublishedOK' /\ StreamToMaster' /\ Settled' = Settled /\ Ahead' = Ahead
    BY <1>i, <1>v, PublishedKept
<1>2. PollsOK'
    BY <1>i, <1>w, <1>v, <1>1 DEF PollsOK, Polling
<1>3. RoundOK'
  <2> SUFFICES ASSUME Live'
               PROVE  Settled' /\ ~Polling' /\ rx' \notin {"poll", "header", "data"}
      BY DEF RoundOK
  <2>1. Len(conns) \in Nat
      BY <1>t DEF TypeOK
  <2>2. CASE m.connected
    <3>1. m'.conn = 0
        BY <1>t, <1>w, <2>2 DEF Reset, TypeOK, MasterType
    <3> QED
        BY <3>1 DEF Live
  <2>3. CASE ~m.connected
    <3>1. m'.conn = Len(conns) + 1
        BY <1>t, <1>w, <2>3 DEF Reset, TypeOK, MasterType
    <3>2. conns = <<>>
        BY <2>1, <3>1, <1>t DEF Live, TypeOK
    <3>3. regs.data = <<>> /\ task # "process"
        BY <1>t, <3>2 DEF RegsOK, ConnsOK
    <3>4. Settled
        BY <3>3, NoBytes DEF Settled, Data
    <3> QED
        BY <1>v, <1>1, <3>3, <3>4 DEF Polling
  <2> QED
      BY <2>2, <2>3
<1> QED
    BY <1>1, <1>2, <1>3

\* So does an attach that fails with the lock held.
LEMMA MasterAttachLeavesLockToMaster ==
    ASSUME MasterInv, SlaveMax <= MasterMax, MasterAttachLeavesLock
    PROVE  PollsOK' /\ RoundOK' /\ PublishedOK' /\ StreamToMaster'
<1>t. TypeOK /\ ConnsOK /\ LockOK /\ WireOK /\ RoomOK /\ RegsOK /\ BaseInv
    BY DEF MasterInv, BaseInv
<1>i. PollsOK /\ RoundOK /\ PublishedOK /\ StreamToMaster
    BY DEF MasterInv
<1>w. /\ conns' \in Seq(ConnType) /\ Len(conns') \in Len(conns) .. Len(conns) + 1
      /\ (Len(conns') # Len(conns) => Len(conns) < MaxConns)
      /\ Queries' = Queries /\ Answers' = Answers /\ Late' = Late /\ Quiet'
      /\ conns' = <<>> => conns = <<>>
      /\ m.connected => m' = Reset /\ conns' = conns
      /\ ~m.connected =>
            m' = [Reset EXCEPT !.connected = TRUE, !.conn = Len(conns) + 1] /\ Len(conns') = Len(conns) + 1
    BY <1>t, AttachWire
<1>v. /\ rxlen' = rxlen /\ task' = task /\ given' = given /\ mread' = mread
      /\ m'.fifo = m.fifo /\ regs'.cmd = regs.cmd /\ regs'.len = regs.len
      /\ regs'.data = regs.data
      /\ s'.tx = s.tx
      /\ rx' = rx /\ rx \notin {"poll", "header", "data"}
      /\ mlost' = {}
      /\ mgone' = mgone \union mlost
  <2>1. m'.fifo = m.fifo
      BY <1>t, <1>w DEF Reset, TypeOK, MasterType
  <2> QED
      BY <1>t, <2>1 DEF MasterAttachLeavesLock, AttachBegins, slave, LockOK
<1>1. PublishedOK' /\ StreamToMaster' /\ Settled' = Settled /\ Ahead' = Ahead
    BY <1>i, <1>v, PublishedKept
<1>2. PollsOK'
    BY <1>i, <1>w, <1>v, <1>1 DEF PollsOK, Polling
<1>3. RoundOK'
  <2> SUFFICES ASSUME Live'
               PROVE  Settled' /\ ~Polling' /\ rx' \notin {"poll", "header", "data"}
      BY DEF RoundOK
  <2>1. Len(conns) \in Nat
      BY <1>t DEF TypeOK
  <2>2. CASE m.connected
    <3>1. m'.conn = 0
        BY <1>t, <1>w, <2>2 DEF Reset, TypeOK, MasterType
    <3> QED
        BY <3>1 DEF Live
  <2>3. CASE ~m.connected
    <3>1. m'.conn = Len(conns) + 1
        BY <1>t, <1>w, <2>3 DEF Reset, TypeOK, MasterType
    <3>2. conns = <<>>
        BY <2>1, <3>1, <1>t DEF Live, TypeOK
    <3>3. regs.data = <<>> /\ task # "process"
        BY <1>t, <3>2 DEF RegsOK, ConnsOK
    <3>4. Settled
        BY <3>3, NoBytes DEF Settled, Data
    <3> QED
        BY <1>v, <1>1, <3>3, <3>4 DEF Polling
  <2> QED
      BY <2>2, <2>3
<1> QED
    BY <1>1, <1>2, <1>3

\* read takes the oldest bytes, or reports what was lost.
LEMMA MasterReadToMaster ==
    ASSUME MasterInv, SlaveMax <= MasterMax, MasterRead
    PROVE  PollsOK' /\ RoundOK' /\ PublishedOK' /\ StreamToMaster'
<1>t. TypeOK /\ ConnsOK /\ LockOK /\ WireOK /\ RoomOK /\ RegsOK /\ BaseInv
    BY DEF MasterInv, BaseInv
<1>i. PollsOK /\ RoundOK /\ PublishedOK /\ StreamToMaster
    BY DEF MasterInv
<1>w. Queries' = Queries /\ Answers' = Answers /\ Late' = Late
    BY DEF MasterRead, slave, mhist, shist, counts, Queries, Answers, Late
<1>v. /\ rx' = rx /\ rxlen' = rxlen /\ task' = task /\ given' = given
      /\ m'.conn = m.conn /\ regs'.cmd = regs.cmd /\ regs'.len = regs.len
      /\ regs'.data = regs.data
      /\ s'.tx = s.tx
    BY <1>t, <1>w, Zenon DEF MasterRead, slave, mhist, shist, counts, TypeOK, MasterType,
       SlaveType, RegsType, RegsOK, LockOK
<1>1. PublishedOK' /\ StreamToMaster' /\ Settled' = Settled /\ (Ahead => Ahead')
  <2>1. CASE m' = [m EXCEPT !.dead = FALSE] /\ UNCHANGED mhist
    <3>1. m'.fifo = m.fifo
        BY <1>t, <2>1 DEF TypeOK, MasterType
    <3> QED
        BY <1>i, <1>v, <2>1, <3>1, PublishedKept DEF mhist
  <2>2. CASE /\ m' = [m EXCEPT !.overflow = FALSE]
             /\ mgone' = mgone \union mlost /\ mlost' = {} /\ mread' = mread
    <3>1. m'.fifo = m.fifo
        BY <1>t, <2>2 DEF TypeOK, MasterType
    <3> QED
        BY <1>i, <1>v, <2>2, <3>1, PublishedKept
  <2>3. ASSUME NEW f \in Seq(Nat), NEW r \in Seq(Nat), ~m.overflow, mlost' = mlost,
               f \o r = m.fifo, Len(r) <= Len(m.fifo), m' = [m EXCEPT !.fifo = r],
               \/ mread' = mread \o f /\ mgone' = mgone
               \/ mread' = mread /\ mgone' = mgone \union ToSet(f)
        PROVE  PublishedOK' /\ StreamToMaster' /\ Settled' = Settled /\ (Ahead => Ahead')
    <3>1. m'.fifo = r /\ mlost = {}
        BY <1>t, <2>3 DEF TypeOK, MasterType, RoomOK
    <3>2. /\ ToSet(m.fifo) = ToSet(f) \union ToSet(r) /\ mread \in Seq(Nat) /\ m.fifo \in Seq(Nat)
          /\ Increasing(mread) /\ Below(ToSet(mread), ToSet(m.fifo))
          /\ Increasing(f) /\ Increasing(r) /\ Below(ToSet(f), ToSet(r))
      <4>1. mread \in Seq(Nat) /\ m.fifo \in Seq(Nat) /\ Increasing(mread \o m.fifo)
          BY <1>t, <1>i, Fields DEF PublishedOK
      <4>2. Increasing(mread) /\ Increasing(m.fifo) /\ Below(ToSet(mread), ToSet(m.fifo))
          BY <4>1, IncreasingConcat
      <4>3. ToSet(f \o r) = ToSet(f) \union ToSet(r)
          BY <2>3, SetOfConcat
      <4>4. Increasing(f \o r) => Increasing(f) /\ Increasing(r) /\ Below(ToSet(f), ToSet(r))
          BY <2>3, IncreasingConcat
      <4> QED
          BY <2>3, <4>1, <4>2, <4>3, <4>4
    <3>3. CASE mread' = mread \o f /\ mgone' = mgone
      <4>1. ToSet(mread') = ToSet(mread) \union ToSet(f) /\ Increasing(mread')
        <5>1. ToSet(mread \o f) = ToSet(mread) \union ToSet(f)
            BY <2>3, <3>2, SetOfConcat
        <5>2. Below(ToSet(mread), ToSet(f))
            BY <3>2 DEF Below
        <5>3. Increasing(mread \o f)
            BY <2>3, <3>2, <5>2, IncreasingConcat
        <5> QED
            BY <3>3, <5>1, <5>3
      <4>2. Increasing(mread' \o r)
        <5>1. mread \o f \in Seq(Nat) /\ Below(ToSet(mread'), ToSet(r))
            BY <2>3, <3>2, <4>1 DEF Below
        <5> QED
            BY <2>3, <3>2, <3>3, <4>1, <5>1, IncreasingConcat
      <4>3. Read' = Read /\ Data' = Data /\ Delivered' = Delivered
          BY <1>v, <2>3, <3>1, <3>2, <3>3, <4>1 DEF Read, Data, Delivered
      <4>4. ASSUME NEW b \in ToSet(mread')
            PROVE  1 .. b - 1 \subseteq ToSet(mread') \union mgone'
        <5>1. CASE b \in ToSet(mread)
            BY <1>i, <3>3, <4>1, <5>1 DEF StreamToMaster
        <5>2. CASE b \in ToSet(f)
          <6>1. b \in Read /\ b \in Nat
              BY <2>3, <3>2, <5>2, SetOf DEF Read
          <6>2. 1 .. b - 1 \subseteq ToSet(mread) \union ToSet(f) \union ToSet(r) \union mgone
              BY <1>i, <3>1, <3>2, <6>1 DEF PublishedOK, Delivered, Read
          <6>3. \A x \in 1 .. b - 1 : x \notin ToSet(r)
              BY <3>2, <5>2, <6>1 DEF Below
          <6> QED
              BY <3>3, <4>1, <6>2, <6>3
        <5> QED
            BY <4>1, <5>1, <5>2
      <4>5. PublishedOK'
          BY <1>i, <1>v, <3>1, <4>2, <4>3 DEF PublishedOK
      <4> QED
          BY <3>1, <4>2, <4>3, <4>4, <4>5 DEF StreamToMaster, Settled, Ahead
    <3>4. CASE mread' = mread /\ mgone' = mgone \union ToSet(f)
      <4>1. Read' \subseteq Read /\ Data' = Data /\ Delivered' = Delivered
          BY <1>v, <2>3, <3>1, <3>2, <3>4 DEF Read, Data, Delivered
      <4>2. Increasing(mread \o r)
        <5>1. Below(ToSet(mread), ToSet(r))
            BY <3>2 DEF Below
        <5> QED
            BY <2>3, <3>2, <5>1, IncreasingConcat
      <4>3. PublishedOK'
          BY <1>i, <1>v, <3>1, <3>4, <4>1, <4>2 DEF PublishedOK
      <4>4. StreamToMaster'
          BY <1>i, <3>1, <3>4, <4>2 DEF StreamToMaster
      <4> QED
          BY <4>1, <4>3, <4>4 DEF Settled, Ahead
    <3> QED
        BY <2>3, <3>3, <3>4
  <2> QED
      BY <1>t, <2>1, <2>2, <2>3, MasterReadMoves
<1>2. PollsOK'
    BY <1>i, <1>w, <1>v, <1>1 DEF PollsOK, Polling
<1>3. RoundOK'
    BY <1>t, <1>i, <1>w, <1>v, <1>1 DEF RoundOK, Polling, Live
<1> QED
    BY <1>1, <1>2, <1>3

\* attach of the slave comes before every byte.
LEMMA SlaveAttachToMaster ==
    ASSUME MasterInv, SlaveMax <= MasterMax, SlaveAttach
    PROVE  PollsOK' /\ RoundOK' /\ PublishedOK' /\ StreamToMaster'
<1>t. TypeOK /\ ConnsOK /\ LockOK /\ WireOK /\ RoomOK /\ RegsOK /\ BaseInv
    BY DEF MasterInv, BaseInv
<1>i. PollsOK /\ RoundOK /\ PublishedOK /\ StreamToMaster
    BY DEF MasterInv
<1>w. Queries' = Queries /\ Answers' = Answers /\ Late' = Late
    BY DEF SlaveAttach, master, mhist, shist, counts, Queries, Answers, Late
<1>v. /\ rx' = rx /\ rxlen' = rxlen /\ given' = given /\ mread' = mread
      /\ mlost' = mlost /\ mgone' = mgone /\ m'.conn = m.conn /\ m'.fifo = m.fifo
      /\ task = "off" /\ task' = "accept"
      /\ regs'.len = 0
      /\ regs.data = <<>> /\ regs'.data = <<>>
      /\ s'.tx = s.tx
    BY <1>t, <1>w DEF SlaveAttach, master, mhist, shist, counts, TypeOK, MasterType, SlaveType,
       RegsType, RegsOK, LockOK
<1>1. PublishedOK' /\ StreamToMaster' /\ Settled' = Settled /\ Ahead' = Ahead
    BY <1>i, <1>v, PublishedKept
<1>2. PollsOK'
  <2>1. Settled'
      BY <1>v, NoBytes DEF Settled, Data
  <2> QED
      BY <1>i, <1>w, <1>v, <1>1, <2>1 DEF PollsOK, Polling
<1>3. RoundOK'
  <2>1. Settled'
      BY <1>v, NoBytes DEF Settled, Data
  <2> QED
      BY <1>t, <1>i, <1>w, <1>v, <1>1, <2>1 DEF RoundOK, Polling, Live
<1> QED
    BY <1>1, <1>2, <1>3

\* New bytes are behind all others.
LEMMA SlaveWriteToMaster ==
    ASSUME MasterInv, SlaveMax <= MasterMax, NEW n \in 1 .. SlaveMax, SlaveWrite(n)
    PROVE  PollsOK' /\ RoundOK' /\ PublishedOK' /\ StreamToMaster'
<1>t. TypeOK /\ ConnsOK /\ LockOK /\ WireOK /\ RoomOK /\ RegsOK /\ BaseInv
    BY DEF MasterInv, BaseInv
<1>i. PollsOK /\ RoundOK /\ PublishedOK /\ StreamToMaster
    BY DEF MasterInv
<1>w. Queries' = Queries /\ Answers' = Answers /\ Late' = Late
    BY DEF SlaveWrite, master, mhist, shist, counts, Queries, Answers, Late
<1>v. /\ rx' = rx /\ rxlen' = rxlen /\ task' = task /\ mread' = mread
      /\ mlost' = mlost /\ mgone' = mgone /\ m'.conn = m.conn /\ m'.fifo = m.fifo
      /\ regs'.cmd = regs.cmd /\ regs'.len = regs.len /\ regs'.data = regs.data
      /\ given' = given + n
      /\ s.tx = <<>> /\ s'.tx = Consecutive(given, n)
    BY <1>t, <1>w DEF SlaveWrite, master, mhist, shist, counts, TypeOK, MasterType, SlaveType,
       RegsType, RegsOK, LockOK
<1>n. /\ ToSet(s.tx) = {} /\ ToSet(s'.tx) = given + 1 .. given + n /\ Increasing(s'.tx)
      /\ given \in Nat /\ n \in Nat
  <2>1. given \in Nat /\ n \in Nat
      BY <1>t, Fields, Bounds
  <2> QED
      BY <1>v, <2>1, NewBytes, NoBytes, Zenon
<1>d. Read' = Read /\ Data' = Data /\ Delivered' = Delivered
    BY <1>v DEF Read, Data, Delivered
<1>1. PublishedOK' /\ StreamToMaster' /\ Settled' = Settled /\ Ahead' = Ahead
  <2>1. Increasing(mread' \o m'.fifo) /\ Increasing(regs'.data) /\ Increasing(s'.tx)
      BY <1>i, <1>v, <1>n DEF PublishedOK
  <2>2. Read' \union Data' \union ToSet(s'.tx) \subseteq 1 .. given'
      BY <1>i, <1>v, <1>n, <1>d DEF PublishedOK
  <2>3. \A a \in Read' \union Data', b \in ToSet(s'.tx) : a < b
      BY <1>i, <1>n, <1>d DEF PublishedOK
  <2>4. 1 .. given' \subseteq Delivered' \union Data' \union ToSet(s'.tx)
      BY <1>i, <1>v, <1>n, <1>d DEF PublishedOK
  <2>5. \A b \in Read' : 1 .. b - 1 \subseteq Delivered'
      BY <1>i, <1>d DEF PublishedOK
  <2>6. \A b \in ToSet(mread') : 1 .. b - 1 \subseteq ToSet(mread') \union mgone'
      BY <1>i, <1>v DEF StreamToMaster
  <2>7. Settled' = Settled /\ Ahead' = Ahead
      BY <1>d DEF Settled, Ahead
  <2> QED
      BY <2>7, <2>1, <2>2, <2>3, <2>4, <2>5, <2>6 DEF PublishedOK, StreamToMaster
<1>2. PollsOK'
    BY <1>i, <1>w, <1>v, <1>1 DEF PollsOK, Polling
<1>3. RoundOK'
    BY <1>t, <1>i, <1>w, <1>v, <1>1 DEF RoundOK, Polling, Live
<1> QED
    BY <1>1, <1>2, <1>3

\* enable of the master discards what its FIFO holds.
LEMMA MasterEnableToMaster ==
    ASSUME MasterInv, SlaveMax <= MasterMax, NEW on \in BOOLEAN, MasterEnable(on)
    PROVE  PollsOK' /\ RoundOK' /\ PublishedOK' /\ StreamToMaster'
<1>t. TypeOK /\ ConnsOK /\ LockOK /\ WireOK /\ RoomOK /\ RegsOK /\ BaseInv
    BY DEF MasterInv, BaseInv
<1>i. PollsOK /\ RoundOK /\ PublishedOK /\ StreamToMaster
    BY DEF MasterInv
<1>w. Queries' = Queries /\ Answers' = Answers /\ Late' = Late
    BY DEF MasterEnable, slave, shist, Called, Queries, Answers, Late
<1>v. /\ rx' = rx /\ rxlen' = rxlen /\ task' = task /\ given' = given
      /\ mread' = mread /\ m'.conn = m.conn /\ regs'.cmd = regs.cmd /\ regs'.len = regs.len
      /\ regs'.data = regs.data /\ s'.tx = s.tx
      /\ mlost' = {}
      /\ mgone' = mgone \union mlost \union ToSet(m.fifo)
      /\ m'.fifo = <<>>
    BY <1>t, <1>w DEF MasterEnable, slave, shist, Called, TypeOK, MasterType, SlaveType, RegsType,
       RegsOK, LockOK
<1>d. /\ Read' \subseteq Read /\ Data' = Data /\ Delivered' = Delivered
      /\ mread \in Seq(Nat) /\ m.fifo \in Seq(Nat) /\ mread \o <<>> = mread
    BY <1>t, <1>v, Fields, NoBytes DEF Read, Data, Delivered
<1>1. PublishedOK' /\ StreamToMaster' /\ Settled' = Settled /\ (Ahead => Ahead')
  <2>1. Increasing(mread' \o m'.fifo) /\ Increasing(regs'.data) /\ Increasing(s'.tx)
      BY <1>i, <1>v, <1>d, IncreasingConcat DEF PublishedOK
  <2>2. Read' \union Data' \union ToSet(s'.tx) \subseteq 1 .. given'
      BY <1>i, <1>v, <1>d DEF PublishedOK
  <2>3. \A a \in Read' \union Data', b \in ToSet(s'.tx) : a < b
      BY <1>i, <1>v, <1>d DEF PublishedOK
  <2>4. 1 .. given' \subseteq Delivered' \union Data' \union ToSet(s'.tx)
      BY <1>i, <1>v, <1>d DEF PublishedOK
  <2>5. \A b \in Read' : 1 .. b - 1 \subseteq Delivered'
      BY <1>i, <1>d DEF PublishedOK
  <2>6. \A b \in ToSet(mread') : 1 .. b - 1 \subseteq ToSet(mread') \union mgone'
      BY <1>i, <1>v DEF StreamToMaster
  <2>7. Settled' = Settled /\ (Ahead => Ahead')
      BY <1>d DEF Settled, Ahead
  <2> QED
      BY <2>7, <2>1, <2>2, <2>3, <2>4, <2>5, <2>6 DEF PublishedOK, StreamToMaster
<1>2. PollsOK'
    BY <1>i, <1>w, <1>v, <1>1 DEF PollsOK, Polling
<1>3. RoundOK'
    BY <1>t, <1>i, <1>w, <1>v, <1>1 DEF RoundOK, Polling, Live
<1> QED
    BY <1>1, <1>2, <1>3

\* enable of the slave discards the blob in the registers, which no round fetches
\* any more (length 0), and the pending one.
LEMMA SlaveEnableToMaster ==
    ASSUME MasterInv, SlaveMax <= MasterMax, NEW on \in BOOLEAN, SlaveEnable(on)
    PROVE  PollsOK' /\ RoundOK' /\ PublishedOK' /\ StreamToMaster'
<1>t. TypeOK /\ ConnsOK /\ LockOK /\ WireOK /\ RoomOK /\ RegsOK /\ BaseInv
    BY DEF MasterInv, BaseInv
<1>i. PollsOK /\ RoundOK /\ PublishedOK /\ StreamToMaster
    BY DEF MasterInv
<1>w. Queries' = Queries /\ Answers' = Answers /\ Late' = Late
    BY DEF SlaveEnable, master, Called, Queries, Answers, Late
<1>v. /\ rx' = rx /\ rxlen' = rxlen /\ task' = task /\ given' = given
      /\ mread' = mread /\ mlost' = mlost /\ m'.conn = m.conn /\ m'.fifo = m.fifo
      /\ regs'.cmd = regs.cmd /\ regs'.data = regs.data
      /\ mgone' = mgone \union ToSet(s.tx) \union ToSet(First(regs.data, regs.len))
      /\ regs'.len = 0
      /\ s'.tx = <<>>
    BY <1>t, <1>w DEF SlaveEnable, master, Called, TypeOK, MasterType, SlaveType, RegsType,
       RegsOK, LockOK
<1>d. /\ Read' = Read /\ Data' = Data
      /\ Delivered' = Delivered \union ToSet(s.tx) \union ToSet(First(regs.data, regs.len))
    BY <1>v DEF Read, Data, Delivered
<1>e. Settled'
  <2>1. CASE regs.len = 0
      BY <1>i, <1>d, <2>1 DEF PollsOK, Settled
  <2>2. CASE regs.len = Len(regs.data)
    <3>1. First(regs.data, Len(regs.data)) = regs.data
        BY <1>t, Fields, WholeCut
    <3> QED
        BY <1>d, <2>2, <3>1 DEF Settled, Data
  <2> QED
      BY <1>t, <2>1, <2>2 DEF RegsOK
<1>1. PublishedOK' /\ StreamToMaster' /\ Ahead' = Ahead
  <2>1. Increasing(mread' \o m'.fifo) /\ Increasing(regs'.data) /\ Increasing(s'.tx)
      BY <1>i, <1>v, NoBytes DEF PublishedOK
  <2>2. Read' \union Data' \union ToSet(s'.tx) \subseteq 1 .. given'
      BY <1>i, <1>v, <1>d, NoBytes DEF PublishedOK
  <2>3. \A a \in Read' \union Data', b \in ToSet(s'.tx) : a < b
      BY <1>v, NoBytes
  <2>4. 1 .. given' \subseteq Delivered' \union Data' \union ToSet(s'.tx)
      BY <1>i, <1>v, <1>d DEF PublishedOK
  <2>5. \A b \in Read' : 1 .. b - 1 \subseteq Delivered'
      BY <1>i, <1>d DEF PublishedOK
  <2>6. \A b \in ToSet(mread') : 1 .. b - 1 \subseteq ToSet(mread') \union mgone'
      BY <1>i, <1>v DEF StreamToMaster
  <2>7. Ahead' = Ahead
      BY <1>d DEF Ahead
  <2> QED
      BY <2>7, <2>1, <2>2, <2>3, <2>4, <2>5, <2>6 DEF PublishedOK, StreamToMaster
<1>2. PollsOK'
    BY <1>i, <1>w, <1>v, <1>e DEF PollsOK, Polling
<1>3. RoundOK'
    BY <1>t, <1>i, <1>w, <1>v, <1>e, <1>1 DEF RoundOK, Polling, Live
<1> QED
    BY <1>1, <1>2, <1>3

\* Every step preserves MasterInv when no blob of the slave is cut (max_blob_bytes).
LEMMA MasterStep ==
    ASSUME MasterInv, SlaveMax <= MasterMax, [Next]_vars
    PROVE  MasterInv'
<1>b. BaseInv'
    BY BaseOf, BaseStep
<1>1. CASE UNCHANGED vars
  <2>1. UNCHANGED <<m, lock, rx, rxlen, app, blob, s, regs, task, session, conns, given, put,
                    acked>>
      BY <1>1 DEF vars, master, slave, mhist, shist, counts
  <2>2. UNCHANGED <<mread, mlost, mgone, sread, slost, sgone, attached, calls>>
      BY <1>1 DEF vars, master, slave, mhist, shist, counts
  <2>3. Queries' = Queries /\ Answers' = Answers /\ Late' = Late /\ Live' = Live
      BY <2>1 DEF Queries, Answers, Late, Live
  <2> QED
      BY <1>b, <2>1, <2>2, <2>3 DEF MasterInv, PollsOK, RoundOK, PublishedOK, StreamToMaster,
         Polling, Settled, Ahead, Data, Read, Delivered
<1>2. CASE AsideMaster
    BY <1>b, <1>2, MasterKept DEF MasterInv
<1>3. CASE RxLooks
    BY <1>b, <1>3, RxLooksToMaster DEF MasterInv
<1>4. CASE RxPolls
    BY <1>b, <1>4, RxPollsToMaster DEF MasterInv
<1>5. CASE RxPollUnsent
    BY <1>b, <1>5, RxPollUnsentToMaster DEF MasterInv
<1>6. CASE RxPollAnswered
    BY <1>b, <1>6, RxPollAnsweredToMaster DEF MasterInv
<1>7. CASE RxHeaderAnswered
    BY <1>b, <1>7, RxHeaderAnsweredToMaster DEF MasterInv
<1>8. CASE RxDataAnswered
    BY <1>b, <1>8, RxDataAnsweredToMaster DEF MasterInv
<1>9. CASE RxFails
    BY <1>b, <1>9, RxFailsToMaster DEF MasterInv
<1>10. CASE WriteSends
    BY <1>b, <1>10, WriteSendsToMaster DEF MasterInv
<1>11. CASE SlaveReplies
    BY <1>b, <1>11, SlaveRepliesToMaster DEF MasterInv
<1>12. CASE SlaveReplyFails
    BY <1>b, <1>12, SlaveReplyFailsToMaster DEF MasterInv
<1>13. CASE SlavePrepares
    BY <1>b, <1>13, SlavePreparesToMaster DEF MasterInv
<1>14. CASE MasterAttach
    BY <1>b, <1>14, MasterAttachToMaster DEF MasterInv
<1>15. CASE MasterAttachLeavesLock
    BY <1>b, <1>15, MasterAttachLeavesLockToMaster DEF MasterInv
<1>16. CASE MasterRead
    BY <1>b, <1>16, MasterReadToMaster DEF MasterInv
<1>17. CASE SlaveAttach
    BY <1>b, <1>17, SlaveAttachToMaster DEF MasterInv
<1>18. ASSUME NEW n \in 1 .. SlaveMax, SlaveWrite(n) PROVE MasterInv'
    BY <1>b, <1>18, SlaveWriteToMaster DEF MasterInv
<1>19. ASSUME NEW b \in BOOLEAN, MasterEnable(b) PROVE MasterInv'
    BY <1>b, <1>19, MasterEnableToMaster DEF MasterInv
<1>20. ASSUME NEW b \in BOOLEAN, SlaveEnable(b) PROVE MasterInv'
    BY <1>b, <1>20, SlaveEnableToMaster DEF MasterInv
<1> QED
    BY BaseOf, MasterAside, <1>1, <1>2, <1>3, <1>4, <1>5, <1>6, <1>7, <1>8, <1>9, <1>10, <1>11,
       <1>12, <1>13, <1>14, <1>15, <1>16, <1>17, <1>18, <1>19, <1>20 DEF Next, Rx, App, Task

(***************************************************************************)
(* From the master to the slave                                            *)
(***************************************************************************)
\* Where a byte that arrived may be,
LEMMA ArrivedIs ==
    /\ \A x : x \in Arrived <=> \/ x \in ToSet(sread) \/ x \in ToSet(s.fifo) \/ x \in sgone
                                \/ s.overflow /\ x \in slost
                                \/ Putting /\ x \in ToSet(regs.m2s)
    /\ \A x : x \in Arrived' <=> \/ x \in ToSet(sread') \/ x \in ToSet(s'.fifo) \/ x \in sgone'
                                 \/ s'.overflow /\ x \in slost'
                                 \/ Putting' /\ x \in ToSet(regs'.m2s)
BY DEF Arrived, Putting, Received

\* and when none of them is gone.
LEMMA ArrivedKept ==
    ASSUME sread' = sread, s'.fifo = s.fifo, sgone' = sgone, slost' = slost, s'.overflow = s.overflow,
           Putting => Putting' /\ regs'.m2s = regs.m2s
    PROVE  Arrived \subseteq Arrived' /\ Received' = Received
BY ArrivedIs DEF Received

\* A new request that carries no blob.
LEMMA SentAsks ==
    ASSUME SentOK, sread' = sread, s'.fifo = s.fifo, regs'.m2s = regs.m2s, Putting' = Putting,
           blob' = blob, put' = put, app' = app,
           \A i \in 1 .. Len(Queries') :
              (i \in 1 .. Len(Queries) /\ Queries'[i] = Queries[i]) \/ Queries'[i].blob = <<>>
    PROVE  SentOK'
<1>1. Received' = Received
    BY DEF Received
<1>2. \A i \in 1 .. Len(Queries') : \/ i \in 1 .. Len(Queries) /\ Queries'[i] = Queries[i]
                                    \/ Increasing(Queries'[i].blob) /\ ToSet(Queries'[i].blob) = {}
    BY NoBytes
<1> QED
    BY <1>1, <1>2, Zenon DEF SentOK, Below

\* A request is taken, and its blob is in the registers.
LEMMA SentServed ==
    ASSUME SentOK, sread' = sread, s'.fifo = s.fifo, blob' = blob, put' = put, app' = app, ~Putting,
           1 \in 1 .. Len(Queries), Len(Queries) \in Nat,
           \A i \in 1 .. Len(Queries') : Queries'[i] = Queries[i + 1] /\ i + 1 \in 1 .. Len(Queries),
           \/ regs'.m2s = Queries[1].blob
           \/ regs'.m2s \in {<<>>, regs.m2s} /\ ~Putting'
    PROVE  SentOK'
<1>1. Received' = Received
    BY DEF Received
<1>2. CASE regs'.m2s = Queries[1].blob
  <2>1. /\ Increasing(regs'.m2s) /\ ToSet(regs'.m2s) \subseteq 1 .. put
        /\ Below(Received, ToSet(regs'.m2s))
      BY <1>2 DEF SentOK, Below
  <2>2. \A i \in 1 .. Len(Queries') : Below(Received \union ToSet(regs'.m2s), ToSet(Queries'[i].blob))
    <3> SUFFICES ASSUME NEW i \in 1 .. Len(Queries')
                 PROVE  Below(Received \union ToSet(regs'.m2s), ToSet(Queries'[i].blob))
        OBVIOUS
    <3>1. Queries'[i] = Queries[i + 1] /\ i + 1 \in 1 .. Len(Queries) /\ 1 < i + 1
        OBVIOUS
    <3>2. Below(Received \union ToSet(regs.m2s), ToSet(Queries[i + 1].blob))
        BY <3>1 DEF SentOK
    <3>3. Below(ToSet(Queries[1].blob), ToSet(Queries[i + 1].blob))
        BY <3>1 DEF SentOK
    <3> QED
        BY <1>2, <3>1, <3>2, <3>3 DEF Below
  <2>3. \A i, j \in 1 .. Len(Queries') : i < j => Below(ToSet(Queries'[i].blob), ToSet(Queries'[j].blob))
    <3> SUFFICES ASSUME NEW i \in 1 .. Len(Queries'), NEW j \in 1 .. Len(Queries'), i < j
                 PROVE  Below(ToSet(Queries'[i].blob), ToSet(Queries'[j].blob))
        OBVIOUS
    <3>1. /\ Queries'[i] = Queries[i + 1] /\ i + 1 \in 1 .. Len(Queries)
          /\ Queries'[j] = Queries[j + 1] /\ j + 1 \in 1 .. Len(Queries) /\ i + 1 < j + 1
        OBVIOUS
    <3> QED
        BY <3>1 DEF SentOK
  <2>4. \A i \in 1 .. Len(Queries') : Increasing(Queries'[i].blob) /\ ToSet(Queries'[i].blob) \subseteq 1 .. put
      BY DEF SentOK
  <2>5. app = "want" => /\ Below(Received \union ToSet(regs'.m2s), ToSet(blob))
                        /\ \A i \in 1 .. Len(Queries') : Below(ToSet(Queries'[i].blob), ToSet(blob))
    <3>1. app = "want" => Below(Received \union ToSet(regs'.m2s), ToSet(blob))
        BY <1>2 DEF SentOK, Below
    <3> QED
        BY <3>1 DEF SentOK
  <2> QED
      BY <1>1, <2>1, <2>2, <2>3, <2>4, <2>5 DEF SentOK
<1>3. CASE regs'.m2s \in {<<>>, regs.m2s} /\ ~Putting'
  <2>1. Increasing(regs'.m2s) /\ ToSet(regs'.m2s) \subseteq ToSet(regs.m2s)
      BY <1>3, NoBytes DEF SentOK
  <2>3. \A i, j \in 1 .. Len(Queries') : i < j => Below(ToSet(Queries'[i].blob), ToSet(Queries'[j].blob))
    <3> SUFFICES ASSUME NEW i \in 1 .. Len(Queries'), NEW j \in 1 .. Len(Queries'), i < j
                 PROVE  Below(ToSet(Queries'[i].blob), ToSet(Queries'[j].blob))
        OBVIOUS
    <3>1. /\ Queries'[i] = Queries[i + 1] /\ i + 1 \in 1 .. Len(Queries)
          /\ Queries'[j] = Queries[j + 1] /\ j + 1 \in 1 .. Len(Queries) /\ i + 1 < j + 1
        OBVIOUS
    <3> QED
        BY <3>1 DEF SentOK
  <2>4. \A i \in 1 .. Len(Queries') : /\ Increasing(Queries'[i].blob) /\ ToSet(Queries'[i].blob) \subseteq 1 .. put
                                      /\ Below(Received \union ToSet(regs'.m2s), ToSet(Queries'[i].blob))
      BY <2>1 DEF SentOK, Below
  <2>5. app = "want" => /\ Below(Received \union ToSet(regs'.m2s), ToSet(blob))
                        /\ \A i \in 1 .. Len(Queries') : Below(ToSet(Queries'[i].blob), ToSet(blob))
      BY <2>1 DEF SentOK, Below
  <2> QED
      BY <1>1, <1>3, <2>1, <2>3, <2>4, <2>5 DEF SentOK
<1> QED
    BY <1>2, <1>3

\* What an action that leaves the stream to the slave alone does.
AsideSlave ==
    /\ sread' = sread /\ s'.fifo = s.fifo /\ s'.overflow = s.overflow /\ slost' = slost
    /\ sgone' = sgone
    /\ regs'.m2s = regs.m2s /\ Putting' = Putting
    /\ Queries' = Queries /\ blob' = blob /\ put' = put /\ acked' = acked /\ app' = app
    /\ Live' /\ app = "put" /\ Answers' # <<>> => Live /\ Answers # <<>>

\* such an action keeps the invariant;
LEMMA SlaveKept ==
    ASSUME SlaveInv, AsideSlave
    PROVE  SentOK' /\ AckOK' /\ AckedArrives'
<1>1. Arrived \subseteq Arrived' /\ Received' = Received
    BY ArrivedKept DEF AsideSlave
<1>2. SentOK' /\ AckOK'
    BY <1>1 DEF SlaveInv, AsideSlave, SentOK, AckOK
<1> QED
    BY <1>1, <1>2, Zenon DEF SlaveInv, AsideSlave, AckedArrives, SentOK, Arrived, Received,
       Putting

\* these do.
LEMMA SlaveAside ==
    ASSUME BaseInv,
           \/ NetBreaks \/ RxLooks \/ RxPollUnsent \/ RxDataAnswered \/ RxFails
           \/ SlaveAccepts \/ SlaveStops \/ SlaveSessionEnds \/ SlaveIdles \/ MasterAttach
           \/ MasterAttachFails \/ MasterAttachLeavesLock \/ MasterDetach \/ MasterRead \/ SlaveDetach
           \/ SlaveDispose \/ SlaveWriteEmpty \/ \E n \in 1 .. SlaveMax : SlaveWrite(n)
    PROVE  AsideSlave
<1>t. TypeOK /\ ConnsOK /\ LockOK /\ RegsOK
    BY DEF BaseInv
<1>1. CASE NetBreaks
    BY <1>t, <1>1, NetBreaksWire DEF AsideSlave, NetBreaks, master, slave, mhist, shist, counts,
       Putting, Live, LockOK, TypeOK, MasterType, SlaveType, RegsType, RegsOK, ConnsOK
<1>2. CASE RxLooks
    BY <1>t, <1>2 DEF AsideSlave, RxLooks, slave, mhist, shist, counts, Putting, Live, LockOK,
       TypeOK, MasterType, SlaveType, RegsType, RegsOK, ConnsOK, Queries, Answers, Late
<1>3. CASE RxPollUnsent
    BY <1>t, <1>3 DEF AsideSlave, RxPollUnsent, slave, mhist, shist, counts, Putting, Live,
       LockOK, TypeOK, MasterType, SlaveType, RegsType, RegsOK, ConnsOK, Queries, Answers, Late
<1>4. CASE RxDataAnswered
    BY <1>t, <1>4, RxDataAnsweredWire DEF AsideSlave, RxDataAnswered, slave, shist, counts,
       Putting, Live, LockOK, TypeOK, MasterType, SlaveType, RegsType, RegsOK, ConnsOK
<1>5. CASE RxFails
    BY <1>t, <1>5, RxFailsWire DEF AsideSlave, RxFails, slave, mhist, shist, counts, Putting,
       Live, LockOK, TypeOK, MasterType, SlaveType, RegsType, RegsOK, ConnsOK
<1>6. CASE SlaveAccepts
    BY <1>t, <1>6 DEF AsideSlave, SlaveAccepts, master, mhist, shist, counts, NextTurn, Putting,
       Live, LockOK, TypeOK, MasterType, SlaveType, RegsType, RegsOK, ConnsOK, Queries, Answers,
       Late
<1>7. CASE SlaveStops
    BY <1>t, <1>7 DEF AsideSlave, SlaveStops, master, mhist, shist, counts, Putting, Live, LockOK,
       TypeOK, MasterType, SlaveType, RegsType, RegsOK, ConnsOK, Queries, Answers, Late
<1>8. CASE SlaveSessionEnds
    BY <1>t, <1>8 DEF AsideSlave, SlaveSessionEnds, master, mhist, shist, counts, Putting, Live,
       LockOK, TypeOK, MasterType, SlaveType, RegsType, RegsOK, ConnsOK, Queries, Answers, Late
<1>9. CASE SlaveIdles
    BY <1>t, <1>9 DEF AsideSlave, SlaveIdles, master, mhist, shist, counts, NextTurn, Putting,
       Live, LockOK, TypeOK, MasterType, SlaveType, RegsType, RegsOK, ConnsOK, Queries, Answers,
       Late
<1>10. CASE MasterAttach
    BY <1>t, <1>10, AttachWire DEF AsideSlave, MasterAttach, AttachBegins, slave, shist, Called,
       AttachConnects, Reset, NewConn, Putting, Live, LockOK, TypeOK, MasterType, SlaveType,
       RegsType, RegsOK, ConnsOK
<1>11. CASE MasterAttachFails
    BY <1>t, <1>11 DEF AsideSlave, MasterAttachFails, AttachBegins, slave, shist, Called, Reset,
       Putting, Live, LockOK, TypeOK, MasterType, SlaveType, RegsType, RegsOK, ConnsOK, Queries,
       Answers, Late
<1>12. CASE MasterAttachLeavesLock
    BY <1>t, <1>12, AttachWire, Zenon DEF AsideSlave, MasterAttachLeavesLock, AttachBegins, slave,
       shist, Called, AttachConnects, Reset, NewConn, Putting, Live, LockOK, TypeOK, MasterType,
       SlaveType, RegsType, RegsOK, ConnsOK
<1>13. CASE MasterDetach
    BY <1>t, <1>13, MasterDetachWire DEF AsideSlave, MasterDetach, slave, mhist, shist, Called,
       Putting, Live, LockOK, TypeOK, MasterType, SlaveType, RegsType, RegsOK, ConnsOK
<1>14. CASE MasterRead
    BY <1>t, <1>14 DEF AsideSlave, MasterRead, slave, mhist, shist, counts, Putting, Live, LockOK,
       TypeOK, MasterType, SlaveType, RegsType, RegsOK, ConnsOK, Queries, Answers, Late
<1>15. CASE SlaveDetach
    BY <1>t, <1>15, SlaveDetachWire DEF AsideSlave, SlaveDetach, master, mhist, shist, Called,
       Putting, Live, LockOK, TypeOK, MasterType, SlaveType, RegsType, RegsOK, ConnsOK
<1>16. CASE SlaveDispose
    BY <1>t, <1>16 DEF AsideSlave, SlaveDispose, master, mhist, shist, counts, Putting, Live,
       LockOK, TypeOK, MasterType, SlaveType, RegsType, RegsOK, ConnsOK, Queries, Answers, Late
<1>17. CASE SlaveWriteEmpty
    BY <1>t, <1>17 DEF AsideSlave, SlaveWriteEmpty, master, mhist, shist, Called, Putting, Live,
       LockOK, TypeOK, MasterType, SlaveType, RegsType, RegsOK, ConnsOK, Queries, Answers, Late
<1>18. CASE \E n \in 1 .. SlaveMax : SlaveWrite(n)
    BY <1>t, <1>18, Zenon DEF AsideSlave, SlaveWrite, master, mhist, shist, counts, Putting, Live,
       LockOK, TypeOK, MasterType, SlaveType, RegsType, RegsOK, ConnsOK, Queries, Answers, Late
<1> QED
    BY <1>1, <1>2, <1>3, <1>4, <1>5, <1>6, <1>7, <1>8, <1>9, <1>10, <1>11, <1>12, <1>13, <1>14,
       <1>15, <1>16, <1>17, <1>18

\* A poll command carries no blob.
LEMMA RxPollsToSlave ==
    ASSUME SlaveInv, MasterMax <= SlaveMax, RxPolls
    PROVE  SentOK' /\ AckOK' /\ AckedArrives'
<1>t. TypeOK /\ ConnsOK /\ LockOK /\ WireOK /\ RoomOK /\ BlobsOK /\ RegsOK /\ BaseInv
    BY DEF SlaveInv, BaseInv
<1>i. SentOK /\ AckOK /\ AckedArrives
    BY DEF SlaveInv
<1>w. /\ conns' \in Seq(ConnType) /\ Len(conns') = Len(conns) /\ (conns' = <<>> <=> conns = <<>>)
      /\ Queries' = Queries \/ (m.conn = 1 /\ Queries' = Append(Queries, Query("poll", <<>>)))
      /\ Answers' = Answers /\ Late' = Late /\ Quiet'
    BY <1>t, RxPollsWire
<1>v. /\ sread' = sread /\ slost' = slost /\ sgone' = sgone /\ blob' = blob
      /\ put' = put /\ acked' = acked /\ m'.conn = m.conn /\ s'.fifo = s.fifo
      /\ s'.overflow = s.overflow /\ regs'.m2s = regs.m2s /\ Putting' = Putting
      /\ app' = app /\ app # "put"
    BY <1>t, <1>w DEF RxPolls, slave, mhist, shist, counts, Query, Putting, TypeOK, MasterType,
       SlaveType, RegsType, RegsOK, LockOK
<1>1. Arrived \subseteq Arrived' /\ Received' = Received
    BY <1>v, ArrivedKept
<1>2. SentOK'
  <2>q. Queries \in Seq(QueryType)
      BY <1>t, WireType DEF TypeOK
  <2> DEFINE q == Query("poll", <<>>)
  <2>1. q \in QueryType /\ q.blob = <<>>
      BY NoBytes DEF Query, QueryType
  <2> HIDE DEF q
  <2>2. \A i \in 1 .. Len(Queries') :
           (i \in 1 .. Len(Queries) /\ Queries'[i] = Queries[i]) \/ Queries'[i].blob = <<>>
    <3>1. Queries' = Queries \/ Queries' = Append(Queries, q)
        BY <1>w DEF q
    <3> QED
        BY <2>q, <2>1, <3>1, LastQuery
  <2> QED
      BY <1>i, <1>v, <2>2, SentAsks
<1>3. AckOK'
    BY <1>t, <1>i, <1>w, <1>v, <1>1 DEF AckOK, Live
<1>4. AckedArrives'
    BY <1>i, <1>v, <1>1, <1>2 DEF AckedArrives, SentOK, Arrived, Received, Putting
<1> QED
    BY <1>2, <1>3, <1>4

\* Nor does a request for the header,
LEMMA RxPollAnsweredToSlave ==
    ASSUME SlaveInv, MasterMax <= SlaveMax, RxPollAnswered
    PROVE  SentOK' /\ AckOK' /\ AckedArrives'
<1>t. TypeOK /\ ConnsOK /\ LockOK /\ WireOK /\ RoomOK /\ BlobsOK /\ RegsOK /\ BaseInv
    BY DEF SlaveInv, BaseInv
<1>i. SentOK /\ AckOK /\ AckedArrives
    BY DEF SlaveInv
<1>w. /\ conns' \in Seq(ConnType) /\ Len(conns') = Len(conns) /\ (conns' = <<>> <=> conns = <<>>)
      /\ Live /\ m.conn = 1 /\ conns # <<>> /\ Answers # <<>> /\ Queries = <<>>
      /\ Len(Answers) <= 1
      /\ Answer = Answers[1] /\ Answers[1].len \in Nat /\ Answers[1].data \in Seq(Nat)
      /\ Queries' = <<>> \/ Queries' = <<Query("header", <<>>)>>
      /\ Answers' = <<>> /\ Late' = Late /\ Quiet'
    BY <1>t, RxPollAnsweredWire
<1>v. /\ sread' = sread /\ slost' = slost /\ sgone' = sgone /\ blob' = blob
      /\ put' = put /\ acked' = acked /\ app' = app /\ m'.conn = m.conn
      /\ s'.fifo = s.fifo /\ s'.overflow = s.overflow /\ regs'.m2s = regs.m2s
      /\ Putting' = Putting
    BY <1>t, <1>w DEF RxPollAnswered, slave, mhist, shist, counts, Query, Putting, TypeOK,
       MasterType, SlaveType, RegsType, RegsOK, LockOK
<1>1. Arrived \subseteq Arrived' /\ Received' = Received
    BY <1>v, ArrivedKept
<1>2. SentOK'
  <2> DEFINE q == Query("header", <<>>)
  <2>1. q.blob = <<>>
      BY DEF Query
  <2> HIDE DEF q
  <2>2. Queries' = <<>> \/ Queries' = <<q>>
      BY <1>w DEF q
  <2>3. \A i \in 1 .. Len(Queries') : Queries'[i].blob = <<>>
      BY <2>1, <2>2
  <2> QED
      BY <1>i, <1>v, <2>3, SentAsks
<1>3. AckOK'
    BY <1>t, <1>i, <1>w, <1>v, <1>1 DEF AckOK, Live
<1>4. AckedArrives'
    BY <1>i, <1>v, <1>1, <1>2 DEF AckedArrives, SentOK, Arrived, Received, Putting
<1> QED
    BY <1>2, <1>3, <1>4

\* or for the data.
LEMMA RxHeaderAnsweredToSlave ==
    ASSUME SlaveInv, MasterMax <= SlaveMax, RxHeaderAnswered
    PROVE  SentOK' /\ AckOK' /\ AckedArrives'
<1>t. TypeOK /\ ConnsOK /\ LockOK /\ WireOK /\ RoomOK /\ BlobsOK /\ RegsOK /\ BaseInv
    BY DEF SlaveInv, BaseInv
<1>i. SentOK /\ AckOK /\ AckedArrives
    BY DEF SlaveInv
<1>w. /\ conns' \in Seq(ConnType) /\ Len(conns') = Len(conns) /\ (conns' = <<>> <=> conns = <<>>)
      /\ Live /\ m.conn = 1 /\ conns # <<>> /\ Answers # <<>> /\ Queries = <<>>
      /\ Len(Answers) <= 1
      /\ Answer = Answers[1] /\ Answers[1].len \in Nat /\ Answers[1].data \in Seq(Nat)
      /\ \/ /\ Answers[1].len > 0 /\ rx' = "data" /\ rxlen' = Least(Answers[1].len, MasterMax) /\ lock' = lock
            /\ Queries' = <<>> \/ Queries' = <<Query("data", <<>>)>>
         \/ Answers[1].len = 0 /\ rx' = "top" /\ rxlen' = 0 /\ lock' = "free" /\ Queries' = <<>>
      /\ Answers' = <<>> /\ Late' = Late /\ Quiet'
    BY <1>t, RxHeaderAnsweredWire
<1>v. /\ sread' = sread /\ slost' = slost /\ sgone' = sgone /\ blob' = blob
      /\ put' = put /\ acked' = acked /\ app' = app /\ m'.conn = m.conn
      /\ s'.fifo = s.fifo /\ s'.overflow = s.overflow /\ regs'.m2s = regs.m2s
      /\ Putting' = Putting
    BY <1>t, <1>w DEF RxHeaderAnswered, slave, mhist, shist, counts, Query, Least, Putting,
       TypeOK, MasterType, SlaveType, RegsType, RegsOK, LockOK
<1>1. Arrived \subseteq Arrived' /\ Received' = Received
    BY <1>v, ArrivedKept
<1>2. SentOK'
  <2> DEFINE q == Query("data", <<>>)
  <2>1. q.blob = <<>>
      BY DEF Query
  <2> HIDE DEF q
  <2>2. Queries' = <<>> \/ Queries' = <<q>>
      BY <1>w DEF q
  <2>3. \A i \in 1 .. Len(Queries') : Queries'[i].blob = <<>>
      BY <2>1, <2>2
  <2> QED
      BY <1>i, <1>v, <2>3, SentAsks
<1>3. AckOK'
    BY <1>t, <1>i, <1>w, <1>v, <1>1 DEF AckOK, Live
<1>4. AckedArrives'
    BY <1>i, <1>v, <1>1, <1>2 DEF AckedArrives, SentOK, Arrived, Received, Putting
<1> QED
    BY <1>2, <1>3, <1>4

\* A write that is refused takes its blob back.
LEMMA WriteDisabledToSlave ==
    ASSUME SlaveInv, MasterMax <= SlaveMax, WriteDisabled
    PROVE  SentOK' /\ AckOK' /\ AckedArrives'
<1>t. TypeOK /\ ConnsOK /\ LockOK /\ WireOK /\ RoomOK /\ BlobsOK /\ RegsOK /\ BaseInv
    BY DEF SlaveInv, BaseInv
<1>i. SentOK /\ AckOK /\ AckedArrives
    BY DEF SlaveInv
<1>w. Queries' = Queries /\ Answers' = Answers /\ Late' = Late
    BY DEF WriteDisabled, slave, mhist, shist, counts, Queries, Answers, Late
<1>v. /\ sread' = sread /\ slost' = slost /\ sgone' = sgone /\ put' = put
      /\ acked' = acked /\ m'.conn = m.conn /\ s'.fifo = s.fifo /\ s'.overflow = s.overflow
      /\ regs'.m2s = regs.m2s /\ Putting' = Putting
      /\ blob' = <<>>
      /\ app' = "idle"
    BY <1>t, <1>w DEF WriteDisabled, slave, mhist, shist, counts, Putting, TypeOK, MasterType,
       SlaveType, RegsType, RegsOK, LockOK
<1>1. Arrived \subseteq Arrived' /\ Received' = Received
    BY <1>v, ArrivedKept
<1>2. SentOK'
    BY <1>i, <1>w, <1>v, <1>1, NoBytes, Zenon DEF SentOK
<1>3. AckOK'
    BY <1>t, <1>i, <1>w, <1>v, <1>1 DEF AckOK, Live
<1>4. AckedArrives'
    BY <1>i, <1>v, <1>1, <1>2 DEF AckedArrives, SentOK, Arrived, Received, Putting
<1> QED
    BY <1>2, <1>3, <1>4

\* A blob goes out behind every earlier one.
LEMMA WriteSendsToSlave ==
    ASSUME SlaveInv, MasterMax <= SlaveMax, WriteSends
    PROVE  SentOK' /\ AckOK' /\ AckedArrives'
<1>t. TypeOK /\ ConnsOK /\ LockOK /\ WireOK /\ RoomOK /\ BlobsOK /\ RegsOK /\ BaseInv
    BY DEF SlaveInv, BaseInv
<1>i. SentOK /\ AckOK /\ AckedArrives
    BY DEF SlaveInv
<1>w. /\ conns' \in Seq(ConnType) /\ Len(conns') <= MaxConns /\ Len(conns') \in Nat
      /\ conns' # <<>> /\ Quiet'
      /\ Answers' = Answers /\ Late' = Late
      /\ \/ /\ m.connected /\ m.conn # 0 /\ m' = m /\ Len(conns') = Len(conns) /\ conns # <<>>
            /\ Queries' = Queries \/ (m.conn = 1 /\ Queries' = Append(Queries, Query("put", blob)))
         \/ /\ ~m.connected /\ m' = [m EXCEPT !.connected = TRUE, !.conn = Len(conns) + 1]
            /\ Len(conns') = Len(conns) + 1
            /\ Queries' = IF conns = <<>> THEN <<Query("put", blob)>> ELSE Queries
    BY <1>t, WriteSendsWire
<1>v. /\ sread' = sread /\ slost' = slost /\ sgone' = sgone /\ blob' = blob
      /\ put' = put /\ acked' = acked /\ s'.fifo = s.fifo /\ s'.overflow = s.overflow
      /\ regs'.m2s = regs.m2s /\ Putting' = Putting
      /\ app = "want" /\ app' = "put" /\ lock = "free" /\ rx \notin {"poll", "header", "data"}
    BY <1>t, <1>w DEF WriteSends, slave, mhist, shist, counts, Query, NewConn, Putting, TypeOK,
       MasterType, SlaveType, RegsType, RegsOK, LockOK
<1>1. Arrived \subseteq Arrived' /\ Received' = Received
    BY <1>v, ArrivedKept
<1>2. SentOK'
  <2>q. Queries \in Seq(QueryType)
      BY <1>t, WireType DEF TypeOK
  <2> DEFINE q == Query("put", blob)
  <2>1. q \in QueryType /\ q.blob = blob
      BY <1>t, Fields DEF Query, QueryType
  <2> HIDE DEF q
  <2>2. Queries' = Queries \/ Queries' = Append(Queries, q) \/ Queries' = <<q>>
      BY <1>w DEF q
  <2>3. \A i \in 1 .. Len(Queries') :
           \/ i \in 1 .. Len(Queries) /\ Queries'[i] = Queries[i]
           \/ Queries'[i].blob = blob /\ \A j \in 1 .. Len(Queries') : j <= i
    <3>1. CASE Queries' = Queries
        BY <3>1
    <3>2. CASE Queries' = Append(Queries, q)
        BY <2>q, <2>1, <3>2, LastQuery
    <3>3. CASE Queries' = <<q>>
        BY <2>1, <3>3
    <3> QED
        BY <2>2, <3>1, <3>2, <3>3
  <2>4. /\ Increasing(blob) /\ ToSet(blob) \subseteq 1 .. put
        /\ Below(Received \union ToSet(regs.m2s), ToSet(blob))
        /\ \A i \in 1 .. Len(Queries) : Below(ToSet(Queries[i].blob), ToSet(blob))
      BY <1>t, <1>i, <1>v DEF SentOK, BlobsOK
  <2>5. \A i \in 1 .. Len(Queries') :
           /\ Increasing(Queries'[i].blob) /\ ToSet(Queries'[i].blob) \subseteq 1 .. put
           /\ Below(Received \union ToSet(regs.m2s), ToSet(Queries'[i].blob))
      BY <1>i, <2>3, <2>4 DEF SentOK
  <2>6. ASSUME NEW i \in 1 .. Len(Queries'), NEW j \in 1 .. Len(Queries'), i < j
        PROVE  Below(ToSet(Queries'[i].blob), ToSet(Queries'[j].blob))
    <3>1. i \in 1 .. Len(Queries) /\ Queries'[i] = Queries[i]
        BY <2>3, <2>6
    <3>2. CASE j \in 1 .. Len(Queries) /\ Queries'[j] = Queries[j]
        BY <1>i, <2>6, <3>1, <3>2 DEF SentOK
    <3>3. CASE Queries'[j].blob = blob
        BY <2>4, <3>1, <3>3
    <3> QED
        BY <2>3, <3>2, <3>3
  <2> QED
      BY <1>i, <1>v, <1>1, <2>5, <2>6 DEF SentOK
<1>3. AckOK'
  <2> SUFFICES ASSUME Live' PROVE Answers' = <<>>
      BY DEF AckOK
  <2>1. CASE m.connected /\ m' = m
    <3>1. Live /\ Asked = <<>>
        BY <1>w, <1>v, <2>1 DEF Live, Asked
    <3> QED
        BY <1>t, <1>w, <3>1 DEF WireOK
  <2>2. CASE ~m.connected /\ m' = [m EXCEPT !.connected = TRUE, !.conn = Len(conns) + 1]
    <3>1. m'.conn = Len(conns) + 1 /\ Len(conns) \in Nat
        BY <1>t, <2>2 DEF TypeOK, MasterType
    <3>2. conns = <<>>
        BY <3>1, <1>t DEF Live, TypeOK
    <3> QED
        BY <1>w, <3>2 DEF Answers
  <2> QED
      BY <1>w, <2>1, <2>2
<1>4. AckedArrives'
    BY <1>i, <1>v, <1>1, <1>2 DEF AckedArrives, SentOK, Arrived, Received, Putting
<1> QED
    BY <1>2, <1>3, <1>4

\* A write that cannot connect takes its blob back.
LEMMA WriteUnsentToSlave ==
    ASSUME SlaveInv, MasterMax <= SlaveMax, WriteUnsent
    PROVE  SentOK' /\ AckOK' /\ AckedArrives'
<1>t. TypeOK /\ ConnsOK /\ LockOK /\ WireOK /\ RoomOK /\ BlobsOK /\ RegsOK /\ BaseInv
    BY DEF SlaveInv, BaseInv
<1>i. SentOK /\ AckOK /\ AckedArrives
    BY DEF SlaveInv
<1>w. Queries' = Queries /\ Answers' = Answers /\ Late' = Late
    BY DEF WriteUnsent, slave, mhist, shist, counts, Queries, Answers, Late
<1>v. /\ sread' = sread /\ slost' = slost /\ sgone' = sgone /\ put' = put
      /\ acked' = acked /\ s'.fifo = s.fifo /\ s'.overflow = s.overflow /\ regs'.m2s = regs.m2s
      /\ Putting' = Putting
      /\ blob' = <<>>
      /\ app' = "idle"
    BY <1>t, <1>w DEF WriteUnsent, slave, mhist, shist, counts, Putting, TypeOK, MasterType,
       SlaveType, RegsType, RegsOK, LockOK
<1>1. Arrived \subseteq Arrived' /\ Received' = Received
    BY <1>v, ArrivedKept
<1>2. SentOK'
    BY <1>i, <1>w, <1>v, <1>1, NoBytes, Zenon DEF SentOK
<1>3. AckOK'
    BY <1>t, <1>i, <1>w, <1>v, <1>1 DEF AckOK, Live
<1>4. AckedArrives'
    BY <1>i, <1>v, <1>1, <1>2 DEF AckedArrives, SentOK, Arrived, Received, Putting
<1> QED
    BY <1>2, <1>3, <1>4

\* The answer is to this blob, which has arrived.
LEMMA WriteDoneToSlave ==
    ASSUME SlaveInv, MasterMax <= SlaveMax, WriteDone
    PROVE  SentOK' /\ AckOK' /\ AckedArrives'
<1>t. TypeOK /\ ConnsOK /\ LockOK /\ WireOK /\ RoomOK /\ BlobsOK /\ RegsOK /\ BaseInv
    BY DEF SlaveInv, BaseInv
<1>i. SentOK /\ AckOK /\ AckedArrives
    BY DEF SlaveInv
<1>w. /\ conns' \in Seq(ConnType) /\ Len(conns') = Len(conns) /\ (conns' = <<>> <=> conns = <<>>)
      /\ Queries' = Queries /\ Answers' = <<>> /\ Late' = Late /\ Quiet'
      /\ Live /\ conns # <<>> /\ Answers # <<>> /\ Queries = <<>>
    BY <1>t, WriteDoneWire
<1>v. /\ sread' = sread /\ slost' = slost /\ sgone' = sgone /\ put' = put
      /\ m'.conn = m.conn /\ s'.fifo = s.fifo /\ s'.overflow = s.overflow /\ regs'.m2s = regs.m2s
      /\ Putting' = Putting
      /\ blob' = <<>>
      /\ app = "put" /\ acked' = acked \union ToSet(blob)
      /\ app' = "idle"
    BY <1>t, <1>w DEF WriteDone, slave, mhist, shist, counts, Putting, TypeOK, MasterType,
       SlaveType, RegsType, RegsOK, LockOK
<1>1. Arrived \subseteq Arrived' /\ Received' = Received
    BY <1>v, ArrivedKept
<1>2. SentOK'
    BY <1>i, <1>w, <1>v, <1>1, NoBytes DEF SentOK
<1>3. AckOK'
    BY <1>t, <1>i, <1>w, <1>v, <1>1 DEF AckOK, Live
<1>4. AckedArrives'
  <2>1. ToSet(blob) \subseteq Arrived
      BY <1>i, <1>w, <1>v DEF AckOK
  <2>2. acked \subseteq Arrived
      BY <1>i DEF AckedArrives, Arrived, Received, Putting
  <2>3. acked' \subseteq Arrived'
      BY <1>v, <1>1, <2>1, <2>2
  <2> QED
      BY <1>2, <2>3 DEF AckedArrives, SentOK, Arrived, Received, Putting
<1> QED
    BY <1>2, <1>3, <1>4

\* After a failure nothing is reported as done, even if the slave gets the blob.
LEMMA WriteFailsToSlave ==
    ASSUME SlaveInv, MasterMax <= SlaveMax, WriteFails
    PROVE  SentOK' /\ AckOK' /\ AckedArrives'
<1>t. TypeOK /\ ConnsOK /\ LockOK /\ WireOK /\ RoomOK /\ BlobsOK /\ RegsOK /\ BaseInv
    BY DEF SlaveInv, BaseInv
<1>i. SentOK /\ AckOK /\ AckedArrives
    BY DEF SlaveInv
<1>w. /\ conns' \in Seq(ConnType) /\ Len(conns') = Len(conns) /\ (conns' = <<>> <=> conns = <<>>)
      /\ Queries' = Queries /\ Answers' = Answers /\ Late' = Late /\ Quiet'
    BY <1>t, WriteFailsWire
<1>v. /\ sread' = sread /\ slost' = slost /\ sgone' = sgone /\ put' = put
      /\ acked' = acked /\ s'.fifo = s.fifo /\ s'.overflow = s.overflow /\ regs'.m2s = regs.m2s
      /\ Putting' = Putting
      /\ blob' = <<>>
      /\ app' = "idle"
    BY <1>t, <1>w DEF WriteFails, slave, mhist, shist, counts, Putting, TypeOK, MasterType,
       SlaveType, RegsType, RegsOK, LockOK
<1>1. Arrived \subseteq Arrived' /\ Received' = Received
    BY <1>v, ArrivedKept
<1>2. SentOK'
    BY <1>i, <1>w, <1>v, <1>1, NoBytes, Zenon DEF SentOK
<1>3. AckOK'
    BY <1>t, <1>i, <1>w, <1>v, <1>1 DEF AckOK, Live
<1>4. AckedArrives'
    BY <1>i, <1>v, <1>1, <1>2 DEF AckedArrives, SentOK, Arrived, Received, Putting
<1> QED
    BY <1>2, <1>3, <1>4

\* A blob is in the registers when it is answered.
LEMMA SlaveRepliesToSlave ==
    ASSUME SlaveInv, MasterMax <= SlaveMax, SlaveReplies
    PROVE  SentOK' /\ AckOK' /\ AckedArrives'
<1>t. TypeOK /\ ConnsOK /\ LockOK /\ WireOK /\ RoomOK /\ BlobsOK /\ RegsOK /\ BaseInv
    BY DEF SlaveInv, BaseInv
<1>i. SentOK /\ AckOK /\ AckedArrives
    BY DEF SlaveInv
<1>w. /\ conns' \in Seq(ConnType) /\ Len(conns') = Len(conns) /\ (conns' = <<>> <=> conns = <<>>)
      /\ conns # <<>> /\ Queries # <<>> /\ Queries \in Seq(QueryType)
      /\ Queries' = Tail(Queries) /\ Late' = Late /\ Quiet'
      /\ regs' = Written(Queries[1]) /\ session = 1
      /\ Answers' = Append(Answers, [len |-> regs.len, data |-> regs.data])
      /\ [len |-> regs.len, data |-> regs.data] \in AnswerType
    BY <1>t, SlaveRepliesWire
<1>v. /\ sread' = sread /\ slost' = slost /\ sgone' = sgone /\ blob' = blob
      /\ put' = put /\ acked' = acked /\ app' = app /\ m'.conn = m.conn
      /\ s'.fifo = s.fifo /\ s'.overflow = s.overflow
      /\ ~Putting
    BY <1>t, <1>w DEF SlaveReplies, master, shist, RegsOK, Putting
<1>s. /\ Queries[1] \in QueryType
      /\ \A i \in 1 .. Len(Tail(Queries)) : Tail(Queries)[i] = Queries[i + 1] /\ i + 1 \in 1 .. Len(Queries)
      /\ 1 \in 1 .. Len(Queries) /\ Len(Queries) \in Nat
      /\ Queries[1].op = "poll" => regs'.cmd = "poll" /\ regs'.m2s = <<>>
      /\ Queries[1].op = "put" => regs'.cmd = "put" /\ regs'.m2s = Queries[1].blob
      /\ Queries[1].op \notin {"poll", "put"} => regs'.cmd = regs.cmd /\ regs'.m2s = regs.m2s
    BY <1>t, <1>w, ServedFacts
<1>1. Arrived \subseteq Arrived' /\ Received' = Received
    BY <1>v, ArrivedKept
<1>2. SentOK'
  <2>1. \/ regs'.m2s = Queries[1].blob
        \/ regs'.m2s \in {<<>>, regs.m2s} /\ ~Putting'
      BY <1>t, <1>s, <1>v DEF Putting, SlaveReplies, RegsOK
  <2>2. \A i \in 1 .. Len(Queries') : Queries'[i] = Queries[i + 1] /\ i + 1 \in 1 .. Len(Queries)
      BY <1>w, <1>s
  <2> QED
      BY <1>i, <1>s, <1>v, <2>1, <2>2, SentServed
<1>3. AckOK'
  <2> SUFFICES ASSUME Live', app = "put" PROVE ToSet(blob) \subseteq Arrived'
      BY <1>v DEF AckOK
  <2>1. Live /\ Queries = Asked
      BY <1>t, <1>w, <1>v DEF Live, WireOK
  <2>2. Asked = <<Query("put", blob)>>
      BY <1>t DEF Asked, LockOK
  <2>3. Queries[1].op = "put" /\ Queries[1].blob = blob
      BY <2>1, <2>2 DEF Query
  <2>4. Putting' /\ regs'.m2s = blob
      BY <1>s, <2>3 DEF Putting, SlaveReplies
  <2> QED
      BY <2>4, ArrivedIs
<1>4. AckedArrives'
    BY <1>i, <1>v, <1>1, <1>2 DEF AckedArrives, SentOK, Arrived, Received, Putting
<1> QED
    BY <1>2, <1>3, <1>4

\* A blob that is not answered stays in the registers of a task that ended.
LEMMA SlaveReplyFailsToSlave ==
    ASSUME SlaveInv, MasterMax <= SlaveMax, SlaveReplyFails
    PROVE  SentOK' /\ AckOK' /\ AckedArrives'
<1>t. TypeOK /\ ConnsOK /\ LockOK /\ WireOK /\ RoomOK /\ BlobsOK /\ RegsOK /\ BaseInv
    BY DEF SlaveInv, BaseInv
<1>i. SentOK /\ AckOK /\ AckedArrives
    BY DEF SlaveInv
<1>w. /\ conns' \in Seq(ConnType) /\ Len(conns') = Len(conns) /\ (conns' = <<>> <=> conns = <<>>)
      /\ conns # <<>> /\ Queries # <<>> /\ Queries \in Seq(QueryType)
      /\ Queries' = Tail(Queries) /\ Late' = Late /\ Quiet'
      /\ regs' = Written(Queries[1]) /\ session = 1
      /\ Answers' = Answers
    BY <1>t, SlaveReplyFailsWire
<1>v. /\ sread' = sread /\ slost' = slost /\ sgone' = sgone /\ blob' = blob
      /\ put' = put /\ acked' = acked /\ app' = app /\ m'.conn = m.conn
      /\ s'.fifo = s.fifo /\ s'.overflow = s.overflow
      /\ ~Putting /\ ~Putting'
    BY <1>t, <1>w DEF SlaveReplyFails, master, shist, RegsOK, Putting
<1>s. /\ Queries[1] \in QueryType
      /\ \A i \in 1 .. Len(Tail(Queries)) : Tail(Queries)[i] = Queries[i + 1] /\ i + 1 \in 1 .. Len(Queries)
      /\ 1 \in 1 .. Len(Queries) /\ Len(Queries) \in Nat
      /\ Queries[1].op = "poll" => regs'.cmd = "poll" /\ regs'.m2s = <<>>
      /\ Queries[1].op = "put" => regs'.cmd = "put" /\ regs'.m2s = Queries[1].blob
      /\ Queries[1].op \notin {"poll", "put"} => regs'.cmd = regs.cmd /\ regs'.m2s = regs.m2s
    BY <1>t, <1>w, ServedFacts
<1>1. Arrived \subseteq Arrived' /\ Received' = Received
    BY <1>v, ArrivedKept
<1>2. SentOK'
  <2>1. \/ regs'.m2s = Queries[1].blob
        \/ regs'.m2s \in {<<>>, regs.m2s} /\ ~Putting'
      BY <1>t, <1>s, <1>v DEF Putting, SlaveReplyFails, RegsOK
  <2>2. \A i \in 1 .. Len(Queries') : Queries'[i] = Queries[i + 1] /\ i + 1 \in 1 .. Len(Queries)
      BY <1>w, <1>s
  <2> QED
      BY <1>i, <1>s, <1>v, <2>1, <2>2, SentServed
<1>3. AckOK'
    BY <1>t, <1>i, <1>w, <1>v, <1>1 DEF AckOK, Live
<1>4. AckedArrives'
    BY <1>i, <1>v, <1>1, <1>2 DEF AckedArrives, SentOK, Arrived, Received, Putting
<1> QED
    BY <1>2, <1>3, <1>4

\* A blob is pushed: what fits goes to the FIFO, the rest is lost and flagged.
\* Nothing is cut off, since MasterMax <= SlaveMax.
LEMMA SlaveConsumesToSlave ==
    ASSUME SlaveInv, MasterMax <= SlaveMax, SlaveConsumes
    PROVE  SentOK' /\ AckOK' /\ AckedArrives'
<1>t. TypeOK /\ ConnsOK /\ LockOK /\ WireOK /\ RoomOK /\ BlobsOK /\ RegsOK /\ BaseInv
    BY DEF SlaveInv, BaseInv
<1>i. SentOK /\ AckOK /\ AckedArrives
    BY DEF SlaveInv
<1>w. Queries' = Queries /\ Answers' = Answers /\ Late' = Late
    BY DEF SlaveConsumes, master, mhist, counts, Idle, Blob, Room, NextTurn, Queries, Answers,
       Late
<1>v. /\ sread' = sread /\ sgone' = sgone /\ blob' = blob /\ put' = put
      /\ acked' = acked /\ app' = app /\ m'.conn = m.conn
      /\ regs'.m2s = <<>>
      /\ Putting /\ ~Putting'
    BY <1>t DEF SlaveConsumes, Idle, Putting, master, TypeOK, RegsType
<1>m. PICK f \in Seq(Nat), l \in Seq(Nat) :
         /\ f \o l = First(regs.m2s, SlaveMax) /\ Len(s.fifo) + Len(f) <= SlaveCap
         /\ s' = [s EXCEPT !.fifo = s.fifo \o f, !.overflow = s.overflow \/ l # <<>>]
         /\ slost' = slost \union ToSet(l)
    BY <1>t, ConsumeMoves, Zenon
<1>n. /\ sread \in Seq(Nat) /\ s.fifo \in Seq(Nat) /\ regs.m2s \in Seq(Nat)
      /\ s'.fifo = s.fifo \o f /\ s'.overflow = (s.overflow \/ l # <<>>)
  <2>1. sread \in Seq(Nat) /\ s.fifo \in Seq(Nat) /\ regs.m2s \in Seq(Nat)
      BY <1>t, Fields
  <2> QED
      BY <1>t, <1>m, <2>1 DEF TypeOK, SlaveType
<1>o. f \o l = regs.m2s
  <2>1. Len(regs.m2s) \in Nat /\ Len(regs.m2s) <= SlaveMax
      BY <1>t, Bounds DEF BlobsOK
  <2>2. First(regs.m2s, SlaveMax) = regs.m2s
      BY <1>n, <2>1, Cut, Bounds
  <2> QED
      BY <1>m, <2>2
<1>p. /\ ToSet(regs.m2s) = ToSet(f) \union ToSet(l)
      /\ ToSet(s'.fifo) = ToSet(s.fifo) \union ToSet(f)
      /\ Increasing(f) /\ (l = <<>> => ToSet(l) = {})
  <2>1. ToSet(f \o l) = ToSet(f) \union ToSet(l)
      BY SetOfConcat
  <2>2. ToSet(s.fifo \o f) = ToSet(s.fifo) \union ToSet(f)
      BY <1>n, SetOfConcat
  <2>3. Increasing(f \o l) => Increasing(f)
      BY IncreasingConcat
  <2>4. Increasing(regs.m2s)
      BY <1>i DEF SentOK
  <2> QED
      BY <1>n, <1>o, <2>1, <2>2, <2>3, <2>4, NoBytes
<1>1. Arrived \subseteq Arrived' /\ Received' = Received \union ToSet(f)
  <2>1. Received' = Received \union ToSet(f)
      BY <1>v, <1>p DEF Received
  <2>2. ASSUME NEW x \in Arrived PROVE x \in Arrived'
    <3>1. \/ x \in ToSet(sread) \/ x \in ToSet(s.fifo) \/ x \in sgone
          \/ s.overflow /\ x \in slost
          \/ x \in ToSet(f) \/ x \in ToSet(l)
        BY <1>p, ArrivedIs
    <3>2. x \in ToSet(l) => s'.overflow /\ x \in slost'
        BY <1>m, <1>n, <1>p
    <3> QED
        BY <1>v, <1>m, <1>n, <1>p, <3>1, <3>2, ArrivedIs
  <2> QED
      BY <2>1, <2>2
<1>2. SentOK'
  <2>1. Increasing(sread' \o s'.fifo)
    <3>1. sread \o (s.fifo \o f) = (sread \o s.fifo) \o f /\ sread \o s.fifo \in Seq(Nat)
      <4>1. /\ sread \in Seq(Nat) /\ s.fifo \in Seq(Nat) /\ f \in Seq(Nat)
            /\ sread \o s.fifo \in Seq(Nat)
          BY <1>n
      <4> QED
          BY <4>1, Concat3, Zenon
    <3>2. ToSet(sread \o s.fifo) = Received
        BY <1>n, SetOfConcat DEF Received
    <3>3. Below(Received, ToSet(f)) /\ Increasing(sread \o s.fifo)
        BY <1>i, <1>v, <1>p DEF Below, SentOK
    <3>4. Increasing((sread \o s.fifo) \o f)
        BY <1>p, <3>1, <3>2, <3>3, IncreasingConcat
    <3>5. s'.fifo = s.fifo \o f /\ sread' = sread
        BY <1>n, <1>v
    <3> QED
        BY <3>1, <3>4, <3>5
  <2>2. /\ Received' \subseteq Received \union ToSet(regs.m2s) /\ ToSet(regs'.m2s) = {}
        /\ Increasing(regs'.m2s)
      BY <1>v, <1>p, <1>1, NoBytes
  <2> QED
      BY <1>i, <1>w, <1>v, <2>1, <2>2 DEF SentOK, Below
<1>3. AckOK'
    BY <1>t, <1>i, <1>w, <1>v, <1>1 DEF AckOK, Live
<1>4. AckedArrives'
    BY <1>i, <1>v, <1>1, <1>2 DEF AckedArrives, SentOK, Arrived, Received, Putting
<1> QED
    BY <1>2, <1>3, <1>4

\* A poll touches no blob of the master.
LEMMA SlavePreparesToSlave ==
    ASSUME SlaveInv, MasterMax <= SlaveMax, SlavePrepares
    PROVE  SentOK' /\ AckOK' /\ AckedArrives'
<1>t. TypeOK /\ ConnsOK /\ LockOK /\ WireOK /\ RoomOK /\ BlobsOK /\ RegsOK /\ BaseInv
    BY DEF SlaveInv, BaseInv
<1>i. SentOK /\ AckOK /\ AckedArrives
    BY DEF SlaveInv
<1>w. Queries' = Queries /\ Answers' = Answers /\ Late' = Late
    BY DEF SlavePrepares, master, mhist, shist, counts, Idle, NextTurn, Queries, Answers, Late
<1>v. /\ sread' = sread /\ slost' = slost /\ sgone' = sgone /\ blob' = blob
      /\ put' = put /\ acked' = acked /\ app' = app /\ m'.conn = m.conn
      /\ s'.fifo = s.fifo /\ s'.overflow = s.overflow
      /\ regs'.m2s = <<>>
      /\ ~Putting /\ ~Putting'
    BY <1>t, <1>w, Zenon DEF SlavePrepares, master, mhist, shist, counts, Idle, NextTurn, Putting,
       TypeOK, MasterType, SlaveType, RegsType, RegsOK, LockOK
<1>1. Arrived \subseteq Arrived' /\ Received' = Received
    BY <1>v, ArrivedKept
<1>2. SentOK'
  <2>1. Increasing(regs'.m2s) /\ ToSet(regs'.m2s) = {}
      BY <1>v, NoBytes
  <2> QED
      BY <1>i, <1>w, <1>v, <1>1, <2>1 DEF SentOK, Below
<1>3. AckOK'
    BY <1>t, <1>i, <1>w, <1>v, <1>1 DEF AckOK, Live
<1>4. AckedArrives'
    BY <1>i, <1>v, <1>1, <1>2 DEF AckedArrives, SentOK, Arrived, Received, Putting
<1> QED
    BY <1>2, <1>3, <1>4

\* New bytes are behind all others.
LEMMA WriteCallToSlave ==
    ASSUME SlaveInv, MasterMax <= SlaveMax, NEW n \in 1 .. MasterMax, WriteCall(n)
    PROVE  SentOK' /\ AckOK' /\ AckedArrives'
<1>t. TypeOK /\ ConnsOK /\ LockOK /\ WireOK /\ RoomOK /\ BlobsOK /\ RegsOK /\ BaseInv
    BY DEF SlaveInv, BaseInv
<1>i. SentOK /\ AckOK /\ AckedArrives
    BY DEF SlaveInv
<1>w. Queries' = Queries /\ Answers' = Answers /\ Late' = Late
    BY DEF WriteCall, slave, mhist, shist, counts, Queries, Answers, Late
<1>v. /\ sread' = sread /\ slost' = slost /\ sgone' = sgone /\ acked' = acked
      /\ m'.conn = m.conn /\ s'.fifo = s.fifo /\ s'.overflow = s.overflow /\ regs'.m2s = regs.m2s
      /\ Putting' = Putting
      /\ blob' = Consecutive(put, n)
      /\ put' = put + n
      /\ app = "idle" /\ app' = "want"
    BY <1>t, <1>w DEF WriteCall, slave, mhist, shist, counts, Putting, TypeOK, MasterType,
       SlaveType, RegsType, RegsOK, LockOK
<1>n. /\ ToSet(blob') = put + 1 .. put + n /\ Increasing(blob') /\ put \in Nat /\ n \in Nat
  <2>1. put \in Nat /\ n \in Nat
      BY <1>t, Fields, Bounds
  <2> QED
      BY <1>v, <2>1, NewBytes
<1>1. Arrived \subseteq Arrived' /\ Received' = Received
    BY <1>v, ArrivedKept
<1>2. SentOK'
  <2>1. 1 .. put \subseteq 1 .. put' /\ \A x \in 1 .. put, y \in ToSet(blob') : x < y
      BY <1>v, <1>n
  <2>2. Below(Received \union ToSet(regs.m2s), ToSet(blob'))
      BY <1>i, <2>1 DEF SentOK, Below
  <2>3. \A i \in 1 .. Len(Queries) : Below(ToSet(Queries[i].blob), ToSet(blob'))
      BY <1>i, <2>1 DEF SentOK, Below
  <2> QED
      BY <1>i, <1>w, <1>v, <1>n, <1>1, <2>1, <2>2, <2>3, Zenon DEF SentOK
<1>3. AckOK'
    BY <1>t, <1>i, <1>w, <1>v, <1>1 DEF AckOK, Live
<1>4. AckedArrives'
    BY <1>i, <1>v, <1>1, <1>2 DEF AckedArrives, SentOK, Arrived, Received, Putting
<1> QED
    BY <1>2, <1>3, <1>4

\* attach comes before every byte.
LEMMA SlaveAttachToSlave ==
    ASSUME SlaveInv, MasterMax <= SlaveMax, SlaveAttach
    PROVE  SentOK' /\ AckOK' /\ AckedArrives'
<1>t. TypeOK /\ ConnsOK /\ LockOK /\ WireOK /\ RoomOK /\ BlobsOK /\ RegsOK /\ BaseInv
    BY DEF SlaveInv, BaseInv
<1>i. SentOK /\ AckOK /\ AckedArrives
    BY DEF SlaveInv
<1>w. Queries' = Queries /\ Answers' = Answers /\ Late' = Late
    BY DEF SlaveAttach, master, mhist, shist, counts, Queries, Answers, Late
<1>v. /\ sread' = sread /\ slost' = slost /\ sgone' = sgone /\ blob' = blob
      /\ put' = put /\ acked' = acked /\ app' = app /\ m'.conn = m.conn
      /\ s'.fifo = s.fifo /\ Putting' = Putting
      /\ slost = {} /\ s'.overflow = FALSE
      /\ regs'.m2s = regs.m2s
    BY <1>t, <1>w DEF SlaveAttach, master, mhist, shist, counts, Putting, TypeOK, MasterType,
       SlaveType, RegsType, RegsOK, LockOK
<1>1. Arrived \subseteq Arrived' /\ Received' = Received
    BY <1>v, ArrivedIs DEF Received
<1>2. SentOK'
    BY <1>i, <1>w, <1>v, <1>1 DEF SentOK
<1>3. AckOK'
    BY <1>t, <1>i, <1>w, <1>v, <1>1 DEF AckOK, Live
<1>4. AckedArrives'
    BY <1>i, <1>v, <1>1, <1>2 DEF AckedArrives, SentOK, Arrived, Received, Putting
<1> QED
    BY <1>2, <1>3, <1>4

\* read takes the oldest bytes, or reports what was lost.
LEMMA SlaveReadToSlave ==
    ASSUME SlaveInv, MasterMax <= SlaveMax, SlaveRead
    PROVE  SentOK' /\ AckOK' /\ AckedArrives'
<1>t. TypeOK /\ ConnsOK /\ LockOK /\ WireOK /\ RoomOK /\ BlobsOK /\ RegsOK /\ BaseInv
    BY DEF SlaveInv, BaseInv
<1>i. SentOK /\ AckOK /\ AckedArrives
    BY DEF SlaveInv
<1>w. Queries' = Queries /\ Answers' = Answers /\ Late' = Late
    BY DEF SlaveRead, master, mhist, counts, Queries, Answers, Late
<1>v. /\ blob' = blob /\ put' = put /\ acked' = acked /\ app' = app
      /\ m'.conn = m.conn /\ regs'.m2s = regs.m2s /\ Putting' = Putting
    BY <1>t, <1>w DEF SlaveRead, master, mhist, counts, Putting, TypeOK, MasterType, SlaveType,
       RegsType, RegsOK, LockOK
<1>1. Arrived \subseteq Arrived' /\ Received' = Received /\ sread' \o s'.fifo = sread \o s.fifo
  <2>1. CASE /\ s' = [s EXCEPT !.overflow = FALSE] /\ sgone' = sgone \union slost /\ slost' = {}
             /\ sread' = sread
    <3>1. s'.fifo = s.fifo /\ s'.overflow = FALSE
        BY <1>t, <2>1 DEF TypeOK, SlaveType
    <3>2. Arrived \subseteq Arrived'
        BY <1>v, <2>1, <3>1, ArrivedIs
    <3> QED
        BY <2>1, <3>1, <3>2 DEF Received
  <2>2. ASSUME NEW f \in Seq(Nat), NEW r \in Seq(Nat), ~s.overflow, slost' = slost, sgone' = sgone,
               f \o r = s.fifo, Len(r) <= Len(s.fifo), s' = [s EXCEPT !.fifo = r], sread' = sread \o f
        PROVE  /\ Arrived \subseteq Arrived' /\ Received' = Received
               /\ sread' \o s'.fifo = sread \o s.fifo
    <3>1. s'.fifo = r /\ s'.overflow = s.overflow
        BY <1>t, <2>2 DEF TypeOK, SlaveType
    <3>2. sread \in Seq(Nat)
        BY <1>t, Fields
    <3>3. ToSet(s.fifo) = ToSet(f) \union ToSet(r) /\ ToSet(sread') = ToSet(sread) \union ToSet(f)
      <4>1. ToSet(f \o r) = ToSet(f) \union ToSet(r)
          BY <2>2, SetOfConcat
      <4>2. ToSet(sread \o f) = ToSet(sread) \union ToSet(f)
          BY <2>2, <3>2, SetOfConcat
      <4> QED
          BY <2>2, <4>1, <4>2
    <3>4. (sread \o f) \o r = sread \o (f \o r)
        BY <2>2, <3>2, Concat3, Zenon
    <3>5. Arrived \subseteq Arrived'
        BY <1>v, <2>2, <3>1, <3>3, ArrivedIs
    <3> QED
        BY <2>2, <3>1, <3>3, <3>4, <3>5 DEF Received
  <2> QED
      BY <1>t, <2>1, <2>2, SlaveReadMoves
<1>2. SentOK'
    BY <1>i, <1>w, <1>v, <1>1 DEF SentOK
<1>3. AckOK'
    BY <1>t, <1>i, <1>w, <1>v, <1>1 DEF AckOK, Live
<1>4. AckedArrives'
    BY <1>i, <1>v, <1>1, <1>2 DEF AckedArrives, SentOK, Arrived, Received, Putting
<1> QED
    BY <1>2, <1>3, <1>4

\* enable of the master leaves its writes alone.
LEMMA MasterEnableToSlave ==
    ASSUME SlaveInv, MasterMax <= SlaveMax, NEW b \in BOOLEAN, MasterEnable(b)
    PROVE  SentOK' /\ AckOK' /\ AckedArrives'
<1>t. TypeOK /\ ConnsOK /\ LockOK /\ WireOK /\ RoomOK /\ BlobsOK /\ RegsOK /\ BaseInv
    BY DEF SlaveInv, BaseInv
<1>i. SentOK /\ AckOK /\ AckedArrives
    BY DEF SlaveInv
<1>w. Queries' = Queries /\ Answers' = Answers /\ Late' = Late
    BY DEF MasterEnable, slave, shist, Called, Queries, Answers, Late
<1>v. /\ sread' = sread /\ slost' = slost /\ sgone' = sgone /\ blob' = blob
      /\ put' = put /\ acked' = acked /\ app' = app /\ m'.conn = m.conn
      /\ s'.fifo = s.fifo /\ s'.overflow = s.overflow /\ regs'.m2s = regs.m2s
      /\ Putting' = Putting
    BY <1>t, <1>w DEF MasterEnable, slave, shist, Called, Putting, TypeOK, MasterType, SlaveType,
       RegsType, RegsOK, LockOK
<1>1. Arrived \subseteq Arrived' /\ Received' = Received
    BY <1>v, ArrivedKept
<1>2. SentOK'
    BY <1>i, <1>w, <1>v, <1>1 DEF SentOK
<1>3. AckOK'
    BY <1>t, <1>i, <1>w, <1>v, <1>1 DEF AckOK, Live
<1>4. AckedArrives'
    BY <1>i, <1>v, <1>1, <1>2 DEF AckedArrives, SentOK, Arrived, Received, Putting
<1> QED
    BY <1>2, <1>3, <1>4

\* enable discards what the FIFO holds.
LEMMA SlaveEnableToSlave ==
    ASSUME SlaveInv, MasterMax <= SlaveMax, NEW b \in BOOLEAN, SlaveEnable(b)
    PROVE  SentOK' /\ AckOK' /\ AckedArrives'
<1>t. TypeOK /\ ConnsOK /\ LockOK /\ WireOK /\ RoomOK /\ BlobsOK /\ RegsOK /\ BaseInv
    BY DEF SlaveInv, BaseInv
<1>i. SentOK /\ AckOK /\ AckedArrives
    BY DEF SlaveInv
<1>w. Queries' = Queries /\ Answers' = Answers /\ Late' = Late
    BY DEF SlaveEnable, master, Called, Queries, Answers, Late
<1>v. /\ sread' = sread /\ blob' = blob /\ put' = put /\ acked' = acked
      /\ app' = app /\ m'.conn = m.conn /\ regs'.m2s = regs.m2s /\ Putting' = Putting
      /\ slost' = {}
      /\ sgone' = sgone \union slost \union ToSet(s.fifo)
      /\ s'.fifo = <<>>
      /\ s'.overflow = FALSE
    BY <1>t, <1>w DEF SlaveEnable, master, Called, Putting, TypeOK, MasterType, SlaveType,
       RegsType, RegsOK, LockOK
<1>n. sread \in Seq(Nat) /\ s.fifo \in Seq(Nat) /\ sread \o <<>> = sread
    BY <1>t, Fields
<1>p. Increasing(sread)
    BY <1>i, <1>n, IncreasingConcat DEF SentOK
<1>1. Arrived \subseteq Arrived' /\ Received' \subseteq Received
    BY <1>v, ArrivedIs, NoBytes DEF Received
<1>2. SentOK'
    BY <1>i, <1>w, <1>v, <1>n, <1>p, <1>1 DEF SentOK, Below
<1>3. AckOK'
    BY <1>t, <1>i, <1>w, <1>v, <1>1 DEF AckOK, Live
<1>4. AckedArrives'
    BY <1>i, <1>v, <1>1, <1>2 DEF AckedArrives, SentOK, Arrived, Received, Putting
<1> QED
    BY <1>2, <1>3, <1>4

\* Every step preserves SlaveInv when no blob of the master is cut (max_blob_bytes).
LEMMA SlaveStep ==
    ASSUME SlaveInv, MasterMax <= SlaveMax, [Next]_vars
    PROVE  SlaveInv'
<1>b. BaseInv'
    BY BaseOf, BaseStep
<1>1. CASE UNCHANGED vars
  <2>1. UNCHANGED <<m, lock, rx, rxlen, app, blob, s, regs, task, session, conns, given, put,
                    acked>>
      BY <1>1 DEF vars, master, slave, mhist, shist, counts
  <2>2. UNCHANGED <<mread, mlost, mgone, sread, slost, sgone, attached, calls>>
      BY <1>1 DEF vars, master, slave, mhist, shist, counts
  <2>3. Queries' = Queries /\ Answers' = Answers /\ Late' = Late /\ Live' = Live
      BY <2>1 DEF Queries, Answers, Late, Live
  <2> QED
      BY <1>b, <2>1, <2>2, <2>3, Zenon DEF SlaveInv, SentOK, AckOK, AckedArrives, Putting,
         Received, Arrived
<1>2. CASE AsideSlave
    BY <1>b, <1>2, SlaveKept DEF SlaveInv
<1>3. CASE RxPolls
    BY <1>b, <1>3, RxPollsToSlave DEF SlaveInv
<1>4. CASE RxPollAnswered
    BY <1>b, <1>4, RxPollAnsweredToSlave DEF SlaveInv
<1>5. CASE RxHeaderAnswered
    BY <1>b, <1>5, RxHeaderAnsweredToSlave DEF SlaveInv
<1>6. CASE WriteDisabled
    BY <1>b, <1>6, WriteDisabledToSlave DEF SlaveInv
<1>7. CASE WriteSends
    BY <1>b, <1>7, WriteSendsToSlave DEF SlaveInv
<1>8. CASE WriteUnsent
    BY <1>b, <1>8, WriteUnsentToSlave DEF SlaveInv
<1>9. CASE WriteDone
    BY <1>b, <1>9, WriteDoneToSlave DEF SlaveInv
<1>10. CASE WriteFails
    BY <1>b, <1>10, WriteFailsToSlave DEF SlaveInv
<1>11. CASE SlaveReplies
    BY <1>b, <1>11, SlaveRepliesToSlave DEF SlaveInv
<1>12. CASE SlaveReplyFails
    BY <1>b, <1>12, SlaveReplyFailsToSlave DEF SlaveInv
<1>13. CASE SlaveConsumes
    BY <1>b, <1>13, SlaveConsumesToSlave DEF SlaveInv
<1>14. CASE SlavePrepares
    BY <1>b, <1>14, SlavePreparesToSlave DEF SlaveInv
<1>15. ASSUME NEW n \in 1 .. MasterMax, WriteCall(n) PROVE SlaveInv'
    BY <1>b, <1>15, WriteCallToSlave DEF SlaveInv
<1>16. CASE SlaveAttach
    BY <1>b, <1>16, SlaveAttachToSlave DEF SlaveInv
<1>17. CASE SlaveRead
    BY <1>b, <1>17, SlaveReadToSlave DEF SlaveInv
<1>18. ASSUME NEW b \in BOOLEAN, MasterEnable(b) PROVE SlaveInv'
    BY <1>b, <1>18, MasterEnableToSlave DEF SlaveInv
<1>19. ASSUME NEW b \in BOOLEAN, SlaveEnable(b) PROVE SlaveInv'
    BY <1>b, <1>19, SlaveEnableToSlave DEF SlaveInv
<1> QED
    BY BaseOf, SlaveAside, <1>1, <1>2, <1>3, <1>4, <1>5, <1>6, <1>7, <1>8, <1>9, <1>10, <1>11,
       <1>12, <1>13, <1>14, <1>15, <1>16, <1>17, <1>18, <1>19 DEF Next, Rx, App, Task

(***************************************************************************)
(* The theorems                                                            *)
(***************************************************************************)
\* After _init and _configure on both sides the invariants hold.
LEMMA Initially == Init => BaseInv /\ MasterInv /\ SlaveInv
<1> SUFFICES ASSUME Init PROVE BaseInv /\ MasterInv /\ SlaveInv
    OBVIOUS
<1>1. /\ Queries = <<>> /\ Answers = <<>> /\ ~Late /\ Quiet /\ ~Live /\ Len(<<>>) = 0
      /\ conns = <<>> /\ Len(conns) = 0
    BY DEF Init, Queries, Answers, Late, Quiet, Live
<1>2. m \in MasterType
    BY NoBytes, Bounds DEF Init, MasterType
<1>3. s \in SlaveType
    BY NoBytes DEF Init, SlaveType
<1>4. regs \in RegsType
    BY NoBytes DEF Init, RegsType
<1>5. <<>> \in Seq(ConnType) /\ 0 \in 0 .. MaxConns /\ 0 \in 0 .. MaxBytes /\ 0 \in 0 .. MaxCalls
    BY Bounds
<1>6. TypeOK
  <2>1. conns \in Seq(ConnType) /\ Len(conns) <= MaxConns
      BY <1>1, <1>5, Bounds
  <2>2. /\ {mread, sread} \subseteq Seq(Nat) /\ {mlost, mgone, slost, sgone} \subseteq SUBSET Nat
        /\ blob \in Seq(Nat)
      BY NoBytes DEF Init
  <2>3. lock = "free" /\ rx = "off" /\ rxlen = 0 /\ app = "idle" /\ task = "off" /\ session = 0
      BY DEF Init
  <2>4. given = 0 /\ put = 0 /\ acked = {} /\ attached = FALSE /\ calls = 0
      BY DEF Init
  <2> QED
      BY <1>2, <1>3, <1>4, <1>5, <2>1, <2>2, <2>3, <2>4 DEF TypeOK
<1>7. BaseInv
    BY <1>1, <1>6, NoBytes, Bounds DEF Init, BaseInv, ConnsOK, LockOK, WireOK, RoomOK, BlobsOK,
       RegsOK
<1>8. ToSet(<<>>) = {} /\ <<>> \o <<>> = <<>> /\ Increasing(<<>>)
    BY NoBytes
<1>9. Data = {} /\ Read = {} /\ ~Polling /\ ~Putting /\ Received = {}
    BY <1>8 DEF Init, Data, Read, Polling, Putting, Received
<1>10. MasterInv
    BY <1>1, <1>7, <1>8, <1>9 DEF Init, MasterInv, PollsOK, RoundOK, PublishedOK, StreamToMaster,
       Settled, Ahead
<1>11. SlaveInv
    BY <1>1, <1>7, <1>8, <1>9 DEF Init, SlaveInv, SentOK, AckOK, AckedArrives, Below
<1> QED
    BY <1>7, <1>10, <1>11

\* One request at a time: in every reachable state what is under way on the
\* connection is the request that the holder of the lock waits for, or its answer.
THEOREM BaseCorrect == Spec => []BaseInv
<1> QED
    BY Initially, BaseStep, PTL DEF Spec

\* Type correctness.
THEOREM ModbusTypeOK == Spec => []TypeOK
<1>1. BaseInv => TypeOK
    BY DEF BaseInv
<1> QED
    BY <1>1, BaseCorrect, PTL

\* The stream to the master, for any interleaving of the three requests of a round
\* with writes, reads, enable, detach and a new attach on either side, timeouts and
\* connections that break: in order, nothing twice, and no gap that is not reported
\* - provided the master takes blobs as long as the slave's (max_blob_bytes).
THEOREM StreamToMasterHolds ==
    ASSUME SlaveMax <= MasterMax
    PROVE  Spec => []StreamToMaster
<1>1. MasterInv /\ [Next]_vars => MasterInv'
    BY MasterStep
<1>2. MasterInv => StreamToMaster
    BY DEF MasterInv
<1> QED
    BY Initially, <1>1, <1>2, PTL DEF Spec

\* The stream to the slave: what write reported as done arrives in order and once, or
\* its loss is flagged - provided the slave takes blobs as long as the master's.
THEOREM AckedArrivesHolds ==
    ASSUME MasterMax <= SlaveMax
    PROVE  Spec => []AckedArrives
<1>1. SlaveInv /\ [Next]_vars => SlaveInv'
    BY SlaveStep
<1>2. SlaveInv => AckedArrives
    BY DEF SlaveInv
<1> QED
    BY Initially, <1>1, <1>2, PTL DEF Spec
================================================================================
