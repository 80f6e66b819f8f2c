----------------------------- MODULE PortalProofs -----------------------------
(***************************************************************************)
(* Proofs about the two network portals.  They share no state: this module *)
(* extends both and treats one after the other.                            *)
(*                                                                         *)
(* The CoAP portal (dtnetportal_coap*.c), for any number of publishers and *)
(* requests and any size of queue and pipe.  CoapInv adds to the types and *)
(* to NothingSkipped when the loop holds a message (HandFree) and who will *)
(* announce the messages the loop has not seen (Announced).                *)
(*                                                                         *)
(* The MQTT portal (dtnetportal_mosquitto*.c), for any callers and topics  *)
(* and any number of calls and connections.  MqttInv has two layers: what  *)
(* connected says of the connection, which holds for all callers, and      *)
(* on top of it what holds when no two callers share a topic (OwnTopics)   *)
(* and when there is one caller (Alone).  That every identifier is one     *)
(* that mosquitto_subscribe gave out (MidsKnown) is inductive beside it.   *)
(***************************************************************************)
EXTENDS CoapPortal, MqttPortal, FunctionTheorems, FiniteSetTheorems, SequenceTheorems, TLAPS

(***************************************************************************)
(* The CoAP portal: the inductive invariant                                *)
(***************************************************************************)
\* publish_all holds a message only between its get and its send.
HandFree == io \notin {"send", "failed"} => hand = <<>>

\* When the loop is about to sleep or sleeps, whoever has put a message on the
\* queue since the loop emptied it has written to the pipe or is about to.
Announced ==
    (io \in {"none", "loop", "select"} /\ pipe = 0 /\ queue # <<>>) => \E p \in Publishers : pub[p] = "wake"

CoapInv == CoapTypeOK /\ HandFree /\ NothingSkipped /\ Announced

\* The channel that the portal uses the buffer queue as.
Channel == INSTANCE BoundedFifo WITH Capacity <- Cap, Elements <- Messages,
                                     items <- queue, taken <- sent \o hand

\* Appending to the last part of a sequence of parts.
LEMMA AppendLast ==
    \A a, b, c \in Seq(Messages), e \in Messages : a \o b \o Append(c, e) = Append(a \o b \o c, e)
  OBVIOUS

\* Moving the head of the last part to the middle.
LEMMA MoveHead ==
    \A a, c \in Seq(Messages) :
        c # <<>> => /\ a \o <<Head(c)>> \o Tail(c) = a \o <<>> \o c
                    /\ a \o <<Head(c)>> = Append(a \o <<>>, Head(c))
  OBVIOUS

\* The assumptions on the constants, one by one.
LEMMA Sizes == Cap \in Nat /\ Cap > 0 /\ PipeCap \in Nat /\ PipeCap > 0 /\ MaxPublishes \in Nat /\ MaxRequests \in Nat
  BY SizesAssumption

\* The initial state satisfies the invariant.
LEMMA CoapInitially == CoapInit => CoapInv
  <1> SUFFICES ASSUME CoapInit PROVE CoapInv
    OBVIOUS
  <1>1. CoapTypeOK
    <2>1. <<>> \in Seq(Messages) /\ Len(<<>>) = 0  OBVIOUS
    <2>2. pub \in [Publishers -> {"idle", "put", "wake"}]  BY DEF CoapInit
    <2>3. pipe \in 0 .. PipeCap /\ published \in 0 .. MaxPublishes  BY Sizes DEF CoapInit
    <2>4. waiting \in 0 .. arrived /\ arrived \in 0 .. MaxRequests  BY Sizes DEF CoapInit
    <2>5. Len(queue) <= Cap /\ Len(hand) <= 1  BY <2>1, Sizes DEF CoapInit
    <2>6. QED  BY <2>1, <2>2, <2>3, <2>4, <2>5 DEF CoapInit, CoapTypeOK
  <1>2. HandFree /\ Announced  BY DEF CoapInit, HandFree, Announced
  <1>3. NothingSkipped  BY DEF CoapInit, NothingSkipped
  <1>4. QED  BY <1>1, <1>2, <1>3 DEF CoapInv

\* A put into the queue, by a publisher or by a callback.
LEMMA PutType ==
    ASSUME CoapTypeOK, NEW m \in Messages, Put(m)
    PROVE  /\ queue' \in Seq(Messages) /\ Len(queue') <= Cap
           /\ accepted' \in Seq(Messages)
           /\ sent \o hand \o queue = accepted => sent \o hand \o queue' = accepted'
  <1>1. /\ queue \in Seq(Messages) /\ accepted \in Seq(Messages)
        /\ sent \in Seq(Messages) /\ hand \in Seq(Messages) /\ Len(queue) \in Nat
    BY DEF CoapTypeOK
  <1>2. queue' = Append(queue, m) /\ accepted' = Append(accepted, m) /\ Len(queue) < Cap
    BY DEF Put
  <1>3. Len(queue') = Len(queue) + 1 /\ queue' \in Seq(Messages) /\ accepted' \in Seq(Messages)
    BY <1>1, <1>2
  <1>4. sent \o hand \o queue' = Append(sent \o hand \o queue, m)
    <2>1. sent \o hand \o Append(queue, m) = Append(sent \o hand \o queue, m)  BY <1>1, AppendLast, Zenon
    <2>2. QED  BY <1>2, <2>1, Zenon
  <1>5. Len(queue') <= Cap  BY <1>1, <1>2, <1>3, Sizes
  <1>6. ASSUME sent \o hand \o queue = accepted PROVE sent \o hand \o queue' = accepted'
    BY <1>2, <1>4, <1>6, Zenon
  <1>7. QED  BY <1>3, <1>5, <1>6, Zenon

\* Each publisher's step preserves the invariant.
LEMMA PublisherStep ==
    ASSUME CoapInv, NEW p \in Publishers, PublishCall(p) \/ PublishPut(p) \/ PublishWakes(p)
    PROVE  CoapInv'
  <1>t. CoapTypeOK /\ HandFree /\ NothingSkipped /\ Announced  BY DEF CoapInv
  <1>1. CASE PublishCall(p)
    <2>1. CoapTypeOK'  BY <1>1, <1>t, Sizes DEF PublishCall, CoapTypeOK
    <2>2. HandFree' /\ NothingSkipped'  BY <1>1, <1>t DEF PublishCall, HandFree, NothingSkipped
    <2>3. Announced'
      BY <1>1, <1>t DEF PublishCall, Announced, CoapTypeOK
    <2>4. QED  BY <2>1, <2>2, <2>3 DEF CoapInv
  <1>2. CASE PublishPut(p)
    <2>1. PICK m \in Messages : Put(m)
      <3>1. <<p, Len(accepted) + 1>> \in Messages  BY <1>t DEF Messages, Senders, CoapTypeOK
      <3>2. QED  BY <1>2, <3>1 DEF PublishPut
    <2>2. CoapTypeOK'  BY <1>2, <1>t, <2>1, PutType DEF PublishPut, CoapTypeOK
    <2>3. NothingSkipped'  BY <1>2, <1>t, <2>1, PutType DEF PublishPut, NothingSkipped
    <2>4. HandFree' /\ Announced'  BY <1>2, <1>t DEF PublishPut, HandFree, Announced, CoapTypeOK
    <2>5. QED  BY <2>2, <2>3, <2>4 DEF CoapInv
  <1>3. CASE PublishWakes(p)
    <2>1. pipe' \in 1 .. PipeCap  BY <1>3, <1>t, Sizes DEF PublishWakes, PipeByte, CoapTypeOK
    <2>2. CoapTypeOK'  BY <1>3, <1>t, <2>1 DEF PublishWakes, CoapTypeOK
    <2>3. HandFree' /\ NothingSkipped'  BY <1>3, <1>t DEF PublishWakes, HandFree, NothingSkipped
    <2>4. Announced'  BY <2>1 DEF Announced
    <2>5. QED  BY <2>2, <2>3, <2>4 DEF CoapInv
  <1>4. QED  BY <1>1, <1>2, <1>3

\* The steps of the loop that leave the queue, the publishers and the messages
\* alone and do not go back to the loop's head preserve the invariant.
LEMMA IoQuietStep ==
    ASSUME CoapInv, IoTest \/ IoSelect \/ IoDrain \/ IoProcess \/ IoSelectFails \/ IoProcessFails \/ IoSendFails
    PROVE  CoapInv'
  <1>t. CoapTypeOK /\ HandFree /\ NothingSkipped /\ Announced  BY DEF CoapInv
  <1>1. UNCHANGED <<queue, hand, accepted, sent, pub, published, life, ioloop_should_stop, arrived>>
    BY DEF IoTest, IoSelect, IoDrain, IoProcess, IoSelectFails, IoProcessFails, IoSendFails
  <1>2. /\ pipe' \in 0 .. PipeCap /\ waiting' \in 0 .. arrived /\ wakes' \in BOOLEAN
        /\ coming' \in BOOLEAN
    <2>1. pipe' \in 0 .. PipeCap
      BY <1>t, Sizes DEF IoTest, IoSelect, IoDrain, IoProcess, IoSelectFails, IoProcessFails,
         IoSendFails, CoapTypeOK
    <2>2. waiting' \in 0 .. arrived
      BY <1>t, Sizes DEF IoTest, IoSelect, IoDrain, IoProcess, IoSelectFails, IoProcessFails,
         IoSendFails, CoapTypeOK
    <2>3. wakes' = wakes \/ wakes' = (pipe > 0)
      BY DEF IoTest, IoSelect, IoDrain, IoProcess, IoSelectFails, IoProcessFails, IoSendFails
    <2>4. coming' = coming \/ coming' = (waiting > 0)
      BY DEF IoTest, IoSelect, IoDrain, IoProcess, IoSelectFails, IoProcessFails, IoSendFails
    <2>5. (pipe > 0) \in BOOLEAN /\ (waiting > 0) \in BOOLEAN
      <3>1. pipe \in Int /\ waiting \in Int  BY <1>t, Sizes DEF CoapTypeOK
      <3>2. QED  BY <3>1, SMT
    <2>6. wakes \in BOOLEAN /\ coming \in BOOLEAN  BY <1>t DEF CoapTypeOK
    <2>7. wakes' \in BOOLEAN /\ coming' \in BOOLEAN  BY <2>3, <2>4, <2>5, <2>6, Zenon
    <2>8. QED  BY <2>1, <2>2, <2>7
  <1>3. io' \in {"select", "stopped", "woken", "process", "publish", "answer", "failed"}
    BY DEF IoTest, IoSelect, IoDrain, IoProcess, IoSelectFails, IoProcessFails, IoSendFails
  <1>4. CoapTypeOK'
    BY <1>1, <1>2, <1>3, <1>t DEF CoapTypeOK
  <1>5. HandFree'
    BY <1>1, <1>3, <1>t DEF HandFree, IoTest, IoSelect, IoDrain, IoProcess, IoSelectFails,
       IoProcessFails,
                            IoSendFails, IoAt
  <1>6. NothingSkipped'  BY <1>1, <1>t DEF NothingSkipped
  <1>7. io' = "select" => IoTest
    BY DEF IoSelect, IoDrain, IoProcess, IoSelectFails, IoProcessFails, IoSendFails
  <1>8. Announced'
    BY <1>1, <1>3, <1>7, <1>t DEF Announced, IoTest, IoAt
  <1>9. QED  BY <1>4, <1>5, <1>6, <1>8 DEF CoapInv

\* A callback that publishes.
LEMMA IoAnswerStep ==
    ASSUME CoapInv, IoAnswerPut \/ IoAnswerWakes
    PROVE  CoapInv'
  <1>t. CoapTypeOK /\ HandFree /\ NothingSkipped /\ Announced  BY DEF CoapInv
  <1>1. CASE IoAnswerPut
    <2>1. PICK m \in Messages : Put(m)
      <3>1. <<"io", Len(accepted) + 1>> \in Messages  BY <1>t DEF Messages, Senders, CoapTypeOK
      <3>2. QED  BY <1>1, <3>1 DEF IoAnswerPut
    <2>2. CoapTypeOK'  BY <1>1, <1>t, <2>1, PutType DEF IoAnswerPut, CoapTypeOK
    <2>3. NothingSkipped'  BY <1>1, <1>t, <2>1, PutType DEF IoAnswerPut, NothingSkipped
    <2>4. HandFree' /\ Announced'  BY <1>1, <1>t DEF IoAnswerPut, IoAt, HandFree, Announced
    <2>5. QED  BY <2>2, <2>3, <2>4 DEF CoapInv
  <1>2. CASE IoAnswerWakes
    <2>1. pipe' \in 1 .. PipeCap  BY <1>2, <1>t, Sizes DEF IoAnswerWakes, PipeByte, CoapTypeOK
    <2>2. CoapTypeOK'  BY <1>2, <1>t, <2>1 DEF IoAnswerWakes, CoapTypeOK
    <2>3. /\ HandFree'
          /\ NothingSkipped'  BY <1>2, <1>t DEF IoAnswerWakes, IoAt, HandFree, NothingSkipped
    <2>4. Announced'  BY <2>1 DEF Announced
    <2>5. QED  BY <2>2, <2>3, <2>4 DEF CoapInv
  <1>3. QED  BY <1>1, <1>2

\* publish_all takes the head of the queue, or finds it empty and goes back to
\* the loop's head.
LEMMA IoGetStep == ASSUME CoapInv, IoGet PROVE CoapInv'
  <1>t. CoapTypeOK /\ HandFree /\ NothingSkipped /\ Announced  BY DEF CoapInv
  <1>1. hand = <<>>  BY <1>t DEF HandFree, IoGet, IoAt
  <1>2. /\ queue \in Seq(Messages) /\ sent \in Seq(Messages)
        /\ Len(queue) <= Cap  BY <1>t DEF CoapTypeOK
  <1>3. CASE queue = <<>> /\ io' = "loop" /\ UNCHANGED <<queue, hand>>
    <2>1. CoapTypeOK'  BY <1>3, <1>t DEF IoGet, CoapTypeOK
    <2>2. HandFree' /\ NothingSkipped' /\ Announced'
      BY <1>1, <1>3, <1>t DEF IoGet, HandFree, NothingSkipped, Announced
    <2>3. QED  BY <2>1, <2>2 DEF CoapInv
  <1>4. CASE queue # <<>> /\ io' = "send" /\ hand' = <<Head(queue)>> /\ queue' = Tail(queue)
    <2>1. /\ queue' \in Seq(Messages) /\ Len(queue') <= Cap
          /\ hand' \in Seq(Messages) /\ Len(hand') <= 1
      <3>1. /\ Head(queue) \in Messages /\ Tail(queue) \in Seq(Messages)
            /\ Len(Tail(queue)) = Len(queue) - 1
        BY <1>2, <1>4
      <3>2. Len(queue) \in Nat  BY <1>2
      <3>3. Len(queue') <= Cap  BY <1>2, <1>4, <3>1, <3>2, Sizes
      <3>4. QED  BY <1>4, <3>1, <3>3
    <2>2. CoapTypeOK'  BY <1>4, <1>t, <2>1 DEF IoGet, CoapTypeOK
    <2>3. sent \o <<Head(queue)>> \o Tail(queue) = sent \o <<>> \o queue  BY <1>2, <1>4, MoveHead
    <2>4. NothingSkipped'  BY <1>1, <1>4, <1>t, <2>3 DEF IoGet, NothingSkipped
    <2>5. HandFree' /\ Announced'  BY <1>4 DEF HandFree, Announced
    <2>6. QED  BY <2>2, <2>4, <2>5 DEF CoapInv
  <1>5. QED  BY <1>3, <1>4 DEF IoGet

\* publish_one sends what was taken.
LEMMA IoSendStep == ASSUME CoapInv, IoSend PROVE CoapInv'
  <1>t. CoapTypeOK /\ HandFree /\ NothingSkipped /\ Announced  BY DEF CoapInv
  <1>1. /\ sent \in Seq(Messages) /\ hand \in Seq(Messages)
        /\ queue \in Seq(Messages)  BY <1>t DEF CoapTypeOK
  <1>2. sent' = sent \o hand /\ hand' = <<>> /\ io' = "publish"  BY DEF IoSend
  <1>3. sent' \in Seq(Messages) /\ <<>> \in Seq(Messages) /\ Len(<<>>) <= 1  BY <1>1, <1>2
  <1>4. CoapTypeOK'  BY <1>2, <1>3, <1>t DEF IoSend, CoapTypeOK
  <1>5. sent' \o hand' = sent \o hand  BY <1>1, <1>2, <1>3
  <1>6. NothingSkipped'  BY <1>5, <1>t DEF IoSend, NothingSkipped
  <1>7. HandFree' /\ Announced'  BY <1>2 DEF HandFree, Announced
  <1>8. QED  BY <1>4, <1>6, <1>7 DEF CoapInv

\* The owner, the peers and dispose.
LEMMA CoapOtherStep == ASSUME CoapInv, CoapActivate \/ RequestArrives \/ Dispose PROVE CoapInv'
  <1>t. CoapTypeOK /\ HandFree /\ NothingSkipped /\ Announced  BY DEF CoapInv
  <1>1. CASE CoapActivate
    <2>1. CoapTypeOK'  BY <1>1, <1>t DEF CoapActivate, CoapTypeOK
    <2>2. HandFree' /\ NothingSkipped'  BY <1>1, <1>t DEF CoapActivate, HandFree, NothingSkipped
    <2>3. Announced'  BY <1>1, <1>t DEF CoapActivate, Announced
    <2>4. QED  BY <2>1, <2>2, <2>3 DEF CoapInv
  <1>2. CASE RequestArrives
    <2>1. arrived' \in 0 .. MaxRequests /\ waiting' \in 0 .. arrived'
      BY <1>2, <1>t, Sizes DEF RequestArrives, CoapTypeOK
    <2>2. CoapTypeOK'  BY <1>2, <1>t, <2>1 DEF RequestArrives, CoapTypeOK
    <2>3. HandFree' /\ NothingSkipped' /\ Announced'
      BY <1>2, <1>t DEF RequestArrives, HandFree, NothingSkipped, Announced
    <2>4. QED  BY <2>2, <2>3 DEF CoapInv
  <1>3. CASE DisposeStops \/ DisposeCloses
    <2>1. UNCHANGED <<queue, pipe, io, wakes, coming, hand, pub, published, waiting, arrived, accepted,
                      sent>>
      BY <1>3 DEF DisposeStops, DisposeCloses
    <2>2. ioloop_should_stop' \in BOOLEAN /\ life' \in {"up", "wake", "sleep", "freed"}
      BY <1>3, <1>t DEF DisposeStops, DisposeCloses, CoapTypeOK
    <2>3. CoapTypeOK'  BY <1>t, <2>1, <2>2 DEF CoapTypeOK
    <2>4. /\ HandFree' /\ NothingSkipped'
          /\ Announced'  BY <1>t, <2>1 DEF HandFree, NothingSkipped, Announced
    <2>5. QED  BY <2>3, <2>4 DEF CoapInv
  <1>4. CASE DisposeWakes
    <2>1. pipe' \in 1 .. PipeCap  BY <1>4, <1>t, Sizes DEF DisposeWakes, PipeByte, CoapTypeOK
    <2>2. CoapTypeOK'  BY <1>4, <1>t, <2>1 DEF DisposeWakes, CoapTypeOK
    <2>3. HandFree' /\ NothingSkipped'  BY <1>4, <1>t DEF DisposeWakes, HandFree, NothingSkipped
    <2>4. Announced'  BY <2>1 DEF Announced
    <2>5. QED  BY <2>2, <2>3, <2>4 DEF CoapInv
  <1>5. QED  BY <1>1, <1>2, <1>3, <1>4 DEF Dispose

\* Every step preserves the invariant.
LEMMA CoapStep == CoapInv /\ [CoapNext]_coap_vars => CoapInv'
  <1> SUFFICES ASSUME CoapInv, [CoapNext]_coap_vars PROVE CoapInv'
    OBVIOUS
  <1>1. CASE UNCHANGED coap_vars
    BY <1>1 DEF coap_vars, CoapInv, CoapTypeOK, HandFree, NothingSkipped, Announced
  <1>2. CASE CoapActivate \/ RequestArrives \/ Dispose  BY <1>2, CoapOtherStep
  <1>3. CASE Io
    BY <1>3, IoQuietStep, IoAnswerStep, IoGetStep, IoSendStep DEF Io, IoRuns
  <1>4. CASE \E p \in Publishers : PublishCall(p) \/ PublishPut(p) \/ PublishWakes(p)
    BY <1>4, PublisherStep
  <1>5. QED  BY <1>1, <1>2, <1>3, <1>4 DEF CoapNext

\* The invariant holds in every reachable state.
THEOREM CoapCorrect == CoapSpec => []CoapInv
  BY CoapInitially, CoapStep, PTL DEF CoapSpec

\* The queue stays within its capacity, the pipe within its own, and every
\* field of the portal keeps its type.
THEOREM CoapTypeCorrect == CoapSpec => []CoapTypeOK
  BY CoapCorrect, PTL DEF CoapInv

\* The loop of dtnetportal_coap__ioloop_tasker_entrypoint never sleeps in
\* select() beside a message that nobody is going to announce.
THEOREM NoMissedWakeHolds == CoapSpec => []NoMissedWake
  <1>1. CoapInv => NoMissedWake  BY DEF CoapInv, Announced, NoMissedWake
  <1>2. QED  BY <1>1, CoapCorrect, PTL

\* dtnetportal_coap__ioloop_publish_all sends what dtnetportal_coap_publish
\* accepted in that order and without a gap, whatever fails.
THEOREM NothingSkippedHolds == CoapSpec => []NothingSkipped
  <1>1. CoapInv => NothingSkipped  BY DEF CoapInv
  <1>2. QED  BY <1>1, CoapCorrect, PTL

(***************************************************************************)
(* The CoAP portal's use of the queue                                      *)
(***************************************************************************)
\* Every step puts a message on the channel, takes one, or leaves it alone.
LEMMA ChannelStep == CoapInv /\ [CoapNext]_coap_vars => [Channel!Next]_<<queue, sent \o hand>>
  <1> SUFFICES ASSUME CoapInv, [CoapNext]_coap_vars PROVE [Channel!Next]_<<queue, sent \o hand>>
    OBVIOUS
  <1>t. CoapTypeOK /\ HandFree  BY DEF CoapInv
  <1>1. ASSUME NEW m \in Messages, Put(m), UNCHANGED <<sent, hand>> PROVE Channel!Next
    BY <1>1 DEF Put, Channel!Next, Channel!Put
  <1>2. CASE UNCHANGED <<queue, sent, hand>>
    BY <1>2
  <1>3. ASSUME NEW p \in Publishers, PublishPut(p) PROVE Channel!Next
    <2>1. <<p, Len(accepted) + 1>> \in Messages  BY <1>t DEF Messages, Senders, CoapTypeOK
    <2>2. QED  BY <1>1, <1>3, <2>1 DEF PublishPut
  <1>4. CASE IoAnswerPut
    <2>1. <<"io", Len(accepted) + 1>> \in Messages  BY <1>t DEF Messages, Senders, CoapTypeOK
    <2>2. QED  BY <1>1, <1>4, <2>1 DEF IoAnswerPut
  <1>5. CASE IoGet
    <2>1. hand = <<>>  BY <1>5, <1>t DEF HandFree, IoGet, IoAt
    <2>2. queue \in Seq(Messages) /\ sent \in Seq(Messages)  BY <1>t DEF CoapTypeOK
    <2>3. CASE queue # <<>>
      <3>1. sent \o <<Head(queue)>> = Append(sent \o <<>>, Head(queue))  BY <2>2, <2>3, MoveHead
      <3>2. sent' \o hand' = Append(sent \o hand, Head(queue)) /\ queue' = Tail(queue)
        BY <1>5, <2>1, <2>3, <3>1 DEF IoGet
      <3>3. QED  BY <2>3, <3>2 DEF Channel!Next, Channel!Get
    <2>4. CASE queue = <<>>
      BY <1>5, <1>2, <2>4 DEF IoGet
    <2>5. QED  BY <2>3, <2>4
  <1>6. CASE IoSend
    <2>1. sent \in Seq(Messages) /\ hand \in Seq(Messages)  BY <1>t DEF CoapTypeOK
    <2>2. sent' \o hand' = sent \o hand  BY <1>6, <2>1 DEF IoSend
    <2>3. QED  BY <1>6, <2>2 DEF IoSend
  <1>7. CASE CoapActivate \/ RequestArrives \/ Dispose
    BY <1>2, <1>7 DEF CoapActivate, RequestArrives, Dispose, DisposeStops, DisposeWakes, DisposeCloses
  <1>8. CASE IoTest \/ IoSelect \/ IoDrain \/ IoProcess \/ IoAnswerWakes \/ IoSelectFails \/ IoProcessFails \/ IoSendFails
    BY <1>2, <1>8 DEF IoTest, IoSelect, IoDrain, IoProcess, IoAnswerWakes, IoSelectFails,
       IoProcessFails, IoSendFails
  <1>9. ASSUME NEW p \in Publishers, PublishCall(p) \/ PublishWakes(p)
        PROVE  [Channel!Next]_<<queue, sent \o hand>>
    BY <1>2, <1>9 DEF PublishCall, PublishWakes
  <1>10. CASE UNCHANGED coap_vars  BY <1>2, <1>10 DEF coap_vars
  <1>11. QED
    BY <1>3, <1>4, <1>5, <1>6, <1>7, <1>8, <1>9, <1>10 DEF CoapNext, Io, IoRuns

\* The portal uses the buffer queue as the bounded channel of BoundedFifo,
\* which BufferQueueProofs shows the queue to implement: messages pass from
\* dtnetportal_coap_publish to the loop through it and in no other way.
THEOREM CoapUsesChannel == CoapSpec => Channel!Spec
  <1>1. CoapInit => Channel!Init
    BY DEF CoapInit, Channel!Init
  <1>2. QED  BY <1>1, ChannelStep, CoapCorrect, PTL DEF CoapSpec, Channel!Spec

(***************************************************************************)
(* The MQTT portal: the inductive invariant                                *)
(***************************************************************************)
\* Nobody else subscribes to a caller's topic.
OwnTopics == \A c, d \in Callers : TopicOf[c] = TopicOf[d] => c = d

\* One thread subscribes.
Alone == \A c, d \in Callers : c = d

\* What connected says of the connection.  It stays set from the loss of the
\* connection until on_disconnect, and for good when activate gives up.
LinkOK ==
    /\ link = "up" => connected
    /\ link = "connack" => ~connected
    /\ link = "down" /\ act # "timeout" => ~connected
    /\ link # "down" => Active
    /\ loop = "refused" => link = "lost"

\* Every topic with recipients was asked for or refused by the library, or its
\* caller is about to ask.
AskedOK ==
    (OwnTopics /\ link = "up" /\ loop = "idle" /\ Active) =>
       \A t \in Topics : manifold[t] > 0 =>
          \/ t \in asked \union failed
          \/ \E c \in Callers : /\ TopicOf[c] = t
                                /\ sub[c].at = "send" \/ (sub[c].at = "count" /\ manifold[t] = 1)

\* A caller that saw the connection up, and whose connection was not lost since,
\* still sees it.
Asking == {"send", "sent", "asleep", "woken", "leave"}
CallersOK ==
    \A c \in Callers :
       /\ sub[c].at = "count" /\ ~sub[c].lost => act # "none" /\ (Active => Linked)
       /\ sub[c].at \in Asking /\ ~sub[c].lost => act # "none" /\ connected /\ (Active => link = "up")
       /\ sub[c].at # "idle" => sub[c].result = "none"
       /\ sub[c].at = "count" => sub[c].mid = NoMid
       /\ sub[c].at = "leave" /\ suback_result = -1 => sub[c].lost

\* The SUBACKs under way that grant a subscription do so truly.
AcksOK == \A i \in 1 .. Len(acks) : acks[i].ok => acks[i].mid \in granted

\* The one caller waits for its own identifier, and the result is its own.
WaitOK ==
    Alone => \A c \in Callers :
                sub[c].at \in {"asleep", "woken", "leave"} =>
                   /\ suback_mid_waiting = sub[c].mid
                   /\ suback_result = 0 => sub[c].mid \in granted

ConfirmOK == Alone => ConfirmedOrLost

MqttInv == Types /\ LinkOK /\ AskedOK /\ CallersOK /\ AcksOK /\ WaitOK /\ ConfirmOK

\* The sequence of a finite set holds that set.
LEMMA SetToSeqRange ==
    ASSUME NEW S, IsFiniteSet(S)
    PROVE  /\ SetToSeq(S) \in Seq(S)
           /\ {SetToSeq(S)[i] : i \in 1 .. Len(SetToSeq(S))} = S
<1> DEFINE n == Cardinality(S)
           f == SetToSeq(S)
<1>1. n \in Nat /\ IsFiniteSet(1 .. n) /\ Cardinality(1 .. n) = n
    BY FS_CardinalityType, FS_Interval
<1>2. ExistsBijection(1 .. n, S)
    BY <1>1, FS_SameCardinalityBij
<1>3. \E g \in [1 .. n -> S] : IsInjective(g)
    BY <1>2 DEF ExistsBijection, Bijection, Injection
<1>4. f \in [1 .. n -> S] /\ IsInjective(f)
    BY <1>3 DEF SetToSeq
<1> HIDE DEF f
<1>5. f \in Injection(1 .. n, S)
    BY <1>4 DEF Injection
<1>6. f \in Bijection(1 .. n, Range(f))
    BY <1>5, Fun_InjMeansBijImage
<1>7. ExistsBijection(1 .. n, Range(f))
    BY <1>6 DEF ExistsBijection
<1>8. IsFiniteSet(Range(f)) /\ Cardinality(Range(f)) = n
    BY <1>1, <1>7, FS_Bijection
<1>9. Range(f) = {f[i] : i \in 1 .. n} /\ Range(f) \subseteq S
    BY <1>4 DEF Range
<1>10. Range(f) = S
    BY <1>8, <1>9, FS_Subset
<1>11. f \in Seq(S) /\ Len(f) = n
    BY <1>1, <1>4
<1> QED
    BY <1>9, <1>10, <1>11 DEF f

(***************************************************************************)
(* Packets                                                                 *)
(***************************************************************************)
\* mosquitto_subscribe keeps the types of what is under way, and its identifiers
\* are known.
LEMMA AskTypes ==
    ASSUME Types, NEW ts \in Seq(Topics), Ask(ts)
    PROVE  /\ requests' \in Seq(RequestType) /\ next_mid' \in Nat /\ asked' \subseteq Topics
           /\ next_mid <= next_mid'
           /\ \A i \in 1 .. Len(requests') :
                 \/ i \in 1 .. Len(requests) /\ requests'[i] = requests[i]
                 \/ requests'[i].mid <= next_mid'
<1> DEFINE rs == [i \in 1 .. Len(ts) |-> [mid |-> next_mid + i, topic |-> ts[i]]]
<1>1. Len(ts) \in Nat /\ \A i \in 1 .. Len(ts) : ts[i] \in Topics
    BY LenProperties, ElementOfSeq
<1>2. next_mid \in Nat
    BY DEF Types
<1>3. \A i \in 1 .. Len(ts) : [mid |-> next_mid + i, topic |-> ts[i]] \in RequestType
    BY <1>2 DEF NoMid, RequestType
<1>4. rs \in Seq(RequestType) /\ Len(rs) = Len(ts) /\ \A i \in 1 .. Len(ts) : rs[i].mid = next_mid + i
    BY <1>1, <1>3
<1>5. /\ requests' = requests \o rs /\ requests \in Seq(RequestType)
      /\ next_mid' = next_mid + Len(ts)
    BY DEF Ask, Types
<1> HIDE DEF rs
<1>6. /\ requests' \in Seq(RequestType) /\ Len(requests') = Len(requests) + Len(rs)
      /\ Len(requests) \in Nat
      /\ \A i \in 1 .. Len(requests) + Len(rs) :
            requests'[i] = IF i <= Len(requests) THEN requests[i] ELSE rs[i - Len(requests)]
  <2>1. Len(requests) \in Nat
    BY <1>5, LenProperties
  <2>2. requests \in Seq(RequestType) /\ rs \in Seq(RequestType) /\ requests' = requests \o rs
    BY <1>4, <1>5
  <2>3. /\ requests \o rs \in Seq(RequestType) /\ Len(requests \o rs) = Len(requests) + Len(rs)
        /\ \A i \in 1 .. Len(requests) + Len(rs) :
              (requests \o rs)[i] = IF i <= Len(requests) THEN requests[i] ELSE rs[i - Len(requests)]
    BY <2>2, ConcatProperties, Zenon
  <2> QED
    BY <2>1, <2>2, <2>3
<1>7. ASSUME NEW i \in 1 .. Len(requests')
      PROVE  \/ i \in 1 .. Len(requests) /\ requests'[i] = requests[i]
             \/ requests'[i].mid <= next_mid'
  <2>1. CASE i <= Len(requests)
    BY <1>6, <2>1
  <2>2. CASE ~(i <= Len(requests))
    <3>1. i - Len(requests) \in 1 .. Len(ts) /\ requests'[i] = rs[i - Len(requests)]
      BY <1>1, <1>4, <1>6, <2>2
    <3>2. requests'[i].mid = next_mid + (i - Len(requests))
      BY <1>4, <3>1
    <3> QED
      BY <1>1, <1>2, <1>5, <1>6, <3>1, <3>2
  <2> QED
    BY <2>1, <2>2
<1>8. next_mid' \in Nat /\ next_mid <= next_mid'
    BY <1>1, <1>2, <1>5
<1>9. asked' \subseteq Topics
    BY DEF Ask, Types
<1> QED
    BY <1>6, <1>7, <1>8, <1>9

\* What the broker's answer puts among the SUBACKs,
LEMMA AnswerFacts ==
    ASSUME Types, BrokerAnswers
    PROVE  /\ requests' \in Seq(RequestType) /\ acks' \in Seq(AckType)
           /\ granted' \subseteq Nat /\ granted \subseteq granted'
           /\ Len(acks) \in Nat /\ Len(acks') = Len(acks) + 1
           /\ \A i \in 1 .. Len(acks) : acks'[i] = acks[i]
           /\ acks'[Len(acks) + 1].ok => acks'[Len(acks) + 1].mid \in granted'
           /\ 1 \in 1 .. Len(requests) /\ Len(requests) \in Nat
           /\ requests[1].mid \in Nat \ {NoMid}
           /\ acks'[Len(acks) + 1].mid = requests[1].mid
           /\ granted' \subseteq granted \union {requests[1].mid}
           /\ Len(requests') = Len(requests) - 1
           /\ \A i \in 1 .. Len(requests') : requests'[i] = requests[i + 1]
<1>1. /\ requests \in Seq(RequestType) /\ acks \in Seq(AckType) /\ requests # <<>>
      /\ granted \subseteq Nat
    BY DEF Types, BrokerAnswers
<1>2. PICK ok \in BOOLEAN :
         /\ acks' = Append(acks, [mid |-> Head(requests).mid, ok |-> ok])
         /\ granted' = IF ok THEN granted \union {Head(requests).mid} ELSE granted
    BY DEF BrokerAnswers
<1> DEFINE a == [mid |-> Head(requests).mid, ok |-> ok]
<1>3. /\ requests' \in Seq(RequestType) /\ Head(requests) \in RequestType
      /\ Head(requests) = requests[1]
      /\ Len(requests') = Len(requests) - 1 /\ \A i \in 1 .. Len(requests') : requests'[i] = requests[i + 1]
    BY <1>1 DEF BrokerAnswers
<1>4. Head(requests).mid \in Nat \ {NoMid}
    BY <1>3 DEF RequestType
<1>5. a \in AckType /\ a.ok = ok /\ a.mid = Head(requests).mid
    BY <1>4 DEF AckType
<1> HIDE DEF a
<1>6. acks' = Append(acks, a)
    BY <1>2 DEF a
<1>7. /\ acks' \in Seq(AckType) /\ Len(acks') = Len(acks) + 1
      /\ \A i \in 1 .. Len(acks) : acks'[i] = acks[i]
      /\ acks'[Len(acks) + 1] = a
    BY <1>1, <1>5, <1>6, AppendProperties
<1>8. /\ granted' \subseteq Nat /\ granted \subseteq granted' /\ (a.ok => a.mid \in granted')
      /\ granted' \subseteq granted \union {a.mid}
    BY <1>1, <1>2, <1>4, <1>5
<1>9. Len(acks) \in Nat /\ Len(requests) \in Nat /\ 1 \in 1 .. Len(requests)
    BY <1>1, LenProperties, EmptySeq
<1> QED
    BY <1>3, <1>4, <1>5, <1>7, <1>8, <1>9

\* and what on_subscribe takes from there.
LEMMA AckFacts ==
    ASSUME Types, acks # <<>>, acks' = Tail(acks)
    PROVE  /\ acks' \in Seq(AckType)
           /\ Head(acks) = acks[1] /\ 1 \in 1 .. Len(acks) /\ Head(acks).mid \in Nat \ {NoMid}
           /\ Len(acks') = Len(acks) - 1 /\ Len(acks) \in Nat
           /\ \A i \in 1 .. Len(acks') : acks'[i] = acks[i + 1]
<1>1. acks \in Seq(AckType) /\ Len(acks) \in Nat /\ Len(acks) # 0
    BY DEF Types
<1>2. /\ acks' \in Seq(AckType) /\ Len(acks') = Len(acks) - 1 /\ Head(acks) = acks[1]
      /\ Head(acks) \in AckType /\ \A i \in 1 .. Len(acks') : acks'[i] = acks[i + 1]
    BY <1>1, HeadTailProperties
<1> QED
    BY <1>2 DEF AckType

\* The topics with recipients but for some, in the order in which on_connect asks
\* for them.
LEMMA ResubscribedTopics ==
    ASSUME NEW bad
    PROVE  LET S == {t \in Topics \ bad : manifold[t] > 0}
               ts == SetToSeq(S)
           IN  ts \in Seq(Topics) /\ S = {ts[i] : i \in 1 .. Len(ts)}
<1> DEFINE S == {t \in Topics \ bad : manifold[t] > 0}
<1>1. IsFiniteSet(S) /\ S \subseteq Topics
    BY TopicsAssumption, FS_Subset
<1> HIDE DEF S
<1>2. SetToSeq(S) \in Seq(S) /\ {SetToSeq(S)[i] : i \in 1 .. Len(SetToSeq(S))} = S
    BY <1>1, SetToSeqRange
<1>3. SetToSeq(S) \in Seq(Topics)
    BY <1>1, <1>2
<1> QED
    BY <1>2, <1>3 DEF S

(***************************************************************************)
(* The steps, one by one                                                   *)
(***************************************************************************)
\* The broker answers the connect: on_connect is to come.
LEMMA ConnectsStep ==
    ASSUME MqttInv, Connects
    PROVE  MqttInv'
<1>u. UNCHANGED <<connected, suback_mid_waiting, suback_result, manifold, act, sub, loop,
                  requests, acks, next_mid, asked, failed, granted, delivered>>
    BY DEF Connects, field, wires
<1>1. Types'
  <2>1. connects' \in 0 .. MaxConnects
    BY BoundsAssumption DEF MqttInv, Types, Connects
  <2> QED
    BY <1>u, <2>1 DEF MqttInv, Types, Connects
<1>2. LinkOK'
    BY <1>u DEF MqttInv, Connects, LinkOK, Active
<1>3. AskedOK'
    BY DEF MqttInv, Connects, AskedOK
<1>4. CallersOK'
    BY <1>u DEF MqttInv, Connects, CallersOK, Linked
<1>5. AcksOK' /\ WaitOK' /\ ConfirmOK'
    BY <1>u DEF MqttInv, AcksOK, WaitOK, ConfirmOK, ConfirmedOrLost
<1> QED
    BY <1>1, <1>2, <1>3, <1>4, <1>5 DEF MqttInv

\* The connection is lost, and with it what was under way.
LEMMA DropsStep ==
    ASSUME MqttInv, Drops
    PROVE  MqttInv'
<1>u. UNCHANGED <<connected, suback_mid_waiting, suback_result, manifold, act, loop, next_mid,
                  connects, granted, delivered>>
    BY DEF Drops, field
<1>s. /\ sub' \in [Callers -> SubType]
      /\ \A c \in Callers : sub'[c].lost /\ sub'[c].at = sub[c].at /\ sub'[c].mid = sub[c].mid /\ sub'[c].result = sub[c].result
    BY DEF MqttInv, Types, SubType, Drops
<1>1. Types'
    BY <1>u, <1>s DEF MqttInv, Drops, Types
<1>2. LinkOK'
    BY DEF MqttInv, Drops, LinkOK, Active, Linked
<1>3. AskedOK'
    BY DEF MqttInv, Drops, AskedOK
<1>4. CallersOK'
    BY <1>s DEF MqttInv, CallersOK
<1>5. AcksOK'
    BY DEF MqttInv, Drops, AcksOK
<1>6. WaitOK'
    BY <1>u, <1>s DEF MqttInv, WaitOK
<1>7. ConfirmOK'
    BY <1>s DEF MqttInv, ConfirmOK, ConfirmedOrLost
<1> QED
    BY <1>1, <1>2, <1>3, <1>4, <1>5, <1>6, <1>7 DEF MqttInv

\* The broker grants or refuses a subscription and answers.
LEMMA BrokerAnswersStep ==
    ASSUME MqttInv, BrokerAnswers
    PROVE  MqttInv'
<1>u. UNCHANGED <<connected, suback_mid_waiting, suback_result, manifold, act, sub, link, loop,
                  next_mid, asked, failed, connects, delivered>>
    BY DEF BrokerAnswers, field
<1>a. /\ requests' \in Seq(RequestType)
      /\ acks' \in Seq(AckType)
      /\ granted' \subseteq Nat /\ granted \subseteq granted'
      /\ Len(acks') = Len(acks) + 1 /\ \A i \in 1 .. Len(acks) : acks'[i] = acks[i]
      /\ acks'[Len(acks) + 1].ok => acks'[Len(acks) + 1].mid \in granted'
    BY AnswerFacts DEF MqttInv
<1>1. Types'
    BY <1>u, <1>a DEF MqttInv, Types
<1>2. AcksOK'
  <2>1. Len(acks) \in Nat
    BY DEF MqttInv
  <2> SUFFICES ASSUME NEW i \in 1 .. Len(acks'), acks'[i].ok PROVE acks'[i].mid \in granted'
    BY DEF AcksOK
  <2>2. CASE i = Len(acks) + 1
    BY <1>a, <2>2
  <2>3. CASE i \in 1 .. Len(acks)
    BY <1>a, <2>3 DEF MqttInv, AcksOK
  <2> QED
    BY <1>a, <2>1, <2>2, <2>3
<1>3. WaitOK'
    BY <1>u, <1>a DEF MqttInv, WaitOK
<1>4. ConfirmOK'
    BY <1>u, <1>a DEF MqttInv, ConfirmOK, ConfirmedOrLost
<1>5. LinkOK' /\ AskedOK' /\ CallersOK'
    BY <1>u DEF MqttInv, LinkOK, AskedOK, CallersOK, Active, Linked
<1> QED
    BY <1>1, <1>2, <1>3, <1>4, <1>5 DEF MqttInv

\* on_connect: connected is set.
LEMMA OnConnectStep ==
    ASSUME MqttInv, OnConnect
    PROVE  MqttInv'
<1>u. UNCHANGED <<suback_mid_waiting, suback_result, manifold, act, sub, requests, acks,
                  next_mid, asked, failed, connects, granted, delivered>>
    BY DEF OnConnect, wires
<1>1. Types'
    BY <1>u DEF MqttInv, OnConnect, Types
<1>2. LinkOK'
    BY DEF MqttInv, OnConnect, LinkOK, Active
<1>3. AskedOK'
    BY DEF MqttInv, OnConnect, AskedOK
<1>4. CallersOK'
    BY DEF MqttInv, OnConnect, CallersOK, Linked
<1>5. AcksOK' /\ WaitOK' /\ ConfirmOK'
    BY <1>u DEF MqttInv, AcksOK, WaitOK, ConfirmOK, ConfirmedOrLost
<1> QED
    BY <1>1, <1>2, <1>3, <1>4, <1>5 DEF MqttInv

\* on_connect with an error code: connected is reset.
LEMMA OnConnectRefusedStep ==
    ASSUME MqttInv, OnConnectRefused
    PROVE  MqttInv'
<1>u. UNCHANGED <<suback_mid_waiting, suback_result, manifold, act, next_mid, connects, granted,
                  delivered>>
    BY DEF OnConnectRefused
<1>s. /\ sub' \in [Callers -> SubType]
      /\ \A c \in Callers : sub'[c].lost /\ sub'[c].at = sub[c].at /\ sub'[c].mid = sub[c].mid /\ sub'[c].result = sub[c].result
    BY DEF MqttInv, Types, SubType, OnConnectRefused
<1>e. <<>> \in Seq(RequestType) /\ <<>> \in Seq(AckType) /\ Len(<<>>) = 0
    BY EmptySeq
<1>1. Types'
    BY <1>u, <1>s, <1>e DEF MqttInv, OnConnectRefused, Types, SubType
<1>2. LinkOK'
    BY DEF MqttInv, OnConnectRefused, LinkOK, Active
<1>3. AskedOK'
    BY DEF MqttInv, OnConnectRefused, AskedOK
<1>4. CallersOK'
    BY <1>s DEF MqttInv, CallersOK
<1>5. AcksOK'
    BY DEF MqttInv, OnConnectRefused, AcksOK
<1>6. WaitOK'
    BY <1>u, <1>s DEF MqttInv, WaitOK
<1>7. ConfirmOK'
    BY <1>s DEF MqttInv, ConfirmOK, ConfirmedOrLost
<1> QED
    BY <1>1, <1>2, <1>3, <1>4, <1>5, <1>6, <1>7 DEF MqttInv

\* Either way on_connect wakes activate;
LEMMA OnConnectBroadcastsStep ==
    ASSUME MqttInv, OnConnectBroadcasts
    PROVE  MqttInv'
<1>u. UNCHANGED <<connected, suback_mid_waiting, suback_result, manifold, sub, link, requests,
                  acks, next_mid, asked, failed, connects, granted, delivered>>
    BY DEF OnConnectBroadcasts, field, wires
<1>1. Types'
    BY <1>u DEF MqttInv, OnConnectBroadcasts, Types
<1>2. LinkOK'
    BY <1>u DEF MqttInv, OnConnectBroadcasts, LinkOK, Active
<1>3. AskedOK'
    BY DEF MqttInv, OnConnectBroadcasts, AskedOK, LinkOK
<1>4. CallersOK'
    BY <1>u DEF MqttInv, OnConnectBroadcasts, CallersOK, Linked
<1>5. AcksOK' /\ WaitOK' /\ ConfirmOK'
    BY <1>u DEF MqttInv, AcksOK, WaitOK, ConfirmOK, ConfirmedOrLost
<1> QED
    BY <1>1, <1>2, <1>3, <1>4, <1>5 DEF MqttInv

\* without an error it asks the broker for every topic with recipients.
LEMMA OnConnectResubscribesStep ==
    ASSUME MqttInv, OnConnectResubscribes
    PROVE  MqttInv'
<1>u. UNCHANGED <<connected, suback_mid_waiting, suback_result, manifold, act, sub, link, acks,
                  connects, granted, delivered>>
    BY DEF OnConnectResubscribes, field, wires, Ask
<1>a. /\ requests' \in Seq(RequestType) /\ next_mid' \in Nat
      /\ asked' \subseteq Topics /\ failed' \subseteq Topics
      /\ Linked => \A t \in Topics : manifold[t] > 0 => t \in asked' \union failed'
  <2>1. ASSUME Linked, NEW bad \in SUBSET {t \in Topics : manifold[t] > 0}, Refuse(bad),
               Ask(SetToSeq({t \in Topics \ bad : manifold[t] > 0}))
        PROVE  /\ requests' \in Seq(RequestType) /\ next_mid' \in Nat
               /\ asked' \subseteq Topics /\ failed' \subseteq Topics
               /\ \A t \in Topics : manifold[t] > 0 => t \in asked' \union failed'
    <3> DEFINE S == {t \in Topics \ bad : manifold[t] > 0}
               ts == SetToSeq(S)
    <3>1. ts \in Seq(Topics) /\ S = {ts[i] : i \in 1 .. Len(ts)}
      BY ResubscribedTopics
    <3>2. Ask(ts)
      BY <2>1
    <3> HIDE DEF ts
    <3>3. asked' = asked \union S
      BY <3>1, <3>2 DEF Ask
    <3>4. failed' = failed \union bad
      BY <2>1 DEF Refuse
    <3>5. /\ requests' \in Seq(RequestType) /\ next_mid' \in Nat
          /\ asked' \subseteq Topics
      BY <3>1, <3>2, AskTypes DEF MqttInv
    <3>6. failed' \subseteq Topics
      BY <2>1, <3>4 DEF MqttInv, Types
    <3> QED
      BY <3>3, <3>4, <3>5, <3>6
  <2>2. CASE ~Linked /\ UNCHANGED wires
    BY <2>2 DEF MqttInv, Types, wires
  <2> QED
    BY <2>1, <2>2 DEF OnConnectResubscribes
<1>1. Types'
    BY <1>u, <1>a DEF MqttInv, Types, OnConnectResubscribes
<1>2. LinkOK'
    BY <1>u DEF MqttInv, OnConnectResubscribes, LinkOK, Active
<1>3. AskedOK'
    BY <1>u, <1>a DEF AskedOK, Linked
<1>4. CallersOK' /\ AcksOK' /\ WaitOK' /\ ConfirmOK'
    BY <1>u DEF MqttInv, CallersOK, AcksOK, WaitOK, ConfirmOK, Active, Linked, ConfirmedOrLost
<1> QED
    BY <1>1, <1>2, <1>3, <1>4 DEF MqttInv

\* on_subscribe: the result of the identifier that is waited for.
LEMMA OnSubscribeStep ==
    ASSUME MqttInv, OnSubscribe
    PROVE  MqttInv'
<1>u. UNCHANGED <<connected, suback_mid_waiting, manifold, act, link, loop, requests, next_mid,
                  asked, failed, connects, granted>>
    BY DEF OnSubscribe
<1>s. /\ sub' \in [Callers -> SubType]
      /\ \A c \in Callers :
            /\ sub'[c].lost = sub[c].lost /\ sub'[c].mid = sub[c].mid
            /\ sub'[c].result = sub[c].result
            /\ sub'[c].at = sub[c].at \/ (sub[c].at = "asleep" /\ sub'[c].at = "woken")
            /\ sub[c].at # "leave"
  <2>1. \A c \in Callers : sub[c].at # "leave"
    BY DEF OnSubscribe, SubackMutexFree
  <2>2. CASE Broadcast
    BY <2>1, <2>2 DEF MqttInv, Types, SubType, Broadcast
  <2>3. CASE sub' = sub
    BY <2>1, <2>3 DEF MqttInv, Types
  <2> QED
    BY <2>2, <2>3 DEF OnSubscribe
<1>a. /\ acks' \in Seq(AckType)
      /\ Head(acks) = acks[1] /\ 1 \in 1 .. Len(acks) /\ Head(acks).mid \in Nat
      /\ Len(acks') = Len(acks) - 1 /\ Len(acks) \in Nat
      /\ \A i \in 1 .. Len(acks') : acks'[i] = acks[i + 1]
    BY AckFacts DEF MqttInv, OnSubscribe
<1>d. delivered' \subseteq Nat
    BY <1>a DEF MqttInv, Types, OnSubscribe
<1>b. /\ suback_result' \in {-1, 0, 1}
      /\ \/ suback_result' = suback_result
         \/ suback_mid_waiting = Head(acks).mid /\ (suback_result' = 0 => Head(acks).ok)
  <2>1. CASE suback_mid_waiting = Head(acks).mid /\ suback_result' = IF Head(acks).ok THEN 0 ELSE 1
    BY <2>1
  <2>2. CASE suback_result' = suback_result
    BY <2>2 DEF MqttInv, Types
  <2> QED
    BY <2>2 DEF OnSubscribe
<1>1. Types'
    BY <1>u, <1>s, <1>a, <1>b, <1>d DEF MqttInv, Types
<1>2. AskedOK'
    BY <1>u, <1>s DEF MqttInv, AskedOK, Active
<1>3. CallersOK'
    BY <1>u, <1>s DEF MqttInv, CallersOK, Asking, Active, Linked
<1>4. AcksOK'
    BY <1>u, <1>a DEF MqttInv, AcksOK
<1>5. WaitOK'
  <2>1. Head(acks).ok => Head(acks).mid \in granted
    BY <1>a DEF MqttInv, AcksOK
  <2> QED
    BY <1>u, <1>s, <1>b, <2>1 DEF MqttInv, WaitOK
<1>6. ConfirmOK'
    BY <1>u, <1>s DEF MqttInv, ConfirmOK, ConfirmedOrLost
<1>7. LinkOK'
    BY <1>u DEF MqttInv, LinkOK, Active
<1> QED
    BY <1>1, <1>2, <1>3, <1>4, <1>5, <1>6, <1>7 DEF MqttInv

\* on_disconnect: connected is reset.
LEMMA OnDisconnectStep ==
    ASSUME MqttInv, OnDisconnect
    PROVE  MqttInv'
<1>u. UNCHANGED <<suback_mid_waiting, suback_result, manifold, act, sub, loop, requests, acks,
                  next_mid, asked, failed, connects, granted, delivered>>
    BY DEF OnDisconnect, wires
<1>1. Types'
    BY <1>u DEF MqttInv, OnDisconnect, Types, SubType
<1>2. LinkOK'
    BY DEF MqttInv, OnDisconnect, LinkOK
<1>3. AskedOK'
    BY DEF MqttInv, OnDisconnect, AskedOK
<1>4. CallersOK'
    BY DEF MqttInv, OnDisconnect, CallersOK, Linked
<1>5. AcksOK' /\ WaitOK' /\ ConfirmOK'
    BY <1>u DEF MqttInv, AcksOK, WaitOK, ConfirmOK, ConfirmedOrLost
<1> QED
    BY <1>1, <1>2, <1>3, <1>4, <1>5 DEF MqttInv

\* activate starts the network thread;
LEMMA ActivateStep ==
    ASSUME MqttInv, Activate
    PROVE  MqttInv'
<1>u. UNCHANGED <<connected, suback_mid_waiting, suback_result, manifold, sub, link, loop,
                  requests, acks, next_mid, asked, failed, connects, granted, delivered>>
    BY DEF Activate, field, wires
<1>1. Types'
    BY <1>u DEF MqttInv, Activate, Types
<1>2. LinkOK'
    BY <1>u DEF MqttInv, Activate, LinkOK, Active
<1>3. CallersOK'
    BY <1>u DEF MqttInv, Activate, CallersOK
<1>4. AskedOK' /\ AcksOK' /\ WaitOK' /\ ConfirmOK'
    BY <1>u DEF MqttInv, AskedOK, AcksOK, WaitOK, ConfirmOK, LinkOK, ConfirmedOrLost
<1> QED
    BY <1>1, <1>2, <1>3, <1>4 DEF MqttInv

\* it looks at connected,
LEMMA ActivateTestsStep ==
    ASSUME MqttInv, ActivateTests
    PROVE  MqttInv'
<1>u. UNCHANGED <<connected, suback_mid_waiting, suback_result, manifold, sub, link, loop,
                  requests, acks, next_mid, asked, failed, connects, granted, delivered>>
    BY DEF ActivateTests, field, wires
<1>1. Types'
    BY <1>u DEF MqttInv, ActivateTests, Types
<1>2. LinkOK'
    BY <1>u DEF MqttInv, ActivateTests, LinkOK, Active
<1>3. CallersOK'
    BY <1>u DEF MqttInv, ActivateTests, CallersOK, Active, Linked
<1>4. AskedOK' /\ AcksOK' /\ WaitOK' /\ ConfirmOK'
    BY <1>u DEF MqttInv, AskedOK, AcksOK, WaitOK, ConfirmOK, LinkOK, ConfirmedOrLost
<1> QED
    BY <1>1, <1>2, <1>3, <1>4 DEF MqttInv

\* and waits for it,
LEMMA ActivateSleepsStep ==
    ASSUME MqttInv, ActivateSleeps
    PROVE  MqttInv'
<1>u. UNCHANGED <<connected, suback_mid_waiting, suback_result, manifold, sub, link, loop,
                  requests, acks, next_mid, asked, failed, connects, granted, delivered>>
    BY DEF ActivateSleeps, field, wires
<1>1. Types'
    BY <1>u DEF MqttInv, ActivateSleeps, Types
<1>2. LinkOK'
    BY <1>u DEF MqttInv, ActivateSleeps, LinkOK, Active
<1>3. CallersOK'
    BY <1>u DEF MqttInv, ActivateSleeps, CallersOK, Active, Linked
<1>4. AskedOK' /\ AcksOK' /\ WaitOK' /\ ConfirmOK'
    BY <1>u DEF MqttInv, AskedOK, AcksOK, WaitOK, ConfirmOK, LinkOK, ConfirmedOrLost
<1> QED
    BY <1>1, <1>2, <1>3, <1>4 DEF MqttInv

\* until it gives up.
LEMMA ActivateTimesOutStep ==
    ASSUME MqttInv, ActivateTimesOut
    PROVE  MqttInv'
<1>u. UNCHANGED <<connected, suback_mid_waiting, suback_result, manifold, sub, next_mid,
                  connects, granted, delivered>>
    BY DEF ActivateTimesOut, field
<1>1. Types'
    BY <1>u DEF MqttInv, ActivateTimesOut, Types
<1>2. LinkOK'
    BY DEF MqttInv, ActivateTimesOut, LinkOK
<1>3. AskedOK'
    BY DEF MqttInv, ActivateTimesOut, AskedOK
<1>4. CallersOK'
    BY <1>u DEF MqttInv, ActivateTimesOut, CallersOK, Active
<1>5. AcksOK'
    BY DEF MqttInv, ActivateTimesOut, AcksOK
<1>6. WaitOK' /\ ConfirmOK'
    BY <1>u DEF MqttInv, WaitOK, ConfirmOK, ConfirmedOrLost
<1> QED
    BY <1>1, <1>2, <1>3, <1>4, <1>5, <1>6 DEF MqttInv

\* subscribe: the recipient is entered in the manifold,
LEMMA SubscribeRegistersStep ==
    ASSUME MqttInv, NEW c \in Callers, SubscribeRegisters(c)
    PROVE  MqttInv'
<1>u. UNCHANGED <<connected, suback_mid_waiting, suback_result, act, link, loop, requests, acks,
                  next_mid, asked, failed, connects, granted, delivered>>
    BY DEF SubscribeRegisters, field, wires
<1>s. /\ sub' \in [Callers -> SubType] /\ sub'[c].at = "count" /\ sub'[c].lost = ~Linked
      /\ sub'[c].result = "none" /\ sub'[c].mid = NoMid
      /\ \A d \in Callers \ {c} : sub'[d] = sub[d]
  <2> DEFINE k == sub[c].calls + 1
             l == ~Linked
  <2>1. k \in 0 .. MaxCalls /\ l \in BOOLEAN /\ NoMid \in Nat
    BY DEF MqttInv, Types, SubType, SubscribeRegisters, NoMid
  <2>2. sub' = [sub EXCEPT ![c].calls = k, ![c].at = "count", ![c].lost = l, ![c].result = "none", ![c].mid = NoMid]
    BY DEF SubscribeRegisters
  <2> HIDE DEF k, l
  <2>3. /\ sub' \in [Callers -> SubType] /\ sub'[c].at = "count" /\ sub'[c].lost = l
        /\ sub'[c].result = "none" /\ sub'[c].mid = NoMid
        /\ \A d \in Callers \ {c} : sub'[d] = sub[d]
    <3>1. sub \in [Callers -> SubType] /\ "none" \in Results
      BY DEF MqttInv, Types, Results
    <3>2. /\ sub'[c] = [sub[c] EXCEPT !.calls = k, !.at = "count", !.lost = l, !.result = "none", !.mid = NoMid]
          /\ \A d \in Callers \ {c} : sub'[d] = sub[d]
      BY <2>2, <3>1
    <3>3. /\ sub'[c] \in SubType /\ sub'[c].at = "count" /\ sub'[c].lost = l
          /\ sub'[c].result = "none" /\ sub'[c].mid = NoMid
      <4> DEFINE r == sub[c]
                 s == sub'[c]
      <4>1. r \in SubType
        BY <3>1
      <4>2. s = [r EXCEPT !.calls = k, !.at = "count", !.lost = l, !.result = "none", !.mid = NoMid]
        BY <3>2
      <4> HIDE DEF r, s
      <4>3. s = [at |-> "count", mid |-> NoMid, calls |-> k, result |-> "none", lost |-> l]
        BY <4>1, <4>2 DEF SubType
      <4>4. s \in SubType
        BY <2>1, <3>1, <4>3 DEF SubType
      <4> QED
        BY <4>3, <4>4 DEF s
    <3>4. sub' \in [Callers -> SubType]
      BY <2>2, <3>1, <3>3
    <3> QED
      BY <3>2, <3>3, <3>4
  <2> QED
    BY <2>3 DEF l
<1>t. TopicOf[c] \in Topics /\ \A t \in Topics : manifold[t] \in Nat
    BY TopicsAssumption DEF MqttInv, Types
<1>m. /\ manifold' \in [Topics -> Nat] /\ manifold'[TopicOf[c]] = manifold[TopicOf[c]] + 1
      /\ \A t \in Topics \ {TopicOf[c]} : manifold'[t] = manifold[t]
  <2> DEFINE k == manifold[TopicOf[c]] + 1
  <2>1. k \in Nat
    BY <1>t
  <2>2. manifold' = [manifold EXCEPT ![TopicOf[c]] = k]
    BY DEF SubscribeRegisters
  <2> HIDE DEF k
  <2>3. manifold' \in [Topics -> Nat] /\ manifold'[TopicOf[c]] = k /\ \A t \in Topics \ {TopicOf[c]} : manifold'[t] = manifold[t]
    BY <1>t, <2>1, <2>2 DEF MqttInv, Types
  <2> QED
    BY <2>3 DEF k
<1>1. Types'
    BY <1>u, <1>s, <1>m DEF MqttInv, Types
<1>2. AskedOK'
  <2> SUFFICES ASSUME OwnTopics, link = "up", loop = "idle", Active, NEW t \in Topics, manifold'[t] > 0
               PROVE  \/ t \in asked \union failed
                      \/ \E d \in Callers : /\ TopicOf[d] = t
                                            /\ sub'[d].at = "send" \/ (sub'[d].at = "count" /\ manifold'[t] = 1)
    BY <1>u DEF AskedOK, Active
  <2>1. manifold[t] > 0 =>
          \/ t \in asked \union failed
          \/ \E d \in Callers : /\ TopicOf[d] = t
                                /\ sub[d].at = "send" \/ (sub[d].at = "count" /\ manifold[t] = 1)
    BY DEF MqttInv, AskedOK
  <2>2. CASE t # TopicOf[c]
    BY <1>s, <1>m, <2>1, <2>2
  <2>3. CASE t = TopicOf[c] /\ manifold[t] = 0
    BY <1>s, <1>m, <2>3
  <2>4. CASE t = TopicOf[c] /\ manifold[t] > 0
    BY <2>1, <2>4 DEF OwnTopics, SubscribeRegisters
  <2> QED
    BY <1>t, <2>2, <2>3, <2>4
<1>3. CallersOK'
    BY <1>u, <1>s, <1>t, <1>m DEF MqttInv, SubscribeRegisters, CallersOK, Asking, Active,
       Linked, LinkOK
<1>4. WaitOK'
    BY <1>u, <1>s DEF MqttInv, WaitOK
<1>5. ConfirmOK'
    BY <1>u, <1>s DEF MqttInv, ConfirmOK, ConfirmedOrLost
<1>6. LinkOK' /\ AcksOK'
    BY <1>u DEF MqttInv, LinkOK, AcksOK, Active
<1> QED
    BY <1>1, <1>2, <1>3, <1>4, <1>5, <1>6 DEF MqttInv

\* the first of a topic goes on to ask the broker,
LEMMA SubscribeCountsStep ==
    ASSUME MqttInv, NEW c \in Callers, SubscribeCounts(c)
    PROVE  MqttInv'
<1>u. UNCHANGED <<connected, suback_mid_waiting, suback_result, manifold, act, link, loop,
                  requests, acks, next_mid, asked, failed, connects, granted, delivered>>
    BY DEF SubscribeCounts, field, wires
<1>g. sub[c].at = "count"
    BY DEF SubscribeCounts
<1>s. /\ sub' \in [Callers -> SubType] /\ sub'[c].lost = sub[c].lost /\ sub'[c].mid = sub[c].mid
      /\ \/ /\ manifold[TopicOf[c]] = 1 /\ Active /\ connected
            /\ sub'[c].at = "send" /\ sub'[c].result = sub[c].result
         \/ /\ ~(manifold[TopicOf[c]] = 1 /\ Active /\ connected)
            /\ sub'[c].at = "idle" /\ sub'[c].result = "ok"
      /\ \A d \in Callers \ {c} : sub'[d] = sub[d]
  <2>1. CASE manifold[TopicOf[c]] = 1 /\ Active /\ connected
    <3>1. sub' = [sub EXCEPT ![c].at = "send"]
      BY <2>1 DEF SubscribeCounts, Goes
    <3> QED
      BY <2>1, <3>1 DEF MqttInv, Types, SubType
  <2>2. CASE ~(manifold[TopicOf[c]] = 1 /\ Active /\ connected)
    <3>1. sub' = [sub EXCEPT ![c].at = "idle", ![c].result = "ok"]
      BY <2>2 DEF SubscribeCounts, Returns
    <3> QED
      BY <2>2, <3>1 DEF MqttInv, Types, SubType, Results
  <2> QED
    BY <2>1, <2>2
<1>1. Types'
    BY <1>u, <1>s DEF MqttInv, Types
<1>2. AskedOK'
    BY <1>u, <1>g, <1>s DEF MqttInv, AskedOK, LinkOK
<1>3. CallersOK'
    BY <1>u, <1>g, <1>s DEF MqttInv, CallersOK, Asking, Active, Linked, LinkOK
<1>4. WaitOK'
    BY <1>u, <1>s DEF MqttInv, WaitOK
<1>5. ConfirmOK'
    BY <1>u, <1>g, <1>s DEF MqttInv, ConfirmOK, ConfirmedOrLost, CallersOK
<1>6. LinkOK' /\ AcksOK'
    BY <1>u DEF MqttInv, LinkOK, AcksOK, Active
<1> QED
    BY <1>1, <1>2, <1>3, <1>4, <1>5, <1>6 DEF MqttInv

\* with mosquitto_subscribe;
LEMMA SubscribeSendsStep ==
    ASSUME MqttInv, NEW c \in Callers, SubscribeSends(c)
    PROVE  MqttInv'
<1>u. UNCHANGED <<connected, suback_mid_waiting, suback_result, manifold, act, link, loop, acks,
                  connects, granted, delivered>>
    BY DEF SubscribeSends, field, wires, Ask
<1>g. sub[c].at = "send" /\ TopicOf[c] \in Topics
    BY TopicsAssumption DEF SubscribeSends
<1>s. /\ sub' \in [Callers -> SubType] /\ sub'[c].lost = sub[c].lost
      /\ \/ sub'[c].at = "sent" /\ sub'[c].result = sub[c].result
         \/ sub'[c].at = "idle" /\ sub'[c].result = "error"
      /\ requests' \in Seq(RequestType) /\ next_mid' \in Nat
      /\ asked' \subseteq Topics /\ failed' \subseteq Topics
      /\ link = "up" => TopicOf[c] \in asked' \union failed'
      /\ asked \subseteq asked' /\ failed \subseteq failed'
      /\ \A d \in Callers \ {c} : sub'[d] = sub[d]
  <2>1. CASE /\ Linked
             /\ Ask(<<TopicOf[c]>>) /\ UNCHANGED failed
             /\ sub' = [sub EXCEPT ![c].at = "sent", ![c].mid = next_mid']
    <3>1. <<TopicOf[c]>> \in Seq(Topics)
      BY <1>g
    <3>2. /\ requests' \in Seq(RequestType) /\ next_mid' \in Nat
          /\ asked' \subseteq Topics
      BY <2>1, <3>1, AskTypes DEF MqttInv
    <3>3. TopicOf[c] \in asked' /\ asked \subseteq asked'
      BY <2>1 DEF Ask
    <3>4. /\ sub' \in [Callers -> SubType] /\ sub'[c].lost = sub[c].lost
          /\ sub'[c].at = "sent" /\ sub'[c].result = sub[c].result
          /\ \A d \in Callers \ {c} : sub'[d] = sub[d]
      BY <2>1, <3>2 DEF MqttInv, Types, SubType
    <3> QED
      BY <2>1, <3>2, <3>3, <3>4 DEF MqttInv, Types
  <2>2. CASE /\ ~Linked /\ next_mid' = next_mid + 1
             /\ sub' = [sub EXCEPT ![c].at = "sent", ![c].mid = next_mid']
             /\ UNCHANGED <<requests, acks, asked, failed>>
    <3>1. next_mid' \in Nat
      BY <2>2 DEF MqttInv, Types
    <3>2. /\ sub' \in [Callers -> SubType] /\ sub'[c].lost = sub[c].lost
          /\ sub'[c].at = "sent" /\ sub'[c].result = sub[c].result
          /\ \A d \in Callers \ {c} : sub'[d] = sub[d]
      BY <2>2, <3>1 DEF MqttInv, Types, SubType
    <3> QED
      BY <2>2, <3>2 DEF MqttInv, Types, Linked
  <2>3. CASE /\ Returns(c, "error") /\ Refuse(IF Linked THEN {TopicOf[c]} ELSE {})
             /\ UNCHANGED <<requests, acks, next_mid, asked>>
    <3>0. failed' = IF Linked THEN failed \union {TopicOf[c]} ELSE failed
      BY <2>3 DEF Refuse
    <3>1. /\ sub' \in [Callers -> SubType] /\ sub'[c].lost = sub[c].lost
          /\ sub'[c].at = "idle" /\ sub'[c].result = "error"
          /\ \A d \in Callers \ {c} : sub'[d] = sub[d]
      BY <2>3 DEF MqttInv, Types, SubType, Results, Returns
    <3> QED
      BY <1>g, <2>3, <3>0, <3>1 DEF MqttInv, Types, Linked
  <2> QED
    BY <2>1, <2>2, <2>3 DEF SubscribeSends
<1>1. Types'
    BY <1>u, <1>s DEF MqttInv, Types
<1>2. AskedOK'
    BY <1>u, <1>s DEF MqttInv, AskedOK, Active
<1>3. CallersOK'
    BY <1>u, <1>g, <1>s DEF MqttInv, CallersOK, Asking, Active, Linked
<1>4. WaitOK'
    BY <1>u, <1>s DEF MqttInv, WaitOK
<1>5. ConfirmOK'
    BY <1>u, <1>g, <1>s DEF MqttInv, ConfirmOK, ConfirmedOrLost, CallersOK
<1>6. LinkOK' /\ AcksOK'
    BY <1>u DEF MqttInv, LinkOK, AcksOK, Active
<1> QED
    BY <1>1, <1>2, <1>3, <1>4, <1>5, <1>6 DEF MqttInv

\* it says which identifier it waits for and sleeps,
LEMMA SubscribeWaitsStep ==
    ASSUME MqttInv, NEW c \in Callers, SubscribeWaits(c)
    PROVE  MqttInv'
<1>u. UNCHANGED <<connected, manifold, act, link, loop, requests, acks, next_mid, asked, failed,
                  connects, granted, delivered>>
    BY DEF SubscribeWaits, wires
<1>s. /\ sub' \in [Callers -> SubType] /\ sub'[c].lost = sub[c].lost /\ sub'[c].mid = sub[c].mid
      /\ sub'[c].result = sub[c].result /\ sub'[c].at = IF connected THEN "asleep" ELSE "leave"
      /\ \A d \in Callers \ {c} : sub'[d] = sub[d]
    BY DEF MqttInv, Types, SubType, SubscribeWaits, Goes
<1>1. Types'
    BY <1>u, <1>s DEF MqttInv, SubscribeWaits, Types, SubType
<1>2. AskedOK'
    BY <1>u, <1>s DEF MqttInv, SubscribeWaits, AskedOK, LinkOK
<1>3. CallersOK'
    BY <1>s DEF MqttInv, SubscribeWaits, SubackMutexFree, CallersOK, Asking, Active, Linked
<1>4. WaitOK'
  <2>1. suback_mid_waiting' = sub[c].mid /\ suback_result' = -1
    BY DEF SubscribeWaits
  <2> QED
    BY <1>s, <2>1 DEF WaitOK, Alone
<1>5. ConfirmOK'
    BY <1>u, <1>s DEF MqttInv, ConfirmOK, ConfirmedOrLost
<1>6. LinkOK' /\ AcksOK'
    BY <1>u DEF MqttInv, LinkOK, AcksOK, Active
<1> QED
    BY <1>1, <1>2, <1>3, <1>4, <1>5, <1>6 DEF MqttInv

\* wakes up when there is a result,
LEMMA SubscribeResumesStep ==
    ASSUME MqttInv, NEW c \in Callers, SubscribeResumes(c)
    PROVE  MqttInv'
<1>u. UNCHANGED <<connected, suback_mid_waiting, suback_result, manifold, act, link, loop,
                  requests, acks, next_mid, asked, failed, connects, granted, delivered>>
    BY DEF SubscribeResumes, field, wires
<1>s. /\ sub' \in [Callers -> SubType] /\ sub'[c].lost = sub[c].lost /\ sub'[c].mid = sub[c].mid
      /\ sub'[c].result = sub[c].result
      /\ sub'[c].at = IF suback_result = -1 /\ connected THEN "asleep" ELSE "leave"
      /\ \A d \in Callers \ {c} : sub'[d] = sub[d]
    BY DEF MqttInv, Types, SubType, SubscribeResumes, Goes
<1>1. Types'
    BY <1>u, <1>s DEF MqttInv, Types
<1>2. AskedOK'
    BY <1>u, <1>s DEF MqttInv, SubscribeResumes, AskedOK, LinkOK
<1>3. CallersOK'
    BY <1>u, <1>s DEF MqttInv, SubscribeResumes, CallersOK, Asking, Active, Linked
<1>4. WaitOK'
    BY <1>u, <1>s DEF MqttInv, SubscribeResumes, WaitOK
<1>5. ConfirmOK'
    BY <1>u, <1>s DEF MqttInv, ConfirmOK, ConfirmedOrLost
<1>6. LinkOK' /\ AcksOK'
    BY <1>u DEF MqttInv, LinkOK, AcksOK, Active
<1> QED
    BY <1>1, <1>2, <1>3, <1>4, <1>5, <1>6 DEF MqttInv

\* returns it,
LEMMA SubscribeLeavesStep ==
    ASSUME MqttInv, NEW c \in Callers, SubscribeLeaves(c)
    PROVE  MqttInv'
<1>u. UNCHANGED <<connected, suback_result, manifold, act, link, loop, requests, acks, next_mid,
                  asked, failed, connects, granted, delivered>>
    BY DEF SubscribeLeaves, wires
<1>s. /\ sub' \in [Callers -> SubType] /\ sub'[c].lost = sub[c].lost /\ sub'[c].mid = sub[c].mid
      /\ sub'[c].at = "idle" /\ sub'[c].result = Outcome("ok")
      /\ \A d \in Callers \ {c} : sub'[d] = sub[d]
  <2>1. Outcome("ok") \in Results
    BY DEF Outcome, Results
  <2> QED
    BY <2>1 DEF MqttInv, Types, SubType, SubscribeLeaves, Returns
<1>1. Types'
  <2>1. suback_mid_waiting' \in Nat
    BY DEF SubscribeLeaves, NoMid
  <2> QED
    BY <1>u, <1>s, <2>1 DEF MqttInv, Types
<1>2. AskedOK'
    BY <1>u, <1>s DEF MqttInv, SubscribeLeaves, AskedOK, LinkOK
<1>3. CallersOK'
    BY <1>u, <1>s DEF MqttInv, CallersOK, Asking, Active, Linked
<1>4. WaitOK'
    BY <1>s DEF WaitOK, Alone
<1>5. ConfirmOK'
  <2> SUFFICES ASSUME Alone, Outcome("ok") = "ok" PROVE sub[c].mid \in granted \/ sub[c].lost
    BY <1>u, <1>s DEF MqttInv, ConfirmOK, ConfirmedOrLost
  <2>1. suback_result = 0 => sub[c].mid \in granted
    BY DEF MqttInv, WaitOK, SubscribeLeaves
  <2>2. suback_result \in {-1, 0, 1}
    BY DEF MqttInv, Types
  <2> QED
    BY <2>1, <2>2 DEF MqttInv, CallersOK, Outcome, SubscribeLeaves
<1>6. LinkOK' /\ AcksOK'
    BY <1>u DEF MqttInv, LinkOK, AcksOK, Active
<1> QED
    BY <1>1, <1>2, <1>3, <1>4, <1>5, <1>6 DEF MqttInv

\* or reports a timeout.
LEMMA SubscribeTimesOutStep ==
    ASSUME MqttInv, NEW c \in Callers, SubscribeTimesOut(c)
    PROVE  MqttInv'
<1>u. UNCHANGED <<connected, suback_result, manifold, act, link, loop, requests, acks, next_mid,
                  asked, failed, connects, granted, delivered>>
    BY DEF SubscribeTimesOut, wires
<1>s. /\ sub' \in [Callers -> SubType] /\ sub'[c].lost = sub[c].lost /\ sub'[c].mid = sub[c].mid
      /\ sub'[c].at = "idle" /\ sub'[c].result = Outcome("timeout")
      /\ \A d \in Callers \ {c} : sub'[d] = sub[d]
  <2>1. Outcome("timeout") \in Results
    BY DEF Outcome, Results
  <2> QED
    BY <2>1 DEF MqttInv, Types, SubType, SubscribeTimesOut, Returns
<1>1. Types'
  <2>1. suback_mid_waiting' \in Nat
    BY DEF SubscribeTimesOut, NoMid
  <2> QED
    BY <1>u, <1>s, <2>1 DEF MqttInv, Types
<1>2. AskedOK'
    BY <1>u, <1>s DEF MqttInv, SubscribeTimesOut, AskedOK, LinkOK
<1>3. CallersOK'
    BY <1>u, <1>s DEF MqttInv, CallersOK, Asking, Active, Linked
<1>4. WaitOK'
    BY <1>s DEF WaitOK, Alone
<1>5. ConfirmOK'
  <2> SUFFICES ASSUME Alone, Outcome("timeout") = "ok" PROVE sub[c].mid \in granted \/ sub[c].lost
    BY <1>u, <1>s DEF MqttInv, ConfirmOK, ConfirmedOrLost
  <2>1. suback_result = 0 => sub[c].mid \in granted
    BY DEF MqttInv, WaitOK, SubscribeTimesOut
  <2>2. suback_result \in {-1, 0, 1}
    BY DEF MqttInv, Types
  <2> QED
    BY <2>1 DEF MqttInv, Outcome
<1>6. LinkOK' /\ AcksOK'
    BY <1>u DEF MqttInv, LinkOK, AcksOK, Active
<1> QED
    BY <1>1, <1>2, <1>3, <1>4, <1>5, <1>6 DEF MqttInv

\* A portal that was never activated satisfies the invariant,
LEMMA MqttInitially == Init => MqttInv
<1> SUFFICES ASSUME Init PROVE MqttInv
    OBVIOUS
<1>1. Types
  <2>1. /\ <<>> \in Seq(RequestType)
        /\ <<>> \in Seq(AckType)
    BY EmptySeq
  <2>2. 0 \in 0 .. MaxCalls /\ 0 \in 0 .. MaxConnects /\ NoMid \in Nat
    BY BoundsAssumption DEF NoMid
  <2>3. sub \in [Callers -> SubType]
    BY <2>2 DEF Init, SubType, Results
  <2>4. manifold \in [Topics -> Nat]
    BY DEF Init
  <2> QED
    BY <2>1, <2>2, <2>3, <2>4 DEF Init, Types
<1>2. LinkOK /\ AskedOK /\ CallersOK /\ WaitOK /\ ConfirmOK
    BY DEF Init, LinkOK, AskedOK, CallersOK, Asking, WaitOK, ConfirmOK, ConfirmedOrLost
<1>3. AcksOK
    BY DEF Init, AcksOK
<1> QED
    BY <1>1, <1>2, <1>3 DEF MqttInv

\* and every step preserves it.
LEMMA MqttStep == MqttInv /\ [Next]_vars => MqttInv'
<1> SUFFICES ASSUME MqttInv, [Next]_vars PROVE MqttInv'
    OBVIOUS
<1>1. CASE UNCHANGED vars
    BY <1>1 DEF vars, field, wires, MqttInv, Types, LinkOK, AskedOK, CallersOK, AcksOK,
       WaitOK, ConfirmOK, ConfirmedOrLost, Active, Linked
<1>2. CASE NetworkThread
    BY <1>2, ConnectsStep, OnConnectStep, OnConnectRefusedStep, OnConnectBroadcastsStep,
       OnConnectResubscribesStep, OnSubscribeStep, OnDisconnectStep DEF NetworkThread
<1>3. CASE BrokerAnswers \/ Drops
    BY <1>3, BrokerAnswersStep, DropsStep
<1>4. CASE Activate \/ ActivateTests \/ ActivateSleeps \/ ActivateTimesOut
    BY <1>4, ActivateStep, ActivateTestsStep, ActivateSleepsStep, ActivateTimesOutStep
<1>5. ASSUME NEW c \in Callers, SubscribeRegisters(c) \/ Subscribe(c) PROVE MqttInv'
    BY <1>5, SubscribeRegistersStep, SubscribeCountsStep, SubscribeSendsStep,
       SubscribeWaitsStep, SubscribeResumesStep, SubscribeLeavesStep, SubscribeTimesOutStep DEF
       Subscribe
<1> QED
    BY <1>1, <1>2, <1>3, <1>4, <1>5 DEF Next

(***************************************************************************)
(* Identifiers                                                             *)
(***************************************************************************)
\* Identifiers: what a step leaves alone stays known while next_mid only grows,
LEMMA MidsStay ==
    ASSUME Types, Types', MidsKnown, next_mid <= next_mid',
           suback_mid_waiting' <= next_mid', \A c \in Callers : sub'[c].mid <= next_mid',
           \A i \in 1 .. Len(requests') : \/ i \in 1 .. Len(requests) /\ requests'[i] = requests[i]
                                          \/ requests'[i].mid <= next_mid',
           \A i \in 1 .. Len(acks') : \/ i \in 1 .. Len(acks) /\ acks'[i] = acks[i]
                                      \/ acks'[i].mid <= next_mid',
           granted' \subseteq 1 .. next_mid', delivered' \subseteq 1 .. next_mid'
    PROVE  MidsKnown'
<1>1. next_mid \in Nat /\ next_mid' \in Nat
    BY DEF Types
<1>2. ASSUME NEW i \in 1 .. Len(requests') PROVE requests'[i].mid <= next_mid'
  <2>1. i \in 1 .. Len(requests) => requests[i].mid \in Nat
    <3>1. requests \in Seq(RequestType)
      BY DEF Types
    <3>2. i \in 1 .. Len(requests) => requests[i] \in RequestType
      BY <3>1, ElementOfSeq
    <3> QED
      BY <3>2 DEF RequestType
  <2> QED
    BY <1>1, <2>1 DEF MidsKnown
<1>3. ASSUME NEW i \in 1 .. Len(acks') PROVE acks'[i].mid <= next_mid'
  <2>1. i \in 1 .. Len(acks) => acks[i].mid \in Nat
    <3>1. acks \in Seq(AckType)
      BY DEF Types
    <3>2. i \in 1 .. Len(acks) => acks[i] \in AckType
      BY <3>1, ElementOfSeq
    <3> QED
      BY <3>2 DEF AckType
  <2> QED
    BY <1>1, <2>1 DEF MidsKnown
<1> QED
    BY <1>2, <1>3 DEF MidsKnown

\* a caller that moves on keeps its own,
LEMMA MovesKeepMids ==
    ASSUME Types, NEW c \in Callers, NEW x, Goes(c, x) \/ Returns(c, x)
    PROVE  \A d \in Callers : sub'[d].mid = sub[d].mid
<1>1. sub \in [Callers -> SubType]
    BY DEF Types
<1>2. CASE Goes(c, x)
    BY <1>2 DEF Goes
<1>3. CASE Returns(c, x)
    BY <1>1, <1>3 DEF Returns
<1> QED
    BY <1>2, <1>3

\* and every new identifier is known.
LEMMA MidsStep ==
    ASSUME MqttInv, MqttInv', MidsKnown, [Next]_vars
    PROVE  MidsKnown'
<1>t. Types /\ Types' /\ next_mid \in Nat /\ next_mid' \in Nat /\ NoMid <= next_mid
    BY DEF MqttInv, Types, NoMid
<1>l. Len(<<>>) = 0
    BY EmptySeq
<1>m. suback_mid_waiting \in Nat /\ \A c \in Callers : sub[c].mid \in Nat /\ sub'[c].mid \in Nat
    BY <1>t DEF Types, SubType
<1>1. CASE /\ UNCHANGED <<suback_mid_waiting, requests, acks, next_mid, granted, delivered>>
           /\ \A c \in Callers : sub'[c].mid = sub[c].mid
    BY <1>1 DEF MidsKnown
<1>2. CASE /\ UNCHANGED <<suback_mid_waiting, next_mid, granted, delivered>>
           /\ requests' = <<>> /\ acks' = <<>> /\ \A c \in Callers : sub'[c].mid = sub[c].mid
    BY <1>2 DEF MidsKnown
<1>3. CASE BrokerAnswers
  <2>1. UNCHANGED <<suback_mid_waiting, sub, next_mid, delivered>>
    BY <1>3 DEF BrokerAnswers, field
  <2>2. /\ 1 \in 1 .. Len(requests) /\ Len(requests) \in Nat
        /\ requests[1].mid \in Nat \ {NoMid}
        /\ Len(acks) \in Nat /\ Len(acks') = Len(acks) + 1
        /\ \A i \in 1 .. Len(acks) : acks'[i] = acks[i]
        /\ acks'[Len(acks) + 1].mid = requests[1].mid
        /\ granted' \subseteq granted \union {requests[1].mid}
        /\ Len(requests') = Len(requests) - 1
        /\ \A i \in 1 .. Len(requests') : requests'[i] = requests[i + 1]
    BY <1>t, <1>3, AnswerFacts
  <2>3. requests[1].mid \in 1 .. next_mid
    BY <2>2 DEF MidsKnown, NoMid
  <2>4. ASSUME NEW i \in 1 .. Len(acks') PROVE acks'[i].mid <= next_mid'
    <3>1. i \in 1 .. Len(acks) \/ i = Len(acks) + 1
      BY <2>2
    <3> QED
      BY <2>1, <2>2, <3>1 DEF MidsKnown
  <2>5. granted' \subseteq 1 .. next_mid'
    BY <2>1, <2>2, <2>3 DEF MidsKnown
  <2>6. ASSUME NEW i \in 1 .. Len(requests') PROVE requests'[i].mid <= next_mid'
    <3>1. i + 1 \in 1 .. Len(requests)
      BY <2>2
    <3> QED
      BY <2>1, <2>2, <3>1 DEF MidsKnown
  <2> QED
    BY <2>1, <2>4, <2>5, <2>6 DEF MidsKnown
<1>4. CASE OnSubscribe
  <2>1. UNCHANGED <<suback_mid_waiting, requests, next_mid, granted>>
    BY <1>4 DEF OnSubscribe
  <2>2. /\ Head(acks) = acks[1] /\ 1 \in 1 .. Len(acks) /\ Head(acks).mid \in Nat \ {NoMid}
        /\ Len(acks') = Len(acks) - 1 /\ Len(acks) \in Nat
        /\ \A i \in 1 .. Len(acks') : acks'[i] = acks[i + 1]
    BY <1>t, <1>4, AckFacts DEF OnSubscribe
  <2>3. Head(acks).mid \in 1 .. next_mid
    BY <2>2 DEF MidsKnown, NoMid
  <2>4. delivered' \subseteq 1 .. next_mid
    BY <1>4, <2>3 DEF OnSubscribe, MidsKnown
  <2>5. ASSUME NEW i \in 1 .. Len(acks') PROVE acks'[i].mid <= next_mid'
    BY <2>1, <2>2 DEF MidsKnown
  <2>6. \A c \in Callers : sub'[c].mid = sub[c].mid
    <3>1. CASE Broadcast
      BY <3>1 DEF Broadcast
    <3>2. CASE sub' = sub
      BY <3>2
    <3> QED
      BY <1>4, <3>1 DEF OnSubscribe
  <2> QED
    BY <2>1, <2>4, <2>5, <2>6 DEF MidsKnown
<1>5. CASE OnConnectResubscribes
  <2>1. UNCHANGED <<suback_mid_waiting, sub, acks, granted, delivered>>
    BY <1>5 DEF OnConnectResubscribes, Ask, wires, field
  <2>2. ASSUME NEW bad, Ask(SetToSeq({t \in Topics \ bad : manifold[t] > 0}))
        PROVE  MidsKnown'
    <3> DEFINE ts == SetToSeq({t \in Topics \ bad : manifold[t] > 0})
    <3>1. ts \in Seq(Topics)
      BY ResubscribedTopics
    <3>a. Ask(ts)
      BY <2>2
    <3> HIDE DEF ts
    <3>2. /\ next_mid <= next_mid'
          /\ \A i \in 1 .. Len(requests') : \/ i \in 1 .. Len(requests) /\ requests'[i] = requests[i]
                                            \/ requests'[i].mid <= next_mid'
      BY <1>t, <3>1, <3>a, AskTypes
    <3>3. /\ suback_mid_waiting' <= next_mid' /\ \A c \in Callers : sub'[c].mid <= next_mid'
          /\ granted' \subseteq 1 .. next_mid' /\ delivered' \subseteq 1 .. next_mid'
      BY <1>t, <1>m, <2>1, <3>2 DEF MidsKnown
    <3> QED
      BY <1>t, <2>1, <3>2, <3>3, MidsStay
  <2>3. CASE UNCHANGED wires
    BY <2>1, <2>3 DEF wires, MidsKnown
  <2> QED
    BY <1>5, <2>2, <2>3 DEF OnConnectResubscribes
<1>6. ASSUME NEW c \in Callers, SubscribeRegisters(c) \/ Subscribe(c) PROVE MidsKnown'
  <2>1. CASE SubscribeRegisters(c)
    <3>1. UNCHANGED <<suback_mid_waiting, requests, acks, next_mid, granted, delivered>>
      BY <2>1 DEF SubscribeRegisters, field, wires
    <3>2. \A d \in Callers : sub'[d].mid = NoMid \/ sub'[d].mid = sub[d].mid
      BY <1>t, <2>1 DEF SubscribeRegisters, Types
    <3> QED
      BY <1>t, <3>1, <3>2 DEF MidsKnown
  <2>2. CASE SubscribeCounts(c) \/ SubscribeResumes(c)
    <3>1. UNCHANGED <<suback_mid_waiting, requests, acks, next_mid, granted, delivered>>
      BY <2>2 DEF SubscribeCounts, SubscribeResumes, field, wires
    <3>2. \A d \in Callers : sub'[d].mid = sub[d].mid
      BY <1>t, <2>2, MovesKeepMids DEF SubscribeCounts, SubscribeResumes
    <3> QED
      BY <1>1, <3>1, <3>2
  <2>3. CASE SubscribeWaits(c)
    <3>1. UNCHANGED <<requests, acks, next_mid, granted,
                      delivered>> /\ suback_mid_waiting' = sub[c].mid
      BY <2>3 DEF SubscribeWaits, wires
    <3>2. \A d \in Callers : sub'[d].mid = sub[d].mid
      BY <1>t, <2>3, MovesKeepMids DEF SubscribeWaits
    <3> QED
      BY <3>1, <3>2 DEF MidsKnown
  <2>4. CASE SubscribeLeaves(c) \/ SubscribeTimesOut(c)
    <3>1. UNCHANGED <<requests, acks, next_mid, granted,
                      delivered>> /\ suback_mid_waiting' = NoMid
      BY <2>4 DEF SubscribeLeaves, SubscribeTimesOut, wires
    <3>2. \A d \in Callers : sub'[d].mid = sub[d].mid
      BY <1>t, <2>4, MovesKeepMids DEF SubscribeLeaves, SubscribeTimesOut
    <3> QED
      BY <1>t, <3>1, <3>2 DEF MidsKnown
  <2>5. CASE SubscribeSends(c)
    <3>1. UNCHANGED <<suback_mid_waiting, acks, granted, delivered>>
      BY <2>5 DEF SubscribeSends, Ask, wires, field
    <3>2. /\ next_mid <= next_mid'
          /\ \A i \in 1 .. Len(requests') : \/ i \in 1 .. Len(requests) /\ requests'[i] = requests[i]
                                            \/ requests'[i].mid <= next_mid'
      <4>1. CASE Ask(<<TopicOf[c]>>)
        <5>1. <<TopicOf[c]>> \in Seq(Topics)
          BY TopicsAssumption
        <5> QED
          BY <1>t, <4>1, <5>1, AskTypes
      <4>2. CASE requests' = requests /\ (next_mid' = next_mid + 1 \/ next_mid' = next_mid)
        BY <1>t, <4>2
      <4> QED
        BY <2>5, <4>1, <4>2 DEF SubscribeSends, wires
    <3>3. \A d \in Callers : sub'[d].mid = next_mid' \/ sub'[d].mid = sub[d].mid
      <4>1. CASE sub' = [sub EXCEPT ![c].at = "sent", ![c].mid = next_mid']
        BY <1>t, <4>1 DEF Types
      <4>2. CASE Returns(c, "error")
        BY <1>t, <4>2, MovesKeepMids
      <4> QED
        BY <2>5, <4>1, <4>2 DEF SubscribeSends
    <3>4. /\ suback_mid_waiting' <= next_mid' /\ \A d \in Callers : sub'[d].mid <= next_mid'
          /\ granted' \subseteq 1 .. next_mid' /\ delivered' \subseteq 1 .. next_mid'
      BY <1>t, <1>m, <3>1, <3>2, <3>3 DEF MidsKnown
    <3> QED
      BY <1>t, <3>1, <3>2, <3>4, MidsStay
  <2> QED
    BY <1>6, <2>1, <2>2, <2>3, <2>4, <2>5 DEF Subscribe
<1>7. CASE UNCHANGED vars \/ Connects \/ OnConnect \/ OnConnectBroadcasts \/ OnDisconnect \/ Activate
           \/ ActivateTests \/ ActivateSleeps
    BY <1>1, <1>7 DEF vars, field, wires, Connects, OnConnect, OnConnectBroadcasts,
       OnDisconnect, Activate, ActivateTests, ActivateSleeps
<1>8. CASE Drops \/ OnConnectRefused \/ ActivateTimesOut
  <2>1. \A c \in Callers : sub'[c].mid = sub[c].mid
    BY <1>t, <1>8 DEF Drops, OnConnectRefused, ActivateTimesOut, Types, SubType
  <2> QED
    BY <1>2, <1>8, <2>1 DEF Drops, OnConnectRefused, ActivateTimesOut, field
<1> QED
    BY <1>3, <1>4, <1>5, <1>6, <1>7, <1>8 DEF Next, NetworkThread

(***************************************************************************)
(* The theorems                                                            *)
(***************************************************************************)
\* The invariant holds in every reachable state.
THEOREM MqttCorrect == Spec => []MqttInv
<1>1. MqttInv /\ [Next]_vars => MqttInv'
    BY MqttStep
<1> QED
    BY <1>1, MqttInitially, PTL DEF Spec

\* Type correctness, and no identifier that mosquitto_subscribe did not give out.
THEOREM MqttTypeOK == Spec => []TypeOK
<1>1. Init => MidsKnown
    BY DEF Init, MidsKnown, NoMid
<1>2. MqttInv /\ MqttInv' /\ MidsKnown /\ [Next]_vars => MidsKnown'
    BY MidsStep
<1>3. MqttInv /\ MidsKnown => TypeOK
    BY DEF MqttInv, TypeOK
<1> QED
    BY <1>1, <1>2, <1>3, MqttCorrect, PTL DEF Spec

\* Callers that share no topic: whatever the order of subscribe, connection,
\* loss and reconnection, on_connect and subscribe between them leave out no topic
\* that has recipients: each was asked for on the connection, or
\* mosquitto_subscribe reported an error for it.
THEOREM BrokerAskedHolds ==
    ASSUME OwnTopics
    PROVE  Spec => []BrokerAsked
<1>1. MqttInv => BrokerAsked
    BY DEF MqttInv, AskedOK, BrokerAsked
<1> QED
    BY <1>1, MqttCorrect, PTL

\* One caller: a subscribe that reports success was granted its subscription,
\* or lost its connection on the way.
THEOREM ConfirmedOrLostHolds ==
    ASSUME Alone
    PROVE  Spec => []ConfirmedOrLost
<1>1. MqttInv => ConfirmedOrLost
    BY DEF MqttInv, ConfirmOK
<1> QED
    BY <1>1, MqttCorrect, PTL
===============================================================================
