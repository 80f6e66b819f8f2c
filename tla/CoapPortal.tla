------------------------------ MODULE CoapPortal ------------------------------
(***************************************************************************)
(* The CoAP portal of dtnetportal_coap*.c: publishers put their messages   *)
(* on a buffer queue and write a byte to a pipe; one I/O loop waits in     *)
(* select() for the pipe or the network, serves what arrived and sends all *)
(* that is queued.                                                         *)
(*                                                                         *)
(* The queue is the one of module BufferQueue, used here by what it is     *)
(* shown to implement, the bounded channel of BoundedFifo: a put waits for *)
(* room and appends, a get without waiting takes the head or reports that  *)
(* there is none.  A message is the publisher's name and a number.         *)
(***************************************************************************)
EXTENDS Integers, Sequences

CONSTANTS Publishers,    \* threads that call dtnetportal_coap_publish
          Cap,           \* slots of the queue; 10 in the code
          PipeCap,       \* bytes the pipe holds
          MaxPublishes,  \* bounds of model checking: calls of publish,
          MaxRequests    \*   and requests of the peers

ASSUME SizesAssumption == {Cap, PipeCap} \subseteq Nat \ {0} /\ {MaxPublishes, MaxRequests} \subseteq Nat
ASSUME PublishersAssumption == "io" \notin Publishers

VARIABLES
    queue, pipe, ioloop_should_stop,   \* bufferqueue, bytes in wake_pipe, the field
    io,            \* where the I/O loop is
    wakes, coming, \* what its last select() reported: the pipe, the network
    hand,          \* the message publish_all has taken, as a sequence
    pub, published,    \* where each publisher is, and how many publishes were begun
    life,          \* where dtnetportal_coap_dispose is
    waiting, arrived, \* requests waiting in the socket, and all there were
    accepted, sent     \* history: messages put on the queue, messages sent
coap_vars == <<queue, pipe, ioloop_should_stop, io, wakes, coming, hand, pub, published, life,
          waiting, arrived, accepted, sent>>

Senders == Publishers \union {"io"}
Messages == Senders \X Nat

CoapTypeOK ==
    /\ queue \in Seq(Messages) /\ Len(queue) <= Cap
    /\ pipe \in 0 .. PipeCap /\ ioloop_should_stop \in BOOLEAN
    /\ io \in {"none", "loop", "select", "woken", "process", "answer", "wake", "publish", "send", "stopped", "failed"}
    /\ wakes \in BOOLEAN /\ coming \in BOOLEAN
    /\ hand \in Seq(Messages) /\ Len(hand) <= 1
    /\ pub \in [Publishers -> {"idle", "put", "wake"}] /\ published \in 0 .. MaxPublishes
    /\ life \in {"up", "wake", "sleep", "freed"}
    /\ arrived \in 0 .. MaxRequests /\ waiting \in 0 .. arrived
    /\ accepted \in Seq(Messages) /\ sent \in Seq(Messages)

\* dtnetportal_coap_init and dtnetportal_coap_configure.
CoapInit ==
    /\ queue = <<>> /\ pipe = 0 /\ ioloop_should_stop = FALSE
    /\ io = "none" /\ wakes = FALSE /\ coming = FALSE /\ hand = <<>>
    /\ pub = [p \in Publishers |-> "idle"] /\ published = 0
    /\ life = "up" /\ waiting = 0 /\ arrived = 0
    /\ accepted = <<>> /\ sent = <<>>

\* dtnetportal_coap_activate: context, session, endpoint, resource and pipe,
\* then the task.  When one of them fails nothing is undone.
CoapActivate ==
    /\ io = "none" /\ life = "up"
    /\ io' \in {"loop", "failed"}
    /\ UNCHANGED <<queue, pipe, ioloop_should_stop, wakes, coming, hand, pub, published, life, waiting, arrived,
                   accepted, sent>>

\* A request reaches the socket.
RequestArrives ==
    /\ arrived < MaxRequests
    /\ arrived' = arrived + 1 /\ waiting' = waiting + 1
    /\ UNCHANGED <<queue, pipe, ioloop_should_stop, io, wakes, coming, hand, pub, published, life, accepted, sent>>

(***************************************************************************)
(* dtnetportal_coap_publish                                                *)
(***************************************************************************)

\* The write end of the pipe is not blocking: a full pipe takes no byte.
PipeByte == pipe' = IF pipe < PipeCap THEN pipe + 1 ELSE pipe

\* dtbufferqueue_put without a limit of time.
Put(message) ==
    /\ Len(queue) < Cap
    /\ queue' = Append(queue, message)
    /\ accepted' = Append(accepted, message)

\* A copy of topic and data is made; publishing begins after activate.
PublishCall(p) ==
    /\ pub[p] = "idle" /\ published < MaxPublishes /\ io # "none" /\ life = "up"
    /\ published' = published + 1
    /\ pub' = [pub EXCEPT ![p] = "put"]
    /\ UNCHANGED <<queue, pipe, ioloop_should_stop, io, wakes, coming, hand, life, waiting, arrived, accepted, sent>>

PublishPut(p) ==
    /\ pub[p] = "put"
    /\ Put(<<p, Len(accepted) + 1>>)
    /\ pub' = [pub EXCEPT ![p] = "wake"]
    /\ UNCHANGED <<pipe, ioloop_should_stop, io, wakes, coming, hand, published, life, waiting, arrived, sent>>

\* Mutant: nothing wakes the loop for a message that is not the first.
Mutant_WakeForFirst(p) ==
    /\ pub[p] = "wake"
    /\ IF Len(queue) = 1 THEN PipeByte ELSE UNCHANGED pipe
    /\ pub' = [pub EXCEPT ![p] = "idle"]
    /\ UNCHANGED <<queue, ioloop_should_stop, io, wakes, coming, hand, published, life, waiting, arrived, accepted, sent>>

PublishWakes(p) ==
    /\ pub[p] = "wake"
    /\ PipeByte
    /\ pub' = [pub EXCEPT ![p] = "idle"]
    /\ UNCHANGED <<queue, ioloop_should_stop, io, wakes, coming, hand, published, life, waiting, arrived, accepted, sent>>

(***************************************************************************)
(* The I/O loop                                                            *)
(***************************************************************************)

\* What the loop does after the portal was freed is undefined and not followed.
IoAt(place) == io = place /\ life # "freed"

IoTest ==
    /\ IoAt("loop")
    /\ io' = IF ioloop_should_stop THEN "stopped" ELSE "select"
    /\ UNCHANGED <<queue, pipe, ioloop_should_stop, wakes, coming, hand, pub, published, life, waiting, arrived,
                   accepted, sent>>

\* select() returns when the pipe or the socket can be read.
IoSelect ==
    /\ IoAt("select") /\ (pipe > 0 \/ waiting > 0)
    /\ wakes' = (pipe > 0) /\ coming' = (waiting > 0)
    /\ io' = IF ioloop_should_stop THEN "stopped" ELSE "woken"
    /\ UNCHANGED <<queue, pipe, ioloop_should_stop, hand, pub, published, life, waiting, arrived, accepted, sent>>

\* Any error of select() but EAGAIN ends the loop, an interrupted call too.
IoSelectFails ==
    /\ IoAt("select")
    /\ io' = "failed"
    /\ UNCHANGED <<queue, pipe, ioloop_should_stop, wakes, coming, hand, pub, published, life, waiting, arrived,
                   accepted, sent>>

IoDrain ==
    /\ IoAt("woken")
    /\ pipe' = IF wakes THEN 0 ELSE pipe
    /\ io' = IF coming THEN "process" ELSE "publish"
    /\ UNCHANGED <<queue, ioloop_should_stop, wakes, coming, hand, pub, published, life, waiting, arrived,
                   accepted, sent>>

\* coap_io_process serves the requests that wait, each through
\* dtnetportal_coap__on_post_topic and the manifold's receive callbacks, which
\* may publish an answer.
IoProcess ==
    /\ IoAt("process")
    /\ \/ waiting = 0 /\ io' = "publish" /\ UNCHANGED waiting
       \/ waiting > 0 /\ waiting' = waiting - 1 /\ io' \in {"answer", "process"}
    /\ UNCHANGED <<queue, pipe, ioloop_should_stop, wakes, coming, hand, pub, published, life, arrived, accepted, sent>>

IoProcessFails ==
    /\ IoAt("process")
    /\ io' = "failed"
    /\ UNCHANGED <<queue, pipe, ioloop_should_stop, wakes, coming, hand, pub, published, life, waiting, arrived,
                   accepted, sent>>

\* A callback that publishes does so in the loop's own thread.
IoAnswerPut ==
    /\ IoAt("answer")
    /\ Put(<<"io", Len(accepted) + 1>>)
    /\ io' = "wake"
    /\ UNCHANGED <<pipe, ioloop_should_stop, wakes, coming, hand, pub, published, life, waiting, arrived, sent>>

IoAnswerWakes ==
    /\ IoAt("wake")
    /\ PipeByte
    /\ io' = "process"
    /\ UNCHANGED <<queue, ioloop_should_stop, wakes, coming, hand, pub, published, life, waiting, arrived, accepted, sent>>

\* Mutant: one message per turn of the loop.
Mutant_GetOne ==
    /\ IoAt("publish")
    /\ \/ queue = <<>> /\ io' = "loop" /\ UNCHANGED <<queue, sent>>
       \/ queue # <<>> /\ io' = "loop" /\ sent' = Append(sent, Head(queue)) /\ queue' = Tail(queue)
    /\ UNCHANGED <<pipe, hand, ioloop_should_stop, wakes, coming, pub, published, life, waiting, arrived, accepted>>

\* dtnetportal_coap__ioloop_publish_all: get without waiting, until there is
\* nothing.
IoGet ==
    /\ IoAt("publish")
    /\ \/ queue = <<>> /\ io' = "loop" /\ UNCHANGED <<queue, hand>>
       \/ queue # <<>> /\ io' = "send" /\ hand' = <<Head(queue)>> /\ queue' = Tail(queue)
    /\ UNCHANGED <<pipe, ioloop_should_stop, wakes, coming, pub, published, life, waiting, arrived, accepted, sent>>

IoSend ==
    /\ IoAt("send")
    /\ sent' = sent \o hand /\ hand' = <<>>
    /\ io' = "publish"
    /\ UNCHANGED <<queue, pipe, ioloop_should_stop, wakes, coming, pub, published, life, waiting, arrived, accepted>>

\* Mutant: the message that could not be sent is skipped.
Mutant_SendSkips ==
    /\ IoAt("send")
    /\ io' = "publish" /\ hand' = <<>>
    /\ UNCHANGED <<queue, pipe, ioloop_should_stop, wakes, coming, pub, published, life, waiting, arrived,
                   accepted, sent>>

\* A message that cannot be taken apart or sent ends the loop.
IoSendFails ==
    /\ IoAt("send")
    /\ io' = "failed"
    /\ UNCHANGED <<queue, pipe, ioloop_should_stop, wakes, coming, hand, pub, published, life, waiting, arrived,
                   accepted, sent>>

IoRuns ==
    \/ IoTest \/ IoSelect \/ IoDrain \/ IoProcess
    \/ IoAnswerPut \/ IoAnswerWakes \/ IoGet \/ IoSend

Io == IoRuns \/ IoSelectFails \/ IoProcessFails \/ IoSendFails

(***************************************************************************)
(* dtnetportal_coap_dispose, once no publisher is inside publish           *)
(***************************************************************************)
DisposeStops ==
    /\ life = "up" /\ io # "none"
    /\ \A p \in Publishers : pub[p] = "idle"
    /\ ioloop_should_stop' = TRUE
    /\ life' = "wake"
    /\ UNCHANGED <<queue, pipe, io, wakes, coming, hand, pub, published, waiting, arrived, accepted, sent>>

\* Mutant: the loop is not woken.
Mutant_DisposeSilently ==
    /\ life = "wake"
    /\ life' = "sleep"
    /\ UNCHANGED <<queue, pipe, ioloop_should_stop, io, wakes, coming, hand, pub, published, waiting, arrived,
                   accepted, sent>>

DisposeWakes ==
    /\ life = "wake"
    /\ PipeByte
    /\ life' = "sleep"
    /\ UNCHANGED <<queue, ioloop_should_stop, io, wakes, coming, hand, pub, published, waiting, arrived, accepted, sent>>

\* One millisecond later the pipe is closed, and the tasker, the queue and the
\* portal are freed.  How far the loop has come meanwhile is not looked at.
DisposeCloses ==
    /\ life = "sleep"
    /\ life' = "freed"
    /\ UNCHANGED <<queue, pipe, ioloop_should_stop, io, wakes, coming, hand, pub, published, waiting, arrived,
                   accepted, sent>>

Dispose == DisposeStops \/ DisposeWakes \/ DisposeCloses

CoapNext ==
    \/ CoapActivate \/ RequestArrives \/ Io \/ Dispose
    \/ \E p \in Publishers : PublishCall(p) \/ PublishPut(p) \/ PublishWakes(p)

CoapSpec == CoapInit /\ [][CoapNext]_coap_vars

\* Threads that can run do run.  Only finitely many puts compete for the room
\* a get makes, so a waiting put needs no stronger assumption.
CoapFairSpec ==
    /\ CoapSpec
    /\ WF_coap_vars(IoRuns) /\ WF_coap_vars(DisposeWakes)
    /\ \A p \in Publishers : WF_coap_vars(PublishPut(p)) /\ WF_coap_vars(PublishWakes(p))

(***************************************************************************)
(* Properties                                                              *)
(***************************************************************************)

\* The loop does not sleep in select() beside a message that nobody is going
\* to announce: it drains the pipe before it empties the queue, so a byte
\* written in between, or not written because the pipe was full, is not lost.
NoMissedWake ==
    (io = "select" /\ pipe = 0 /\ queue # <<>>) => \E p \in Publishers : pub[p] = "wake"

\* What publishers were told is published goes out in that order and without a
\* gap; a failure stops the stream, it does not skip a message.
NothingSkipped == sent \o hand \o queue = accepted

\* The loop has ended; and the two ways in which it never will: it was freed in
\* the middle of its work, or a receive callback that publishes found the queue
\* full that only the loop itself empties.
Ended == io \in {"stopped", "failed"}
Stuck == life = "freed" \/ (io = "answer" /\ Len(queue) = Cap)

\* Every message accepted is sent, as long as the loop lives.
EventuallySent ==
    \A i \in 1 .. MaxPublishes + MaxRequests :
        (Len(accepted) >= i) ~> (Len(sent) >= i \/ Ended \/ Stuck)

\* Asked to stop, the loop ends, also when it sleeps in select().
StopEnds == ioloop_should_stop ~> (Ended \/ Stuck)
=============================================================================
