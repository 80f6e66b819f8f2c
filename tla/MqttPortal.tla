------------------------------ MODULE MqttPortal ------------------------------
(***************************************************************************)
(* The MQTT portal of dtnetportal_mosquitto.c.  Application threads call   *)
(* activate and subscribe; libmosquitto's network thread runs the          *)
(* callbacks on_connect, on_disconnect and on_subscribe.  Of the fields    *)
(* they share only suback_mid_waiting and suback_result are used under a   *)
(* mutex; connected is written and read without one, and on_connect        *)
(* unlocks conn_mutex without having locked it, so it does not exclude a   *)
(* thread that is about to wait on conn_cv.                                *)
(*                                                                         *)
(* libmosquitto, the broker and dtmanifold are external: the manifold is a *)
(* count of recipients per topic, the broker answers requests in order and *)
(* forgets a client's subscriptions with its connection (a clean session). *)
(***************************************************************************)
EXTENDS Integers, Sequences, FiniteSets, SequencesExt

CONSTANTS Callers, Topics,  \* threads that subscribe, and what they subscribe to
          TopicOf,          \* each caller's topic
          MaxCalls,         \* bounds of model checking: calls of each caller,
          MaxConnects       \*   and connections made

ASSUME TopicsAssumption == IsFiniteSet(Topics) /\ TopicOf \in [Callers -> Topics]
ASSUME BoundsAssumption == MaxCalls \in Nat /\ MaxConnects \in Nat

NoMid == 0                  \* -1 in the code; message identifiers are positive

VARIABLES
    connected, suback_mid_waiting, suback_result,   \* dtnetportal_mosquitto_t
    manifold,       \* recipients of each topic
    act,            \* where dtnetportal_mosquitto_activate is
    sub,            \* where each subscribe is: place, mid, calls, result, and whether the
                    \*   connection was down when it began or was lost since
    link,           \* the connection: "down", "connack" (made, on_connect to come), "up", "lost"
    loop,           \* where the network thread is inside on_connect
    requests, acks, \* SUBSCRIBE and SUBACK packets under way
    next_mid, connects,
    asked, failed,  \* history: topics asked for on this connection, and topics for which
                    \*   mosquitto_subscribe reported an error on it,
    granted, delivered  \*   identifiers the broker granted, and on_subscribe was called with
field == <<connected, suback_mid_waiting, suback_result>>
wires == <<requests, acks, next_mid, asked, failed>>
vars == <<field, manifold, act, sub, link, loop, wires, connects, granted, delivered>>

Results == {"none", "ok", "error", "timeout", "refused", "notconn"}

SubType == [at : {"idle", "count", "send", "sent", "asleep", "woken", "leave"},
            mid : Nat, calls : 0 .. MaxCalls, result : Results, lost : BOOLEAN]
RequestType == [mid : Nat \ {NoMid}, topic : Topics]
AckType == [mid : Nat \ {NoMid}, ok : BOOLEAN]

Types ==
    /\ connected \in BOOLEAN /\ suback_mid_waiting \in Nat /\ suback_result \in {-1, 0, 1}
    /\ manifold \in [Topics -> Nat]
    /\ act \in {"none", "test", "enter", "asleep", "woken", "ok", "timeout"}
    /\ sub \in [Callers -> SubType]
    /\ link \in {"down", "connack", "up", "lost"}
    /\ loop \in {"idle", "broadcast", "refused", "resubscribe"}
    /\ requests \in Seq(RequestType) /\ acks \in Seq(AckType)
    /\ next_mid \in Nat /\ connects \in 0 .. MaxConnects
    /\ asked \subseteq Topics /\ failed \subseteq Topics
    /\ granted \subseteq Nat /\ delivered \subseteq Nat

\* Every identifier comes from mosquitto_subscribe.
MidsKnown ==
    /\ suback_mid_waiting <= next_mid /\ \A c \in Callers : sub[c].mid <= next_mid
    /\ \A i \in 1 .. Len(requests) : requests[i].mid <= next_mid
    /\ \A i \in 1 .. Len(acks) : acks[i].mid <= next_mid
    /\ granted \subseteq 1 .. next_mid /\ delivered \subseteq 1 .. next_mid

TypeOK == Types /\ MidsKnown

\* dtnetportal_mosquitto_init.
Init ==
    /\ connected = FALSE /\ suback_mid_waiting = NoMid /\ suback_result = -1
    /\ manifold = [t \in Topics |-> 0]
    /\ act = "none"
    /\ sub = [c \in Callers |-> [at |-> "idle", mid |-> NoMid, calls |-> 0, result |-> "none", lost |-> FALSE]]
    /\ link = "down" /\ loop = "idle"
    /\ requests = <<>> /\ acks = <<>> /\ next_mid = 0 /\ connects = 0
    /\ asked = {} /\ failed = {} /\ granted = {} /\ delivered = {}

\* mqt is not NULL.
Active == act \notin {"none", "timeout"}

(***************************************************************************)
(* libmosquitto and the broker                                             *)
(***************************************************************************)
Linked == link \in {"connack", "up"}

\* mosquitto_subscribe for a sequence of topics, on a connection that stands,
Ask(ts) ==
    /\ requests' = requests \o [i \in 1 .. Len(ts) |-> [mid |-> next_mid + i, topic |-> ts[i]]]
    /\ next_mid' = next_mid + Len(ts)
    /\ asked' = asked \union {ts[i] : i \in 1 .. Len(ts)}
    /\ UNCHANGED acks

\* and with an error, which it may report of any topic and on a connection that
\* stands too: no memory, a topic that is not valid.
Refuse(ts) == failed' = failed \union ts

\* The network thread connects, and connects again after a loss.
Connects ==
    /\ Active /\ link = "down" /\ loop = "idle" /\ connects < MaxConnects
    /\ link' = "connack" /\ connects' = connects + 1
    /\ UNCHANGED <<field, manifold, act, sub, loop, wires, granted, delivered>>

Drops ==
    /\ Linked
    /\ link' = "lost"
    /\ requests' = <<>> /\ acks' = <<>> /\ asked' = {} /\ failed' = {}
    /\ sub' = [c \in Callers |-> [sub[c] EXCEPT !.lost = TRUE]]
    /\ UNCHANGED <<field, manifold, act, loop, next_mid, connects, granted, delivered>>

BrokerAnswers ==
    /\ Linked /\ requests # <<>>
    /\ \E ok \in BOOLEAN :
          /\ acks' = Append(acks, [mid |-> Head(requests).mid, ok |-> ok])
          /\ granted' = IF ok THEN granted \union {Head(requests).mid} ELSE granted
    /\ requests' = Tail(requests)
    /\ UNCHANGED <<field, manifold, act, sub, link, loop, next_mid, asked, failed, connects, delivered>>

(***************************************************************************)
(* The callbacks                                                           *)
(***************************************************************************)
\* The connection is accepted: rc is 0.
OnConnect ==
    /\ Active /\ link = "connack" /\ loop = "idle"
    /\ connected' = TRUE
    /\ link' = "up" /\ loop' = "broadcast"
    /\ UNCHANGED <<suback_mid_waiting, suback_result, manifold, act, sub, wires, connects, granted, delivered>>

\* The broker refuses the connection: rc is not 0.
OnConnectRefused ==
    /\ Active /\ link = "connack" /\ loop = "idle"
    /\ connected' = FALSE
    /\ link' = "lost" /\ loop' = "refused"
    /\ requests' = <<>> /\ acks' = <<>> /\ asked' = {} /\ failed' = {}
    /\ sub' = [c \in Callers |-> [sub[c] EXCEPT !.lost = TRUE]]
    /\ UNCHANGED <<suback_mid_waiting, suback_result, manifold, act, next_mid, connects, granted, delivered>>

\* pthread_cond_broadcast(&conn_cv), without the mutex.
OnConnectBroadcasts ==
    /\ Active /\ loop \in {"broadcast", "refused"}
    /\ act' = IF act = "asleep" THEN "woken" ELSE act
    /\ loop' = IF loop = "broadcast" THEN "resubscribe" ELSE "idle"
    /\ UNCHANGED <<field, manifold, sub, link, wires, connects, granted, delivered>>

\* Mutant: on_connect does not resubscribe.
Mutant_NoResubscription ==
    /\ Active /\ loop = "resubscribe"
    /\ UNCHANGED wires
    /\ loop' = "idle"
    /\ UNCHANGED <<field, manifold, act, sub, link, connects, granted, delivered>>

\* dtmanifold_foreach_topic with resubscribe_iter: every topic with recipients.
\* An error is logged, and the next topic follows.
OnConnectResubscribes ==
    /\ Active /\ loop = "resubscribe"
    /\ \/ Linked /\ \E bad \in SUBSET {t \in Topics : manifold[t] > 0} :
                       Ask(SetToSeq({t \in Topics \ bad : manifold[t] > 0})) /\ Refuse(bad)
       \/ ~Linked /\ UNCHANGED wires
    /\ loop' = "idle"
    /\ UNCHANGED <<field, manifold, act, sub, link, connects, granted, delivered>>

\* suback_mutex is free: only wait_for_suback, on its way out, is followed in
\* more than one step with the mutex held.
SubackMutexFree == \A c \in Callers : sub[c].at # "leave"

\* pthread_cond_broadcast(&suback_cv).
Broadcast == sub' = [c \in Callers |-> IF sub[c].at = "asleep" THEN [sub[c] EXCEPT !.at = "woken"] ELSE sub[c]]

\* Mutant: any SUBACK is taken for the one that is waited for.
Mutant_AnySuback ==
    /\ Active /\ Linked /\ loop = "idle" /\ acks # <<>> /\ SubackMutexFree
    /\ suback_result' = IF Head(acks).ok THEN 0 ELSE 1
    /\ Broadcast
    /\ acks' = Tail(acks) /\ delivered' = delivered \union {Head(acks).mid}
    /\ UNCHANGED <<connected, suback_mid_waiting, manifold, act, link, loop, requests, next_mid, asked, failed, connects, granted>>

OnSubscribe ==
    /\ Active /\ Linked /\ loop = "idle" /\ acks # <<>> /\ SubackMutexFree
    /\ \/ /\ suback_mid_waiting = Head(acks).mid
          /\ suback_result' = IF Head(acks).ok THEN 0 ELSE 1
          /\ Broadcast
       \/ /\ suback_mid_waiting # Head(acks).mid
          /\ UNCHANGED <<suback_result, sub>>
    /\ acks' = Tail(acks) /\ delivered' = delivered \union {Head(acks).mid}
    /\ UNCHANGED <<connected, suback_mid_waiting, manifold, act, link, loop, requests, next_mid, asked, failed, connects, granted>>

\* Nobody is woken.
OnDisconnect ==
    /\ Active /\ link = "lost" /\ loop = "idle"
    /\ connected' = FALSE /\ link' = "down"
    /\ UNCHANGED <<suback_mid_waiting, suback_result, manifold, act, sub, loop, wires, connects, granted, delivered>>

NetworkThread ==
    \/ Connects \/ OnConnect \/ OnConnectRefused \/ OnConnectBroadcasts \/ OnConnectResubscribes
    \/ OnSubscribe \/ OnDisconnect

(***************************************************************************)
(* dtnetportal_mosquitto_activate and wait_for_connected                   *)
(***************************************************************************)
Activate ==
    /\ act = "none"
    /\ act' = "test"
    /\ UNCHANGED <<field, manifold, sub, link, loop, wires, connects, granted, delivered>>

\* The loop's condition.  The mutex is held, but on_connect does not take it.
ActivateTests ==
    /\ act \in {"test", "woken"}
    /\ act' = IF connected THEN "ok" ELSE "enter"
    /\ UNCHANGED <<field, manifold, sub, link, loop, wires, connects, granted, delivered>>

ActivateSleeps ==
    /\ act = "enter"
    /\ act' = "asleep"
    /\ UNCHANGED <<field, manifold, sub, link, loop, wires, connects, granted, delivered>>

\* ETIMEDOUT: the client is destroyed, and with it the connection.
ActivateTimesOut ==
    /\ act = "asleep"
    /\ act' = "timeout"
    /\ link' = "down" /\ loop' = "idle"
    /\ requests' = <<>> /\ acks' = <<>> /\ asked' = {} /\ failed' = {}
    /\ UNCHANGED <<field, manifold, sub, next_mid, connects, granted, delivered>>

(***************************************************************************)
(* dtnetportal_mosquitto_subscribe and wait_for_suback                     *)
(***************************************************************************)
Goes(c, place) == sub' = [sub EXCEPT ![c].at = place]
Returns(c, result) == sub' = [sub EXCEPT ![c].at = "idle", ![c].result = result]

SubscribeRegisters(c) ==
    /\ sub[c].at = "idle" /\ sub[c].calls < MaxCalls
    /\ manifold' = [manifold EXCEPT ![TopicOf[c]] = @ + 1]
    /\ sub' = [sub EXCEPT ![c].calls = @ + 1, ![c].at = "count", ![c].lost = ~Linked,
                          ![c].result = "none", ![c].mid = NoMid]
    /\ UNCHANGED <<field, act, link, loop, wires, connects, granted, delivered>>

\* Only the topic's first recipient asks the broker, and only while connected.
SubscribeCounts(c) ==
    /\ sub[c].at = "count"
    /\ IF manifold[TopicOf[c]] = 1 /\ Active /\ connected THEN Goes(c, "send") ELSE Returns(c, "ok")
    /\ UNCHANGED <<field, manifold, act, link, loop, wires, connects, granted, delivered>>

\* mosquitto_subscribe.  On a connection that is lost it takes the request and
\* loses it with the connection, or fails, as it may on one that stands.  The
\* recipient stays registered.
SubscribeSends(c) ==
    /\ sub[c].at = "send" /\ Active
    /\ \/ /\ Linked
          /\ Ask(<<TopicOf[c]>>) /\ UNCHANGED failed
          /\ sub' = [sub EXCEPT ![c].at = "sent", ![c].mid = next_mid']
       \/ /\ ~Linked
          /\ next_mid' = next_mid + 1
          /\ sub' = [sub EXCEPT ![c].at = "sent", ![c].mid = next_mid']
          /\ UNCHANGED <<requests, acks, asked, failed>>
       \/ /\ Returns(c, "error")
          /\ Refuse(IF Linked THEN {TopicOf[c]} ELSE {})
          /\ UNCHANGED <<requests, acks, next_mid, asked>>
    /\ UNCHANGED <<field, manifold, act, link, loop, connects, granted, delivered>>

\* wait_for_suback begins: only now is the identifier known to on_subscribe.
SubscribeWaits(c) ==
    /\ sub[c].at = "sent" /\ SubackMutexFree
    /\ suback_mid_waiting' = sub[c].mid /\ suback_result' = -1
    /\ Goes(c, IF connected THEN "asleep" ELSE "leave")
    /\ UNCHANGED <<connected, manifold, act, link, loop, wires, connects, granted, delivered>>

SubscribeResumes(c) ==
    /\ sub[c].at = "woken" /\ SubackMutexFree
    /\ Goes(c, IF suback_result = -1 /\ connected THEN "asleep" ELSE "leave")
    /\ UNCHANGED <<field, manifold, act, link, loop, wires, connects, granted, delivered>>

\* The end of wait_for_suback; connected is read again.
Outcome(otherwise) ==
    IF suback_result = 0 THEN "ok" ELSE
    IF suback_result > 0 THEN "refused" ELSE
    IF ~connected THEN "notconn" ELSE otherwise

SubscribeLeaves(c) ==
    /\ sub[c].at = "leave"
    /\ Returns(c, Outcome("ok"))
    /\ suback_mid_waiting' = NoMid
    /\ UNCHANGED <<connected, suback_result, manifold, act, link, loop, wires, connects, granted, delivered>>

\* Mutant: no deadline while the connection is lost.
Mutant_TimesOutConnected(c) ==
    /\ sub[c].at = "asleep" /\ connected /\ SubackMutexFree
    /\ Returns(c, Outcome("timeout"))
    /\ suback_mid_waiting' = NoMid
    /\ UNCHANGED <<connected, suback_result, manifold, act, link, loop, wires, connects, granted, delivered>>

\* 1500 ms have passed.
SubscribeTimesOut(c) ==
    /\ sub[c].at = "asleep" /\ SubackMutexFree
    /\ Returns(c, Outcome("timeout"))
    /\ suback_mid_waiting' = NoMid
    /\ UNCHANGED <<connected, suback_result, manifold, act, link, loop, wires, connects, granted, delivered>>

Subscribe(c) ==
    \/ SubscribeCounts(c) \/ SubscribeSends(c) \/ SubscribeWaits(c)
    \/ SubscribeResumes(c) \/ SubscribeLeaves(c) \/ SubscribeTimesOut(c)

Next ==
    \/ NetworkThread \/ BrokerAnswers \/ Drops
    \/ Activate \/ ActivateTests \/ ActivateSleeps \/ ActivateTimesOut
    \/ \E c \in Callers : SubscribeRegisters(c) \/ Subscribe(c)

Spec == Init /\ [][Next]_vars

\* Threads run and deadlines pass.
FairSpec ==
    /\ Spec
    /\ WF_vars(NetworkThread)
    /\ WF_vars(ActivateTests) /\ WF_vars(ActivateSleeps) /\ WF_vars(ActivateTimesOut)
    /\ \A c \in Callers : WF_vars(Subscribe(c))

(***************************************************************************)
(* Properties                                                              *)
(***************************************************************************)

\* When the connection stands and the network thread has finished on_connect,
\* no topic that has recipients and no subscribe under way was left out: the
\* broker has been asked for it on this connection, or mosquitto_subscribe
\* reported an error for it, whether the first recipient came before or after
\* the connection, or while it was being made again.
BrokerAsked ==
    (link = "up" /\ loop = "idle" /\ Active) =>
       \A t \in Topics :
          (manifold[t] > 0 /\ \A c \in Callers : TopicOf[c] = t => sub[c].at = "idle") => t \in asked \union failed

\* A subscribe that asked the broker and reports success was granted its
\* subscription, unless the connection was not up when it began or was lost
\* meanwhile.
ConfirmedOrLost ==
    \A c \in Callers : (sub[c].result = "ok" /\ sub[c].mid # NoMid) => (sub[c].mid \in granted \/ sub[c].lost)

\* A subscribe reports a timeout only when on_subscribe was not called for it.
TimeoutMeansSilence == \A c \in Callers : sub[c].result = "timeout" => sub[c].mid \notin delivered

\* Every subscribe returns, also when the connection is lost while it waits for
\* the SUBACK and nobody wakes it.
SubscribeReturns == \A c \in Callers : (sub[c].at # "idle" /\ Active) ~> (sub[c].at = "idle" \/ ~Active)
=============================================================================
