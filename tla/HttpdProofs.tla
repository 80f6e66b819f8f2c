----------------------------- MODULE HttpdProofs -----------------------------
(***************************************************************************)
(* Proofs about the HTTP server's threads, for any number of slots and of  *)
(* connections: a slot outlives the thread that uses it, every accepted    *)
(* connection is closed exactly once, and the count of clients is right    *)
(* whenever the lock is free.  Then about one connection (HttpRequest),    *)
(* for every set of requests, every buffer size and every way TCP may cut  *)
(* the stream up.                                                          *)
(***************************************************************************)
EXTENDS Httpd, HttpRequest, FiniteSetTheorems, SequenceTheorems, TLAPS

\* The accept task runs only in a server that is started and not yet joined.
Accepting == apc \notin {"none", "done"}

AcceptOK ==
    Accepting => is_started /\ accept_tasker /\ ~disposed /\ opc # "join_clients"

\* Client threads run only in a started server, so configure and dispose,
\* which refuse a started one, find every slot at rest.
ClientsOK ==
    \A s \in AllSlots : Running(s) => is_started /\ tasker[s] /\ s \in Slots /\ ~disposed

\* A slot is active from the moment its thread is created until the thread
\* marks it finished.
ActiveOK ==
    \A s \in AllSlots : is_active[s] = (Running(s) /\ kpc[s] # "exiting")

ActiveSlots == {s \in Slots : is_active[s]}

\* While the accept task waits for the new client's ready() its slot is active
\* but not counted.
CountOK ==
    Cardinality(ActiveSlots) = IF LockFree THEN active_client_count ELSE active_client_count + 1

\* The places at which a client thread still has its connection to close.
Holds(s) == kpc[s] \in {"entry", "poll", "reading", "handling", "closing"}

\* The descriptor in a slot is the connection its thread serves, and is cleared
\* before the thread marks the slot finished.
SlotFds ==
    \A s \in AllSlots :
        /\ Holds(s) => client_fd[s] \in Conns /\ conn[client_fd[s]] = "open"
        /\ kpc[s] = "closed" => client_fd[s] \in Conns /\ conn[client_fd[s]] = "closed"
        /\ ~Holds(s) /\ kpc[s] # "closed" => client_fd[s] = NoConn

\* No two slots have the same descriptor,
DistinctFds ==
    \A s, t \in AllSlots : client_fd[s] = client_fd[t] /\ client_fd[s] # NoConn => s = t

InHand == apc \in {"admit", "reject", "drop"}

\* and no slot has the one the accept task has in hand.
HandOK ==
    InHand => /\ afd \in Conns /\ conn[afd] = "open"
              /\ \A s \in AllSlots : client_fd[s] # afd

\* Who closes a connection is the one who holds it.
HeldOK ==
    \A c \in Conns :
        conn[c] = "open" => \/ InHand /\ afd = c
                            \/ \E s \in AllSlots : Holds(s) /\ client_fd[s] = c

ClosesOK == \A c \in Conns : closes[c] = IF conn[c] = "closed" THEN 1 ELSE 0

IInv ==
    /\ TypeOK /\ AcceptOK /\ ClientsOK /\ ActiveOK /\ CountOK
    /\ SlotFds /\ DistinctFds /\ HandOK /\ HeldOK /\ ClosesOK

\* A server that is not started has no thread, no descriptor and no active slot.
LEMMA AtRest ==
    ASSUME IInv, ~is_started
    PROVE  /\ apc \in {"none", "done"}
           /\ \A s \in AllSlots : kpc[s] \in {"none", "exited"} /\ client_fd[s] = NoConn
BY DEF IInv, TypeOK, AcceptOK, Accepting, ClientsOK, Running, SlotFds, Holds

\* The slots in use are a part of all slots,
LEMMA SlotsWithin ==
    ASSUME TypeOK
    PROVE  Slots \subseteq AllSlots
BY HttpdAssumption DEF TypeOK, Slots, AllSlots

\* so the active ones can be counted.
LEMMA ActiveFinite ==
    ASSUME TypeOK
    PROVE  IsFiniteSet(ActiveSlots)
<1>1. IsFiniteSet(Slots)
    BY FS_Interval DEF TypeOK, Slots
<1> QED
    BY <1>1, FS_Subset DEF ActiveSlots

\* A connection in the backlog is nobody's yet.
LEMMA ConnectStep ==
    ASSUME IInv, NEW c \in Conns, Connect(c)
    PROVE  IInv'
<1>1. TypeOK'
    BY DEF IInv, Connect, TypeOK, server, slots, accept
<1>2. /\ SlotFds' /\ HandOK' /\ HeldOK' /\ ClosesOK' /\ AcceptOK'
      /\ ClientsOK' /\ ActiveOK' /\ CountOK' /\ DistinctFds'
    BY DEF IInv, Connect, SlotFds, Holds, HandOK, InHand, HeldOK, ClosesOK, AcceptOK,
       Accepting, ClientsOK, Running, Slots, ActiveOK, CountOK, ActiveSlots, LockFree,
       DistinctFds, server, slots, accept
<1> QED
    BY <1>1, <1>2 DEF IInv

\* The new connection is in no slot: every descriptor in a slot was accepted before.
LEMMA AcceptReturnsStep ==
    ASSUME IInv, NEW c \in Conns, AcceptReturns(c)
    PROVE  IInv'
<1>1. TypeOK'
    BY DEF IInv, AcceptReturns, TypeOK, server, slots
<1>2. HandOK'
    BY ConnsAssumption DEF IInv, AcceptReturns, TypeOK, HandOK, SlotFds, slots
<1>3. /\ AcceptOK' /\ CountOK' /\ SlotFds' /\ HeldOK'
      /\ ClosesOK' /\ ClientsOK' /\ ActiveOK' /\ DistinctFds'
    BY DEF IInv, AcceptReturns, AcceptOK, Accepting, CountOK, ActiveSlots, Slots,
       LockFree, SlotFds, Holds, HeldOK, InHand, ClosesOK, ClientsOK, Running, ActiveOK,
       DistinctFds, server, slots
<1> QED
    BY <1>1, <1>2, <1>3 DEF IInv

\* Waiting in accept(), and the ends of that wait without a connection.
LEMMA AcceptWaitsStep ==
    ASSUME IInv, AcceptPoll \/ AcceptShut \/ AcceptError
    PROVE  IInv'
<1>a. /\ apc \in {"poll", "accept"} /\ apc' \in {"poll", "accept", "done"}
      /\ UNCHANGED <<server, slots, afd, aslot, kpc, opc, kernel>>
    BY DEF AcceptPoll, AcceptShut, AcceptError
<1>1. TypeOK'
    BY <1>a DEF IInv, TypeOK, server, slots, kernel
<1>2. /\ AcceptOK' /\ CountOK' /\ HandOK' /\ HeldOK' /\ ClientsOK'
      /\ ActiveOK' /\ SlotFds' /\ DistinctFds' /\ ClosesOK'
    BY <1>a DEF IInv, AcceptOK, Accepting, CountOK, ActiveSlots, Slots, LockFree,
       HandOK, InHand, HeldOK, Holds, ClientsOK, Running, ActiveOK, SlotFds,
       DistinctFds, ClosesOK, server, slots, kernel
<1> QED
    BY <1>1, <1>2 DEF IInv

\* Reaping takes the tasker only of a thread that has exited.
LEMMA AdmitRefusesStep ==
    ASSUME IInv, AdmitRejects \/ AdmitFails
    PROVE  IInv'
<1>a. /\ apc = "admit" /\ apc' \in {"reject", "drop"} /\ tasker' = Reaped
      /\ UNCHANGED <<server, is_active, client_fd, active_client_count, stop, ready, afd, aslot,
                     kpc, opc, kernel>>
    BY DEF AdmitRejects, AdmitFails
<1>1. TypeOK'
    BY <1>a DEF IInv, Reaped, TypeOK, server, kernel
<1>2. ClientsOK'
    BY <1>a DEF IInv, Reaped, Reapable, TypeOK, ClientsOK, Running, Slots, server
<1>3. /\ AcceptOK' /\ CountOK' /\ HandOK' /\ HeldOK'
      /\ ActiveOK' /\ SlotFds' /\ DistinctFds' /\ ClosesOK'
    BY <1>a DEF IInv, AcceptOK, Accepting, CountOK, ActiveSlots, Slots, LockFree,
       HandOK, InHand, HeldOK, Holds, ActiveOK, Running, SlotFds, DistinctFds, ClosesOK,
       server, kernel
<1> QED
    BY <1>1, <1>2, <1>3 DEF IInv

\* The first free slot has no thread: it was joined or reaped.
LEMMA AdmitStartsStep ==
    ASSUME IInv, NEW s \in AllSlots, AdmitStarts(s)
    PROVE  IInv'
<1>i. kpc[s] \in {"none", "exited"}
    BY DEF IInv, TypeOK, ClientsOK, Running, AdmitStarts, Free, Reaped, Reapable
<1>1. TypeOK'
    BY DEF IInv, TypeOK, AdmitStarts, Reaped, HandOK, InHand, server, kernel
<1>2. ClientsOK'
    BY DEF IInv, AdmitStarts, Reaped, Reapable, TypeOK, ClientsOK, Running, Slots,
       AcceptOK, Accepting, server
<1>3. ActiveOK'
    BY <1>i DEF IInv, TypeOK, ActiveOK, Running, AdmitStarts
<1>4. CountOK'
  <2>1. IsFiniteSet(ActiveSlots)
    BY ActiveFinite DEF IInv
  <2>2. s \in Slots /\ ~is_active[s] /\ LockFree /\ ~LockFree'
    BY DEF AdmitStarts, Free, LockFree
  <2>3. ActiveSlots' = ActiveSlots \cup {s}
    BY DEF IInv, TypeOK, AdmitStarts, ActiveSlots, Slots, server
  <2>4. Cardinality(ActiveSlots') = Cardinality(ActiveSlots) + 1
    BY <2>1, <2>2, <2>3, FS_AddElement DEF ActiveSlots
  <2> QED
    BY <2>2, <2>4 DEF IInv, CountOK, AdmitStarts
<1>5. SlotFds'
    BY DEF IInv, AdmitStarts, TypeOK, SlotFds, Holds, HandOK, InHand, kernel
<1>6. DistinctFds'
    BY DEF IInv, AdmitStarts, DistinctFds, HandOK, InHand
<1>7. HeldOK'
  <2> SUFFICES ASSUME NEW c \in Conns, conn[c] = "open"
               PROVE  \E t \in AllSlots : Holds(t)' /\ client_fd'[t] = c
    BY DEF HeldOK, AdmitStarts, kernel
  <2>1. CASE afd = c
    BY <2>1 DEF IInv, TypeOK, AdmitStarts, Holds
  <2>2. CASE afd # c
    <3>1. PICK t \in AllSlots : Holds(t) /\ client_fd[t] = c
      BY <2>2 DEF IInv, HeldOK
    <3>2. t # s
      BY <3>1, <1>i DEF Holds
    <3> QED
      BY <3>1, <3>2 DEF IInv, AdmitStarts, Holds
  <2> QED
    BY <2>1, <2>2
<1>8. AcceptOK' /\ HandOK' /\ ClosesOK'
    BY DEF IInv, AdmitStarts, AcceptOK, Accepting, HandOK, InHand, ClosesOK, server,
       kernel
<1> QED
    BY <1>1, <1>2, <1>3, <1>4, <1>5, <1>6, <1>7, <1>8 DEF IInv

\* The client is counted before the lock is released.
LEMMA AdmitStartedStep ==
    ASSUME IInv, AdmitStarted
    PROVE  IInv'
<1>1. TypeOK'
    BY DEF IInv, AdmitStarted, TypeOK, server, kernel
<1>2. /\ AcceptOK' /\ CountOK' /\ HandOK' /\ HeldOK' /\ ClientsOK'
      /\ ActiveOK' /\ SlotFds' /\ DistinctFds' /\ ClosesOK'
    BY DEF IInv, AdmitStarted, AcceptOK, Accepting, CountOK, ActiveSlots, Slots,
       LockFree, HandOK, InHand, HeldOK, Holds, ClientsOK, Running, ActiveOK, SlotFds,
       DistinctFds, ClosesOK, server, kernel
<1> QED
    BY <1>1, <1>2 DEF IInv

\* A connection that was not admitted is closed by the accept task.
LEMMA AcceptClosesStep ==
    ASSUME IInv, AcceptCloses
    PROVE  IInv'
<1>1. TypeOK'
    BY DEF IInv, AcceptCloses, CloseConn, TypeOK, HandOK, InHand, server, slots
<1>2. SlotFds'
    BY DEF IInv, AcceptCloses, CloseConn, SlotFds, Holds, HandOK, InHand, slots
<1>3. HeldOK'
    BY DEF IInv, AcceptCloses, CloseConn, TypeOK, HeldOK, Holds, slots
<1>4. ClosesOK'
    BY DEF IInv, AcceptCloses, CloseConn, TypeOK, ClosesOK, HandOK, InHand
<1>5. AcceptOK' /\ CountOK' /\ HandOK' /\ ClientsOK' /\ ActiveOK' /\ DistinctFds'
    BY DEF IInv, AcceptCloses, AcceptOK, Accepting, CountOK, ActiveSlots, Slots,
       LockFree, HandOK, InHand, ClientsOK, Running, ActiveOK, DistinctFds, server,
       slots
<1> QED
    BY <1>1, <1>2, <1>3, <1>4, <1>5 DEF IInv

\* ready() fails or succeeds; the thread has its connection either way.
LEMMA ClientReadyStep ==
    ASSUME IInv, NEW s \in AllSlots, ClientReady(s)
    PROVE  IInv'
<1>1. TypeOK'
  <2>1. /\ kpc' \in [AllSlots -> {"none", "entry", "poll", "reading", "handling", "closing",
                                 "closed", "marking", "exiting", "exited"}]
        /\ ready' \in [AllSlots -> BOOLEAN]
    BY DEF IInv, TypeOK, ClientReady, KGoto
  <2> QED
    BY <2>1 DEF IInv, TypeOK, ClientReady, server, accept, kernel
<1>2. ClientsOK'
    BY DEF IInv, ClientReady, KGoto, TypeOK, ClientsOK, Running, Slots, server
<1>3. ActiveOK'
    BY DEF IInv, ClientReady, KGoto, TypeOK, ActiveOK, Running
<1>4. SlotFds'
    BY DEF IInv, ClientReady, KGoto, TypeOK, SlotFds, Holds, kernel
<1>5. HeldOK'
    BY DEF IInv, ClientReady, KGoto, TypeOK, HeldOK, InHand, Holds, accept, kernel
<1>6. AcceptOK' /\ CountOK' /\ DistinctFds' /\ HandOK' /\ ClosesOK'
    BY DEF IInv, ClientReady, AcceptOK, Accepting, CountOK, ActiveSlots, Slots,
       LockFree, DistinctFds, HandOK, InHand, ClosesOK, server, accept, kernel
<1> QED
    BY <1>1, <1>2, <1>3, <1>4, <1>5, <1>6 DEF IInv

\* The client thread serves its request.
LEMMA ClientMovesStep ==
    ASSUME IInv, NEW s \in AllSlots, ClientPoll(s) \/ ClientReads(s) \/ ClientServes(s)
    PROVE  IInv'
<1>a. /\ kpc[s] \in {"poll", "reading", "handling"}
      /\ \E p \in {"reading", "handling", "closing"} : kpc' = [kpc EXCEPT ![s] = p]
      /\ UNCHANGED <<server, slots, accept, opc, kernel>>
    BY DEF ClientPoll, ClientReads, ClientServes, KGoto
<1>1. TypeOK'
    BY <1>a DEF IInv, TypeOK, SlotFds, ActiveOK, server, slots, accept, kernel
<1>2. ClientsOK'
    BY <1>a DEF IInv, TypeOK, ClientsOK, Running, Slots, server, slots
<1>3. ActiveOK'
    BY <1>a DEF IInv, TypeOK, ActiveOK, Running, slots
<1>4. SlotFds'
    BY <1>a DEF IInv, TypeOK, SlotFds, Holds, slots, kernel
<1>5. HeldOK'
    BY <1>a DEF IInv, TypeOK, HeldOK, InHand, Holds, slots, accept, kernel
<1>6. AcceptOK' /\ CountOK' /\ DistinctFds' /\ HandOK' /\ ClosesOK'
    BY <1>a DEF IInv, AcceptOK, Accepting, CountOK, ActiveSlots, Slots, LockFree,
       DistinctFds, HandOK, InHand, ClosesOK, server, slots, accept, kernel
<1> QED
    BY <1>1, <1>2, <1>3, <1>4, <1>5, <1>6 DEF IInv

\* The connection is closed by the one thread that has it.
LEMMA ClientClosesStep ==
    ASSUME IInv, NEW s \in AllSlots, ClientCloses(s)
    PROVE  IInv'
<1>1. TypeOK'
  <2>1. client_fd[s] \in Conns
    BY DEF IInv, SlotFds, Holds, ClientCloses
  <2> QED
    BY <2>1 DEF IInv, TypeOK, ClientCloses, KGoto, CloseConn, server, slots, accept
<1>2. ClientsOK'
    BY DEF IInv, ClientCloses, KGoto, ClientsOK, Running, Slots, server, slots
<1>3. ActiveOK'
    BY DEF IInv, ClientCloses, KGoto, ActiveOK, Running, slots
<1>4. SlotFds'
    BY ConnsAssumption DEF IInv, ClientCloses, KGoto, CloseConn, TypeOK, SlotFds, Holds,
       DistinctFds, slots
<1>5. HandOK'
    BY DEF IInv, ClientCloses, CloseConn, HandOK, InHand, slots, accept
<1>6. HeldOK'
    BY DEF IInv, ClientCloses, KGoto, CloseConn, TypeOK, HeldOK, InHand, Holds, slots,
       accept
<1>7. ClosesOK'
    BY ConnsAssumption DEF IInv, ClientCloses, CloseConn, TypeOK, ClosesOK, SlotFds
<1>8. AcceptOK' /\ CountOK' /\ DistinctFds'
    BY DEF IInv, ClientCloses, AcceptOK, Accepting, CountOK, ActiveSlots, Slots,
       LockFree, DistinctFds, server, slots, accept
<1> QED
    BY <1>1, <1>2, <1>3, <1>4, <1>5, <1>6, <1>7, <1>8 DEF IInv

\* The descriptor leaves the slot after the close.
LEMMA ClientClearsStep ==
    ASSUME IInv, NEW s \in AllSlots, ClientClears(s)
    PROVE  IInv'
<1>1. TypeOK'
    BY DEF IInv, ClientClears, KGoto, TypeOK, server, accept, kernel
<1>2. ClientsOK'
    BY DEF IInv, ClientClears, KGoto, ClientsOK, Running, Slots, server
<1>3. ActiveOK'
    BY DEF IInv, ClientClears, KGoto, ActiveOK, Running
<1>4. SlotFds'
    BY DEF IInv, ClientClears, KGoto, TypeOK, SlotFds, Holds, kernel
<1>5. HandOK'
    BY ConnsAssumption DEF IInv, ClientClears, HandOK, InHand, accept, kernel
<1>6. HeldOK'
    BY DEF IInv, ClientClears, KGoto, HeldOK, InHand, Holds, accept, kernel
<1>7. DistinctFds' /\ AcceptOK' /\ CountOK' /\ ClosesOK'
    BY DEF IInv, ClientClears, DistinctFds, AcceptOK, Accepting, CountOK, ActiveSlots,
       Slots, LockFree, ClosesOK, server, accept, kernel
<1> QED
    BY <1>1, <1>2, <1>3, <1>4, <1>5, <1>6, <1>7 DEF IInv

\* The slot is marked finished and the client uncounted in one critical section.
LEMMA ClientMarksStep ==
    ASSUME IInv, NEW s \in AllSlots, ClientMarks(s)
    PROVE  IInv'
<1>1. TypeOK'
    BY DEF IInv, ClientMarks, KGoto, TypeOK, server, accept, kernel
<1>2. ClientsOK'
    BY DEF IInv, ClientMarks, KGoto, ClientsOK, Running, Slots, server
<1>3. ActiveOK'
    BY DEF IInv, TypeOK, ActiveOK, Running, ClientMarks, KGoto
<1>4. CountOK'
  <2>1. IsFiniteSet(ActiveSlots)
    BY ActiveFinite DEF IInv
  <2>2. s \in ActiveSlots /\ is_active[s]
    BY DEF IInv, ActiveOK, ClientsOK, Running, ActiveSlots, ClientMarks
  <2>3. ActiveSlots' = ActiveSlots \ {s}
    BY DEF IInv, TypeOK, ClientMarks, ActiveSlots, Slots, server
  <2>4. Cardinality(ActiveSlots') = Cardinality(ActiveSlots) - 1
    BY <2>1, <2>2, <2>3, FS_RemoveElement
  <2>5. Cardinality(ActiveSlots) \in Nat /\ Cardinality(ActiveSlots') \in Nat
    BY <2>1, <2>3, FS_CardinalityType, FS_RemoveElement
  <2>6. LockFree /\ LockFree'
    BY DEF ClientMarks, LockFree, accept
  <2> QED
    BY <2>2, <2>4, <2>5, <2>6 DEF IInv, CountOK, ClientMarks
<1>5. SlotFds'
    BY DEF IInv, ClientMarks, KGoto, SlotFds, Holds, kernel
<1>6. HeldOK'
    BY DEF IInv, ClientMarks, KGoto, HeldOK, InHand, Holds, accept, kernel
<1>7. AcceptOK' /\ DistinctFds' /\ HandOK' /\ ClosesOK'
    BY DEF IInv, ClientMarks, AcceptOK, Accepting, DistinctFds, HandOK, InHand,
       ClosesOK, server, accept, kernel
<1> QED
    BY <1>1, <1>2, <1>3, <1>4, <1>5, <1>6, <1>7 DEF IInv

\* The thread ends after its last use of the slot.
LEMMA ClientExitsStep ==
    ASSUME IInv, NEW s \in AllSlots, ClientExits(s)
    PROVE  IInv'
<1>1. TypeOK'
    BY DEF IInv, ClientExits, KGoto, TypeOK, server, slots, accept, kernel
<1>2. ClientsOK'
    BY DEF IInv, ClientExits, KGoto, ClientsOK, Running, Slots, server, slots
<1>3. ActiveOK'
    BY DEF IInv, ClientExits, KGoto, ActiveOK, Running, slots
<1>4. SlotFds'
    BY DEF IInv, ClientExits, KGoto, SlotFds, Holds, slots, kernel
<1>5. HeldOK'
    BY DEF IInv, ClientExits, KGoto, HeldOK, InHand, Holds, slots, accept, kernel
<1>6. AcceptOK' /\ CountOK' /\ DistinctFds' /\ HandOK' /\ ClosesOK'
    BY DEF IInv, ClientExits, AcceptOK, Accepting, CountOK, ActiveSlots, Slots,
       LockFree, DistinctFds, HandOK, InHand, ClosesOK, server, slots, accept, kernel
<1> QED
    BY <1>1, <1>2, <1>3, <1>4, <1>5, <1>6 DEF IInv

\* Nothing is left in the slots that configure replaces.
LEMMA ConfigureStep ==
    ASSUME IInv, NEW n \in AllSlots, Configure(n)
    PROVE  IInv'
<1>r. /\ apc \in {"none", "done"}
      /\ \A s \in AllSlots : kpc[s] \in {"none", "exited"} /\ client_fd[s] = NoConn
    BY AtRest DEF Configure
<1>k. conn' = conn /\ closes' = closes
    BY <1>r, ConnsAssumption, SlotsWithin DEF IInv, TypeOK, Configure
<1>1. TypeOK'
    BY DEF IInv, Configure, AllSlots, TypeOK, accept
<1>2. ActiveOK'
    BY <1>r DEF ActiveOK, Running, Configure
<1>3. CountOK'
  <2>1. ActiveSlots' = {}
    BY HttpdAssumption DEF Configure, ActiveSlots, Slots, AllSlots
  <2>2. LockFree'
    BY <1>r DEF Configure, LockFree, accept
  <2> QED
    BY <2>1, <2>2, FS_EmptySet DEF CountOK, Configure
<1>4. SlotFds'
    BY <1>r DEF IInv, Configure, SlotFds, Holds
<1>5. HandOK'
    BY <1>r DEF IInv, Configure, accept, HandOK, InHand
<1>6. HeldOK'
    BY <1>r DEF IInv, Configure, HeldOK, InHand, Holds
<1>7. ClosesOK'
    BY <1>k DEF IInv, Configure, ClosesOK
<1>8. ClientsOK' /\ DistinctFds' /\ AcceptOK'
    BY DEF IInv, Configure, ClientsOK, Running, DistinctFds, AcceptOK, Accepting, accept
<1> QED
    BY <1>1, <1>2, <1>3, <1>4, <1>5, <1>6, <1>7, <1>8 DEF IInv

\* The server starts with every slot at rest.
LEMMA LoopStep ==
    ASSUME IInv, Loop
    PROVE  IInv'
<1>r. /\ apc \in {"none", "done"}
      /\ \A s \in AllSlots : kpc[s] \in {"none", "exited"} /\ client_fd[s] = NoConn
    BY AtRest DEF Loop
<1>1. TypeOK'
    BY DEF IInv, TypeOK, Loop, slots
<1>2. CountOK'
    BY <1>r DEF IInv, CountOK, LockFree, Loop, slots, ActiveSlots, Slots
<1>3. HeldOK'
    BY <1>r DEF IInv, HeldOK, InHand, Holds, Loop
<1>4. /\ AcceptOK' /\ ClientsOK' /\ HandOK' /\ ActiveOK'
      /\ SlotFds' /\ DistinctFds' /\ ClosesOK'
    BY DEF IInv, Loop, AcceptOK, ClientsOK, Running, HandOK, InHand, ActiveOK, SlotFds,
       Holds, DistinctFds, ClosesOK, slots
<1> QED
    BY <1>1, <1>2, <1>3, <1>4 DEF IInv

\* A loop that fails starts no thread.
LEMMA LoopFailsStep ==
    ASSUME IInv, LoopFails
    PROVE  IInv'
<1>1. TypeOK'
    BY DEF IInv, TypeOK, LoopFails, slots, accept
<1>2. /\ AcceptOK' /\ ClientsOK' /\ ActiveOK' /\ CountOK' /\ SlotFds'
      /\ DistinctFds' /\ HandOK' /\ HeldOK' /\ ClosesOK'
    BY DEF IInv, LoopFails, AcceptOK, Accepting, ClientsOK, Running, Slots, ActiveOK,
       CountOK, ActiveSlots, LockFree, SlotFds, Holds, DistinctFds, HandOK, InHand,
       HeldOK, ClosesOK, slots, accept
<1> QED
    BY <1>1, <1>2 DEF IInv

\* The accept task is asked to stop.
LEMMA StopAcceptStep ==
    ASSUME IInv, StopAccept
    PROVE  IInv'
<1>1. TypeOK'
    BY DEF IInv, StopAccept, TypeOK, slots, accept, kernel
<1>2. /\ AcceptOK' /\ ClientsOK' /\ ActiveOK' /\ CountOK' /\ SlotFds'
      /\ DistinctFds' /\ HandOK' /\ HeldOK' /\ ClosesOK'
    BY DEF IInv, StopAccept, AcceptOK, Accepting, ClientsOK, Running, Slots, ActiveOK,
       CountOK, ActiveSlots, LockFree, SlotFds, Holds, DistinctFds, HandOK, InHand,
       HeldOK, ClosesOK, slots, accept, kernel
<1> QED
    BY <1>1, <1>2 DEF IInv

\* The listening socket goes, and with it the connections nobody accepted.
LEMMA StopListenStep ==
    ASSUME IInv, StopListen
    PROVE  IInv'
<1>1. TypeOK'
    BY DEF IInv, TypeOK, StopListen, slots, accept
<1>2. /\ AcceptOK' /\ SlotFds' /\ HandOK' /\ HeldOK' /\ ClosesOK'
      /\ ClientsOK' /\ ActiveOK' /\ CountOK' /\ DistinctFds'
    BY DEF IInv, StopListen, AcceptOK, Accepting, SlotFds, Holds, HandOK, InHand,
       HeldOK, ClosesOK, ClientsOK, Running, Slots, ActiveOK, CountOK, ActiveSlots,
       LockFree, DistinctFds, slots, accept
<1> QED
    BY <1>1, <1>2 DEF IInv

\* Every client is asked to stop; none is waited for.
LEMMA StopClientsStep ==
    ASSUME IInv, StopClients
    PROVE  IInv'
<1>1. TypeOK'
  <2>1. stop' \in [AllSlots -> BOOLEAN] /\ shut' \in SUBSET Conns
    BY HttpdAssumption DEF IInv, TypeOK, StopClients, AllSlots, Slots
  <2> QED
    BY <2>1 DEF IInv, TypeOK, StopClients, server, accept
<1>2. /\ AcceptOK' /\ ClientsOK' /\ ActiveOK' /\ CountOK' /\ SlotFds'
      /\ DistinctFds' /\ HandOK' /\ HeldOK' /\ ClosesOK'
    BY DEF IInv, StopClients, AcceptOK, Accepting, ClientsOK, Running, Slots, ActiveOK,
       CountOK, ActiveSlots, LockFree, SlotFds, Holds, DistinctFds, HandOK, InHand,
       HeldOK, ClosesOK, server, accept
<1> QED
    BY <1>1, <1>2 DEF IInv

\* A join changes nothing until it has a thread to wait for.
LEMMA JoinCallStep ==
    ASSUME IInv, JoinCall
    PROVE  IInv'
<1>1. TypeOK'
    BY DEF IInv, JoinCall, TypeOK, server, slots, accept, kernel
<1>2. /\ AcceptOK' /\ ClientsOK' /\ ActiveOK' /\ CountOK' /\ SlotFds'
      /\ DistinctFds' /\ HandOK' /\ HeldOK' /\ ClosesOK'
    BY DEF IInv, JoinCall, AcceptOK, Accepting, ClientsOK, Running, Slots, ActiveOK,
       CountOK, ActiveSlots, LockFree, SlotFds, Holds, DistinctFds, HandOK, InHand,
       HeldOK, ClosesOK, server, slots, accept, kernel
<1> QED
    BY <1>1, <1>2 DEF IInv

\* The clients are joined after the accept task has ended.
LEMMA JoinAcceptStep ==
    ASSUME IInv, JoinAccept
    PROVE  IInv'
<1>1. TypeOK'
    BY DEF IInv, TypeOK, JoinAccept, slots, kernel
<1>2. /\ AcceptOK' /\ CountOK' /\ HandOK' /\ HeldOK' /\ ClientsOK'
      /\ ActiveOK' /\ SlotFds' /\ DistinctFds' /\ ClosesOK'
    BY DEF IInv, JoinAccept, AcceptOK, Accepting, CountOK, ActiveSlots, Slots, LockFree,
       HandOK, InHand, HeldOK, Holds, ClientsOK, Running, ActiveOK, SlotFds,
       DistinctFds, ClosesOK, slots, kernel
<1> QED
    BY <1>1, <1>2 DEF IInv

\* A client thread that has exited left no descriptor to close.
LEMMA JoinClientStep ==
    ASSUME IInv, NEW s \in AllSlots, JoinClient(s)
    PROVE  IInv'
<1>n. client_fd[s] = NoConn
    BY DEF IInv, SlotFds, Holds, JoinClient
<1>1. TypeOK'
    BY <1>n DEF IInv, TypeOK, JoinClient, server, accept
<1>2. HandOK'
    BY DEF IInv, JoinClient, HandOK, InHand, SlotFds, Holds, accept
<1>3. HeldOK'
    BY DEF IInv, JoinClient, HeldOK, InHand, Holds, SlotFds, accept
<1>4. ClosesOK'
    BY DEF IInv, JoinClient, ClosesOK, SlotFds, Holds
<1>5. ClientsOK' /\ SlotFds' /\ DistinctFds' /\ AcceptOK' /\ ActiveOK' /\ CountOK'
    BY DEF IInv, JoinClient, ClientsOK, Running, Slots, SlotFds, Holds, DistinctFds,
       AcceptOK, Accepting, ActiveOK, CountOK, ActiveSlots, LockFree, server, accept
<1> QED
    BY <1>1, <1>2, <1>3, <1>4, <1>5 DEF IInv

\* A join that gives up leaves everything as it is.
LEMMA JoinTimesOutStep ==
    ASSUME IInv, JoinTimesOut
    PROVE  IInv'
<1>1. TypeOK'
    BY DEF IInv, JoinTimesOut, TypeOK, server, slots, accept, kernel
<1>2. /\ AcceptOK' /\ ClientsOK' /\ ActiveOK' /\ CountOK' /\ SlotFds'
      /\ DistinctFds' /\ HandOK' /\ HeldOK' /\ ClosesOK'
    BY DEF IInv, JoinTimesOut, AcceptOK, Accepting, ClientsOK, Running, Slots, ActiveOK,
       CountOK, ActiveSlots, LockFree, SlotFds, Holds, DistinctFds, HandOK, InHand,
       HeldOK, ClosesOK, server, slots, accept, kernel
<1> QED
    BY <1>1, <1>2 DEF IInv

\* When every tasker was joined, no slot is active.
LEMMA JoinDoneStep ==
    ASSUME IInv, JoinDone
    PROVE  IInv'
<1>1. TypeOK'
  <2>1. TypeOK
    BY DEF IInv
  <2>2. /\ is_started' = FALSE /\ active_client_count' = 0 /\ opc' = "idle"
        /\ UNCHANGED <<stop_requested, listen_fd, accept_tasker, client_slot_count, disposed,
                       accept_stop, is_active, client_fd, tasker, stop, ready>>
        /\ UNCHANGED <<apc, afd, aslot, kpc, conn, shut, listen_shut, closes>>
    BY DEF JoinDone, accept, kernel
  <2>3. /\ is_started' \in BOOLEAN /\ stop_requested' \in BOOLEAN /\ listen_fd' \in BOOLEAN
        /\ accept_tasker' \in BOOLEAN /\ accept_stop' \in BOOLEAN
        /\ disposed' \in BOOLEAN /\ listen_shut' \in BOOLEAN
    BY <2>1, <2>2 DEF TypeOK
  <2>4. /\ client_slot_count' \in 0..MaxSlots /\ active_client_count' \in Nat
        /\ opc' \in {"idle", "stop_listen", "stop_clients", "join_accept", "join_clients"}
    BY <2>1, <2>2 DEF TypeOK
  <2>5. /\ is_active' \in [AllSlots -> BOOLEAN] /\ tasker' \in [AllSlots -> BOOLEAN]
        /\ client_fd' \in [AllSlots -> Conns \cup {NoConn}]
        /\ stop' \in [AllSlots -> BOOLEAN] /\ ready' \in [AllSlots -> BOOLEAN]
    BY <2>1, <2>2 DEF TypeOK
  <2>6. /\ apc' \in {"none", "poll", "accept", "admit", "reject", "drop", "starting", "done"}
        /\ afd' \in Conns \cup {NoConn} /\ aslot' \in AllSlots \cup {NoSlot}
        /\ kpc' \in [AllSlots -> {"none", "entry", "poll", "reading", "handling", "closing",
                                  "closed", "marking", "exiting", "exited"}]
    BY <2>1, <2>2 DEF TypeOK
  <2>7. /\ conn' \in [Conns -> {"none", "backlog", "open", "closed"}]
        /\ shut' \in SUBSET Conns /\ closes' \in [Conns -> Nat]
    BY <2>1, <2>2 DEF TypeOK
  <2> QED
    BY <2>3, <2>4, <2>5, <2>6, <2>7 DEF TypeOK
<1>2. CountOK'
  <2>1. ActiveSlots' = {}
    BY SlotsWithin DEF IInv, ActiveOK, ClientsOK, JoinDone, ActiveSlots, Slots
  <2>2. LockFree'
    BY DEF IInv, AcceptOK, Accepting, JoinDone, LockFree, accept
  <2> QED
    BY <2>1, <2>2, FS_EmptySet DEF CountOK, JoinDone
<1>3. /\ AcceptOK' /\ ClientsOK' /\ ActiveOK' /\ SlotFds'
      /\ DistinctFds' /\ HandOK' /\ HeldOK' /\ ClosesOK'
    BY DEF IInv, JoinDone, AcceptOK, Accepting, ClientsOK, Running, ActiveOK, SlotFds,
       Holds, DistinctFds, HandOK, InHand, HeldOK, ClosesOK, accept, kernel
<1> QED
    BY <1>1, <1>2, <1>3 DEF IInv

\* Nothing runs in a server that is not started.
LEMMA DisposeStep ==
    ASSUME IInv, Dispose
    PROVE  IInv'
<1>1. TypeOK'
    BY DEF IInv, TypeOK, Dispose, accept
<1>2. /\ AcceptOK' /\ ClientsOK' /\ SlotFds' /\ HandOK' /\ HeldOK'
      /\ ClosesOK' /\ ActiveOK' /\ CountOK' /\ DistinctFds'
    BY DEF IInv, Dispose, AcceptOK, Accepting, ClientsOK, Running, SlotFds, Holds,
       HandOK, InHand, HeldOK, ClosesOK, ActiveOK, CountOK, ActiveSlots, Slots,
       LockFree, DistinctFds, accept
<1> QED
    BY <1>1, <1>2 DEF IInv

(***************************************************************************)
(* The theorems                                                            *)
(***************************************************************************)

\* dthttpd_linux_socket_init establishes the invariant.
LEMMA HttpdInit == Init => IInv
<1> SUFFICES ASSUME Init
             PROVE  IInv
    OBVIOUS
<1>1. TypeOK
  <2>1. 0 \in 0 .. MaxSlots /\ 0 \in Nat
    BY HttpdAssumption
  <2> QED
    BY <2>1 DEF Init, TypeOK
<1>2. CountOK
  <2>1. ActiveSlots = {}
    BY HttpdAssumption DEF Init, ActiveSlots, Slots
  <2> QED
    BY <2>1, FS_EmptySet DEF Init, CountOK, LockFree
<1>3. AcceptOK /\ ClientsOK /\ ActiveOK
    BY DEF Init, AcceptOK, Accepting, ClientsOK, ActiveOK, Running
<1>4. SlotFds /\ DistinctFds /\ HandOK /\ HeldOK /\ ClosesOK
    BY DEF Init, SlotFds, Holds, DistinctFds, HandOK, InHand, HeldOK, ClosesOK
<1> QED
    BY <1>1, <1>2, <1>3, <1>4 DEF IInv

\* Every step of the owner, the accept task, the clients and the peers keeps it.
LEMMA HttpdStep ==
    ASSUME IInv, [Next]_vars
    PROVE  IInv'
<1>1. CASE AcceptStep \/ AcceptError
    BY <1>1, AcceptWaitsStep, AdmitRefusesStep, AdmitStartedStep, AcceptClosesStep,
       AcceptReturnsStep, AdmitStartsStep DEF AcceptStep
<1>2. CASE OwnerCall
    BY <1>2, LoopStep, LoopFailsStep, StopAcceptStep, JoinCallStep, DisposeStep,
       ConfigureStep DEF OwnerCall
<1>3. CASE OwnerStep \/ JoinTimesOut
    BY <1>3, StopListenStep, StopClientsStep, JoinAcceptStep, JoinDoneStep, JoinClientStep,
       JoinTimesOutStep DEF OwnerStep
<1>4. ASSUME NEW c \in Conns, Connect(c)
      PROVE  IInv'
    BY <1>4, ConnectStep
<1>5. ASSUME NEW s \in AllSlots, ClientStep(s) \/ ClientServes(s)
      PROVE  IInv'
    BY <1>5, ClientReadyStep, ClientMovesStep, ClientClosesStep, ClientClearsStep,
       ClientMarksStep, ClientExitsStep DEF ClientStep
<1>6. CASE UNCHANGED vars
  <2> USE <1>6 DEF vars, server, slots, accept, kernel
  <2>1. TypeOK' /\ AcceptOK' /\ ClientsOK' /\ ActiveOK' /\ CountOK'
    BY DEF IInv, TypeOK, AcceptOK, Accepting, ClientsOK, Running, Slots, ActiveOK,
       CountOK, ActiveSlots, LockFree
  <2>2. SlotFds' /\ DistinctFds' /\ HandOK' /\ HeldOK' /\ ClosesOK'
    BY DEF IInv, SlotFds, Holds, DistinctFds, HandOK, InHand, HeldOK, ClosesOK
  <2> QED
    BY <2>1, <2>2 DEF IInv
<1> QED
    BY <1>1, <1>2, <1>3, <1>4, <1>5, <1>6 DEF Next

\* Threads, slots, descriptors and the count of clients always agree, for every
\* number of slots and connections, through any calls of the owner.
THEOREM HttpdCorrect == Spec => []IInv
<1>1. IInv /\ [Next]_vars => IInv'
    BY HttpdStep
<1> QED
    BY <1>1, HttpdInit, PTL DEF Spec

\* A slot and its tasker are reused, joined away, reallocated or disposed only
\* when the client thread that uses them has exited.
THEOREM SlotOutlivesThreadHolds == Spec => []SlotOutlivesThread
<1>1. IInv => SlotOutlivesThread
    BY DEF IInv, ClientsOK, SlotOutlivesThread
<1> QED
    BY <1>1, HttpdCorrect, PTL

\* Every accepted connection is held by exactly the thread that will close it,
\* and is closed once.
THEOREM ClosedExactlyOnceHolds == Spec => []ClosedExactlyOnce
<1>1. IInv => ClosedExactlyOnce
  <2> SUFFICES ASSUME IInv, NEW c \in Conns
               PROVE  /\ conn[c] = "open" =>
                           \/ afd = c /\ apc \in {"admit", "reject", "drop"}
                           \/ \E s \in Slots : /\ client_fd[s] = c /\ Running(s)
                                               /\ kpc[s] \notin {"closed", "marking", "exiting"}
                      /\ closes[c] <= 1
    BY DEF ClosedExactlyOnce
  <2>1. closes[c] <= 1
    BY DEF IInv, ClosesOK
  <2>2. CASE conn[c] = "open" /\ ~(InHand /\ afd = c)
    <3>1. PICK s \in AllSlots : Holds(s) /\ client_fd[s] = c
      BY <2>2 DEF IInv, HeldOK
    <3>2. Running(s) /\ kpc[s] \notin {"closed", "marking", "exiting"}
      BY <3>1 DEF Holds, Running
    <3>3. s \in Slots
      BY <3>2 DEF IInv, ClientsOK
    <3> QED
      BY <2>1, <3>1, <3>2, <3>3
  <2> QED
    BY <2>1, <2>2 DEF InHand
<1> QED
    BY <1>1, HttpdCorrect, PTL

\* active_client_count is the number of active slots whenever the lock is free.
THEOREM CountMatchesHolds == Spec => []CountMatches
<1>1. IInv => CountMatches
    BY DEF IInv, CountOK, ActiveSlots, CountMatches
<1> QED
    BY <1>1, HttpdCorrect, PTL

(***************************************************************************)
(* HttpRequest: the headers, the body and the answer                       *)
(***************************************************************************)
\* While the headers are read, every byte received is in the header buffer.
HeadersHeld ==
    /\ phase \in {"headers", "parse"} => pos = length
    /\ phase = "parse" => length >= req.head

\* What the body buffer holds is a prefix of the body, and as long as the body
\* is not complete the next byte of the stream is the next byte of the body: the
\* bytes that came along with the headers are neither lost nor read twice.
BodyPrefix ==
    phase = "body" =>
        /\ req.method = "POST" /\ content_length \in 0..MaxBody
        /\ Len(body) <= content_length
        /\ body = Bytes(req.head, Len(body))
        /\ Len(body) < content_length => pos = req.head + Len(body)

\* The code of the reading goes with the task's place, and an answer ends it.
AnswerLast ==
    /\ phase \notin {"failed", "closed"} => err = "none"
    /\ phase # "closed" => answers = <<>>

\* The inductive invariant.
RequestInv == RequestTypeOK /\ HeadersHeld /\ BodyPrefix /\ AnswerLast /\ BodyExact /\ OneAnswer

-----------------------------------------------------------------------------
(* Pieces of the stream. *)

\* A piece of the stream is a sequence of as many bytes.
LEMMA BytesType ==
  ASSUME NEW from \in Nat, NEW n \in Nat
  PROVE  Bytes(from, n) \in Seq(Nat) /\ Len(Bytes(from, n)) = n
  <1>1. Bytes(from, n) \in [1..n -> Nat]  BY DEF Bytes
  <1>2. QED  BY <1>1 DEF Bytes

\* The piece of the stream that follows a piece makes it longer.
LEMMA BytesConcat ==
  ASSUME NEW from \in Nat, NEW k \in Nat, NEW n \in Nat
  PROVE  Bytes(from, k) \o Bytes(from + k, n) = Bytes(from, k + n)
  <1> DEFINE s == Bytes(from, k)
             t == Bytes(from + k, n)
             u == Bytes(from, k + n)
  <1>n. from + k \in Nat /\ k + n \in Nat  OBVIOUS
  <1>1. s \in Seq(Nat) /\ Len(s) = k  BY BytesType
  <1>2. t \in Seq(Nat) /\ Len(t) = n  BY <1>n, BytesType
  <1>3. ASSUME NEW i \in 1..(k + n)
        PROVE  (i <= k => s[i] = u[i]) /\ (i > k => t[i - k] = u[i])
    <2>1. u[i] = from + i  BY DEF Bytes
    <2>2. CASE i <= k  BY <2>1, <2>2 DEF Bytes
    <2>3. CASE i > k
      <3>1. i - k \in 1..n  BY <2>3
      <3>2. t[i - k] = from + k + (i - k)  BY <3>1 DEF Bytes
      <3>3. QED  BY <2>1, <2>3, <3>2
    <2>4. QED  BY <2>2, <2>3
  <1>4. u \in Seq(Nat) /\ Len(u) = k + n  BY <1>n, BytesType
  <1> HIDE DEF s, t, u
  <1>5. /\ s \o t \in Seq(Nat) /\ Len(s \o t) = k + n
        /\ \A i \in 1..(k + n) : (s \o t)[i] = IF i <= k THEN s[i] ELSE t[i - k]
    BY <1>1, <1>2, ConcatProperties
  <1>6. \A i \in 1..(k + n) : (s \o t)[i] = u[i]
    BY <1>3, <1>5
  <1>7. s \o t = u  BY <1>4, <1>5, <1>6, SeqEqual
  <1>8. QED  BY <1>7 DEF s, t, u

-----------------------------------------------------------------------------
(* The steps. *)

\* What is known of a request and of the buffers.
LEMMA RequestFacts ==
  ASSUME RequestTypeOK
  PROVE  /\ req.method \in {"GET", "POST", "OTHER"} /\ content_length \in Int
         /\ req.head \in Nat \ {0} /\ req.tail \in Nat /\ Len(req.roots) \in Nat
         /\ pos \in Nat /\ length \in Nat /\ body \in Seq(Nat) /\ Len(body) \in Nat
         /\ answers \in Seq(Answers)
  <1>1. req \in RequestType  BY HttpRequestAssumption DEF RequestTypeOK
  <1>2. req.number \in Int /\ req.stray.number \in Int  BY <1>1 DEF RequestType
  <1>3. content_length \in Int  BY <1>2 DEF content_length
  <1>4. QED  BY <1>1, <1>3 DEF RequestType, RequestTypeOK

\* The length found in the headers, or in what came along with them.
LEMMA LengthFacts ==
  ASSUME RequestTypeOK
  PROVE  /\ req.line \in {"ok", "bad", "long"}
         /\ LengthFound \in {"missing", "long", "number"}
  <1>1. req \in RequestType  BY HttpRequestAssumption DEF RequestTypeOK
  <1>2. /\ req.length \in {"missing", "long", "number"}
        /\ req.stray.length \in {"missing", "long", "number"}
    BY <1>1 DEF RequestType
  <1>3. QED  BY <1>1, <1>2 DEF RequestType, LengthFound

\* The length found is the same as long as the request and the header buffer are.
LEMMA LengthKept ==
  ASSUME UNCHANGED <<req, length>>
  PROVE  content_length' = content_length
  BY DEF content_length, StrayFound

\* The initial state satisfies the invariant.
LEMMA RequestInitially == RequestInit => RequestInv
  <1> SUFFICES ASSUME RequestInit PROVE RequestInv
    OBVIOUS
  <1>1. RequestTypeOK  BY DEF RequestInit, RequestTypeOK
  <1>2. QED
    BY <1>1 DEF RequestInit, RequestInv, HeadersHeld, BodyPrefix, AnswerLast, BodyExact, OneAnswer

\* An answer is the first and the last one.
LEMMA SendStep ==
  ASSUME RequestInv, phase # "closed", NEW s \in {200, 400, 403, 404, 405}, NEW r \in 0..Len(req.roots),
         err # "none" => s = 400 /\ r = 0, Send(s, r)
  PROVE  RequestInv'
  <1>f. RequestTypeOK /\ answers = <<>>  BY DEF RequestInv, AnswerLast
  <1>1. <<s, r>> \in Answers  BY DEF Answers
  <1>2. answers' = <<>> \/ answers' = << <<s, r>> >>
    BY <1>f DEF Send
  <1>3. answers' \in Seq(Answers)
    <2>1. <<>> \in Seq(Answers) /\ << <<s, r>> >> \in Seq(Answers)  BY <1>1
    <2>2. QED  BY <1>2, <2>1
  <1>4. Answers' = Answers  BY DEF Send, Answers
  <1>5. RequestTypeOK'
    BY <1>f, <1>3, <1>4 DEF Send, RequestTypeOK
  <1>6. OneAnswer'
    <2>1. CASE answers' = <<>>  BY <2>1 DEF OneAnswer
    <2>2. CASE answers' = << <<s, r>> >>
      <3>1. Len(answers') = 1 /\ DOMAIN answers' = {1} /\ answers'[1] = <<s, r>>  BY <2>2
      <3>2. err' = err  BY DEF Send
      <3>3. QED  BY <3>1, <3>2 DEF OneAnswer
    <2>3. QED  BY <1>2, <2>1, <2>2
  <1>7. QED
    BY <1>5, <1>6 DEF Send, RequestInv, HeadersHeld, BodyPrefix, AnswerLast, BodyExact

\* Closing without an answer.
LEMMA CloseStep ==
  ASSUME RequestInv, CloseSilently
  PROVE  RequestInv'
  <1>1. RequestTypeOK'  BY DEF CloseSilently, RequestInv, RequestTypeOK, Answers
  <1>2. OneAnswer'  BY DEF CloseSilently, RequestInv, OneAnswer
  <1>3. QED
    BY <1>1, <1>2 DEF CloseSilently, RequestInv, HeadersHeld, BodyPrefix, AnswerLast, BodyExact

\* A reading that fails leaves the buffers and sends nothing.
LEMMA FailStep ==
  ASSUME RequestInv, phase \notin {"failed", "closed"}, NEW code \in {"IO", "TIMEOUT", "OVERFLOW", "BADARG", "RANGE"},
         Fail(code), pos' \in Nat, length' \in Nat, UNCHANGED <<req, body, answers>>
  PROVE  RequestInv'
  <1>1. RequestTypeOK'  BY DEF Fail, RequestInv, RequestTypeOK, Answers
  <1>2. answers = <<>>  BY DEF RequestInv, AnswerLast
  <1>3. OneAnswer'  BY <1>2 DEF OneAnswer
  <1>4. QED
    BY <1>1, <1>2, <1>3 DEF Fail, RequestInv, HeadersHeld, BodyPrefix, AnswerLast, BodyExact

\* Every step preserves the invariant.
LEMMA RequestStep == RequestInv /\ [RequestNext]_request_vars => RequestInv'
  <1> SUFFICES ASSUME RequestInv, [RequestNext]_request_vars PROVE RequestInv'
    OBVIOUS
  <1>t. RequestTypeOK  BY DEF RequestInv
  <1>r. /\ req.method \in {"GET", "POST", "OTHER"} /\ content_length \in Int
        /\ req.head \in Nat \ {0} /\ req.tail \in Nat /\ Len(req.roots) \in Nat
        /\ pos \in Nat /\ length \in Nat /\ body \in Seq(Nat) /\ Len(body) \in Nat
    BY <1>t, RequestFacts
  <1>1. ASSUME NEW n \in 1..(req.head + req.tail), RecvHeaders(n)
        PROVE  RequestInv'
    <2>1. phase = "headers" /\ n \in Nat /\ pos' = pos + n /\ length' = length + n
      BY <1>1, <1>r DEF RecvHeaders
    <2>2. pos' \in Nat /\ length' \in Nat /\ pos' = length'
      BY <2>1, <1>r DEF RequestInv, HeadersHeld
    <2>3. CASE Fail("OVERFLOW")
      BY <1>1, <2>1, <2>2, <2>3, FailStep DEF RecvHeaders
    <2>4. CASE ((length' >= req.head /\ phase' = "parse") \/ phase' = "headers") /\ err' = err
      <3>1. UNCHANGED <<req, body, answers>>  BY <1>1 DEF RecvHeaders
      <3>2. RequestTypeOK'  BY <1>t, <2>2, <2>4, <3>1 DEF RequestTypeOK, Answers
      <3>3. HeadersHeld'  BY <2>2, <2>4, <3>1 DEF HeadersHeld
      <3>4. QED
        BY <2>1, <2>4, <3>1, <3>2, <3>3 DEF RequestInv, BodyPrefix, AnswerLast, BodyExact, OneAnswer
    <2>5. QED  BY <1>1, <2>1, <2>3, <2>4 DEF RecvHeaders
  <1>2. ASSUME NEW n \in 1..(req.head + req.tail), RecvBody(n)
        PROVE  RequestInv'
    <2>1. /\ phase = "body" /\ n \in Nat /\ n > 0 /\ n <= content_length - Len(body)
          /\ body' = body \o Bytes(pos, n) /\ pos' = pos + n
          /\ UNCHANGED <<req, phase, length, err, answers>>
      BY <1>2, <1>r DEF RecvBody, Lesser, InFlight
    <2>2. body = Bytes(req.head, Len(body)) /\ pos = req.head + Len(body)
      BY <2>1, <1>r DEF RequestInv, BodyPrefix
    <2>3. body' = Bytes(req.head, Len(body) + n)
      <3>n. req.head \in Nat  BY <1>r
      <3>1. Bytes(req.head, Len(body)) \o Bytes(req.head + Len(body), n) = Bytes(req.head, Len(body) + n)
        BY <1>r, <2>1, <3>n, BytesConcat
      <3>2. QED  BY <2>1, <2>2, <3>1
    <2>4. body' \in Seq(Nat) /\ Len(body') = Len(body) + n
      <3>1. req.head \in Nat /\ Len(body) + n \in Nat  BY <1>r, <2>1
      <3>2. QED  BY <2>3, <3>1, BytesType
    <2>5. RequestTypeOK'  BY <1>t, <2>1, <2>4, <1>r DEF RequestTypeOK, Answers
    <2>6. BodyPrefix'
      <3>1. req.method = "POST" /\ content_length \in 0..MaxBody  BY <2>1 DEF RequestInv, BodyPrefix
      <3>2. Len(body') <= content_length /\ pos' = req.head + Len(body')
        <4> DEFINE k == Len(body)
                   h == req.head
        <4>1. k \in Nat /\ h \in Nat /\ content_length \in Int /\ n \in Nat /\ n <= content_length - k
          BY <1>r, <2>1
        <4>2. pos' = h + k + n /\ Len(body') = k + n  BY <2>1, <2>2, <2>4
        <4> HIDE DEF k, h
        <4>3. k + n <= content_length /\ h + k + n = h + (k + n)  BY <4>1
        <4>4. QED  BY <4>2, <4>3 DEF h
      <3>3. body' = Bytes(req.head, Len(body'))  BY <2>3, <2>4
      <3>4. content_length' = content_length  BY <2>1, LengthKept
      <3>5. QED  BY <2>1, <3>1, <3>2, <3>3, <3>4 DEF BodyPrefix, Bytes
    <2>7. QED
      BY <2>1, <2>5, <2>6 DEF RequestInv, HeadersHeld, AnswerLast, BodyExact, OneAnswer
  <1>3. ASSUME NEW code \in {"IO", "TIMEOUT"}, RecvFails(code)
        PROVE  RequestInv'
    BY <1>3, <1>r, FailStep DEF RecvFails
  <1>4. CASE Parse
    <2>1. phase = "parse" /\ UNCHANGED <<req, pos, length, answers>>  BY <1>4 DEF Parse
    <2>2. CASE ParseError # "none" /\ Fail(ParseError) /\ UNCHANGED body
      <3>1. ParseError \in {"BADARG", "OVERFLOW", "RANGE"}  BY <2>2 DEF ParseError
      <3>2. QED  BY <2>1, <2>2, <3>1, <1>r, FailStep
    <2>3. CASE ParseError = "none" /\ req.method # "POST" /\ phase' = "dispatch" /\ UNCHANGED <<err, body>>
      <3>1. RequestTypeOK'  BY <1>t, <2>1, <2>3 DEF RequestTypeOK, Answers
      <3>2. QED
        BY <2>1, <2>3, <3>1 DEF RequestInv, HeadersHeld, BodyPrefix, AnswerLast, BodyExact,
           OneAnswer
    <2>4. CASE /\ ParseError = "none" /\ req.method = "POST" /\ body' = EarlyBody
               /\ phase' = "body" /\ UNCHANGED err
      <3>1. content_length \in 0..MaxBody
        <4>1. req.line \in {"ok", "bad", "long"} /\ LengthFound \in {"missing", "long", "number"}
          BY <1>t, LengthFacts
        <4>2. QED  BY <2>4, <4>1 DEF ParseError
      <3>m. MaxBody \in Nat  BY HttpRequestAssumption
      <3>2. length >= req.head /\ pos = length  BY <2>1 DEF RequestInv, HeadersHeld
      <3>3. PICK k \in Nat : /\ k = Lesser(length - req.head, content_length)
                             /\ k <= content_length /\ (k < content_length => k = length - req.head)
        BY <3>1, <3>2, <3>m, <1>r DEF Lesser
      <3>4. body' = Bytes(req.head, k) /\ body' \in Seq(Nat) /\ Len(body') = k
        BY <2>4, <3>3, <1>r, BytesType DEF EarlyBody
      <3>5. RequestTypeOK'  BY <1>t, <2>1, <2>4, <3>4 DEF RequestTypeOK, Answers
      <3>l. content_length' = content_length  BY <2>1, LengthKept
      <3>6. BodyPrefix'
        BY <1>r, <2>1, <2>4, <3>1, <3>2, <3>3, <3>4, <3>l DEF BodyPrefix
      <3>7. QED
        BY <2>1, <2>4, <3>5, <3>6 DEF RequestInv, HeadersHeld, AnswerLast, BodyExact, OneAnswer
    <2>5. QED  BY <1>4, <2>2, <2>3, <2>4 DEF Parse
  <1>5. CASE BodyRead
    <2>1. /\ phase = "body" /\ phase' = "dispatch"
          /\ UNCHANGED <<req, pos, length, body, err, answers>>
      BY <1>5 DEF BodyRead
    <2>2. Len(body) = content_length /\ body = Bytes(req.head, content_length)
      <3>1. Len(body) >= content_length /\ Len(body) <= content_length /\ body = Bytes(req.head, Len(body))
        BY <1>5 DEF BodyRead, RequestInv, BodyPrefix
      <3>2. Len(body) = content_length  BY <3>1, <1>r
      <3>3. QED  BY <3>1, <3>2
    <2>3. RequestTypeOK'  BY <1>t, <2>1 DEF RequestTypeOK, Answers
    <2>l. content_length' = content_length  BY <2>1, LengthKept
    <2>4. BodyExact'  BY <2>1, <2>2, <2>l DEF BodyExact, Bytes
    <2>5. QED
      BY <2>1, <2>3, <2>4 DEF RequestInv, HeadersHeld, BodyPrefix, AnswerLast, OneAnswer
  <1>6. CASE Refuse
    BY <1>6, <1>r, SendStep, CloseStep DEF Refuse
  <1>7. CASE HandleGet
    <2>1. phase = "dispatch" /\ err = "none"  BY <1>7 DEF HandleGet, RequestInv, AnswerLast
    <2>2. \/ Send(403, 0) \/ Send(404, 0) \/ CloseSilently
          \/ \E i \in DOMAIN req.roots : Send(200, i)
      BY <1>7 DEF HandleGet
    <2>3. DOMAIN req.roots = 1..Len(req.roots)
      BY <1>t, HttpRequestAssumption DEF RequestTypeOK, RequestType
    <2>4. QED  BY <1>r, <2>1, <2>2, <2>3, SendStep, CloseStep
  <1>8. CASE HandlePost
    BY <1>8, <1>r, SendStep, CloseStep DEF HandlePost, RequestInv, AnswerLast
  <1>9. CASE HandleOther
    BY <1>9, <1>r, SendStep DEF HandleOther, RequestInv, AnswerLast
  <1>10. CASE UNCHANGED request_vars
    <2>1. content_length' = content_length  BY <1>10, LengthKept DEF request_vars
    <2>2. QED
      BY <1>10, <2>1 DEF request_vars, RequestInv, RequestTypeOK, Answers, HeadersHeld, BodyPrefix,
         AnswerLast, BodyExact, OneAnswer, Bytes
  <1>11. QED
    BY <1>1, <1>2, <1>3, <1>4, <1>5, <1>6, <1>7, <1>8, <1>9, <1>10 DEF RequestNext

-----------------------------------------------------------------------------

\* The client task stays in its invariant.
THEOREM RequestCorrect == RequestSpec => []RequestInv
  BY RequestInitially, RequestStep, PTL DEF RequestSpec

\* However TCP cuts a POST up, and whatever follows it, the callback gets exactly
\* the Content-Length bytes after the headers: what _read_http_request copies
\* from the header buffer and what it receives afterwards fit together.
THEOREM BodyExactHolds == RequestSpec => []BodyExact
  BY RequestCorrect, PTL DEF RequestInv

\* No connection gets two responses, and one whose request could not be read gets
\* a 400 or nothing.
THEOREM OneAnswerHolds == RequestSpec => []OneAnswer
  BY RequestCorrect, PTL DEF RequestInv
=============================================================================
