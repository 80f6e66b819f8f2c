---------------------------- MODULE TaskerProofs -----------------------------
(***************************************************************************)
(* Proofs about one tasker, for any number of callers and of threads.      *)
(*                                                                         *)
(* dttasker_start tests whether the tasker runs before it takes the lock,  *)
(* and dttasker_join releases the lock around pthread_join, so the         *)
(* theorems hold under the duty the code leaves to its users: one thread,  *)
(* the owner, starts and joins the tasker.  Anybody may stop it.           *)
(***************************************************************************)
EXTENDS Tasker, TLAPS

\* Whoever starts the tasker is also the one who joins and disposes it.
OneOwner == \A c, d \in Starters \cup Joiners : c = d

NoneAlive == \A t \in Tids : ~Alive(t)

\* self->thread is the youngest thread, and only that one can be alive.
YoungestAlive ==
    \A t \in Tids : /\ tpc[t] = "none" <=> t > thread
                    /\ Alive(t) => t = thread

\* What a caller in the middle of a call may rely on.
CallersOK ==
    \A c \in Callers :
        /\ cpc[c] # "idle" => c \in Starters \cup Joiners /\ ~disposed
        /\ cpc[c] \in {"start_reset", "start_create"} => NoneAlive
        /\ cpc[c] = "start_create" => ~thread_exited
        /\ cpc[c] \in {"start_mark", "start_wait", "join_thread"} => handle[c] = thread
        /\ cpc[c] \in {"start_mark", "start_wait"} => thread \in Tids
        /\ cpc[c] \in {"join_recheck", "join_thread", "join_mark"} => thread_exited

\* The flags that the unlocked tests read tell whether a thread is alive.
FlagsOK ==
    /\ thread_exited => NoneAlive
    /\ NoneAlive \/ thread_created \/ \E c \in Callers : cpc[c] = "start_mark"

Starting == \E c \in Callers : cpc[c] \in {"start_mark", "start_wait"}

\* Each thread posts the ready semaphore once, and the start that created it
\* takes that token: none is left for the next start.
TokenOK ==
    /\ sem = IF Starting /\ thread \in posted THEN 1 ELSE 0
    /\ NoneAlive \/ Starting \/ thread \in posted

PostsOK ==
    \A t \in Tids :
        /\ t \in posted => t <= thread
        /\ Alive(t) /\ t \in posted => ready_posted
        /\ tpc[t] \in {"entry", "ready_status", "ready_posted", "error_posted"} => t \notin posted
        /\ tpc[t] \in {"ready_posted", "error_posted"} => ready_posted

StatusOK ==
    \A t \in Tids :
        (\/ tpc[t] \in {"ready_status", "ready_posted", "running"}
         \/ tpc[t] = "returned" /\ t \in posted) => status = "RUNNING"

IInv ==
    /\ TypeOK /\ YoungestAlive /\ CallersOK /\ FlagsOK
    /\ TokenOK /\ PostsOK /\ StatusOK /\ DisposedUnused

USE DEF Tids

\* Only the owner is ever in the middle of a call.
LEMMA OthersIdle ==
    ASSUME OneOwner, CallersOK, NEW c \in Starters \cup Joiners
    PROVE  \A d \in Callers \ {c} : cpc[d] = "idle"
BY DEF OneOwner, CallersOK

(***************************************************************************)
(* Each step of the owner keeps the invariant                              *)
(***************************************************************************)
\* The unlocked test passes only when no thread is alive.
LEMMA StartCheckStep ==
    ASSUME OneOwner, IInv, NEW c \in Starters \cup Joiners, StartCheck(c)
    PROVE  IInv'
<1>o. \A d \in Callers \ {c} : cpc[d] = "idle"
    BY OthersIdle DEF IInv
<1>c. c \in Callers
    BY CallersAssumption
<1>1. TypeOK'
    BY <1>c DEF IInv, StartCheck, TypeOK, CallerPlaces, Goto, tasker, tasks
<1>2. CallersOK'
    BY <1>o DEF IInv, StartCheck, CallersOK, NoneAlive, Alive, FlagsOK, Goto, tasker,
       tasks
<1>3. FlagsOK'
    BY <1>o DEF IInv, StartCheck, FlagsOK, NoneAlive, Alive, tasks
<1>4. YoungestAlive' /\ TokenOK' /\ PostsOK' /\ StatusOK' /\ DisposedUnused'
    BY DEF IInv, StartCheck, YoungestAlive, Alive, TokenOK, Starting, NoneAlive,
       PostsOK, StatusOK, DisposedUnused, tasker, tasks, Goto
<1> QED
    BY <1>1, <1>2, <1>3, <1>4 DEF IInv

\* The flags that start clears belong to a thread that is gone.
LEMMA StartResetStep ==
    ASSUME OneOwner, IInv, NEW c \in Starters \cup Joiners, StartReset(c)
    PROVE  IInv'
<1>o. \A d \in Callers \ {c} : cpc[d] = "idle"
    BY OthersIdle DEF IInv
<1>c. c \in Callers
    BY CallersAssumption
<1>1. TypeOK'
    BY <1>c DEF IInv, StartReset, TypeOK, CallerPlaces, Goto, tasks
<1>2. CallersOK'
    BY <1>o DEF IInv, StartReset, CallersOK, NoneAlive, Alive, Goto, tasks
<1>3. FlagsOK'
    BY <1>o DEF IInv, StartReset, FlagsOK, NoneAlive, Alive, tasks
<1>4. PostsOK'
    BY <1>c DEF IInv, StartReset, PostsOK, Alive, CallersOK, NoneAlive, tasks
<1>5. DisposedUnused'
    BY <1>c DEF IInv, StartReset, DisposedUnused, CallersOK
<1>6. YoungestAlive' /\ TokenOK' /\ StatusOK'
    BY DEF IInv, StartReset, YoungestAlive, Alive, TokenOK, Starting, NoneAlive,
       StatusOK, tasks, Goto
<1> QED
    BY <1>1, <1>2, <1>3, <1>4, <1>5, <1>6 DEF IInv

\* The new thread is the youngest, has not posted, and is alone.
LEMMA StartCreateStep ==
    ASSUME OneOwner, IInv, NEW c \in Starters \cup Joiners, StartCreate(c)
    PROVE  IInv'
<1>o. \A d \in Callers \ {c} : cpc[d] = "idle"
    BY OthersIdle DEF IInv
<1>c. c \in Callers
    BY CallersAssumption
<1>t. /\ thread + 1 \in Tids /\ thread' = thread + 1
      /\ tpc' = [tpc EXCEPT ![thread + 1] = "entry"]
      /\ handle' = [handle EXCEPT ![c] = thread + 1]
  <2>1. PICK t \in Tids : /\ \A u \in Tids : tpc[u] = "none" <=> u >= t
                          /\ thread' = t /\ TaskGoto(t, "entry")
                          /\ handle' = [handle EXCEPT ![c] = t]
    BY DEF StartCreate
  <2>2. /\ thread \in 0..MaxThreads
        /\ \A u \in Tids : tpc[u] = "none" <=> u > thread
    BY BoundsAssumption DEF IInv, TypeOK, NoThread, YoungestAlive
  <2>3. t > thread /\ ~(t > thread + 1)
    BY <2>1, <2>2, BoundsAssumption
  <2>4. t = thread + 1
    BY <2>2, <2>3, BoundsAssumption
  <2> QED
    BY <2>1, <2>4 DEF TaskGoto
<1>1. TypeOK'
    BY <1>c, <1>t DEF IInv, StartCreate, TypeOK, CallerPlaces, TaskPlaces, Goto
<1>2. YoungestAlive'
    BY <1>c, <1>t DEF IInv, StartCreate, TypeOK, YoungestAlive, Alive, CallersOK,
       NoneAlive
<1>3. CallersOK'
    BY <1>o DEF IInv, StartCreate, TypeOK, CallersOK, Goto
<1>4. FlagsOK'
    BY <1>c DEF IInv, StartCreate, TypeOK, FlagsOK, CallersOK, Goto
<1>5. TokenOK'
    BY <1>o, <1>c, <1>t DEF IInv, StartCreate, TypeOK, TokenOK, Starting, Alive,
       CallersOK, YoungestAlive, PostsOK, Goto
<1>6. PostsOK'
    BY <1>t DEF IInv, StartCreate, TypeOK, PostsOK, Alive
<1>7. StatusOK'
    BY <1>t DEF IInv, StartCreate, StatusOK
<1>8. DisposedUnused'
    BY <1>c DEF IInv, StartCreate, DisposedUnused, CallersOK
<1> QED
    BY <1>1, <1>2, <1>3, <1>4, <1>5, <1>6, <1>7, <1>8 DEF IInv

\* A pthread_create that fails leaves no thread behind.
LEMMA StartCreateFailsStep ==
    ASSUME OneOwner, IInv, NEW c \in Starters \cup Joiners, StartCreateFails(c)
    PROVE  IInv'
<1>o. \A d \in Callers \ {c} : cpc[d] = "idle"
    BY OthersIdle DEF IInv
<1>c. c \in Callers
    BY CallersAssumption
<1>1. TypeOK'
    BY <1>c DEF IInv, StartCreateFails, TypeOK, CallerPlaces, Goto, tasker, tasks
<1>2. FlagsOK'
    BY <1>o DEF IInv, StartCreateFails, FlagsOK, NoneAlive, Alive, tasker, tasks
<1>3. DisposedUnused'
    BY <1>c DEF IInv, StartCreateFails, DisposedUnused, CallersOK, tasker
<1>4. YoungestAlive' /\ CallersOK' /\ TokenOK' /\ PostsOK' /\ StatusOK'
    BY DEF IInv, StartCreateFails, YoungestAlive, Alive, CallersOK, NoneAlive, TokenOK,
       Starting, PostsOK, StatusOK, tasker, tasks, Goto
<1> QED
    BY <1>1, <1>2, <1>3, <1>4 DEF IInv

\* thread_created takes over from the start that is still under way.
LEMMA StartMarkStep ==
    ASSUME OneOwner, IInv, NEW c \in Starters \cup Joiners, StartMark(c)
    PROVE  IInv'
<1>o. \A d \in Callers \ {c} : cpc[d] = "idle"
    BY OthersIdle DEF IInv
<1>c. c \in Callers
    BY CallersAssumption
<1>1. TypeOK'
    BY <1>c DEF IInv, StartMark, TypeOK, CallerPlaces, Goto, tasks
<1>2. CallersOK'
    BY <1>o DEF IInv, StartMark, CallersOK, Goto
<1>3. TokenOK'
    BY <1>c DEF IInv, StartMark, TokenOK, Starting, Goto, tasks
<1>4. DisposedUnused'
    BY <1>c DEF IInv, StartMark, DisposedUnused, CallersOK
<1>5. YoungestAlive' /\ FlagsOK' /\ PostsOK' /\ StatusOK'
    BY DEF IInv, StartMark, YoungestAlive, Alive, FlagsOK, NoneAlive, PostsOK, StatusOK,
       tasks
<1> QED
    BY <1>1, <1>2, <1>3, <1>4, <1>5 DEF IInv

\* The start takes the one token its thread posts.
LEMMA StartWaitStep ==
    ASSUME OneOwner, IInv, NEW c \in Starters \cup Joiners, StartWait(c)
    PROVE  IInv'
<1>o. \A d \in Callers \ {c} : cpc[d] = "idle"
    BY OthersIdle DEF IInv
<1>c. c \in Callers
    BY CallersAssumption
<1>1. TypeOK'
    BY <1>c DEF IInv, StartWait, TypeOK, CallerPlaces, Goto, tasks
<1>2. CallersOK'
    BY <1>o DEF IInv, StartWait, CallersOK, Goto
<1>3. FlagsOK'
    BY <1>o DEF IInv, StartWait, FlagsOK, NoneAlive, Alive, tasks
<1>4. TokenOK'
    BY <1>o DEF IInv, StartWait, TypeOK, TokenOK, Starting, Goto, tasks
<1>5. DisposedUnused'
    BY <1>c DEF IInv, StartWait, DisposedUnused, CallersOK
<1>6. YoungestAlive' /\ PostsOK' /\ StatusOK'
    BY DEF IInv, StartWait, YoungestAlive, Alive, PostsOK, StatusOK, tasks
<1> QED
    BY <1>1, <1>2, <1>3, <1>4, <1>5, <1>6 DEF IInv

\* A join that begins relies on nothing yet.
LEMMA JoinSnapshotStep ==
    ASSUME OneOwner, IInv, NEW c \in Starters \cup Joiners, NEW finite \in BOOLEAN,
           JoinSnapshot(c, finite)
    PROVE  IInv'
<1>o. \A d \in Callers \ {c} : cpc[d] = "idle"
    BY OthersIdle DEF IInv
<1>c. c \in Callers
    BY CallersAssumption
<1>1. TypeOK'
    BY <1>c DEF IInv, JoinSnapshot, TypeOK, CallerPlaces, Goto, tasker, tasks
<1>2. CallersOK'
    BY <1>o DEF JoinSnapshot, CallersOK, Goto, tasker
<1>3. YoungestAlive' /\ FlagsOK' /\ TokenOK' /\ PostsOK' /\ StatusOK' /\ DisposedUnused'
    BY DEF IInv, JoinSnapshot, YoungestAlive, Alive, FlagsOK, NoneAlive, TokenOK,
       Starting, PostsOK, StatusOK, DisposedUnused, tasker, tasks, Goto
<1> QED
    BY <1>1, <1>2, <1>3 DEF IInv

\* No thread is alive once the join has seen thread_exited.
LEMMA JoinSeesExitStep ==
    ASSUME OneOwner, IInv, NEW c \in Starters \cup Joiners, JoinSeesExit(c)
    PROVE  IInv'
<1>o. \A d \in Callers \ {c} : cpc[d] = "idle"
    BY OthersIdle DEF IInv
<1>c. c \in Callers
    BY CallersAssumption
<1>1. TypeOK'
    BY <1>c DEF IInv, JoinSeesExit, TypeOK, CallerPlaces, Goto, tasker, tasks
<1>2. CallersOK'
    BY <1>o DEF IInv, JoinSeesExit, CallersOK, Goto, tasker
<1>3. DisposedUnused'
    BY <1>c DEF IInv, JoinSeesExit, DisposedUnused, CallersOK, tasker
<1>4. YoungestAlive' /\ FlagsOK' /\ TokenOK' /\ PostsOK' /\ StatusOK'
    BY DEF IInv, JoinSeesExit, YoungestAlive, Alive, FlagsOK, NoneAlive, TokenOK,
       Starting, PostsOK, StatusOK, tasker, tasks, Goto
<1> QED
    BY <1>1, <1>2, <1>3, <1>4 DEF IInv

\* A join that gives up changes nothing.
LEMMA JoinTimesOutStep ==
    ASSUME OneOwner, IInv, NEW c \in Starters \cup Joiners, JoinTimesOut(c)
    PROVE  IInv'
<1>o. \A d \in Callers \ {c} : cpc[d] = "idle"
    BY OthersIdle DEF IInv
<1>c. c \in Callers
    BY CallersAssumption
<1>1. TypeOK'
    BY <1>c DEF IInv, JoinTimesOut, TypeOK, CallerPlaces, Goto, tasker, tasks
<1>2. CallersOK'
    BY <1>o DEF IInv, JoinTimesOut, CallersOK, Goto, tasker
<1>3. FlagsOK'
    BY <1>o DEF IInv, JoinTimesOut, FlagsOK, NoneAlive, Alive, tasker, tasks
<1>4. DisposedUnused'
    BY <1>c DEF IInv, JoinTimesOut, DisposedUnused, CallersOK, tasker
<1>5. YoungestAlive' /\ TokenOK' /\ PostsOK' /\ StatusOK'
    BY DEF IInv, JoinTimesOut, YoungestAlive, Alive, TokenOK, Starting, NoneAlive,
       PostsOK, StatusOK, tasker, tasks, Goto
<1> QED
    BY <1>1, <1>2, <1>3, <1>4, <1>5 DEF IInv

\* The thread to join is the youngest one.
LEMMA JoinRecheckStep ==
    ASSUME OneOwner, IInv, NEW c \in Starters \cup Joiners, JoinRecheck(c)
    PROVE  IInv'
<1>o. \A d \in Callers \ {c} : cpc[d] = "idle"
    BY OthersIdle DEF IInv
<1>c. c \in Callers
    BY CallersAssumption
<1>1. TypeOK'
    BY <1>c DEF IInv, JoinRecheck, TypeOK, CallerPlaces, Goto, tasker, tasks
<1>2. CallersOK'
    BY <1>o DEF IInv, JoinRecheck, TypeOK, CallersOK, Goto, tasker
<1>3. FlagsOK'
    BY <1>o DEF IInv, JoinRecheck, FlagsOK, NoneAlive, Alive, tasker, tasks
<1>4. TokenOK'
    BY DEF IInv, JoinRecheck, TypeOK, TokenOK, Starting, NoneAlive, Alive, Goto, tasker,
       tasks
<1>5. DisposedUnused'
    BY <1>c DEF IInv, JoinRecheck, DisposedUnused, CallersOK, tasker
<1>6. YoungestAlive' /\ PostsOK' /\ StatusOK'
    BY DEF IInv, JoinRecheck, YoungestAlive, Alive, PostsOK, StatusOK, tasker, tasks
<1> QED
    BY <1>1, <1>2, <1>3, <1>4, <1>5, <1>6 DEF IInv

\* pthread_join returns; the flags are not touched yet.
LEMMA JoinThreadStep ==
    ASSUME OneOwner, IInv, NEW c \in Starters \cup Joiners, JoinThread(c)
    PROVE  IInv'
<1>o. \A d \in Callers \ {c} : cpc[d] = "idle"
    BY OthersIdle DEF IInv
<1>c. c \in Callers
    BY CallersAssumption
<1>j. joins' \in [Tids -> Nat]
  <2>1. \A t \in Tids : joins'[t] \in Nat
    BY DEF IInv, TypeOK, JoinThread
  <2> QED
    BY <2>1 DEF IInv, TypeOK, JoinThread
<1>1. TypeOK'
    BY <1>c, <1>j DEF IInv, JoinThread, TypeOK, CallerPlaces, Goto, tasker
<1>2. CallersOK'
    BY <1>o DEF IInv, JoinThread, CallersOK, Goto, tasker
<1>3. FlagsOK'
    BY <1>o DEF IInv, JoinThread, FlagsOK, NoneAlive, Alive, tasker
<1>4. DisposedUnused'
    BY <1>c DEF IInv, JoinThread, DisposedUnused, CallersOK, tasker
<1>5. YoungestAlive' /\ TokenOK' /\ PostsOK' /\ StatusOK'
    BY DEF IInv, JoinThread, YoungestAlive, Alive, TokenOK, Starting, NoneAlive,
       PostsOK, StatusOK, tasker, Goto
<1> QED
    BY <1>1, <1>2, <1>3, <1>4, <1>5 DEF IInv

\* thread_created is cleared only after the thread is gone.
LEMMA JoinMarkStep ==
    ASSUME OneOwner, IInv, NEW c \in Starters \cup Joiners, JoinMark(c)
    PROVE  IInv'
<1>o. \A d \in Callers \ {c} : cpc[d] = "idle"
    BY OthersIdle DEF IInv
<1>c. c \in Callers
    BY CallersAssumption
<1>1. TypeOK'
    BY <1>c DEF IInv, JoinMark, TypeOK, CallerPlaces, Goto, tasks
<1>2. CallersOK'
    BY <1>o DEF IInv, JoinMark, CallersOK, Goto
<1>3. FlagsOK'
    BY <1>c DEF IInv, JoinMark, FlagsOK, NoneAlive, Alive, CallersOK, tasks
<1>4. DisposedUnused'
    BY <1>c DEF IInv, JoinMark, DisposedUnused, CallersOK
<1>5. YoungestAlive' /\ TokenOK' /\ PostsOK' /\ StatusOK'
    BY DEF IInv, JoinMark, YoungestAlive, Alive, TokenOK, Starting, NoneAlive, PostsOK,
       StatusOK, tasks, Goto
<1> QED
    BY <1>1, <1>2, <1>3, <1>4, <1>5 DEF IInv

(***************************************************************************)
(* So do a stop by anybody, a dispose, and the task threads                *)
(***************************************************************************)
\* A stop only sets stop_requested.
LEMMA StopStep ==
    ASSUME IInv, NEW c \in Callers, Stop(c)
    PROVE  IInv'
<1>1. TypeOK'
    BY DEF IInv, Stop, TypeOK, callers, tasks
<1>2. /\ YoungestAlive' /\ CallersOK' /\ FlagsOK' /\ TokenOK'
      /\ PostsOK' /\ StatusOK' /\ DisposedUnused'
    BY DEF IInv, Stop, YoungestAlive, Alive, CallersOK, NoneAlive, FlagsOK, TokenOK,
       Starting, PostsOK, StatusOK, DisposedUnused, callers, tasks
<1> QED
    BY <1>1, <1>2 DEF IInv

\* A tasker that is not created any more has no thread.
LEMMA DisposeStep ==
    ASSUME IInv, NEW c \in Callers, Dispose(c)
    PROVE  IInv'
<1>1. TypeOK'
    BY DEF IInv, Dispose, TypeOK, callers, tasks
<1>2. DisposedUnused'
    BY DEF IInv, Dispose, DisposedUnused, Alive, NoneAlive, FlagsOK, tasks
<1>3. YoungestAlive' /\ CallersOK' /\ FlagsOK' /\ TokenOK' /\ PostsOK' /\ StatusOK'
    BY DEF IInv, Dispose, YoungestAlive, Alive, CallersOK, FlagsOK, NoneAlive, TokenOK,
       Starting, PostsOK, StatusOK, callers, tasks
<1> QED
    BY <1>1, <1>2, <1>3 DEF IInv

\* The status is RUNNING before the ready semaphore is posted.
LEMMA TaskReadyStep ==
    ASSUME IInv, NEW t \in Tids, TaskReady(t)
    PROVE  IInv'
<1>1. TypeOK'
    BY DEF IInv, TaskReady, TypeOK, TaskPlaces, TaskGoto, callers
<1>2. YoungestAlive'
    BY BoundsAssumption DEF IInv, TaskReady, TypeOK, YoungestAlive, Alive, TaskGoto
<1>3. PostsOK'
    BY BoundsAssumption DEF IInv, TaskReady, TypeOK, PostsOK, Alive, TaskGoto
<1>4. CallersOK' /\ FlagsOK' /\ TokenOK' /\ StatusOK' /\ DisposedUnused'
    BY DEF IInv, TaskReady, CallersOK, NoneAlive, Alive, FlagsOK, TokenOK, Starting,
       StatusOK, DisposedUnused, callers
<1> QED
    BY <1>1, <1>2, <1>3, <1>4 DEF IInv

\* The flag is set before the post, by a thread that has not posted.
LEMMA TaskReadyMarkStep ==
    ASSUME IInv, NEW t \in Tids, TaskReadyMark(t)
    PROVE  IInv'
<1>1. TypeOK'
    BY DEF IInv, TaskReadyMark, PostReadyOnce, TypeOK, TaskPlaces, TaskGoto, callers
<1>2. YoungestAlive'
    BY DEF IInv, TaskReadyMark, PostReadyOnce, YoungestAlive, Alive, TaskGoto
<1>3. CallersOK'
    BY DEF IInv, TaskReadyMark, PostReadyOnce, CallersOK, NoneAlive, Alive, callers
<1>4. FlagsOK'
    BY DEF IInv, TaskReadyMark, PostReadyOnce, FlagsOK, NoneAlive, Alive, callers
<1>5. TokenOK'
    BY DEF IInv, TaskReadyMark, PostReadyOnce, TokenOK, Starting, NoneAlive, Alive,
       callers
<1>6. PostsOK'
    BY DEF IInv, TaskReadyMark, PostReadyOnce, PostsOK, TaskGoto
<1>7. StatusOK'
    BY DEF IInv, TaskReadyMark, PostReadyOnce, StatusOK
<1>8. DisposedUnused'
    BY DEF IInv, TaskReadyMark, PostReadyOnce, DisposedUnused, Alive
<1> QED
    BY <1>1, <1>2, <1>3, <1>4, <1>5, <1>6, <1>7, <1>8 DEF IInv

\* The one post of the thread finds its start still waiting.
LEMMA TaskReadyPostStep ==
    ASSUME IInv, NEW t \in Tids, TaskReadyPost(t)
    PROVE  IInv'
<1>1. TypeOK'
    BY DEF IInv, TaskReadyPost, PostReady, TypeOK, TaskPlaces, TaskGoto, callers
<1>2. YoungestAlive'
    BY DEF IInv, TaskReadyPost, PostReady, YoungestAlive, Alive, TaskGoto
<1>3. CallersOK'
    BY DEF IInv, TaskReadyPost, PostReady, CallersOK, NoneAlive, Alive, callers
<1>4. FlagsOK'
    BY DEF IInv, TaskReadyPost, PostReady, FlagsOK, NoneAlive, Alive, callers
<1>5. TokenOK'
    BY DEF IInv, TaskReadyPost, PostReady, TokenOK, Starting, NoneAlive, Alive,
       YoungestAlive, PostsOK, callers
<1>6. PostsOK'
    BY DEF IInv, TaskReadyPost, PostReady, TypeOK, PostsOK, YoungestAlive, TaskGoto
<1>7. StatusOK'
    BY DEF IInv, TaskReadyPost, PostReady, StatusOK
<1>8. DisposedUnused'
    BY DEF IInv, TaskReadyPost, PostReady, DisposedUnused, Alive
<1> QED
    BY <1>1, <1>2, <1>3, <1>4, <1>5, <1>6, <1>7, <1>8 DEF IInv

\* The entry point returns.
LEMMA TaskReturnsStep ==
    ASSUME IInv, NEW t \in Tids, NEW err \in BOOLEAN, TaskReturns(t, err)
    PROVE  IInv'
<1>1. TypeOK'
    BY DEF IInv, TaskReturns, TypeOK, TaskPlaces, TaskGoto, tasker, callers
<1>2. YoungestAlive'
    BY DEF IInv, TaskReturns, YoungestAlive, Alive, TaskGoto, tasker
<1>3. PostsOK'
    BY DEF IInv, TaskReturns, PostsOK, Alive, TaskGoto, tasker
<1>4. StatusOK'
    BY DEF IInv, TaskReturns, StatusOK, PostsOK, TaskGoto, tasker
<1>5. CallersOK' /\ FlagsOK' /\ TokenOK' /\ DisposedUnused'
    BY DEF IInv, TaskReturns, CallersOK, NoneAlive, Alive, FlagsOK, TokenOK, Starting,
       DisposedUnused, tasker, callers
<1> QED
    BY <1>1, <1>2, <1>3, <1>4, <1>5 DEF IInv

\* The entry point returns because it was told to stop.
LEMMA TaskStopsStep ==
    ASSUME IInv, NEW t \in Tids, TaskStops(t)
    PROVE  IInv'
<1>1. TypeOK'
    BY DEF IInv, TaskStops, TypeOK, TaskPlaces, TaskGoto, tasker, callers
<1>2. YoungestAlive'
    BY DEF IInv, TaskStops, YoungestAlive, Alive, TaskGoto, tasker
<1>3. PostsOK'
    BY DEF IInv, TaskStops, PostsOK, Alive, TaskGoto, tasker
<1>4. CallersOK' /\ FlagsOK' /\ TokenOK' /\ StatusOK' /\ DisposedUnused'
    BY DEF IInv, TaskStops, CallersOK, NoneAlive, Alive, FlagsOK, TokenOK, Starting,
       StatusOK, DisposedUnused, tasker, callers
<1> QED
    BY <1>1, <1>2, <1>3, <1>4 DEF IInv

\* STOPPED is stored only by a thread that is past its entry point.
LEMMA TaskStoppedStep ==
    ASSUME IInv, NEW t \in Tids, TaskStopped(t)
    PROVE  IInv'
<1>1. TypeOK'
    BY DEF IInv, TaskStopped, TypeOK, TaskPlaces, TaskGoto, callers
<1>2. YoungestAlive'
    BY DEF IInv, TaskStopped, YoungestAlive, Alive, TaskGoto
<1>3. PostsOK'
    BY DEF IInv, TaskStopped, PostsOK, Alive, TaskGoto
<1>4. StatusOK'
    BY DEF IInv, TaskStopped, TypeOK, StatusOK, Alive, YoungestAlive, TaskGoto
<1>5. CallersOK' /\ FlagsOK' /\ TokenOK' /\ DisposedUnused'
    BY DEF IInv, TaskStopped, CallersOK, NoneAlive, Alive, FlagsOK, TokenOK, Starting,
       DisposedUnused, callers
<1> QED
    BY <1>1, <1>2, <1>3, <1>4, <1>5 DEF IInv

\* An error sets the flag unless ready() has set it.
LEMMA TaskErrorMarkStep ==
    ASSUME IInv, NEW t \in Tids, TaskErrorMark(t)
    PROVE  IInv'
<1>1. TypeOK'
    BY DEF IInv, TaskErrorMark, PostReadyOnce, TypeOK, TaskPlaces, TaskGoto, callers
<1>2. YoungestAlive'
    BY DEF IInv, TaskErrorMark, PostReadyOnce, YoungestAlive, Alive, TaskGoto
<1>3. CallersOK'
    BY DEF IInv, TaskErrorMark, PostReadyOnce, CallersOK, NoneAlive, Alive, callers
<1>4. FlagsOK'
    BY DEF IInv, TaskErrorMark, PostReadyOnce, FlagsOK, NoneAlive, Alive, callers
<1>5. TokenOK'
    BY DEF IInv, TaskErrorMark, PostReadyOnce, TokenOK, Starting, NoneAlive, Alive,
       callers
<1>6. PostsOK'
    BY DEF IInv, TaskErrorMark, PostReadyOnce, PostsOK, Alive, TaskGoto
<1>7. StatusOK'
    BY DEF IInv, TaskErrorMark, PostReadyOnce, StatusOK, TaskGoto
<1>8. DisposedUnused'
    BY DEF IInv, TaskErrorMark, PostReadyOnce, DisposedUnused, Alive
<1> QED
    BY <1>1, <1>2, <1>3, <1>4, <1>5, <1>6, <1>7, <1>8 DEF IInv

\* An error wakes the start that is still waiting.
LEMMA TaskErrorPostStep ==
    ASSUME IInv, NEW t \in Tids, TaskErrorPost(t)
    PROVE  IInv'
<1>1. TypeOK'
    BY DEF IInv, TaskErrorPost, PostReady, TypeOK, TaskPlaces, TaskGoto, callers
<1>2. YoungestAlive'
    BY DEF IInv, TaskErrorPost, PostReady, YoungestAlive, Alive, TaskGoto
<1>3. CallersOK'
    BY DEF IInv, TaskErrorPost, PostReady, CallersOK, NoneAlive, Alive, callers
<1>4. FlagsOK'
    BY DEF IInv, TaskErrorPost, PostReady, FlagsOK, NoneAlive, Alive, callers
<1>5. TokenOK'
    BY DEF IInv, TaskErrorPost, PostReady, TokenOK, Starting, NoneAlive, Alive,
       YoungestAlive, PostsOK, callers
<1>6. PostsOK'
    BY DEF IInv, TaskErrorPost, PostReady, TypeOK, PostsOK, YoungestAlive, TaskGoto
<1>7. StatusOK'
    BY DEF IInv, TaskErrorPost, PostReady, StatusOK, TaskGoto
<1>8. DisposedUnused'
    BY DEF IInv, TaskErrorPost, PostReady, DisposedUnused, Alive
<1> QED
    BY <1>1, <1>2, <1>3, <1>4, <1>5, <1>6, <1>7, <1>8 DEF IInv

\* The last use of the tasker is to say that no thread is alive.
LEMMA TaskExitStep ==
    ASSUME IInv, NEW t \in Tids, TaskExit(t)
    PROVE  IInv'
<1>1. TypeOK'
    BY DEF IInv, TaskExit, TypeOK, TaskPlaces, TaskGoto, callers
<1>2. YoungestAlive'
    BY DEF IInv, TaskExit, YoungestAlive, Alive, TaskGoto
<1>3. FlagsOK'
    BY DEF IInv, TaskExit, TypeOK, FlagsOK, NoneAlive, Alive, YoungestAlive, TaskGoto
<1>4. PostsOK'
    BY DEF IInv, TaskExit, PostsOK, Alive, TaskGoto
<1>5. StatusOK'
    BY DEF IInv, TaskExit, StatusOK, TaskGoto
<1>6. CallersOK' /\ TokenOK' /\ DisposedUnused'
    BY DEF IInv, TaskExit, CallersOK, NoneAlive, Alive, TokenOK, Starting,
       DisposedUnused, callers
<1> QED
    BY <1>1, <1>2, <1>3, <1>4, <1>5, <1>6 DEF IInv

(***************************************************************************)
(* The theorems                                                            *)
(***************************************************************************)
\* dttasker_create establishes the invariant.
LEMMA TaskerInit == Init => IInv
<1> SUFFICES ASSUME Init
             PROVE  IInv
    OBVIOUS
<1>1. TypeOK
    BY DEF Init, TypeOK, CallerPlaces, TaskPlaces
<1>2. YoungestAlive
    BY BoundsAssumption DEF Init, YoungestAlive, Alive, NoThread
<1>3. CallersOK /\ FlagsOK /\ DisposedUnused
    BY DEF Init, CallersOK, FlagsOK, NoneAlive, Alive, DisposedUnused
<1>4. TokenOK /\ PostsOK /\ StatusOK
    BY DEF Init, TokenOK, Starting, NoneAlive, Alive, PostsOK, StatusOK
<1> QED
    BY <1>1, <1>2, <1>3, <1>4 DEF IInv

\* Every step of the tasker, its callers and its threads keeps it.
LEMMA TaskerStep ==
    ASSUME OneOwner, IInv, [Next]_vars
    PROVE  IInv'
<1>1. ASSUME NEW c \in Starters, StartCheck(c) \/ StartStep(c)
      PROVE  IInv'
    BY <1>1, StartCheckStep, StartResetStep, StartCreateStep, StartCreateFailsStep,
       StartMarkStep, StartWaitStep DEF StartStep
<1>2. ASSUME NEW c \in Stoppers, Stop(c)
      PROVE  IInv'
    BY <1>2, StopStep, CallersAssumption
<1>3. ASSUME NEW c \in Joiners, NEW finite \in BOOLEAN, JoinSnapshot(c, finite)
      PROVE  IInv'
    BY <1>3, JoinSnapshotStep
<1>4. ASSUME NEW c \in Joiners, JoinStep(c) \/ Dispose(c)
      PROVE  IInv'
    BY <1>4, CallersAssumption, JoinSeesExitStep, JoinTimesOutStep, JoinRecheckStep,
       JoinThreadStep, JoinMarkStep, DisposeStep DEF JoinStep
<1>5. ASSUME NEW t \in Tids, TaskStep(t) \/ TaskStops(t)
      PROVE  IInv'
    BY <1>5, TaskReadyStep, TaskReadyMarkStep, TaskReadyPostStep, TaskStoppedStep,
       TaskErrorMarkStep, TaskErrorPostStep, TaskExitStep, TaskStopsStep DEF TaskStep
<1>6. ASSUME NEW t \in Tids, NEW err \in BOOLEAN, TaskReturns(t, err)
      PROVE  IInv'
    BY <1>6, TaskReturnsStep
<1>7. CASE UNCHANGED vars
    BY <1>7
    DEF vars, tasker, callers, tasks, IInv, TypeOK, YoungestAlive, Alive, NoneAlive, CallersOK,
        FlagsOK, Starting, TokenOK, PostsOK, StatusOK, DisposedUnused
<1> QED
    BY <1>1, <1>2, <1>3, <1>4, <1>5, <1>6, <1>7 DEF Next

\* With one owner, the flags, the callers in the middle of a call and the ready
\* semaphore always agree about the one thread that may be alive.
THEOREM TaskerCorrect ==
    ASSUME OneOwner
    PROVE  Spec => []IInv
<1>1. IInv /\ [Next]_vars => IInv'
    BY TaskerStep
<1> QED
    BY <1>1, TaskerInit, PTL DEF Spec

\* The test in dttasker_start and the flags that dttasker_join resets never let
\* the entry point run in two threads, however often the tasker is restarted.
THEOREM OneThreadHolds ==
    ASSUME OneOwner
    PROVE  Spec => []OneThread
<1>1. IInv => OneThread
    BY DEF IInv, YoungestAlive, OneThread
<1> QED
    BY <1>1, TaskerCorrect, PTL

\* A tasker that its owner has joined and disposed is used by no thread.
THEOREM DisposedUnusedHolds ==
    ASSUME OneOwner
    PROVE  Spec => []DisposedUnused
<1>1. IInv => DisposedUnused
    BY DEF IInv
<1> QED
    BY <1>1, TaskerCorrect, PTL

\* The token a start takes was posted by the thread it created.
LEMMA StartTakesOwnToken ==
    ASSUME IInv, NEW c \in Callers, cpc[c] = "start_wait", sem > 0
    PROVE  /\ handle[c] \in posted
           /\ \/ status = "RUNNING"
              \/ ~Alive(handle[c])
              \/ tpc[handle[c]] \in {"stopped", "error_posted", "exiting"}
<1>1. thread \in posted
    BY DEF IInv, TokenOK
<1>2. handle[c] = thread /\ thread \in Tids
    BY DEF IInv, CallersOK
<1>3. tpc[thread] \in TaskPlaces /\ tpc[thread] # "entry"
    BY <1>1, <1>2 DEF IInv, TypeOK, PostsOK
<1>4. tpc[thread] \in {"ready_status", "ready_posted", "running", "returned"}
      => status = "RUNNING"
    BY <1>1, <1>2 DEF IInv, StatusOK
<1> QED
    BY <1>1, <1>2, <1>3, <1>4 DEF TaskPlaces, Alive

\* A start that returns has come through its wait: nobody else moves it.
LEMMA StartReturnsReady ==
    ASSUME OneOwner, IInv, [Next]_vars,
           NEW c \in Starters, cpc[c] = "start_wait", cpc'[c] = "idle"
    PROVE  StartWait(c)
<1> USE CallersAssumption
<1>1. ASSUME NEW d \in Starters, StartCheck(d) \/ StartStep(d)
      PROVE  StartWait(c)
  <2>1. d = c
      BY DEF OneOwner
  <2> QED
      BY <1>1, <2>1
      DEF IInv, TypeOK, StartCheck, StartStep, StartReset, StartCreate, StartCreateFails,
          StartMark, Goto
<1>2. ASSUME NEW d \in Stoppers, Stop(d)
      PROVE  FALSE
    BY <1>2 DEF Stop, callers
<1>3. ASSUME NEW d \in Joiners, NEW finite \in BOOLEAN, JoinSnapshot(d, finite)
      PROVE  FALSE
  <2>1. d = c
      BY DEF OneOwner
  <2> QED
      BY <1>3, <2>1 DEF JoinSnapshot
<1>4. ASSUME NEW d \in Joiners, JoinStep(d) \/ Dispose(d)
      PROVE  FALSE
  <2>1. d = c
      BY DEF OneOwner
  <2> QED
      BY <1>4, <2>1
      DEF JoinStep, JoinSeesExit, JoinTimesOut, JoinRecheck, JoinThread, JoinMark, Dispose
<1>5. ASSUME NEW t \in Tids,
             \/ TaskStep(t) \/ TaskStops(t)
             \/ \E err \in BOOLEAN : TaskReturns(t, err)
      PROVE  FALSE
    BY <1>5
    DEF TaskStep, TaskReady, TaskReadyMark, TaskReadyPost, TaskStopped, TaskErrorMark,
        TaskErrorPost, TaskExit, TaskStops, TaskReturns, PostReadyOnce, PostReady, callers
<1>6. ~ UNCHANGED vars
    BY DEF vars, callers
<1> QED
    BY <1>1, <1>2, <1>3, <1>4, <1>5, <1>6 DEF Next

\* dttasker_start returns only on the ready or the error of the thread it has
\* created, never on a token left by an earlier one.
THEOREM StartMeansReadyHolds ==
    ASSUME OneOwner
    PROVE  Spec => StartMeansReady
<1>1. IInv /\ [Next]_vars =>
        [\A c \in Starters : cpc[c] = "start_wait" /\ cpc'[c] = "idle" =>
            /\ handle[c] \in posted
            /\ status = "RUNNING" \/ ~Alive(handle[c])
               \/ tpc[handle[c]] \in {"stopped", "error_posted", "exiting"}]_vars
  <2> SUFFICES ASSUME IInv, [Next]_vars,
                      NEW c \in Starters, cpc[c] = "start_wait", cpc'[c] = "idle"
               PROVE  /\ handle[c] \in posted
                      /\ status = "RUNNING" \/ ~Alive(handle[c])
                         \/ tpc[handle[c]] \in {"stopped", "error_posted", "exiting"}
      OBVIOUS
  <2>1. sem > 0
      BY StartReturnsReady DEF StartWait
  <2> QED
      BY <2>1, StartTakesOwnToken, CallersAssumption
<1> QED
    BY <1>1, TaskerCorrect, PTL DEF Spec, StartMeansReady
=============================================================================
