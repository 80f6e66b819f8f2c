------------------------------- MODULE Tasker --------------------------------
(***************************************************************************)
(* One dttasker_t of dttasker_linux.c and the threads around it: callers   *)
(* that start, stop, join and dispose it, and the POSIX threads that       *)
(* dttasker_start creates to run the task's entry point.                   *)
(*                                                                         *)
(* A section that runs under state_lock never blocks, so it is one action. *)
(* Everything outside the lock is a step of its own.  The ready semaphore  *)
(* is its count: module Semaphore shows that a post is never lost.         *)
(***************************************************************************)
EXTENDS Integers, FiniteSets

CONSTANTS Callers,        \* threads that use the handle
          Starters,       \* those of them that call dttasker_start,
          Stoppers,       \*   dttasker_stop,
          Joiners,        \*   dttasker_join and dttasker_dispose
          MaxThreads      \* bound on the threads ever created, for model checking

ASSUME CallersAssumption == /\ Starters \subseteq Callers
                            /\ Stoppers \subseteq Callers
                            /\ Joiners \subseteq Callers
ASSUME BoundsAssumption == MaxThreads \in Nat

Tids == 1..MaxThreads
NoThread == 0

\* Places of a task thread: the entry point before it calls ready(), inside
\* ready() (status stored, ready_posted set), the entry point after it, and the
\* tail of the inception function.
TaskPlaces == {"none", "entry", "ready_status", "ready_posted", "running",
               "returned", "stopped", "error_posted", "exiting", "done"}
CallerPlaces == {"idle", "start_reset", "start_create", "start_mark", "start_wait",
                 "join_poll", "join_recheck", "join_thread", "join_mark"}

VARIABLES ready_posted, sem, status, thread, thread_created,   \* fields of dttasker_t
          stop_requested, thread_exited, thread_joined, disposed,
          cpc,        \* each caller's place
          timed,      \* the caller's join has a finite timeout
          handle,     \* the caller's thread_to_join, or the thread its start created
          tpc, terr,  \* each task thread's place, and whether its dterr is set
          posted,     \* history: task threads that posted the ready semaphore
          joins       \* history: pthread_join calls that returned, per task thread

tasker == <<ready_posted, sem, status, thread, thread_created, stop_requested,
            thread_exited, thread_joined, disposed>>
callers == <<cpc, timed, handle>>
tasks   == <<tpc, terr, posted, joins>>
vars    == <<tasker, callers, tasks>>

TypeOK ==
    /\ ready_posted \in BOOLEAN /\ sem \in Nat
    /\ status \in {"INITIALIZED", "RUNNING", "STOPPED"}
    /\ thread \in Tids \cup {NoThread}
    /\ thread_created \in BOOLEAN /\ stop_requested \in BOOLEAN
    /\ thread_exited \in BOOLEAN /\ thread_joined \in BOOLEAN /\ disposed \in BOOLEAN
    /\ cpc \in [Callers -> CallerPlaces] /\ timed \in [Callers -> BOOLEAN]
    /\ handle \in [Callers -> Tids \cup {NoThread}]
    /\ tpc \in [Tids -> TaskPlaces] /\ terr \in [Tids -> BOOLEAN]
    /\ posted \in SUBSET Tids /\ joins \in [Tids -> Nat]

\* dttasker_create.
Init ==
    /\ ready_posted = FALSE /\ sem = 0 /\ status = "INITIALIZED" /\ thread = NoThread
    /\ thread_created = FALSE /\ stop_requested = FALSE
    /\ thread_exited = FALSE /\ thread_joined = FALSE /\ disposed = FALSE
    /\ cpc = [c \in Callers |-> "idle"] /\ timed = [c \in Callers |-> FALSE]
    /\ handle = [c \in Callers |-> NoThread]
    /\ tpc = [t \in Tids |-> "none"] /\ terr = [t \in Tids |-> FALSE]
    /\ posted = {} /\ joins = [t \in Tids |-> 0]

Goto(c, place) == cpc' = [cpc EXCEPT ![c] = place]
TaskGoto(t, place) == tpc' = [tpc EXCEPT ![t] = place]

(***************************************************************************)
(* dttasker_start                                                          *)
(***************************************************************************)

\* Mutant: no test.
Mutant_StartUnchecked(c) ==
    /\ cpc[c] = "idle" /\ ~disposed
    /\ \E t \in Tids : tpc[t] = "none"
    /\ Goto(c, "start_reset")
    /\ UNCHANGED <<tasker, timed, handle, tasks>>

\* The unlocked test that refuses a second start.
StartCheck(c) ==
    /\ cpc[c] = "idle" /\ ~disposed
    /\ ~(thread_created /\ ~thread_exited)
    /\ \E t \in Tids : tpc[t] = "none"
    /\ Goto(c, "start_reset")
    /\ UNCHANGED <<tasker, timed, handle, tasks>>

StartReset(c) ==
    /\ cpc[c] = "start_reset"
    /\ ready_posted' = FALSE /\ stop_requested' = FALSE
    /\ thread_exited' = FALSE /\ thread_joined' = FALSE
    /\ Goto(c, "start_create")
    /\ UNCHANGED <<sem, status, thread, thread_created, disposed, timed, handle, tasks>>

\* pthread_create stores the new thread in self->thread; the old value is gone.
StartCreate(c) ==
    /\ cpc[c] = "start_create"
    /\ \E t \in Tids :
        /\ \A u \in Tids : tpc[u] = "none" <=> u >= t
        /\ thread' = t
        /\ handle' = [handle EXCEPT ![c] = t]
        /\ TaskGoto(t, "entry")
    /\ Goto(c, "start_mark")
    /\ UNCHANGED <<ready_posted, sem, status, thread_created, stop_requested, thread_exited,
                   thread_joined, disposed, timed, terr, posted, joins>>

\* pthread_create fails: what start_reset cleared stays cleared.
StartCreateFails(c) ==
    /\ cpc[c] = "start_create"
    /\ handle' = [handle EXCEPT ![c] = NoThread]
    /\ Goto(c, "idle")
    /\ UNCHANGED <<tasker, timed, tasks>>

StartMark(c) ==
    /\ cpc[c] = "start_mark"
    /\ thread_created' = TRUE
    /\ Goto(c, "start_wait")
    /\ UNCHANGED <<ready_posted, sem, status, thread, stop_requested, thread_exited,
                   thread_joined, disposed, timed, handle, tasks>>

\* The wait on the ready semaphore, without a timeout.
StartWait(c) ==
    /\ cpc[c] = "start_wait"
    /\ sem > 0
    /\ sem' = sem - 1
    /\ Goto(c, "idle")
    /\ UNCHANGED <<ready_posted, status, thread, thread_created, stop_requested, thread_exited,
                   thread_joined, disposed, timed, handle, tasks>>

(***************************************************************************)
(* dttasker_stop, dttasker_join, dttasker_dispose                          *)
(***************************************************************************)
Stop(c) ==
    /\ cpc[c] = "idle" /\ ~disposed
    /\ stop_requested' = TRUE
    /\ UNCHANGED <<ready_posted, sem, status, thread, thread_created, thread_exited,
                   thread_joined, disposed, callers, tasks>>

\* The snapshot: a join with nothing to wait for returns at once.
JoinSnapshot(c, finite) ==
    /\ cpc[c] = "idle" /\ ~disposed
    /\ thread_created /\ ~thread_joined
    /\ timed' = [timed EXCEPT ![c] = finite]
    /\ Goto(c, "join_poll")
    /\ UNCHANGED <<tasker, handle, tasks>>

JoinSeesExit(c) ==
    /\ cpc[c] = "join_poll"
    /\ thread_exited
    /\ Goto(c, "join_recheck")
    /\ UNCHANGED <<tasker, timed, handle, tasks>>

\* Mutant: a join that timed out marks the thread joined.
Mutant_JoinTimeoutMarks(c) ==
    /\ cpc[c] = "join_poll" /\ timed[c]
    /\ ~thread_exited
    /\ Goto(c, "join_mark")
    /\ UNCHANGED <<tasker, timed, handle, tasks>>

JoinTimesOut(c) ==
    /\ cpc[c] = "join_poll" /\ timed[c]
    /\ ~thread_exited
    /\ Goto(c, "idle")
    /\ UNCHANGED <<tasker, timed, handle, tasks>>

\* Under the lock again: another join may have been faster.
JoinRecheck(c) ==
    /\ cpc[c] = "join_recheck"
    /\ \/ /\ thread_joined \/ ~thread_created
          /\ Goto(c, "idle")
          /\ UNCHANGED handle
       \/ /\ ~thread_joined /\ thread_created
          /\ handle' = [handle EXCEPT ![c] = thread]
          /\ Goto(c, "join_thread")
    /\ UNCHANGED <<tasker, timed, tasks>>

\* pthread_join, with the lock released.
JoinThread(c) ==
    /\ cpc[c] = "join_thread"
    /\ tpc[handle[c]] = "done"
    /\ joins' = [joins EXCEPT ![handle[c]] = @ + 1]
    /\ Goto(c, "join_mark")
    /\ UNCHANGED <<tasker, timed, handle, tpc, terr, posted>>

JoinMark(c) ==
    /\ cpc[c] = "join_mark"
    /\ thread_joined' = TRUE /\ thread_created' = FALSE
    /\ Goto(c, "idle")
    /\ UNCHANGED <<ready_posted, sem, status, thread, stop_requested, thread_exited,
                   disposed, timed, handle, tasks>>

\* A caller disposes a tasker that was never started or that it has joined,
\* and that nobody else is using: that much is the caller's duty.
Dispose(c) ==
    /\ \A d \in Callers : cpc[d] = "idle"
    /\ ~disposed /\ ~thread_created
    /\ disposed' = TRUE
    /\ UNCHANGED <<ready_posted, sem, status, thread, thread_created, stop_requested,
                   thread_exited, thread_joined, callers, tasks>>

(***************************************************************************)
(* The task thread: the entry point, dttasker_ready, dttasker_poll and     *)
(* the inception function.                                                 *)
(***************************************************************************)

\* dttasker_ready stores RUNNING; the info callback may fail, and then ready()
\* fails and the entry point returns the error.
TaskReady(t) ==
    /\ tpc[t] = "entry"
    /\ status' = "RUNNING"
    /\ \/ TaskGoto(t, "ready_status") /\ UNCHANGED terr
       \/ TaskGoto(t, "returned") /\ terr' = [terr EXCEPT ![t] = TRUE]
    /\ UNCHANGED <<ready_posted, sem, thread, thread_created, stop_requested, thread_exited,
                   thread_joined, disposed, callers, posted, joins>>

\* Mutant: the flag is not looked at, so a task may post twice.
Mutant_PostReadyAgain(t, mark, skip) ==
    /\ TaskGoto(t, mark)
    /\ ready_posted' = TRUE
    /\ UNCHANGED <<sem, status, thread, thread_created, stop_requested, thread_exited,
                   thread_joined, disposed, callers, terr, posted, joins>>

\* dttasker__post_ready_once: the flag under the lock, the post outside it.
\* `mark` is the thread's place with the flag newly set, `skip` with no post due.
PostReadyOnce(t, mark, skip) ==
    /\ TaskGoto(t, IF ready_posted THEN skip ELSE mark)
    /\ ready_posted' = TRUE
    /\ UNCHANGED <<sem, status, thread, thread_created, stop_requested, thread_exited,
                   thread_joined, disposed, callers, terr, posted, joins>>

PostReady(t, next) ==
    /\ sem' = sem + 1
    /\ posted' = posted \cup {t}
    /\ TaskGoto(t, next)
    /\ UNCHANGED <<ready_posted, status, thread, thread_created, stop_requested, thread_exited,
                   thread_joined, disposed, callers, terr, joins>>

TaskReadyMark(t) == tpc[t] = "ready_status" /\ PostReadyOnce(t, "ready_posted", "running")
TaskReadyPost(t) == tpc[t] = "ready_posted" /\ PostReady(t, "running")

\* The entry point returns on its own, before or after it has called ready(),
\* with an error or without one; or because dttasker_poll told it to stop.
TaskReturns(t, err) ==
    /\ tpc[t] \in {"entry", "running"}
    /\ terr' = [terr EXCEPT ![t] = err]
    /\ TaskGoto(t, "returned")
    /\ UNCHANGED <<tasker, callers, posted, joins>>

TaskStops(t) ==
    /\ tpc[t] = "running" /\ stop_requested
    /\ TaskGoto(t, "returned")
    /\ UNCHANGED <<tasker, callers, terr, posted, joins>>

\* dttasker__thread_inception_function: STOPPED is stored, the info callback
\* may add an error, and an error wakes a start() that is still waiting.
TaskStopped(t) ==
    /\ tpc[t] = "returned"
    /\ status' = "STOPPED"
    /\ \E callbackFails \in BOOLEAN :
        /\ terr' = [terr EXCEPT ![t] = @ \/ callbackFails]
        /\ TaskGoto(t, IF terr'[t] THEN "stopped" ELSE "exiting")
    /\ UNCHANGED <<ready_posted, sem, thread, thread_created, stop_requested, thread_exited,
                   thread_joined, disposed, callers, posted, joins>>

\* Mutant: an entry point that fails does not wake start().
Mutant_ErrorUnposted(t) ==
    /\ tpc[t] = "stopped" /\ TaskGoto(t, "exiting")
    /\ UNCHANGED <<tasker, callers, terr, posted, joins>>

TaskErrorMark(t) == tpc[t] = "stopped" /\ PostReadyOnce(t, "error_posted", "exiting")
TaskErrorPost(t) == tpc[t] = "error_posted" /\ PostReady(t, "exiting")

\* Mutant: the end of the thread is not recorded.
Mutant_ExitUnmarked(t) ==
    /\ tpc[t] = "exiting"
    /\ TaskGoto(t, "done")
    /\ UNCHANGED <<tasker, callers, terr, posted, joins>>

TaskExit(t) ==
    /\ tpc[t] = "exiting"
    /\ thread_exited' = TRUE
    /\ TaskGoto(t, "done")
    /\ UNCHANGED <<ready_posted, sem, status, thread, thread_created, stop_requested,
                   thread_joined, disposed, callers, terr, posted, joins>>

StartStep(c) == StartReset(c) \/ StartCreate(c) \/ StartCreateFails(c) \/ StartMark(c) \/ StartWait(c)
JoinStep(c)  == JoinSeesExit(c) \/ JoinTimesOut(c) \/ JoinRecheck(c) \/ JoinThread(c) \/ JoinMark(c)
TaskStep(t)  == \/ TaskReady(t) \/ TaskReadyMark(t) \/ TaskReadyPost(t) \/ TaskStopped(t)
                \/ TaskErrorMark(t) \/ TaskErrorPost(t) \/ TaskExit(t)

Next ==
    \/ \E c \in Starters : StartCheck(c) \/ StartStep(c)
    \/ \E c \in Stoppers : Stop(c)
    \/ \E c \in Joiners : \/ \E finite \in BOOLEAN : JoinSnapshot(c, finite)
                          \/ JoinStep(c) \/ Dispose(c)
    \/ \E t \in Tids : TaskStep(t) \/ TaskStops(t) \/ \E err \in BOOLEAN : TaskReturns(t, err)

Spec == Init /\ [][Next]_vars

\* A call in progress goes on, and so does a task: it reaches ready() or
\* returns, and an entry point that is told to stop returns.  Nothing makes a
\* caller start, stop or join in the first place.
FairSpec ==
    /\ Spec
    /\ \A c \in Starters : WF_vars(StartStep(c))
    /\ \A c \in Joiners : WF_vars(JoinStep(c))
    /\ \A t \in Tids : WF_vars(TaskStep(t)) /\ WF_vars(TaskStops(t))

(***************************************************************************)
(* Properties                                                              *)
(***************************************************************************)

\* A thread is alive until it has stored thread_exited, its last use of self.
Alive(t) == tpc[t] \notin {"none", "done"}

\* The entry point never runs in two threads at once, across restarts.
OneThread == \A t, u \in Tids : Alive(t) /\ Alive(u) => t = u

\* A start that returns has seen the ready or the error of its own thread, not
\* a token left over from an earlier one, and the status is past INITIALIZED:
\* RUNNING, or STOPPED if the thread has come to its end meanwhile.
StartMeansReady ==
    [][\A c \in Starters : cpc[c] = "start_wait" /\ cpc'[c] = "idle" =>
          /\ handle[c] \in posted
          /\ status = "RUNNING" \/ ~Alive(handle[c])
             \/ tpc[handle[c]] \in {"stopped", "error_posted", "exiting"}]_vars

\* Once a joined tasker is disposed, no thread touches it any more.
DisposedUnused == disposed => \A t \in Tids : ~Alive(t)

\* dttasker_start returns unless its thread ended without ready() and without
\* an error, the one case in which nobody posts the semaphore it waits on.
StartReturns ==
    \A c \in Starters, t \in Tids :
        (cpc[c] = "start_wait" /\ handle[c] = t)
            ~> (cpc[c] = "idle" \/ (t \notin posted /\ tpc[t] = "done" /\ ~terr[t]))

\* A stop reaches a running task, and a join that waits for it returns.
StopThenJoin ==
    /\ \A t \in Tids : (tpc[t] = "running" /\ stop_requested) ~> ~Alive(t)
    /\ \A c \in Joiners, t \in Tids :
        (cpc[c] = "join_poll" /\ stop_requested /\ thread = t /\ tpc[t] = "running") ~> cpc[c] = "idle"
=============================================================================
