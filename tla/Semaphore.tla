------------------------------ MODULE Semaphore ------------------------------
(***************************************************************************)
(* The counting semaphore of dtsemaphore_linux.c: a count behind a mutex   *)
(* and one condition variable.  As in BufferQueue, what a thread does with *)
(* the mutex held is one action, and a thread that waits is "waiting" on   *)
(* the condition variable, "woken" (its wait will return 0) or "expired"   *)
(* (its timed wait will return ETIMEDOUT).                                 *)
(***************************************************************************)
EXTENDS Integers, FiniteSets

CONSTANTS Waiters,       \* threads that call dtsemaphore_wait
          InitialCount,  \* arguments of dtsemaphore_create
          MaxCountArg,
          MaxPosts       \* bound on the calls of dtsemaphore_post, for model checking

ASSUME WaitersAssumption == IsFiniteSet(Waiters)
ASSUME CountsAssumption == InitialCount \in Nat /\ MaxCountArg \in Nat /\ MaxPosts \in Nat

\* The timeout argument: DTTIMEOUT_FOREVER, DTTIMEOUT_NOWAIT, a finite time.
Modes == {"forever", "nowait", "timed"}

\* INT32_MAX.
NoCap == 2147483647

\* dtsemaphore_create: a maximum of zero means no explicit cap.
max_count == IF MaxCountArg = 0 THEN NoCap ELSE MaxCountArg

VARIABLES count,         \* the field of dtsemaphore_linux_t
          pc, mode,      \* each waiter's place, and the mode of its wait
          posts,         \* history: calls of dtsemaphore_post,
          dropped,       \*   those that found the count at its maximum,
          granted        \*   and waits that took a unit
vars == <<count, pc, mode, posts, dropped, granted>>

TypeOK ==
    /\ count \in Nat /\ posts \in Nat /\ dropped \in Nat /\ granted \in Nat
    /\ pc \in [Waiters -> {"idle", "waiting", "woken", "expired"}]
    /\ mode \in [Waiters -> Modes]

Init ==
    /\ count = InitialCount
    /\ pc = [w \in Waiters |-> "idle"]
    /\ mode = [w \in Waiters |-> "forever"]
    /\ posts = 0 /\ dropped = 0 /\ granted = 0

Waiting == {w \in Waiters : pc[w] = "waiting"}
Woken   == {w \in Waiters : pc[w] = "woken"}

\* Mutant: a post signals only when there was a unit before it added its own.
Mutant_SignalBeforeAdding ==
    \/ (Waiting = {} \/ count = 0) /\ UNCHANGED pc
    \/ count > 0 /\ \E w \in Waiting : pc' = [pc EXCEPT ![w] = "woken"]

Room == count < max_count

\* pthread_cond_signal.
Signal ==
    \/ Waiting = {} /\ UNCHANGED pc
    \/ \E w \in Waiting : pc' = [pc EXCEPT ![w] = "woken"]

\* dtsemaphore_post: at the maximum it does nothing and reports no error.
Post ==
    /\ posts < MaxPosts
    /\ posts' = posts + 1
    /\ \/ /\ Room
          /\ count' = count + 1
          /\ Signal
          /\ UNCHANGED dropped
       \/ /\ ~Room
          /\ dropped' = dropped + 1
          /\ UNCHANGED <<count, pc>>
    /\ UNCHANGED <<mode, granted>>

\* dtsemaphore_wait, the three ways out of its critical section.
Take(w) ==
    /\ count # 0
    /\ count' = count - 1
    /\ granted' = granted + 1
    /\ pc' = [pc EXCEPT ![w] = "idle"]
    /\ UNCHANGED <<mode, posts, dropped>>

ReturnTimeout(w) ==
    /\ pc' = [pc EXCEPT ![w] = "idle"]
    /\ UNCHANGED <<count, mode, posts, dropped, granted>>

Block(w, m) ==
    /\ count = 0
    /\ pc' = [pc EXCEPT ![w] = "waiting"]
    /\ mode' = [mode EXCEPT ![w] = m]
    /\ UNCHANGED <<count, posts, dropped, granted>>

WaitCall(w, m) ==
    /\ pc[w] = "idle"
    /\ \/ Take(w)
       \/ count = 0 /\ m = "nowait" /\ ReturnTimeout(w)
       \/ m # "nowait" /\ Block(w, m)

\* The loop around the wait re-evaluates its condition.
WaitResume(w) ==
    /\ pc[w] = "woken"
    /\ Take(w) \/ Block(w, mode[w])

Deadline(w) ==
    /\ pc[w] = "waiting" /\ mode[w] = "timed"
    /\ pc' = [pc EXCEPT ![w] = "expired"]
    /\ UNCHANGED <<count, mode, posts, dropped, granted>>

SpuriousWakeup(w) ==
    /\ pc[w] = "waiting"
    /\ pc' = [pc EXCEPT ![w] = "woken"]
    /\ UNCHANGED <<count, mode, posts, dropped, granted>>

\* Mutant: a wait that timed out takes a unit that is there, and reports a timeout.
Mutant_TimedOutTakes(w) ==
    /\ pc[w] = "expired"
    /\ pc' = [pc EXCEPT ![w] = "idle"]
    /\ count' = IF count > 0 THEN count - 1 ELSE count
    /\ UNCHANGED <<mode, posts, dropped, granted>>

\* ETIMEDOUT: the count is not looked at again.
TimedOut(w) ==
    /\ pc[w] = "expired"
    /\ ReturnTimeout(w)

Next ==
    \/ Post
    \/ \E w \in Waiters, m \in Modes : WaitCall(w, m)
    \/ \E w \in Waiters : WaitResume(w) \/ Deadline(w) \/ SpuriousWakeup(w) \/ TimedOut(w)

Spec == Init /\ [][Next]_vars

(***************************************************************************)
(* Properties                                                              *)
(***************************************************************************)

\* No waiter sleeps while there is a unit that no woken waiter is coming for:
\* a post at the maximum, a timeout racing a post and a waiter that barges in
\* and takes the unit of a woken one must not strand anybody.
NoLostWakeup == Waiting # {} => count <= Cardinality(Woken)

\* Units are neither made nor lost: what was put in, less the posts dropped at
\* the maximum, is what was granted and what is left.  In particular a wait
\* that reports a timeout took nothing.
UnitsConserved == InitialCount + posts = count + granted + dropped

\* Posts never push the count past the maximum.  dtsemaphore_create does not
\* compare initial_count with max_count, so the count may start beyond it.
Capped == count <= max_count \/ count <= InitialCount
=============================================================================
