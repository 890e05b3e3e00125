------------------------------- MODULE Mutex -------------------------------
(***************************************************************************)
(* The mutex of the threaded MansOS kernel (kernel/threads/mutex.c), used  *)
(* by any number of threads.  A mutex is a flag and ONE waiter slot; it    *)
(* records no owner.  The code between ATOMIC_START and the next yield()   *)
(* runs with interrupts disabled and is one step here.                     *)
(*                                                                         *)
(* The scheduler is abstract: any thread that is not BLOCKED may run next, *)
(* and when every live thread is BLOCKED any of them may be returned to    *)
(* (threads.c:161-166).  Module Threads has the real scheduler of the      *)
(* default configuration and is checked to implement this module.          *)
(***************************************************************************)
EXTENDS Naturals, FiniteSets

CONSTANTS Thread,   \* the threads of the system, the kernel thread included
          NoThread  \* the NULL of Mutex_t.waiter

ASSUME ThreadAssumption == NoThread \notin Thread

VARIABLES locked,   \* m->locked
          waiter,   \* m->waiter
          blocked,  \* the threads whose state is THREAD_BLOCKED
          at,       \* where each thread is: outside, in the wait loop, inside
          panicked  \* an ASSERT has failed: the system has stopped

vars == <<locked, waiter, blocked, at, panicked>>

(* Mutant of Init: the mutex is not initialised.                           *)
InitForgotten == /\ locked = FALSE /\ waiter = 0
                 /\ blocked = {} /\ at = [t \in Thread |-> "outside"]
                 /\ panicked = FALSE

Init == /\ locked = FALSE
        /\ waiter = NoThread
        /\ blocked = {}
        /\ at = [t \in Thread |-> "outside"]
        /\ panicked = FALSE

(* The scheduler may give the processor to t.                              *)
MayRun(t) == t \in blocked => blocked = Thread

-----------------------------------------------------------------------------
(* Mutant of Take: the flag is not tested (again) after yield().           *)
TakeUntested(t) == /\ at[t] = "waiting" \/ (at[t] = "outside" /\ ~locked)
                   /\ locked' = TRUE
                   /\ at' = [at EXCEPT ![t] = "inside"]
                   /\ UNCHANGED <<waiter, blocked, panicked>>

(* One turn of the loop of mutexLock, entered on the call and again each   *)
(* time yield() returns: take the mutex ...                                *)
Take(t) == /\ at[t] \in {"outside", "waiting"}
           /\ ~locked
           /\ locked' = TRUE
           /\ at' = [at EXCEPT ![t] = "inside"]
           /\ UNCHANGED <<waiter, blocked, panicked>>

(* ... or register as the waiter, become BLOCKED and yield() ...           *)
Wait(t) == /\ at[t] \in {"outside", "waiting"}
           /\ locked
           /\ waiter \in {NoThread, t}
           /\ waiter' = t
           /\ blocked' = blocked \cup {t}
           /\ at' = [at EXCEPT ![t] = "waiting"]
           /\ UNCHANGED <<locked, panicked>>

(* ... or find the slot taken by a third thread: the assertion fails.      *)
Contend(t) == /\ at[t] \in {"outside", "waiting"}
              /\ locked
              /\ waiter \notin {NoThread, t}
              /\ panicked' = TRUE
              /\ UNCHANGED <<locked, waiter, blocked, at>>

mutexLock(t) == Take(t) \/ Wait(t) \/ Contend(t)

(* Mutant of WakeWaiter: the waiter stays BLOCKED.                         *)
WakeNobody == UNCHANGED blocked /\ waiter' = NoThread

(* The waiter is made READY and forgotten; it takes the mutex itself when  *)
(* it runs.                                                                *)
WakeWaiter == blocked' = blocked \ {waiter} /\ waiter' = NoThread

(* mutexUnlock: only the thread inside calls it.                           *)
mutexUnlock(t) == /\ at[t] = "inside"
                  /\ locked' = FALSE
                  /\ WakeWaiter
                  /\ at' = [at EXCEPT ![t] = "outside"]
                  /\ UNCHANGED panicked

Step(t) == /\ ~panicked
           /\ MayRun(t)
           /\ mutexLock(t) \/ mutexUnlock(t)

Next == \E t \in Thread : Step(t)

Spec == Init /\ [][Next]_vars

-----------------------------------------------------------------------------
TypeOK == /\ locked \in BOOLEAN
          /\ waiter \in Thread \cup {NoThread}
          /\ blocked \subseteq Thread
          /\ at \in [Thread -> {"outside", "waiting", "inside"}]
          /\ panicked \in BOOLEAN

(* Two threads are never both between mutexLock and mutexUnlock, although  *)
(* a released waiter competes for the mutex with every newcomer.           *)
MutualExclusion == \A t, u \in Thread :
                      at[t] = "inside" /\ at[u] = "inside" => t = u

(* A BLOCKED thread is always the one registered, on a mutex that is held: *)
(* the next mutexUnlock will wake it, so no thread is BLOCKED for ever     *)
(* because its registration was overwritten or dropped.                    *)
NoLostWaiter == \A t \in blocked : waiter = t /\ locked

(* The flag is set exactly while some thread is inside.                    *)
LockedIffHeld == locked <=> \E t \in Thread : at[t] = "inside"

(* The slot names only a thread that is BLOCKED in the wait loop.          *)
WaiterWaits == waiter # NoThread => waiter \in blocked /\ at[waiter] = "waiting"
=============================================================================
