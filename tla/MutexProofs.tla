---------------------------- MODULE MutexProofs ----------------------------
(***************************************************************************)
(* Proofs about the mutex of module Mutex, for every set of threads.  The  *)
(* invariants of Mutex are inductive only together: mutual exclusion needs *)
(* the flag to say whether somebody is inside; that no registration is     *)
(* lost needs the slot to name no thread that went away.                   *)
(***************************************************************************)
EXTENDS Mutex, TLAPS

Inv == TypeOK /\ LockedIffHeld /\ MutualExclusion /\ NoLostWaiter /\ WaiterWaits

(* While the mutex is free nobody is BLOCKED or registered.                *)
LEMMA FreeMeansIdle ==
  ASSUME Inv, ~locked PROVE blocked = {} /\ waiter = NoThread
BY DEF Inv, NoLostWaiter, WaiterWaits

LEMMA InitEstablishes == Init => Inv
BY DEF Init, Inv, TypeOK, LockedIffHeld, MutualExclusion, NoLostWaiter, WaiterWaits

(* A thread that takes the mutex finds nobody inside, BLOCKED or waiting.  *)
LEMMA TakePreserves ==
  ASSUME Inv, NEW t \in Thread, Take(t) PROVE Inv'
<1>1. blocked = {} /\ waiter = NoThread
  BY FreeMeansIdle DEF Take
<1>2. \A u \in Thread : at[u] # "inside"
  BY DEF Inv, LockedIffHeld, Take
<1>3. TypeOK'
  BY DEF Inv, TypeOK, Take
<1>4. at'[t] = "inside" /\ \A u \in Thread \ {t} : at'[u] # "inside"
  BY <1>2 DEF Inv, TypeOK, Take
<1>5. LockedIffHeld' /\ MutualExclusion'
  BY <1>4 DEF LockedIffHeld, MutualExclusion, Take
<1>6. NoLostWaiter' /\ WaiterWaits'
  BY <1>1 DEF NoLostWaiter, WaiterWaits, Take
<1> QED
  BY <1>3, <1>5, <1>6 DEF Inv

(* A thread that waits was not inside, and is the only one registered.     *)
LEMMA WaitPreserves ==
  ASSUME Inv, NEW t \in Thread, Wait(t) PROVE Inv'
<1>1. at[t] # "inside" /\ locked /\ locked'
  BY DEF Wait
<1>2. TypeOK'
  BY DEF Inv, TypeOK, Wait
<1>3. \A u \in Thread : at'[u] = "inside" <=> at[u] = "inside"
  BY <1>1 DEF Inv, TypeOK, Wait
<1>4. LockedIffHeld'
  BY <1>1, <1>3 DEF Inv, LockedIffHeld
<1>5. MutualExclusion'
  BY <1>3 DEF Inv, MutualExclusion
<1>6. \A u \in blocked : u = t
  BY ThreadAssumption DEF Inv, TypeOK, NoLostWaiter, Wait
<1>7. NoLostWaiter'
  BY <1>1, <1>6 DEF NoLostWaiter, Wait
<1>8. at'[t] = "waiting" /\ waiter' = t /\ t \in blocked'
  BY DEF Inv, TypeOK, Wait
<1>9. WaiterWaits'
  BY <1>8 DEF WaiterWaits
<1> QED
  BY <1>2, <1>4, <1>5, <1>7, <1>9 DEF Inv

(* The thread that unlocks was the only one inside; the one BLOCKED        *)
(* thread, if any, was the one registered, and is BLOCKED no longer.       *)
LEMMA UnlockPreserves ==
  ASSUME Inv, NEW t \in Thread, mutexUnlock(t) PROVE Inv'
<1>1. at[t] = "inside" /\ ~locked' /\ waiter' = NoThread
  BY DEF mutexUnlock, WakeWaiter
<1>2. TypeOK'
  BY DEF Inv, TypeOK, mutexUnlock, WakeWaiter
<1>3. \A u \in Thread : at'[u] # "inside"
  BY <1>1 DEF Inv, TypeOK, MutualExclusion, mutexUnlock
<1>4. LockedIffHeld' /\ MutualExclusion'
  BY <1>1, <1>3 DEF LockedIffHeld, MutualExclusion
<1>5. blocked' = {}
  BY DEF Inv, NoLostWaiter, mutexUnlock, WakeWaiter
<1>6. NoLostWaiter' /\ WaiterWaits'
  BY <1>1, <1>5 DEF NoLostWaiter, WaiterWaits
<1> QED
  BY <1>2, <1>4, <1>6 DEF Inv

LEMMA StepPreserves == Inv /\ [Next]_vars => Inv'
<1> SUFFICES ASSUME Inv, [Next]_vars PROVE Inv'
  OBVIOUS
<1>1. ASSUME NEW t \in Thread, Step(t) PROVE Inv'
  <2>1. CASE Take(t)
    BY <2>1, TakePreserves
  <2>2. CASE Wait(t)
    BY <2>2, WaitPreserves
  <2>3. CASE Contend(t)
    BY <2>3 DEF Contend, Inv, TypeOK, LockedIffHeld, MutualExclusion,
                NoLostWaiter, WaiterWaits
  <2>4. CASE mutexUnlock(t)
    BY <2>4, UnlockPreserves
  <2> QED
    BY <1>1, <2>1, <2>2, <2>3, <2>4 DEF Step, mutexLock
<1>2. CASE UNCHANGED vars
  BY <1>2 DEF vars, Inv, TypeOK, LockedIffHeld, MutualExclusion, NoLostWaiter,
              WaiterWaits
<1> QED
  BY <1>1, <1>2 DEF Next

LEMMA Invariance == Spec => []Inv
BY InitEstablishes, StepPreserves, PTL DEF Spec

-----------------------------------------------------------------------------
(* The variables keep their types.                                         *)
THEOREM TypeCorrect == Spec => []TypeOK
<1>1. Inv => TypeOK
  BY DEF Inv
<1> QED
  BY Invariance, <1>1, PTL

(* No two threads are ever between mutexLock and mutexUnlock together,     *)
(* however many threads compete and whatever the scheduler chooses.        *)
THEOREM MutexExcludes == Spec => []MutualExclusion
<1>1. Inv => MutualExclusion
  BY DEF Inv
<1> QED
  BY Invariance, <1>1, PTL

(* Every BLOCKED thread is registered on a mutex that is held.             *)
THEOREM NoWaiterIsLost == Spec => []NoLostWaiter
<1>1. Inv => NoLostWaiter
  BY DEF Inv
<1> QED
  BY Invariance, <1>1, PTL

(* The flag and the waiter slot say what the threads do.                   *)
THEOREM FieldsAreTrue == Spec => [](LockedIffHeld /\ WaiterWaits)
<1>1. Inv => LockedIffHeld /\ WaiterWaits
  BY DEF Inv
<1> QED
  BY Invariance, <1>1, PTL
=============================================================================
