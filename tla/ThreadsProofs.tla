--------------------------- MODULE ThreadsProofs ---------------------------
(***************************************************************************)
(* Proofs about the scheduler of module Threads, for all sleeping times    *)
(* and clocks: the thread states agree with who has the processor, the     *)
(* mutex excludes, an ended thread never runs again; without the race      *)
(* window, nobody sleeps longer than asked.                                *)
(***************************************************************************)
EXTENDS Threads, FiniteSetTheorems, TLAPS

(* What the scheduler keeps.                                               *)
SchedInv == /\ StatesAgree
            /\ asleep => wakeLeft # 0
            /\ state[currentThread] # BLOCKED
            /\ state[Kernel] # UNUSED
            /\ state[User] = UNUSED <=> pc[User] \in {"exit", "dead"}

(* What the mutex keeps; the code does not record who holds it.            *)
MutexInv == /\ locked <=> holding # {}
            /\ \A t, u \in holding : t = u
            /\ Kernel \in holding <=> pc[Kernel] = "critical"
            /\ User \in holding => pc[User] \notin {"wait", "exit", "dead"}
            /\ waiter # NoThread => state[waiter] = BLOCKED
            /\ \A t \in Thread : state[t] = BLOCKED =>
                                    waiter = t /\ locked /\ pc[t] = "wait"

IInv == TypeOK /\ SchedInv /\ MutexInv /\ ExitIsFinal

States == [Thread -> UNUSED..RUNNING]
Lefts  == [Thread -> 0..(Clock - 1)]

USE DEF Thread, User, Kernel

LEMMA StatesAreNumbers ==
  /\ UNUSED = 0 /\ BLOCKED = 1 /\ SLEEPING = 2 /\ READY = 3 /\ RUNNING = 4
  /\ UNUSED..RUNNING = 0..4
BY DEF UNUSED, BLOCKED, SLEEPING, READY, RUNNING

LEMMA ConstantsOK ==
  /\ Short \in Nat /\ Short > 1 /\ Clock \in Nat /\ Clock >= 2 * Short
  /\ MaxSleep \in 1..(Short - 1) /\ MinSleep \in 0..MaxSleep
  /\ MaxKernelSleep \in 1..(Short - 1)
  /\ MaxMs \in 0..(Short - 1) /\ MaxDelay \in 1..(Short - 1)
BY ClockAssumption

(* A remainder is less than its divisor.                                   *)
LEMMA Remainder ==
  ASSUME NEW d \in Int, NEW n \in Nat, n > 0 PROVE d % n \in 0..(n - 1)
BY Z3

(* The duration of a sleep: never zero, never too long for the hardware.   *)
LEMMA SleepTimeBounds ==
  ASSUME NEW ms \in 0..(Short - 1), ms # 0
  PROVE  SleepTime(ms) \in 1..MaxSleep
BY ConstantsOK DEF SleepTime, Most

(* threadWakeup changes one thread, and that one only if it sleeps.        *)
LEMMA WakeupType ==
  ASSUME NEW s \in States, NEW t \in Thread, NEW new \in {READY, RUNNING}
  PROVE  /\ threadWakeup(s, t, new) \in States
         /\ \A u \in Thread : threadWakeup(s, t, new)[u] =
               IF u = t /\ s[t] = SLEEPING THEN new ELSE s[u]
BY StatesAreNumbers DEF threadWakeup, States

(* doMsleep() leaves the current thread awake and touches no thread that   *)
(* is not SLEEPING.                                                        *)
LEMMA AfterSleepType ==
  ASSUME NEW s \in States, NEW c \in Thread, NEW flags
  PROVE  /\ AfterSleep(s, c, flags) \in States
         /\ AfterSleep(s, c, flags)[c] = IF s[c] = SLEEPING THEN RUNNING ELSE s[c]
         /\ \A u \in Thread : s[u] # SLEEPING => AfterSleep(s, c, flags)[u] = s[u]
         /\ \A u \in Thread \ {c} : s[u] = SLEEPING =>
               AfterSleep(s, c, flags)[u] \in {SLEEPING, READY}
<1> DEFINE w == threadWakeup(s, c, RUNNING)
<1>1. /\ w \in States
      /\ \A u \in Thread : w[u] = IF u = c /\ s[c] = SLEEPING THEN RUNNING ELSE s[u]
  BY WakeupType
<1> HIDE DEF w
<1>2. /\ threadWakeup(w, Kernel, READY) \in States
      /\ \A u \in Thread : threadWakeup(w, Kernel, READY)[u] =
            IF u = Kernel /\ w[Kernel] = SLEEPING THEN READY ELSE w[u]
  BY <1>1, WakeupType
<1>3. AfterSleep(s, c, flags) = IF flags # {} THEN threadWakeup(w, Kernel, READY) ELSE w
  BY DEF AfterSleep, w
<1> QED
  BY <1>1, <1>2, <1>3, StatesAreNumbers

(* The selection marks no thread but the other one, which it has found     *)
(* asleep, and selects a thread that may run.                              *)
LEMMA Selection ==
  ASSUME NEW c \in Thread, NEW s \in States, NEW left \in Lefts, s[c] # RUNNING,
         s[Other(c)] # RUNNING
  PROVE  LET o == Other(c)
             n == NextThread(c, s, left)
             m == StateAfterSelect(c, s, left)
         IN  /\ o \in Thread /\ o # c /\ n \in {c, o} /\ m \in States
             /\ m[c] = s[c]
             /\ m[o] # s[o] => s[o] = SLEEPING /\ m[o] = READY /\ n = o
             /\ n = o => s[o] \in {SLEEPING, READY}
             /\ s[o] \in {SLEEPING, READY} /\ s[c] < SLEEPING => n = o
             /\ m[n] = SLEEPING => m[c] # READY /\ m[o] # READY
BY StatesAreNumbers DEF Other, NextThread, StateAfterSelect, States
-----------------------------------------------------------------------------
(* schedule(), entered with thread states s of which at most the current   *)
(* thread's is RUNNING: types, agreement of the states, and who comes next. *)
LEMMA Scheduled ==
  ASSUME currentThread \in Thread, NEW s \in States, NEW left \in Lefts,
         NEW j \in 0..(Short - 1), NEW flags,
         s[Other(currentThread)] # RUNNING,
         schedule(s, left, j, flags)
  PROVE  /\ currentThread' \in Thread /\ state' \in States /\ sleepLeft' \in Lefts
         /\ jiffiesToSleep' \in 0..(Short - 1)
         /\ asleep' \in BOOLEAN /\ wakeLeft' \in 0..MaxSleep
         /\ asleep' => wakeLeft' # 0
         /\ StatesAgree'
         /\ \A t \in Thread : /\ state'[t] = BLOCKED <=> s[t] = BLOCKED
                              /\ state'[t] = UNUSED <=> s[t] = UNUSED
         /\ currentThread' # currentThread =>
               s[Other(currentThread)] \in {SLEEPING, READY}
         /\ s[Other(currentThread)] \in {SLEEPING, READY} /\ s[currentThread] < SLEEPING =>
               currentThread' = Other(currentThread)
<1> DEFINE c     == currentThread
           o     == Other(c)
           left1 == [left EXCEPT ![c] = j]
           s1    == IF s[c] = RUNNING
                    THEN [s EXCEPT ![c] = IF j # 0 THEN SLEEPING ELSE READY] ELSE s
           n     == NextThread(c, s1, left1)
           s2    == StateAfterSelect(c, s1, left1)
           j2    == IF n # c THEN left1[n] % Short ELSE j
           s3    == IF s2[n] = READY THEN [s2 EXCEPT ![n] = RUNNING] ELSE s2
           stop  == s3[n] = SLEEPING /\ j2 # 0
<1>1. /\ currentThread' = n /\ sleepLeft' = left1 /\ jiffiesToSleep' = j2
      /\ asleep' \in BOOLEAN /\ (asleep' <=> stop)
      /\ wakeLeft' = IF stop THEN SleepTime(j2) ELSE 0
      /\ state' = IF s3[n] = SLEEPING /\ j2 = 0 THEN AfterSleep(s3, n, flags) ELSE s3
  BY DEF schedule
<1>2. o \in Thread /\ o # c /\ c \in Thread /\ Thread = {c, o}
  BY DEF Other
<1>3. left1 \in Lefts
  BY ConstantsOK DEF Lefts
<1>4. /\ s1 \in States /\ s1[c] # RUNNING /\ s1[o] = s[o] /\ s1[o] # RUNNING
      /\ s[c] = RUNNING => s1[c] \in {SLEEPING, READY}
      /\ s[c] # RUNNING => s1[c] = s[c]
  BY <1>2, StatesAreNumbers DEF States
<1>5. /\ n \in {c, o} /\ s2 \in States
      /\ s2[c] = s1[c]
      /\ s2[o] # s1[o] => s1[o] = SLEEPING /\ s2[o] = READY /\ n = o
      /\ n = o => s1[o] \in {SLEEPING, READY}
      /\ s1[o] \in {SLEEPING, READY} /\ s1[c] < SLEEPING => n = o
      /\ s2[n] = SLEEPING => s2[c] # READY /\ s2[o] # READY
  <2> HIDE DEF s1, left1
  <2> QED BY <1>2, <1>3, <1>4, Selection
<1>6. j2 \in 0..(Short - 1)
  <2>1. left1[n] \in Int
    BY <1>2, <1>3, <1>5, ConstantsOK DEF Lefts
  <2>2. left1[n] % Short \in 0..(Short - 1)
    <3> HIDE DEF left1, n
    <3> QED BY <2>1, Remainder, ConstantsOK
  <2> QED BY <2>2
<1> HIDE DEF c, o, left1, s1, n, s2, j2
<1>7. /\ s3 \in States
      /\ s3[n] # READY
      /\ \A t \in Thread : t # n => s3[t] = s2[t]
      /\ s3[n] = IF s2[n] = READY THEN RUNNING ELSE s2[n]
  BY <1>2, <1>5, StatesAreNumbers DEF States
<1> HIDE DEF s3
<1>8. \A t \in Thread : /\ s3[t] = BLOCKED <=> s[t] = BLOCKED
                        /\ s3[t] = UNUSED <=> s[t] = UNUSED
                        /\ t # n => s3[t] # RUNNING
                        /\ s3[n] = SLEEPING => s3[t] \notin {READY, RUNNING}
  BY <1>2, <1>4, <1>5, <1>7, StatesAreNumbers
<1>9. ASSUME s3[n] = SLEEPING, j2 = 0
      PROVE  /\ state' \in States /\ state'[n] = RUNNING /\ ~asleep'
             /\ \A t \in Thread : /\ state'[t] = BLOCKED <=> s3[t] = BLOCKED
                                  /\ state'[t] = UNUSED <=> s3[t] = UNUSED
                                  /\ t # n => state'[t] # RUNNING
  <2>1. state' = AfterSleep(s3, n, flags) /\ ~asleep'
    BY <1>1, <1>9
  <2>2. n \in Thread
    BY <1>2, <1>5
  <2>3. \A t \in Thread \ {n} : s3[t] = SLEEPING => state'[t] \in {SLEEPING, READY}
    BY <1>7, <2>1, <2>2, AfterSleepType
  <2>4. /\ state' \in States /\ state'[n] = RUNNING
        /\ \A t \in Thread : s3[t] # SLEEPING => state'[t] = s3[t]
    BY <1>7, <1>9, <2>1, <2>2, AfterSleepType
  <2>5. ASSUME NEW t \in Thread
        PROVE  /\ state'[t] = BLOCKED <=> s3[t] = BLOCKED
               /\ state'[t] = UNUSED <=> s3[t] = UNUSED
               /\ t # n => state'[t] # RUNNING
    <3>1. CASE s3[t] = SLEEPING
      BY <2>3, <2>4, <3>1, StatesAreNumbers
    <3>2. CASE s3[t] # SLEEPING
      <4>1. state'[t] = s3[t]
        BY <2>4, <3>2
      <4>2. t # n => s3[t] # RUNNING
        BY <1>8
      <4>3. QED BY <4>1, <4>2
    <3> QED BY <3>1, <3>2
  <2> QED BY <2>1, <2>4, <2>5
<1>10. asleep' \in BOOLEAN /\ wakeLeft' \in 0..MaxSleep /\ (asleep' => wakeLeft' # 0)
  <2>1. CASE stop
    BY <1>1, <1>6, <2>1, SleepTimeBounds, ConstantsOK
  <2>2. CASE ~stop
    BY <1>1, <2>2, ConstantsOK
  <2> QED BY <2>1, <2>2
<1>11. StatesAgree' /\ state' \in States
       /\ \A t \in Thread : /\ state'[t] = BLOCKED <=> s[t] = BLOCKED
                            /\ state'[t] = UNUSED <=> s[t] = UNUSED
  <2>1. CASE s3[n] = SLEEPING /\ j2 = 0
    BY <1>1, <1>8, <1>9, <2>1, StatesAreNumbers DEF StatesAgree
  <2>2. CASE ~(s3[n] = SLEEPING /\ j2 = 0)
    BY <1>1, <1>7, <1>8, <2>2 DEF StatesAgree
  <2> QED BY <2>1, <2>2
<1>12. /\ n # c => s[o] \in {SLEEPING, READY}
       /\ s[o] \in {SLEEPING, READY} /\ s[c] < SLEEPING => n = o
  BY <1>2, <1>4, <1>5, StatesAreNumbers
<1>13. /\ currentThread' \in Thread /\ sleepLeft' \in Lefts
       /\ jiffiesToSleep' \in 0..(Short - 1)
  BY <1>1, <1>2, <1>3, <1>5, <1>6
<1> QED
  BY <1>1, <1>10, <1>11, <1>12, <1>13 DEF c, o
-----------------------------------------------------------------------------
(* The labels the invariant speaks of; a step is quiet if no thread enters *)
(* or leaves one of them.                                                  *)
Marked == {"wait", "critical", "exit", "dead"}
Quiet  == \A t \in Thread : pc'[t] = pc[t] \/ (pc[t] \notin Marked /\ pc'[t] \notin Marked)

LEMMA TypesUsed ==
  ASSUME TypeOK
  PROVE  /\ currentThread \in Thread /\ state \in States /\ sleepLeft \in Lefts
         /\ jiffiesToSleep \in 0..(Short - 1)
         /\ waiter \in Thread \cup {NoThread} /\ NoThread \notin Thread
         /\ holding \subseteq Thread
         /\ pc \in [Thread -> {"run", "set", "back", "wait", "exit", "dead", "radio",
                               "alarms", "pass", "callback", "critical", "compute"}]
BY DEF TypeOK, States, Lefts, NoThread

(* The times one jiffy later.                                              *)
LEMMA LaterTypes ==
  ASSUME TypeOK PROVE SleepLater \in Lefts /\ AlarmLater \in 0..Clock
<1>1. \A d \in 0..Clock : Less(d) \in 0..(Clock - 1)
  BY Remainder, ConstantsOK DEF Less
<1>2. Clock \div 2 \in 0..(Clock - 2)
  BY ConstantsOK
<1>3. LongAgo \in 0..(Clock - 1)
  BY <1>2, ConstantsOK DEF LongAgo
<1>4. \A t \in Thread : sleepLeft[t] \in 0..Clock
  BY ConstantsOK DEF TypeOK
<1>5. SleepLater \in Lefts
  BY <1>1, <1>3, <1>4 DEF SleepLater, Lefts
<1>6. AlarmLater \in 0..Clock
  BY <1>1, ConstantsOK DEF AlarmLater, TypeOK
<1> QED BY <1>5, <1>6

(* Steps that leave the mutex and the BLOCKED threads alone.               *)
LEMMA SameMutex ==
  ASSUME TypeOK, MutexInv, UNCHANGED mutexVars, Quiet,
         \A t \in Thread : state'[t] = BLOCKED <=> state[t] = BLOCKED
  PROVE  MutexInv'
<1>1. \A t \in Thread, l \in Marked : pc'[t] = l <=> pc[t] = l
  BY DEF Quiet
<1>2. waiter \in Thread \cup {NoThread}
  BY TypesUsed
<1> QED
  BY <1>1, <1>2 DEF MutexInv, mutexVars, Marked

(* Steps that leave the thread states and the processor alone, too.        *)
LEMMA SameSched ==
  ASSUME IInv, Quiet, UNCHANGED <<currentThread, state, asleep, wakeLeft, mutexVars>>
  PROVE  SchedInv' /\ MutexInv' /\ ExitIsFinal'
<1>1. \A t \in Thread, l \in Marked : pc'[t] = l <=> pc[t] = l
  BY DEF Quiet
<1>2. MutexInv'
  BY SameMutex DEF IInv
<1>3. SchedInv'
  BY <1>1 DEF IInv, SchedInv, StatesAgree, Marked
<1>4. ExitIsFinal'
  BY <1>1 DEF IInv, ExitIsFinal, Marked
<1> QED BY <1>2, <1>3, <1>4

(* Calls of schedule() after which the BLOCKED and the UNUSED threads are  *)
(* the same.                                                               *)
LEMMA ScheduleKeeps ==
  ASSUME IInv, NEW s \in States, NEW left \in Lefts, NEW j \in 0..(Short - 1), NEW flags,
         schedule(s, left, j, flags), Quiet, UNCHANGED mutexVars,
         s[Other(currentThread)] # RUNNING,
         \A t \in Thread : /\ s[t] = BLOCKED <=> state[t] = BLOCKED
                           /\ s[t] = UNUSED <=> state[t] = UNUSED
  PROVE  SchedInv' /\ MutexInv' /\ ExitIsFinal'
<1>1. \A t \in Thread, l \in Marked : pc'[t] = l <=> pc[t] = l
  BY DEF Quiet
<1>2. /\ currentThread \in Thread /\ Other(currentThread) \in Thread
      /\ \A t \in Thread : t # currentThread => t = Other(currentThread)
  BY TypesUsed DEF IInv, Other
<1>3. /\ currentThread' \in Thread
      /\ asleep' => wakeLeft' # 0
      /\ StatesAgree'
      /\ \A t \in Thread : /\ state'[t] = BLOCKED <=> s[t] = BLOCKED
                           /\ state'[t] = UNUSED <=> s[t] = UNUSED
      /\ currentThread' # currentThread => s[Other(currentThread)] \in {SLEEPING, READY}
  BY <1>2, Scheduled
<1>4. state'[currentThread'] # BLOCKED
  BY <1>2, <1>3, StatesAreNumbers DEF IInv, SchedInv
<1>5. SchedInv'
  BY <1>1, <1>3, <1>4 DEF IInv, SchedInv, Marked
<1>6. MutexInv'
  BY <1>3, SameMutex DEF IInv
<1>7. ExitIsFinal'
  BY <1>1, <1>2, <1>3, StatesAreNumbers DEF IInv, SchedInv, ExitIsFinal, Marked
<1> QED BY <1>5, <1>6, <1>7

(* The types of the scheduler's variables after schedule().                *)
LEMMA ScheduleTypes ==
  ASSUME IInv, NEW s \in States, NEW left \in Lefts, NEW j \in 0..(Short - 1), NEW flags,
         schedule(s, left, j, flags), s[Other(currentThread)] # RUNNING
  PROVE  /\ currentThread' \in Thread
         /\ state' \in [Thread -> UNUSED..RUNNING]
         /\ sleepLeft' \in [Thread -> 0..(Clock - 1)]
         /\ jiffiesToSleep' \in 0..(Short - 1)
         /\ asleep' \in BOOLEAN /\ wakeLeft' \in 0..MaxSleep
<1>1. currentThread \in Thread
  BY TypesUsed DEF IInv
<1> QED
  BY <1>1, Scheduled DEF States, Lefts

(* In a state of the system the other thread is not RUNNING.               *)
LEMMA OtherWaits == ASSUME IInv PROVE state[Other(currentThread)] # RUNNING
BY TypesUsed DEF IInv, SchedInv, StatesAgree, Other

LEMMA InitEstablishes == Init => IInv
<1> SUFFICES ASSUME Init PROVE IInv
  OBVIOUS
<1>1. TypeOK
  <2>1. state \in [Thread -> UNUSED..RUNNING]
    BY StatesAreNumbers DEF Init
  <2>4. pc \in [Thread -> {"run", "set", "back", "wait", "exit", "dead", "radio",
                           "alarms", "pass", "callback", "critical", "compute"}]
    BY DEF Init
  <2>5. /\ currentThread \in Thread
        /\ locked \in BOOLEAN /\ asleep \in BOOLEAN /\ holding \subseteq Thread
    BY DEF Init
  <2>2. /\ sleepLeft \in [Thread -> 0..(Clock - 1)] /\ jiffiesToSleep \in 0..(Short - 1)
        /\ alarmLeft \in 0..Clock /\ wakeLeft \in 0..MaxSleep
        /\ restMs \in 0..MaxMs /\ owed \in 0..MaxMs
    <3>1. /\ 0 \in 0..(Clock - 1) /\ 0 \in 0..(Short - 1) /\ 0 \in 0..MaxSleep
          /\ 0 \in 0..MaxMs /\ Clock \in 0..Clock
      BY ConstantsOK
    <3> QED
      BY <3>1 DEF Init, NoAlarm
  <2>3. processFlags \subseteq {"alarms", "radio"} /\ waiter \in Thread \cup {NoThread}
    BY DEF Init
  <2> QED BY <2>1, <2>2, <2>3, <2>4, <2>5 DEF TypeOK
<1>2. SchedInv /\ MutexInv /\ ExitIsFinal
  BY StatesAreNumbers DEF Init, SchedInv, StatesAgree, MutexInv, ExitIsFinal
<1> QED BY <1>1, <1>2 DEF IInv
-----------------------------------------------------------------------------
(* The user thread's steps around msleep().                                *)
LEMMA UserSleepKeeps == IInv /\ (UserSleep \/ UserSleepOn \/ UserReturn) => IInv'
<1> SUFFICES ASSUME IInv, UserSleep \/ UserSleepOn \/ UserReturn PROVE IInv'
  OBVIOUS
<1>1. Quiet /\ UNCHANGED <<currentThread, state, asleep, wakeLeft, mutexVars>>
  BY TypesUsed DEF IInv, UserSleep, UserSleepOn, UserReturn, At, Goto, Quiet, Marked,
                   schedVars
<1>2. SchedInv' /\ MutexInv' /\ ExitIsFinal'
  BY <1>1, SameSched
<1>3. CASE UserSleep
  <2>1. PICK ms \in 0..MaxMs : /\ jiffiesToSleep' = Least(ms, MaxSleep)
                               /\ restMs' = ms - Least(ms, MaxSleep)
                               /\ owed' = Least(ms, MaxSleep)
    BY <1>3 DEF UserSleep
  <2>2. /\ jiffiesToSleep' \in 0..(Short - 1) /\ restMs' \in 0..MaxMs
        /\ owed' \in 0..MaxMs
    BY <2>1, ConstantsOK DEF Least
  <2> QED
    BY <1>2, <1>3, <2>2 DEF IInv, TypeOK, UserSleep, Goto, mutexVars
<1>4. CASE UserSleepOn
  <2>1. /\ jiffiesToSleep' \in 0..(Short - 1) /\ restMs' \in 0..MaxMs
        /\ owed' \in 0..MaxMs
    BY <1>4, ConstantsOK DEF IInv, TypeOK, UserSleepOn, Least
  <2> QED
    BY <1>2, <1>4, <2>1 DEF IInv, TypeOK, UserSleepOn, Goto, mutexVars
<1>5. CASE UserReturn
  BY <1>2, <1>5 DEF IInv, TypeOK, UserReturn, Goto, schedVars, mutexVars, appVars
<1> QED BY <1>3, <1>4, <1>5

(* The kernel loop, apart from its calls of schedule() and the mutex; the   *)
(* interrupt of the radio chip.                                            *)
LEMMA KernelQuietKeeps ==
  IInv /\ (KernelRadio \/ KernelAlarms \/ KernelPass \/ KernelCompute \/ RadioInterrupt)
     => IInv'
<1> SUFFICES ASSUME IInv, KernelRadio \/ KernelAlarms \/ KernelPass \/ KernelCompute
                             \/ RadioInterrupt
             PROVE IInv'
  OBVIOUS
<1>1. Quiet /\ UNCHANGED <<currentThread, state, asleep, wakeLeft, mutexVars>>
  BY TypesUsed DEF IInv, KernelRadio, KernelAlarms, KernelPass, KernelCompute,
                   RadioInterrupt, At, Goto, Quiet, Marked, schedVars
<1>2. SchedInv' /\ MutexInv' /\ ExitIsFinal'
  BY <1>1, SameSched
<1>3. CASE KernelRadio \/ KernelAlarms \/ RadioInterrupt
  <2>1. UNCHANGED <<schedVars, mutexVars, appVars, alarmLeft>>
    BY <1>3 DEF KernelRadio, KernelAlarms, RadioInterrupt
  <2>2. processFlags' \subseteq {"alarms", "radio"}
    BY <1>3 DEF IInv, TypeOK, KernelRadio, KernelAlarms, RadioInterrupt
  <2>3. pc' \in [Thread -> {"run", "set", "back", "wait", "exit", "dead", "radio",
                            "alarms", "pass", "callback", "critical", "compute"}]
    BY <1>3, TypesUsed DEF IInv, KernelRadio, KernelAlarms, RadioInterrupt, Goto
  <2> QED
    BY <1>2, <2>1, <2>2, <2>3 DEF IInv, TypeOK, schedVars, mutexVars, appVars
<1>4. CASE KernelPass
  <2>1. alarmLeft' \in 0..Clock /\ processFlags' \subseteq {"alarms", "radio"}
    <3>1. NoAlarm \in 0..Clock /\ 1..MaxDelay \subseteq 0..Clock
      BY ConstantsOK DEF NoAlarm
    <3>2. /\ alarmLeft' = alarmLeft \/ alarmLeft' \in {NoAlarm} \cup 1..MaxDelay
          /\ processFlags' = processFlags \/ processFlags' = processFlags \cup {"alarms"}
      BY <1>4 DEF KernelPass
    <3> QED
      BY <3>1, <3>2 DEF IInv, TypeOK
  <2>2. UNCHANGED <<schedVars, mutexVars, appVars>>
    BY <1>4 DEF KernelPass
  <2>3. pc' = [pc EXCEPT ![Kernel] = "callback"] \/ pc' = [pc EXCEPT ![Kernel] = "compute"]
    BY <1>4 DEF KernelPass, Goto
  <2>4. /\ pc' \in [Thread -> {"run", "set", "back", "wait", "exit", "dead", "radio",
                               "alarms", "pass", "callback", "critical", "compute"}]
    BY <2>3, TypesUsed DEF IInv
  <2> QED
    BY <1>2, <2>1, <2>2, <2>4 DEF IInv, TypeOK, schedVars, mutexVars, appVars
<1>5. CASE KernelCompute
  <2>1. KernelSleepTime \in 0..(Short - 1)
    <3>1. alarmLeft % Short \in 0..(Short - 1)
      BY Remainder, ConstantsOK DEF IInv, TypeOK
    <3> QED
      BY <3>1, ConstantsOK DEF KernelSleepTime, Least
  <2> QED
    BY <1>2, <1>5, <2>1 DEF IInv, TypeOK, KernelCompute, Goto, mutexVars, appVars
<1> QED BY <1>3, <1>4, <1>5

(* The calls of schedule() by a thread that sleeps or yields.              *)
LEMMA SchedulesKeep == IInv /\ (UserSchedule \/ KernelSchedule) => IInv'
<1> SUFFICES ASSUME IInv, UserSchedule \/ KernelSchedule PROVE IInv'
  OBVIOUS
<1>1. /\ Quiet /\ schedule(state, sleepLeft, jiffiesToSleep, processFlags)
      /\ UNCHANGED <<mutexVars, appVars, processFlags, alarmLeft>>
  BY TypesUsed DEF IInv, UserSchedule, KernelSchedule, At, Goto, Quiet, Marked
<1>2. /\ state \in States /\ sleepLeft \in Lefts /\ jiffiesToSleep \in 0..(Short - 1)
      /\ state[Other(currentThread)] # RUNNING
  BY TypesUsed, OtherWaits DEF IInv
<1>3. SchedInv' /\ MutexInv' /\ ExitIsFinal'
  BY <1>1, <1>2, ScheduleKeeps
<1>4. /\ currentThread' \in Thread
      /\ state' \in [Thread -> UNUSED..RUNNING]
      /\ sleepLeft' \in [Thread -> 0..(Clock - 1)]
      /\ jiffiesToSleep' \in 0..(Short - 1)
      /\ asleep' \in BOOLEAN /\ wakeLeft' \in 0..MaxSleep
  BY <1>1, <1>2, ScheduleTypes
<1> QED
  BY <1>1, <1>3, <1>4
  DEF IInv, TypeOK, UserSchedule, KernelSchedule, Goto, mutexVars, appVars
-----------------------------------------------------------------------------
(* The mutex.  While it is free nobody is BLOCKED.                         *)
LEMMA FreeMeansReady ==
  ASSUME IInv, ~locked
  PROVE  holding = {} /\ waiter = NoThread /\ \A t \in Thread : state[t] # BLOCKED
BY TypesUsed DEF IInv, MutexInv

LEMMA EntersKeep ==
  IInv /\ (UserLock \/ KernelLock) /\ ~locked => IInv'
<1> SUFFICES ASSUME IInv, UserLock \/ KernelLock, ~locked PROVE IInv'
  OBVIOUS
<1>1. holding = {} /\ waiter = NoThread /\ \A t \in Thread : state[t] # BLOCKED
  BY FreeMeansReady
<1>2. UNCHANGED <<waiter, schedVars, restMs, owed, processFlags, alarmLeft>> /\ locked' = TRUE
  BY DEF UserLock, KernelLock, mutexLock, Enter, Block
<1>3. CASE UserLock
  <2>1. /\ holding' = {User} /\ currentThread = User /\ pc[User] \in {"run", "wait"}
        /\ pc' = [pc EXCEPT ![User] = "run"]
    BY <1>1, <1>3 DEF UserLock, mutexLock, Enter, Block, At, Goto
  <2>2. TypeOK'
    BY <1>2, <2>1 DEF IInv, TypeOK, schedVars
  <2>3. SchedInv' /\ ExitIsFinal'
    BY <1>2, <2>1, TypesUsed DEF IInv, SchedInv, StatesAgree, ExitIsFinal, schedVars
  <2>4. MutexInv'
    BY <1>1, <1>2, <2>1, TypesUsed DEF IInv, MutexInv, schedVars
  <2> QED BY <2>2, <2>3, <2>4 DEF IInv
<1>4. CASE KernelLock
  <2>1. /\ holding' = {Kernel} /\ currentThread = Kernel /\ pc[Kernel] \in {"callback", "wait"}
        /\ pc' = [pc EXCEPT ![Kernel] = "critical"]
    BY <1>1, <1>4 DEF KernelLock, mutexLock, Enter, Block, At, Goto
  <2>2. TypeOK'
    BY <1>2, <2>1 DEF IInv, TypeOK, schedVars
  <2>3. SchedInv' /\ ExitIsFinal'
    BY <1>2, <2>1, TypesUsed DEF IInv, SchedInv, StatesAgree, ExitIsFinal, schedVars
  <2>4. MutexInv'
    BY <1>1, <1>2, <2>1, TypesUsed DEF IInv, MutexInv, schedVars
  <2> QED BY <2>2, <2>3, <2>4 DEF IInv
<1> QED BY <1>3, <1>4

(* A thread that finds the mutex locked does not hold it: the other one    *)
(* does, which is therefore neither BLOCKED nor ended, and runs next.      *)
LEMMA BlocksYield ==
  ASSUME IInv, NEW t \in Thread, currentThread = t, ~asleep, t \notin holding, locked
  PROVE  /\ Other(t) \in holding /\ Other(t) # t /\ Other(t) \in Thread
         /\ state[Other(t)] \in {SLEEPING, READY}
         /\ pc[User] \notin {"exit", "dead"} \/ t = User
<1>1. Other(t) \in holding /\ Other(t) # t /\ Other(t) \in Thread
  BY TypesUsed DEF IInv, MutexInv, Other
<1>2. state[Other(t)] # RUNNING
  BY OtherWaits
<1>3. state[Other(t)] # BLOCKED
  BY <1>1 DEF IInv, MutexInv, Other
<1>4. state[Other(t)] # UNUSED
  BY <1>1 DEF IInv, SchedInv, MutexInv, Other
<1>5. state[Other(t)] \in {SLEEPING, READY}
  BY <1>1, <1>2, <1>3, <1>4, TypesUsed, StatesAreNumbers DEF IInv, States
<1> QED
  BY <1>1, <1>5 DEF IInv, MutexInv, Other

LEMMA BlockKeeps ==
  ASSUME IInv, NEW t \in Thread, currentThread = t, ~asleep, t \notin holding, Block(t),
         t = User => pc[User] \in {"run", "wait"},
         t = Kernel => pc[Kernel] \in {"callback", "wait"},
         UNCHANGED <<restMs, owed, processFlags, alarmLeft>>
  PROVE  IInv'
<1> DEFINE o == Other(t)
           s == [state EXCEPT ![t] = BLOCKED]
<1>1. /\ locked /\ waiter' = t /\ UNCHANGED <<locked, holding>>
      /\ schedule(s, sleepLeft, 0, processFlags)
      /\ pc' = [pc EXCEPT ![t] = "wait"]
  BY DEF Block, Goto
<1>2. /\ o \in holding /\ o # t /\ o \in Thread /\ state[o] \in {SLEEPING, READY}
      /\ pc[User] \notin {"exit", "dead"} \/ t = User
  BY <1>1, BlocksYield
<1>3. /\ s \in States /\ sleepLeft \in Lefts /\ 0 \in 0..(Short - 1)
      /\ s[o] = state[o] /\ s[t] = BLOCKED /\ s[o] # RUNNING
  BY <1>2, TypesUsed, StatesAreNumbers, ConstantsOK DEF IInv, States
<1> HIDE DEF s
<1>4. /\ asleep' => wakeLeft' # 0
      /\ StatesAgree'
      /\ \A u \in Thread : /\ state'[u] = BLOCKED <=> s[u] = BLOCKED
                           /\ state'[u] = UNUSED <=> s[u] = UNUSED
      /\ currentThread' = o
  BY <1>1, <1>2, <1>3, Scheduled, StatesAreNumbers
<1>5. /\ currentThread' \in Thread
      /\ state' \in [Thread -> UNUSED..RUNNING]
      /\ sleepLeft' \in [Thread -> 0..(Clock - 1)]
      /\ jiffiesToSleep' \in 0..(Short - 1)
      /\ asleep' \in BOOLEAN /\ wakeLeft' \in 0..MaxSleep
  BY <1>1, <1>3, ScheduleTypes
<1>6. TypeOK'
  BY <1>1, <1>5 DEF IInv, TypeOK
<1>7. /\ state'[t] = BLOCKED /\ state'[o] # BLOCKED /\ Thread = {t, o}
      /\ state'[t] # UNUSED /\ state'[o] # UNUSED
  BY <1>2, <1>3, <1>4, StatesAreNumbers
<1>8. pc'[t] = "wait" /\ pc'[o] = pc[o] /\ (t = Kernel => pc[User] \notin {"exit", "dead"})
  BY <1>1, <1>2, TypesUsed DEF IInv
<1> HIDE DEF o
<1>9. SchedInv'
  BY <1>2, <1>4, <1>7, <1>8 DEF SchedInv
<1>10. MutexInv'
  <2>1. /\ \A u, v \in holding : u = v
        /\ Kernel \in holding <=> pc[Kernel] = "critical"
        /\ User \in holding => pc[User] \notin {"wait", "exit", "dead"}
    BY DEF IInv, MutexInv
  <2> QED
    BY <1>1, <1>2, <1>7, <1>8, <2>1 DEF MutexInv
<1>11. ExitIsFinal'
  BY <1>2, <1>7, <1>8 DEF ExitIsFinal
<1> QED BY <1>6, <1>9, <1>10, <1>11 DEF IInv

(* The thread that unlocks is the only holder; afterwards nobody is        *)
(* BLOCKED, because the only thread that could be was registered.          *)
LEMMA UnlockKeeps ==
  ASSUME IInv, NEW t \in Thread, NEW after \in {"run", "compute"},
         currentThread = t, ~asleep, t \in holding, mutexUnlock(t, after),
         UNCHANGED <<restMs, owed, processFlags, alarmLeft>>
  PROVE  IInv'
<1>1. /\ ~locked' /\ locked' \in BOOLEAN /\ waiter' = NoThread /\ holding' = holding \ {t}
      /\ pc' = [pc EXCEPT ![t] = after]
  BY DEF mutexUnlock, Goto
<1>2. holding' = {}
  BY <1>1 DEF IInv, MutexInv
<1>3. /\ pc'[Kernel] # "critical" /\ pc[t] \notin {"wait", "exit", "dead"}
      /\ \A u \in Thread : pc'[u] = IF u = t THEN after ELSE pc[u]
  BY <1>1, <1>2, TypesUsed DEF IInv, MutexInv
<1>4. ASSUME \A u \in Thread : state'[u] # BLOCKED PROVE MutexInv'
  BY <1>1, <1>2, <1>3, <1>4 DEF MutexInv
<1>5. TypeOK' \/ ~(/\ currentThread' \in Thread
                   /\ state' \in [Thread -> UNUSED..RUNNING]
                   /\ sleepLeft' \in [Thread -> 0..(Clock - 1)]
                   /\ jiffiesToSleep' \in 0..(Short - 1)
                   /\ asleep' \in BOOLEAN /\ wakeLeft' \in 0..MaxSleep)
  BY <1>1, <1>2 DEF IInv, TypeOK
<1>6. CASE waiter = NoThread
  <2>1. UNCHANGED schedVars
    BY <1>6 DEF mutexUnlock
  <2>2. \A u \in Thread : state'[u] # BLOCKED
    BY <1>6, <2>1, TypesUsed DEF IInv, MutexInv, schedVars
  <2>3. TypeOK'
    BY <1>5, <2>1 DEF IInv, TypeOK, schedVars
  <2>4. SchedInv' /\ ExitIsFinal'
    BY <1>3, <2>1 DEF IInv, SchedInv, StatesAgree, ExitIsFinal, schedVars
  <2> QED BY <1>4, <2>2, <2>3, <2>4 DEF IInv
<1>7. CASE waiter # NoThread
  <2> DEFINE s == [state EXCEPT ![waiter] = READY]
  <2>1. schedule(s, sleepLeft, 0, processFlags)
    BY <1>7 DEF mutexUnlock
  <2>2. /\ waiter \in Thread /\ state[waiter] = BLOCKED /\ waiter # t
        /\ \A u \in Thread : u # waiter => state[u] # BLOCKED
        /\ pc[waiter] = "wait"
    BY <1>7, TypesUsed DEF IInv, SchedInv, MutexInv
  <2>3. /\ s \in States /\ sleepLeft \in Lefts /\ 0 \in 0..(Short - 1)
        /\ \A u \in Thread : s[u] = IF u = waiter THEN READY ELSE state[u]
    BY <2>2, TypesUsed, StatesAreNumbers, ConstantsOK DEF IInv, States
  <2> HIDE DEF s
  <2>4. Other(t) \in Thread /\ s[Other(t)] # RUNNING
    BY <2>3, OtherWaits, StatesAreNumbers DEF Other
  <2>5. /\ currentThread' \in Thread
        /\ asleep' => wakeLeft' # 0
        /\ StatesAgree'
        /\ \A u \in Thread : /\ state'[u] = BLOCKED <=> s[u] = BLOCKED
                             /\ state'[u] = UNUSED <=> s[u] = UNUSED
        /\ currentThread' # t => s[Other(t)] \in {SLEEPING, READY}
    BY <2>1, <2>3, <2>4, Scheduled
  <2>6. \A u \in Thread : /\ state'[u] # BLOCKED
                          /\ state'[u] = UNUSED <=> state[u] = UNUSED
    BY <2>2, <2>3, <2>5, StatesAreNumbers
  <2>7. TypeOK'
    BY <1>5, <2>1, <2>3, <2>4, ScheduleTypes
  <2>8. SchedInv'
    BY <1>3, <2>5, <2>6 DEF IInv, SchedInv
  <2>9. ExitIsFinal'
    <3>1. pc[User] = "dead" => state[User] = UNUSED /\ t = Kernel
      BY DEF IInv, SchedInv, ExitIsFinal
    <3>2. pc'[User] = "dead" => pc[User] = "dead"
      BY <1>3
    <3>3. t = Kernel => Other(t) = User
      BY DEF Other
    <3>4. pc[User] = "dead" => s[User] = UNUSED
      BY <2>2, <2>3, <3>1, StatesAreNumbers
    <3> QED
      BY <2>5, <3>1, <3>2, <3>3, <3>4, StatesAreNumbers DEF ExitIsFinal
  <2> QED BY <1>4, <2>6, <2>7, <2>8, <2>9 DEF IInv
<1> QED BY <1>6, <1>7

LEMMA MutexStepsKeep ==
  IInv /\ (UserLock \/ KernelLock \/ UserUnlock \/ KernelUnlock) => IInv'
<1> SUFFICES ASSUME IInv, UserLock \/ KernelLock \/ UserUnlock \/ KernelUnlock
             PROVE IInv'
  OBVIOUS
<1>1. CASE (UserLock \/ KernelLock) /\ ~locked
  BY <1>1, EntersKeep
<1>2. CASE UserLock /\ locked
  <2>1. /\ Block(User) /\ currentThread = User /\ ~asleep /\ User \notin holding
        /\ pc[User] \in {"run", "wait"}
        /\ UNCHANGED <<restMs, owed, processFlags, alarmLeft>>
    BY <1>2 DEF UserLock, mutexLock, Enter, At, IInv, MutexInv
  <2> QED BY <2>1, BlockKeeps
<1>3. CASE KernelLock /\ locked
  <2>1. /\ Block(Kernel) /\ currentThread = Kernel /\ ~asleep /\ Kernel \notin holding
        /\ pc[Kernel] \in {"callback", "wait"}
        /\ UNCHANGED <<restMs, owed, processFlags, alarmLeft>>
    BY <1>3 DEF KernelLock, mutexLock, Enter, At, IInv, MutexInv
  <2> QED BY <2>1, BlockKeeps
<1>4. CASE UserUnlock
  <2>1. /\ mutexUnlock(User, "run") /\ currentThread = User /\ ~asleep /\ User \in holding
        /\ UNCHANGED <<restMs, owed, processFlags, alarmLeft>>
    BY <1>4 DEF UserUnlock, At
  <2> QED BY <2>1, UnlockKeeps
<1>5. CASE KernelUnlock
  <2>1. /\ mutexUnlock(Kernel, "compute") /\ currentThread = Kernel /\ ~asleep
        /\ Kernel \in holding
        /\ UNCHANGED <<restMs, owed, processFlags, alarmLeft>>
    BY <1>5 DEF KernelUnlock, At, IInv, MutexInv
  <2> QED BY <2>1, UnlockKeeps
<1> QED BY <1>1, <1>2, <1>3, <1>4, <1>5
-----------------------------------------------------------------------------
(* alarmSchedule() wakes the kernel thread up, if that sleeps.             *)
LEMMA UserAlarmKeeps == IInv /\ UserAlarm => IInv'
<1> SUFFICES ASSUME IInv, UserAlarm PROVE IInv'
  OBVIOUS
<1>1. /\ currentThread = User /\ ~asleep
      /\ state' = threadWakeup(state, Kernel, READY)
      /\ UNCHANGED <<currentThread, sleepLeft, jiffiesToSleep, asleep, wakeLeft,
                     mutexVars, appVars, pc>>
  BY DEF UserAlarm, At
<1>2. /\ state' \in States
      /\ \A u \in Thread : state'[u] =
            IF u = Kernel /\ state[Kernel] = SLEEPING THEN READY ELSE state[u]
  BY <1>1, TypesUsed, WakeupType DEF IInv
<1>3. /\ state'[User] = state[User]
      /\ \A u \in Thread : /\ state'[u] = BLOCKED <=> state[u] = BLOCKED
                           /\ state'[u] = UNUSED <=> state[u] = UNUSED
                           /\ state'[u] = RUNNING <=> state[u] = RUNNING
  BY <1>2, StatesAreNumbers
<1>4. alarmLeft' \in 0..Clock /\ processFlags' \subseteq {"alarms", "radio"}
  BY ConstantsOK DEF IInv, TypeOK, UserAlarm
<1>5. TypeOK'
  BY <1>1, <1>2, <1>4 DEF IInv, TypeOK, States, mutexVars, appVars
<1>6. MutexInv'
  BY <1>1, <1>3, SameMutex DEF IInv, Quiet
<1>7. SchedInv' /\ ExitIsFinal'
  BY <1>1, <1>3 DEF IInv, SchedInv, StatesAgree, ExitIsFinal
<1> QED BY <1>5, <1>6, <1>7 DEF IInv

(* The user thread ends: it is UNUSED ...                                  *)
LEMMA UserExitKeeps == IInv /\ UserExit => IInv'
<1> SUFFICES ASSUME IInv, UserExit PROVE IInv'
  OBVIOUS
<1>1. /\ currentThread = User /\ ~asleep /\ User \notin holding
      /\ pc[User] = "run" /\ pc' = [pc EXCEPT ![User] = "exit"]
      /\ state' = [state EXCEPT ![User] = UNUSED]
      /\ jiffiesToSleep' = 0
      /\ UNCHANGED <<currentThread, sleepLeft, asleep, wakeLeft,
                     mutexVars, appVars, processFlags, alarmLeft>>
  BY DEF UserExit, At, Goto
<1>2. /\ state' \in States /\ state'[User] = UNUSED /\ state'[Kernel] = state[Kernel]
      /\ pc'[User] = "exit" /\ pc'[Kernel] = pc[Kernel] /\ 0 \in 0..(Short - 1)
  BY <1>1, TypesUsed, StatesAreNumbers, ConstantsOK DEF IInv, States
<1>3. TypeOK'
  BY <1>1, <1>2 DEF IInv, TypeOK, States, mutexVars, appVars
<1>4. waiter # User /\ state[User] # BLOCKED
  BY <1>1 DEF IInv, SchedInv, MutexInv, NoThread
<1>5. MutexInv'
  BY <1>1, <1>2, <1>4, StatesAreNumbers, TypesUsed DEF IInv, MutexInv, mutexVars
<1>6. SchedInv' /\ ExitIsFinal'
  BY <1>1, <1>2, StatesAreNumbers DEF IInv, SchedInv, StatesAgree, ExitIsFinal
<1> QED BY <1>3, <1>5, <1>6 DEF IInv

(* ... and its last yield() switches to the kernel thread: that is not     *)
(* BLOCKED, because the user thread does not end inside the mutex.         *)
LEMMA UserGoneKeeps == IInv /\ UserGone => IInv'
<1> SUFFICES ASSUME IInv, UserGone PROVE IInv'
  OBVIOUS
<1>1. /\ currentThread = User /\ ~asleep
      /\ pc[User] = "exit" /\ pc' = [pc EXCEPT ![User] = "dead"]
      /\ schedule(state, sleepLeft, jiffiesToSleep, processFlags)
      /\ UNCHANGED <<mutexVars, appVars, processFlags, alarmLeft>>
  BY DEF UserGone, At, Goto
<1>2. /\ state \in States /\ sleepLeft \in Lefts /\ jiffiesToSleep \in 0..(Short - 1)
      /\ state[Kernel] # RUNNING /\ Other(User) = Kernel
  BY <1>1, TypesUsed, OtherWaits DEF IInv, Other
<1>3. state[User] = UNUSED /\ state[Kernel] # BLOCKED
  BY <1>1, TypesUsed DEF IInv, SchedInv, MutexInv
<1>4. state[Kernel] \in {SLEEPING, READY}
  BY <1>2, <1>3, StatesAreNumbers DEF IInv, SchedInv, States
<1>5. /\ asleep' => wakeLeft' # 0
      /\ StatesAgree'
      /\ \A u \in Thread : /\ state'[u] = BLOCKED <=> state[u] = BLOCKED
                           /\ state'[u] = UNUSED <=> state[u] = UNUSED
      /\ currentThread' = Kernel
  BY <1>1, <1>2, <1>3, <1>4, Scheduled, StatesAreNumbers
<1>6. /\ currentThread' \in Thread
      /\ state' \in [Thread -> UNUSED..RUNNING]
      /\ sleepLeft' \in [Thread -> 0..(Clock - 1)]
      /\ jiffiesToSleep' \in 0..(Short - 1)
      /\ asleep' \in BOOLEAN /\ wakeLeft' \in 0..MaxSleep
  BY <1>1, <1>2, ScheduleTypes
<1>7. pc'[User] = "dead" /\ pc'[Kernel] = pc[Kernel]
  BY <1>1, TypesUsed DEF IInv
<1>8. TypeOK'
  BY <1>1, <1>6 DEF IInv, TypeOK, mutexVars, appVars
<1>9. SchedInv' /\ ExitIsFinal'
  BY <1>3, <1>5, <1>7 DEF IInv, SchedInv, ExitIsFinal
<1>10. MutexInv'
  BY <1>1, <1>3, <1>5, <1>7, TypesUsed, StatesAreNumbers DEF IInv, MutexInv, mutexVars
<1> QED BY <1>8, <1>9, <1>10 DEF IInv
-----------------------------------------------------------------------------
(* The timer interrupt, with or without a thread switch.                   *)
LEMMA TickKeeps == ASSUME IInv, NEW wrap \in BOOLEAN, Tick(wrap) PROVE IInv'
<1> DEFINE flags == scheduleProcessAlarms
           s     == IF ToKernel(flags) THEN threadWakeup(state, Kernel, READY) ELSE state
<1>1. /\ processFlags' = flags /\ alarmLeft' = AlarmLater /\ owed' = Most(owed - 1, 0)
      /\ UNCHANGED <<mutexVars, pc, restMs>>
      /\ \/ Preempt(s, SleepLater, flags)
         \/ /\ sleepLeft' = SleepLater
            /\ UNCHANGED <<currentThread, state, jiffiesToSleep, asleep, wakeLeft>>
  BY DEF Tick
<1>2. /\ flags \subseteq {"alarms", "radio"} /\ AlarmLater \in 0..Clock
      /\ SleepLater \in Lefts
  BY LaterTypes DEF IInv, TypeOK, scheduleProcessAlarms
<1>3. Most(owed - 1, 0) \in 0..MaxMs
  BY ConstantsOK DEF IInv, TypeOK, Most
<1>4. Quiet
  BY <1>1 DEF Quiet
<1>5. /\ s \in States
      /\ \A u \in Thread : /\ s[u] = BLOCKED <=> state[u] = BLOCKED
                           /\ s[u] = UNUSED <=> state[u] = UNUSED
                           /\ s[u] = RUNNING <=> state[u] = RUNNING
  <2>1. /\ threadWakeup(state, Kernel, READY) \in States
        /\ \A u \in Thread : threadWakeup(state, Kernel, READY)[u] =
              IF u = Kernel /\ state[Kernel] = SLEEPING THEN READY ELSE state[u]
    BY TypesUsed, WakeupType DEF IInv
  <2> QED BY <2>1, TypesUsed, StatesAreNumbers DEF IInv
<1> HIDE DEF s, flags
<1>6. CASE Preempt(s, SleepLater, flags)
  <2>1. schedule(s, SleepLater, 0, flags) /\ 0 \in 0..(Short - 1)
    BY <1>6, ConstantsOK DEF Preempt
  <2>2. s[Other(currentThread)] # RUNNING
    BY <1>5, OtherWaits DEF Other
  <2>3. SchedInv' /\ MutexInv' /\ ExitIsFinal'
    BY <1>1, <1>2, <1>4, <1>5, <2>1, <2>2, ScheduleKeeps
  <2>4. /\ currentThread' \in Thread
        /\ state' \in [Thread -> UNUSED..RUNNING]
        /\ sleepLeft' \in [Thread -> 0..(Clock - 1)]
        /\ jiffiesToSleep' \in 0..(Short - 1)
        /\ asleep' \in BOOLEAN /\ wakeLeft' \in 0..MaxSleep
    BY <1>2, <1>5, <2>1, <2>2, ScheduleTypes
  <2>5. TypeOK'
    BY <1>1, <1>2, <1>3, <2>4 DEF IInv, TypeOK, mutexVars
  <2> QED BY <2>3, <2>5 DEF IInv
<1>7. CASE /\ sleepLeft' = SleepLater
           /\ UNCHANGED <<currentThread, state, jiffiesToSleep, asleep, wakeLeft>>
  <2>1. SchedInv' /\ MutexInv' /\ ExitIsFinal'
    BY <1>1, <1>4, <1>7, SameSched
  <2>2. TypeOK'
    BY <1>1, <1>2, <1>3, <1>7 DEF IInv, TypeOK, Lefts, mutexVars
  <2> QED BY <2>1, <2>2 DEF IInv
<1> QED BY <1>1, <1>6, <1>7

(* The CPU leaves low power mode: the current thread was SLEEPING and runs *)
(* on, the other one is not READY before.                                  *)
LEMMA WakeKeeps ==
  ASSUME IInv, asleep, NEW flags, state' = AfterSleep(state, currentThread, flags),
         ~asleep', UNCHANGED <<currentThread, mutexVars, pc>>
  PROVE  SchedInv' /\ MutexInv' /\ ExitIsFinal' /\ state' \in States
<1>1. state \in States /\ currentThread \in Thread
  BY TypesUsed DEF IInv
<1>2. state[currentThread] = SLEEPING
  BY DEF IInv, SchedInv, StatesAgree
<1>3. /\ state' \in States /\ state'[currentThread] = RUNNING
      /\ \A u \in Thread : state[u] # SLEEPING => state'[u] = state[u]
      /\ \A u \in Thread \ {currentThread} : state[u] = SLEEPING =>
            state'[u] \in {SLEEPING, READY}
  BY <1>1, <1>2, AfterSleepType
<1>4. ASSUME NEW u \in Thread
      PROVE  /\ state'[u] = BLOCKED <=> state[u] = BLOCKED
             /\ state'[u] = UNUSED <=> state[u] = UNUSED
             /\ state'[u] = RUNNING => u = currentThread
  BY <1>2, <1>3, StatesAreNumbers DEF IInv, SchedInv, StatesAgree
<1>5. MutexInv'
  BY <1>4, SameMutex DEF IInv, Quiet
<1>6. SchedInv'
  BY <1>1, <1>3, <1>4, StatesAreNumbers DEF IInv, SchedInv, StatesAgree
<1>7. ExitIsFinal'
  BY DEF IInv, ExitIsFinal
<1> QED BY <1>3, <1>5, <1>6, <1>7

LEMMA RadioWakeupKeeps == IInv /\ RadioWakeup => IInv'
<1> SUFFICES ASSUME IInv, RadioWakeup PROVE IInv'
  OBVIOUS
<1>1. /\ asleep /\ asleep' = FALSE /\ wakeLeft' = 0
      /\ processFlags' = processFlags \cup {"radio"}
      /\ state' = AfterSleep(state, currentThread, processFlags')
      /\ UNCHANGED <<currentThread, sleepLeft, jiffiesToSleep, mutexVars, appVars,
                     alarmLeft, pc>>
  BY DEF RadioWakeup
<1>2. SchedInv' /\ MutexInv' /\ ExitIsFinal' /\ state' \in States
  BY <1>1, WakeKeeps
<1>3. 0 \in 0..MaxSleep
  BY ConstantsOK
<1>4. TypeOK'
  BY <1>1, <1>2, <1>3 DEF IInv, TypeOK, States, mutexVars, appVars
<1> QED BY <1>2, <1>4 DEF IInv

LEMMA SleepTickKeeps == IInv /\ SleepTick => IInv'
<1> SUFFICES ASSUME IInv, SleepTick PROVE IInv'
  OBVIOUS
<1>1. /\ asleep /\ sleepLeft' = SleepLater /\ alarmLeft' = AlarmLater
      /\ owed' = Most(owed - 1, 0) /\ wakeLeft' = wakeLeft - 1
      /\ UNCHANGED <<currentThread, jiffiesToSleep, processFlags, mutexVars, pc, restMs>>
  BY DEF SleepTick
<1>2. wakeLeft \in 1..MaxSleep /\ wakeLeft' \in 0..MaxSleep
  BY <1>1, ConstantsOK DEF IInv, TypeOK, SchedInv
<1>3. AlarmLater \in 0..Clock /\ SleepLater \in Lefts /\ Most(owed - 1, 0) \in 0..MaxMs
  BY LaterTypes, ConstantsOK DEF IInv, TypeOK, Most
<1>4. CASE wakeLeft > 1
  <2>1. UNCHANGED <<asleep, state>> /\ wakeLeft' # 0
    BY <1>1, <1>2, <1>4 DEF SleepTick
  <2>2. SchedInv' /\ MutexInv' /\ ExitIsFinal'
    <3>1. MutexInv'
      BY <1>1, <2>1, SameMutex DEF IInv, Quiet
    <3> QED
      BY <1>1, <2>1, <3>1 DEF IInv, SchedInv, StatesAgree, ExitIsFinal
  <2>3. TypeOK'
    BY <1>1, <1>2, <1>3, <2>1 DEF IInv, TypeOK, Lefts, mutexVars
  <2> QED BY <2>2, <2>3 DEF IInv
<1>5. CASE ~(wakeLeft > 1)
  <2>1. asleep' = FALSE /\ state' = AfterSleep(state, currentThread, processFlags)
    BY <1>5 DEF SleepTick
  <2>2. SchedInv' /\ MutexInv' /\ ExitIsFinal' /\ state' \in States
    BY <1>1, <2>1, WakeKeeps
  <2>3. TypeOK'
    BY <1>1, <1>2, <1>3, <2>1, <2>2 DEF IInv, TypeOK, Lefts, States, mutexVars
  <2> QED BY <2>2, <2>3 DEF IInv
<1> QED BY <1>4, <1>5
-----------------------------------------------------------------------------
LEMMA StepKeeps == IInv /\ [Next]_vars => IInv'
<1> SUFFICES ASSUME IInv, [Next]_vars PROVE IInv'
  OBVIOUS
<1>1. CASE UserSleep \/ UserSleepOn \/ UserReturn
  BY <1>1, UserSleepKeeps
<1>2. CASE UserSchedule \/ KernelSchedule
  BY <1>2, SchedulesKeep
<1>3. CASE UserLock \/ KernelLock \/ UserUnlock \/ KernelUnlock
  BY <1>3, MutexStepsKeep
<1>4. CASE UserAlarm
  BY <1>4, UserAlarmKeeps
<1>5. CASE UserExit
  BY <1>5, UserExitKeeps
<1>6. CASE UserGone
  BY <1>6, UserGoneKeeps
<1>7. CASE KernelRadio \/ KernelAlarms \/ KernelPass \/ KernelCompute \/ RadioInterrupt
  BY <1>7, KernelQuietKeeps
<1>8. CASE Time
  BY <1>8, TickKeeps, SleepTickKeeps DEF Time
<1>9. CASE RadioWakeup
  BY <1>9, RadioWakeupKeeps
<1>10. CASE UNCHANGED vars
  <2>1. UNCHANGED <<schedVars, mutexVars, appVars, processFlags, alarmLeft, pc>>
    BY <1>10 DEF vars
  <2>2. SchedInv' /\ MutexInv' /\ ExitIsFinal'
    BY <2>1, SameSched DEF Quiet, schedVars
  <2>3. TypeOK'
    BY <2>1 DEF IInv, TypeOK, schedVars, mutexVars, appVars
  <2> QED BY <2>2, <2>3 DEF IInv
<1> QED
  BY <1>1, <1>2, <1>3, <1>4, <1>5, <1>6, <1>7, <1>8, <1>9, <1>10
  DEF Next, UserStep, KernelStep

LEMMA Invariance == Spec => []IInv
BY InitEstablishes, StepKeeps, PTL DEF Spec

(* The kernel's variables keep their types: in particular the remaining    *)
(* times stay within the clock and jiffiesToSleep within its 16 bits.      *)
THEOREM TypeCorrect == Spec => []TypeOK
<1>1. IInv => TypeOK
  BY DEF IInv
<1> QED BY <1>1, Invariance, PTL

(* The thread states agree with who has the processor, and the CPU sleeps  *)
(* only while nobody can use it.                                           *)
THEOREM StatesAlwaysAgree == Spec => []StatesAgree
<1>1. IInv => StatesAgree
  BY DEF IInv, SchedInv
<1> QED BY <1>1, Invariance, PTL

(* The user thread and the alarm callbacks are never in their critical     *)
(* sections together.                                                      *)
THEOREM CriticalSectionsExclude == Spec => []MutualExclusion
<1>1. IInv => MutualExclusion
  <2> SUFFICES ASSUME IInv PROVE Cardinality(holding) <= 1
    BY DEF MutualExclusion
  <2>1. CASE holding = {}
    BY <2>1, FS_EmptySet
  <2>2. CASE holding # {}
    <3>1. PICK t \in holding : TRUE
      BY <2>2
    <3>2. holding = {t}
      BY <3>1 DEF IInv, MutexInv
    <3> QED BY <3>2, FS_Singleton
  <2> QED BY <2>1, <2>2
<1> QED BY <1>1, Invariance, PTL

(* A BLOCKED thread is the registered waiter of a mutex that is held.      *)
THEOREM WakeupIsNotLost == Spec => []NoLostWaiter
<1>1. IInv => NoLostWaiter
  BY DEF IInv, MutexInv, NoLostWaiter
<1> QED BY <1>1, Invariance, PTL

(* A thread whose function has returned never gets the processor again.    *)
THEOREM EndedStaysEnded == Spec => []ExitIsFinal
<1>1. IInv => ExitIsFinal
  BY DEF IInv
<1> QED BY <1>1, Invariance, PTL
-----------------------------------------------------------------------------
(* The mutex of the running system is the mutex of module Mutex.  The      *)
(* waiter slot tells who is BLOCKED, so a step that does not touch the     *)
(* mutex cannot change what Mutex sees, whatever it does to the threads.   *)
Blocked == {t \in Thread : state[t] = BLOCKED}
Where   == [t \in Thread |-> IF t \in holding THEN "inside"
                             ELSE IF pc[t] = "wait" THEN "waiting" ELSE "outside"]

LEMMA WaiterIsBlocked == IInv => Blocked = {waiter} \ {NoThread}
BY TypesUsed DEF IInv, MutexInv, Blocked

LEMMA WaiterIsBlockedNext == IInv' => Blocked' = {waiter'} \ {NoThread}
BY DEF IInv, TypeOK, MutexInv, Blocked, NoThread

LEMMA SeenUntouched ==
  ASSUME IInv, IInv', UNCHANGED mutexVars,
         \A t \in Thread : pc'[t] = "wait" <=> pc[t] = "wait"
  PROVE  UNCHANGED MutexSeen!vars
<1>1. Blocked' = Blocked
  <2>1. Blocked = {waiter} \ {NoThread}
    BY WaiterIsBlocked
  <2>2. Blocked' = {waiter'} \ {NoThread}
    BY WaiterIsBlockedNext
  <2> QED BY <2>1, <2>2 DEF mutexVars
<1>2. Where' = Where
  BY DEF Where, mutexVars
<1> QED
  BY <1>1, <1>2 DEF MutexSeen!vars, mutexVars, Blocked, Where

(* mutexLock and mutexUnlock do what Mutex says.                           *)
LEMMA EnterSeen ==
  ASSUME IInv, NEW t \in Thread, currentThread = t, t \notin holding, ~locked,
         NEW after \in {"run", "critical"}, mutexLock(t, after)
  PROVE  MutexSeen!Next
<1>1. /\ holding = {} /\ holding' = {t} /\ UNCHANGED <<waiter, state>> /\ locked' = TRUE
      /\ pc' = [pc EXCEPT ![t] = after]
  BY FreeMeansReady DEF mutexLock, Enter, Block, Goto, schedVars
<1>2. Blocked' = Blocked /\ t \notin Blocked
  BY <1>1, FreeMeansReady DEF Blocked
<1>3. /\ Where' = [Where EXCEPT ![t] = "inside"]
      /\ Where[t] \in {"outside", "waiting"}
  BY <1>1, TypesUsed DEF IInv, Where
<1>4. MutexSeen!Take(t)
  BY <1>1, <1>2, <1>3 DEF MutexSeen!Take, Where, Blocked
<1> QED
  BY <1>2, <1>4 DEF MutexSeen!Next, MutexSeen!Step, MutexSeen!mutexLock,
                    MutexSeen!MayRun, Blocked

LEMMA BlockSeen ==
  ASSUME IInv, IInv', NEW t \in Thread, currentThread = t, ~asleep, t \notin holding,
         Block(t)
  PROVE  MutexSeen!Next
<1>1. /\ locked /\ waiter' = t /\ UNCHANGED <<locked, holding>>
      /\ pc' = [pc EXCEPT ![t] = "wait"]
  BY DEF Block, Goto
<1>2. Other(t) # t /\ Other(t) \in Thread /\ state[Other(t)] # BLOCKED
  BY <1>1, BlocksYield, StatesAreNumbers
<1>3. state[t] # BLOCKED
  BY DEF IInv, SchedInv
<1>4. Blocked = {} /\ waiter = NoThread
  BY <1>2, <1>3, TypesUsed DEF IInv, MutexInv, Blocked, Other
<1>5. Blocked' = {t}
  <2>1. Blocked' = {waiter'} \ {NoThread}
    BY WaiterIsBlockedNext
  <2> QED BY <1>1, <2>1, TypesUsed DEF IInv
<1>6. /\ Where' = [Where EXCEPT ![t] = "waiting"]
      /\ Where[t] \in {"outside", "waiting"}
  BY <1>1, TypesUsed DEF IInv, Where
<1>7. MutexSeen!Wait(t)
  BY <1>1, <1>4, <1>5, <1>6 DEF MutexSeen!Wait, Where, Blocked
<1> QED
  BY <1>4, <1>7 DEF MutexSeen!Next, MutexSeen!Step, MutexSeen!mutexLock,
                    MutexSeen!MayRun, Blocked

LEMMA UnlockSeen ==
  ASSUME IInv, IInv', NEW t \in Thread, currentThread = t, t \in holding,
         NEW after \in {"run", "compute"}, mutexUnlock(t, after)
  PROVE  MutexSeen!Next
<1>1. /\ locked' = FALSE /\ waiter' = NoThread /\ holding' = holding \ {t}
      /\ pc' = [pc EXCEPT ![t] = after]
  BY DEF mutexUnlock, Goto
<1>2. Blocked' = {}
  <2>1. Blocked' = {waiter'} \ {NoThread}
    BY WaiterIsBlockedNext
  <2> QED BY <1>1, <2>1
<1>3. Blocked \ {waiter} = {} /\ t \notin Blocked
  BY WaiterIsBlocked DEF IInv, SchedInv, Blocked
<1>4. Where' = [Where EXCEPT ![t] = "outside"] /\ Where[t] = "inside"
  BY <1>1, TypesUsed DEF IInv, Where
<1>5. MutexSeen!mutexUnlock(t)
  BY <1>1, <1>2, <1>3, <1>4 DEF MutexSeen!mutexUnlock, MutexSeen!WakeWaiter, Where, Blocked
<1> QED
  BY <1>3, <1>5 DEF MutexSeen!Next, MutexSeen!Step, MutexSeen!MayRun, Blocked

LEMMA StepSeen == IInv /\ IInv' /\ [Next]_vars => [MutexSeen!Next]_(MutexSeen!vars)
<1> SUFFICES ASSUME IInv, IInv', [Next]_vars
             PROVE  MutexSeen!Next \/ UNCHANGED MutexSeen!vars
  OBVIOUS
<1>1. CASE UserLock \/ KernelLock
  <2>1. PICK t \in Thread, after \in {"run", "critical"} :
           /\ currentThread = t /\ ~asleep /\ t \notin holding /\ mutexLock(t, after)
    BY <1>1 DEF UserLock, KernelLock, At, IInv, MutexInv
  <2> QED BY <2>1, EnterSeen, BlockSeen DEF mutexLock, Enter
<1>2. CASE UserUnlock \/ KernelUnlock
  <2>1. PICK t \in Thread, after \in {"run", "compute"} :
           currentThread = t /\ t \in holding /\ mutexUnlock(t, after)
    BY <1>2 DEF UserUnlock, KernelUnlock, At, IInv, MutexInv
  <2> QED BY <2>1, UnlockSeen
<1>3. CASE UserSleep \/ UserSchedule \/ UserSleepOn \/ UserReturn \/ UserAlarm
           \/ UserExit \/ UserGone
  <2>1. /\ UNCHANGED mutexVars /\ pc[User] # "wait"
        /\ pc' = pc \/ \E l \in {"set", "back", "run", "exit", "dead"} :
                          pc' = [pc EXCEPT ![User] = l]
    BY <1>3 DEF UserSleep, UserSchedule, UserSleepOn, UserReturn, UserAlarm, UserExit,
                UserGone, At, Goto
  <2>2. \A t \in Thread : pc'[t] = "wait" <=> pc[t] = "wait"
    BY <2>1, TypesUsed DEF IInv
  <2> QED BY <2>1, <2>2, SeenUntouched
<1>4. CASE KernelRadio \/ KernelAlarms \/ KernelPass \/ KernelCompute \/ KernelSchedule
  <2>1. /\ UNCHANGED mutexVars /\ pc[Kernel] # "wait"
        /\ \E l \in {"radio", "alarms", "pass", "callback", "compute", "set"} :
              pc' = [pc EXCEPT ![Kernel] = l]
    BY <1>4 DEF KernelRadio, KernelAlarms, KernelPass, KernelCompute, KernelSchedule,
                At, Goto
  <2>2. \A t \in Thread : pc'[t] = "wait" <=> pc[t] = "wait"
    BY <2>1, TypesUsed DEF IInv
  <2> QED BY <2>1, <2>2, SeenUntouched
<1>5. CASE Time \/ RadioInterrupt \/ RadioWakeup \/ UNCHANGED vars
  <2>1. UNCHANGED mutexVars /\ UNCHANGED pc
    BY <1>5 DEF Time, Tick, SleepTick, RadioInterrupt, RadioWakeup, vars
  <2> QED BY <2>1, SeenUntouched
<1> QED
  BY <1>1, <1>2, <1>3, <1>4, <1>5 DEF Next, UserStep, KernelStep

(* The threads of the running system use a mutex as module Mutex describes *)
(* it: what MutexProofs shows of Mutex holds of them, too.                 *)
THEOREM ThreadsUseTheMutex == Spec => ImplementsMutex
<1>1. Init => MutexSeen!Init
  BY StatesAreNumbers DEF Init, MutexSeen!Init
<1> QED
  BY <1>1, StepSeen, Invariance, PTL DEF Spec, ImplementsMutex, MutexSeen!Spec
-----------------------------------------------------------------------------
(* Sleeping times, without the race window.                                *)

(* A difference of times as a number with a sign, as timeAfter32() sees it. *)
Signed(d) == IF d > Clock \div 2 THEN d - Clock ELSE d

(* The time left to a sleeper is not more than what is owed to it.         *)
Within(left, due) == After(left) => left <= due

(* The kernel thread wakes up before the alarm, by less than half a clock. *)
Meets(left, alarm) ==
  /\ Signed(left) <= Signed(alarm)
  /\ Signed(alarm) - Signed(left) < Clock \div 2

(* Without an interrupt between the write of jiffiesToSleep and schedule() *)
(* the thread that wrote it has the processor and its value is fresh.      *)
FreshTime ==
  /\ pc[User] = "set" =>
       currentThread = User /\ ~asleep /\ jiffiesToSleep = owed
  /\ pc[Kernel] = "set" =>
       currentThread = Kernel /\ ~asleep /\ jiffiesToSleep = KernelSleepTime

UserInTime   == state[User] = SLEEPING => Within(sleepLeft[User], owed)
KernelInTime ==
  state[Kernel] = SLEEPING /\ alarmLeft # NoAlarm /\ "alarms" \notin processFlags
     => Meets(sleepLeft[Kernel], alarmLeft)

TimeInv == FreshTime /\ UserInTime /\ KernelInTime
-----------------------------------------------------------------------------
(* Arithmetic of differences.                                              *)
LEMMA SmallRemainder ==
  ASSUME NEW d \in Int, NEW k \in Nat, k > 0, -k < d, d < k
  PROVE  d % k = IF d < 0 THEN d + k ELSE d
BY Z3

LEMMA HalfClock == Clock \div 2 \in 1..(Clock - 2) /\ 2 * (Clock \div 2) \in {Clock - 1, Clock}
BY ConstantsOK

LEMMA LessOf ==
  ASSUME NEW d \in 0..(Clock - 1)
  PROVE  Less(d) = IF d = 0 THEN Clock - 1 ELSE d - 1
<1> DEFINE e == d - 1
<1>1. e \in Int /\ -Clock < e /\ e < Clock /\ (e < 0 <=> d = 0)
  BY ConstantsOK
<1> HIDE DEF e
<1>2. e % Clock = IF e < 0 THEN e + Clock ELSE e
  BY <1>1, SmallRemainder, ConstantsOK
<1> QED
  BY <1>1, <1>2, ConstantsOK DEF Less, e

(* A difference one jiffy later, up to the bound of the clock.             *)
Later(d) == IF d = LongAgo THEN LongAgo ELSE Less(d)

LEMMA LaterOf ==
  ASSUME NEW d \in 0..(Clock - 1)
  PROVE  /\ Later(d) \in 0..(Clock - 1)
         /\ Signed(Later(d)) = IF d = LongAgo THEN Signed(d) ELSE Signed(d) - 1
         /\ Signed(d) >= Signed(LongAgo)
         /\ After(d) <=> Signed(d) > 0
         /\ Signed(d) > 0 => Signed(d) = d
BY LessOf, HalfClock, ConstantsOK DEF Later, LongAgo, Signed, After

LEMMA WithinLater ==
  ASSUME NEW d \in 0..(Clock - 1), NEW due \in 0..MaxMs, Within(d, due)
  PROVE  Within(Later(d), Most(due - 1, 0))
<1>1. CASE ~After(Later(d))
  BY <1>1 DEF Within
<1>2. CASE After(Later(d))
  <2>1. /\ d # LongAgo /\ Signed(d) > 1 /\ After(d) /\ Signed(d) = d
        /\ Later(d) = d - 1
    BY <1>2, LaterOf, HalfClock, ConstantsOK DEF Later, LongAgo, Signed, After
  <2>2. d <= due
    BY <2>1 DEF Within
  <2> QED
    BY <2>1, <2>2, ConstantsOK DEF Within, Most
<1> QED
  BY <1>1, <1>2

LEMMA MeetsLater ==
  ASSUME NEW d \in 0..(Clock - 1), NEW a \in 0..(Clock - 1), Meets(d, a)
  PROVE  Meets(Later(d), Later(a))
<1>1. Signed(d) \in Int /\ Signed(a) \in Int /\ Signed(LongAgo) \in Int
  BY HalfClock, ConstantsOK DEF Signed, LongAgo
<1>2. /\ Signed(Later(d)) = IF d = LongAgo THEN Signed(d) ELSE Signed(d) - 1
      /\ Signed(Later(a)) = IF a = LongAgo THEN Signed(a) ELSE Signed(a) - 1
      /\ Signed(d) >= Signed(LongAgo)
  BY LaterOf
<1>3. /\ Signed(d) = Signed(LongAgo) <=> d = LongAgo
      /\ Signed(a) = Signed(LongAgo) <=> a = LongAgo
  BY HalfClock, ConstantsOK DEF Signed, LongAgo
<1>4. Signed(d) <= Signed(a) /\ Signed(a) - Signed(d) < Clock \div 2
  BY DEF Meets
<1> QED
  BY <1>1, <1>2, <1>3, <1>4, HalfClock DEF Meets

(* What Meets says to timeAfter32().                                       *)
LEMMA MeetsInTime ==
  ASSUME NEW d \in 0..(Clock - 1), NEW a \in 0..(Clock - 1), Meets(d, a)
  PROVE  ~After((d - a) % Clock)
<1> DEFINE e == d - a
<1>1. e \in Int /\ -Clock < e /\ e < Clock
  BY ConstantsOK
<1>2. e \notin 1..(Clock \div 2) /\ e + Clock \notin 1..(Clock \div 2)
  BY HalfClock, ConstantsOK DEF Meets, Signed
<1> HIDE DEF e
<1>3. e % Clock = IF e < 0 THEN e + Clock ELSE e
  BY <1>1, SmallRemainder, ConstantsOK
<1>4. ~After(e % Clock)
  BY <1>2, <1>3 DEF After
<1> QED
  BY <1>4 DEF e
-----------------------------------------------------------------------------
LEMMA LaterTimes ==
  ASSUME TypeOK
  PROVE  /\ \A t \in Thread : state[t] = SLEEPING => SleepLater[t] = Later(sleepLeft[t])
         /\ alarmLeft # NoAlarm => AlarmLater = Later(alarmLeft) /\ AlarmLater # NoAlarm
         /\ alarmLeft = NoAlarm => AlarmLater = NoAlarm
<1>1. alarmLeft # NoAlarm => alarmLeft \in 0..(Clock - 1)
  BY ConstantsOK DEF TypeOK, NoAlarm
<1>2. alarmLeft # NoAlarm => Later(alarmLeft) \in 0..(Clock - 1)
  BY <1>1, LaterOf
<1> QED
  BY <1>1, <1>2, ConstantsOK DEF SleepLater, AlarmLater, Later, NoAlarm

(* A jiffy keeps sleepers in time, if flags are not lost.                  *)
LEMMA JiffyInTime ==
  ASSUME TypeOK, UserInTime, KernelInTime, alarmLeft' = AlarmLater,
         owed' = Most(owed - 1, 0), processFlags \subseteq processFlags'
  PROVE  /\ state[User] = SLEEPING => Within(SleepLater[User], owed')
         /\ state[Kernel] = SLEEPING /\ alarmLeft' # NoAlarm /\ "alarms" \notin processFlags'
               => Meets(SleepLater[Kernel], alarmLeft')
<1>1. sleepLeft[User] \in 0..(Clock - 1) /\ sleepLeft[Kernel] \in 0..(Clock - 1)
      /\ owed \in 0..MaxMs
  BY DEF TypeOK
<1>2. state[User] = SLEEPING => Within(SleepLater[User], owed')
  BY <1>1, LaterTimes, WithinLater DEF UserInTime
<1>3. ASSUME state[Kernel] = SLEEPING, alarmLeft' # NoAlarm, "alarms" \notin processFlags'
      PROVE  Meets(SleepLater[Kernel], alarmLeft')
  <2>1. alarmLeft # NoAlarm /\ "alarms" \notin processFlags
    BY <1>3, LaterTimes
  <2>2. alarmLeft \in 0..(Clock - 1)
    BY <2>1, ConstantsOK DEF TypeOK, NoAlarm
  <2> QED
    BY <1>1, <1>3, <2>1, <2>2, LaterTimes, MeetsLater DEF KernelInTime
<1> QED
  BY <1>2, <1>3

(* schedule() puts nobody to sleep but the current thread, and that one    *)
(* for the time it is called with.                                         *)
LEMMA Sleepers ==
  ASSUME currentThread \in Thread, NEW s \in States, NEW left \in Lefts,
         NEW j \in 0..(Short - 1), NEW flags, schedule(s, left, j, flags)
  PROVE  /\ sleepLeft' = [left EXCEPT ![currentThread] = j]
         /\ \A t \in Thread : state'[t] = SLEEPING =>
               s[t] = SLEEPING \/ (t = currentThread /\ j # 0)
<1> DEFINE c     == currentThread
           o     == Other(c)
           left1 == [left EXCEPT ![c] = j]
           s1    == IF s[c] = RUNNING
                    THEN [s EXCEPT ![c] = IF j # 0 THEN SLEEPING ELSE READY] ELSE s
           n     == NextThread(c, s1, left1)
           s2    == StateAfterSelect(c, s1, left1)
           j2    == IF n # c THEN left1[n] % Short ELSE j
           s3    == IF s2[n] = READY THEN [s2 EXCEPT ![n] = RUNNING] ELSE s2
<1>1. /\ sleepLeft' = left1
      /\ state' = IF s3[n] = SLEEPING /\ j2 = 0 THEN AfterSleep(s3, n, flags) ELSE s3
  BY DEF schedule
<1>2. s1 \in States /\ n \in Thread
      /\ \A t \in Thread : s1[t] = SLEEPING => s[t] = SLEEPING \/ (t = c /\ j # 0)
  BY StatesAreNumbers DEF States, NextThread, Other
<1> HIDE DEF s1, n
<1>3. s2 \in States /\ \A t \in Thread : s2[t] = SLEEPING => s1[t] = SLEEPING
  BY <1>2, StatesAreNumbers DEF States, StateAfterSelect, Other
<1> HIDE DEF s2, j2
<1>4. s3 \in States /\ \A t \in Thread : s3[t] = SLEEPING => s2[t] = SLEEPING
  BY <1>2, <1>3, StatesAreNumbers DEF States
<1> HIDE DEF s3
<1>5. \A t \in Thread : AfterSleep(s3, n, flags)[t] = SLEEPING => s3[t] = SLEEPING
  BY <1>2, <1>4, AfterSleepType, StatesAreNumbers
<1>6. \A t \in Thread : state'[t] = SLEEPING => s3[t] = SLEEPING
  BY <1>1, <1>5
<1> QED
  BY <1>1, <1>2, <1>3, <1>4, <1>6

(* Calls of schedule() by a thread that asks for a time that is in order.  *)
LEMMA ScheduleInTime ==
  ASSUME IInv, ~asleep, NEW s \in States, NEW left \in Lefts, NEW j \in 0..(Short - 1),
         NEW flags, schedule(s, left, j, flags),
         \A t \in Thread : s[t] = SLEEPING => state[t] = SLEEPING,
         state[User] = SLEEPING => Within(left[User], owed'),
         state[Kernel] = SLEEPING /\ alarmLeft' # NoAlarm /\ "alarms" \notin processFlags'
            => Meets(left[Kernel], alarmLeft'),
         currentThread = User => Within(j, owed'),
         currentThread = Kernel /\ j # 0 /\ alarmLeft' # NoAlarm
            /\ "alarms" \notin processFlags' => Meets(j, alarmLeft')
  PROVE  UserInTime' /\ KernelInTime'
<1>1. currentThread \in Thread /\ state[currentThread] # SLEEPING
  BY TypesUsed DEF IInv, SchedInv, StatesAgree
<1>2. /\ sleepLeft' = [left EXCEPT ![currentThread] = j]
      /\ \A t \in Thread : state'[t] = SLEEPING =>
            s[t] = SLEEPING \/ (t = currentThread /\ j # 0)
  BY <1>1, Sleepers
<1>3. \A t \in Thread : sleepLeft'[t] = IF t = currentThread THEN j ELSE left[t]
  BY <1>1, <1>2 DEF Lefts
<1>4. \A t \in Thread : state'[t] = SLEEPING =>
         \/ t # currentThread /\ state[t] = SLEEPING
         \/ t = currentThread /\ j # 0
  BY <1>1, <1>2
<1> HIDE DEF Within, Meets
<1>5. UserInTime'
  BY <1>3, <1>4 DEF UserInTime
<1>6. KernelInTime'
  BY <1>3, <1>4 DEF KernelInTime
<1> QED
  BY <1>5, <1>6
-----------------------------------------------------------------------------
(* What the kernel thread asks for ends before the next alarm.             *)
LEMMA KernelTimeMeets ==
  ASSUME TypeOK
  PROVE  alarmLeft # NoAlarm /\ KernelSleepTime # 0 => Meets(KernelSleepTime, alarmLeft)
<1> SUFFICES ASSUME alarmLeft # NoAlarm, KernelSleepTime # 0
             PROVE  Meets(KernelSleepTime, alarmLeft)
  OBVIOUS
<1>1. /\ alarmLeft \in 0..(Clock - 1) /\ alarmLeft < Clock \div 2
      /\ KernelSleepTime = Least(alarmLeft % Short, MaxKernelSleep)
  BY ConstantsOK DEF KernelSleepTime, TypeOK, NoAlarm
<1>2. ASSUME NEW d \in Nat, NEW n \in Nat, n > 0 PROVE d % n \in 0..(n - 1) /\ d % n <= d
  <2>1. d % n \in 0..(n - 1)
    <3>1. d \in Int
      OBVIOUS
    <3> QED
      BY <1>2, <3>1, Remainder
  <2>2. d < n => d % n = d
    BY SmallRemainder
  <2> QED
    BY <2>1, <2>2
<1>3. alarmLeft % Short \in Nat /\ alarmLeft % Short <= alarmLeft
  BY <1>1, <1>2, ConstantsOK
<1>4. KernelSleepTime \in 1..alarmLeft
  BY <1>1, <1>3, ConstantsOK DEF Least
<1> HIDE DEF KernelSleepTime
<1> QED
  BY <1>1, <1>4, HalfClock, ConstantsOK DEF Meets, Signed

(* A thread that has the processor does not sleep, and is the only one     *)
(* that may have written jiffiesToSleep.                                   *)
LEMMA Awake ==
  ASSUME IInv, ~asleep PROVE currentThread \in Thread /\ state[currentThread] # SLEEPING
BY TypesUsed DEF IInv, SchedInv, StatesAgree

LEMMA NoneSet ==
  ASSUME FreshTime, NEW t \in Thread, asleep \/ currentThread # t PROVE pc[t] # "set"
BY DEF FreshTime

LEMMA UserSleepTime == IInv /\ TimeInv /\ (UserSleep \/ UserSleepOn) => TimeInv'
<1> SUFFICES ASSUME IInv, TimeInv, UserSleep \/ UserSleepOn PROVE TimeInv'
  OBVIOUS
<1>1. /\ currentThread = User /\ ~asleep /\ jiffiesToSleep' = owed'
      /\ pc' = [pc EXCEPT ![User] = "set"]
      /\ UNCHANGED <<currentThread, state, sleepLeft, asleep, processFlags, alarmLeft>>
  BY DEF UserSleep, UserSleepOn, At, Goto
<1>2. state[User] # SLEEPING /\ pc[Kernel] # "set"
  BY <1>1, Awake, NoneSet DEF TimeInv
<1>3. pc'[Kernel] # "set"
  BY <1>1, <1>2, TypesUsed DEF IInv
<1> HIDE DEF Within, Meets
<1> QED
  BY <1>1, <1>2, <1>3 DEF TimeInv, FreshTime, UserInTime, KernelInTime

LEMMA KernelComputeTime == IInv /\ TimeInv /\ KernelCompute => TimeInv'
<1> SUFFICES ASSUME IInv, TimeInv, KernelCompute PROVE TimeInv'
  OBVIOUS
<1>1. /\ currentThread = Kernel /\ ~asleep /\ jiffiesToSleep' = KernelSleepTime
      /\ pc' = [pc EXCEPT ![Kernel] = "set"]
      /\ UNCHANGED <<currentThread, state, sleepLeft, asleep, owed, processFlags, alarmLeft>>
  BY DEF KernelCompute, At, Goto, mutexVars, appVars
<1>2. state[Kernel] # SLEEPING /\ pc'[User] # "set"
  BY <1>1, Awake, NoneSet, TypesUsed DEF TimeInv, IInv
<1>3. KernelSleepTime' = KernelSleepTime
  BY <1>1 DEF KernelSleepTime
<1> HIDE DEF KernelSleepTime
<1> QED
  BY <1>1, <1>2, <1>3 DEF TimeInv, FreshTime, UserInTime, KernelInTime

(* Steps of the current thread that do not touch its sleep.                *)
LEMMA QuietTime ==
  IInv /\ TimeInv /\ (\/ UserReturn \/ UserAlarm \/ UserExit \/ RadioInterrupt
                      \/ KernelRadio \/ KernelAlarms \/ KernelPass) => TimeInv'
<1> SUFFICES ASSUME IInv, TimeInv,
                    \/ UserReturn \/ UserAlarm \/ UserExit \/ RadioInterrupt
                    \/ KernelRadio \/ KernelAlarms \/ KernelPass
             PROVE  TimeInv'
  OBVIOUS
<1>1. CASE RadioInterrupt
  <2>1. /\ UNCHANGED <<currentThread, state, sleepLeft, jiffiesToSleep, asleep, owed,
                       alarmLeft, pc>>
        /\ processFlags \subseteq processFlags'
    BY <1>1 DEF RadioInterrupt, schedVars, appVars
  <2>2. KernelSleepTime' = KernelSleepTime
    BY <2>1 DEF KernelSleepTime
  <2> QED
    BY <2>1, <2>2 DEF TimeInv, FreshTime, UserInTime, KernelInTime
<1>2. CASE UserReturn \/ UserAlarm \/ UserExit
  <2>1. /\ currentThread = User /\ ~asleep
        /\ UNCHANGED <<currentThread, sleepLeft, owed>>
        /\ \E l \in {"run", "exit"} : pc' = [pc EXCEPT ![User] = l]
        /\ \A t \in Thread : state'[t] = SLEEPING => state[t] = SLEEPING
        /\ state'[Kernel] = SLEEPING => UNCHANGED <<alarmLeft, processFlags>>
    BY <1>2, TypesUsed, WakeupType, StatesAreNumbers
    DEF UserReturn, UserAlarm, UserExit, At, Goto, schedVars, appVars, IInv, States
  <2>2. state[User] # SLEEPING /\ pc'[User] # "set" /\ pc'[Kernel] # "set"
    BY <2>1, Awake, NoneSet, TypesUsed DEF TimeInv, IInv
  <2> HIDE DEF Within, Meets
  <2> QED
    BY <2>1, <2>2 DEF TimeInv, FreshTime, UserInTime, KernelInTime
<1>3. CASE KernelRadio \/ KernelAlarms \/ KernelPass
  <2>1. /\ currentThread = Kernel /\ ~asleep
        /\ UNCHANGED <<currentThread, state, sleepLeft, owed>>
        /\ \E l \in {"alarms", "pass", "compute", "callback"} : pc' = [pc EXCEPT ![Kernel] = l]
    BY <1>3 DEF KernelRadio, KernelAlarms, KernelPass, At, Goto, schedVars, appVars
  <2>2. state[Kernel] # SLEEPING /\ pc'[User] # "set" /\ pc'[Kernel] # "set"
    BY <2>1, Awake, NoneSet, TypesUsed DEF TimeInv, IInv
  <2> HIDE DEF Within, Meets
  <2> QED
    BY <2>1, <2>2 DEF TimeInv, FreshTime, UserInTime, KernelInTime
<1> QED
  BY <1>1, <1>2, <1>3

(* The calls of schedule() by the threads.                                 *)
LEMMA ZeroInTime == ASSUME NEW due \in 0..MaxMs PROVE Within(0, due)
BY DEF Within, After

LEMMA CallInTime ==
  ASSUME IInv, TimeInv, ~asleep, NEW s \in States, NEW j \in 0..(Short - 1),
         schedule(s, sleepLeft, j, processFlags),
         \A t \in Thread : s[t] = SLEEPING => state[t] = SLEEPING,
         UNCHANGED <<owed, alarmLeft, processFlags>>,
         j = 0 \/ j = jiffiesToSleep, j # 0 => pc[currentThread] = "set",
         NEW l \in {"back", "dead", "radio", "wait", "run", "compute"},
         pc' = [pc EXCEPT ![currentThread] = l]
  PROVE  TimeInv'
<1>1. /\ currentThread \in Thread /\ sleepLeft \in Lefts /\ owed \in 0..MaxMs
      /\ 0 \in 0..(Short - 1)
  BY TypesUsed, ConstantsOK DEF IInv, TypeOK
<1>2. \A t \in Thread : pc'[t] # "set"
  BY <1>1, NoneSet, TypesUsed DEF TimeInv, IInv
<1>3. FreshTime'
  BY <1>2 DEF FreshTime
<1>4. currentThread = User => Within(j, owed')
  <2>1. CASE j = 0
    BY <1>1, <2>1, ZeroInTime
  <2>2. CASE j # 0
    BY <1>1, <2>2 DEF TimeInv, FreshTime, Within
  <2> QED
    BY <2>1, <2>2
<1>5. currentThread = Kernel /\ j # 0 /\ alarmLeft' # NoAlarm => Meets(j, alarmLeft')
  BY KernelTimeMeets DEF TimeInv, FreshTime, IInv
<1>6. UserInTime' /\ KernelInTime'
  <2> HIDE DEF Within, Meets
  <2> QED
    BY <1>1, <1>4, <1>5, ScheduleInTime DEF TimeInv, UserInTime, KernelInTime
<1> QED
  BY <1>3, <1>6 DEF TimeInv

LEMMA ScheduleTime ==
  IInv /\ TimeInv /\ (UserSchedule \/ UserGone \/ KernelSchedule) => TimeInv'
<1> SUFFICES ASSUME IInv, TimeInv, UserSchedule \/ UserGone \/ KernelSchedule PROVE TimeInv'
  OBVIOUS
<1>1. state \in States /\ jiffiesToSleep \in 0..(Short - 1)
  BY TypesUsed DEF IInv
<1>2. CASE UserSchedule \/ KernelSchedule
  <2>1. /\ ~asleep /\ pc[currentThread] = "set"
        /\ schedule(state, sleepLeft, jiffiesToSleep, processFlags)
        /\ \E l \in {"back", "radio"} : pc' = [pc EXCEPT ![currentThread] = l]
        /\ UNCHANGED <<owed, alarmLeft, processFlags>>
    BY <1>2 DEF UserSchedule, KernelSchedule, At, Goto, appVars
  <2> QED
    BY <1>1, <2>1, CallInTime
<1>3. CASE UserGone
  <2>1. /\ ~asleep /\ currentThread = User /\ pc[User] = "exit"
        /\ schedule(state, sleepLeft, jiffiesToSleep, processFlags)
        /\ pc' = [pc EXCEPT ![User] = "dead"]
        /\ UNCHANGED <<owed, alarmLeft, processFlags>>
    BY <1>3 DEF UserGone, At, Goto, appVars
  <2>2. /\ state[User] = UNUSED /\ currentThread \in Thread /\ sleepLeft \in Lefts
    BY <2>1, TypesUsed DEF IInv, SchedInv
  <2>3. /\ sleepLeft' = [sleepLeft EXCEPT ![User] = jiffiesToSleep]
        /\ state'[Kernel] = SLEEPING => state[Kernel] = SLEEPING
    BY <1>1, <2>1, <2>2, Sleepers
  <2>4. state'[User] = UNUSED
    <3>1. state[Other(currentThread)] # RUNNING
      BY OtherWaits
    <3> QED
      BY <1>1, <2>1, <2>2, <3>1, Scheduled
  <2>5. pc'[User] # "set" /\ pc'[Kernel] # "set"
    BY <2>1, NoneSet, TypesUsed DEF TimeInv, IInv
  <2>6. sleepLeft'[Kernel] = sleepLeft[Kernel]
    BY <2>2, <2>3 DEF Lefts
  <2> HIDE DEF Within, Meets
  <2> QED
    BY <2>1, <2>3, <2>4, <2>5, <2>6, StatesAreNumbers
    DEF TimeInv, FreshTime, UserInTime, KernelInTime
<1> QED
  BY <1>2, <1>3

(* mutexLock() and mutexUnlock(): whoever calls schedule() does so with 0.  *)
LEMMA MutexTime ==
  IInv /\ TimeInv /\ (UserLock \/ KernelLock \/ UserUnlock \/ KernelUnlock) => TimeInv'
<1> SUFFICES ASSUME IInv, TimeInv, UserLock \/ KernelLock \/ UserUnlock \/ KernelUnlock
             PROVE  TimeInv'
  OBVIOUS
<1>1. /\ ~asleep /\ UNCHANGED <<owed, alarmLeft, processFlags>>
      /\ \E l \in {"run", "critical", "compute"} :
            mutexLock(currentThread, l) \/ mutexUnlock(currentThread, l)
  BY DEF UserLock, KernelLock, UserUnlock, KernelUnlock, At
<1>2. /\ currentThread \in Thread /\ state \in States /\ 0 \in 0..(Short - 1)
      /\ state[currentThread] # SLEEPING
  BY <1>1, Awake, TypesUsed, ConstantsOK DEF IInv
<1>3. CASE /\ UNCHANGED schedVars
           /\ \E l \in {"run", "critical", "compute"} : pc' = [pc EXCEPT ![currentThread] = l]
  <2>1. UNCHANGED <<currentThread, state, sleepLeft, jiffiesToSleep, asleep>>
    BY <1>3 DEF schedVars
  <2>2. \A t \in Thread : pc'[t] # "set"
    BY <1>2, <1>3, NoneSet, TypesUsed DEF TimeInv, IInv
  <2> HIDE DEF Within, Meets
  <2> QED
    BY <1>1, <2>1, <2>2 DEF TimeInv, FreshTime, UserInTime, KernelInTime
<1>4. ASSUME NEW s \in States, schedule(s, sleepLeft, 0, processFlags),
             \A t \in Thread : s[t] = SLEEPING => state[t] = SLEEPING,
             NEW l \in {"wait", "run", "compute"}, pc' = [pc EXCEPT ![currentThread] = l]
      PROVE  TimeInv'
  BY <1>1, <1>2, <1>4, CallInTime
<1>5. CASE Block(currentThread)
  <2>1. /\ [state EXCEPT ![currentThread] = BLOCKED] \in States
        /\ \A t \in Thread : [state EXCEPT ![currentThread] = BLOCKED][t] = SLEEPING =>
                                state[t] = SLEEPING
    BY <1>2, StatesAreNumbers DEF States
  <2>2. /\ schedule([state EXCEPT ![currentThread] = BLOCKED], sleepLeft, 0, processFlags)
        /\ pc' = [pc EXCEPT ![currentThread] = "wait"]
    BY <1>5 DEF Block, Goto
  <2> QED
    BY <1>4, <2>1, <2>2
<1>6. ASSUME NEW l \in {"run", "critical", "compute"}, mutexUnlock(currentThread, l),
             l # "critical"
      PROVE  TimeInv'
  <2>1. CASE waiter = NoThread
    BY <1>3, <1>6, <2>1 DEF mutexUnlock, Goto
  <2>2. CASE waiter # NoThread
    <3>1. /\ [state EXCEPT ![waiter] = READY] \in States
          /\ \A t \in Thread : [state EXCEPT ![waiter] = READY][t] = SLEEPING =>
                                  state[t] = SLEEPING
      BY <1>2, <2>2, TypesUsed, StatesAreNumbers DEF States, IInv
    <3>2. /\ schedule([state EXCEPT ![waiter] = READY], sleepLeft, 0, processFlags)
          /\ pc' = [pc EXCEPT ![currentThread] = l]
      BY <1>6, <2>2 DEF mutexUnlock, Goto
    <3> QED
      BY <1>4, <1>6, <3>1, <3>2
  <2> QED
    BY <2>1, <2>2
<1>7. CASE UserLock \/ KernelLock
  <2>1. \/ Block(currentThread)
        \/ \E l \in {"run", "critical", "compute"} : Enter(currentThread, l)
    BY <1>7 DEF UserLock, KernelLock, At, mutexLock
  <2> QED
    BY <1>3, <1>5, <2>1 DEF Enter, Goto
<1>8. CASE UserUnlock \/ KernelUnlock
  <2>1. \E l \in {"run", "compute"} : mutexUnlock(currentThread, l)
    BY <1>8 DEF UserUnlock, KernelUnlock, At
  <2> QED
    BY <1>6, <2>1
<1> QED
  BY <1>7, <1>8
-----------------------------------------------------------------------------
(* Interrupts and the end of sleeps.                                       *)
LEMMA TickTime ==
  ASSUME ~Window, IInv, TimeInv, NEW wrap \in BOOLEAN, Tick(wrap) PROVE TimeInv'
<1> DEFINE flags == scheduleProcessAlarms
           s     == IF ToKernel(flags) THEN threadWakeup(state, Kernel, READY) ELSE state
<1>1. /\ processFlags' = flags /\ alarmLeft' = AlarmLater /\ owed' = Most(owed - 1, 0)
      /\ ~asleep /\ pc[currentThread] # "set" /\ pc' = pc
      /\ \/ schedule(s, SleepLater, 0, flags)
         \/ /\ sleepLeft' = SleepLater
            /\ UNCHANGED <<currentThread, state>>
  BY DEF Tick, InterruptPossible, Preempt
<1>2. /\ currentThread \in Thread /\ SleepLater \in Lefts /\ 0 \in 0..(Short - 1)
      /\ owed' \in 0..MaxMs
  BY <1>1, TypesUsed, LaterTypes, ConstantsOK DEF IInv, TypeOK, Most
<1>3. s \in States /\ \A t \in Thread : s[t] = SLEEPING => state[t] = SLEEPING
  BY TypesUsed, WakeupType, StatesAreNumbers DEF IInv
<1>4. processFlags \subseteq flags
  BY DEF scheduleProcessAlarms
<1> HIDE DEF s, flags
<1>5. \A t \in Thread : pc'[t] # "set"
  BY <1>1, <1>2, NoneSet DEF TimeInv
<1>6. /\ state[User] = SLEEPING => Within(SleepLater[User], owed')
      /\ state[Kernel] = SLEEPING /\ alarmLeft' # NoAlarm /\ "alarms" \notin processFlags'
            => Meets(SleepLater[Kernel], alarmLeft')
  BY <1>1, <1>4, JiffyInTime DEF IInv, TimeInv
<1>7. Within(0, owed')
  BY <1>2, ZeroInTime
<1> HIDE DEF Within, Meets
<1>8. UserInTime' /\ KernelInTime'
  <2>1. CASE schedule(s, SleepLater, 0, flags)
    BY <1>1, <1>2, <1>3, <1>6, <1>7, <2>1, ScheduleInTime
  <2>2. CASE sleepLeft' = SleepLater /\ UNCHANGED <<currentThread, state>>
    BY <1>6, <2>2 DEF UserInTime, KernelInTime
  <2> QED
    BY <1>1, <2>1, <2>2
<1> QED
  BY <1>5, <1>8 DEF TimeInv, FreshTime

LEMMA SleepTickTime == IInv /\ TimeInv /\ SleepTick => TimeInv'
<1> SUFFICES ASSUME IInv, TimeInv, SleepTick PROVE TimeInv'
  OBVIOUS
<1>1. /\ asleep /\ sleepLeft' = SleepLater /\ alarmLeft' = AlarmLater
      /\ owed' = Most(owed - 1, 0) /\ processFlags' = processFlags /\ pc' = pc
      /\ state' = state \/ state' = AfterSleep(state, currentThread, processFlags)
  BY DEF SleepTick
<1>2. \A t \in Thread : state'[t] = SLEEPING => state[t] = SLEEPING
  BY <1>1, TypesUsed, AfterSleepType DEF IInv
<1>3. \A t \in Thread : pc'[t] # "set"
  BY <1>1, NoneSet DEF TimeInv
<1>4. /\ state[User] = SLEEPING => Within(SleepLater[User], owed')
      /\ state[Kernel] = SLEEPING /\ alarmLeft' # NoAlarm /\ "alarms" \notin processFlags'
            => Meets(SleepLater[Kernel], alarmLeft')
  BY <1>1, JiffyInTime DEF IInv, TimeInv
<1> HIDE DEF Within, Meets
<1> QED
  BY <1>1, <1>2, <1>3, <1>4 DEF TimeInv, FreshTime, UserInTime, KernelInTime

LEMMA RadioWakeupTime == IInv /\ TimeInv /\ RadioWakeup => TimeInv'
<1> SUFFICES ASSUME IInv, TimeInv, RadioWakeup PROVE TimeInv'
  OBVIOUS
<1>1. /\ asleep /\ state' = AfterSleep(state, currentThread, processFlags')
      /\ processFlags \subseteq processFlags'
      /\ UNCHANGED <<sleepLeft, owed, alarmLeft, pc>>
  BY DEF RadioWakeup, appVars
<1>2. \A t \in Thread : state'[t] = SLEEPING => state[t] = SLEEPING
  BY <1>1, TypesUsed, AfterSleepType DEF IInv
<1>3. \A t \in Thread : pc'[t] # "set"
  BY <1>1, NoneSet DEF TimeInv
<1> HIDE DEF Within, Meets
<1> QED
  BY <1>1, <1>2, <1>3 DEF TimeInv, FreshTime, UserInTime, KernelInTime
-----------------------------------------------------------------------------
LEMMA StepTime == ASSUME ~Window PROVE IInv /\ TimeInv /\ [Next]_vars => TimeInv'
<1> SUFFICES ASSUME IInv, TimeInv, [Next]_vars PROVE TimeInv'
  OBVIOUS
<1>1. CASE UNCHANGED vars
  <2>1. UNCHANGED <<currentThread, state, sleepLeft, jiffiesToSleep, asleep, owed, pc,
                    processFlags, alarmLeft>>
    BY <1>1 DEF vars, schedVars, appVars
  <2>2. KernelSleepTime' = KernelSleepTime
    BY <2>1 DEF KernelSleepTime
  <2> QED
    BY <2>1, <2>2 DEF TimeInv, FreshTime, UserInTime, KernelInTime
<1>2. CASE Time
  BY <1>2, TickTime, SleepTickTime DEF Time
<1> QED
  BY <1>1, <1>2, UserSleepTime, KernelComputeTime, QuietTime, ScheduleTime, MutexTime,
     RadioWakeupTime
  DEF Next, UserStep, KernelStep

LEMMA TimeHolds == ASSUME ~Window PROVE Spec => [](IInv /\ TimeInv)
<1>1. Init => TimeInv
  BY StatesAreNumbers DEF Init, TimeInv, FreshTime, UserInTime, KernelInTime
<1> QED
  BY <1>1, StepTime, InitEstablishes, StepKeeps, PTL DEF Spec

(* But for the race at jiffiesToSleep, schedule() never puts the user      *)
(* thread to sleep for longer than msleep() asked it to (threads.c:318).   *)
THEOREM NobodyOversleeps == ASSUME ~Window PROVE Spec => []NeverOversleeps
<1>1. TimeInv => NeverOversleeps
  BY DEF TimeInv, UserInTime, Within, NeverOversleeps
<1> QED
  BY <1>1, TimeHolds, PTL

(* But for that race the kernel thread never sleeps past the head of the   *)
(* alarm list, unless the alarms flag is up and wakes it (main.c:62).      *)
THEOREM AlarmIsMet == ASSUME ~Window PROVE Spec => []KernelMeetsAlarm
<1>1. IInv /\ TimeInv => KernelMeetsAlarm
  <2> SUFFICES ASSUME IInv, TimeInv, state[Kernel] = SLEEPING, alarmLeft # NoAlarm,
                      "alarms" \notin processFlags
               PROVE  ~After((sleepLeft[Kernel] - alarmLeft) % Clock)
    BY DEF KernelMeetsAlarm
  <2>1. sleepLeft[Kernel] \in 0..(Clock - 1) /\ alarmLeft \in 0..(Clock - 1)
    BY ConstantsOK DEF IInv, TypeOK, NoAlarm
  <2>2. Meets(sleepLeft[Kernel], alarmLeft)
    BY DEF TimeInv, KernelInTime
  <2> QED
    BY <2>1, <2>2, MeetsInTime
<1> QED
  BY <1>1, TimeHolds, PTL
=============================================================================
