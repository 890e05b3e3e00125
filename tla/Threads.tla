------------------------------ MODULE Threads ------------------------------
(***************************************************************************)
(* The threaded MansOS kernel in its default configuration: one user       *)
(* thread and the kernel thread (kernel/threads/threads.c, timing.c,       *)
(* main.c, mutex.c; kernel/sleep.c).                                       *)
(*                                                                         *)
(* Time.  The code compares absolute jiffies with timeAfter32(), which     *)
(* only looks at differences modulo 2^32, so the model keeps differences:  *)
(* sleepLeft[t] is threads[t].sleepEndTime - jiffies and alarmLeft is the  *)
(* first alarm's jiffies - jiffies, both modulo Clock.  jiffiesToSleep is  *)
(* a uint16_t: it is kept modulo Short.                                    *)
(*                                                                         *)
(* Steps.  schedule() runs with interrupts disabled and is part of the     *)
(* step that calls it.  The interval between the assignment of             *)
(* jiffiesToSleep and the dint of schedule() is a control point of its own *)
(* ("set"), because an interrupt can fall into it.                         *)
(***************************************************************************)
EXTENDS Integers, FiniteSets

CONSTANTS Clock,          \* jiffies are counted modulo Clock (2^32)
          Short,          \* jiffiesToSleep is counted modulo Short (2^16)
          MinSleep,       \* PLATFORM_MIN_SLEEP_MS
          MaxSleep,       \* PLATFORM_MAX_SLEEP_MS
          MaxKernelSleep, \* MAX_KERNEL_SLEEP_TIME
          MaxMs,          \* bound: the longest msleep() a user asks for
          MaxDelay,       \* bound: the longest alarmSchedule() delay
          Window          \* may interrupts fall between "jiffiesToSleep ="
                          \* and dint?

ASSUME ClockAssumption ==
  /\ Short \in Nat \ {0} /\ Clock \in Nat /\ Clock % Short = 0 /\ Clock >= 2 * Short
  /\ MaxSleep \in 1..(Short - 1) /\ MinSleep \in 0..MaxSleep
  /\ MaxKernelSleep \in 1..(Short - 1)
  /\ MaxMs \in 0..(Short - 1) /\ MaxDelay \in 1..(Short - 1)
  /\ Window \in BOOLEAN

User     == "user"
Kernel   == "kernel"
Thread   == {User, Kernel}
NoThread == "NULL"
NoAlarm  == Clock

(* ThreadState_t, in the order the scheduler compares it.                  *)
UNUSED   == 0
BLOCKED  == 1
SLEEPING == 2
READY    == 3
RUNNING  == 4

VARIABLES currentThread, state, sleepLeft, jiffiesToSleep,
          processFlags,   \* the bits set: a subset of {"alarms", "radio"}
          alarmLeft,      \* time to the head of the alarm list, or NoAlarm
          locked, waiter, \* one mutex shared by the two threads
          asleep,         \* isInSleepMode: the CPU is in low power mode
          wakeLeft,       \* jiffies until the sleep timer fires
          pc,             \* where each thread is
          restMs,         \* msleep: the local variable ms
          holding,        \* the threads between mutexLock and mutexUnlock
                          \* (the code keeps no owner)
          owed            \* what remains of the sleep the user asked
                          \* schedule() for (not in the code)

schedVars == <<currentThread, state, sleepLeft, jiffiesToSleep, asleep, wakeLeft>>
mutexVars == <<locked, waiter, holding>>
appVars   == <<restMs, owed>>
vars      == <<schedVars, mutexVars, appVars, processFlags, alarmLeft, pc>>

-----------------------------------------------------------------------------
Least(a, b) == IF a < b THEN a ELSE b
Most(a, b)  == IF a > b THEN a ELSE b

(* timeAfter32(a, b) on d = a - b modulo Clock.                            *)
After(d) == d \in 1..(Clock \div 2)

(* A difference that shrinks as one jiffy passes.                          *)
Less(d) == (d - 1) % Clock

(* Mutant of SleepLater: the time of a sleeper does not go on.             *)
SleepLaterStands == sleepLeft

(* The alarm list, and every sleep, seen one jiffy later.  Bound of the    *)
(* modular clock: what is overdue by almost half its range stays so (on a  *)
(* mote nothing becomes overdue by 2^31 ms, 25 days).                      *)
LongAgo    == (Clock \div 2) + 1
SleepLater == [t \in Thread |-> IF state[t] = SLEEPING /\ sleepLeft[t] = LongAgo
                                THEN LongAgo ELSE Less(sleepLeft[t])]
AlarmLater == IF alarmLeft \in {NoAlarm, LongAgo} THEN alarmLeft ELSE Less(alarmLeft)

Other(t) == IF t = User THEN Kernel ELSE User

(* threadWakeup(t, new), on the states s.                                  *)
threadWakeup(s, t, new) == IF s[t] = SLEEPING THEN [s EXCEPT ![t] = new] ELSE s

(* SELECT_NEXT_THREAD for one user thread: run the other thread if it is   *)
(* ready or its sleep is over; between two sleepers, the first to wake.    *)
NextThread(c, s, left) ==
  LET o == Other(c)
  IN  IF \/ s[o] = READY
         \/ s[o] = SLEEPING /\ \/ ~After(left[o])
                               \/ s[c] < SLEEPING
                               \/ s[c] = SLEEPING /\ After((left[c] - left[o]) % Clock)
      THEN o ELSE c

(* SELECT_NEXT_THREAD also makes the sleeper it found awake READY.         *)
StateAfterSelect(c, s, left) ==
  LET o == Other(c)
  IN  IF s[o] = SLEEPING /\ ~After(left[o]) THEN [s EXCEPT ![o] = READY] ELSE s

(* Mutant of SleepTime: without the upper bound.                           *)
SleepTimeUncapped(ms) == Most(ms, MinSleep)

(* The duration doMsleep() programs for a request of ms.                   *)
SleepTime(ms) == IF ms > MaxSleep THEN MaxSleep ELSE Most(ms, MinSleep)

(* Mutant of AfterSleep: the current thread is not made RUNNING.           *)
AfterSleepForgets(s, c, flags) ==
  IF flags # {} THEN threadWakeup(s, Kernel, READY) ELSE s

(* doMsleep() after the CPU left low power mode, on states s, current      *)
(* thread c: the current thread runs on, whatever woke the CPU up.         *)
AfterSleep(s, c, flags) ==
  LET awake == threadWakeup(s, c, RUNNING)
  IN  IF flags # {} THEN threadWakeup(awake, Kernel, READY) ELSE awake

(* schedule(), entered by the current thread with thread states s, sleep   *)
(* times left, jiffiesToSleep = j and the process flags given, until it    *)
(* returns in the next thread or stops the CPU in doMsleep().              *)
schedule(s, left, j, flags) ==
  LET c     == currentThread
      left1 == [left EXCEPT ![c] = j]
      s1    == IF s[c] = RUNNING
               THEN [s EXCEPT ![c] = IF j # 0 THEN SLEEPING ELSE READY] ELSE s
      next  == NextThread(c, s1, left1)
      s2    == StateAfterSelect(c, s1, left1)
      j2    == IF next # c THEN left1[next] % Short ELSE j
      s3    == IF s2[next] = READY THEN [s2 EXCEPT ![next] = RUNNING] ELSE s2
      stop  == s3[next] = SLEEPING /\ j2 # 0
  IN  /\ currentThread' = next
      /\ sleepLeft' = left1
      /\ jiffiesToSleep' = j2
      /\ asleep' = stop
      /\ wakeLeft' = IF stop THEN SleepTime(j2) ELSE 0
      /\ state' = IF s3[next] = SLEEPING /\ j2 = 0
                  THEN AfterSleep(s3, next, flags) ELSE s3

Goto(t, l) == pc' = [pc EXCEPT ![t] = l]

(* Thread t has the processor and is at point l.                           *)
At(t, l) == ~asleep /\ currentThread = t /\ pc[t] = l
-----------------------------------------------------------------------------
(* startThreads(): the user thread runs first, the kernel thread is ready. *)
Init == /\ currentThread = User
        /\ state = [t \in Thread |-> IF t = User THEN RUNNING ELSE READY]
        /\ sleepLeft = [t \in Thread |-> 0]
        /\ jiffiesToSleep = 0
        /\ processFlags = {}
        /\ alarmLeft = NoAlarm
        /\ locked = FALSE /\ waiter = NoThread /\ holding = {}
        /\ asleep = FALSE /\ wakeLeft = 0
        /\ pc = [t \in Thread |-> IF t = User THEN "run" ELSE "radio"]
        /\ restMs = 0 /\ owed = 0
-----------------------------------------------------------------------------
(* mutexLock and mutexUnlock, called by t; after is where it goes on.      *)

(* Mutant of Enter: the flag is not tested again after yield().            *)
EnterUntested(t, after) == /\ pc[t] = "wait" \/ ~locked
                           /\ locked' = TRUE
                           /\ holding' = holding \cup {t}
                           /\ Goto(t, after)
                           /\ UNCHANGED <<waiter, schedVars>>

(* The test of the loop of mutexLock: the mutex is free.                   *)
Enter(t, after) == /\ ~locked
                   /\ locked' = TRUE
                   /\ holding' = holding \cup {t}
                   /\ Goto(t, after)
                   /\ UNCHANGED <<waiter, schedVars>>

(* Mutant of Block: the waiter is not registered.                          *)
BlockUnregistered(t) ==
  /\ locked
  /\ schedule([state EXCEPT ![t] = BLOCKED], sleepLeft, 0, processFlags)
  /\ Goto(t, "wait")
  /\ UNCHANGED <<waiter, locked, holding>>

(* The mutex is locked: become BLOCKED and yield().  The interrupts are    *)
(* disabled since the test, so no interrupt falls before schedule().       *)
Block(t) == /\ locked
            /\ waiter' = t
            /\ schedule([state EXCEPT ![t] = BLOCKED], sleepLeft, 0, processFlags)
            /\ Goto(t, "wait")
            /\ UNCHANGED <<locked, holding>>

mutexLock(t, after) == Enter(t, after) \/ Block(t)

(* Mutant of mutexUnlock: the waiter is forgotten and not woken up.        *)
UnlockNoWakeup(t, after) ==
  /\ locked' = FALSE
  /\ holding' = holding \ {t}
  /\ waiter' = NoThread
  /\ Goto(t, after)
  /\ UNCHANGED schedVars

mutexUnlock(t, after) ==
  /\ locked' = FALSE
  /\ holding' = holding \ {t}
  /\ waiter' = NoThread
  /\ Goto(t, after)
  /\ IF waiter # NoThread
     THEN schedule([state EXCEPT ![waiter] = READY], sleepLeft, 0, processFlags)
     ELSE UNCHANGED schedVars
-----------------------------------------------------------------------------
(* The user thread.                                                        *)

(* msleep(ms), up to the assignment of jiffiesToSleep; yield() is msleep(0) *)
UserSleep == /\ At(User, "run")
             /\ \E ms \in 0..MaxMs :
                  /\ jiffiesToSleep' = Least(ms, MaxSleep)
                  /\ restMs' = ms - Least(ms, MaxSleep)
                  /\ owed' = Least(ms, MaxSleep)
             /\ Goto(User, "set")
             /\ UNCHANGED <<currentThread, state, sleepLeft, asleep, wakeLeft,
                            mutexVars, processFlags, alarmLeft>>

(* ... and the call of schedule().                                         *)
UserSchedule == /\ At(User, "set")
                /\ schedule(state, sleepLeft, jiffiesToSleep, processFlags)
                /\ Goto(User, "back")
                /\ UNCHANGED <<mutexVars, appVars, processFlags, alarmLeft>>

(* schedule() has returned in msleep: sleep for the rest ...               *)
UserSleepOn == /\ At(User, "back") /\ restMs > 0
               /\ jiffiesToSleep' = Least(restMs, MaxSleep)
               /\ restMs' = restMs - Least(restMs, MaxSleep)
               /\ owed' = Least(restMs, MaxSleep)
               /\ Goto(User, "set")
               /\ UNCHANGED <<currentThread, state, sleepLeft, asleep, wakeLeft,
                              mutexVars, processFlags, alarmLeft>>

(* ... or return to the application.                                       *)
UserReturn == /\ At(User, "back") /\ restMs = 0
              /\ Goto(User, "run")
              /\ UNCHANGED <<schedVars, mutexVars, appVars, processFlags, alarmLeft>>

UserLock == /\ \/ At(User, "run") /\ User \notin holding
               \/ At(User, "wait")
            /\ mutexLock(User, "run")
            /\ UNCHANGED <<restMs, owed, processFlags, alarmLeft>>

UserUnlock == /\ At(User, "run") /\ User \in holding
              /\ mutexUnlock(User, "run")
              /\ UNCHANGED <<restMs, owed, processFlags, alarmLeft>>

(* alarmSchedule() from the user thread, as far as the head of the list is *)
(* concerned (module Alarms has the list).                                 *)
UserAlarm == /\ At(User, "run")
             /\ \E d \in 1..MaxDelay :
                  alarmLeft' = IF alarmLeft = NoAlarm \/ ~After((d - alarmLeft) % Clock)
                               THEN d ELSE alarmLeft
             /\ processFlags' = processFlags \cup {"alarms"}
             /\ state' = threadWakeup(state, Kernel, READY)
             /\ UNCHANGED <<currentThread, sleepLeft, jiffiesToSleep, asleep, wakeLeft,
                            mutexVars, appVars, pc>>

(* Mutant of UserExit: the state stays RUNNING.                            *)
UserExitRunning == /\ At(User, "run") /\ User \notin holding
                   /\ jiffiesToSleep' = 0
                   /\ Goto(User, "exit")
                   /\ UNCHANGED <<currentThread, state, sleepLeft, asleep, wakeLeft,
                                  mutexVars, appVars, processFlags, alarmLeft>>

(* The thread function returns in threadWrapper(); yield() follows.        *)
UserExit == /\ At(User, "run") /\ User \notin holding
            /\ state' = [state EXCEPT ![User] = UNUSED]
            /\ jiffiesToSleep' = 0
            /\ Goto(User, "exit")
            /\ UNCHANGED <<currentThread, sleepLeft, asleep, wakeLeft,
                           mutexVars, appVars, processFlags, alarmLeft>>

UserGone == /\ At(User, "exit")
            /\ schedule(state, sleepLeft, jiffiesToSleep, processFlags)
            /\ Goto(User, "dead")
            /\ UNCHANGED <<mutexVars, appVars, processFlags, alarmLeft>>
-----------------------------------------------------------------------------
(* The kernel thread: systemMain().                                        *)

KernelRadio == /\ At(Kernel, "radio")
               /\ processFlags' = processFlags \ {"radio"}
               /\ Goto(Kernel, "alarms")
               /\ UNCHANGED <<schedVars, mutexVars, appVars, alarmLeft>>

KernelAlarms == /\ At(Kernel, "alarms")
                /\ processFlags' = processFlags \ {"alarms"}
                /\ Goto(Kernel, IF "alarms" \in processFlags THEN "pass" ELSE "compute")
                /\ UNCHANGED <<schedVars, mutexVars, appVars, alarmLeft>>

(* alarmsProcess(): the expired alarms leave the list.  A callback may     *)
(* schedule an alarm again, which sets the flag, and may use the mutex.    *)
KernelPass ==
  /\ At(Kernel, "pass")
  /\ IF alarmLeft # NoAlarm /\ ~After(alarmLeft)
     THEN /\ alarmLeft' \in {NoAlarm} \cup 1..MaxDelay
          /\ processFlags' \in IF alarmLeft' = NoAlarm THEN {processFlags}
                               ELSE {processFlags, processFlags \cup {"alarms"}}
          /\ \E l \in {"callback", "compute"} : Goto(Kernel, l)
     ELSE /\ Goto(Kernel, "compute")
          /\ UNCHANGED <<alarmLeft, processFlags>>
  /\ UNCHANGED <<schedVars, mutexVars, appVars>>

KernelLock == /\ At(Kernel, "callback") \/ At(Kernel, "wait")
              /\ mutexLock(Kernel, "critical")
              /\ UNCHANGED <<restMs, owed, processFlags, alarmLeft>>

KernelUnlock == /\ At(Kernel, "critical")
                /\ mutexUnlock(Kernel, "compute")
                /\ UNCHANGED <<restMs, owed, processFlags, alarmLeft>>

(* Mutant of KernelSleepTime: the alarms are not looked at.                *)
KernelSleepsOn == MaxKernelSleep

(* How long the kernel thread may sleep: until the next alarm.             *)
KernelSleepTime ==
  IF alarmLeft = NoAlarm THEN MaxKernelSleep
  ELSE IF alarmLeft >= Clock \div 2 THEN 0
  ELSE Least(alarmLeft % Short, MaxKernelSleep)

KernelCompute == /\ At(Kernel, "compute")
                 /\ jiffiesToSleep' = KernelSleepTime
                 /\ Goto(Kernel, "set")
                 /\ UNCHANGED <<currentThread, state, sleepLeft, asleep, wakeLeft,
                                mutexVars, appVars, processFlags, alarmLeft>>

KernelSchedule == /\ At(Kernel, "set")
                  /\ schedule(state, sleepLeft, jiffiesToSleep, processFlags)
                  /\ Goto(Kernel, "radio")
                  /\ UNCHANGED <<mutexVars, appVars, processFlags, alarmLeft>>
-----------------------------------------------------------------------------
(* Interrupts.                                                             *)

InterruptPossible == ~asleep /\ (pc[currentThread] = "set" => Window)

(* Mutant of scheduleProcessAlarms: the alarms are not looked at.          *)
AlarmsIgnored == processFlags

(* scheduleProcessAlarms(): the flags once the jiffy has passed.           *)
scheduleProcessAlarms == IF alarmLeft # NoAlarm /\ ~After(AlarmLater)
                         THEN processFlags \cup {"alarms"} ELSE processFlags

(* Mutant of ToKernel: no switch for the sake of a flag.                   *)
NotToKernel(flags) == FALSE

(* A process flag is up and the kernel thread is not on its way to it.     *)
ToKernel(flags) == flags # {} /\ (currentThread # Kernel \/ state[Kernel] = SLEEPING)

(* Mutant of Preempt: with what jiffiesToSleep holds instead of 0.         *)
PreemptStale(s, left, flags) == schedule(s, left, jiffiesToSleep, flags)

(* The yield() of an interrupt handler.                                    *)
Preempt(s, left, flags) == schedule(s, left, 0, flags)

(* ALARM_TIMER_INTERRUPT() while the CPU is active: a jiffy has passed.    *)
(* wrap: the 16-bit timer has wrapped around since the last such interrupt *)
Tick(wrap) ==
  /\ InterruptPossible
  /\ LET flags == scheduleProcessAlarms
         s     == IF ToKernel(flags) THEN threadWakeup(state, Kernel, READY) ELSE state
     IN  /\ processFlags' = flags
         /\ IF ToKernel(flags) \/ (flags = {} /\ wrap)
            THEN Preempt(s, SleepLater, flags)
            ELSE /\ sleepLeft' = SleepLater
                 /\ UNCHANGED <<currentThread, state, jiffiesToSleep, asleep, wakeLeft>>
  /\ alarmLeft' = AlarmLater
  /\ owed' = Most(owed - 1, 0)
  /\ UNCHANGED <<mutexVars, pc, restMs>>

(* The radio chip signals a packet; the CPU is active.                     *)
RadioInterrupt == /\ InterruptPossible
                  /\ processFlags' = processFlags \cup {"radio"}
                  /\ UNCHANGED <<schedVars, mutexVars, appVars, alarmLeft, pc>>

(* The CPU sleeps for a jiffy; the last one ends with the timer interrupt, *)
(* which only leaves low power mode, and the rest of doMsleep().           *)
SleepTick ==
  /\ asleep
  /\ sleepLeft' = SleepLater
  /\ alarmLeft' = AlarmLater
  /\ owed' = Most(owed - 1, 0)
  /\ wakeLeft' = wakeLeft - 1
  /\ IF wakeLeft > 1
     THEN UNCHANGED <<asleep, state>>
     ELSE /\ asleep' = FALSE
          /\ state' = AfterSleep(state, currentThread, processFlags)
  /\ UNCHANGED <<currentThread, jiffiesToSleep, processFlags, mutexVars, pc, restMs>>

(* A radio interrupt wakes the CPU up before the sleep timer does.         *)
RadioWakeup ==
  /\ asleep
  /\ processFlags' = processFlags \cup {"radio"}
  /\ asleep' = FALSE /\ wakeLeft' = 0
  /\ state' = AfterSleep(state, currentThread, processFlags')
  /\ UNCHANGED <<currentThread, sleepLeft, jiffiesToSleep, mutexVars, appVars,
                 alarmLeft, pc>>

Time == SleepTick \/ \E wrap \in BOOLEAN : Tick(wrap)
-----------------------------------------------------------------------------
UserStep == \/ UserSleep \/ UserSchedule \/ UserSleepOn \/ UserReturn
            \/ UserLock \/ UserUnlock \/ UserAlarm \/ UserExit \/ UserGone

KernelStep == \/ KernelRadio \/ KernelAlarms \/ KernelPass \/ KernelLock
              \/ KernelUnlock \/ KernelCompute \/ KernelSchedule

Next == UserStep \/ KernelStep \/ Time \/ RadioInterrupt \/ RadioWakeup

Spec == Init /\ [][Next]_vars

(* Time passes and the 16-bit timer keeps wrapping around (every 2 s); a    *)
(* thread that keeps getting the processor makes progress between the      *)
(* interrupts, and a thread to which mutexUnlock keeps switching is not    *)
(* preempted by the wraparound before its next test every single time.    *)
(* The application leaves its critical sections; nothing else is required  *)
(* of it.                                                                  *)
Fairness == /\ WF_vars(Time)
            /\ SF_vars(Tick(TRUE))
            /\ SF_vars(KernelStep)
            /\ SF_vars(KernelLock /\ Kernel \in holding')
            /\ SF_vars(UserSchedule \/ UserSleepOn \/ UserReturn \/ UserGone)
            /\ SF_vars(At(User, "wait") /\ UserLock /\ User \in holding')
            /\ SF_vars(UserUnlock)

FairSpec == Spec /\ Fairness
-----------------------------------------------------------------------------
TypeOK ==
  /\ currentThread \in Thread
  /\ state \in [Thread -> UNUSED..RUNNING]
  /\ sleepLeft \in [Thread -> 0..(Clock - 1)]
  /\ jiffiesToSleep \in 0..(Short - 1)
  /\ processFlags \subseteq {"alarms", "radio"}
  /\ alarmLeft \in 0..Clock
  /\ locked \in BOOLEAN /\ waiter \in Thread \cup {NoThread} /\ holding \subseteq Thread
  /\ asleep \in BOOLEAN /\ wakeLeft \in 0..MaxSleep
  /\ pc \in [Thread -> {"run", "set", "back", "wait", "exit", "dead", "radio",
                        "alarms", "pass", "callback", "critical", "compute"}]
  /\ restMs \in 0..MaxMs /\ owed \in 0..MaxMs

(* The states agree with who has the processor, through nested context     *)
(* switches in interrupts: only the current thread is RUNNING, and the CPU *)
(* sleeps only on behalf of a SLEEPING current thread while no thread is   *)
(* ready to use it.                                                        *)
StatesAgree ==
  /\ \A t \in Thread : state[t] = RUNNING => t = currentThread
  /\ asleep <=> state[currentThread] = SLEEPING
  /\ asleep => \A t \in Thread : state[t] \notin {READY, RUNNING}

(* The user's critical sections and those of alarm callbacks exclude each  *)
(* other, wherever interrupts, sleeps and preemptions fall.                *)
MutualExclusion == Cardinality(holding) <= 1

(* A thread that is BLOCKED while another has the processor is registered  *)
(* on the mutex, which is held: its wakeup cannot have been lost.          *)
NoLostWaiter == \A t \in Thread : state[t] = BLOCKED => waiter = t /\ locked

(* yield() at the end of threadWrapper() never returns: a thread whose     *)
(* function has returned does not get the processor again.                 *)
ExitIsFinal == pc[User] = "dead" => currentThread = Kernel

(* What the two threads see of mutex.c is the mutex of module Mutex.       *)
MutexSeen == INSTANCE Mutex WITH
  blocked  <- {t \in Thread : state[t] = BLOCKED},
  at       <- [t \in Thread |-> IF t \in holding THEN "inside"
                                ELSE IF pc[t] = "wait" THEN "waiting" ELSE "outside"],
  panicked <- FALSE
ImplementsMutex == MutexSeen!Spec

(* A flag raised by an interrupt is served: the kernel thread is never     *)
(* left asleep, or behind a user thread that does not sleep, for good.     *)
RadioServed == "radio" \in processFlags ~> "radio" \notin processFlags

(* An expired alarm is taken off the list.                                 *)
AlarmServed == (alarmLeft # NoAlarm /\ ~After(alarmLeft))
                  ~> (alarmLeft = NoAlarm \/ After(alarmLeft))

(* A thread that waits for the mutex gets it, although mutexUnlock leaves  *)
(* the mutex free for anyone.                                              *)
WaiterEnters == \A t \in Thread : pc[t] = "wait" ~> t \in holding

(* msleep() and yield() return.                                            *)
SleepEnds == pc[User] \in {"set", "back"} ~> pc[User] = "run"

(* A user thread is never put to sleep beyond the time it asked schedule()  *)
(* for: in particular yield(), which is msleep(0), never puts it to sleep. *)
NeverOversleeps == state[User] = SLEEPING /\ After(sleepLeft[User]) => sleepLeft[User] <= owed

(* The kernel thread never sleeps beyond the head of the alarm list unless *)
(* the alarms flag is up, which will wake it.                              *)
KernelMeetsAlarm ==
  state[Kernel] = SLEEPING /\ alarmLeft # NoAlarm /\ "alarms" \notin processFlags
     => ~After((sleepLeft[Kernel] - alarmLeft) % Clock)
=============================================================================
