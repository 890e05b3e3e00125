------------------------------- MODULE Alarms -------------------------------
(***************************************************************************)
(* The software timers of MansOS (kernel/alarms.c, alarms_internal.h, the  *)
(* SLIST macros of lib/list.h), with threads: the kernel thread walks the  *)
(* list in alarmsProcess() and runs the callbacks; the callbacks and the   *)
(* user thread schedule and remove alarms.                                 *)
(*                                                                         *)
(* The list is modelled down to its pointers, because alarmsProcess() goes *)
(* on through the chain field of the alarm it has just unlinked.  What the *)
(* alarms see of the scheduler is cpu, the thread that is running: module  *)
(* Threads has the scheduler itself.  Time is kept as differences to       *)
(* jiffies, modulo Clock, as in Threads.                                   *)
(***************************************************************************)
EXTENDS Integers, FiniteSets

CONSTANTS Alarm,    \* the Alarm_t objects
          NULL,
          Clock,    \* jiffies are counted modulo Clock (2^32)
          MaxDelay, \* bound: the longest delay passed to alarmSchedule()
          MaxPass,  \* bound: jiffies that one alarmsProcess() may last
          MaxLag,   \* bound: what is overdue by MaxLag jiffies stays so
          Uses      \* what clients do beyond setting alarms and callbacks
                    \* that set their own alarm again

ASSUME AlarmsAssumption ==
  /\ IsFiniteSet(Alarm) /\ Alarm # {} /\ NULL \notin Alarm
  /\ MaxDelay \in Nat /\ MaxPass \in Nat /\ MaxLag \in Nat /\ MaxLag >= MaxPass
  /\ Clock \in Nat /\ Clock > 2 * (MaxDelay + MaxPass + MaxLag)
  \* once:   a callback returns without setting its alarm
  \* others: a callback sets other alarms than its own
  \* now:    a callback sets an alarm with delay 0
  \* remove: alarmRemove() is called
  /\ Uses \subseteq {"once", "others", "now", "remove"}

VARIABLES head,   \* alarmListHead.slh_first
          chain,  \* chain[a]: a->chain.sle_next
          left,   \* a->jiffies - jiffies, modulo Clock
          flag,   \* processFlags.bits.alarmsProcess
          cpu,    \* the thread that has the processor
          step,   \* where alarmsProcess() is, "idle" when it is not running
          cell,   \* its variable a: the pointer cell it looks at
          ap,     \* its variable ap
          next,   \* the value it has read through next
          since,  \* jiffies since it read now
          due,    \* the alarm whose alarmSchedule() has written jiffies and
                  \* not yet relinked the alarm, per thread (or NULL)
          status  \* what the clients know of each alarm (not in the code)

list   == <<head, chain>>
pass   == <<step, cell, ap, next>>
vars   == <<list, left, flag, cpu, pass, since, due, status>>

Thread == {"user", "kernel"}
HEAD   == "head"                 \* the cell alarmListHead.slh_first
-----------------------------------------------------------------------------
After(d) == d \in 1..(Clock \div 2)

(* Mutant of Later: the jiffies of an alarm as a wider, signed number.     *)
LaterUnbounded == [a \in Alarm |-> left[a] - 1]

LongAgo == (0 - MaxLag) % Clock

(* The differences one jiffy later.                                        *)
Later == [a \in Alarm |-> IF left[a] = LongAgo THEN LongAgo ELSE (left[a] - 1) % Clock]

(* The n-th alarm of the list with head h and links c, NULL past its end.  *)
Walk(h, c) ==
  LET w[n \in 1..(Cardinality(Alarm) + 1)] ==
        IF n = 1 THEN h ELSE IF w[n - 1] = NULL THEN NULL ELSE c[w[n - 1]]
  IN  w

OnList(h, c) == {Walk(h, c)[n] : n \in 1..Cardinality(Alarm)} \ {NULL}

(* *a                                                                      *)
Deref(p) == IF p = HEAD THEN head ELSE chain[p]

(* Mutant of Expired: an alarm due in one jiffy has expired, too.          *)
ExpiredEarly(p) == Deref(p) # NULL /\ ~After((left[Deref(p)] + since - 1) % Clock)

(* The alarm p points to was due when alarmsProcess() read the time.       *)
Expired(p) == Deref(p) # NULL /\ ~After((left[Deref(p)] + since) % Clock)

(* Mutant of Unlinked: nothing is removed.                                 *)
UnlinkedNot(a) == [h |-> head, c |-> chain]

(* SLIST_REMOVE_SAFE                                                       *)
Unlinked(a) ==
  IF head = a THEN [h |-> chain[a], c |-> chain]
  ELSE LET before == {x \in OnList(head, chain) : chain[x] = a}
       IN  IF before = {} THEN [h |-> head, c |-> chain]
           ELSE [h |-> head, c |-> [chain EXCEPT ![CHOOSE x \in before : TRUE] = chain[a]]]

(* The loop of alarmSchedule() and SLIST_INSERT: a goes before the first   *)
(* alarm that is not earlier.                                              *)
Linked(l, a) ==
  LET w == Walk(l.h, l.c)
      n == CHOOSE i \in DOMAIN w :
             /\ w[i] = NULL \/ ~After((left[a] - left[w[i]]) % Clock)
             /\ \A j \in 1..(i - 1) : w[j] # NULL /\ After((left[a] - left[w[j]]) % Clock)
  IN  IF n = 1 THEN [h |-> a, c |-> [l.c EXCEPT ![a] = l.h]]
      ELSE [h |-> l.h, c |-> [l.c EXCEPT ![a] = w[n], ![w[n - 1]] = a]]
-----------------------------------------------------------------------------
Init == /\ head = NULL
        /\ chain = [a \in Alarm |-> NULL]
        /\ left = [a \in Alarm |-> 0]
        /\ flag = FALSE
        /\ cpu = "user"
        /\ step = "idle" /\ cell = HEAD /\ ap = NULL /\ next = NULL
        /\ since = 0
        /\ due = [t \in Thread |-> NULL]
        /\ status = [a \in Alarm |-> "idle"]
-----------------------------------------------------------------------------
(* Thread t runs code of a client: the user thread, or a callback.         *)
InClient(t) == cpu = t /\ (t = "kernel" => step = "call")

(* alarmSchedule(a, d): first the assignment of the alarm's time, with     *)
(* interrupts enabled ...                                                  *)
SetTime(t, a, d) ==
  /\ InClient(t) /\ due[t] = NULL
  /\ t = "kernel" => /\ a # ap => "others" \in Uses
                     /\ d = 0 => "now" \in Uses
  /\ left' = [left EXCEPT ![a] = d]
  /\ due' = [due EXCEPT ![t] = a]
  /\ UNCHANGED <<list, flag, cpu, pass, since, status>>

(* ... then, with interrupts disabled, the alarm is moved to its place.    *)
Relink(t) ==
  /\ InClient(t) /\ due[t] # NULL
  /\ LET new == Linked(Unlinked(due[t]), due[t])
     IN  head' = new.h /\ chain' = new.c
  /\ flag' = TRUE
  /\ due' = [due EXCEPT ![t] = NULL]
  /\ status' = [status EXCEPT ![due[t]] = "set"]
  /\ UNCHANGED <<left, cpu, pass, since>>

alarmRemove(t, a) ==
  /\ InClient(t) /\ due[t] = NULL
  /\ "remove" \in Uses
  /\ LET new == Unlinked(a) IN head' = new.h /\ chain' = new.c
  /\ status' = [status EXCEPT ![a] = "removed"]
  /\ UNCHANGED <<left, flag, cpu, pass, since, due>>
-----------------------------------------------------------------------------
(* systemMain() finds the flag up and calls alarmsProcess().               *)
BeginPass == /\ cpu = "kernel" /\ step = "idle" /\ flag
             /\ flag' = FALSE
             /\ since' = 0
             /\ cell' = HEAD
             /\ step' = "check"
             /\ UNCHANGED <<list, left, cpu, ap, next, due, status>>

Kernel(s) == cpu = "kernel" /\ step = s

(* The end of the list, or an alarm that is not due yet: the pass is over. *)
EndPass == /\ Kernel("check")
           /\ ~Expired(cell)
           /\ step' = "idle" /\ cell' = HEAD /\ ap' = NULL /\ next' = NULL /\ since' = 0
           /\ UNCHANGED <<list, left, flag, cpu, due, status>>

(* An expired alarm: read the link it has ...                              *)
Expire == /\ Kernel("check")
          /\ Expired(cell)
          /\ ap' = Deref(cell)
          /\ next' = chain[ap']
          /\ step' = "store"
          /\ UNCHANGED <<list, left, flag, cpu, cell, since, due, status>>

(* ... store it into the cell, and call the callback.                      *)
Unlink == /\ Kernel("store")
          /\ IF cell = HEAD THEN head' = next /\ UNCHANGED chain
                            ELSE chain' = [chain EXCEPT ![cell] = next] /\ UNCHANGED head
          /\ step' = "call"
          /\ status' = [status EXCEPT ![ap] = "fired"]
          /\ UNCHANGED <<left, flag, cpu, cell, ap, next, since, due>>

(* The callback has returned: go on from the chain field of its alarm.     *)
Return == /\ Kernel("call") /\ due["kernel"] = NULL
          /\ status[ap] # "set" => "once" \in Uses
          /\ cell' = ap
          /\ step' = "check"
          /\ UNCHANGED <<list, left, flag, cpu, ap, next, since, due, status>>
-----------------------------------------------------------------------------
(* Mutant of scheduleProcessAlarms: the alarms are not looked at.          *)
AlarmsIgnored == flag

(* scheduleProcessAlarms(), once the jiffy has passed.                     *)
scheduleProcessAlarms == flag \/ (head # NULL /\ ~After(Later[head]))

(* The timer interrupt: a jiffy passes.  With the flag up the kernel       *)
(* thread gets the processor and keeps it; without, a wraparound of the    *)
(* timer preempts whoever runs, but an idle kernel thread is asleep and    *)
(* does not get the processor by that.                                     *)
Tick(wrap) ==
  /\ step # "idle" => since < MaxPass
  /\ left' = Later
  /\ since' = IF step = "idle" THEN 0 ELSE since + 1
  /\ flag' = scheduleProcessAlarms
  /\ cpu' = IF flag' THEN "kernel"
            ELSE IF wrap /\ cpu = "kernel" THEN "user"
            ELSE IF wrap /\ step # "idle" THEN "kernel" ELSE cpu
  /\ UNCHANGED <<list, pass, due, status>>

(* The user thread sleeps or yields; the kernel thread goes to sleep, or a *)
(* callback of it waits for a mutex.                                       *)
GiveUp(t) == /\ cpu = t /\ due[t] = NULL
             /\ t = "kernel" => step \in {"idle", "call"}
             /\ cpu' = CHOOSE u \in Thread : u # t
             /\ UNCHANGED <<list, left, flag, pass, since, due, status>>
-----------------------------------------------------------------------------
ClientStep(t) == \/ \E a \in Alarm, d \in 0..MaxDelay : SetTime(t, a, d)
                 \/ Relink(t)
                 \/ \E a \in Alarm : alarmRemove(t, a)

Pass == BeginPass \/ EndPass \/ Expire \/ Unlink \/ Return

Next == \/ \E t \in Thread : ClientStep(t) \/ GiveUp(t)
        \/ Pass
        \/ \E wrap \in BOOLEAN : Tick(wrap)

Spec == Init /\ [][Next]_vars

(* Time passes; the kernel thread goes on with the pass it is in, a        *)
(* callback completes an alarmSchedule() it has begun and returns; the     *)
(* user thread completes its calls, too, and yields now and then.          *)
Fairness == /\ WF_vars(\E wrap \in BOOLEAN : Tick(wrap))
            /\ SF_vars(BeginPass)
            /\ SF_vars(EndPass \/ Expire \/ Unlink)
            /\ SF_vars(Return)
            /\ \A t \in Thread : SF_vars(Relink(t))
            /\ SF_vars(step = "call" /\ \E d \in 0..MaxDelay : SetTime("kernel", ap, d))
            /\ SF_vars(GiveUp("user"))

FairSpec == Spec /\ Fairness
-----------------------------------------------------------------------------
TypeOK == /\ head \in Alarm \cup {NULL}
          /\ chain \in [Alarm -> Alarm \cup {NULL}]
          /\ left \in [Alarm -> 0..(Clock - 1)]
          /\ flag \in BOOLEAN
          /\ cpu \in Thread
          /\ step \in {"idle", "check", "store", "call"}
          /\ cell \in Alarm \cup {HEAD}
          /\ ap \in Alarm \cup {NULL} /\ next \in Alarm \cup {NULL}
          /\ since \in 0..MaxPass
          /\ due \in [Thread -> Alarm \cup {NULL}]
          /\ status \in [Alarm -> {"idle", "set", "fired", "removed"}]

(* The list is a list: walking it from the head reaches its end, and every *)
(* alarm that a client has set and that has neither fired nor been removed *)
(* is on it, although the kernel thread works on the list without locking  *)
(* it and without disabling interrupts.                                    *)
ListSound == /\ Walk(head, chain)[Cardinality(Alarm) + 1] = NULL
             /\ \A a \in Alarm : status[a] = "set" => a \in OnList(head, chain)

(* Towards their clients the alarms are those of module AlarmSpec: no      *)
(* callback runs early, or twice for one setting, or for an alarm that is   *)
(* not set or was removed.                                                 *)
Promise == INSTANCE AlarmSpec WITH
  NoCallback <- NULL,
  armed      <- {a \in Alarm : status[a] = "set"},
  wait       <- [a \in Alarm |-> IF status[a] = "set" /\ After(left[a]) THEN left[a] ELSE 0],
  calling    <- IF step = "call" THEN ap ELSE NULL
ImplementsAlarmSpec == Promise!Spec

(* ... and no alarm stays due for ever, once the user thread has stopped    *)
(* setting alarms (an alarm that is being set is out of its place and      *)
(* hides those behind it from the pass): a pass that follows an alarm to   *)
(* the new place its callback gave it skips others, but not for good.      *)
AlarmsFire == <>[](due["user"] = NULL) => Promise!DueFires
=============================================================================
