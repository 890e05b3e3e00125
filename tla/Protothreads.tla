---------------------------- MODULE Protothreads ----------------------------
(***************************************************************************)
(* The kernel without threads that schedules protothreads: process.c (the  *)
(* list of processes, the queue of events, polling, synchronous calls),    *)
(* etimer.c and radio.c (the two system processes), protosched.c (the main *)
(* loop and its sleep) and the interrupts that poll.                       *)
(*                                                                         *)
(* All but interrupts is one thread of control; work is its call stack.    *)
(* An interrupt may fall between any two steps.  Time is kept as           *)
(* differences to jiffies, modulo Clock, as in module Threads.             *)
(***************************************************************************)
EXTENDS Integers, SequencesExt

CONSTANTS Process,        \* the processes of the application
          ETimer, Radio,  \* etimer_process, radio_process
          NULL,
          NumEvents,      \* PROCESS_CONF_NUMEVENTS
          Clock,          \* time is counted modulo Clock, 2^32 in the code
          MaxDelay,       \* bound: the longest interval of a timer
          MaxLag,         \* bound: how late a timer may get
          MaxLate,        \* bound: how many jiffies an interrupt may be late
          Correction,     \* what a correction takes off jiffies, 3 in the code
          MaxOdd,         \* bound: the packets that arrive and the interrupts that
                          \* are late or correct the time
          Uses            \* what handlers of the application do

Proc == Process \cup {ETimer, Radio}
Time == 0..(Clock - 1)
ALL   == "all"    \* PROCESS_BROADCAST
START == "start"  \* of a loop over the list, before its first process

ASSUME ProtoAssumption ==
  /\ Radio # ETimer /\ {Radio, ETimer} \cap Process = {}
  /\ {NULL, START, ALL} \cap Proc = {}
  /\ NumEvents \in Nat \ {0} /\ MaxDelay \in Nat /\ MaxLag \in Nat
  /\ MaxOdd \in Nat /\ MaxLate \in Nat
  /\ Correction \in Nat
  /\ Clock \in Nat /\ Clock > 2 * (MaxDelay + MaxLag)
  /\ Clock > 2 * (MaxDelay + Correction)
  /\ Uses \subseteq {"timer", "stop", "post", "start", "exit", "exit other", "exit owner"}

VARIABLES
  head, next,   \* process_list
  state,        \* of each process: none, running, called
  polls,        \* the processes with needspoll
  pollRequested,
  events,       \* the queue, first event first
  work,         \* the call stack, innermost call first
  loop,         \* the main loop: boot, poll, event, sleep?, asleep
  autostart,    \* application processes that are not started yet
  packet,       \* the radio has a packet
  odd,          \* how many of what MaxOdd bounds there were
  timerlist,    \* each application process has one event timer, named after
                \* it and set by it
  timer,        \* of each timer in the list, its interval and the time since
                \* its start
  nextLeft,     \* the time to next_expiration
  skipped,      \* history: an interrupt went past next_expiration without a
                \* poll, and none was requested since
  twice         \* history: the processes that were exited once more before
                \* all had been told that they exit

kernel == <<head, next, state, autostart>>
radio  == <<packet, odd>>
timers == <<timerlist, timer, nextLeft, skipped>>
vars   == <<kernel, polls, pollRequested, events, work, loop, radio, timers, twice>>
-----------------------------------------------------------------------------
After(d) == d \in 1..(Clock \div 2)   \* timeAfter32(), of the difference

(* The process after p in a loop over the list.                            *)
Following(p) == IF p = START THEN head ELSE next[p]

(* What a loop that begins at x comes to.                                  *)
Closed(S) == \A p \in S \ {NULL} : next[p] \in S
Reach(x)  == {y \in Proc \cup {NULL} :
                \A S \in SUBSET (Proc \cup {NULL}) : x \in S /\ Closed(S) => y \in S}
Listed == Reach(head) \ {NULL}

Frame(f, p, q, ev) == [f |-> f, p |-> p, q |-> q, ev |-> ev]
Idle(p)            == state' = [state EXCEPT ![p] = "running"]

(* The frames fs take the place of the innermost call.                     *)
Become(fs) == work' = fs \o Tail(work)
In(f)      == work # <<>> /\ Head(work).f = f

Init ==
  /\ head = Radio /\ next = [p \in Proc |-> IF p = Radio THEN ETimer ELSE NULL]
  /\ state = [p \in Proc |-> IF p \in Process THEN "none" ELSE "running"]
  /\ polls = {} /\ pollRequested = FALSE /\ events = <<>>
  /\ work = <<>> /\ loop = "boot" /\ autostart = Process
  /\ packet = FALSE /\ odd = 0
  /\ timerlist = <<>> /\ timer = <<>>
  /\ nextLeft = 0 /\ skipped = FALSE
  /\ twice = {}

Full == Len(events) = NumEvents

(* Mutant of process_post: it does not look whether there is room.         *)
PostAlways(p, ev, q) == events' = Append(events, [p |-> p, ev |-> ev, q |-> q])

(* process_post(): the event is dropped when the queue is full.            *)
process_post(p, ev, q) ==
  events' = IF Full THEN events ELSE Append(events, [p |-> p, ev |-> ev, q |-> q])

(* process_poll(): both system processes run all the time.                 *)
process_poll(p) == polls' = polls \cup {p} /\ pollRequested' = TRUE

etimer_request_poll == process_poll(ETimer) /\ skipped' = FALSE
-----------------------------------------------------------------------------
Left(tm, p) == (tm[p].interval - tm[p].since) % Clock   \* to its expiration

(* Bound: how long ago a timer in the list may have been started.  A timer *)
(* set just before a correction starts later than now.                     *)
Since == {t % Clock : t \in (0 - Correction)..(MaxDelay + MaxLag)}

(* The timer interrupt takes jiffies forward to the time, by n, which is   *)
(* more than one when the interrupt is late, and now and then back by the  *)
(* correction.  It polls the timer process and ends the sleep if that does *)
(* not take jiffies past the next expiration.  Then it goes on by the m    *)
(* jiffies that have passed meanwhile, and does not look again.            *)
Tick ==
  \E n \in 0..(1 + MaxLate), back \in {0, Correction}, m \in 0..MaxLate :
    LET seen == (nextLeft - n + back) % Clock
        due  == timerlist # <<>> /\ (After(seen) \/ seen = 0)
    IN  /\ odd' = IF <<n, back, m>> = <<1, 0, 0>> THEN odd ELSE odd + 1
        /\ odd' <= MaxOdd
        /\ timer' = [p \in DOMAIN timer |->
                       [timer[p] EXCEPT !.since = (@ + n - back + m) % Clock]]
        /\ \A p \in ToSet(timerlist) : timer'[p].since \in Since
        /\ nextLeft' = IF timerlist = <<>> THEN 0 ELSE (nextLeft - n + back - m) % Clock
        /\ IF due THEN etimer_request_poll
           ELSE /\ skipped' = (skipped \/ (timerlist # <<>> /\ ETimer \notin polls
                                             /\ (After(nextLeft) \/ nextLeft = 0)))
                /\ UNCHANGED <<polls, pollRequested>>
        /\ loop' = IF due /\ loop = "asleep" THEN "poll" ELSE loop
        /\ UNCHANGED <<kernel, events, work, packet, timerlist, twice>>

(* The interrupt of the radio polls its process and lets the CPU sleep on. *)
RadioInterrupt ==
  /\ odd < MaxOdd
  /\ packet' = TRUE
  /\ odd' = odd + 1
  /\ process_poll(Radio)
  /\ UNCHANGED <<kernel, events, work, loop, timers, twice>>
-----------------------------------------------------------------------------
(* The main loop: start the processes, then run until nothing is pending.  *)
process_start(p, stack) ==
  IF p \in Listed THEN work' = stack /\ UNCHANGED <<head, next, state>>
  ELSE /\ head' = p /\ next' = [next EXCEPT ![p] = head]
       /\ Idle(p)
       /\ work' = <<Frame("call", p, NULL, "init")>> \o stack

Boot ==
  /\ loop = "boot" /\ work = <<>>
  /\ IF autostart = {}
     THEN loop' = "poll" /\ UNCHANGED <<kernel, work>>
     ELSE \E p \in autostart : /\ process_start(p, <<>>)
                               /\ autostart' = autostart \ {p}
                               /\ UNCHANGED loop
  /\ UNCHANGED <<polls, pollRequested, events, radio, timers, twice>>

(* process_run(): do_poll() if requested, then do_event().                 *)
RunPoll ==
  /\ loop = "poll" /\ work = <<>>
  /\ pollRequested' = FALSE
  /\ work' = IF pollRequested THEN <<Frame("poll", START, NULL, "")>> ELSE <<>>
  /\ loop' = "event"
  /\ UNCHANGED <<kernel, polls, events, radio, timers, twice>>

do_event ==
  /\ loop = "event" /\ work = <<>>
  /\ IF events = <<>> THEN UNCHANGED <<events, work>>
     ELSE LET e == Head(events)
          IN  /\ events' = Tail(events)
              /\ work' = IF e.p = ALL THEN <<Frame("cast", START, e.q, e.ev)>>
                         ELSE <<Frame("call", e.p, e.q, e.ev)>>
  /\ loop' = "sleep?"
  /\ UNCHANGED <<kernel, polls, pollRequested, radio, timers, twice>>

(* Mutant of MaySleep: polls that interrupts requested are not looked at.  *)
MaySleepPolled == events = <<>>

MaySleep == events = <<>> /\ ~pollRequested

(* The decision to sleep is taken with interrupts disabled.                *)
Sleep ==
  /\ loop = "sleep?" /\ work = <<>>
  /\ loop' = IF MaySleep THEN "asleep" ELSE "poll"
  /\ UNCHANGED <<kernel, polls, pollRequested, events, work, radio, timers, twice>>
-----------------------------------------------------------------------------
(* Mutant of do_poll: the request is cleared after the loop, not before.   *)
PollClearsLate ==
  /\ In("poll")
  /\ LET p == Following(Head(work).p)
     IN  IF p = NULL THEN Become(<<>>) /\ pollRequested' = FALSE /\ UNCHANGED <<polls, state>>
         ELSE IF p \in polls
         THEN /\ polls' = polls \ {p} /\ Idle(p) /\ UNCHANGED pollRequested
              /\ Become(<<Frame("call", p, NULL, "poll"), Frame("poll", p, NULL, "")>>)
         ELSE Become(<<Frame("poll", p, NULL, "")>>) /\ UNCHANGED <<polls, pollRequested, state>>
  /\ UNCHANGED <<head, next, autostart, events, loop, radio, timers, twice>>

(* do_poll(): the loop goes to the next process, and calls it if it needs  *)
(* a poll.                                                                 *)
do_poll ==
  /\ In("poll")
  /\ LET p == Following(Head(work).p)
     IN  IF p = NULL THEN Become(<<>>) /\ UNCHANGED <<polls, state>>
         ELSE IF p \in polls
         THEN /\ polls' = polls \ {p} /\ Idle(p)
              /\ Become(<<Frame("call", p, NULL, "poll"), Frame("poll", p, NULL, "")>>)
         ELSE Become(<<Frame("poll", p, NULL, "")>>) /\ UNCHANGED <<polls, state>>
  /\ UNCHANGED <<head, next, autostart, pollRequested, events, loop, radio, timers, twice>>

(* The loop of do_event() over all processes polls in between.             *)
Broadcast ==
  /\ In("cast")
  /\ LET c == Head(work)
         p == Following(c.p)
     IN  IF p = NULL THEN Become(<<>>) /\ UNCHANGED pollRequested
         ELSE /\ pollRequested' = FALSE
              /\ Become((IF pollRequested THEN <<Frame("poll", START, NULL, "")>> ELSE <<>>)
                        \o <<Frame("call", p, c.q, c.ev),
                             [c EXCEPT !.p = p]>>)
  /\ UNCHANGED <<kernel, polls, events, loop, radio, timers, twice>>

(* Mutant of call_process: the state of the process is not looked at.      *)
CallAnyway ==
  /\ In("call")
  /\ state' = [state EXCEPT ![Head(work).p] = "called"]
  /\ Become(<<[Head(work) EXCEPT !.f = "run"]>>)
  /\ UNCHANGED <<head, next, autostart, polls, pollRequested, events, loop, radio, timers, twice>>

(* call_process(): only a process that is running, and not in a call.      *)
call_process ==
  /\ In("call")
  /\ LET c == Head(work)
     IN  IF state[c.p] = "running"
         THEN state' = [state EXCEPT ![c.p] = "called"] /\ Become(<<[c EXCEPT !.f = "run"]>>)
         ELSE Become(<<>>) /\ UNCHANGED state
  /\ UNCHANGED <<head, next, autostart, polls, pollRequested, events, loop, radio, timers, twice>>

Exiting == {work[i].q : i \in {j \in DOMAIN work : work[j].f = "exit"}}

(* exit_process(p): the others are told one by one, then p is unlinked;    *)
(* the call of an exiting process itself is taken to do nothing.           *)
Unlink(p) ==
  /\ head' = IF p = head THEN next[p] ELSE head
  /\ next' = [q \in Proc |-> IF q \in Listed /\ next[q] = p THEN next[p] ELSE next[q]]

exit_process(p, stack) ==
  /\ state' = [state EXCEPT ![p] = IF p \in Listed THEN "none" ELSE @]
  /\ IF p \in Listed /\ state[p] # "none"
     THEN work' = <<Frame("exit", START, p, "")>> \o stack /\ UNCHANGED <<head, next>>
     ELSE work' = stack /\ IF p \in Listed THEN Unlink(p) ELSE UNCHANGED <<head, next>>
  /\ twice' = IF p \in Listed /\ p \in Exiting THEN twice \cup {p} ELSE twice

ExitTells ==
  /\ In("exit")
  /\ LET c == Head(work)
         q == Following(c.p)
     IN  /\ q # NULL
         /\ Become((IF q = c.q THEN <<>> ELSE <<Frame("call", q, c.q, "exited")>>)
                   \o <<Frame("exit", q, c.q, "")>>)
  /\ UNCHANGED <<kernel, polls, pollRequested, events, loop, radio, timers, twice>>

(* Mutant of ExitUnlinks: only the first of the list is unlinked.          *)
ExitUnlinksFirst ==
  /\ In("exit") /\ Following(Head(work).p) = NULL
  /\ head' = IF Head(work).q = head THEN next[head] ELSE head
  /\ Become(<<>>)
  /\ UNCHANGED <<next, state, autostart, polls, pollRequested, events, loop, radio, timers, twice>>

ExitUnlinks ==
  /\ In("exit") /\ Following(Head(work).p) = NULL
  /\ Unlink(Head(work).q)
  /\ Become(<<>>)
  /\ UNCHANGED <<state, autostart, polls, pollRequested, events, loop, radio, timers, twice>>
-----------------------------------------------------------------------------
(* Handlers return to call_process().                                      *)
Yield(p) == Idle(p) /\ Become(<<>>)

(* radio_process reads the packet and tells everyone.                      *)
RadioHandler ==
  /\ In("run") /\ Head(work).p = Radio
  /\ IF Head(work).ev = "poll" /\ packet
     THEN packet' = FALSE /\ process_post(ALL, "radio", NULL)
     ELSE UNCHANGED <<packet, events>>
  /\ Yield(Radio)
  /\ UNCHANGED <<head, next, autostart, odd, polls, pollRequested, loop, timers, twice>>

(* update_time(): the distance is unsigned, of a late timer it is huge.    *)
update_time(list, tm) ==
  IF list = <<>> THEN nextLeft' = 0
  ELSE \E p \in ToSet(list) : /\ nextLeft' = Left(tm, p)
                              /\ \A q \in ToSet(list) : Left(tm, p) <= Left(tm, q)

(* The timer at place i leaves the list.                                   *)
Drop(i) == /\ timerlist' = RemoveAt(timerlist, i)
           /\ timer' = Restrict(timer, ToSet(timerlist'))

(* etimer_process forgets the timer of a process that has exited; it does  *)
(* not call update_time().  Other events but polls mean nothing to it.     *)
TimerExited ==
  /\ In("run") /\ Head(work).p = ETimer /\ Head(work).ev # "poll"
  /\ IF Head(work).ev = "exited" /\ Head(work).q \in ToSet(timerlist)
     THEN \E i \in DOMAIN timerlist : timerlist[i] = Head(work).q /\ Drop(i)
     ELSE UNCHANGED <<timerlist, timer>>
  /\ Yield(ETimer)
  /\ UNCHANGED <<head, next, autostart, polls, pollRequested, events, loop, radio,
                 nextLeft, skipped, twice>>

(* timer_expired(): the sum is unsigned.                                   *)
Expired(p) == timer[p].interval < (timer[p].since + 1) % Clock
AnyExpired == \E p \in ToSet(timerlist) : Expired(p)

(* The first timer that has expired leaves the list with an event to its   *)
(* process, the next one is looked for from the head of the list again.    *)
Announce ==
  /\ \E i \in DOMAIN timerlist :
       /\ Expired(timerlist[i]) /\ \A j \in 1..(i - 1) : ~Expired(timerlist[j])
       /\ process_post(timerlist[i], "timer", NULL)
       /\ Drop(i)
  /\ update_time(timerlist', timer')
  /\ UNCHANGED <<state, polls, pollRequested, work, skipped>>

(* Mutant of TimerPolled: it does not ask to be polled again.              *)
TimerGivesUp ==
  /\ In("run") /\ Head(work).p = ETimer /\ Head(work).ev = "poll"
  /\ \/ (~AnyExpired \/ Full)
        /\ Yield(ETimer) /\ UNCHANGED <<polls, pollRequested, events, timers>>
     \/ AnyExpired /\ ~Full /\ Announce
  /\ UNCHANGED <<head, next, autostart, loop, radio, twice>>

(* Polled, it posts an event for each timer that has expired, and asks to  *)
(* be polled again when the queue is full.                                 *)
TimerPolled ==
  /\ In("run") /\ Head(work).p = ETimer /\ Head(work).ev = "poll"
  /\ \/ ~AnyExpired /\ Yield(ETimer) /\ UNCHANGED <<polls, pollRequested, events, timers>>
     \/ AnyExpired /\ Full /\ etimer_request_poll /\ Yield(ETimer)
        /\ UNCHANGED <<events, timerlist, timer, nextLeft>>
     \/ AnyExpired /\ ~Full /\ Announce
  /\ UNCHANGED <<head, next, autostart, loop, radio, twice>>

-----------------------------------------------------------------------------
(* The handlers of the application: of what they may do one thing each     *)
(* time, then they return, yielding or for good.                           *)
Returning(p) == <<Frame("return", p, NULL, "")>>

(* Bound: after a process has been exited twice they only start processes. *)
Doing(use) == use \in Uses /\ twice = {}

(* The handler of p has the processor, and is at one of the points fs.     *)
At(p, fs)   == p \in Process /\ work # <<>> /\ Head(work).p = p /\ Head(work).f \in fs
Handling(p) == At(p, {"run"})
Ending(p)   == At(p, {"run", "return", "restart"})

Return(p) ==
  /\ Ending(p)
  /\ Yield(p)
  /\ UNCHANGED <<head, next, autostart, polls, pollRequested, events, loop, radio, timers, twice>>

Exit(p) ==
  /\ Doing("exit") /\ Ending(p)
  /\ p \notin ToSet(timerlist) \/ "exit owner" \in Uses
  /\ exit_process(p, Tail(work))
  /\ UNCHANGED <<autostart, polls, pollRequested, events, loop, radio, timers>>

(* etimer_set(): a timer that is in the list already is moved in time.     *)
etimer_set(p) ==
  /\ Doing("timer") /\ Handling(p)
  /\ etimer_request_poll
  /\ timerlist' = IF p \in ToSet(timerlist) THEN timerlist ELSE <<p>> \o timerlist
  /\ \E d \in 1..MaxDelay :
       timer' = [q \in ToSet(timerlist') |->
                   IF q = p THEN [since |-> 0, interval |-> d] ELSE timer[q]]
  /\ update_time(timerlist', timer')
  /\ Become(Returning(p))
  /\ UNCHANGED <<kernel, events, loop, radio, twice>>

etimer_stop(p) ==
  /\ Doing("stop") /\ Handling(p)
  /\ \E i \in DOMAIN timerlist : timerlist[i] = p /\ Drop(i)
  /\ update_time(timerlist', timer')
  /\ Become(Returning(p))
  /\ UNCHANGED <<kernel, polls, pollRequested, events, loop, radio, skipped, twice>>

(* Bound: only timers and packets are answered with messages; messages for *)
(* messages would keep the queue full for ever.                            *)
Post(p) ==
  /\ Doing("post") /\ Handling(p) /\ Head(work).ev \in {"timer", "radio"}
  /\ \E q \in Process : process_post(q, "message", NULL)
  /\ Become(Returning(p))
  /\ UNCHANGED <<kernel, polls, pollRequested, loop, radio, timers, twice>>

Start(p) ==
  /\ "start" \in Uses /\ At(p, {"run", "restart"})
  /\ \E q \in Process \ autostart : process_start(q, Returning(p) \o Tail(work))
  /\ UNCHANGED <<autostart, polls, pollRequested, events, loop, radio, timers, twice>>

(* process_exit() of another process, that is not in a call; a process may *)
(* be started afterwards, as when the other is to be restarted.            *)
ExitOther(p) ==
  /\ Doing("exit other") /\ Handling(p)
  /\ \E q \in Process :
       /\ state[q] # "called"
       /\ q \notin ToSet(timerlist) \/ "exit owner" \in Uses
       /\ exit_process(q, <<Frame("restart", p, NULL, "")>> \o Tail(work))
  /\ UNCHANGED <<autostart, polls, pollRequested, events, loop, radio, timers>>
-----------------------------------------------------------------------------
(* The one thread of control outside interrupts.                           *)
Main ==
  \/ Boot \/ RunPoll \/ do_event \/ Sleep
  \/ do_poll \/ Broadcast \/ call_process \/ ExitTells \/ ExitUnlinks
  \/ RadioHandler \/ TimerExited \/ TimerPolled
  \/ \E p \in Process : \/ Return(p) \/ Exit(p) \/ etimer_set(p) \/ etimer_stop(p)
                        \/ Post(p) \/ Start(p) \/ ExitOther(p)

Next == Main \/ Tick \/ RadioInterrupt

Spec == Init /\ [][Next]_vars

(* The CPU runs unless it sleeps, and the timer of the system ticks.       *)
FairSpec == Spec /\ WF_vars(Main) /\ WF_vars(Tick)
-----------------------------------------------------------------------------
Events == [p : Process \cup {ALL}, ev : {"radio", "timer", "message"}, q : {NULL}]
Points == {"poll", "cast", "call", "run", "return", "restart", "exit"}
Told   == {"", "init", "poll", "exited", "radio", "timer", "message"}
Frames == {c \in [f : Points, p : Proc \cup {START}, q : Proc \cup {NULL}, ev : Told] :
             /\ c.f = "exit" => c.q \in Process
             /\ c.f \in {"call", "run", "return", "restart"} => c.p \in Proc}

TypeOK ==
  /\ head \in Proc \cup {NULL} /\ next \in [Proc -> Proc \cup {NULL}]
  /\ state \in [Proc -> {"none", "running", "called"}]
  /\ polls \subseteq Proc /\ pollRequested \in BOOLEAN
  /\ events \in Seq(Events) /\ Len(events) <= NumEvents
  /\ work \in Seq(Frames)
  /\ loop \in {"boot", "poll", "event", "sleep?", "asleep"}
  /\ autostart \subseteq Process
  /\ packet \in BOOLEAN /\ odd \in 0..MaxOdd
  /\ timerlist \in Seq(Process)
  /\ timer \in [ToSet(timerlist) -> [since : Time, interval : 0..MaxDelay]]
  /\ nextLeft \in Time /\ skipped \in BOOLEAN
  /\ twice \subseteq Process

(* A process has one call at a time: call_process() is never entered for a *)
(* process whose handler has not returned, nor for one that has exited,    *)
(* unless it was exited twice.                                             *)
Calls(p) == {i \in DOMAIN work : work[i].f \in {"run", "return", "restart"} /\ work[i].p = p}
OneCallEach ==
  \A p \in Proc \ twice : Cardinality(Calls(p)) = IF state[p] = "called" THEN 1 ELSE 0

(* The CPU sleeps only when the queue is empty and no timer asks to be     *)
(* looked at; only the radio, whose interrupt does not end the sleep, may  *)
(* be waiting (protosched.c).                                              *)
SleepsOnlyIdle ==
  loop = "asleep" =>
    /\ work = <<>> /\ events = <<>>
    /\ polls \subseteq {Radio} /\ (pollRequested => Radio \in polls)

(* Exits leave neither dead processes nor their timers behind: the list of *)
(* processes ends, and holds all that run and besides them only processes  *)
(* on the way out; a timer belongs to a process that runs, or of whose     *)
(* exit the timer process is yet to be told (process_start(),              *)
(* exit_process(), etimer_process).  The exception is a process that was   *)
(* exited once more before all had been told: it may be started again      *)
(* meanwhile, and the first exit then unlinks it although it runs.         *)
TellsTimer(p) == \E i \in DOMAIN work :
  \/ work[i].f = "exit" /\ work[i].q = p /\ ETimer \in Reach(Following(work[i].p))
  \/ work[i].f \in {"call", "run"} /\ work[i].p = ETimer /\ work[i].q = p
ExitsSound ==
  /\ NULL \in Reach(head)
  /\ {p \in Proc : state[p] # "none"} \subseteq Listed \cup twice
  /\ \A p \in Listed : state[p] = "none" => p \in Exiting
  /\ \A p \in ToSet(timerlist) : state[p] = "none" => TellsTimer(p)

(* An event timer that has expired is announced to its process, as         *)
(* etimer.h promises, or moved by it.  There are two exceptions.  A        *)
(* process that owned the earliest timer has exited: the time of the next  *)
(* expiration is not updated then, and the other timers may not be looked  *)
(* at again.  And an interrupt that was late went past that time, between  *)
(* two looks at it (nothreads/timing.c): nothing is looked at again before *)
(* some timer is set, or the time is set back.                             *)
Due(p) == p \in ToSet(timerlist) /\ Expired(p)
Stale  == nextLeft \notin {Left(timer, p) : p \in ToSet(timerlist)}
TimersFireUnlessMissed == \A p \in Process : Due(p) ~> (~Due(p) \/ Stale \/ skipped)

(* A process that needs a poll gets it, but for the radio's while the CPU  *)
(* sleeps.                                                                 *)
PollServed ==
  \A p \in Proc : (p \in polls) ~> (p \notin polls \/ (p = Radio /\ loop = "asleep"))
=============================================================================
